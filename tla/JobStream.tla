------------------------------ MODULE JobStream ------------------------------
(***************************************************************************)
(* The output of a durable session, from the PTY on the remote machine to  *)
(* the job's file: the job manager (pkg/jobmanager/jobmanager.go) with its *)
(* StreamManager, the packets and acknowledgements of the two stream       *)
(* brokers, the readers and output loops of the main server and the        *)
(* reconnection of pkg/jobcontroller/jobcontroller.go.                     *)
(*                                                                         *)
(* Streams are numbered in the order they are made, the newest is the one  *)
(* jobStreamIds holds.  A link is one connection between the main server   *)
(* and the job manager; what is in flight on it is lost with it.           *)
(***************************************************************************)
EXTENDS StreamManager, StreamReader

CONSTANT MaxStreams   \* bound: streams made for the job

ASSUME StreamsAssumption == MaxStreams \in Nat \ {0}

VARIABLES
  link,      \* "down", "up", or "routed" once doReconnectJob has seen it
  live,      \* StreamManager.dataSender writes to this link
  writer,    \* the stream whose acknowledgements reach the StreamManager, or 0
  data,      \* data packets in flight
  acks,      \* acknowledgements in flight
  request,   \* the call in flight to the job manager
  prep,      \* progress of JobManager.PrepareConnect, which holds its lock
  pending,   \* JobManager.pendingStreamMeta: a stream, or 0
  stream,    \* jobStreamIds: the current stream
  readers,   \* the reader of each stream
  loops,     \* the output loop of each stream
  restart,   \* progress of restartStreaming; reconnectGroup allows one
  file,      \* the job's file: the stored bytes with the stream they came by
  gap,       \* its MetaKey_TotalGap
  done       \* job.StreamDone and StreamError: "no", "eof" or "error"

linkVars == <<link, live, writer, data, acks>>
remoteVars == <<prep, pending>>
localVars == <<stream, readers, loops, restart, file, gap, done>>
vars == <<managerVars, linkVars, request, remoteVars, localVars>>

Streams == 1..MaxStreams

NoRequest == [kind |-> "none", seq |-> 0]
NoPrep == [at |-> "idle", id |-> 0, seq |-> 0, head |-> 0, lost |-> FALSE]
NoRestart == [at |-> "idle", seq |-> 0, announced |-> 0, result |-> "none"]
NoLoop == [at |-> "off", chunk |-> <<>>, end |-> "none"]
Loop(at) == [NoLoop EXCEPT !.at = at]

\* The state StartJob leaves: stream 1 connected at both ends, its loop running.
Init ==
  /\ StartedWith(1, Window)
  /\ link = "routed" /\ live = TRUE /\ writer = 1 /\ data = {} /\ acks = {}
  /\ request = NoRequest /\ prep = NoPrep /\ pending = 0
  /\ stream = 1
  /\ readers = [i \in Streams |-> NewReader(0)]
  /\ loops = [i \in Streams |-> IF i = 1 THEN Loop("read") ELSE NoLoop]
  /\ restart = NoRestart
  /\ file = <<>> /\ gap = 0 /\ done = "no"

-----------------------------------------------------------------------------
(* The goroutines of the StreamManager.  ClientConnected holds the manager's *)
(* lock over several steps, which only the ring's own lock lets through.     *)

LockFree == prep.at \notin {"consume", "connect"}

PtyWrites ==
  /\ WriteByte \/ WriteBlocks
  /\ UNCHANGED <<linkVars, request, remoteVars, localVars>>

PtySignals ==
  /\ LockFree
  /\ SignalSender
  /\ UNCHANGED <<linkVars, request, remoteVars, localVars>>

PtyFinishes ==
  /\ LockFree
  /\ \E event \in {"eof", "error"} : PtyEnds(event)
  /\ UNCHANGED <<linkVars, request, remoteVars, localVars>>

\* A packet given to the sender of a link that is gone goes nowhere.
Posted(p) == IF live THEN data \cup {p} ELSE data

SenderSends ==
  /\ LockFree
  /\ \/ SendData /\ data' = Posted(DataPacket)
     \/ SendTerminal /\ data' = Posted(TerminalPacket)
  /\ UNCHANGED <<link, live, writer, acks, request, remoteVars, localVars>>

SenderWaits ==
  /\ LockFree
  /\ SenderSleeps
  /\ UNCHANGED <<linkVars, request, remoteVars, localVars>>

-----------------------------------------------------------------------------
(* Acknowledgements.                                                        *)

\* An acknowledgement that counts the bytes that wait to be read once more.
AckPastBuffer(id, r, fin, cancel) ==
  [id |-> id, seq |-> r.next + Len(r.buf), rwnd |-> Rwnd(r), fin |-> fin, cancel |-> cancel]

Ack(id, r, fin, cancel) ==
  [id |-> id, seq |-> r.next, rwnd |-> Rwnd(r), fin |-> fin, cancel |-> cancel]

Answered(ack) == IF link = "down" THEN acks ELSE acks \cup {ack}

\* processRecvAck hands it to the writer, and forgets the writer after the last.
AckArrives(ack) ==
  /\ LockFree
  /\ acks' = acks \ {ack}
  /\ IF writer = ack.id
       THEN /\ RecvAck(ack) \/ RecvFin(ack) \/ RecvOutside(ack) \/ RecvIgnored(ack)
            /\ writer' = IF ack.fin \/ ack.cancel THEN 0 ELSE writer
       ELSE UNCHANGED <<managerVars, writer>>
  /\ UNCHANGED <<link, live, data, request, remoteVars, localVars>>

\* RecvData of the packet's reader.
DataArrives(p) ==
  LET r == readers[p.id]
      s == RecvData(r, p)
  IN  /\ readers' = [readers EXCEPT ![p.id] = s]
      /\ data' = data \ {p}
      /\ acks' = IF RecvAcks(r, p)
                   THEN Answered(Ack(p.id, s, s.eof \/ s.failed, FALSE))
                   ELSE acks
      /\ UNCHANGED <<managerVars, link, live, writer, request, remoteVars, stream,
                     loops, restart, file, gap, done>>

\* The broker has forgotten the reader and says so.
DataRefused(p) ==
  /\ Finished(readers[p.id])
  /\ data' = data \ {p}
  /\ acks' = Answered([id |-> p.id, seq |-> p.seq, rwnd |-> 0, fin |-> FALSE,
                       cancel |-> TRUE])
  /\ UNCHANGED <<managerVars, link, live, writer, request, remoteVars, localVars>>

-----------------------------------------------------------------------------
(* runOutputLoop.                                                           *)

LoopReads(i) ==
  LET r == readers[i]
      s == Read(r)
  IN  /\ loops[i].at = "read"
      /\ ~ReadWaits(r)
      /\ loops' = [loops EXCEPT ![i] = [at |-> "check", chunk |-> ReadChunk(r),
                                        end |-> ReadEnd(r)]]
      /\ readers' = [readers EXCEPT ![i] = s]
      /\ acks' = IF ReadAcks(r) THEN Answered(Ack(i, s, FALSE, FALSE)) ELSE acks
      /\ UNCHANGED <<managerVars, link, live, writer, data, request, remoteVars,
                     stream, restart, file, gap, done>>

\* The deferred Close of a loop that leaves.
CloseReader(i) ==
  /\ readers' = [readers EXCEPT ![i] = Close(@)]
  /\ acks' = IF readers[i].closed THEN acks ELSE Answered(Ack(i, readers[i], FALSE, TRUE))

LoopGoesOn(i) ==
  /\ loops[i].at = "check"
  /\ stream = i
  /\ loops' = [loops EXCEPT ![i].at = "act"]
  /\ UNCHANGED <<managerVars, linkVars, request, remoteVars, stream, readers, restart,
                 file, gap, done>>

LoopSuperseded(i) ==
  /\ loops[i].at = "check"
  /\ stream # i
  /\ loops' = [loops EXCEPT ![i] = NoLoop]
  /\ CloseReader(i)
  /\ UNCHANGED <<managerVars, link, live, writer, data, request, remoteVars, stream,
                 restart, file, gap, done>>

LoopStores(i) ==
  /\ loops[i].at = "act"
  /\ loops[i].end = "none"
  /\ file' = file \o [k \in DOMAIN loops[i].chunk |-> [id |-> i, pos |-> loops[i].chunk[k]]]
  /\ loops' = [loops EXCEPT ![i] = Loop("read")]
  /\ UNCHANGED <<managerVars, linkVars, request, remoteVars, stream, readers, restart,
                 gap, done>>

LoopEnds(i) ==
  /\ loops[i].at = "act"
  /\ loops[i].end # "none"
  /\ done' = IF loops[i].end = "eof" THEN "eof" ELSE "error"
  /\ loops' = [loops EXCEPT ![i].at = "off"]
  /\ CloseReader(i)
  /\ UNCHANGED <<managerVars, link, live, writer, data, request, remoteVars, stream,
                 restart, file, gap>>

-----------------------------------------------------------------------------
(* The link and the main server.                                            *)

LinkDrops ==
  /\ link # "down"
  /\ link' = "down"
  /\ live' = FALSE
  /\ writer' = 0
  /\ data' = {}
  /\ acks' = {}
  /\ request' = NoRequest
  /\ prep' = [prep EXCEPT !.lost = (prep.at # "idle")]
  /\ UNCHANGED <<managerVars, pending, localVars>>

LinkComesUp ==
  /\ link = "down"
  /\ link' = "up"
  /\ UNCHANGED <<managerVars, live, writer, data, acks, request, remoteVars, localVars>>

\* The main server stops and starts again: only what is stored survives.
ServerRestarts ==
  /\ link' = "down"
  /\ live' = FALSE
  /\ writer' = 0
  /\ data' = {}
  /\ acks' = {}
  /\ request' = NoRequest
  /\ prep' = [prep EXCEPT !.lost = (prep.at # "idle")]
  /\ readers' = [i \in Streams |-> IF i <= stream THEN [NewReader(0) EXCEPT !.closed = TRUE]
                                                  ELSE readers[i]]
  /\ loops' = [i \in Streams |-> NoLoop]
  /\ restart' = NoRestart
  /\ UNCHANGED <<managerVars, pending, stream, file, gap, done>>

-----------------------------------------------------------------------------
(* restartStreaming, reached from doReconnectJob when the job is not yet    *)
(* connected.                                                               *)

RestartStats ==
  /\ restart.at = "idle"
  /\ link = "up"
  /\ stream < MaxStreams
  /\ link' = "routed"
  /\ restart' = [NoRestart EXCEPT !.at = "open", !.seq = Len(file) + gap]
  /\ UNCHANGED <<managerVars, live, writer, data, acks, request, remoteVars, stream,
                 readers, loops, file, gap, done>>

\* The new stream is current from here on; the call goes out if it can.
RestartCalls ==
  /\ restart.at = "open"
  /\ stream' = stream + 1
  /\ readers' = [readers EXCEPT ![stream + 1] = NewReader(restart.seq)]
  /\ restart' = [restart EXCEPT !.at = "prepare"]
  /\ request' = IF link = "routed" THEN [kind |-> "prepare", seq |-> restart.seq]
                                   ELSE NoRequest
  /\ UNCHANGED <<managerVars, linkVars, remoteVars, loops, file, gap, done>>

\* The answer does not arrive: the link is gone, or the call timed out.
RestartFails ==
  /\ restart.at \in {"prepare", "prepared", "start", "started"}
  /\ restart' = NoRestart
  /\ CloseReader(stream)
  /\ UNCHANGED <<managerVars, link, live, writer, data, request, remoteVars, stream,
                 loops, file, gap, done>>

\* The answer of PrepareConnect: an error, or the stream is over,
RestartEnds ==
  /\ restart.at = "prepared"
  /\ restart.result # "ok"
  /\ restart' = NoRestart
  /\ done' = IF restart.result = "refused" \/ done # "no" THEN done ELSE restart.result
  /\ CloseReader(stream)
  /\ UNCHANGED <<managerVars, link, live, writer, data, request, remoteVars, stream,
                 loops, file, gap>>

\* RestartGoesOn whose reader does not skip the gap.
RestartGoesOnUnskipped ==
  /\ restart.at = "prepared"
  /\ restart.result = "ok"
  /\ gap' = IF restart.announced > restart.seq
              THEN gap + (restart.announced - restart.seq) ELSE gap
  /\ restart' = [restart EXCEPT !.at = "start"]
  /\ request' = IF link = "routed" THEN [kind |-> "start", seq |-> 0] ELSE NoRequest
  /\ UNCHANGED <<managerVars, linkVars, remoteVars, stream, readers, loops, file, done>>

\* or a position from which to go on; what lies between is the gap.
RestartGoesOn ==
  /\ restart.at = "prepared"
  /\ restart.result = "ok"
  /\ IF restart.announced > restart.seq
       THEN /\ gap' = gap + (restart.announced - restart.seq)
            /\ readers' = [readers EXCEPT ![stream] = UpdateNextSeq(@, restart.announced)]
       ELSE UNCHANGED <<gap, readers>>
  /\ restart' = [restart EXCEPT !.at = "start"]
  /\ request' = IF link = "routed" THEN [kind |-> "start", seq |-> 0] ELSE NoRequest
  /\ UNCHANGED <<managerVars, linkVars, remoteVars, stream, loops, file, done>>

RestartRunsLoop ==
  /\ restart.at = "started"
  /\ restart' = NoRestart
  /\ loops' = [loops EXCEPT ![stream] = Loop("read")]
  /\ UNCHANGED <<managerVars, linkVars, request, remoteVars, stream, readers, file,
                 gap, done>>

-----------------------------------------------------------------------------
(* JobManager.PrepareConnect and StartStream.                               *)

\* An answer reaches the restart that still waits for it.
Replies(at, id, result, announced) ==
  restart' = IF restart.at = at /\ stream = id /\ ~prep.lost
               THEN [restart EXCEPT !.at = IF at = "prepare" THEN "prepared" ELSE "started",
                                    !.result = result, !.announced = announced]
               ELSE restart

\* The stream is over: nothing is connected.
PrepareFindsDone ==
  /\ request.kind = "prepare"
  /\ prep.at = "idle"
  /\ terminalAcked
  /\ request' = NoRequest
  /\ Replies("prepare", stream, terminalEvent, request.seq)
  /\ UNCHANGED <<managerVars, linkVars, remoteVars, stream, readers, loops, file, gap, done>>

\* connectToStreamHelper disconnects the stream that is still connected,
PrepareDisconnects ==
  /\ request.kind = "prepare"
  /\ prep.at = "idle"
  /\ ~terminalAcked
  /\ request' = NoRequest
  /\ prep' = [NoPrep EXCEPT !.at = "head", !.id = stream, !.seq = request.seq]
  /\ ClientDisconnected
  /\ UNCHANGED <<linkVars, pending, localVars>>

\* and calls ClientConnected, which reads the head of the ring,
PrepareReadsHead ==
  /\ prep.at = "head"
  /\ prep' = [prep EXCEPT !.at = "consume", !.head = HeadPos]
  /\ UNCHANGED <<managerVars, linkVars, request, pending, localVars>>

\* drops what the client has,
PrepareConsumes ==
  /\ prep.at = "consume"
  /\ LET ahead == prep.seq - prep.head
     IN  IF ahead > count
           THEN /\ prep' = NoPrep
                /\ Replies("prepare", prep.id, "refused", 0)
                /\ UNCHANGED managerVars
           ELSE /\ prep' = [prep EXCEPT !.at = "connect",
                                        !.head = IF ahead > 0 THEN HeadPos + ahead ELSE @]
                /\ ConsumeBytes(ahead)
                /\ UNCHANGED restart
  /\ UNCHANGED <<linkVars, request, pending, stream, readers, loops, file, gap, done>>

\* and connects with the window closed.
PrepareConnects ==
  /\ prep.at = "connect"
  /\ ClientConnected(prep.id, 0)
  /\ live' = ~prep.lost
  /\ pending' = prep.id
  /\ prep' = NoPrep
  /\ Replies("prepare", prep.id, "ok",
             IF prep.seq > prep.head THEN prep.seq ELSE prep.head)
  /\ UNCHANGED <<link, writer, data, acks, request, stream, readers, loops, file, gap, done>>

\* StartStream attaches the StreamManager to the broker and opens the window.
StartsStream ==
  /\ request.kind = "start"
  /\ prep.at = "idle"
  /\ request' = NoRequest
  /\ writer' = pending
  /\ pending' = 0
  /\ SetRwndSize(Window)
  /\ Replies("start", pending, "ok", 0)
  /\ UNCHANGED <<link, live, data, acks, prep, stream, readers, loops, file, gap, done>>

-----------------------------------------------------------------------------
Delivery == (\E ack \in acks : AckArrives(ack)) \/ (\E p \in data : DataArrives(p))
OutputLoop(i) == LoopReads(i) \/ LoopGoesOn(i) \/ LoopSuperseded(i) \/ LoopStores(i) \/ LoopEnds(i)
Preparing == PrepareFindsDone \/ PrepareDisconnects \/ PrepareReadsHead \/ PrepareConsumes
               \/ PrepareConnects \/ StartsStream
Restarting == RestartStats \/ RestartCalls \/ RestartEnds \/ RestartGoesOn \/ RestartRunsLoop

Next ==
  \/ PtyWrites \/ PtySignals \/ PtyFinishes
  \/ SenderSends \/ SenderWaits
  \/ Delivery \/ \E p \in data : DataRefused(p)
  \/ \E i \in Streams : OutputLoop(i)
  \/ Preparing \/ Restarting \/ RestartFails
  \/ LinkDrops \/ LinkComesUp \/ ServerRestarts

Spec == Init /\ [][Next]_vars

\* Every goroutine runs, what is in flight on a link arrives while it is up, and
\* the process ends.  A link may stay down, a call may be answered in time.
Fairness ==
  /\ WF_vars(PtyWrites) /\ WF_vars(PtySignals) /\ WF_vars(PtyFinishes)
  /\ WF_vars(SenderSends) /\ WF_vars(SenderWaits)
  /\ WF_vars(Delivery)
  /\ \A i \in Streams : WF_vars(OutputLoop(i))
  /\ WF_vars(Preparing) /\ WF_vars(Restarting)

LiveSpec == Spec /\ Fairness
-----------------------------------------------------------------------------
Positions0 == 0..MaxBytes

Packets == [id : Streams, seq : Positions0, len : Positions0,
            kind : {"data", "eof", "error"}]
Readers == [next : Nat, buf : Seq(Positions0), ooo : SUBSET Packets, eof : BOOLEAN,
            failed : BOOLEAN, closed : BOOLEAN, lastRwnd : 0..Window]

\* The remote end is a StreamManager among clients that may say anything.
Remote == INSTANCE StreamManagerOpen WITH StreamIds <- Streams, MaxRwnd <- Window

\* Whatever the brokers and the controller do, the remote end only takes steps
\* that it may take among arbitrary clients.
RemoteIsStreamManager == Remote!Spec

\* The types of the state, and the bounds of the ring and of its windows.  What the
\* main server believes to have may lie beyond what the process wrote.
TypeOK ==
  /\ Remote!TypeOK
  /\ link \in {"down", "up", "routed"} /\ live \in BOOLEAN /\ writer \in 0..MaxStreams
  /\ data \subseteq Packets
  /\ acks \subseteq [id : Streams, seq : Nat, rwnd : 0..Window, fin : BOOLEAN,
                     cancel : BOOLEAN]
  /\ request \in [kind : {"none", "prepare", "start"}, seq : Nat]
  /\ prep \in [at : {"idle", "head", "consume", "connect"}, id : 0..MaxStreams,
               seq : Nat, head : Positions0, lost : BOOLEAN]
  /\ pending \in 0..MaxStreams /\ stream \in Streams
  /\ readers \in [Streams -> Readers]
  /\ loops \in [Streams -> [at : {"off", "read", "check", "act"}, chunk : Seq(Positions0),
                            end : {"none", "eof", "error", "closed"}]]
  /\ restart \in [at : {"idle", "open", "prepare", "prepared", "start", "started"},
                  seq : Nat, announced : Nat,
                  result : {"none", "ok", "refused", "eof", "error"}]
  /\ file \in Seq([id : Streams, pos : Positions0]) /\ gap \in Nat
  /\ done \in {"no", "eof", "error"}

\* Flow control: what a reader holds, in order or set aside, fits its window,
\* although the window the sender knows is older than the reader's own.
HeldBytes(r) == Len(r.buf) + Cardinality(UNION {{<<p, k>> : k \in 1..p.len} : p \in r.ooo})
WindowRespected == \A i \in Streams : HeldBytes(readers[i]) <= Window

\* The bytes a running loop has stored, holds and can still read are a run of
\* consecutive positions that ends where its reader expects the next byte: no
\* packet is lost, repeated or misplaced between the network and the file.
Held(i) == loops[i].chunk \o readers[i].buf
StoredFrom(i, k) == {l \in k..Len(file) : file[l].id = i}
OutputContiguous ==
  \A i \in Streams : loops[i].at # "off" =>
    LET first == readers[i].next - Len(Held(i))   \* the position after the last stored
    IN  /\ \A k \in DOMAIN Held(i) : Held(i)[k] = first + k - 1
        /\ \A k \in DOMAIN file :
             file[k].id = i => file[k].pos = first - Cardinality(StoredFrom(i, k))

\* While a stream runs on a ring that has never been full, bytes leave the ring
\* only after its reader has them.
DroppedOnlyWhenReceived ==
  total <= RingSize /\ connected /\ loops[streamId].at # "off"
    => HeadPos <= readers[streamId].next

\* The end of the stream is stored after everything the stream carried.
EndAfterOutput ==
  \A i \in Streams : loops[i].end = "eof" =>
    readers[i].next = total /\ readers[i].buf = <<>>

\* Flow control and the end of a stream, with the types of both sides.
StreamInv == TypeOK /\ WindowRespected /\ EndAfterOutput

\* ClientConnected reads the ring's head, lets go of the ring, and corks it later.  Whatever
\* was consumed or written between, the position it announces is never past the oldest
\* byte of the ring, and is that byte unless the ring is full: only output that
\* overwrites makes it stale.
ResumesAtHead ==
  /\ restart.at \in {"prepared", "start"}
  /\ restart.result = "ok"
  /\ connected
  /\ streamId = stream
  => /\ restart.announced <= HeadPos
     /\ count < RingSize => restart.announced = HeadPos

-----------------------------------------------------------------------------
(* With a single stream the job's file is what ByteStream promises.         *)

Abstract == INSTANCE ByteStream WITH
  written <- total,
  stored  <- [k \in DOMAIN file |-> file[k].pos],
  over    <- done

OneStreamKept == Abstract!Spec

\* On a link that stays up, the output loop of the current stream reaches its end.
RunningLoopReachesEnd ==
  \A i \in Streams :
    loops[i].at = "read" /\ stream = i /\ link = "routed"
      ~> link # "routed" \/ stream # i \/ done # "no"

-----------------------------------------------------------------------------
(* What the documentation says of durable sessions.                         *)

\* "Buffers terminal output while disconnected": a process is not held up by a
\* link that is down while the ring has room.
BuffersWhileDisconnected ==
  link = "down" /\ blocked /\ count < RingSize
    ~> link # "down" \/ ~blocked \/ count = RingSize

\* "picking up right where you left off": no byte is stored twice.
PicksUpWhereLeft ==
  \A k, l \in DOMAIN file : k < l => file[k].pos < file[l].pos

=============================================================================
