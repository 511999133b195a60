--------------------------- MODULE JobStreamProofs ---------------------------
(***************************************************************************)
(* What holds of a durable session's output for every size of the ring and *)
(* of the windows and any number of reconnections.                         *)
(***************************************************************************)
EXTENDS JobStream, SequenceTheorems, FiniteSetTheorems, WellFoundedInduction, TLAPS

-----------------------------------------------------------------------------
(* The inductive invariant.                                                 *)

End(p) == p.seq + p.len
Unread(r) == r.next - Len(r.buf)     \* the position of the next byte to be read

\* Which stream is where: the remote end has seen the streams up to streamId, and
\* a call that prepares a stream is about one it has not.
IdsInv ==
  /\ 1 <= streamId /\ streamId <= stream
  /\ writer <= streamId /\ pending <= streamId
  /\ \A p \in data : p.id <= streamId
  /\ \A ack \in acks : ack.id <= stream
  /\ \A i \in Streams : \A p \in readers[i].ooo : p.id = i
  /\ prep.at # "idle" => ~connected /\ streamId < prep.id /\ prep.id <= stream
  /\ request.kind = "prepare" => streamId < stream /\ (prep.at # "idle" => prep.id < stream)

\* The call, its handler and the restart that made it.
RestartInv ==
  /\ link # "routed" => request.kind = "none" /\ (prep.at # "idle" => prep.lost)
  /\ request.kind = "prepare" => restart.at \in {"idle", "prepare"}
  /\ request.kind = "prepare" /\ restart.at = "prepare" => request.seq = restart.seq
  /\ request.kind = "start" => restart.at \in {"idle", "start"}
  /\ request.kind = "start" => streamId = stream /\ (restart.at = "start" \/ readers[stream].closed)
  /\ prep.at # "idle" /\ ~prep.lost /\ restart.at # "idle" =>
       restart.at = "prepare" /\ prep.id = stream /\ prep.seq = restart.seq
  /\ restart.at \in {"prepared", "start", "started"} => prep.at = "idle"
  /\ restart.at = "open" => stream < MaxStreams
  /\ prep.at = "idle" => ~prep.lost

\* What says that the process has ended is so.
TerminalInv ==
  /\ terminalAcked => terminalEvent # "none"
  /\ \A ack \in acks : ack.fin => terminalEvent # "none"
  /\ \A i \in Streams : readers[i].failed => terminalEvent # "none"
  /\ restart.at = "prepared" => restart.result # "none"

\* The stream that is prepared is connected, and corked until it is started.
Connecting == restart.at \in {"start", "started"} \/ (restart.at = "prepared" /\ restart.result = "ok")
CorkedInv ==
  /\ Connecting => connected /\ streamId = stream
  /\ Connecting /\ restart.at # "started" => pending = stream
  /\ restart.at \in {"prepare", "prepared", "start"} =>
       /\ writer # stream
       /\ streamId = stream => rwndSize = 0 /\ sentNotAcked = 0
       /\ \A p \in data \cup readers[stream].ooo : p.id = stream => p.kind # "data"
       /\ readers[stream].buf = <<>>
       /\ restart.at # "start" => readers[stream].next = restart.seq
       /\ restart.at = "start" => readers[stream].next = restart.announced

\* A stream whose loop has not run has stored nothing.
Unrun(i) == loops[i] = NoLoop /\ \A k \in DOMAIN file : file[k].id # i
Untouched(r) == r.buf = <<>> /\ r.ooo = {} /\ ~r.eof /\ ~r.failed
LoopsInv ==
  /\ \A i \in Streams : i > streamId => Unrun(i) /\ Untouched(readers[i])
  /\ restart.at \notin {"idle", "open"} => Unrun(stream) /\ ~readers[stream].closed
  /\ \A i \in Streams :
       /\ loops[i].at # "off" => ~readers[i].closed
       /\ loops[i].at = "read" => loops[i] = Loop("read")
       /\ loops[i].end # "none" => loops[i].chunk = <<>>
       /\ loops[i].end = "eof" => readers[i].eof /\ readers[i].buf = <<>>

\* The bytes of a reader that is not closed are a run that ends where it goes on.
Contiguous(i) ==
  LET first == readers[i].next - Len(Held(i))
  IN  /\ \A k \in DOMAIN Held(i) : Held(i)[k] = first + k - 1
      /\ \A k \in DOMAIN file :
           file[k].id = i => file[k].pos = first - Cardinality(StoredFrom(i, k))
ContiguityInv == \A i \in Streams : ~readers[i].closed => Contiguous(i)

\* Packets are of what has been written, the terminal one ends it.
PacketOk(p) ==
  /\ End(p) <= total
  /\ p.kind = "data" <=> p.len > 0
  /\ p.kind # "data" => p.seq = total /\ terminalEvent # "none"
PacketsInv ==
  /\ \A p \in data : PacketOk(p)
  /\ \A i \in Streams : \A p \in readers[i].ooo : PacketOk(p)
  /\ \A i \in Streams : readers[i].eof => readers[i].next = total /\ terminalEvent # "none"
  /\ connected /\ (\/ \E p \in data \cup readers[streamId].ooo : p.id = streamId /\ p.kind # "data"
                   \/ readers[streamId].eof \/ readers[streamId].failed)
       => count = 0 /\ terminalEvent # "none"

\* What the clients say they have is not ahead of what was written.
BoundsInv ==
  /\ readers[streamId].next <= total
  /\ \A ack \in acks : ack.id = streamId => ack.seq <= total
  /\ request.kind = "prepare" =>
       /\ readers[stream].next <= request.seq
       /\ \A ack \in acks : ack.id = stream => ack.seq <= request.seq
  /\ prep.at # "idle" =>
       /\ readers[prep.id].next <= prep.seq
       /\ \A ack \in acks : ack.id = prep.id => ack.seq <= prep.seq

\* Where the ring starts while a stream is connected to it.
HeadInv ==
  /\ ~connected => windowSize = RingSize
  /\ prep.at = "consume" => prep.head <= HeadPos /\ (count < RingSize => prep.head = HeadPos)
  /\ prep.at = "connect" =>
       /\ prep.head <= HeadPos /\ prep.seq <= HeadPos
       /\ count < RingSize => prep.head = HeadPos
  /\ restart.at \in {"prepared", "start"} /\ restart.result = "ok" =>
       /\ restart.at = "prepared" => restart.seq <= restart.announced
       /\ restart.announced <= HeadPos
       /\ count < RingSize => restart.announced = HeadPos
  /\ restart.at = "start" => restart.result = "ok"

DroppedInv ==
  /\ total <= RingSize
  /\ connected
  /\ loops[streamId].at # "off" \/ (streamId = stream /\ restart.at = "started")
  => HeadPos <= readers[streamId].next

\* Acknowledgements of a reader that still reads are not ahead of it.
AcksInv ==
  \A ack \in acks :
    ~Finished(readers[ack.id]) =>
      /\ ack.seq <= readers[ack.id].next
      /\ ack.seq + ack.rwnd <= Unread(readers[ack.id]) + Window

\* Flow control.  The packets of a stream that a reader holds or will take are
\* disjoint; they fit the window that starts at the next byte to be read or, when
\* the reader waits for bytes that were overwritten, some window further on.
Coming(i) ==
  {p \in readers[i].ooo : p.kind = "data"}
    \cup (IF Finished(readers[i]) THEN {} ELSE {p \in data : p.id = i /\ p.kind = "data"})
Disjoint(p, q) == End(p) <= q.seq \/ End(q) <= p.seq
FlowInv ==
  \A i \in Streams :
    LET r == readers[i]
    IN  /\ Len(r.buf) <= Window
        /\ \A p \in Coming(i) : r.next <= p.seq
        /\ \A p, q \in Coming(i) : p # q => Disjoint(p, q)
        /\ ~Finished(r) => \A p \in data \cap r.ooo : p.kind # "data"
        /\ \/ \A p \in Coming(i) : End(p) <= Unread(r) + Window
           \/ /\ r.buf = <<>>
              /\ \A p \in Coming(i) : r.next < p.seq
              /\ \A p, q \in Coming(i) : End(p) <= q.seq + Window

\* The window the sender knows.
SenderInv ==
  LET r == readers[streamId]
      sent == HeadPos + sentNotAcked
  IN  connected /\ ~Finished(r) =>
        /\ r.next <= sent
        /\ \A p \in Coming(streamId) : End(p) <= sent
        /\ HeadPos <= r.next =>
             /\ HeadPos + rwndSize <= Unread(r) + Window
             /\ sent <= Unread(r) + Window
        /\ HeadPos > r.next =>
             /\ r.buf = <<>>
             /\ \A p \in Coming(streamId) : HeadPos <= p.seq
             /\ sent <= HeadPos + Window


\* What holds of the remote end whoever talks to it.
RemoteInv ==
  /\ Remote!TypeOK /\ Remote!ModeFollowsClient
  /\ Remote!BlockedOnlyWhenFull /\ Remote!SenderMissesNothing

FiniteInv == \A i \in Streams : IsFiniteSet(readers[i].ooo)

IInv ==
  /\ TypeOK /\ RemoteInv /\ FiniteInv
  /\ IdsInv /\ RestartInv /\ TerminalInv /\ CorkedInv /\ LoopsInv
  /\ ContiguityInv /\ PacketsInv /\ BoundsInv /\ HeadInv /\ DroppedInv
  /\ AcksInv /\ FlowInv /\ SenderInv
-----------------------------------------------------------------------------
(* The remote end is a StreamManager: its theorems hold of it.              *)

RemoteProofs == INSTANCE StreamManagerProofs WITH StreamIds <- Streams, MaxRwnd <- Window

\* The steps of a StreamManager among these streams.
ManagerStep ==
  \/ WriteByte \/ WriteBlocks \/ SignalSender
  \/ \E event \in {"eof", "error"} : PtyEnds(event)
  \/ SendData \/ SendTerminal \/ SenderSleeps
  \/ ClientDisconnected
  \/ \E n \in 0..MaxBytes : ConsumeBytes(n)
  \/ \E id \in Streams, rwnd \in 0..Window : ClientConnected(id, rwnd)
  \/ \E rwnd \in 0..Window : SetRwndSize(rwnd)
  \/ \E ack \in [id : Streams, seq : 0..MaxBytes, rwnd : 0..Window, fin : BOOLEAN,
                 cancel : BOOLEAN] :
       RecvAck(ack) \/ RecvFin(ack) \/ RecvOutside(ack) \/ RecvIgnored(ack)

\* The instance that is proved about and the one that is refined are the same.
LEMMA SameStep == [RemoteProofs!Next]_(RemoteProofs!managerVars) <=> [Remote!Next]_(Remote!managerVars)
  BY DEF RemoteProofs!Rwnds, Remote!Rwnds, RemoteProofs!Acks, Remote!Acks,
         RemoteProofs!HeadPos, Remote!HeadPos, RemoteProofs!Smaller, Remote!Smaller,
         RemoteProofs!EffectiveWindow, Remote!EffectiveWindow, RemoteProofs!Room,
         Remote!Room, RemoteProofs!CanSendData, Remote!CanSendData,
         RemoteProofs!CanSendTerminal, Remote!CanSendTerminal, RemoteProofs!NoAck,
         Remote!NoAck, RemoteProofs!ringVars, Remote!ringVars, RemoteProofs!sessionVars,
         Remote!sessionVars, RemoteProofs!terminalVars, Remote!terminalVars,
         RemoteProofs!managerVars, Remote!managerVars, RemoteProofs!SetEffectiveWindow,
         Remote!SetEffectiveWindow, RemoteProofs!PtyReady, Remote!PtyReady,
         RemoteProofs!WriteByte, Remote!WriteByte, RemoteProofs!WriteBlocks,
         Remote!WriteBlocks, RemoteProofs!SignalSender, Remote!SignalSender,
         RemoteProofs!PtyEnds, Remote!PtyEnds, RemoteProofs!SenderRuns,
         Remote!SenderRuns, RemoteProofs!SenderSleeps, Remote!SenderSleeps,
         RemoteProofs!PacketSize, Remote!PacketSize, RemoteProofs!SendData,
         Remote!SendData, RemoteProofs!SendTerminal, Remote!SendTerminal,
         RemoteProofs!ClientDisconnected, Remote!ClientDisconnected,
         RemoteProofs!ConsumeBytes, Remote!ConsumeBytes, RemoteProofs!ClientConnected,
         Remote!ClientConnected, RemoteProofs!Stale, Remote!Stale,
         RemoteProofs!InFlight, Remote!InFlight, RemoteProofs!TakesAck, Remote!TakesAck,
         RemoteProofs!RecvFin, Remote!RecvFin, RemoteProofs!RecvIgnored,
         Remote!RecvIgnored, RemoteProofs!RecvOutside, Remote!RecvOutside,
         RemoteProofs!RecvAck, Remote!RecvAck, RemoteProofs!SetRwndSize,
         Remote!SetRwndSize, RemoteProofs!Goroutines, Remote!Goroutines,
         RemoteProofs!Calls, Remote!Calls, RemoteProofs!Answers, Remote!Answers,
         RemoteProofs!Next, Remote!Next

LEMMA ManagerStepIsRemote == [ManagerStep]_managerVars <=> [Remote!Next]_(Remote!managerVars)
  BY DEF ManagerStep, Remote!Rwnds, Remote!Acks, Remote!HeadPos, Remote!Smaller,
         Remote!EffectiveWindow, Remote!Room, Remote!CanSendData,
         Remote!CanSendTerminal, Remote!NoAck, Remote!ringVars, Remote!sessionVars,
         Remote!terminalVars, Remote!managerVars, Remote!SetEffectiveWindow,
         Remote!PtyReady, Remote!WriteByte, Remote!WriteBlocks, Remote!SignalSender,
         Remote!PtyEnds, Remote!SenderRuns, Remote!SenderSleeps, Remote!PacketSize,
         Remote!SendData, Remote!SendTerminal, Remote!ClientDisconnected,
         Remote!ConsumeBytes, Remote!ClientConnected, Remote!Stale, Remote!InFlight,
         Remote!TakesAck, Remote!RecvFin, Remote!RecvIgnored, Remote!RecvOutside,
         Remote!RecvAck, Remote!SetRwndSize, Remote!Goroutines, Remote!Calls,
         Remote!Answers, Remote!Next, HeadPos, Smaller, EffectiveWindow, Room,
         CanSendData, CanSendTerminal, NoAck, ringVars, sessionVars, terminalVars,
         managerVars, SetEffectiveWindow, PtyReady, WriteByte, WriteBlocks,
         SignalSender, PtyEnds, SenderRuns, SenderSleeps, PacketSize, SendData,
         SendTerminal, ClientDisconnected, ConsumeBytes, ClientConnected, Stale,
         InFlight, TakesAck, RecvFin, RecvIgnored, RecvOutside, RecvAck, SetRwndSize

LEMMA SameInv == RemoteInv <=> RemoteProofs!Inv
  BY DEF RemoteInv, RemoteProofs!Inv, RemoteProofs!TypeOK, Remote!TypeOK,
         RemoteProofs!ModeFollowsClient, Remote!ModeFollowsClient,
         RemoteProofs!BlockedOnlyWhenFull, Remote!BlockedOnlyWhenFull,
         RemoteProofs!SenderMissesNothing, Remote!SenderMissesNothing,
         RemoteProofs!CanSendData, Remote!CanSendData, RemoteProofs!CanSendTerminal,
         Remote!CanSendTerminal, RemoteProofs!Room, Remote!Room,
         RemoteProofs!EffectiveWindow, Remote!EffectiveWindow, RemoteProofs!Smaller,
         Remote!Smaller, RemoteProofs!Rwnds, Remote!Rwnds

LEMMA SameInit == Remote!Init <=> RemoteProofs!Init
  BY DEF RemoteProofs!Init, Remote!Init, RemoteProofs!StartedWith, Remote!StartedWith,
         RemoteProofs!NoAck, Remote!NoAck, RemoteProofs!Smaller, Remote!Smaller,
         RemoteProofs!EffectiveWindow, Remote!EffectiveWindow, RemoteProofs!Rwnds,
         Remote!Rwnds

\* A step of the remote end keeps what StreamManagerProofs proves of it.
LEMMA RemoteStepKeeps == RemoteInv /\ [ManagerStep]_managerVars => RemoteInv'
<1>1. RemoteInv' <=> RemoteProofs!Inv'
  BY SameInv, PTL
<1>. QED BY <1>1, SameInv, SameStep, ManagerStepIsRemote, RemoteProofs!StepKeeps,
          ManagerAssumption, ReaderAssumption

LEMMA RemoteStarts == Remote!Init => RemoteInv
  BY SameInv, SameInit, RemoteProofs!Initial, ManagerAssumption, ReaderAssumption

-----------------------------------------------------------------------------
(* processOOOPackets.                                                       *)

LEMMA LeastNat ==
  ASSUME NEW S \in SUBSET Nat, S # {}
  PROVE  \E m \in S : \A n \in S : m <= n
<1> DEFINE R == OpToRel(<, Nat)
<1>1. IsWellFoundedOn(R, Nat)
  BY NatLessThanWellFounded
<1>2. PICK x \in S : \A y \in S : <<y, x>> \notin R
  BY <1>1, WFMin
<1>3. ASSUME NEW y \in S
      PROVE  x <= y
  <2>1. ~(y < x)
    BY <1>2 DEF OpToRel
  <2>. QED BY <2>1
<1>. QED BY <1>3

\* The lowest of some packets.
LEMMA LowestIs ==
  ASSUME NEW packets \in SUBSET Packets, packets # {}
  PROVE  Lowest(packets) \in packets /\ \A q \in packets : Lowest(packets).seq <= q.seq
<1> DEFINE S == {p.seq : p \in packets}
<1>1. S \in SUBSET Nat /\ S # {}
  BY ManagerAssumption DEF Packets, Positions0
<1>2. PICK m \in S : \A n \in S : m <= n
  BY <1>1, LeastNat
<1>3. PICK p \in packets : p.seq = m
  BY <1>2
<1>4. \A q \in packets : p.seq <= q.seq
  BY <1>2, <1>3
<1>. QED BY <1>3, <1>4 DEF Lowest

\* A recursive function whose next value depends on the last one has values.
Iteration(f, S, step, r, last) ==
  f \in [0..last -> S] /\ f[0] = r /\ \A n \in 1..last : f[n] = step[f[n - 1]]

LEMMA Iterates ==
  ASSUME NEW S, NEW step \in [S -> S], NEW r \in S, NEW last \in Nat
  PROVE  \E f : Iteration(f, S, step, r, last)
<1> USE DEF Iteration
<1> DEFINE Good(k, f) == Iteration(f, S, step, r, k)
           Bad == {k \in 0..last : \A f \in [0..k -> S] : ~Good(k, f)}
<1>1. SUFFICES ASSUME Bad # {} PROVE FALSE
  BY DEF Bad
<1>2. PICK k \in Bad : \A n \in Bad : k <= n
  <2>1. Bad \in SUBSET Nat
    OBVIOUS
  <2> HIDE DEF Bad
  <2>. QED BY <1>1, <2>1, LeastNat
<1>3. k \in 0..last
  OBVIOUS
<1>4. CASE k = 0
  <2> DEFINE f == [n \in 0..0 |-> r]
  <2>1. Good(0, f)
    OBVIOUS
  <2>. QED BY <1>4, <2>1
<1>5. CASE k # 0
  <2>1. k - 1 \in 0..last /\ k - 1 \notin Bad
    BY <1>2, <1>3, <1>5, SMTT(30)
  <2>2. PICK g \in [0..(k - 1) -> S] : Good(k - 1, g)
    BY <2>1
  <2> DEFINE f == [n \in 0..k |-> IF n = k THEN step[g[k - 1]] ELSE g[n]]
  <2>3. g[k - 1] \in S /\ step[g[k - 1]] \in S
    BY <1>3, <1>5, <2>2
  <2>4. f \in [0..k -> S]
    BY <1>3, <2>2, <2>3
  <2>5. f[0] = r
    BY <1>3, <1>5, <2>2
  <2>6. ASSUME NEW n \in 1..k
        PROVE  f[n] = step[f[n - 1]]
    <3>1. CASE n = k
      BY <1>3, <3>1
    <3>2. CASE n # k
      <4>1. n \in 1..(k - 1) /\ n \in 0..k /\ n - 1 \in 0..k /\ n - 1 # k
        BY <1>3, <3>2
      <4>2. f[n] = g[n] /\ f[n - 1] = g[n - 1]
        BY <3>2, <4>1
      <4>. QED BY <2>2, <4>1, <4>2
    <3>. QED BY <3>1, <3>2
  <2>. QED BY <2>4, <2>5, <2>6
<1>. QED BY <1>4, <1>5

\* What every turn of processOOOPackets keeps, the whole of it keeps.
LEMMA Drains ==
  ASSUME NEW S, NEW r \in S, IsFiniteSet(r.ooo), \A x \in S : ProcessOne(x) \in S
  PROVE  ProcessOoo(r) \in S
<1> DEFINE last == Cardinality(r.ooo)
           drained == CHOOSE f : f = [n \in 0..last |->
                                        IF n = 0 THEN r ELSE ProcessOne(f[n - 1])]
           step == [x \in S |-> ProcessOne(x)]
<1>1. last \in Nat
  BY FS_CardinalityType
<1>2. step \in [S -> S] /\ \A x \in S : step[x] = ProcessOne(x)
  OBVIOUS
<1> HIDE DEF last, step
<1>3. PICK f : Iteration(f, S, step, r, last)
  BY <1>1, <1>2, Iterates
<1> USE DEF Iteration
<1>4. f = [n \in 0..last |-> IF n = 0 THEN r ELSE ProcessOne(f[n - 1])]
  <2> SUFFICES ASSUME NEW n \in 0..last
               PROVE  f[n] = IF n = 0 THEN r ELSE ProcessOne(f[n - 1])
    BY <1>3
  <2>1. CASE n = 0
    BY <1>3, <2>1
  <2>2. CASE n # 0
    <3>1. n \in 1..last /\ n - 1 \in 0..last
      BY <1>1, <2>2
    <3>2. f[n - 1] \in S
      BY <1>3, <3>1
    <3>. QED BY <1>2, <1>3, <2>2, <3>1, <3>2
  <2>. QED BY <2>1, <2>2
<1>5. drained = [n \in 0..last |-> IF n = 0 THEN r ELSE ProcessOne(drained[n - 1])]
  BY <1>4
<1> HIDE DEF drained
<1>6. \A n \in 0..last : drained[n] \in S
  <2> DEFINE Bad == {n \in 0..last : drained[n] \notin S}
  <2>1. SUFFICES ASSUME Bad # {} PROVE FALSE
    OBVIOUS
  <2>2. PICK n \in Bad : \A m \in Bad : n <= m
    <3>1. Bad \in SUBSET Nat
      BY <1>1
    <3> HIDE DEF Bad
    <3>. QED BY <2>1, <3>1, LeastNat
  <2>3. n # 0
    BY <1>1, <1>5, <2>2
  <2>4. n - 1 \in 0..last /\ n - 1 \notin Bad
    BY <1>1, <2>2, <2>3
  <2>5. drained[n] = ProcessOne(drained[n - 1])
    BY <1>5, <2>2, <2>3
  <2>. QED BY <2>2, <2>4, <2>5
<1>7. ProcessOoo(r) = drained[last]
  BY DEF ProcessOoo, drained, last
<1>. QED BY <1>1, <1>6, <1>7

\* A packet that is next is appended.
LEMMA Ordered ==
  ASSUME NEW r \in Readers, NEW p \in Packets, End(p) <= MaxBytes, p.seq = r.next,
         NEW t, t = RecvDataOrdered(r, p)
  PROVE  /\ t \in Readers
         /\ t.next = End(p) /\ r.next <= t.next
         /\ Len(t.buf) = Len(r.buf) + p.len
         /\ \A k \in 1..Len(r.buf) : t.buf[k] = r.buf[k]
         /\ \A k \in (Len(r.buf) + 1)..Len(t.buf) : t.buf[k] = Unread(r) + k - 1
         /\ t.ooo = r.ooo /\ t.closed = r.closed /\ t.failed = r.failed
         /\ t.lastRwnd = r.lastRwnd /\ t.eof = (p.kind = "eof")
<1> DEFINE more == Positions(p)
<1>1. /\ p.seq \in Nat /\ p.len \in Nat /\ p.seq <= MaxBytes /\ p.len <= MaxBytes
      /\ MaxBytes \in Nat /\ r.next \in Nat /\ r.buf \in Seq(Positions0)
      /\ Len(r.buf) \in Nat
  BY ManagerAssumption DEF Packets, Positions0, Readers
<1>2. more = [i \in 1..p.len |-> p.seq + i - 1]
  BY DEF Positions
<1>3. more \in Seq(Positions0) /\ Len(more) = p.len
  <2>1. \A i \in 1..p.len : p.seq + i - 1 \in Positions0
    BY <1>1 DEF End, Positions0
  <2>. QED BY <1>1, <1>2, <2>1, IsASeq
<1>4. /\ t.buf = r.buf \o more /\ t.next = r.next + p.len /\ t.eof = (p.kind = "eof")
      /\ t.ooo = r.ooo /\ t.closed = r.closed /\ t.failed = r.failed
      /\ t.lastRwnd = r.lastRwnd
      /\ t = [r EXCEPT !.buf = r.buf \o more, !.next = r.next + p.len,
                       !.eof = (p.kind = "eof")]
  BY DEF RecvDataOrdered, Readers
<1> HIDE DEF more
<1>5. /\ t.buf \in Seq(Positions0) /\ Len(t.buf) = Len(r.buf) + p.len
      /\ \A k \in 1..Len(r.buf) : t.buf[k] = r.buf[k]
      /\ \A k \in (Len(r.buf) + 1)..(Len(r.buf) + p.len) : t.buf[k] = more[k - Len(r.buf)]
  <2>1. /\ r.buf \o more \in Seq(Positions0) /\ Len(r.buf \o more) = Len(r.buf) + p.len
        /\ \A k \in 1..(Len(r.buf) + p.len) :
             (r.buf \o more)[k] = IF k <= Len(r.buf) THEN r.buf[k] ELSE more[k - Len(r.buf)]
    <3>1. /\ r.buf \o more \in Seq(Positions0) /\ Len(r.buf \o more) = Len(r.buf) + Len(more)
          /\ \A k \in 1..(Len(r.buf) + Len(more)) :
               (r.buf \o more)[k] = IF k <= Len(r.buf) THEN r.buf[k] ELSE more[k - Len(r.buf)]
      BY <1>1, <1>3, ConcatProperties, Zenon
    <3>. QED BY <1>3, <3>1
  <2>2. ASSUME NEW k \in 1..Len(r.buf)
        PROVE  t.buf[k] = r.buf[k]
    <3>1. k \in 1..(Len(r.buf) + p.len) /\ k <= Len(r.buf)
      BY <1>1
    <3>. QED BY <1>4, <2>1, <3>1
  <2>3. ASSUME NEW k \in (Len(r.buf) + 1)..(Len(r.buf) + p.len)
        PROVE  t.buf[k] = more[k - Len(r.buf)]
    <3>1. k \in 1..(Len(r.buf) + p.len) /\ ~(k <= Len(r.buf))
      BY <1>1
    <3>. QED BY <1>4, <2>1, <3>1
  <2>. QED BY <1>4, <2>1, <2>2, <2>3
<1>6. ASSUME NEW k \in (Len(r.buf) + 1)..Len(t.buf)
      PROVE  t.buf[k] = Unread(r) + k - 1
  <2>1. k \in (Len(r.buf) + 1)..(Len(r.buf) + p.len) /\ k - Len(r.buf) \in 1..p.len
    BY <1>1, <1>5
  <2>2. more[k - Len(r.buf)] = p.seq + (k - Len(r.buf)) - 1
    BY <1>2, <2>1
  <2>3. t.buf[k] = p.seq + (k - Len(r.buf)) - 1
    BY <1>5, <2>1, <2>2
  <2>4. p.seq + (k - Len(r.buf)) - 1 = (r.next - Len(r.buf)) + k - 1
    <3>1. k \in Int
      BY <1>1, <2>1
    <3>2. \A a, b, c \in Int : a + (c - b) - 1 = (a - b) + c - 1
      OBVIOUS
    <3>3. r.next \in Int /\ Len(r.buf) \in Int
      BY <1>1
    <3>4. r.next + (k - Len(r.buf)) - 1 = (r.next - Len(r.buf)) + k - 1
      BY ONLY <3>1, <3>2, <3>3
    <3>. QED BY <3>4
  <2>. QED BY <2>3, <2>4 DEF Unread
<1>7. t \in Readers
  <2>1. r.next + p.len \in Nat /\ (p.kind = "eof") \in BOOLEAN /\ r.buf \o more \in Seq(Positions0)
    BY <1>1, <1>4, <1>5
  <2>. QED BY <1>4, <2>1 DEF Readers
<1>8. t.next = End(p) /\ r.next <= t.next
  BY <1>1, <1>4 DEF End
<1>. QED BY <1>4, <1>5, <1>6, <1>7, <1>8

\* What processOOOPackets makes of a reader: s has taken some of the packets set
\* aside.  Q are the packets of the stream with bytes that r has not taken.
Grown(r, s, Q) ==
  /\ s \in Readers /\ s.ooo \subseteq r.ooo
  /\ s.closed = r.closed /\ s.failed = r.failed
  /\ r.next <= s.next /\ Len(s.buf) = Len(r.buf) + (s.next - r.next)
  /\ \A k \in 1..Len(r.buf) : s.buf[k] = r.buf[k]
  /\ \A k \in (Len(r.buf) + 1)..Len(s.buf) : s.buf[k] = Unread(r) + k - 1
  /\ s.eof => r.eof \/ \E p \in r.ooo : p.kind = "eof" /\ p.seq = s.next
  /\ s.next = r.next \/ \E p \in r.ooo : p.kind = "data" /\ s.next = End(p)
  /\ \A q \in Q : q \in s.ooo \/ q \notin r.ooo => s.next <= q.seq

\* The packets a reader may still take.
Takeable(r, Q) ==
  /\ Q \subseteq Packets /\ \A q \in Q : q.kind = "data" /\ r.next <= q.seq
  /\ \A p \in r.ooo : p.kind = "data" => p \in Q
  /\ \A p, q \in Q : p # q => Disjoint(p, q)
  /\ \A p \in r.ooo \cup Q : End(p) <= MaxBytes /\ (p.kind = "data" <=> p.len > 0)

LEMMA GrownOnce ==
  ASSUME NEW r \in Readers, NEW Q, Takeable(r, Q), NEW s, Grown(r, s, Q)
  PROVE  Grown(r, ProcessOne(s), Q)
<1> DEFINE p == Lowest(s.ooo)
           t == RecvDataOrdered(s, p)
           u == [t EXCEPT !.ooo = s.ooo \ {p}]
<1>1. /\ s \in Readers /\ s.ooo \subseteq r.ooo /\ s.closed = r.closed /\ s.failed = r.failed
      /\ r.next <= s.next /\ Len(s.buf) = Len(r.buf) + (s.next - r.next)
      /\ \A k \in 1..Len(r.buf) : s.buf[k] = r.buf[k]
      /\ \A k \in (Len(r.buf) + 1)..Len(s.buf) : s.buf[k] = Unread(r) + k - 1
      /\ \A q \in Q : q \in s.ooo \/ q \notin r.ooo => s.next <= q.seq
  BY DEF Grown
<1>2. CASE s.ooo # {} /\ s.eof
  <2>1. ProcessOne(s) = [s EXCEPT !.ooo = {}]
    BY <1>2 DEF ProcessOne
  <2> DEFINE w == [s EXCEPT !.ooo = {}]
  <2>2. w \in Readers
    BY <1>1 DEF Readers
  <2>3. w.ooo = {} /\ w.next = s.next /\ w.buf = s.buf /\ w.eof = s.eof /\ w.closed = s.closed
        /\ w.failed = s.failed
    BY <1>1 DEF Readers
  <2> HIDE DEF w
  <2>. QED BY <2>1, <2>2, <2>3 DEF w, Grown
<1>3. CASE s.ooo # {} /\ ~s.eof /\ p.seq = s.next
  <2>1. ProcessOne(s) = [t EXCEPT !.ooo = t.ooo \ {p}]
    BY <1>3 DEF ProcessOne
  <2>2. p \in s.ooo /\ p \in Packets
    BY <1>1, <1>3, LowestIs DEF Readers
  <2>3. End(p) <= MaxBytes /\ (p.kind = "data" <=> p.len > 0) /\ (p.kind = "data" => p \in Q)
    BY <1>1, <2>2 DEF Takeable
  <2> HIDE DEF p
  <2>4. /\ t \in Readers /\ t.next = End(p) /\ s.next <= t.next
        /\ Len(t.buf) = Len(s.buf) + p.len
        /\ \A k \in 1..Len(s.buf) : t.buf[k] = s.buf[k]
        /\ \A k \in (Len(s.buf) + 1)..Len(t.buf) : t.buf[k] = Unread(s) + k - 1
        /\ t.ooo = s.ooo /\ t.closed = s.closed /\ t.failed = s.failed
        /\ t.eof = (p.kind = "eof")
    BY <1>1, <1>3, <2>2, <2>3, Ordered
  <2>16. ProcessOne(s) = u
    BY <2>1, <2>4
  <2> HIDE DEF t
  <2>5. u \in Readers
    BY <1>1, <2>4 DEF Readers
  <2>6. /\ u.ooo = s.ooo \ {p} /\ u.next = t.next /\ u.buf = t.buf /\ u.eof = t.eof
        /\ u.closed = t.closed /\ u.failed = t.failed
    BY <2>4 DEF Readers
  <2> HIDE DEF u
  <2>7. /\ Len(r.buf) \in Nat /\ Len(s.buf) \in Nat /\ Len(t.buf) \in Nat
        /\ r.next \in Nat /\ s.next \in Nat /\ t.next \in Nat
        /\ p.seq \in Nat /\ p.len \in Nat
    BY <1>1, <2>2, <2>4, ManagerAssumption DEF Readers, Packets, Positions0
  <2>8. r.next <= u.next /\ Len(u.buf) = Len(r.buf) + (u.next - r.next)
    <3>1. u.next = s.next + p.len
      BY <1>3, <2>4, <2>6 DEF End
    <3>2. Len(u.buf) = Len(s.buf) + p.len
      BY <2>4, <2>6
    <3>. QED BY <1>1, <2>7, <3>1, <3>2, SMTT(30)
  <2>9. Unread(s) = Unread(r)
    BY <1>1, <2>7 DEF Unread
  <2>10. \A k \in 1..Len(r.buf) : u.buf[k] = r.buf[k]
    <3> TAKE k \in 1..Len(r.buf)
    <3>1. k \in 1..Len(s.buf)
      BY <1>1, <2>7
    <3>. QED BY <1>1, <2>4, <2>6, <3>1
  <2>11. ASSUME NEW k \in (Len(r.buf) + 1)..Len(u.buf)
         PROVE  u.buf[k] = Unread(r) + k - 1
    <3>1. CASE k \in (Len(r.buf) + 1)..Len(s.buf)
      <4>1. k \in 1..Len(s.buf)
        BY <2>7, <3>1
      <4>. QED BY <1>1, <2>4, <2>6, <3>1, <4>1
    <3>2. CASE k \in (Len(s.buf) + 1)..Len(t.buf)
      BY <2>4, <2>6, <2>9, <3>2
    <3>. QED BY <2>6, <2>7, <2>11, <3>1, <3>2
  <2>12. u.eof => r.eof \/ \E x \in r.ooo : x.kind = "eof" /\ x.seq = u.next
    <3>1. ASSUME u.eof
          PROVE  p.kind = "eof" /\ p.seq = u.next /\ p \in r.ooo
      <4>1. p.kind = "eof"
        BY <2>4, <2>6, <3>1
      <4>2. p.len = 0
        BY <2>3, <2>7, <4>1
      <4>. QED BY <1>1, <2>2, <2>4, <2>6, <2>7, <4>1, <4>2 DEF End
    <3>. QED BY <3>1
  <2>13. u.next = r.next \/ \E x \in r.ooo : x.kind = "data" /\ u.next = End(x)
    <3>1. CASE p.kind = "data"
      BY <1>1, <2>2, <2>4, <2>6, <3>1
    <3>2. CASE p.kind # "data"
      <4>1. p.len = 0
        BY <2>3, <2>7, <3>2
      <4>2. u.next = s.next
        BY <1>3, <2>4, <2>6, <2>7, <4>1 DEF End
      <4>. QED BY <4>2 DEF Grown
    <3>. QED BY <3>1, <3>2
  <2>14. ASSUME NEW q \in Q, q \in u.ooo \/ q \notin r.ooo
         PROVE  u.next <= q.seq
    <3>1. q # p /\ s.next <= q.seq /\ q.seq \in Nat /\ q.len \in Nat /\ q.len > 0
      BY <1>1, <2>2, <2>6, <2>14, ManagerAssumption DEF Takeable, Packets, Positions0
    <3>2. CASE p.kind = "data"
      <4>1. Disjoint(p, q)
        BY <2>3, <3>1, <3>2 DEF Takeable
      <4>. QED BY <1>3, <2>4, <2>6, <2>7, <3>1, <4>1 DEF Disjoint, End
    <3>3. CASE p.kind # "data"
      <4>1. p.len = 0
        BY <2>3, <2>7, <3>3
      <4>. QED BY <1>3, <2>4, <2>6, <2>7, <3>1, <4>1 DEF End
    <3>. QED BY <3>2, <3>3
  <2>15. u.ooo \subseteq r.ooo /\ u.closed = r.closed /\ u.failed = r.failed
    BY <1>1, <2>4, <2>6
  <2>. QED BY <2>16, <2>5, <2>8, <2>10, <2>11, <2>12, <2>13, <2>14, <2>15 DEF Grown
<1>4. CASE s.ooo = {} \/ (s.ooo # {} /\ ~s.eof /\ p.seq # s.next)
  <2>1. ProcessOne(s) = s
    BY <1>4 DEF ProcessOne
  <2>. QED BY <2>1
<1>. QED BY <1>2, <1>3, <1>4

LEMMA GrownByAll ==
  ASSUME NEW r \in Readers, IsFiniteSet(r.ooo), NEW Q, Takeable(r, Q)
  PROVE  Grown(r, ProcessOoo(r), Q)
<1> DEFINE S == {s \in Readers : Grown(r, s, Q)}
<1>1. Grown(r, r, Q)
  <2>1. r.next \in Nat /\ Len(r.buf) \in Nat
    BY DEF Readers
  <2>2. \A q \in Q : r.next <= q.seq
    BY DEF Takeable
  <2>. QED BY <2>1, <2>2 DEF Grown
<1>2. \A s \in S : ProcessOne(s) \in S
  <2> TAKE s \in S
  <2>1. Grown(r, ProcessOne(s), Q)
    BY GrownOnce
  <2>. QED BY <2>1 DEF Grown
<1>3. r \in S
  BY <1>1
<1> HIDE DEF S
<1>4. ProcessOoo(r) \in S
  BY <1>2, <1>3, Drains
<1>. QED BY <1>4 DEF S

-----------------------------------------------------------------------------
(* The methods of a reader.                                                 *)

LEMMA RwndIs ==
  ASSUME NEW r \in Readers
  PROVE  /\ Rwnd(r) \in 0..Window
         /\ Len(r.buf) <= Window => Rwnd(r) = Window - Len(r.buf)
<1>1. Len(r.buf) \in Nat /\ Window \in Nat
  BY ReaderAssumption DEF Readers
<1>2. CASE Len(r.buf) > Window
  <2>1. Rwnd(r) = 0
    BY <1>2 DEF Rwnd
  <2>. QED BY <1>1, <1>2, <2>1
<1>3. CASE ~(Len(r.buf) > Window)
  <2>1. Rwnd(r) = Window - Len(r.buf)
    BY <1>3 DEF Rwnd
  <2>. QED BY <1>1, <1>3, <2>1
<1>. QED BY <1>2, <1>3

LEMMA AcknowledgingIs ==
  ASSUME NEW r \in Readers, NEW s, s = Acknowledging(r)
  PROVE  /\ s \in Readers
         /\ s.next = r.next /\ s.buf = r.buf /\ s.ooo = r.ooo
         /\ s.eof = r.eof /\ s.failed = r.failed /\ s.closed = r.closed
<1>1. s = [r EXCEPT !.lastRwnd = Rwnd(r)] /\ Rwnd(r) \in 0..Window
  BY RwndIs DEF Acknowledging
<1>. QED BY <1>1 DEF Readers

\* A packet that is next is taken, with what it makes next.
Taken1(r, p, s, Q) ==
  /\ s \in Readers /\ s.ooo \subseteq r.ooo
  /\ ~s.closed /\ ~s.failed
  /\ r.next <= End(p) /\ End(p) <= s.next /\ Len(s.buf) = Len(r.buf) + (s.next - r.next)
  /\ \A k \in 1..Len(r.buf) : s.buf[k] = r.buf[k]
  /\ \A k \in (Len(r.buf) + 1)..Len(s.buf) : s.buf[k] = Unread(r) + k - 1
  /\ s.eof => p.kind = "eof" \/ \E q \in r.ooo : q.kind = "eof" /\ q.seq = s.next
  /\ s.next = End(p) \/ \E q \in r.ooo : q.kind = "data" /\ s.next = End(q)
  /\ \A q \in Q : q \in s.ooo \/ q \notin r.ooo => s.next <= q.seq

LEMMA TakenInOrder ==
  ASSUME NEW r \in Readers, IsFiniteSet(r.ooo), NEW Q, Takeable(r, Q),
         NEW p \in Packets, End(p) <= MaxBytes, p.kind = "data" <=> p.len > 0,
         p.kind = "data" => \A q \in Q : Disjoint(p, q),
         p.seq = r.next, ~Finished(r),
         NEW s, s = Acknowledging(InOrder(r, p))
  PROVE  Taken1(r, p, s, Q)
<1> DEFINE t == RecvDataOrdered(r, p)
           u == ProcessOoo(t)
<1>1. /\ t \in Readers /\ t.next = End(p) /\ r.next <= t.next
      /\ Len(t.buf) = Len(r.buf) + p.len
      /\ \A k \in 1..Len(r.buf) : t.buf[k] = r.buf[k]
      /\ \A k \in (Len(r.buf) + 1)..Len(t.buf) : t.buf[k] = Unread(r) + k - 1
      /\ t.ooo = r.ooo /\ t.closed = r.closed /\ t.failed = r.failed
      /\ t.eof = (p.kind = "eof")
  BY Ordered
<1>2. s = Acknowledging(u)
  BY DEF InOrder
<1> HIDE DEF t
<1>3. /\ p.seq \in Nat /\ p.len \in Nat /\ r.next \in Nat /\ t.next \in Nat
      /\ Len(r.buf) \in Nat /\ Len(t.buf) \in Nat /\ End(p) = p.seq + p.len
  BY <1>1, ManagerAssumption DEF Packets, Positions0, Readers, End
<1>4. ASSUME NEW q \in Q
      PROVE  t.next <= q.seq
  <2>1. r.next <= q.seq /\ q.seq \in Nat /\ q.len \in Nat /\ q.len > 0
    BY ManagerAssumption DEF Takeable, Packets, Positions0
  <2>2. CASE p.kind = "data"
    BY <1>1, <1>3, <2>1, <2>2 DEF Disjoint, End
  <2>3. CASE p.kind # "data"
    <3>1. p.len = 0
      BY <1>3, <2>3
    <3>. QED BY <1>1, <1>3, <2>1, <3>1
  <2>. QED BY <2>2, <2>3
<1>5. Takeable(t, Q)
  BY <1>1, <1>4 DEF Takeable
<1>6. Grown(t, u, Q)
  BY <1>1, <1>5, GrownByAll
<1> HIDE DEF u
<1>7. /\ u \in Readers /\ u.ooo \subseteq t.ooo /\ u.closed = t.closed /\ u.failed = t.failed
      /\ t.next <= u.next /\ Len(u.buf) = Len(t.buf) + (u.next - t.next)
      /\ \A k \in 1..Len(t.buf) : u.buf[k] = t.buf[k]
      /\ \A k \in (Len(t.buf) + 1)..Len(u.buf) : u.buf[k] = Unread(t) + k - 1
      /\ u.eof => t.eof \/ \E q \in t.ooo : q.kind = "eof" /\ q.seq = u.next
      /\ u.next = t.next \/ \E q \in t.ooo : q.kind = "data" /\ u.next = End(q)
      /\ \A q \in Q : q \in u.ooo \/ q \notin t.ooo => u.next <= q.seq
  BY <1>6 DEF Grown
<1>8. /\ s \in Readers /\ s.next = u.next /\ s.buf = u.buf /\ s.ooo = u.ooo
      /\ s.eof = u.eof /\ s.failed = u.failed /\ s.closed = u.closed
  BY <1>2, <1>7, AcknowledgingIs
<1>9. u.next \in Nat /\ Len(u.buf) \in Nat
  BY <1>7 DEF Readers
<1>10. Len(s.buf) = Len(r.buf) + (s.next - r.next) /\ Unread(t) = Unread(r)
  <2>1. t.next = r.next + p.len /\ Len(t.buf) = Len(r.buf) + p.len
    BY <1>1, <1>3
  <2>2. s.next = u.next /\ Len(s.buf) = Len(t.buf) + (u.next - t.next)
    BY <1>7, <1>8
  <2>3. \A a, b, c, d, e \in Int : (a + b) + (c - (d + b)) = a + (c - d) /\ (d + b) - (a + b) = d - a
    OBVIOUS
  <2>4. p.len \in Int /\ r.next \in Int /\ Len(r.buf) \in Int /\ u.next \in Int
    BY <1>3, <1>9
  <2>5. /\ (Len(r.buf) + p.len) + (u.next - (r.next + p.len)) = Len(r.buf) + (u.next - r.next)
        /\ (r.next + p.len) - (Len(r.buf) + p.len) = r.next - Len(r.buf)
    BY ONLY <2>3, <2>4
  <2>. QED BY <2>1, <2>2, <2>5 DEF Unread
<1>11. \A k \in 1..Len(r.buf) : s.buf[k] = r.buf[k]
  <2> TAKE k \in 1..Len(r.buf)
  <2>1. k \in 1..Len(t.buf)
    BY <1>1, <1>3
  <2>. QED BY <1>1, <1>7, <1>8, <2>1
<1>12. ASSUME NEW k \in (Len(r.buf) + 1)..Len(s.buf)
       PROVE  s.buf[k] = Unread(r) + k - 1
  <2>1. CASE k \in (Len(r.buf) + 1)..Len(t.buf)
    <3>1. k \in 1..Len(t.buf)
      BY <1>3, <2>1
    <3>. QED BY <1>1, <1>7, <1>8, <2>1, <3>1
  <2>2. CASE k \in (Len(t.buf) + 1)..Len(u.buf)
    BY <1>7, <1>8, <1>10, <2>2
  <2>. QED BY <1>3, <1>8, <1>9, <1>12, <2>1, <2>2
<1>13. ~s.closed /\ ~s.failed
  BY <1>1, <1>7, <1>8 DEF Finished
<1>14. s.eof => p.kind = "eof" \/ \E q \in r.ooo : q.kind = "eof" /\ q.seq = s.next
  BY <1>1, <1>7, <1>8, ZenonT(40)
<1>15. s.next = End(p) \/ \E q \in r.ooo : q.kind = "data" /\ s.next = End(q)
  BY <1>1, <1>7, <1>8
<1>16. \A q \in Q : q \in s.ooo \/ q \notin r.ooo => s.next <= q.seq
  BY <1>1, <1>7, <1>8
<1>17. s.ooo \subseteq r.ooo /\ r.next <= End(p) /\ End(p) <= s.next
  BY <1>1, <1>7, <1>8
<1>. QED BY <1>8, <1>10, <1>11, <1>12, <1>13, <1>14, <1>15, <1>16, <1>17 DEF Taken1

\* RecvData, by what becomes of the packet.
Ignored(r, p, s) == s = r
FailedBy(r, p, s) ==
  /\ ~Finished(r) /\ p.kind = "error"
  /\ s \in Readers /\ s.failed /\ s.next = r.next /\ s.buf = r.buf /\ s.ooo = r.ooo
  /\ s.eof = r.eof /\ s.closed = r.closed
SetAside(r, p, s) ==
  /\ ~Finished(r) /\ p.kind # "error" /\ r.next < p.seq
  /\ s \in Readers /\ s.ooo = r.ooo \cup {p} /\ s.next = r.next /\ s.buf = r.buf
  /\ s.eof = r.eof /\ s.failed = r.failed /\ s.closed = r.closed

Outcome(r, p, s, Q) ==
  \/ Ignored(r, p, s) /\ ~RecvAcks(r, p)
  \/ FailedBy(r, p, s)
  \/ SetAside(r, p, s) /\ ~RecvAcks(r, p)
  \/ ~Finished(r) /\ p.seq = r.next /\ p.kind # "error" /\ Taken1(r, p, s, Q)

LEMMA Received ==
  ASSUME NEW r \in Readers, IsFiniteSet(r.ooo), NEW Q, Takeable(r, Q),
         NEW p \in Packets, End(p) <= MaxBytes, p.kind = "data" <=> p.len > 0,
         p.kind = "data" => \A q \in Q : Disjoint(p, q),
         NEW s, s = RecvData(r, p)
  PROVE  /\ s \in Readers
         /\ Outcome(r, p, s, Q)
<1> USE DEF Outcome
<1>0. p.seq \in Nat /\ r.next \in Nat
  BY ManagerAssumption DEF Packets, Positions0, Readers
<1>1. CASE Finished(r)
  BY <1>1 DEF RecvData, RecvAcks, Ignored
<1>2. CASE ~Finished(r) /\ p.kind = "error"
  <2> DEFINE x == [r EXCEPT !.failed = TRUE]
  <2>1. s = Acknowledging(x)
    BY <1>2 DEF RecvData
  <2>2. /\ x \in Readers /\ x.failed /\ x.next = r.next /\ x.buf = r.buf /\ x.ooo = r.ooo
        /\ x.eof = r.eof /\ x.closed = r.closed
    BY DEF Readers
  <2> HIDE DEF x
  <2>. QED BY <1>2, <2>1, <2>2, AcknowledgingIs DEF FailedBy
<1>3. CASE ~Finished(r) /\ p.kind # "error" /\ p.seq < r.next
  BY <1>0, <1>3 DEF RecvData, Ignored, RecvAcks
<1>4. CASE ~Finished(r) /\ p.kind # "error" /\ p.seq > r.next
  <2>1. s = AddOoo(r, p) /\ ~RecvAcks(r, p)
    BY <1>0, <1>4 DEF RecvData, RecvAcks
  <2>2. CASE \E q \in r.ooo : q.seq = p.seq
    BY <2>1, <2>2 DEF AddOoo, Ignored
  <2>3. CASE ~\E q \in r.ooo : q.seq = p.seq
    <3>1. s = [r EXCEPT !.ooo = r.ooo \cup {p}]
      BY <2>1, <2>3 DEF AddOoo, Readers
    <3>2. r.ooo \cup {p} \in SUBSET Packets
      BY DEF Readers
    <3>3. s \in Readers
      BY <3>1, <3>2 DEF Readers
    <3>4. /\ s.ooo = r.ooo \cup {p} /\ s.next = r.next /\ s.buf = r.buf
          /\ s.eof = r.eof /\ s.failed = r.failed /\ s.closed = r.closed
      BY <3>1 DEF Readers
    <3>. QED BY <1>0, <1>4, <2>1, <3>3, <3>4 DEF SetAside
  <2>. QED BY <2>2, <2>3
<1>5. CASE ~Finished(r) /\ p.kind # "error" /\ p.seq = r.next
  <2>1. s = Acknowledging(InOrder(r, p))
    BY <1>0, <1>5 DEF RecvData
  <2>2. Taken1(r, p, s, Q)
    BY <1>5, <2>1, TakenInOrder
  <2>. QED BY <1>5, <2>2 DEF Taken1
<1>. QED BY <1>0, <1>1, <1>2, <1>3, <1>4, <1>5 DEF Outcome

\* Read moves the first of the buffered bytes into the chunk it returns.
LEMMA ReadIs ==
  ASSUME NEW r \in Readers, NEW s, s = Read(r), NEW chunk, chunk = ReadChunk(r)
  PROVE  /\ s \in Readers /\ chunk \in Seq(Positions0)
         /\ s.next = r.next /\ s.ooo = r.ooo /\ s.eof = r.eof /\ s.failed = r.failed
         /\ s.closed = r.closed
         /\ chunk \o s.buf = r.buf
         /\ Len(s.buf) <= Len(r.buf)
         /\ ReadEnd(r) # "none" => s = r /\ chunk = <<>>
<1>1. /\ r.buf \in Seq(Positions0) /\ Len(r.buf) \in Nat /\ Taken(r) \in 0..Len(r.buf)
  BY ReaderAssumption DEF Readers, Taken
<1>2. CASE ReadEnd(r) # "none"
  <2>1. s = r /\ chunk = <<>>
    BY <1>2 DEF Read, ReadChunk
  <2>2. chunk \in Seq(Positions0) /\ chunk \o r.buf = r.buf
    BY <1>1, <2>1, EmptySeq, ConcatEmptySeq, Zenon
  <2>. QED BY <1>1, <2>1, <2>2
<1>3. CASE ReadEnd(r) = "none"
  <2> DEFINE d == Dropped(r)
  <2>1. chunk = SubSeq(r.buf, 1, Taken(r))
    BY <1>3 DEF ReadChunk
  <2>2. d = [r EXCEPT !.buf = SubSeq(r.buf, Taken(r) + 1, Len(r.buf))]
    BY DEF Dropped
  <2>3. chunk \in Seq(Positions0)
    <3>1. \A i \in 1..Taken(r) : r.buf[i] \in Positions0
      BY <1>1
    <3>. QED BY <1>1, <2>1, <3>1, SubSeqProperties
  <2>4. /\ SubSeq(r.buf, Taken(r) + 1, Len(r.buf)) \in Seq(Positions0)
        /\ Len(SubSeq(r.buf, Taken(r) + 1, Len(r.buf))) <= Len(r.buf)
    <3>1. \A i \in (Taken(r) + 1)..Len(r.buf) : r.buf[i] \in Positions0
      BY <1>1
    <3>2. /\ SubSeq(r.buf, Taken(r) + 1, Len(r.buf)) \in Seq(Positions0)
          /\ Len(SubSeq(r.buf, Taken(r) + 1, Len(r.buf)))
               = IF Taken(r) + 1 <= Len(r.buf) THEN Len(r.buf) - (Taken(r) + 1) + 1 ELSE 0
      BY <1>1, <3>1, SubSeqProperties
    <3>. QED BY <1>1, <3>2
  <2>5. /\ d \in Readers /\ d.buf = SubSeq(r.buf, Taken(r) + 1, Len(r.buf))
        /\ d.next = r.next /\ d.ooo = r.ooo /\ d.eof = r.eof /\ d.failed = r.failed
        /\ d.closed = r.closed
    BY <2>2, <2>4 DEF Readers
  <2>6. chunk \o d.buf = r.buf
    <3>1. 1 \in 1..Len(r.buf) + 1 /\ Taken(r) \in (1 - 1)..Len(r.buf) /\ Len(r.buf) \in Taken(r)..Len(r.buf)
      BY <1>1
    <3>2. SubSeq(r.buf, 1, Taken(r)) \o SubSeq(r.buf, Taken(r) + 1, Len(r.buf))
            = SubSeq(r.buf, 1, Len(r.buf))
      BY <1>1, <3>1, ConcatAdjacentSubSeq, Zenon
    <3>. QED BY <1>1, <2>1, <2>5, <3>2, SubSeqFull
  <2> HIDE DEF d
  <2>7. s = d \/ s = Acknowledging(d)
    BY <1>3 DEF Read, d
  <2>8. /\ s \in Readers /\ s.next = d.next /\ s.buf = d.buf /\ s.ooo = d.ooo
        /\ s.eof = d.eof /\ s.failed = d.failed /\ s.closed = d.closed
    BY <2>5, <2>7, AcknowledgingIs
  <2>. QED BY <1>3, <2>3, <2>4, <2>5, <2>6, <2>8
<1>. QED BY <1>2, <1>3

LEMMA CloseIs ==
  ASSUME NEW r \in Readers, NEW s, s = Close(r)
  PROVE  /\ s \in Readers /\ s.closed
         /\ s.next = r.next /\ s.buf = r.buf /\ s.ooo = r.ooo
         /\ s.eof = r.eof /\ s.failed = r.failed
<1>1. CASE r.closed
  BY <1>1 DEF Close
<1>2. CASE ~r.closed
  <2> DEFINE x == [r EXCEPT !.closed = TRUE]
  <2>1. /\ x \in Readers /\ x.closed /\ x.next = r.next /\ x.buf = r.buf /\ x.ooo = r.ooo
        /\ x.eof = r.eof /\ x.failed = r.failed
    BY DEF Readers
  <2>2. s = Acknowledging(x)
    BY <1>2 DEF Close
  <2> HIDE DEF x
  <2>. QED BY <2>1, <2>2, AcknowledgingIs
<1>. QED BY <1>1, <1>2

LEMMA NewReaderIs ==
  ASSUME NEW seq \in Nat, NEW r, r = NewReader(seq)
  PROVE  /\ r \in Readers /\ r.next = seq /\ r.buf = <<>> /\ r.ooo = {}
         /\ ~r.eof /\ ~r.failed /\ ~r.closed /\ [r EXCEPT !.closed = TRUE] \in Readers
<1>1. <<>> \in Seq(Positions0) /\ {} \in SUBSET Packets /\ Window \in 0..Window
  BY EmptySeq, ReaderAssumption
<1>2. r = [next |-> seq, buf |-> <<>>, ooo |-> {}, eof |-> FALSE, failed |-> FALSE,
           closed |-> FALSE, lastRwnd |-> Window]
  BY DEF NewReader
<1>3. r \in Readers
  BY <1>1, <1>2 DEF Readers
<1>4. [r EXCEPT !.closed = TRUE] \in Readers
  BY <1>3 DEF Readers
<1>. QED BY <1>2, <1>3, <1>4

-----------------------------------------------------------------------------
(* Which steps change which variables.                                      *)

LEMMA Frames ==
  ASSUME [Next]_vars
  PROVE  /\ \/ UNCHANGED managerVars \/ PtyWrites \/ PtySignals \/ PtyFinishes
            \/ SenderSends \/ SenderWaits \/ (\E ack \in acks : AckArrives(ack))
            \/ PrepareDisconnects \/ PrepareConsumes \/ PrepareConnects \/ StartsStream
         /\ \/ link' = link \/ LinkDrops \/ LinkComesUp \/ ServerRestarts \/ RestartStats
         /\ \/ live' = live \/ LinkDrops \/ ServerRestarts \/ PrepareConnects
         /\ \/ writer' = writer \/ (\E ack \in acks : AckArrives(ack)) \/ LinkDrops
            \/ ServerRestarts \/ StartsStream
         /\ \/ data' = data \/ SenderSends \/ (\E p \in data : DataArrives(p))
            \/ (\E p \in data : DataRefused(p)) \/ LinkDrops \/ ServerRestarts
         /\ \/ acks' = acks \/ (\E ack \in acks : AckArrives(ack))
            \/ (\E p \in data : DataArrives(p)) \/ (\E p \in data : DataRefused(p))
            \/ (\E i \in Streams : LoopReads(i))
            \/ (\E i \in Streams : LoopSuperseded(i)) \/ (\E i \in Streams : LoopEnds(i))
            \/ LinkDrops \/ ServerRestarts \/ RestartFails \/ RestartEnds
         /\ \/ request' = request \/ LinkDrops \/ ServerRestarts \/ RestartCalls
            \/ RestartGoesOn \/ PrepareFindsDone \/ PrepareDisconnects \/ StartsStream
         /\ \/ prep' = prep \/ LinkDrops \/ ServerRestarts \/ PrepareDisconnects
            \/ PrepareReadsHead \/ PrepareConsumes \/ PrepareConnects
         /\ \/ pending' = pending \/ PrepareConnects \/ StartsStream
         /\ \/ stream' = stream \/ RestartCalls
         /\ \/ readers' = readers \/ (\E p \in data : DataArrives(p))
            \/ (\E i \in Streams : LoopReads(i))
            \/ (\E i \in Streams : LoopSuperseded(i)) \/ (\E i \in Streams : LoopEnds(i))
            \/ ServerRestarts \/ RestartCalls \/ RestartFails \/ RestartEnds
            \/ RestartGoesOn
         /\ \/ loops' = loops \/ (\E i \in Streams : LoopReads(i))
            \/ (\E i \in Streams : LoopGoesOn(i))
            \/ (\E i \in Streams : LoopSuperseded(i))
            \/ (\E i \in Streams : LoopStores(i)) \/ (\E i \in Streams : LoopEnds(i))
            \/ ServerRestarts \/ RestartRunsLoop
         /\ \/ restart' = restart \/ ServerRestarts \/ RestartStats \/ RestartCalls
            \/ RestartFails \/ RestartEnds \/ RestartGoesOn \/ RestartRunsLoop
            \/ PrepareFindsDone \/ PrepareConsumes \/ PrepareConnects \/ StartsStream
         /\ \/ file' = file \/ (\E i \in Streams : LoopStores(i))
         /\ \/ gap' = gap \/ RestartGoesOn
         /\ \/ done' = done \/ (\E i \in Streams : LoopEnds(i)) \/ RestartEnds
<1>1. \/ UNCHANGED managerVars \/ PtyWrites \/ PtySignals \/ PtyFinishes \/ SenderSends
      \/ SenderWaits \/ (\E ack \in acks : AckArrives(ack)) \/ PrepareDisconnects
      \/ PrepareConsumes \/ PrepareConnects \/ StartsStream
  BY DEF
       Next, vars, linkVars, remoteVars, localVars, Delivery, DataArrives, DataRefused,
       OutputLoop, LoopReads, LoopGoesOn, LoopSuperseded, LoopStores, LoopEnds,
       CloseReader, Preparing, PrepareFindsDone, PrepareReadsHead, Replies, Restarting,
       RestartStats, RestartCalls, RestartFails, RestartEnds, RestartGoesOn,
       RestartRunsLoop, LinkDrops, LinkComesUp, ServerRestarts
<1>2. \/ link' = link \/ LinkDrops \/ LinkComesUp \/ ServerRestarts \/ RestartStats
  BY DEF
       Next, vars, linkVars, remoteVars, localVars, PtyWrites, PtySignals, PtyFinishes,
       SenderSends, SenderWaits, Delivery, AckArrives, DataArrives, DataRefused,
       OutputLoop, LoopReads, LoopGoesOn, LoopSuperseded, LoopStores, LoopEnds,
       CloseReader, Preparing, PrepareFindsDone, PrepareDisconnects, PrepareReadsHead,
       PrepareConsumes, PrepareConnects, StartsStream, Replies, Restarting,
       RestartCalls, RestartFails, RestartEnds, RestartGoesOn, RestartRunsLoop
<1>3. \/ live' = live \/ LinkDrops \/ ServerRestarts \/ PrepareConnects
  BY DEF
       Next, vars, linkVars, remoteVars, localVars, PtyWrites, PtySignals, PtyFinishes,
       SenderSends, SenderWaits, Delivery, AckArrives, DataArrives, DataRefused,
       OutputLoop, LoopReads, LoopGoesOn, LoopSuperseded, LoopStores, LoopEnds,
       CloseReader, Preparing, PrepareFindsDone, PrepareDisconnects, PrepareReadsHead,
       PrepareConsumes, StartsStream, Replies, Restarting, RestartStats, RestartCalls,
       RestartFails, RestartEnds, RestartGoesOn, RestartRunsLoop, LinkComesUp
<1>4. \/ writer' = writer \/ (\E ack \in acks : AckArrives(ack)) \/ LinkDrops
      \/ ServerRestarts \/ StartsStream
  BY DEF
       Next, vars, linkVars, remoteVars, localVars, PtyWrites, PtySignals, PtyFinishes,
       SenderSends, SenderWaits, Delivery, DataArrives, DataRefused, OutputLoop,
       LoopReads, LoopGoesOn, LoopSuperseded, LoopStores, LoopEnds, CloseReader,
       Preparing, PrepareFindsDone, PrepareDisconnects, PrepareReadsHead,
       PrepareConsumes, PrepareConnects, Replies, Restarting, RestartStats,
       RestartCalls, RestartFails, RestartEnds, RestartGoesOn, RestartRunsLoop,
       LinkComesUp
<1>5. \/ data' = data \/ SenderSends \/ (\E p \in data : DataArrives(p))
      \/ (\E p \in data : DataRefused(p)) \/ LinkDrops \/ ServerRestarts
  BY DEF
       Next, vars, linkVars, remoteVars, localVars, PtyWrites, PtySignals, PtyFinishes,
       SenderWaits, Delivery, AckArrives, OutputLoop, LoopReads, LoopGoesOn,
       LoopSuperseded, LoopStores, LoopEnds, CloseReader, Preparing, PrepareFindsDone,
       PrepareDisconnects, PrepareReadsHead, PrepareConsumes, PrepareConnects,
       StartsStream, Replies, Restarting, RestartStats, RestartCalls, RestartFails,
       RestartEnds, RestartGoesOn, RestartRunsLoop, LinkComesUp
<1>6. \/ acks' = acks \/ (\E ack \in acks : AckArrives(ack))
      \/ (\E p \in data : DataArrives(p)) \/ (\E p \in data : DataRefused(p))
      \/ (\E i \in Streams : LoopReads(i)) \/ (\E i \in Streams : LoopSuperseded(i))
      \/ (\E i \in Streams : LoopEnds(i)) \/ LinkDrops \/ ServerRestarts
      \/ RestartFails \/ RestartEnds
  BY DEF
       Next, vars, linkVars, remoteVars, localVars, PtyWrites, PtySignals, PtyFinishes,
       SenderSends, SenderWaits, Delivery, OutputLoop, LoopGoesOn, LoopStores,
       Preparing, PrepareFindsDone, PrepareDisconnects, PrepareReadsHead,
       PrepareConsumes, PrepareConnects, StartsStream, Replies, Restarting,
       RestartStats, RestartCalls, RestartGoesOn, RestartRunsLoop, LinkComesUp
<1>7. \/ request' = request \/ LinkDrops \/ ServerRestarts \/ RestartCalls
      \/ RestartGoesOn \/ PrepareFindsDone \/ PrepareDisconnects \/ StartsStream
  BY DEF
       Next, vars, linkVars, remoteVars, localVars, PtyWrites, PtySignals, PtyFinishes,
       SenderSends, SenderWaits, Delivery, AckArrives, DataArrives, DataRefused,
       OutputLoop, LoopReads, LoopGoesOn, LoopSuperseded, LoopStores, LoopEnds,
       CloseReader, Preparing, PrepareReadsHead, PrepareConsumes, PrepareConnects,
       Replies, Restarting, RestartStats, RestartFails, RestartEnds, RestartRunsLoop,
       LinkComesUp
<1>8. \/ prep' = prep \/ LinkDrops \/ ServerRestarts \/ PrepareDisconnects
      \/ PrepareReadsHead \/ PrepareConsumes \/ PrepareConnects
  BY DEF
       Next, vars, linkVars, remoteVars, localVars, PtyWrites, PtySignals, PtyFinishes,
       SenderSends, SenderWaits, Delivery, AckArrives, DataArrives, DataRefused,
       OutputLoop, LoopReads, LoopGoesOn, LoopSuperseded, LoopStores, LoopEnds,
       CloseReader, Preparing, PrepareFindsDone, StartsStream, Replies, Restarting,
       RestartStats, RestartCalls, RestartFails, RestartEnds, RestartGoesOn,
       RestartRunsLoop, LinkComesUp
<1>9. \/ pending' = pending \/ PrepareConnects \/ StartsStream
  BY DEF
       Next, vars, linkVars, remoteVars, localVars, PtyWrites, PtySignals, PtyFinishes,
       SenderSends, SenderWaits, Delivery, AckArrives, DataArrives, DataRefused,
       OutputLoop, LoopReads, LoopGoesOn, LoopSuperseded, LoopStores, LoopEnds,
       CloseReader, Preparing, PrepareFindsDone, PrepareDisconnects, PrepareReadsHead,
       PrepareConsumes, Replies, Restarting, RestartStats, RestartCalls, RestartFails,
       RestartEnds, RestartGoesOn, RestartRunsLoop, LinkDrops, LinkComesUp,
       ServerRestarts
<1>10. \/ stream' = stream \/ RestartCalls
  BY DEF
       Next, vars, linkVars, remoteVars, localVars, PtyWrites, PtySignals, PtyFinishes,
       SenderSends, SenderWaits, Delivery, AckArrives, DataArrives, DataRefused,
       OutputLoop, LoopReads, LoopGoesOn, LoopSuperseded, LoopStores, LoopEnds,
       CloseReader, Preparing, PrepareFindsDone, PrepareDisconnects, PrepareReadsHead,
       PrepareConsumes, PrepareConnects, StartsStream, Replies, Restarting,
       RestartStats, RestartFails, RestartEnds, RestartGoesOn, RestartRunsLoop,
       LinkDrops, LinkComesUp, ServerRestarts
<1>11. \/ readers' = readers \/ (\E p \in data : DataArrives(p))
       \/ (\E i \in Streams : LoopReads(i)) \/ (\E i \in Streams : LoopSuperseded(i))
       \/ (\E i \in Streams : LoopEnds(i)) \/ ServerRestarts \/ RestartCalls
       \/ RestartFails \/ RestartEnds \/ RestartGoesOn
  BY DEF
       Next, vars, linkVars, remoteVars, localVars, PtyWrites, PtySignals, PtyFinishes,
       SenderSends, SenderWaits, Delivery, AckArrives, DataRefused, OutputLoop,
       LoopGoesOn, LoopStores, Preparing, PrepareFindsDone, PrepareDisconnects,
       PrepareReadsHead, PrepareConsumes, PrepareConnects, StartsStream, Replies,
       Restarting, RestartStats, RestartRunsLoop, LinkDrops, LinkComesUp
<1>12. \/ loops' = loops \/ (\E i \in Streams : LoopReads(i))
       \/ (\E i \in Streams : LoopGoesOn(i)) \/ (\E i \in Streams : LoopSuperseded(i))
       \/ (\E i \in Streams : LoopStores(i)) \/ (\E i \in Streams : LoopEnds(i))
       \/ ServerRestarts \/ RestartRunsLoop
  BY DEF
       Next, vars, linkVars, remoteVars, localVars, PtyWrites, PtySignals, PtyFinishes,
       SenderSends, SenderWaits, Delivery, AckArrives, DataArrives, DataRefused,
       OutputLoop, CloseReader, Preparing, PrepareFindsDone, PrepareDisconnects,
       PrepareReadsHead, PrepareConsumes, PrepareConnects, StartsStream, Replies,
       Restarting, RestartStats, RestartCalls, RestartFails, RestartEnds, RestartGoesOn,
       LinkDrops, LinkComesUp
<1>13. \/ restart' = restart \/ ServerRestarts \/ RestartStats \/ RestartCalls
       \/ RestartFails \/ RestartEnds \/ RestartGoesOn \/ RestartRunsLoop
       \/ PrepareFindsDone \/ PrepareConsumes \/ PrepareConnects \/ StartsStream
  BY DEF
       Next, vars, linkVars, remoteVars, localVars, PtyWrites, PtySignals, PtyFinishes,
       SenderSends, SenderWaits, Delivery, AckArrives, DataArrives, DataRefused,
       OutputLoop, LoopReads, LoopGoesOn, LoopSuperseded, LoopStores, LoopEnds,
       CloseReader, Preparing, PrepareDisconnects, PrepareReadsHead, Restarting,
       LinkDrops, LinkComesUp
<1>14. \/ file' = file \/ (\E i \in Streams : LoopStores(i))
  BY DEF
       Next, vars, linkVars, remoteVars, localVars, PtyWrites, PtySignals, PtyFinishes,
       SenderSends, SenderWaits, Delivery, AckArrives, DataArrives, DataRefused,
       OutputLoop, LoopReads, LoopGoesOn, LoopSuperseded, LoopEnds, CloseReader,
       Preparing, PrepareFindsDone, PrepareDisconnects, PrepareReadsHead,
       PrepareConsumes, PrepareConnects, StartsStream, Replies, Restarting,
       RestartStats, RestartCalls, RestartFails, RestartEnds, RestartGoesOn,
       RestartRunsLoop, LinkDrops, LinkComesUp, ServerRestarts
<1>15. \/ gap' = gap \/ RestartGoesOn
  BY DEF
       Next, vars, linkVars, remoteVars, localVars, PtyWrites, PtySignals, PtyFinishes,
       SenderSends, SenderWaits, Delivery, AckArrives, DataArrives, DataRefused,
       OutputLoop, LoopReads, LoopGoesOn, LoopSuperseded, LoopStores, LoopEnds,
       CloseReader, Preparing, PrepareFindsDone, PrepareDisconnects, PrepareReadsHead,
       PrepareConsumes, PrepareConnects, StartsStream, Replies, Restarting,
       RestartStats, RestartCalls, RestartFails, RestartEnds, RestartRunsLoop,
       LinkDrops, LinkComesUp, ServerRestarts
<1>16. \/ done' = done \/ (\E i \in Streams : LoopEnds(i)) \/ RestartEnds
  BY DEF
       Next, vars, linkVars, remoteVars, localVars, PtyWrites, PtySignals, PtyFinishes,
       SenderSends, SenderWaits, Delivery, AckArrives, DataArrives, DataRefused,
       OutputLoop, LoopReads, LoopGoesOn, LoopSuperseded, LoopStores, CloseReader,
       Preparing, PrepareFindsDone, PrepareDisconnects, PrepareReadsHead,
       PrepareConsumes, PrepareConnects, StartsStream, Replies, Restarting,
       RestartStats, RestartCalls, RestartFails, RestartGoesOn, RestartRunsLoop,
       LinkDrops, LinkComesUp, ServerRestarts
<1>. QED BY <1>1, <1>2, <1>3, <1>4, <1>5, <1>6, <1>7, <1>8, <1>9, <1>10, <1>11, <1>12, <1>13, <1>14, <1>15, <1>16

-----------------------------------------------------------------------------
(* Every step of the session is a step of the remote end, or none of it.    *)

\* What the types say of the remote end.
LEMMA ManagerTypes ==
  ASSUME TypeOK
  PROVE  /\ total \in Nat /\ count \in Nat /\ count <= total /\ total <= MaxBytes
         /\ count <= RingSize /\ windowSize \in Nat /\ windowSize <= RingSize
         /\ sentNotAcked \in Nat /\ sentNotAcked <= count /\ rwndSize \in Nat
         /\ streamId \in Streams /\ connected \in BOOLEAN /\ syncMode \in BOOLEAN
         /\ blocked \in BOOLEAN
         /\ HeadPos \in Nat /\ HeadPos <= total /\ HeadPos + sentNotAcked <= total
         /\ HeadPos = total - count
         /\ maxAcked \in [seq : Nat, rwnd : Nat]
         /\ RingSize \in Nat /\ MaxBytes \in Nat /\ Window \in Nat
  BY ManagerAssumption, ReaderAssumption DEF TypeOK, Remote!TypeOK, Remote!Rwnds, HeadPos

LEMMA StepIsManagerStep ==
  ASSUME IInv, [Next]_vars
  PROVE  [ManagerStep]_managerVars
<1>0. TypeOK /\ IdsInv /\ BoundsInv /\ CorkedInv /\ RestartInv
  BY DEF IInv
<1>m. /\ total \in Nat /\ total <= MaxBytes /\ MaxBytes \in Nat /\ blocked \in BOOLEAN
      /\ streamId \in Streams /\ count \in Nat /\ count <= total
  BY <1>0, ManagerTypes
<1>1. ASSUME NEW ack \in acks, AckArrives(ack)
      PROVE  ManagerStep \/ UNCHANGED managerVars
  <2>1. ack \in [id : Streams, seq : Nat, rwnd : 0..Window, fin : BOOLEAN, cancel : BOOLEAN]
    BY <1>0 DEF TypeOK
  <2>2. CASE writer # ack.id
    BY <1>1, <2>2 DEF AckArrives
  <2>3. CASE ack.id # streamId /\ writer = ack.id
    <3>1. RecvAck(ack) \/ RecvFin(ack) \/ RecvOutside(ack) \/ RecvIgnored(ack)
      BY <1>1, <2>3 DEF AckArrives
    <3>. QED BY <2>3, <3>1 DEF RecvAck, RecvFin, RecvOutside, RecvIgnored
  <2>4. CASE ack.id = streamId /\ writer = ack.id
    <3>1. RecvAck(ack) \/ RecvFin(ack) \/ RecvOutside(ack) \/ RecvIgnored(ack)
      BY <1>1, <2>4 DEF AckArrives
    <3>2. ack.seq <= total
      BY <1>0, <2>4 DEF BoundsInv
    <3>3. ack \in [id : Streams, seq : 0..MaxBytes, rwnd : 0..Window, fin : BOOLEAN,
                   cancel : BOOLEAN]
      BY <1>m, <2>1, <3>2
    <3>. QED BY <3>1, <3>3 DEF ManagerStep
  <2>. QED BY <2>2, <2>3, <2>4
<1>2. CASE PrepareConsumes
  <2> DEFINE ahead == prep.seq - prep.head
  <2>1. CASE ahead > count
    BY <1>2, <2>1 DEF PrepareConsumes
  <2>2. CASE ~(ahead > count)
    <3>1. ConsumeBytes(ahead)
      BY <1>2, <2>2 DEF PrepareConsumes
    <3>2. ahead \in Int
      BY <1>0, ManagerAssumption DEF TypeOK, Positions0
    <3> HIDE DEF ahead
    <3>3. CASE ahead > 0
      <4>1. ahead \in 0..MaxBytes
        BY <1>m, <2>2, <3>2, <3>3
      <4>. QED BY <3>1, <4>1 DEF ManagerStep
    <3>4. CASE ~(ahead > 0)
      <4>1. count' = count
        BY <3>1, <3>4 DEF ConsumeBytes
      <4>2. blocked' = blocked
        <5>1. ahead <= 0
          BY <3>2, <3>4
        <5>2. blocked' = (blocked /\ ahead <= 0)
          BY <3>1 DEF ConsumeBytes
        <5>. QED BY <1>m, <5>1, <5>2
      <4>. QED BY <3>1, <4>1, <4>2 DEF ConsumeBytes, managerVars, ringVars
    <3>. QED BY <3>3, <3>4
  <2>. QED BY <2>1, <2>2
<1>3. CASE PrepareConnects
  <2>1. ClientConnected(prep.id, 0) /\ prep.at = "connect"
    BY <1>3 DEF PrepareConnects
  <2>2. prep.id \in Streams
    <3>1. streamId < prep.id /\ streamId \in 1..MaxStreams /\ prep.id \in 0..MaxStreams
      BY <1>0, <1>m, <2>1 DEF IdsInv, TypeOK, Streams
    <3>. QED BY <3>1, StreamsAssumption DEF Streams
  <2>3. 0 \in 0..Window
    BY ReaderAssumption
  <2>. QED BY <2>1, <2>2, <2>3 DEF ManagerStep
<1>4. CASE StartsStream
  <2>1. Window \in 0..Window
    BY ReaderAssumption
  <2>. QED BY <1>4, <2>1 DEF StartsStream, ManagerStep
<1>5. CASE PtyWrites \/ PtySignals \/ PtyFinishes \/ SenderSends \/ SenderWaits \/ PrepareDisconnects
  BY <1>5 DEF PtyWrites, PtySignals, PtyFinishes, SenderSends, SenderWaits,
              PrepareDisconnects, ManagerStep
<1>6. ASSUME NEW i \in Streams, OutputLoop(i)
      PROVE  UNCHANGED managerVars
  BY <1>6 DEF OutputLoop, LoopReads, LoopGoesOn, LoopSuperseded, LoopStores, LoopEnds
<1>7. CASE (\E p \in data : DataArrives(p)) \/ (\E p \in data : DataRefused(p))
  BY <1>7 DEF DataArrives, DataRefused
<1>8. CASE PrepareFindsDone \/ PrepareReadsHead \/ Restarting \/ RestartFails
  BY <1>8 DEF PrepareFindsDone, PrepareReadsHead, Restarting, RestartFails, RestartStats,
              RestartCalls, RestartEnds, RestartGoesOn, RestartRunsLoop
<1>9. CASE LinkDrops \/ LinkComesUp \/ ServerRestarts
  BY <1>9 DEF LinkDrops, LinkComesUp, ServerRestarts
<1>10. CASE UNCHANGED vars
  BY <1>10 DEF vars
<1>. QED BY <1>1, <1>2, <1>3, <1>4, <1>5, <1>6, <1>7, <1>8, <1>9, <1>10
         DEF Next, Delivery, Preparing

-----------------------------------------------------------------------------
(* The types.                                                               *)

\* What the types say of the session's own state.
LEMMA SessionTypes ==
  ASSUME TypeOK
  PROVE  /\ Window \in Nat /\ MaxBytes \in Nat /\ MaxStreams \in Nat /\ stream \in Streams
         /\ data \subseteq Packets
         /\ \A i \in Streams : readers[i] \in Readers
         /\ \A i \in Streams : /\ readers[i].next \in Nat /\ readers[i].buf \in Seq(Positions0)
                               /\ Len(readers[i].buf) \in Nat /\ readers[i].ooo \subseteq Packets
                               /\ Unread(readers[i]) \in Int
         /\ \A i \in Streams : loops[i].chunk \in Seq(Positions0)
         /\ \A p \in Packets : p.seq \in Nat /\ p.len \in Nat /\ p.id \in Streams /\ End(p) \in Nat
         /\ \A ack \in acks : ack.id \in Streams /\ ack.seq \in Nat /\ ack.rwnd \in Nat
         /\ restart.seq \in Nat /\ restart.announced \in Nat /\ gap \in Nat /\ Len(file) \in Nat
         /\ prep.seq \in Nat /\ prep.head \in Nat /\ prep.id \in Nat /\ request.seq \in Nat
<1>1. /\ \A i \in Streams : readers[i] \in Readers
      /\ \A i \in Streams : loops[i].chunk \in Seq(Positions0)
      /\ data \subseteq Packets /\ stream \in Streams
  BY DEF TypeOK
<1>2. ASSUME NEW i \in Streams
      PROVE  /\ readers[i].next \in Nat /\ readers[i].buf \in Seq(Positions0)
             /\ Len(readers[i].buf) \in Nat /\ readers[i].ooo \subseteq Packets
             /\ Unread(readers[i]) \in Int
  <2>1. /\ readers[i].next \in Nat /\ readers[i].buf \in Seq(Positions0)
        /\ Len(readers[i].buf) \in Nat /\ readers[i].ooo \subseteq Packets
    BY <1>1 DEF Readers
  <2>. QED BY <2>1 DEF Unread
<1>3. \A p \in Packets : p.seq \in Nat /\ p.len \in Nat /\ p.id \in Streams /\ End(p) \in Nat
  BY ManagerAssumption DEF Packets, Positions0, End
<1>4. \A ack \in acks : ack.id \in Streams /\ ack.seq \in Nat /\ ack.rwnd \in Nat
  BY ReaderAssumption DEF TypeOK
<1>5. /\ restart.seq \in Nat /\ restart.announced \in Nat /\ gap \in Nat /\ Len(file) \in Nat
  BY DEF TypeOK
<1>6. /\ prep.seq \in Nat /\ prep.head \in Nat /\ prep.id \in Nat /\ request.seq \in Nat
  BY ManagerAssumption, StreamsAssumption DEF TypeOK, Positions0
<1>. QED BY <1>1, <1>2, <1>3, <1>4, <1>5, <1>6, ReaderAssumption, ManagerAssumption,
          StreamsAssumption

\* The packets the sender takes.
LEMMA SentPackets ==
  ASSUME TypeOK
  PROVE  /\ CanSendData => /\ DataPacket \in Packets /\ PacketSize \in Nat /\ PacketSize > 0
                           /\ PacketSize <= Room /\ sentNotAcked + PacketSize <= count
                           /\ DataPacket.id = streamId /\ DataPacket.kind = "data"
                           /\ DataPacket.seq = HeadPos + sentNotAcked
                           /\ DataPacket.len = PacketSize
                           /\ Room <= rwndSize - sentNotAcked
         /\ CanSendTerminal => /\ TerminalPacket \in Packets
                               /\ TerminalPacket.id = streamId
                               /\ TerminalPacket.kind = terminalEvent
                               /\ terminalEvent # "none"
                               /\ TerminalPacket.seq = total /\ TerminalPacket.len = 0
<1>1. /\ total \in Nat /\ count \in Nat /\ count <= total /\ total <= MaxBytes
      /\ sentNotAcked \in Nat /\ sentNotAcked <= count /\ rwndSize \in Nat
      /\ streamId \in Streams /\ HeadPos \in Nat /\ HeadPos + sentNotAcked <= total
      /\ HeadPos = total - count /\ MaxBytes \in Nat
  BY ManagerTypes
<1>2. ASSUME CanSendData
      PROVE  /\ DataPacket \in Packets /\ PacketSize \in Nat /\ PacketSize > 0
             /\ PacketSize <= Room /\ sentNotAcked + PacketSize <= count
             /\ DataPacket.id = streamId /\ DataPacket.kind = "data"
             /\ DataPacket.seq = HeadPos + sentNotAcked
             /\ DataPacket.len = PacketSize
             /\ Room <= rwndSize - sentNotAcked
  <2>1. Room \in Int /\ Room > 0 /\ sentNotAcked < count /\ Room <= rwndSize - sentNotAcked
    BY <1>1, <1>2, ManagerAssumption DEF CanSendData, Room, EffectiveWindow, Smaller
  <2>2. PacketSize \in Nat /\ PacketSize > 0 /\ PacketSize <= Room
        /\ PacketSize <= count - sentNotAcked
    BY <1>1, <2>1, ManagerAssumption DEF PacketSize, Smaller
  <2>3. HeadPos + sentNotAcked \in 0..MaxBytes /\ PacketSize \in 0..MaxBytes
    BY <1>1, <2>2
  <2>4. DataPacket = [id |-> streamId, seq |-> HeadPos + sentNotAcked, len |-> PacketSize,
                      kind |-> "data"]
    BY DEF DataPacket
  <2>5. DataPacket \in Packets
    BY <1>1, <2>3, <2>4 DEF Packets, Positions0
  <2>. QED BY <1>1, <2>1, <2>2, <2>4, <2>5
<1>3. ASSUME CanSendTerminal
      PROVE  /\ TerminalPacket \in Packets
             /\ TerminalPacket.id = streamId
             /\ TerminalPacket.kind = terminalEvent
             /\ terminalEvent # "none"
             /\ TerminalPacket.seq = total /\ TerminalPacket.len = 0
  <2>1. terminalEvent \in {"eof", "error"} /\ total \in 0..MaxBytes /\ 0 \in 0..MaxBytes
    BY <1>1, <1>3 DEF CanSendTerminal, TypeOK, Remote!TypeOK
  <2>2. TerminalPacket = [id |-> streamId, seq |-> total, len |-> 0, kind |-> terminalEvent]
    BY DEF TerminalPacket
  <2>. QED BY <1>1, <2>1, <2>2 DEF Packets, Positions0
<1>. QED BY <1>2, <1>3

\* What may be in flight: packets are sent and delivered, acknowledgements are of
\* some reader.
Sends(p) ==
  \/ SendData /\ p = DataPacket
  \/ SendTerminal /\ p = TerminalPacket

LEMMA DataStep ==
  ASSUME [Next]_vars
  PROVE  \/ data' \subseteq data
         \/ /\ SenderSends /\ live
            /\ \E p : Sends(p) /\ data' = data \cup {p}
<1>1. CASE SenderSends
  <2>1. CASE live
    BY <1>1, <2>1 DEF SenderSends, Posted, Sends
  <2>2. CASE ~live
    BY <1>1, <2>2 DEF SenderSends, Posted
  <2>. QED BY <2>1, <2>2
<1>2. CASE ~SenderSends
  <2>1. \/ data' = data \/ (\E p \in data : DataArrives(p)) \/ (\E p \in data : DataRefused(p))
        \/ LinkDrops \/ ServerRestarts
    BY <1>2, Frames
  <2>. QED BY <2>1 DEF DataArrives, DataRefused, LinkDrops, ServerRestarts
<1>. QED BY <1>1, <1>2

-----------------------------------------------------------------------------
(* The steps of the readers.                                                *)

\* A packet that arrives at its reader.  The others are what it may still take.
Others(p) == Coming(p.id) \ {p}

LEMMA Arrival ==
  ASSUME IInv, NEW p \in data, DataArrives(p)
  PROVE  LET r == readers[p.id]
             s == RecvData(r, p)
         IN  /\ p.id \in Streams /\ r \in Readers /\ s \in Readers /\ IsFiniteSet(r.ooo)
             /\ readers' = [readers EXCEPT ![p.id] = s]
             /\ Outcome(r, p, s, Others(p))
<1> DEFINE r == readers[p.id]
           s == RecvData(r, p)
<1>1. TypeOK /\ PacketsInv /\ FlowInv /\ FiniteInv /\ IdsInv
  BY DEF IInv
<1>2. /\ p \in Packets /\ p.id \in Streams /\ r \in Readers /\ r.ooo \subseteq Packets
      /\ data \subseteq Packets /\ p.seq \in Nat /\ p.len \in Nat /\ r.next \in Nat
  BY <1>1, SessionTypes
<1>3. readers' = [readers EXCEPT ![p.id] = s]
  BY DEF DataArrives
<1>4. IsFiniteSet(r.ooo)
  BY <1>1, <1>2 DEF FiniteInv
<1>5. /\ \A x \in data \cup r.ooo : PacketOk(x)
      /\ total <= MaxBytes /\ total \in Nat /\ MaxBytes \in Nat
  BY <1>1, <1>2, ManagerTypes DEF PacketsInv
<1>6. \A x \in data \cup r.ooo : End(x) <= MaxBytes /\ (x.kind = "data" <=> x.len > 0)
  <2> TAKE x \in data \cup r.ooo
  <2>1. End(x) \in Nat
    BY <1>1, <1>2, SessionTypes
  <2>. QED BY <1>5, <2>1 DEF PacketOk
<1>7. CASE Finished(r)
  <2>1. s = r /\ ~RecvAcks(r, p)
    BY <1>7 DEF RecvData, RecvAcks
  <2>. QED BY <1>2, <1>3, <1>4, <2>1 DEF Outcome, Ignored
<1>8. CASE ~Finished(r)
  <2> DEFINE Q == Others(p)
             C == Coming(p.id)
  <2>1. C = {x \in r.ooo : x.kind = "data"} \cup {x \in data : x.id = p.id /\ x.kind = "data"}
    BY <1>8 DEF Coming
  <2>2. /\ \A x \in C : r.next <= x.seq
        /\ \A x, y \in C : x # y => Disjoint(x, y)
        /\ \A x \in data \cap r.ooo : x.kind # "data"
    BY <1>1, <1>2, <1>8 DEF FlowInv
  <2>3. Q = C \ {p}
    BY DEF Others
  <2> HIDE DEF C, Q
  <2>4. Takeable(r, Q)
    <3>1. Q \subseteq Packets /\ \A q \in Q : q.kind = "data" /\ r.next <= q.seq
      BY <1>2, <2>1, <2>2, <2>3
    <3>2. \A x \in r.ooo : x.kind = "data" => x \in Q
      BY <2>1, <2>2, <2>3
    <3>3. \A x, y \in Q : x # y => Disjoint(x, y)
      BY <2>2, <2>3
    <3>4. Q \subseteq data \cup r.ooo
      BY <2>1, <2>3
    <3>. QED BY <1>6, <3>1, <3>2, <3>3, <3>4 DEF Takeable
  <2>5. p.kind = "data" => \A q \in Q : Disjoint(p, q)
    BY <2>1, <2>2, <2>3
  <2>6. s \in Readers /\ Outcome(r, p, s, Q)
    <3> HIDE DEF r
    <3>. QED BY <1>2, <1>4, <1>6, <2>4, <2>5, Received
  <2>. QED BY <1>2, <1>3, <1>4, <2>6 DEF Q
<1>. QED BY <1>7, <1>8

\* What a step does to the readers.
Reads(i) ==
  /\ readers' = [readers EXCEPT ![i] = Read(readers[i])]
  /\ loops[i].at = "read"
Closes(i) == readers' = [readers EXCEPT ![i] = Close(readers[i])]

LEMMA ReadersStep ==
  ASSUME [Next]_vars, TypeOK
  PROVE  \/ readers' = readers
         \/ \E p \in data : DataArrives(p)
         \/ \E i \in Streams : LoopReads(i) /\ Reads(i)
         \/ \E i \in Streams : (LoopSuperseded(i) \/ LoopEnds(i)) /\ Closes(i)
         \/ (RestartFails \/ RestartEnds) /\ Closes(stream)
         \/ ServerRestarts
         \/ RestartCalls
         \/ RestartGoesOn
<1>1. ASSUME NEW i \in Streams, LoopReads(i)
      PROVE  Reads(i)
  BY <1>1 DEF LoopReads, Reads
<1>2. ASSUME NEW i \in Streams, LoopSuperseded(i) \/ LoopEnds(i)
      PROVE  Closes(i)
  BY <1>2 DEF LoopSuperseded, LoopEnds, CloseReader, Closes
<1>3. RestartFails \/ RestartEnds => Closes(stream)
  BY DEF RestartFails, RestartEnds, CloseReader, Closes
<1>. QED BY <1>1, <1>2, <1>3, Frames

\* Readers stay readers.
LEMMA ReadersKept ==
  ASSUME IInv, [Next]_vars
  PROVE  /\ readers' \in [Streams -> Readers]
         /\ \A i \in Streams : IsFiniteSet(readers'[i].ooo)
<1>1. TypeOK /\ FiniteInv /\ IdsInv
  BY DEF IInv
<1>2. /\ readers \in [Streams -> Readers] /\ \A i \in Streams : IsFiniteSet(readers[i].ooo)
      /\ stream \in Streams
  BY <1>1 DEF TypeOK, FiniteInv
<1>3. ASSUME NEW i \in Streams, NEW s \in Readers, IsFiniteSet(s.ooo),
             readers' = [readers EXCEPT ![i] = s]
      PROVE  /\ readers' \in [Streams -> Readers]
             /\ \A j \in Streams : IsFiniteSet(readers'[j].ooo)
  BY <1>2, <1>3
<1>4. ASSUME NEW p \in data, DataArrives(p)
      PROVE  /\ readers' \in [Streams -> Readers]
             /\ \A j \in Streams : IsFiniteSet(readers'[j].ooo)
  <2> DEFINE r == readers[p.id]
             s == RecvData(r, p)
  <2>1. /\ p.id \in Streams /\ r \in Readers /\ s \in Readers /\ IsFiniteSet(r.ooo)
        /\ readers' = [readers EXCEPT ![p.id] = s]
        /\ Outcome(r, p, s, Others(p))
    BY <1>4, Arrival
  <2> HIDE DEF s
  <2>2. s.ooo \subseteq r.ooo \cup {p}
    BY <2>1 DEF Outcome, Ignored, FailedBy, SetAside, Taken1
  <2>3. IsFiniteSet(s.ooo)
    <3>1. IsFiniteSet(r.ooo \cup {p})
      BY <2>1, FS_AddElement
    <3>. QED BY <2>2, <3>1, FS_Subset
  <2>. QED BY <1>3, <2>1, <2>3
<1>5. ASSUME NEW i \in Streams, Reads(i)
      PROVE  /\ readers' \in [Streams -> Readers]
             /\ \A j \in Streams : IsFiniteSet(readers'[j].ooo)
  BY <1>2, <1>3, <1>5, ReadIs DEF Reads
<1>6. ASSUME NEW i \in Streams, Closes(i)
      PROVE  /\ readers' \in [Streams -> Readers]
             /\ \A j \in Streams : IsFiniteSet(readers'[j].ooo)
  BY <1>2, <1>3, <1>6, CloseIs DEF Closes
<1>7. CASE ServerRestarts
  <2>1. readers' = [i \in Streams |-> IF i <= stream THEN [NewReader(0) EXCEPT !.closed = TRUE]
                                                    ELSE readers[i]]
    BY <1>7 DEF ServerRestarts
  <2> DEFINE c == [NewReader(0) EXCEPT !.closed = TRUE]
  <2>2. c \in Readers /\ c.ooo = {}
    BY NewReaderIs DEF Readers
  <2> HIDE DEF c
  <2>. QED BY <1>2, <2>1, <2>2, FS_EmptySet DEF c
<1>8. CASE RestartCalls
  <2>1. readers' = [readers EXCEPT ![stream + 1] = NewReader(restart.seq)]
    BY <1>8 DEF RestartCalls
  <2>2. NewReader(restart.seq) \in Readers /\ NewReader(restart.seq).ooo = {}
    BY <1>1, SessionTypes, NewReaderIs
  <2>. QED BY <1>2, <2>1, <2>2, FS_EmptySet
<1>9. CASE RestartGoesOn
  <2>1. \/ readers' = readers
        \/ readers' = [readers EXCEPT ![stream] = UpdateNextSeq(readers[stream], restart.announced)]
    BY <1>9 DEF RestartGoesOn
  <2> DEFINE s == UpdateNextSeq(readers[stream], restart.announced)
  <2>2. s \in Readers /\ s.ooo = readers[stream].ooo
    BY <1>1, <1>2, SessionTypes DEF UpdateNextSeq, Readers
  <2> HIDE DEF s
  <2>. QED BY <1>2, <1>3, <2>1, <2>2 DEF s
<1>. QED BY <1>1, <1>2, <1>4, <1>5, <1>6, <1>7, <1>8, <1>9, ReadersStep

-----------------------------------------------------------------------------
(* The steps of the acknowledgements.                                       *)

AckType == [id : Streams, seq : Nat, rwnd : 0..Window, fin : BOOLEAN, cancel : BOOLEAN]

\* A new acknowledgement says what its reader says after the step, or refuses a packet.
Answer(ack) ==
  /\ ack \in AckType /\ ack.id <= stream
  /\ ack.fin => readers'[ack.id].eof \/ readers'[ack.id].failed
  /\ \/ /\ ack.seq = readers'[ack.id].next
        /\ ack.rwnd = Rwnd(readers'[ack.id])
     \/ /\ Finished(readers[ack.id]) /\ readers' = readers
        /\ \E p \in data : p.id = ack.id /\ ack.seq = p.seq

LEMMA AcksStep ==
  ASSUME IInv, [Next]_vars
  PROVE  acks' \subseteq acks \/ \E ack : Answer(ack) /\ acks' \subseteq acks \cup {ack}
<1>1. TypeOK /\ readers' \in [Streams -> Readers]
  BY ReadersKept DEF IInv
<1>a. \A i \in Streams : loops[i].at # "off" => i <= stream
  <2>1. \A i \in Streams : i > streamId => loops[i].at = "off"
    BY DEF IInv, LoopsInv, Unrun, NoLoop
  <2>2. streamId \in Nat /\ stream \in Nat /\ streamId <= stream
    <3>1. IdsInv /\ streamId \in Streams /\ stream \in Streams
      BY <1>1, ManagerTypes, SessionTypes DEF IInv
    <3>. QED BY <3>1, StreamsAssumption DEF IdsInv, Streams
  <2>. QED BY <2>1, <2>2 DEF Streams
<1>b. \A p \in data : p.id <= stream
  <2>1. streamId \in Nat /\ stream \in Nat /\ streamId <= stream
    <3>1. IdsInv /\ streamId \in Streams /\ stream \in Streams
      BY <1>1, ManagerTypes, SessionTypes DEF IInv
    <3>. QED BY <3>1, StreamsAssumption DEF IdsInv, Streams
  <2>2. \A p \in data : p.id <= streamId /\ p.id \in Nat
    BY <1>1, SessionTypes DEF IInv, IdsInv, Streams
  <2>. QED BY <2>1, <2>2
<1>2. /\ stream \in Streams /\ data \subseteq Packets /\ readers \in [Streams -> Readers]
      /\ \A p \in data : p.id \in Streams /\ p.seq \in Nat
  BY <1>1, SessionTypes DEF TypeOK
<1>3. ASSUME NEW i \in Streams, NEW fin \in BOOLEAN, NEW cancel \in BOOLEAN, NEW s \in Readers,
             s.next = readers'[i].next, s.buf = readers'[i].buf,
             fin => readers'[i].eof \/ readers'[i].failed, i <= stream
      PROVE  Answer(Ack(i, s, fin, cancel))
  <2> DEFINE ack == Ack(i, s, fin, cancel)
  <2>1. ack = [id |-> i, seq |-> s.next, rwnd |-> Rwnd(s), fin |-> fin, cancel |-> cancel]
    BY DEF Ack
  <2>2. s.next \in Nat /\ Rwnd(s) \in 0..Window
    BY RwndIs DEF Readers
  <2>3. ack \in AckType
    BY <2>1, <2>2 DEF AckType
  <2>4. Rwnd(s) = Rwnd(readers'[i])
    BY <1>3 DEF Rwnd
  <2>5. ack.id = i /\ ack.seq = readers'[i].next /\ ack.rwnd = Rwnd(readers'[i]) /\ ack.fin = fin
    BY <1>3, <2>1, <2>4
  <2> HIDE DEF ack
  <2>6. ack.seq = readers'[ack.id].next /\ ack.rwnd = Rwnd(readers'[ack.id])
    BY ONLY <2>5, Zenon
  <2>8. ack.fin => readers'[ack.id].eof \/ readers'[ack.id].failed
    BY <1>3, <2>5
  <2>7. Answer(ack)
    BY <1>3, <2>3, <2>5, <2>6, <2>8 DEF Answer
  <2>. QED BY <2>7 DEF ack
<1>4. ASSUME NEW p \in data, DataArrives(p)
      PROVE  acks' \subseteq acks \/ \E ack : Answer(ack) /\ acks' \subseteq acks \cup {ack}
  <2> DEFINE r == readers[p.id]
             s == RecvData(r, p)
             ack == Ack(p.id, s, s.eof \/ s.failed, FALSE)
  <2>1. p.id \in Streams /\ s \in Readers /\ readers' = [readers EXCEPT ![p.id] = s]
    BY <1>4, Arrival
  <2>2. acks' \subseteq acks \/ acks' \subseteq acks \cup {ack}
    BY <1>4 DEF DataArrives, Answered
  <2>3. (s.eof \/ s.failed) \in BOOLEAN /\ readers'[p.id] = s
    BY <1>2, <2>1
  <2>4. Answer(ack)
    <3> HIDE DEF s
    <3>. QED BY <1>3, <1>b, <2>1, <2>3
  <2>. QED BY <2>2, <2>4
<1>5. ASSUME NEW i \in Streams, LoopReads(i), Reads(i)
      PROVE  acks' \subseteq acks \/ \E ack : Answer(ack) /\ acks' \subseteq acks \cup {ack}
  <2> DEFINE s == Read(readers[i])
             ack == Ack(i, s, FALSE, FALSE)
  <2>1. acks' \subseteq acks \/ acks' \subseteq acks \cup {ack}
    BY <1>5 DEF LoopReads, Answered
  <2>2. s \in Readers /\ readers'[i] = s
    BY <1>2, <1>5, ReadIs DEF Reads
  <2>4. i <= stream
    BY <1>5, <1>a DEF LoopReads
  <2>3. Answer(ack)
    <3> HIDE DEF s
    <3>. QED BY <1>3, <2>2, <2>4
  <2>. QED BY <2>1, <2>3
<1>6. ASSUME NEW i \in Streams, CloseReader(i), i <= stream
      PROVE  acks' \subseteq acks \/ \E ack : Answer(ack) /\ acks' \subseteq acks \cup {ack}
  <2> DEFINE r == readers[i]
             ack == Ack(i, r, FALSE, TRUE)
  <2>1. acks' \subseteq acks \/ acks' \subseteq acks \cup {ack}
    BY <1>6 DEF CloseReader, Answered
  <2>2. r \in Readers /\ readers'[i] = Close(r)
    BY <1>2, <1>6 DEF CloseReader
  <2>3. readers'[i].next = r.next /\ readers'[i].buf = r.buf
    BY <2>2, CloseIs
  <2>4. Answer(ack)
    <3> HIDE DEF r
    <3>. QED BY <1>3, <1>6, <2>2, <2>3
  <2>. QED BY <2>1, <2>4
<1>7. ASSUME NEW p \in data, DataRefused(p)
      PROVE  acks' \subseteq acks \/ \E ack : Answer(ack) /\ acks' \subseteq acks \cup {ack}
  <2> DEFINE ack == [id |-> p.id, seq |-> p.seq, rwnd |-> 0, fin |-> FALSE, cancel |-> TRUE]
  <2>1. acks' \subseteq acks \/ acks' \subseteq acks \cup {ack}
    BY <1>7 DEF DataRefused, Answered
  <2>2. Finished(readers[p.id]) /\ readers' = readers
    BY <1>7 DEF DataRefused, localVars
  <2>3. 0 \in 0..Window
    BY ReaderAssumption
  <2>4. ack \in AckType
    BY <1>2, <2>3 DEF AckType
  <2>5. Answer(ack)
    <3>1. ack.id = p.id /\ ack.seq = p.seq /\ ack.fin = FALSE
      OBVIOUS
    <3> HIDE DEF ack
    <3>. QED BY <1>b, <2>2, <2>4, <3>1 DEF Answer
  <2>. QED BY <2>1, <2>5
<1>8. ASSUME NEW i \in Streams, LoopSuperseded(i) \/ LoopEnds(i)
      PROVE  CloseReader(i) /\ i <= stream
  BY <1>8, <1>a DEF LoopSuperseded, LoopEnds
<1>9. RestartFails \/ RestartEnds => CloseReader(stream)
  BY DEF RestartFails, RestartEnds
<1>12. stream <= stream
  BY <1>2, StreamsAssumption DEF Streams
<1>10. (\E ack \in acks : AckArrives(ack)) \/ LinkDrops \/ ServerRestarts => acks' \subseteq acks
  BY DEF AckArrives, LinkDrops, ServerRestarts
<1>11. ASSUME NEW i \in Streams, LoopReads(i)
       PROVE  Reads(i)
  BY <1>11 DEF LoopReads, Reads
<1>. QED BY <1>2, <1>4, <1>5, <1>6, <1>7, <1>8, <1>9, <1>10, <1>11, <1>12, Frames

-----------------------------------------------------------------------------
LEMMA TypesKept ==
  ASSUME IInv, [Next]_vars
  PROVE  TypeOK'
<1>0. TypeOK
  BY DEF IInv
<1>1. Remote!TypeOK'
  BY StepIsManagerStep, RemoteStepKeeps DEF IInv, RemoteInv
<1>2. link' \in {"down", "up", "routed"} /\ live' \in BOOLEAN
  <2>1. link \in {"down", "up", "routed"} /\ live \in BOOLEAN /\ prep.lost \in BOOLEAN
    BY <1>0 DEF TypeOK
  <2>. QED BY <2>1, Frames DEF LinkDrops, LinkComesUp, ServerRestarts, RestartStats,
                            PrepareConnects
<1>3. writer' \in 0..MaxStreams /\ pending' \in 0..MaxStreams
  <2>1. writer \in 0..MaxStreams /\ pending \in 0..MaxStreams /\ prep.id \in 0..MaxStreams
        /\ 0 \in 0..MaxStreams
    BY <1>0, StreamsAssumption DEF TypeOK
  <2>. QED BY <2>1, Frames DEF AckArrives, LinkDrops, ServerRestarts, PrepareConnects, StartsStream
<1>4. data' \subseteq Packets
  <2>1. ASSUME NEW p, Sends(p)
        PROVE  p \in Packets
    BY <1>0, <2>1, SentPackets DEF Sends, SendData, SendTerminal
  <2>. QED BY <1>0, <2>1, DataStep DEF TypeOK
<1>5. acks' \subseteq AckType
  BY <1>0, AcksStep DEF Answer, TypeOK, AckType
<1>6. request' \in [kind : {"none", "prepare", "start"}, seq : Nat]
  <2>1. /\ NoRequest \in [kind : {"none", "prepare", "start"}, seq : Nat]
        /\ [kind |-> "prepare", seq |-> restart.seq] \in [kind : {"none", "prepare", "start"}, seq : Nat]
        /\ [kind |-> "start", seq |-> 0] \in [kind : {"none", "prepare", "start"}, seq : Nat]
    BY <1>0, SessionTypes DEF NoRequest
  <2>2. request \in [kind : {"none", "prepare", "start"}, seq : Nat]
    BY <1>0 DEF TypeOK
  <2>. QED BY <2>1, <2>2, Frames DEF LinkDrops, ServerRestarts, RestartCalls, RestartGoesOn,
                                 PrepareFindsDone, PrepareDisconnects, StartsStream
<1>7. prep' \in [at : {"idle", "head", "consume", "connect"}, id : 0..MaxStreams,
                 seq : Nat, head : Positions0, lost : BOOLEAN]
  <2> DEFINE T == [at : {"idle", "head", "consume", "connect"}, id : 0..MaxStreams,
                   seq : Nat, head : Positions0, lost : BOOLEAN]
  <2>1. prep \in T
    BY <1>0 DEF TypeOK
  <2>2. NoPrep \in T
    BY ManagerAssumption, StreamsAssumption DEF NoPrep, Positions0
  <2>3. CASE LinkDrops \/ ServerRestarts
    BY <2>1, <2>3 DEF LinkDrops, ServerRestarts
  <2>4. CASE PrepareDisconnects
    <3>1. prep' = [NoPrep EXCEPT !.at = "head", !.id = stream, !.seq = request.seq]
      BY <2>4 DEF PrepareDisconnects
    <3>2. stream \in 0..MaxStreams /\ request.seq \in Nat
      BY <1>0, SessionTypes, StreamsAssumption DEF Streams
    <3>. QED BY <2>2, <3>1, <3>2
  <2>5. CASE PrepareReadsHead
    <3>1. HeadPos \in Positions0
      BY <1>0, ManagerTypes DEF Positions0
    <3>. QED BY <2>1, <2>5, <3>1 DEF PrepareReadsHead
  <2>6. CASE PrepareConsumes
    <3> DEFINE ahead == prep.seq - prep.head
    <3>1. CASE ahead > count
      BY <2>2, <2>6, <3>1 DEF PrepareConsumes
    <3>2. CASE ~(ahead > count)
      <4>1. prep' = [prep EXCEPT !.at = "connect", !.head = IF ahead > 0 THEN HeadPos + ahead ELSE prep.head]
        BY <2>1, <2>6, <3>2 DEF PrepareConsumes
      <4>2. (IF ahead > 0 THEN HeadPos + ahead ELSE prep.head) \in Positions0
        <5>1. prep.head \in Positions0 /\ ahead \in Int
          BY <1>0, <2>1, ManagerAssumption DEF Positions0
        <5> HIDE DEF ahead
        <5>2. ahead > 0 => HeadPos + ahead \in 0..MaxBytes
          BY <1>0, <3>2, <5>1, ManagerTypes
        <5>. QED BY <5>1, <5>2 DEF Positions0
      <4> HIDE DEF ahead
      <4>. QED BY <2>1, <4>1, <4>2
    <3>. QED BY <3>1, <3>2
  <2>7. CASE PrepareConnects
    BY <2>2, <2>7 DEF PrepareConnects
  <2> HIDE DEF T
  <2>. QED BY <2>1, <2>3, <2>4, <2>5, <2>6, <2>7, Frames DEF T
<1>8. stream' \in Streams
  <2>1. stream \in Streams
    BY <1>0 DEF TypeOK
  <2>2. CASE RestartCalls
    <3>1. stream < MaxStreams /\ stream' = stream + 1
      BY <2>2 DEF RestartCalls, IInv, RestartInv
    <3>. QED BY <2>1, <3>1, StreamsAssumption DEF Streams
  <2>. QED BY <2>1, <2>2, Frames
<1>9. readers' \in [Streams -> Readers]
  BY ReadersKept
<1>10. loops' \in [Streams -> [at : {"off", "read", "check", "act"}, chunk : Seq(Positions0),
                               end : {"none", "eof", "error", "closed"}]]
  <2> DEFINE L == [at : {"off", "read", "check", "act"}, chunk : Seq(Positions0),
                   end : {"none", "eof", "error", "closed"}]
  <2>1. loops \in [Streams -> L] /\ stream \in Streams
    BY <1>0 DEF TypeOK
  <2>2. NoLoop \in L /\ Loop("read") \in L
    BY EmptySeq DEF NoLoop, Loop
  <2>3. ASSUME NEW i \in Streams, LoopReads(i)
        PROVE  loops' \in [Streams -> L]
    <3> DEFINE l == [at |-> "check", chunk |-> ReadChunk(readers[i]), end |-> ReadEnd(readers[i])]
    <3>1. loops' = [loops EXCEPT ![i] = l]
      BY <2>3 DEF LoopReads
    <3>2. ReadChunk(readers[i]) \in Seq(Positions0)
      BY <1>0, ReadIs DEF TypeOK
    <3>3. ReadEnd(readers[i]) \in {"none", "eof", "error", "closed"}
      BY DEF ReadEnd
    <3>4. l \in L
      BY <3>2, <3>3
    <3> HIDE DEF l, L
    <3>. QED BY <2>1, <3>1, <3>4
  <2>4. ASSUME NEW i \in Streams
        PROVE  [loops[i] EXCEPT !.at = "act"] \in L /\ [loops[i] EXCEPT !.at = "off"] \in L
    BY <2>1
  <2> HIDE DEF L
  <2>5. ASSUME NEW i \in Streams, LoopGoesOn(i) \/ LoopSuperseded(i) \/ LoopStores(i) \/ LoopEnds(i)
        PROVE  loops' \in [Streams -> L]
    BY <2>1, <2>2, <2>4, <2>5 DEF LoopGoesOn, LoopSuperseded, LoopStores, LoopEnds
  <2>6. CASE ServerRestarts
    BY <2>1, <2>2, <2>6 DEF L, ServerRestarts
  <2>7. CASE RestartRunsLoop
    BY <2>1, <2>2, <2>7 DEF L, RestartRunsLoop
  <2>. QED BY <2>1, <2>3, <2>5, <2>6, <2>7, Frames DEF L
<1>11. restart' \in [at : {"idle", "open", "prepare", "prepared", "start", "started"},
                     seq : Nat, announced : Nat,
                     result : {"none", "ok", "refused", "eof", "error"}]
  <2> DEFINE T == [at : {"idle", "open", "prepare", "prepared", "start", "started"},
                   seq : Nat, announced : Nat, result : {"none", "ok", "refused", "eof", "error"}]
  <2>1. restart \in T
    BY <1>0 DEF TypeOK
  <2>2. NoRestart \in T
    BY DEF NoRestart
  <2>4. CASE ServerRestarts \/ RestartRunsLoop \/ RestartFails \/ RestartEnds
    BY <2>2, <2>4 DEF ServerRestarts, RestartRunsLoop, RestartFails, RestartEnds
  <2>5. CASE RestartStats
    <3>1. Len(file) + gap \in Nat
      BY <1>0, SessionTypes
    <3>. QED BY <2>2, <2>5, <3>1 DEF RestartStats
  <2>6. CASE RestartCalls \/ RestartGoesOn
    BY <2>1, <2>6 DEF RestartCalls, RestartGoesOn
  <2>7. CASE PrepareFindsDone
    <3>1. terminalEvent \in {"none", "ok", "refused", "eof", "error"} /\ request.seq \in Nat
      BY <1>0, SessionTypes DEF TypeOK, Remote!TypeOK
    <3>2. Replies("prepare", stream, terminalEvent, request.seq)
      BY <2>7 DEF PrepareFindsDone
    <3>. QED BY <2>1, <3>1, <3>2 DEF Replies
  <2>8. CASE PrepareConsumes
    <3>1. restart' = restart \/ Replies("prepare", prep.id, "refused", 0)
      BY <2>8 DEF PrepareConsumes
    <3> DEFINE n == [restart EXCEPT !.at = "prepared", !.result = "refused", !.announced = 0]
    <3>3. n \in T
      BY <2>1
    <3>4. Replies("prepare", prep.id, "refused", 0) => restart' = n \/ restart' = restart
      BY DEF Replies
    <3> HIDE DEF n, T
    <3>2. Replies("prepare", prep.id, "refused", 0) => restart' \in T
      BY <2>1, <3>3, <3>4
    <3>. QED BY <2>1, <3>1, <3>2 DEF T
  <2>9. CASE PrepareConnects
    <3>1. Replies("prepare", prep.id, "ok", IF prep.seq > prep.head THEN prep.seq ELSE prep.head)
      BY <2>9 DEF PrepareConnects
    <3>2. (IF prep.seq > prep.head THEN prep.seq ELSE prep.head) \in Nat
      BY <1>0, SessionTypes
    <3>. QED BY <2>1, <3>1, <3>2 DEF Replies
  <2>10. CASE StartsStream
    <3>1. Replies("start", pending, "ok", 0)
      BY <2>10 DEF StartsStream
    <3>. QED BY <2>1, <3>1 DEF Replies
  <2> HIDE DEF T
  <2>. QED BY <2>1, <2>4, <2>5, <2>6, <2>7, <2>8, <2>9, <2>10, Frames DEF T
<1>12. file' \in Seq([id : Streams, pos : Positions0])
  <2>1. file \in Seq([id : Streams, pos : Positions0])
    BY <1>0 DEF TypeOK
  <2>2. ASSUME NEW i \in Streams, LoopStores(i)
        PROVE  file' \in Seq([id : Streams, pos : Positions0])
    <3> DEFINE c == loops[i].chunk
               more == [k \in 1..Len(c) |-> [id |-> i, pos |-> c[k]]]
    <3>1. c \in Seq(Positions0) /\ DOMAIN c = 1..Len(c) /\ Len(c) \in Nat
      BY <1>0, SessionTypes
    <3>2. file' = file \o more
      BY <2>2, <3>1 DEF LoopStores
    <3>3. \A k \in 1..Len(c) : [id |-> i, pos |-> c[k]] \in [id : Streams, pos : Positions0]
      BY <3>1
    <3>4. more \in Seq([id : Streams, pos : Positions0])
      BY <3>1, <3>3, IsASeq
    <3> HIDE DEF more
    <3>. QED BY <2>1, <3>2, <3>4, ConcatProperties, Zenon
  <2>. QED BY <2>1, <2>2, Frames
<1>13. gap' \in Nat
  <2>1. gap \in Nat /\ restart.seq \in Nat /\ restart.announced \in Nat
    BY <1>0, SessionTypes
  <2>2. CASE RestartGoesOn
    BY <2>1, <2>2 DEF RestartGoesOn
  <2>. QED BY <2>1, <2>2, Frames
<1>14. done' \in {"no", "eof", "error"}
  <2>1. done \in {"no", "eof", "error"}
    BY <1>0 DEF TypeOK
  <2>2. ASSUME NEW i \in Streams, LoopEnds(i)
        PROVE  done' \in {"no", "eof", "error"}
    BY <2>2 DEF LoopEnds
  <2>3. CASE RestartEnds
    <3>1. /\ restart.at = "prepared" /\ restart.result # "ok"
          /\ done' = IF restart.result = "refused" \/ done # "no" THEN done ELSE restart.result
      BY <2>3 DEF RestartEnds
    <3>2. restart.result \in {"refused", "eof", "error"}
      BY <1>0, <3>1 DEF IInv, TerminalInv, TypeOK
    <3>. QED BY <2>1, <3>1, <3>2
  <2>. QED BY <2>1, <2>2, <2>3, Frames
<1>. QED BY <1>1, <1>2, <1>3, <1>4, <1>5, <1>6, <1>7, <1>8, <1>9, <1>10, <1>11, <1>12,
         <1>13, <1>14 DEF TypeOK, AckType

-----------------------------------------------------------------------------
(* The steps of the remote end, by what the session knows of them.          *)

Goroutine == PtyWrites \/ PtySignals \/ PtyFinishes \/ SenderSends \/ SenderWaits

\* What no step of the remote end does: forget the end of the process or what it wrote.
Monotone ==
  /\ total <= total'
  /\ terminalEvent # "none" => terminalEvent' = terminalEvent /\ total' = total

LEMMA GoroutineEffect ==
  ASSUME IInv, Goroutine
  PROVE  /\ Monotone
         /\ connected' = connected /\ streamId' = streamId /\ rwndSize' = rwndSize
         /\ windowSize' = windowSize /\ terminalAcked' = terminalAcked
         /\ HeadPos' \in Nat /\ HeadPos <= HeadPos'
         /\ connected => HeadPos' = HeadPos
         /\ count' < RingSize => HeadPos' = HeadPos
         /\ terminalEvent # "none" => count' = count /\ HeadPos' = HeadPos
         /\ ~SenderSends => sentNotAcked' = sentNotAcked
         /\ SenderSends => UNCHANGED <<total, count, terminalEvent>>
<1>1. /\ TypeOK /\ Remote!ModeFollowsClient
      /\ ~connected => windowSize = RingSize
  BY DEF IInv, RemoteInv, HeadInv
<1>2. /\ total \in Nat /\ count \in Nat /\ count <= total /\ count <= RingSize
      /\ windowSize \in Nat /\ windowSize <= RingSize /\ RingSize \in Nat
      /\ HeadPos = total - count
      /\ connected => syncMode
  BY <1>1, ManagerTypes DEF Remote!ModeFollowsClient
<1>3. CASE PtyWrites
  <2>1. CASE WriteByte
    <3>1. /\ total' = total + 1 /\ terminalEvent = "none" /\ ~(syncMode /\ count >= windowSize)
          /\ count' = IF count < windowSize THEN count + 1 ELSE count
          /\ UNCHANGED <<windowSize, sessionVars, terminalVars>>
      BY <2>1 DEF WriteByte, PtyReady
    <3>2. ~SenderSends
      BY <1>2, <3>1 DEF SenderSends, SendData, SendTerminal, ringVars
    <3>3. HeadPos' = total' - count' /\ count' \in Nat /\ total' \in Nat
      BY <1>2, <3>1 DEF HeadPos
    <3>4. CASE count < windowSize
      BY <1>2, <3>1, <3>2, <3>3, <3>4 DEF Monotone, sessionVars, terminalVars
    <3>5. CASE ~(count < windowSize)
      <4>1. ~connected /\ count = RingSize /\ count' = count
        BY <1>1, <1>2, <3>1, <3>5
      <4>. QED BY <1>2, <3>1, <3>2, <3>3, <4>1 DEF Monotone, sessionVars, terminalVars
    <3>. QED BY <3>4, <3>5
  <2>2. CASE WriteBlocks
    <3>1. UNCHANGED <<total, count, windowSize, sessionVars, terminalVars>> /\ blocked' = TRUE /\ ~blocked
      BY <2>2 DEF WriteBlocks, PtyReady
    <3>2. ~SenderSends
      BY <3>1 DEF SenderSends, SendData, SendTerminal, ringVars
    <3>. QED BY <1>2, <3>1, <3>2 DEF Monotone, HeadPos, sessionVars, terminalVars
  <2>. QED BY <1>3, <2>1, <2>2 DEF PtyWrites
<1>4. CASE PtySignals
  <2>1. UNCHANGED <<ringVars, sessionVars, terminalVars>> /\ signalDue' # signalDue
    BY <1>4 DEF PtySignals, SignalSender
  <2>2. ~SenderSends
    BY <2>1 DEF SenderSends, SendData, SendTerminal
  <2>. QED BY <1>2, <2>1, <2>2 DEF Monotone, HeadPos, ringVars, sessionVars, terminalVars
<1>5. CASE PtyFinishes
  <2>1. /\ UNCHANGED <<ringVars, sessionVars, terminalSent, terminalAcked>> /\ terminalEvent = "none"
        /\ terminalEvent' # "none"
    BY <1>5 DEF PtyFinishes, PtyEnds, PtyReady
  <2>2. ~SenderSends
    BY <2>1 DEF SenderSends, SendData, SendTerminal, terminalVars
  <2>. QED BY <1>2, <2>1, <2>2 DEF Monotone, HeadPos, ringVars, sessionVars
<1>6. CASE SenderSends
  <2>1. /\ UNCHANGED <<ringVars, connected, streamId, rwndSize>>
        /\ UNCHANGED <<terminalEvent, terminalAcked>>
    BY <1>6 DEF SenderSends, SendData, SendTerminal, sessionVars, terminalVars
  <2>. QED BY <1>2, <1>6, <2>1 DEF Monotone, HeadPos, ringVars
<1>7. CASE SenderWaits
  <2>1. UNCHANGED <<ringVars, sessionVars, terminalVars>>
    BY <1>7 DEF SenderWaits, SenderSleeps
  <2>2. asleep' = TRUE /\ ~asleep
    BY <1>7 DEF SenderWaits, SenderSleeps, SenderRuns
  <2>3. ~SenderSends
    BY <2>2 DEF SenderSends, SendData, SendTerminal
  <2>. QED BY <1>2, <2>1, <2>3 DEF Monotone, HeadPos, ringVars, sessionVars, terminalVars
<1>. QED BY <1>3, <1>4, <1>5, <1>6, <1>7 DEF Goroutine

LEMMA AckEffect ==
  ASSUME IInv, NEW ack \in acks, AckArrives(ack)
  PROVE  /\ connected' = connected /\ streamId' = streamId /\ total' = total
         /\ terminalEvent' = terminalEvent
         /\ ~connected => UNCHANGED managerVars
         /\ HeadPos' \in Nat /\ sentNotAcked' \in Nat
         /\ HeadPos' + sentNotAcked' = HeadPos + sentNotAcked
         /\ \/ UNCHANGED <<count, rwndSize, sentNotAcked>> /\ HeadPos' = HeadPos
            \/ /\ connected /\ ack.id = streamId /\ writer = streamId
               /\ HeadPos' = ack.seq /\ HeadPos <= ack.seq /\ rwndSize' = ack.rwnd
               /\ count' <= count
         /\ terminalAcked' # terminalAcked => ack.fin
<1>1. TypeOK
  BY DEF IInv
<1>2. /\ total \in Nat /\ count \in Nat /\ count <= total /\ HeadPos = total - count
      /\ sentNotAcked \in Nat /\ sentNotAcked <= count /\ HeadPos \in Nat /\ ack.seq \in Nat
  BY <1>1, ManagerTypes, SessionTypes
<1>3. CASE UNCHANGED managerVars
  BY <1>2, <1>3 DEF managerVars, ringVars, sessionVars, terminalVars, HeadPos
<1>4. CASE writer = ack.id /\ RecvAck(ack)
  <2> DEFINE acked == ack.seq - HeadPos
  <2>1. /\ connected /\ ack.id = streamId
        /\ ack.seq >= HeadPos /\ ack.seq - HeadPos <= sentNotAcked
        /\ sentNotAcked' = sentNotAcked - acked
        /\ rwndSize' = ack.rwnd
        /\ SetEffectiveWindow(TRUE, EffectiveWindow(ack.rwnd), count - acked, acked > 0)
        /\ UNCHANGED <<signalDue, connected, streamId, terminalVars>>
    BY <1>4 DEF RecvAck, InFlight, TakesAck
  <2>2. count' = count - acked /\ total' = total
    BY <2>1 DEF SetEffectiveWindow
  <2>3. /\ HeadPos' = total' - count' /\ acked \in Nat /\ acked <= sentNotAcked
    BY <1>2, <2>1 DEF HeadPos
  <2>4. HeadPos' = ack.seq /\ count' <= count
    BY <1>2, <2>2, <2>3
  <2>5. HeadPos' + sentNotAcked' = HeadPos + sentNotAcked /\ sentNotAcked' \in Nat
    BY <1>2, <2>1, <2>3, <2>4
  <2> HIDE DEF acked
  <2>. QED BY <1>2, <1>4, <2>1, <2>2, <2>4, <2>5 DEF terminalVars
<1>5. CASE RecvFin(ack)
  BY <1>2, <1>5 DEF RecvFin, ringVars, sessionVars, HeadPos
<1>6. CASE RecvOutside(ack)
  BY <1>2, <1>6 DEF RecvOutside, ringVars, terminalVars, HeadPos
<1>. QED BY <1>3, <1>4, <1>5, <1>6 DEF AckArrives, RecvIgnored

LEMMA DisconnectEffect ==
  ASSUME IInv, PrepareDisconnects
  PROVE  /\ connected' = FALSE /\ streamId' = streamId /\ total' = total /\ count' = count
         /\ terminalEvent' = terminalEvent /\ terminalAcked' = terminalAcked
         /\ HeadPos' = HeadPos /\ windowSize' = RingSize
<1>1. TypeOK /\ (~connected => windowSize = RingSize)
  BY DEF IInv, HeadInv
<1>2. /\ total \in Nat /\ count \in Nat /\ count <= RingSize /\ RingSize \in Nat
      /\ connected \in BOOLEAN
  BY <1>1, ManagerTypes
<1>3. CASE connected
  <2>1. /\ connected' = FALSE /\ SetEffectiveWindow(FALSE, RingSize, count, FALSE)
        /\ UNCHANGED <<signalDue, streamId, rwndSize, terminalEvent, terminalAcked>>
    BY <1>3 DEF PrepareDisconnects, ClientDisconnected
  <2>2. windowSize' = RingSize /\ total' = total /\ count' = count
    BY <1>2, <2>1 DEF SetEffectiveWindow, Smaller
  <2>. QED BY <2>1, <2>2 DEF HeadPos
<1>4. CASE ~connected
  BY <1>1, <1>2, <1>4 DEF PrepareDisconnects, ClientDisconnected, managerVars, ringVars, sessionVars,
              terminalVars, HeadPos
<1>. QED BY <1>3, <1>4

LEMMA ConsumeEffect ==
  ASSUME IInv, PrepareConsumes
  PROVE  /\ prep.at = "consume" /\ ~connected
         /\ UNCHANGED <<connected, streamId, total, terminalEvent, terminalAcked, windowSize,
                        rwndSize, sentNotAcked>>
         /\ HeadPos' \in Nat /\ HeadPos <= HeadPos' /\ count' <= count
         /\ \/ /\ prep.seq - prep.head > count
               /\ UNCHANGED managerVars /\ HeadPos' = HeadPos
               /\ prep' = NoPrep
               /\ Replies("prepare", prep.id, "refused", 0)
            \/ /\ prep.seq - prep.head <= count /\ restart' = restart
               /\ prep'.at = "connect" /\ prep'.id = prep.id /\ prep'.seq = prep.seq
               /\ prep'.lost = prep.lost
               /\ \/ prep.seq <= prep.head /\ HeadPos' = HeadPos /\ prep'.head = prep.head
                  \/ /\ prep.seq > prep.head
                     /\ HeadPos' = HeadPos + (prep.seq - prep.head)
                     /\ prep'.head = HeadPos'
<1>1. TypeOK /\ prep.at = "consume" /\ ~connected
  BY DEF IInv, IdsInv, PrepareConsumes
<1>2. /\ total \in Nat /\ count \in Nat /\ count <= total /\ HeadPos = total - count
      /\ HeadPos \in Nat /\ prep.seq \in Nat /\ prep.head \in Nat
  BY <1>1, ManagerTypes, SessionTypes
<1> DEFINE ahead == prep.seq - prep.head
<1>3. CASE ahead > count
  BY <1>1, <1>2, <1>3 DEF PrepareConsumes, managerVars, ringVars, sessionVars, terminalVars, HeadPos
<1>4. CASE ~(ahead > count)
  <2>1. /\ prep' = [prep EXCEPT !.at = "connect", !.head = IF ahead > 0 THEN HeadPos + ahead ELSE prep.head]
        /\ ConsumeBytes(ahead) /\ restart' = restart
    BY <1>4 DEF PrepareConsumes, TypeOK
  <2>2. /\ prep'.at = "connect" /\ prep'.id = prep.id /\ prep'.seq = prep.seq
        /\ prep'.lost = prep.lost
        /\ prep'.head = IF ahead > 0 THEN HeadPos + ahead ELSE prep.head
    BY <1>1, <2>1 DEF TypeOK
  <2>3. count' = (IF ahead > 0 THEN count - ahead ELSE count) /\ total' = total
    BY <2>1 DEF ConsumeBytes
  <2>4. UNCHANGED <<connected, streamId, total, terminalEvent, terminalAcked, windowSize,
                    rwndSize, sentNotAcked>>
    BY <2>1 DEF ConsumeBytes, sessionVars, terminalVars
  <2>5. HeadPos' = total' - count' /\ ahead \in Int
    BY <1>2 DEF HeadPos
  <2>6. CASE ahead > 0
    <3>1. HeadPos' = HeadPos + ahead /\ count' <= count /\ prep.seq > prep.head
      BY <1>2, <2>3, <2>5, <2>6
    <3>. QED BY <1>1, <1>2, <1>4, <2>1, <2>2, <2>4, <2>6, <3>1
  <2>7. CASE ~(ahead > 0)
    BY <1>1, <1>2, <1>4, <2>1, <2>2, <2>3, <2>4, <2>5, <2>7
  <2>. QED BY <2>6, <2>7
<1>. QED BY <1>3, <1>4

LEMMA ConnectEffect ==
  ASSUME PrepareConnects
  PROVE  /\ connected' = TRUE /\ streamId' = prep.id /\ rwndSize' = 0 /\ sentNotAcked' = 0
         /\ UNCHANGED <<total, count, terminalEvent, terminalAcked>> /\ HeadPos' = HeadPos
         /\ prep.at = "connect" /\ prep' = NoPrep /\ ~connected
  BY DEF PrepareConnects, ClientConnected, SetEffectiveWindow, terminalVars, HeadPos

LEMMA StartEffect ==
  ASSUME StartsStream
  PROVE  /\ connected /\ rwndSize' = Window
         /\ UNCHANGED <<connected, streamId, sentNotAcked, total, count, terminalEvent,
                        terminalAcked>>
         /\ HeadPos' = HeadPos
  BY DEF StartsStream, SetRwndSize, SetEffectiveWindow, terminalVars, HeadPos

LEMMA AlwaysMonotone ==
  ASSUME IInv, [Next]_vars
  PROVE  Monotone
<1>1. total \in Nat
  BY ManagerTypes DEF IInv
<1>2. CASE UNCHANGED managerVars
  BY <1>1, <1>2 DEF Monotone, managerVars, ringVars, terminalVars
<1>3. CASE UNCHANGED <<total, terminalEvent>>
  BY <1>1, <1>3 DEF Monotone
<1>. QED BY <1>2, <1>3, Frames, GoroutineEffect, AckEffect, DisconnectEffect, ConsumeEffect,
            ConnectEffect, StartEffect DEF Goroutine

-----------------------------------------------------------------------------
(* Packets.                                                                 *)

\* What a step puts aside in a reader or ends it with came to it or was there.
LEMMA ReaderMoves ==
  ASSUME IInv, [Next]_vars, NEW i \in Streams
  PROVE  LET r == readers[i]
             s == readers'[i]
         IN  /\ \A p \in s.ooo : p \in r.ooo \/ (p \in data /\ p.id = i)
             /\ s.failed => r.failed \/ \E p \in data : p.id = i /\ p.kind = "error"
             /\ s.eof => \/ r.eof /\ s.next = r.next
                         \/ \E p \in data \cup r.ooo : p.id = i /\ p.kind = "eof" /\ s.next = total
<1> DEFINE r == readers[i]
           s == readers'[i]
           Kept == s.ooo = r.ooo /\ s.failed = r.failed /\ s.eof = r.eof /\ s.next = r.next
           Goal == /\ \A p \in s.ooo : p \in r.ooo \/ (p \in data /\ p.id = i)
                   /\ s.failed => r.failed \/ \E p \in data : p.id = i /\ p.kind = "error"
                   /\ s.eof => \/ r.eof /\ s.next = r.next
                               \/ \E p \in data \cup r.ooo : p.id = i /\ p.kind = "eof" /\ s.next = total
<1>1. /\ TypeOK /\ PacketsInv /\ IdsInv
      /\ readers \in [Streams -> Readers] /\ stream \in Streams
      /\ readers[i] \in Readers /\ readers[i].ooo \subseteq Packets
  BY SessionTypes DEF IInv, TypeOK
<1>2. Kept => Goal
  OBVIOUS
<1>3. ASSUME NEW p \in data, DataArrives(p)
      PROVE  Goal
  <2> DEFINE x == RecvData(readers[p.id], p)
  <2>1. readers' = [readers EXCEPT ![p.id] = x] /\ p.id \in Streams
        /\ Outcome(readers[p.id], p, x, Others(p))
    BY <1>3, Arrival
  <2> HIDE DEF x
  <2>2. CASE p.id # i
    <3>1. s = r
      BY <1>1, <2>1, <2>2
    <3>. QED BY <1>2, <3>1
  <2>3. CASE p.id = i
    <3>1. s = x /\ Outcome(r, p, s, Others(p))
      BY <1>1, <2>1, <2>3
    <3> HIDE DEF s
    <3>2. CASE Ignored(r, p, s)
      BY <3>2 DEF Ignored
    <3>3. CASE FailedBy(r, p, s)
      BY <2>3, <3>3 DEF FailedBy, Finished
    <3>4. CASE SetAside(r, p, s)
      BY <2>3, <3>4 DEF SetAside, Finished
    <3>5. CASE ~Finished(r) /\ p.seq = r.next /\ p.kind # "error" /\ Taken1(r, p, s, Others(p))
      <4>1. /\ s.ooo \subseteq r.ooo /\ ~s.failed /\ End(p) <= s.next
            /\ s.eof => p.kind = "eof" \/ \E q \in r.ooo : q.kind = "eof" /\ q.seq = s.next
            /\ s.next = End(p) \/ \E q \in r.ooo : q.kind = "data" /\ s.next = End(q)
        BY <3>5 DEF Taken1
      <4>2. /\ PacketOk(p) /\ \A q \in r.ooo : PacketOk(q) /\ q.id = i
            /\ p \in Packets /\ p.len \in Nat /\ p.seq \in Nat /\ total \in Nat
            /\ \A q \in r.ooo : End(q) \in Nat
        BY <1>1, SessionTypes, ManagerTypes DEF PacketsInv, IdsInv
      <4>3. CASE p.kind = "eof" /\ s.eof
        <5>1. p.len = 0 /\ p.seq = total
          BY <4>2, <4>3 DEF PacketOk
        <5>2. End(p) = total
          BY <4>2, <5>1 DEF End
        <5>3. \A q \in r.ooo : End(q) <= total
          BY <4>2 DEF PacketOk
        <5>4. s.next = total
          BY <4>1, <4>2, <5>2, <5>3
        <5>. QED BY <2>3, <4>1, <4>3, <5>4
      <4>4. ASSUME NEW q \in r.ooo, q.kind = "eof", q.seq = s.next
            PROVE  Goal
        <5>1. q.seq = total /\ q.id = i
          BY <4>2, <4>4 DEF PacketOk
        <5>. QED BY <4>1, <4>4, <5>1
      <4>. QED BY <4>1, <4>3, <4>4
    <3>. QED BY <3>1, <3>2, <3>3, <3>4, <3>5 DEF Outcome
  <2>. QED BY <2>2, <2>3
<1>4. ASSUME NEW j \in Streams, Reads(j)
      PROVE  Kept
  BY <1>1, <1>4, ReadIs DEF Reads
<1>5. ASSUME NEW j \in Streams, Closes(j)
      PROVE  Kept
  BY <1>1, <1>5, CloseIs DEF Closes
<1>6. ASSUME ServerRestarts
      PROVE  Goal
  <2>1. readers' = [j \in Streams |-> IF j <= stream THEN [NewReader(0) EXCEPT !.closed = TRUE]
                                                    ELSE readers[j]]
    BY <1>6 DEF ServerRestarts
  <2> DEFINE c == [NewReader(0) EXCEPT !.closed = TRUE]
  <2>2. c.ooo = {} /\ ~c.eof /\ ~c.failed
    BY NewReaderIs DEF Readers
  <2>3. s = c \/ s = r
    BY <2>1
  <2> HIDE DEF c, s
  <2>. QED BY <2>2, <2>3
<1>7. ASSUME RestartCalls
      PROVE  Goal
  <2>1. readers' = [readers EXCEPT ![stream + 1] = NewReader(restart.seq)]
    BY <1>7 DEF RestartCalls
  <2> DEFINE c == NewReader(restart.seq)
  <2>2. c.ooo = {} /\ ~c.eof /\ ~c.failed
    BY <1>1, SessionTypes, NewReaderIs
  <2>3. s = c \/ s = r
    BY <1>1, <2>1
  <2> HIDE DEF c, s
  <2>. QED BY <2>2, <2>3
<1>8. ASSUME RestartGoesOn
      PROVE  Goal
  <2> DEFINE x == UpdateNextSeq(readers[stream], restart.announced)
  <2>1. \/ readers' = readers
        \/ restart.announced > restart.seq /\ readers' = [readers EXCEPT ![stream] = x]
    BY <1>8 DEF RestartGoesOn
  <2>2. x.ooo = readers[stream].ooo /\ x.eof = readers[stream].eof /\ x.failed = readers[stream].failed
    BY <1>1 DEF UpdateNextSeq, Readers
  <2> HIDE DEF x
  <2>3. restart.announced > restart.seq => ~readers[stream].eof
    <3>1. restart.at = "prepared" /\ restart.result = "ok"
      BY <1>8 DEF RestartGoesOn
    <3>2. readers[stream].next = restart.seq /\ restart.announced <= HeadPos
      BY <3>1 DEF IInv, CorkedInv, HeadInv
    <3>3. readers[stream].eof => restart.seq = total
      BY <1>1, <3>2 DEF PacketsInv
    <3>4. restart.announced \in Nat /\ restart.seq \in Nat /\ HeadPos \in Nat /\ HeadPos <= total
          /\ total \in Nat
      BY <1>1, SessionTypes, ManagerTypes
    <3>. QED BY <3>2, <3>3, <3>4
  <2>4. CASE i = stream
    BY <1>1, <1>2, <2>1, <2>2, <2>3, <2>4
  <2>5. CASE i # stream
    BY <1>1, <1>2, <2>1, <2>5
  <2>. QED BY <2>4, <2>5
<1>9. readers' = readers => Kept
  OBVIOUS
<1> HIDE DEF Kept
<1>10. Goal
  <2> HIDE DEF Goal
  <2>. QED BY <1>1, <1>2, <1>3, <1>4, <1>5, <1>6, <1>7, <1>8, <1>9, ReadersStep
<1>. QED BY <1>10 DEF Goal

LEMMA PacketsKept ==
  ASSUME IInv, [Next]_vars
  PROVE  PacketsInv'
<1>1. /\ TypeOK /\ PacketsInv /\ IdsInv /\ LoopsInv /\ TypeOK'
      /\ readers \in [Streams -> Readers] /\ stream \in Streams
      /\ data \subseteq Packets
  BY TypesKept, SessionTypes DEF IInv, TypeOK
<1>2. Monotone /\ total \in Nat /\ total' \in Nat /\ count \in Nat /\ count' \in Nat
  <2>1. total' \in Nat /\ count' \in Nat
    BY <1>1, ManagerAssumption DEF TypeOK, Remote!TypeOK
  <2>. QED BY <1>1, <2>1, AlwaysMonotone, ManagerTypes
<1>3. ASSUME NEW p \in Packets, PacketOk(p)
      PROVE  PacketOk(p)'
  <2>1. End(p) \in Nat
    BY <1>1, SessionTypes
  <2>. QED BY <1>2, <1>3, <2>1 DEF PacketOk, Monotone
<1>4. \A p \in data' : PacketOk(p)'
  <2>1. ASSUME NEW p, Sends(p), SenderSends
        PROVE  PacketOk(p)
    <3>1. CASE CanSendData /\ p = DataPacket
      <4>1. /\ p.kind = "data" /\ p.seq = HeadPos + sentNotAcked /\ p.len = PacketSize
            /\ PacketSize \in Nat /\ PacketSize > 0 /\ sentNotAcked + PacketSize <= count
        BY <1>1, <3>1, SentPackets
      <4>2. End(p) <= total
        BY <1>1, <4>1, ManagerTypes DEF End
      <4>. QED BY <4>1, <4>2 DEF PacketOk
    <3>2. CASE CanSendTerminal /\ p = TerminalPacket
      <4>1. /\ p.kind = terminalEvent /\ terminalEvent # "none" /\ p.seq = total /\ p.len = 0
            /\ terminalEvent # "data"
        BY <1>1, <3>2, SentPackets DEF TypeOK, Remote!TypeOK
      <4>. QED BY <1>2, <4>1 DEF PacketOk, End
    <3>. QED BY <2>1, <3>1, <3>2 DEF Sends, SendData, SendTerminal
  <2>2. ASSUME NEW p, Sends(p)
        PROVE  p \in Packets
    BY <1>1, <2>2, SentPackets DEF Sends, SendData, SendTerminal
  <2>3. \A p \in data : PacketOk(p) /\ p \in Packets
    BY <1>1 DEF PacketsInv
  <2> QED BY <1>3, <2>1, <2>2, <2>3, DataStep
<1>5. ASSUME NEW i \in Streams, NEW p \in readers'[i].ooo
      PROVE  PacketOk(p)'
  <2>1. p \in data \/ p \in readers[i].ooo
    BY ReaderMoves
  <2>2. PacketOk(p) /\ p \in Packets
    BY <1>1, <2>1, SessionTypes DEF PacketsInv
  <2>. QED BY <1>3, <2>2
<1>6. ASSUME NEW i \in Streams, readers'[i].eof
      PROVE  readers'[i].next = total' /\ terminalEvent' # "none"
  <2>1. CASE readers[i].eof /\ readers'[i].next = readers[i].next
    BY <1>1, <1>2, <2>1 DEF PacketsInv, Monotone
  <2>2. ASSUME NEW p \in data \cup readers[i].ooo, p.kind = "eof", readers'[i].next = total
        PROVE  readers'[i].next = total' /\ terminalEvent' # "none"
    <3>1. PacketOk(p)
      BY <1>1 DEF PacketsInv
    <3>. QED BY <1>2, <2>2, <3>1 DEF PacketOk, Monotone
  <2>. QED BY <1>6, <2>1, <2>2, ReaderMoves
<1> DEFINE Over == \/ \E p \in data \cup readers[streamId].ooo : p.id = streamId /\ p.kind # "data"
                   \/ readers[streamId].eof \/ readers[streamId].failed
           OverNext == \/ \E p \in data' \cup readers'[streamId'].ooo : p.id = streamId' /\ p.kind # "data"
                       \/ readers'[streamId'].eof \/ readers'[streamId'].failed
<1>7. ASSUME connected', OverNext
      PROVE  count' = 0 /\ terminalEvent' # "none"
  <2>0. streamId \in Streams /\ streamId' \in Streams /\ connected \in BOOLEAN
    BY <1>1, ManagerTypes DEF TypeOK, Remote!TypeOK
  <2>1. connected /\ Over => count = 0 /\ terminalEvent # "none"
    BY <1>1 DEF PacketsInv
  <2>2. ASSUME streamId' = streamId, data' \subseteq data, ~Over
        PROVE  FALSE
    <3> DEFINE r == readers[streamId]
               s == readers'[streamId]
    <3>1. /\ \A p \in s.ooo : p \in r.ooo \/ (p \in data /\ p.id = streamId)
          /\ s.failed => r.failed \/ \E p \in data : p.id = streamId /\ p.kind = "error"
          /\ s.eof => r.eof \/ \E p \in data \cup r.ooo : p.id = streamId /\ p.kind = "eof"
      BY <2>0, ReaderMoves
    <3>2. \/ \E p \in data \cup s.ooo : p.id = streamId /\ p.kind # "data"
          \/ s.eof \/ s.failed
      BY <1>7, <2>2
    <3>. QED BY <2>2, <3>1, <3>2
  <2>3. CASE SenderSends
    <3>1. /\ UNCHANGED <<total, count, terminalEvent>> /\ connected /\ streamId' = streamId
          /\ readers' = readers
      BY <1>7, <2>3, GoroutineEffect DEF Goroutine, SenderSends, localVars
    <3>2. CASE Over
      BY <2>1, <3>1, <3>2
    <3>3. CASE ~Over
      <4>1. PICK p : Sends(p) /\ data' = data \cup {p}
        BY <2>2, <3>1, <3>3, DataStep
      <4>2. p.kind # "data"
        BY <1>7, <3>1, <3>3, <4>1
      <4>3. CanSendTerminal
        BY <1>1, <4>1, <4>2, SentPackets DEF Sends, SendData, SendTerminal
      <4>. QED BY <3>1, <4>3 DEF CanSendTerminal
    <3>. QED BY <3>2, <3>3
  <2>4. CASE ~SenderSends
    <3>1. data' \subseteq data
      BY <2>4, DataStep
    <3>2. CASE UNCHANGED managerVars
      <4>1. UNCHANGED <<connected, streamId, count, terminalEvent>>
        BY <3>2 DEF managerVars, ringVars, sessionVars, terminalVars
      <4>. QED BY <1>7, <2>1, <2>2, <3>1, <4>1
    <3>3. CASE PtyWrites \/ PtySignals \/ PtyFinishes \/ SenderWaits
      <4>1. connected /\ streamId' = streamId /\ (terminalEvent # "none" => count' = count /\ terminalEvent' = terminalEvent)
        BY <1>7, <3>3, GoroutineEffect DEF Goroutine, Monotone
      <4>. QED BY <2>1, <2>2, <3>1, <4>1
    <3>4. ASSUME NEW ack \in acks, AckArrives(ack)
          PROVE  count' = 0 /\ terminalEvent' # "none"
      <4>1. connected /\ streamId' = streamId /\ (count' = count \/ count' <= count)
            /\ terminalEvent' = terminalEvent
        BY <1>7, <3>4, AckEffect
      <4>. QED BY <1>2, <2>1, <2>2, <3>1, <4>1
    <3>5. CASE PrepareDisconnects \/ PrepareConsumes
      BY <1>7, <3>5, DisconnectEffect, ConsumeEffect
    <3>6. CASE PrepareConnects
      <4>1. streamId' = prep.id /\ prep.at = "connect" /\ readers' = readers /\ data' = data
        BY <3>6, ConnectEffect DEF PrepareConnects
      <4>2. streamId < prep.id
        BY <1>1, <4>1 DEF IdsInv
      <4>3. Untouched(readers[prep.id])
        BY <1>1, <2>0, <4>1, <4>2 DEF LoopsInv
      <4>4. \A p \in data : p.id # prep.id
        <5>1. \A p \in data : p.id <= streamId /\ p.id \in Nat
          BY <1>1, SessionTypes DEF IdsInv, Streams
        <5>2. streamId \in Nat /\ prep.id \in Nat
          <6>1. streamId \in Nat
            BY <2>0 DEF Streams
          <6>. QED BY <1>1, <6>1, SessionTypes
        <5>3. \A n, m, k \in Nat : n <= m /\ m < k => n # k
          OBVIOUS
        <5>. QED BY ONLY <4>2, <5>1, <5>2, <5>3
      <4>. QED BY <1>7, <4>1, <4>3, <4>4 DEF Untouched
    <3>7. CASE StartsStream
      <4>1. UNCHANGED <<connected, streamId, count, terminalEvent>>
        BY <3>7, StartEffect
      <4>. QED BY <1>7, <2>1, <2>2, <3>1, <4>1
    <3>. QED BY <2>4, <3>2, <3>3, <3>4, <3>5, <3>6, <3>7, Frames
  <2>. QED BY <2>3, <2>4
<1>. QED BY <1>4, <1>5, <1>6, <1>7 DEF PacketsInv

\* What a step of the restart leaves in its fields.
LEMMA RestartEffect ==
  ASSUME TypeOK
  PROVE  /\ RestartFails \/ RestartEnds \/ RestartRunsLoop \/ ServerRestarts =>
              restart' = NoRestart /\ restart'.at = "idle"
         /\ RestartStats => /\ restart.at = "idle" /\ restart'.at = "open"
                            /\ restart'.seq = Len(file) + gap
         /\ RestartCalls => /\ restart.at = "open" /\ restart'.at = "prepare"
                            /\ restart'.seq = restart.seq
         /\ RestartGoesOn => /\ restart.at = "prepared" /\ restart.result = "ok"
                             /\ restart'.at = "start" /\ restart'.result = "ok"
                             /\ restart'.seq = restart.seq
                             /\ restart'.announced = restart.announced
<1>2. RestartFails \/ RestartEnds \/ RestartRunsLoop \/ ServerRestarts =>
        restart' = NoRestart /\ restart'.at = "idle"
  BY DEF RestartFails, RestartEnds, RestartRunsLoop, ServerRestarts, NoRestart
<1>3. RestartStats => /\ restart.at = "idle" /\ restart'.at = "open"
                      /\ restart'.seq = Len(file) + gap
  BY DEF RestartStats, NoRestart
<1>4. RestartCalls => /\ restart.at = "open" /\ restart'.at = "prepare"
                      /\ restart'.seq = restart.seq
  BY DEF RestartCalls, TypeOK
<1>5. RestartGoesOn => /\ restart.at = "prepared" /\ restart.result = "ok"
                       /\ restart'.at = "start" /\ restart'.result = "ok"
                       /\ restart'.seq = restart.seq
                       /\ restart'.announced = restart.announced
  BY DEF RestartGoesOn, TypeOK
<1>. QED BY <1>2, <1>3, <1>4, <1>5

\* An answer reaches the restart that waits for it, or nobody.
LEMMA ReplyEffect ==
  ASSUME TypeOK, NEW at, NEW id, NEW result, NEW announced, Replies(at, id, result, announced)
  PROVE  \/ /\ restart' = restart
            /\ ~(restart.at = at /\ stream = id /\ ~prep.lost)
         \/ /\ restart.at = at /\ stream = id /\ ~prep.lost
            /\ restart'.at = IF at = "prepare" THEN "prepared" ELSE "started"
            /\ restart'.seq = restart.seq
            /\ restart'.result = result /\ restart'.announced = announced
  BY DEF Replies, TypeOK

LEMMA TerminalKept ==
  ASSUME IInv, [Next]_vars
  PROVE  TerminalInv'
<1>1. TypeOK /\ TerminalInv /\ PacketsInv /\ TypeOK' /\ PacketsInv' /\ Monotone
  BY TypesKept, PacketsKept, AlwaysMonotone DEF IInv
<1>2. \A i \in Streams : readers'[i].failed => terminalEvent' # "none"
  <2> TAKE i \in Streams
  <2>1. \A p \in data : p.kind = "error" => terminalEvent # "none"
    BY <1>1 DEF PacketsInv, PacketOk
  <2>2. readers'[i].failed => readers[i].failed \/ \E p \in data : p.kind = "error"
    BY ReaderMoves
  <2>. QED BY <1>1, <2>1, <2>2 DEF TerminalInv, Monotone
<1>3. \A i \in Streams : readers'[i].eof => terminalEvent' # "none"
  BY <1>1 DEF PacketsInv
<1>4. \A ack \in acks' : ack.fin => terminalEvent' # "none"
  <2>1. \A ack : Answer(ack) /\ ack.fin => terminalEvent' # "none"
    BY <1>2, <1>3 DEF Answer, AckType
  <2>. QED BY <1>1, <2>1, AcksStep DEF TerminalInv, Monotone
<1>5. terminalAcked' => terminalEvent' # "none"
  <2>1. terminalAcked' => terminalAcked \/ \E ack \in acks : ack.fin
    <3>1. UNCHANGED managerVars => terminalAcked' = terminalAcked
      BY DEF managerVars, terminalVars
    <3>2. terminalAcked' \in BOOLEAN /\ terminalAcked \in BOOLEAN
      BY <1>1 DEF TypeOK, Remote!TypeOK
    <3>. QED BY <3>1, <3>2, Frames, GoroutineEffect, AckEffect, DisconnectEffect, ConsumeEffect,
                ConnectEffect, StartEffect DEF Goroutine
  <2>. QED BY <1>1, <2>1 DEF TerminalInv, Monotone
<1>6. ASSUME restart'.at = "prepared"
      PROVE  restart'.result # "none"
  <2>2. CASE PrepareFindsDone
    <3>1. Replies("prepare", stream, terminalEvent, request.seq) /\ terminalAcked
      BY <2>2 DEF PrepareFindsDone
    <3>2. terminalEvent # "none"
      BY <1>1, <3>1 DEF TerminalInv
    <3>. QED BY <1>1, <1>6, <3>1, <3>2 DEF Replies, TerminalInv, TypeOK
  <2>3. CASE PrepareConsumes
    <3>1. restart' = restart \/ Replies("prepare", prep.id, "refused", 0)
      BY <2>3 DEF PrepareConsumes
    <3>. QED BY <1>1, <1>6, <3>1 DEF Replies, TerminalInv, TypeOK
  <2>4. CASE PrepareConnects
    <3>1. Replies("prepare", prep.id, "ok", IF prep.seq > prep.head THEN prep.seq ELSE prep.head)
      BY <2>4 DEF PrepareConnects
    <3>. QED BY <1>1, <1>6, <3>1 DEF Replies, TerminalInv, TypeOK
  <2>5. CASE StartsStream
    <3>1. Replies("start", pending, "ok", 0)
      BY <2>5 DEF StartsStream
    <3>. QED BY <1>1, <1>6, <3>1 DEF Replies, TerminalInv, TypeOK
  <2>6. CASE RestartStats \/ RestartCalls \/ RestartFails \/ RestartEnds \/ RestartGoesOn
             \/ RestartRunsLoop \/ ServerRestarts
    BY <1>1, <1>6, <2>6, RestartEffect
  <2>7. CASE restart' = restart
    BY <1>1, <1>6, <2>7 DEF TerminalInv
  <2>. QED BY <2>2, <2>3, <2>4, <2>5, <2>6, <2>7, Frames
<1>. QED BY <1>2, <1>4, <1>5, <1>6 DEF TerminalInv

-----------------------------------------------------------------------------
(* Streams, calls and the handler of a call.                                *)

LEMMA RequestEffect ==
  /\ NoRequest.kind = "none"
  /\ LinkDrops \/ ServerRestarts \/ PrepareFindsDone \/ PrepareDisconnects \/ StartsStream =>
       request'.kind = "none"
  /\ RestartCalls => \/ request'.kind = "none"
                     \/ link = "routed" /\ request'.kind = "prepare" /\ request'.seq = restart.seq
  /\ RestartGoesOn => \/ request'.kind = "none"
                      \/ link = "routed" /\ request'.kind = "start"
<1>1. LinkDrops \/ ServerRestarts \/ PrepareFindsDone \/ PrepareDisconnects \/ StartsStream =>
       request' = NoRequest
  BY DEF LinkDrops, ServerRestarts, PrepareFindsDone, PrepareDisconnects, StartsStream
<1>2. RestartCalls => \/ request' = NoRequest
                      \/ link = "routed" /\ request' = [kind |-> "prepare", seq |-> restart.seq]
  BY DEF RestartCalls
<1>3. RestartGoesOn => \/ request' = NoRequest
                       \/ link = "routed" /\ request' = [kind |-> "start", seq |-> 0]
  BY DEF RestartGoesOn
<1>. QED BY <1>1, <1>2, <1>3 DEF NoRequest

LEMMA PrepEffect ==
  ASSUME TypeOK
  PROVE  /\ NoPrep.at = "idle" /\ ~NoPrep.lost
         /\ PrepareDisconnects => /\ prep.at = "idle" /\ request.kind = "prepare"
                                  /\ prep'.at = "head" /\ prep'.id = stream
                                  /\ prep'.seq = request.seq /\ prep'.lost = FALSE
         /\ PrepareReadsHead => /\ prep.at = "head" /\ prep'.at = "consume"
                                /\ prep'.id = prep.id /\ prep'.seq = prep.seq
                                /\ prep'.lost = prep.lost /\ prep'.head = HeadPos
         /\ LinkDrops \/ ServerRestarts =>
              /\ prep'.at = prep.at /\ prep'.id = prep.id /\ prep'.seq = prep.seq
              /\ prep'.head = prep.head /\ prep'.lost = (prep.at # "idle")
<1>1. prep \in [at : {"idle", "head", "consume", "connect"}, id : 0..MaxStreams,
                seq : Nat, head : Positions0, lost : BOOLEAN]
  BY DEF TypeOK
<1>2. PrepareDisconnects => /\ prep.at = "idle" /\ request.kind = "prepare"
                            /\ prep'.at = "head" /\ prep'.id = stream
                            /\ prep'.seq = request.seq /\ prep'.lost = FALSE
  BY DEF PrepareDisconnects, NoPrep
<1>3. PrepareReadsHead => /\ prep.at = "head" /\ prep'.at = "consume"
                          /\ prep'.id = prep.id /\ prep'.seq = prep.seq
                          /\ prep'.lost = prep.lost /\ prep'.head = HeadPos
  BY <1>1 DEF PrepareReadsHead
<1>4. LinkDrops \/ ServerRestarts => prep' = [prep EXCEPT !.lost = (prep.at # "idle")]
  BY DEF LinkDrops, ServerRestarts
<1>5. /\ [prep EXCEPT !.lost = (prep.at # "idle")].at = prep.at
      /\ [prep EXCEPT !.lost = (prep.at # "idle")].id = prep.id
      /\ [prep EXCEPT !.lost = (prep.at # "idle")].seq = prep.seq
      /\ [prep EXCEPT !.lost = (prep.at # "idle")].head = prep.head
      /\ [prep EXCEPT !.lost = (prep.at # "idle")].lost = (prep.at # "idle")
  BY <1>1
<1>7. LinkDrops \/ ServerRestarts =>
              /\ prep'.at = prep.at /\ prep'.id = prep.id /\ prep'.seq = prep.seq
              /\ prep'.head = prep.head /\ prep'.lost = (prep.at # "idle")
  BY <1>4, <1>5, Zenon
<1>6. NoPrep.at = "idle" /\ ~NoPrep.lost
  BY DEF NoPrep
<1>. QED BY <1>2, <1>3, <1>6, <1>7

\* The remote end's stream changes when a client connects.
LEMMA StreamIdStep ==
  ASSUME IInv, [Next]_vars
  PROVE  /\ PrepareConnects \/ streamId' = streamId
         /\ PrepareConnects \/ (connected' => connected)
         /\ PrepareDisconnects \/ (connected => connected')
<1>0. connected \in BOOLEAN
  BY ManagerTypes DEF IInv
<1>1. UNCHANGED managerVars => streamId' = streamId /\ connected' = connected
  BY DEF managerVars, sessionVars
<1>2. PrepareConnects => ~connected
  BY ConnectEffect
<1>3. Goroutine \/ (\E ack \in acks : AckArrives(ack)) \/ PrepareConsumes \/ StartsStream =>
        streamId' = streamId /\ connected' = connected
  BY GoroutineEffect, AckEffect, ConsumeEffect, StartEffect
<1>4. PrepareDisconnects => streamId' = streamId /\ connected' = FALSE
  BY DisconnectEffect
<1>5. UNCHANGED managerVars \/ Goroutine \/ (\E ack \in acks : AckArrives(ack)) \/ PrepareConsumes
      \/ StartsStream \/ PrepareDisconnects \/ PrepareConnects
  BY Frames DEF Goroutine
<1>. QED BY <1>0, <1>1, <1>2, <1>3, <1>4, <1>5

LEMMA IdsKept ==
  ASSUME IInv, [Next]_vars
  PROVE  IdsInv'
<1>1. TypeOK /\ IdsInv /\ TypeOK'
  BY TypesKept DEF IInv
<1>2. /\ streamId \in Nat /\ stream \in Nat /\ writer \in Nat /\ pending \in Nat /\ prep.id \in Nat
      /\ streamId' \in Nat /\ stream' \in Nat /\ 1 <= streamId /\ streamId <= stream
      /\ writer <= streamId /\ pending <= streamId
  BY <1>1, StreamsAssumption DEF TypeOK, Remote!TypeOK, Streams, IdsInv
<1>3. (RestartCalls /\ stream' = stream + 1) \/ stream' = stream
  BY Frames DEF RestartCalls
<1>4. /\ \/ streamId' = streamId
         \/ /\ PrepareConnects /\ streamId' = prep.id /\ streamId < prep.id /\ prep.id <= stream
            /\ stream' = stream /\ prep.at = "connect" /\ prep' = NoPrep
      /\ streamId <= streamId' /\ streamId' <= stream /\ stream <= stream'
  <2>1. PrepareConnects => /\ streamId' = prep.id /\ prep.at = "connect" /\ stream' = stream
                           /\ prep' = NoPrep
    BY ConnectEffect DEF PrepareConnects
  <2>2. PrepareConnects => streamId < prep.id /\ prep.id <= stream
    BY <1>1, <2>1 DEF IdsInv
  <2>. QED BY <1>2, <1>3, <2>1, <2>2, StreamIdStep
<1>5. writer' <= streamId' /\ pending' <= streamId'
  <2>1. writer' \in {0, writer, pending} /\ pending' \in {0, pending, streamId'}
    <3>1. PrepareConnects => pending' = prep.id /\ streamId' = prep.id
      BY ConnectEffect DEF PrepareConnects
    <3>2. StartsStream => writer' = pending /\ pending' = 0
      BY DEF StartsStream
    <3>3. (\E ack \in acks : AckArrives(ack)) => writer' \in {0, writer}
      BY DEF AckArrives
    <3>4. LinkDrops \/ ServerRestarts => writer' = 0
      BY DEF LinkDrops, ServerRestarts
    <3>. QED BY <3>1, <3>2, <3>3, <3>4, Frames
  <2>. QED BY <1>2, <1>4, <2>1
<1>6. \A p \in data' : p.id <= streamId'
  <2>1. \A p : Sends(p) => p.id = streamId
    BY <1>1, SentPackets DEF Sends, SendData, SendTerminal
  <2>2. \A p \in data : p.id <= streamId /\ p.id \in Nat
    BY <1>1, SessionTypes, SMTT(30) DEF IdsInv, Streams
  <2>. QED BY <1>2, <1>4, <2>1, <2>2, DataStep
<1>7. \A ack \in acks' : ack.id <= stream'
  <2>1. \A ack \in acks : ack.id <= stream /\ ack.id \in Nat
    BY <1>1, SessionTypes DEF IdsInv, Streams
  <2>2. \A ack : Answer(ack) => ack.id <= stream /\ ack.id \in Nat
    BY DEF Answer, AckType, Streams
  <2>. QED BY <1>2, <1>4, <2>1, <2>2, AcksStep
<1>8. \A i \in Streams : \A p \in readers'[i].ooo : p.id = i
  BY <1>1, ReaderMoves DEF IdsInv
<1>10. ASSUME prep'.at # "idle"
       PROVE  ~connected' /\ streamId' < prep'.id /\ prep'.id <= stream'
  <2>1. ~PrepareConnects
    BY <1>1, <1>10, ConnectEffect, PrepEffect
  <2>2. streamId' = streamId /\ (connected' => connected)
    BY <2>1, StreamIdStep
  <2>3. CASE PrepareDisconnects
    <3>1. streamId < stream
      BY <1>1, <2>3, PrepEffect DEF IdsInv
    <3>2. prep'.id = stream /\ ~connected'
      BY <1>1, <2>3, PrepEffect, DisconnectEffect
    <3>. QED BY <1>2, <1>4, <2>2, <3>1, <3>2
  <2>4. CASE ~PrepareDisconnects
    <3>1. prep.at # "idle" /\ prep'.id = prep.id
      BY <1>1, <1>10, <2>1, <2>4, Frames, PrepEffect, ConsumeEffect
    <3>2. ~connected /\ streamId < prep.id /\ prep.id <= stream
      BY <1>1, <3>1 DEF IdsInv
    <3>. QED BY <1>2, <1>4, <2>2, <3>1, <3>2
  <2>. QED BY <2>3, <2>4
<1>11. ASSUME request'.kind = "prepare"
       PROVE  streamId' < stream' /\ (prep'.at # "idle" => prep'.id < stream')
  <2>1. CASE RestartCalls
    <3>1. stream' = stream + 1 /\ prep' = prep /\ streamId' = streamId
      BY <2>1 DEF RestartCalls, remoteVars, managerVars, sessionVars
    <3>2. prep.at # "idle" => prep.id <= stream
      BY <1>1 DEF IdsInv
    <3>. QED BY <1>2, <3>1, <3>2
  <2>2. CASE ~RestartCalls
    <3>1. request' = request /\ stream' = stream
      BY <1>11, <2>2, Frames, RequestEffect
    <3>2. streamId < stream /\ (prep.at # "idle" => prep.id < stream)
      BY <1>1, <1>11, <3>1 DEF IdsInv
    <3>3. streamId' < stream'
      BY <1>2, <1>4, <3>1, <3>2
    <3>4. prep'.at # "idle" => prep.at # "idle" /\ prep'.id = prep.id
      <4>1. ~PrepareDisconnects
        BY <1>11, RequestEffect
      <4>. QED BY <1>1, <4>1, Frames, PrepEffect, ConsumeEffect, ConnectEffect
    <3>. QED BY <3>1, <3>2, <3>3, <3>4
  <2>. QED BY <2>1, <2>2
<1>12. 1 <= streamId' /\ streamId' <= stream'
  BY <1>2, <1>4
<1>. QED BY <1>5, <1>6, <1>7, <1>8, <1>10, <1>11, <1>12 DEF IdsInv

\* The steps that move the link, the calls and their handler.
Control ==
  \/ LinkDrops \/ LinkComesUp \/ ServerRestarts
  \/ RestartStats \/ RestartCalls \/ RestartFails \/ RestartEnds \/ RestartGoesOn
  \/ RestartRunsLoop
  \/ PrepareFindsDone \/ PrepareDisconnects \/ PrepareReadsHead \/ PrepareConsumes
  \/ PrepareConnects \/ StartsStream

LEMMA OutsideControl ==
  ASSUME IInv, [Next]_vars, ~Control
  PROVE  /\ UNCHANGED <<link, live, request, prep, pending, stream, restart, gap>>
         /\ UNCHANGED <<connected, streamId>> /\ (rwndSize' = rwndSize \/ connected)
         /\ writer' \in {0, writer}
<1>1. UNCHANGED <<link, live, request, prep, pending, stream, restart, gap>>
  BY Frames DEF Control
<1>2. \/ UNCHANGED managerVars \/ Goroutine \/ \E ack \in acks : AckArrives(ack)
  BY Frames DEF Control, Goroutine
<1>3. UNCHANGED managerVars => UNCHANGED <<connected, streamId, rwndSize>>
  BY DEF managerVars, sessionVars
<1>4. \A ack \in acks : AckArrives(ack) => UNCHANGED <<connected, streamId>> /\ (rwndSize' = rwndSize \/ connected)
  BY AckEffect DEF managerVars, sessionVars
<1>5. (\E ack \in acks : AckArrives(ack)) => writer' \in {0, writer}
  BY DEF AckArrives
<1>6. writer' \in {0, writer}
  BY <1>5, Frames DEF Control
<1>. QED BY <1>1, <1>2, <1>3, <1>4, <1>6, GoroutineEffect

\* A reader that is closed, or ended or failed by its stream, stays so.
LEMMA EndedStays ==
  ASSUME IInv, [Next]_vars, NEW i \in Streams, i <= stream
  PROVE  /\ readers[i].closed => readers'[i].closed
         /\ Finished(readers[i]) => Finished(readers'[i])
         /\ readers[i].eof => readers'[i].eof \/ readers'[i].closed
<1> DEFINE r == readers[i]
           s == readers'[i]
           Goal == /\ r.closed => s.closed
                   /\ Finished(r) => Finished(s)
                   /\ r.eof => s.eof \/ s.closed
<1>1. TypeOK /\ readers \in [Streams -> Readers] /\ stream \in Streams
  BY DEF IInv, TypeOK
<1>2. s = r => Goal
  OBVIOUS
<1>3. ASSUME NEW p \in data, DataArrives(p)
      PROVE  Goal
  <2> DEFINE x == RecvData(readers[p.id], p)
  <2>1. readers' = [readers EXCEPT ![p.id] = x] /\ p.id \in Streams
        /\ Outcome(readers[p.id], p, x, Others(p))
    BY <1>3, Arrival
  <2> HIDE DEF x
  <2>2. CASE p.id # i
    BY <1>1, <1>2, <2>1, <2>2
  <2>3. CASE p.id = i
    <3>1. s = x /\ Outcome(r, p, s, Others(p))
      BY <1>1, <2>1, <2>3
    <3> HIDE DEF s, r
    <3>. QED BY <3>1 DEF Outcome, Ignored, FailedBy, SetAside, Finished
  <2>. QED BY <2>2, <2>3
<1>4. ASSUME NEW j \in Streams, Reads(j) \/ Closes(j)
      PROVE  Goal
  <2>1. Reads(j) => s.closed = r.closed /\ s.eof = r.eof /\ s.failed = r.failed
    BY <1>1, ReadIs DEF Reads
  <2>2. Closes(j) => s = r \/ s.closed
    BY <1>1, CloseIs DEF Closes
  <2>. QED BY <1>2, <1>4, <2>1, <2>2 DEF Finished
<1>5. ASSUME ServerRestarts
      PROVE  Goal
  <2>1. readers' = [j \in Streams |-> IF j <= stream THEN [NewReader(0) EXCEPT !.closed = TRUE]
                                                    ELSE readers[j]]
    BY <1>5 DEF ServerRestarts
  <2>2. s.closed
    BY <2>1, NewReaderIs DEF Readers
  <2>. QED BY <2>2 DEF Finished
<1>6. ASSUME RestartCalls
      PROVE  Goal
  <2>1. readers' = [readers EXCEPT ![stream + 1] = NewReader(restart.seq)]
    BY <1>6 DEF RestartCalls
  <2>2. i # stream + 1
    BY <1>1, StreamsAssumption DEF Streams
  <2>. QED BY <1>1, <1>2, <2>1, <2>2
<1>7. ASSUME RestartGoesOn
      PROVE  Goal
  <2> DEFINE x == UpdateNextSeq(readers[stream], restart.announced)
  <2>1. readers' = readers \/ readers' = [readers EXCEPT ![stream] = x]
    BY <1>7 DEF RestartGoesOn
  <2>2. /\ x.closed = readers[stream].closed /\ x.eof = readers[stream].eof
        /\ x.failed = readers[stream].failed
    BY <1>1 DEF UpdateNextSeq, Readers
  <2> HIDE DEF x
  <2>. QED BY <1>1, <2>1, <2>2 DEF Finished
<1>8. readers' = readers => Goal
  OBVIOUS
<1>9. Goal
  <2> HIDE DEF Goal
  <2>. QED BY <1>1, <1>3, <1>4, <1>5, <1>6, <1>7, <1>8, ReadersStep
<1>. QED BY <1>9

LEMMA RestartKept ==
  ASSUME IInv, [Next]_vars
  PROVE  RestartInv'
<1>1. /\ TypeOK /\ IdsInv /\ RestartInv /\ CorkedInv /\ IdsInv'
      /\ stream \in Streams /\ streamId \in Nat /\ stream \in Nat /\ MaxStreams \in Nat
      /\ prep.id \in Nat /\ prep.lost \in BOOLEAN
  <2>1. TypeOK /\ IdsInv /\ RestartInv /\ CorkedInv /\ IdsInv'
    BY IdsKept DEF IInv
  <2>2. stream \in Streams /\ streamId \in Streams /\ prep.id \in Nat
    BY <2>1, ManagerTypes, SessionTypes
  <2>3. prep.lost \in BOOLEAN
    BY <2>1 DEF TypeOK
  <2>. QED BY <2>1, <2>2, <2>3, StreamsAssumption DEF Streams
<1>2. readers[stream].closed => readers'[stream].closed
  BY <1>1, EndedStays
<1>3. PrepareConnects \/ streamId' = streamId
  BY StreamIdStep
<1>4. CASE ~Control
  BY <1>1, <1>2, <1>4, OutsideControl DEF RestartInv
<1>5. CASE LinkDrops
  <2>1. UNCHANGED <<stream, restart>> /\ request'.kind = "none"
    BY <1>5, RequestEffect DEF LinkDrops, localVars
  <2>. QED BY <1>1, <1>5, <2>1, PrepEffect DEF RestartInv
<1>6. CASE LinkComesUp
  <2>1. UNCHANGED <<stream, restart, request, prep, streamId, readers>> /\ link = "down"
    BY <1>6 DEF LinkComesUp, localVars, remoteVars, managerVars, sessionVars
  <2>. QED BY <1>1, <2>1 DEF RestartInv
<1>7. CASE ServerRestarts
  <2>1. restart'.at = "idle" /\ request'.kind = "none"
    BY <1>1, <1>7, RequestEffect, RestartEffect
  <2>. QED BY <1>1, <1>7, <2>1, PrepEffect DEF RestartInv
<1>8. CASE RestartStats
  <2>1. UNCHANGED <<stream, request, prep>> /\ restart'.at = "open" /\ link = "up" /\ stream < MaxStreams
        /\ restart.at = "idle" /\ link' = "routed"
    BY <1>1, <1>8, RestartEffect DEF RestartStats, remoteVars
  <2>. QED BY <1>1, <2>1 DEF RestartInv
<1>9. CASE RestartCalls
  <2>1. UNCHANGED <<link, prep>> /\ stream' = stream + 1
    BY <1>9 DEF RestartCalls, linkVars, remoteVars
  <2>2. restart.at = "open" /\ restart'.at = "prepare" /\ restart'.seq = restart.seq
    BY <1>1, <1>9, RestartEffect
  <2>3. \/ request'.kind = "none"
        \/ link = "routed" /\ request'.kind = "prepare" /\ request'.seq = restart.seq
    BY <1>9, RequestEffect
  <2>. QED BY <1>1, <2>1, <2>2, <2>3 DEF RestartInv
<1>10. CASE RestartFails \/ RestartEnds \/ RestartRunsLoop
  <2>1. UNCHANGED <<link, prep, request, stream>> /\ restart'.at = "idle" /\ streamId' = streamId
    BY <1>1, <1>3, <1>10, RestartEffect, ConnectEffect
       DEF RestartFails, RestartEnds, RestartRunsLoop, linkVars, remoteVars, managerVars, sessionVars
  <2>2. request.kind = "start" => readers'[stream].closed
    <3>1. CASE RestartRunsLoop
      BY <1>1, <3>1 DEF RestartRunsLoop, RestartInv
    <3>2. CASE RestartFails \/ RestartEnds
      <4>1. readers' = [readers EXCEPT ![stream] = Close(readers[stream])]
        BY <3>2 DEF RestartFails, RestartEnds, CloseReader
      <4>2. readers'[stream].closed
        BY <1>1, <4>1, CloseIs, SessionTypes DEF TypeOK
      <4>. QED BY <4>2
    <3>. QED BY <1>10, <3>1, <3>2
  <2>. QED BY <1>1, <2>1, <2>2 DEF RestartInv
<1>11. CASE RestartGoesOn
  <2>1. UNCHANGED <<link, prep, stream, streamId>>
    BY <1>11 DEF RestartGoesOn, linkVars, remoteVars, managerVars, sessionVars
  <2>2. restart.at = "prepared" /\ restart.result = "ok" /\ restart'.at = "start"
    BY <1>1, <1>11, RestartEffect
  <2>3. request'.kind = "none" \/ (link = "routed" /\ request'.kind = "start")
    BY <1>11, RequestEffect
  <2>4. streamId = stream /\ prep.at = "idle"
    BY <1>1, <2>2 DEF CorkedInv, Connecting, RestartInv
  <2>. QED BY <1>1, <2>1, <2>2, <2>3, <2>4 DEF RestartInv
<1>12. CASE PrepareFindsDone
  <2>1. UNCHANGED <<link, prep, stream>> /\ request'.kind = "none" /\ prep.at = "idle"
    BY <1>12, RequestEffect DEF PrepareFindsDone, linkVars, remoteVars
  <2>2. restart' = restart \/ restart'.at = "prepared"
    BY <1>1, <1>12, ReplyEffect DEF PrepareFindsDone
  <2>. QED BY <1>1, <2>1, <2>2 DEF RestartInv
<1>13. CASE PrepareDisconnects
  <2>1. UNCHANGED <<link, restart, stream>> /\ request'.kind = "none"
    BY <1>13, RequestEffect DEF PrepareDisconnects, linkVars, localVars
  <2>. QED BY <1>1, <1>13, <2>1, PrepEffect DEF RestartInv
<1>14. CASE PrepareReadsHead
  <2>1. UNCHANGED <<link, restart, stream, streamId, request, readers>>
    BY <1>14 DEF PrepareReadsHead, linkVars, localVars, managerVars, sessionVars
  <2>. QED BY <1>1, <1>14, <2>1, PrepEffect DEF RestartInv
<1>15. CASE PrepareConsumes
  <2>1. UNCHANGED <<link, stream, streamId, request, readers>> /\ prep.at = "consume"
    BY <1>15, ConsumeEffect DEF PrepareConsumes, linkVars
  <2>2. CASE prep' = NoPrep /\ Replies("prepare", prep.id, "refused", 0)
    <3>1. prep'.at = "idle" /\ ~prep'.lost
      BY <1>1, <2>2, PrepEffect
    <3>2. restart' = restart \/ (restart.at = "prepare" /\ stream = prep.id /\ restart'.at = "prepared")
      BY <1>1, <2>2, ReplyEffect
    <3>3. request.kind = "prepare" => prep.id < stream
      BY <1>1, <2>1 DEF IdsInv
    <3>. QED BY <1>1, <2>1, <3>1, <3>2, <3>3 DEF RestartInv
  <2>3. CASE restart' = restart /\ prep'.at = "connect" /\ prep'.id = prep.id /\ prep'.seq = prep.seq
             /\ prep'.lost = prep.lost
    BY <1>1, <2>1, <2>3 DEF RestartInv
  <2>. QED BY <1>15, <2>2, <2>3, ConsumeEffect
<1>16. CASE PrepareConnects
  <2>1. UNCHANGED <<link, stream, request, readers>> /\ prep.at = "connect"
    BY <1>16 DEF PrepareConnects
  <2>2. prep'.at = "idle" /\ ~prep'.lost
    BY <1>1, <1>16, ConnectEffect, PrepEffect
  <2>3. Replies("prepare", prep.id, "ok", IF prep.seq > prep.head THEN prep.seq ELSE prep.head)
    BY <1>16 DEF PrepareConnects
  <2>4. restart' = restart \/ (restart.at = "prepare" /\ stream = prep.id /\ restart'.at = "prepared")
    BY <1>1, <2>3, ReplyEffect
  <2>5. (request.kind = "prepare" => prep.id < stream) /\ streamId < prep.id /\ prep.id <= stream
    BY <1>1, <2>1 DEF IdsInv
  <2>. QED BY <1>1, <2>1, <2>2, <2>4, <2>5 DEF RestartInv
<1>17. CASE StartsStream
  <2>1. UNCHANGED <<link, stream, prep>> /\ prep.at = "idle" /\ request'.kind = "none"
    BY <1>17, RequestEffect DEF StartsStream
  <2>2. restart' = restart \/ (restart.at = "start" /\ restart'.at = "started")
    BY <1>1, <1>17, ReplyEffect DEF StartsStream
  <2>. QED BY <1>1, <2>1, <2>2 DEF RestartInv
<1>. QED BY <1>4, <1>5, <1>6, <1>7, <1>8, <1>9, <1>10, <1>11, <1>12, <1>13, <1>14, <1>15, <1>16, <1>17
         DEF Control


-----------------------------------------------------------------------------
(* The stream that is prepared.                                             *)

\* Until a stream is started its reader stays where it is.
LEMMA CorkedReader ==
  ASSUME IInv, [Next]_vars, restart.at \in {"prepare", "prepared", "start"},
         ~ServerRestarts, ~RestartGoesOn
  PROVE  readers'[stream].next = readers[stream].next /\ readers'[stream].buf = <<>>
<1> DEFINE r == readers[stream]
           s == readers'[stream]
           Goal == s.next = r.next /\ s.buf = <<>>
<1>1. /\ TypeOK /\ CorkedInv /\ LoopsInv /\ PacketsInv /\ IdsInv
      /\ readers \in [Streams -> Readers] /\ stream \in Streams
      /\ r \in Readers /\ r.buf = <<>>
      /\ \A p \in data \cup r.ooo : p.id = stream => p.kind # "data"
      /\ loops[stream] = NoLoop
      /\ \A p \in r.ooo : p.id = stream
  <2>1. TypeOK /\ CorkedInv /\ LoopsInv /\ PacketsInv /\ IdsInv
    BY DEF IInv
  <2>2. readers \in [Streams -> Readers] /\ stream \in Streams
    BY <2>1 DEF TypeOK
  <2>3. loops[stream] = NoLoop
    BY <2>1 DEF LoopsInv, Unrun
  <2>. QED BY <2>1, <2>2, <2>3 DEF CorkedInv, IdsInv
<1>2. (s.next = r.next /\ s.buf = r.buf) => Goal
  BY <1>1
<1>3. ASSUME NEW p \in data, DataArrives(p)
      PROVE  Goal
  <2> DEFINE x == RecvData(readers[p.id], p)
  <2>1. readers' = [readers EXCEPT ![p.id] = x] /\ p.id \in Streams
        /\ Outcome(readers[p.id], p, x, Others(p))
    BY <1>3, Arrival
  <2> HIDE DEF x
  <2>2. CASE p.id # stream
    BY <1>1, <1>2, <2>1, <2>2
  <2>3. CASE p.id = stream
    <3>1. s = x /\ Outcome(r, p, s, Others(p)) /\ p.kind # "data"
      BY <1>1, <2>1, <2>3
    <3> HIDE DEF s, Goal
    <3>2. CASE Ignored(r, p, s) \/ FailedBy(r, p, s) \/ SetAside(r, p, s)
      BY <1>2, <3>2 DEF Ignored, FailedBy, SetAside
    <3>3. CASE p.seq = r.next /\ Taken1(r, p, s, Others(p))
      <4>1. /\ s \in Readers /\ Len(s.buf) = Len(r.buf) + (s.next - r.next)
            /\ s.next = End(p) \/ \E q \in r.ooo : q.kind = "data" /\ s.next = End(q)
        BY <3>3 DEF Taken1
      <4>2. s.next = End(p)
        BY <1>1, <4>1
      <4>3. PacketOk(p) /\ p.len \in Nat /\ p.seq \in Nat /\ p.len = 0
        <5>1. PacketOk(p) /\ p.len \in Nat /\ p.seq \in Nat
          BY <1>1, SessionTypes DEF PacketsInv
        <5>. QED BY <3>1, <5>1 DEF PacketOk
      <4>4. s.next = r.next
        BY <3>3, <4>2, <4>3 DEF End
      <4>5. Len(s.buf) = 0 /\ s.buf \in Seq(Positions0)
        <5>1. Len(r.buf) = 0 /\ r.next \in Nat
          BY <1>1 DEF Readers
        <5>. QED BY <4>1, <4>4, <5>1 DEF Readers
      <4>6. s.buf = <<>>
        BY <4>5, EmptySeq
      <4>. QED BY <4>4, <4>6 DEF Goal
    <3>. QED BY <3>1, <3>2, <3>3 DEF Outcome
  <2>. QED BY <2>2, <2>3
<1>4. ASSUME NEW j \in Streams, LoopReads(j), Reads(j)
      PROVE  Goal
  <2>1. j # stream
    BY <1>1, <1>4 DEF LoopReads, NoLoop
  <2>. QED BY <1>1, <1>2, <1>4, <2>1 DEF Reads
<1>5. ASSUME NEW j \in Streams, Closes(j)
      PROVE  Goal
  BY <1>1, <1>2, <1>5, CloseIs DEF Closes
<1>6. ~RestartCalls
  BY <1>1, RestartEffect
<1>7. readers' = readers => Goal
  BY <1>1
<1>8. Goal
  <2> HIDE DEF Goal
  <2>. QED BY <1>1, <1>3, <1>4, <1>5, <1>6, <1>7, ReadersStep
<1>. QED BY <1>8

\* A corked stream sends no bytes.
LEMMA CorkedSender ==
  ASSUME IInv, [Next]_vars, restart.at \in {"prepare", "prepared", "start"},
         ~ServerRestarts, ~RestartGoesOn
  PROVE  \A p \in data' \cup readers'[stream].ooo : p.id = stream => p.kind # "data"
<1>1. TypeOK /\ CorkedInv /\ stream \in Streams
  BY SessionTypes DEF IInv
<1>2. /\ \A p \in data \cup readers[stream].ooo : p.id = stream => p.kind # "data"
      /\ streamId = stream => rwndSize = 0 /\ sentNotAcked = 0
  BY <1>1 DEF CorkedInv
<1>3. streamId = stream => ~CanSendData
  BY <1>1, <1>2, ManagerAssumption DEF CanSendData, Room, EffectiveWindow, Smaller
<1>4. \A p : Sends(p) /\ p.id = stream => p.kind # "data"
  <2> SUFFICES ASSUME NEW p, Sends(p), p.id = stream PROVE p.kind # "data"
    OBVIOUS
  <2>1. CASE SendData /\ p = DataPacket
    BY <1>1, <1>3, <2>1, SentPackets DEF SendData
  <2>2. CASE SendTerminal /\ p = TerminalPacket
    <3>1. p.kind = terminalEvent
      BY <1>1, <2>2, SentPackets DEF SendTerminal
    <3>. QED BY <1>1, <3>1 DEF TypeOK, Remote!TypeOK
  <2>. QED BY <2>1, <2>2 DEF Sends
<1>5. \A p \in data' : p.id = stream => p.kind # "data"
  BY <1>2, <1>4, DataStep
<1>6. \A p \in readers'[stream].ooo : p.id = stream => p.kind # "data"
  BY <1>1, <1>2, ReaderMoves
<1>. QED BY <1>5, <1>6

LEMMA CorkedKept ==
  ASSUME IInv, [Next]_vars
  PROVE  CorkedInv'
<1>1. /\ TypeOK /\ IdsInv /\ RestartInv /\ CorkedInv /\ HeadInv
      /\ stream \in Streams /\ streamId \in Nat /\ stream \in Nat /\ writer \in Nat
      /\ readers \in [Streams -> Readers] /\ stream > 0
      /\ prep.id \in Nat
  <2>1. TypeOK /\ IdsInv /\ RestartInv /\ CorkedInv /\ HeadInv
    BY DEF IInv
  <2>2. stream \in Streams /\ streamId \in Streams /\ prep.id \in Nat
    BY <2>1, ManagerTypes, SessionTypes
  <2>3. readers \in [Streams -> Readers] /\ writer \in Nat
    BY <2>1, StreamsAssumption DEF TypeOK
  <2>. QED BY <2>1, <2>2, <2>3, StreamsAssumption DEF Streams
<1> DEFINE Corked == restart.at \in {"prepare", "prepared", "start"}
<1>2. Corked /\ ~ServerRestarts /\ ~RestartGoesOn =>
        /\ \A p \in data' \cup readers'[stream].ooo : p.id = stream => p.kind # "data"
        /\ readers'[stream].buf = <<>> /\ readers'[stream].next = readers[stream].next
  BY CorkedReader, CorkedSender
<1>4. CASE ~Control
  <2>1. UNCHANGED <<restart, stream, connected, streamId, pending>> /\ writer' \in {0, writer}
    BY <1>4, OutsideControl
  <2>2. Corked /\ streamId = stream => rwndSize' = 0 /\ sentNotAcked' = 0
    <3> SUFFICES ASSUME Corked, streamId = stream
                 PROVE  rwndSize' = 0 /\ sentNotAcked' = 0
      OBVIOUS
    <3>1. rwndSize = 0 /\ sentNotAcked = 0 /\ writer # stream
      BY <1>1 DEF CorkedInv
    <3>2. UNCHANGED managerVars => rwndSize' = rwndSize /\ sentNotAcked' = sentNotAcked
      BY DEF managerVars, sessionVars
    <3>3. ASSUME NEW ack \in acks, AckArrives(ack)
          PROVE  rwndSize' = rwndSize /\ sentNotAcked' = sentNotAcked
      BY <3>1, <3>3, AckEffect DEF managerVars, sessionVars
    <3>4. ~CanSendData
      BY <3>1, ManagerAssumption DEF CanSendData, Room, EffectiveWindow, Smaller
    <3>5. SenderSends => sentNotAcked' = sentNotAcked
      BY <3>4 DEF SenderSends, SendData, SendTerminal, sessionVars
    <3>6. Goroutine => rwndSize' = rwndSize /\ sentNotAcked' = sentNotAcked
      BY <3>5, GoroutineEffect
    <3>7. \/ UNCHANGED managerVars \/ Goroutine \/ \E ack \in acks : AckArrives(ack)
      BY <1>4, Frames DEF Control, Goroutine
    <3>. QED BY <3>1, <3>2, <3>3, <3>6, <3>7
  <2>3. ~ServerRestarts /\ ~RestartGoesOn
    BY <1>4 DEF Control
  <2>. QED BY <1>1, <1>2, <2>1, <2>2, <2>3 DEF CorkedInv, Connecting
<1>5. CASE LinkDrops \/ LinkComesUp \/ PrepareReadsHead
  <2>1. UNCHANGED <<restart, stream, connected, streamId, pending, rwndSize, sentNotAcked, readers>>
        /\ writer' \in {0, writer} /\ data' \subseteq data
    BY <1>5 DEF LinkDrops, LinkComesUp, PrepareReadsHead, localVars, remoteVars, linkVars,
                managerVars, sessionVars
  <2>. QED BY <1>1, <2>1 DEF CorkedInv, Connecting
<1>6. CASE ServerRestarts \/ RestartStats \/ RestartFails \/ RestartEnds \/ RestartRunsLoop
  <2>1. restart'.at \in {"idle", "open"}
    BY <1>1, <1>6, RestartEffect
  <2>. QED BY <2>1 DEF CorkedInv, Connecting
<1>7. CASE RestartCalls
  <2>1. UNCHANGED <<writer, data, streamId>> /\ stream' = stream + 1
        /\ readers' = [readers EXCEPT ![stream + 1] = NewReader(restart.seq)]
    BY <1>7 DEF RestartCalls, linkVars, managerVars, sessionVars
  <2>2. restart'.at = "prepare" /\ restart'.seq = restart.seq /\ restart.seq \in Nat
        /\ restart.at = "open"
    BY <1>1, <1>7, RestartEffect, SessionTypes
  <2>3. stream + 1 \in Streams
    BY <1>1, <2>2, StreamsAssumption DEF RestartInv, Streams
  <2>4. /\ readers'[stream'].ooo = {} /\ readers'[stream'].buf = <<>>
        /\ readers'[stream'].next = restart.seq
    BY <1>1, <2>1, <2>2, <2>3, NewReaderIs
  <2>5. streamId < stream' /\ writer < stream' /\ \A p \in data : p.id # stream'
    <3>1. writer <= streamId /\ streamId <= stream /\ \A p \in data : p.id <= streamId
      BY <1>1 DEF IdsInv
    <3>2. \A p \in data : p.id \in Nat
      BY <1>1, SessionTypes DEF Streams
    <3>. QED BY <1>1, <2>1, <3>1, <3>2
  <2>. QED BY <1>1, <2>1, <2>2, <2>4, <2>5 DEF CorkedInv, Connecting
<1>8. CASE RestartGoesOn
  <2>1. UNCHANGED <<writer, data, streamId, stream, connected, pending, rwndSize, sentNotAcked>>
    BY <1>8 DEF RestartGoesOn, linkVars, remoteVars, managerVars, sessionVars
  <2>2. /\ restart.at = "prepared" /\ restart.result = "ok" /\ restart'.at = "start"
        /\ restart'.announced = restart.announced
    BY <1>1, <1>8, RestartEffect
  <2>3. readers[stream].next = restart.seq /\ restart.seq <= restart.announced
    BY <1>1, <2>2 DEF CorkedInv, HeadInv
  <2>4. restart.seq \in Nat /\ restart.announced \in Nat /\ readers[stream] \in Readers
    BY <1>1, SessionTypes
  <2>5. /\ readers'[stream].ooo = readers[stream].ooo /\ readers'[stream].buf = readers[stream].buf
        /\ readers'[stream].next = restart.announced
    <3>1. CASE restart.announced > restart.seq
      <4>1. readers' = [readers EXCEPT ![stream] = UpdateNextSeq(readers[stream], restart.announced)]
        BY <1>8, <3>1 DEF RestartGoesOn
      <4>2. readers'[stream] = UpdateNextSeq(readers[stream], restart.announced)
        BY <1>1, <4>1
      <4>. QED BY <2>4, <4>2 DEF UpdateNextSeq, Readers
    <3>2. CASE ~(restart.announced > restart.seq)
      <4>1. readers' = readers
        BY <1>8, <3>2 DEF RestartGoesOn
      <4>. QED BY <2>3, <2>4, <3>2, <4>1
    <3>. QED BY <3>1, <3>2
  <2>. QED BY <1>1, <2>1, <2>2, <2>5 DEF CorkedInv, Connecting
<1>9. CASE PrepareFindsDone
  <2>1. UNCHANGED <<writer, data, streamId, stream, connected, pending, rwndSize, sentNotAcked, readers>>
    BY <1>9 DEF PrepareFindsDone, linkVars, remoteVars, managerVars, sessionVars
  <2>2. Replies("prepare", stream, terminalEvent, request.seq)
    BY <1>9 DEF PrepareFindsDone
  <2>3. \/ restart' = restart
        \/ /\ restart.at = "prepare" /\ restart'.at = "prepared" /\ restart'.seq = restart.seq
           /\ restart'.result = terminalEvent
    BY <1>1, <2>2, ReplyEffect
  <2>4. terminalEvent # "ok"
    BY <1>1 DEF TypeOK, Remote!TypeOK
  <2>. QED BY <1>1, <2>1, <2>3, <2>4 DEF CorkedInv, Connecting
<1>10. CASE PrepareDisconnects
  <2>1. UNCHANGED <<writer, data, stream, pending, readers, restart>>
    BY <1>10 DEF PrepareDisconnects, linkVars, localVars
  <2>2. streamId' = streamId /\ restart.at \in {"idle", "prepare"} /\ streamId # stream
    <3>1. request.kind = "prepare"
      BY <1>10 DEF PrepareDisconnects
    <3>. QED BY <1>1, <1>10, <3>1, DisconnectEffect DEF RestartInv, IdsInv
  <2>. QED BY <1>1, <2>1, <2>2 DEF CorkedInv, Connecting
<1>11. CASE PrepareConsumes
  <2>1. UNCHANGED <<writer, data, stream, pending, readers>>
    BY <1>11 DEF PrepareConsumes, linkVars
  <2>2. UNCHANGED <<connected, streamId, rwndSize, sentNotAcked>>
    BY <1>11, ConsumeEffect
  <2>3. restart' = restart \/ Replies("prepare", prep.id, "refused", 0)
    BY <1>11 DEF PrepareConsumes
  <2>4. \/ restart' = restart
        \/ /\ restart.at = "prepare" /\ restart'.at = "prepared" /\ restart'.seq = restart.seq
           /\ restart'.result = "refused"
    BY <1>1, <2>3, ReplyEffect
  <2>. QED BY <1>1, <2>1, <2>2, <2>4 DEF CorkedInv, Connecting
<1>12. CASE PrepareConnects
  <2>1. UNCHANGED <<writer, data, stream, readers>> /\ pending' = prep.id /\ prep.at = "connect"
    BY <1>12 DEF PrepareConnects
  <2>2. connected' = TRUE /\ streamId' = prep.id /\ rwndSize' = 0 /\ sentNotAcked' = 0
    BY <1>12, ConnectEffect
  <2>3. Replies("prepare", prep.id, "ok", IF prep.seq > prep.head THEN prep.seq ELSE prep.head)
    BY <1>12 DEF PrepareConnects
  <2>4. \/ restart' = restart
        \/ /\ restart.at = "prepare" /\ restart'.at = "prepared" /\ restart'.seq = restart.seq
           /\ stream = prep.id
    BY <1>1, <2>3, ReplyEffect
  <2>5. restart.at \notin {"prepared", "start", "started"}
    BY <1>1, <2>1 DEF RestartInv
  <2>. QED BY <1>1, <2>1, <2>2, <2>4, <2>5 DEF CorkedInv, Connecting
<1>13. CASE StartsStream
  <2>1. UNCHANGED <<data, stream, readers>> /\ prep.at = "idle" /\ request.kind = "start"
    BY <1>13 DEF StartsStream
  <2>2. connected /\ connected' = connected /\ streamId' = streamId
    BY <1>13, StartEffect
  <2>3. Replies("start", pending, "ok", 0)
    BY <1>13 DEF StartsStream
  <2>4. \/ restart' = restart /\ ~(restart.at = "start" /\ stream = pending /\ ~prep.lost)
        \/ restart.at = "start" /\ restart'.at = "started"
    BY <1>1, <2>3, ReplyEffect
  <2>5. ~prep.lost /\ streamId = stream /\ restart.at \in {"idle", "start"}
    BY <1>1, <2>1 DEF RestartInv
  <2>6. restart.at = "start" => pending = stream
    BY <1>1 DEF CorkedInv, Connecting
  <2>. QED BY <1>1, <2>1, <2>2, <2>4, <2>5, <2>6 DEF CorkedInv, Connecting
<1>. QED BY <1>4, <1>5, <1>6, <1>7, <1>8, <1>9, <1>10, <1>11, <1>12, <1>13 DEF Control

-----------------------------------------------------------------------------
(* The output loops.                                                        *)

LEMMA LoopMoves ==
  ASSUME TypeOK, [Next]_vars, NEW i \in Streams
  PROVE  \/ loops'[i] = loops[i]
         \/ /\ LoopReads(i) /\ loops[i].at = "read"
            /\ loops'[i].at = "check" /\ loops'[i].chunk = ReadChunk(readers[i])
            /\ loops'[i].end = ReadEnd(readers[i])
         \/ /\ LoopGoesOn(i) /\ loops[i].at = "check" /\ loops'[i].at = "act"
            /\ loops'[i].chunk = loops[i].chunk /\ loops'[i].end = loops[i].end
         \/ LoopSuperseded(i) /\ loops[i].at = "check" /\ loops'[i] = NoLoop
         \/ /\ LoopStores(i) /\ loops[i].at = "act" /\ loops[i].end = "none"
            /\ loops'[i] = Loop("read")
         \/ /\ LoopEnds(i) /\ loops[i].at = "act" /\ loops'[i].at = "off"
            /\ loops'[i].chunk = loops[i].chunk /\ loops'[i].end = loops[i].end
         \/ ServerRestarts /\ loops'[i] = NoLoop
         \/ RestartRunsLoop /\ restart.at = "started" /\ i = stream /\ loops'[i] = Loop("read")
<1>1. /\ loops \in [Streams -> [at : {"off", "read", "check", "act"}, chunk : Seq(Positions0),
                                end : {"none", "eof", "error", "closed"}]]
      /\ stream \in Streams
  BY DEF TypeOK
<1>2. ASSUME NEW j \in Streams, j # i,
             LoopReads(j) \/ LoopGoesOn(j) \/ LoopSuperseded(j) \/ LoopStores(j) \/ LoopEnds(j)
      PROVE  loops'[i] = loops[i]
  BY <1>1, <1>2 DEF LoopReads, LoopGoesOn, LoopSuperseded, LoopStores, LoopEnds
<1>3. LoopReads(i) => /\ loops[i].at = "read"
                      /\ loops'[i].at = "check" /\ loops'[i].chunk = ReadChunk(readers[i])
                      /\ loops'[i].end = ReadEnd(readers[i])
  BY <1>1 DEF LoopReads
<1>4. LoopGoesOn(i) => /\ loops[i].at = "check" /\ loops'[i].at = "act"
                       /\ loops'[i].chunk = loops[i].chunk /\ loops'[i].end = loops[i].end
  BY <1>1 DEF LoopGoesOn
<1>5. LoopSuperseded(i) => loops[i].at = "check" /\ loops'[i] = NoLoop
  BY <1>1 DEF LoopSuperseded
<1>6. LoopStores(i) => loops[i].at = "act" /\ loops[i].end = "none" /\ loops'[i] = Loop("read")
  BY <1>1 DEF LoopStores
<1>7. LoopEnds(i) => /\ loops[i].at = "act" /\ loops'[i].at = "off"
                     /\ loops'[i].chunk = loops[i].chunk /\ loops'[i].end = loops[i].end
  BY <1>1 DEF LoopEnds
<1>8. ServerRestarts => loops'[i] = NoLoop
  BY DEF ServerRestarts
<1>9. RestartRunsLoop => /\ restart.at = "started"
                         /\ i = stream => loops'[i] = Loop("read")
                         /\ i # stream => loops'[i] = loops[i]
  BY <1>1 DEF RestartRunsLoop
<1>. QED BY <1>2, <1>3, <1>4, <1>5, <1>6, <1>7, <1>8, <1>9, Frames

\* What is stored stays, a loop stores its own chunk.
LEMMA FileStep ==
  ASSUME TypeOK, [Next]_vars
  PROVE  \/ file' = file
         \/ \E i \in Streams :
              /\ LoopStores(i) /\ loops[i].at = "act"
              /\ Len(file') = Len(file) + Len(loops[i].chunk)
              /\ \A k \in 1..Len(file) : file'[k] = file[k]
              /\ \A k \in (Len(file) + 1)..Len(file') :
                   file'[k] = [id |-> i, pos |-> loops[i].chunk[k - Len(file)]]
<1>1. ASSUME NEW i \in Streams, LoopStores(i)
      PROVE  /\ LoopStores(i) /\ loops[i].at = "act"
             /\ Len(file') = Len(file) + Len(loops[i].chunk)
             /\ \A k \in 1..Len(file) : file'[k] = file[k]
             /\ \A k \in (Len(file) + 1)..Len(file') :
                  file'[k] = [id |-> i, pos |-> loops[i].chunk[k - Len(file)]]
  <2> DEFINE c == loops[i].chunk
             T == [id : Streams, pos : Positions0]
             more == [k \in 1..Len(c) |-> [id |-> i, pos |-> c[k]]]
  <2>1. c \in Seq(Positions0) /\ DOMAIN c = 1..Len(c) /\ Len(c) \in Nat
    BY SessionTypes
  <2>2. file' = file \o more
    BY <1>1, <2>1 DEF LoopStores
  <2>3. \A k \in 1..Len(c) : [id |-> i, pos |-> c[k]] \in T
    BY <2>1
  <2>4. more \in Seq(T) /\ Len(more) = Len(c)
    BY <2>1, <2>3, IsASeq
  <2>5. file \in Seq(T) /\ Len(file) \in Nat
    BY DEF TypeOK
  <2>6. \A k \in 1..Len(c) : more[k] = [id |-> i, pos |-> c[k]]
    OBVIOUS
  <2> HIDE DEF more, T, c
  <2>7. /\ file \o more \in Seq(T) /\ Len(file \o more) = Len(file) + Len(more)
        /\ \A k \in 1..(Len(file) + Len(more)) :
             (file \o more)[k] = IF k <= Len(file) THEN file[k] ELSE more[k - Len(file)]
    BY <2>4, <2>5, ConcatProperties, Zenon
  <2>8. Len(file') = Len(file) + Len(c)
    BY <2>2, <2>4, <2>7
  <2>9. ASSUME NEW k \in 1..Len(file)
        PROVE  file'[k] = file[k]
    <3>1. k \in 1..(Len(file) + Len(more)) /\ k <= Len(file)
      BY <2>1, <2>4, <2>5
    <3>. QED BY <2>2, <2>7, <3>1
  <2>10. ASSUME NEW k \in (Len(file) + 1)..Len(file')
         PROVE  file'[k] = [id |-> i, pos |-> c[k - Len(file)]]
    <3>1. k \in 1..(Len(file) + Len(more)) /\ ~(k <= Len(file)) /\ k - Len(file) \in 1..Len(c)
      BY <2>1, <2>4, <2>5, <2>8
    <3>2. file'[k] = more[k - Len(file)]
      BY <2>2, <2>7, <3>1
    <3>. QED BY <2>6, <3>1, <3>2
  <2>11. loops[i].at = "act"
    BY <1>1 DEF LoopStores
  <2>. QED BY <1>1, <2>8, <2>9, <2>10, <2>11 DEF c
<1>. QED BY <1>1, Frames

LEMMA ClosedMoves ==
  ASSUME TypeOK, [Next]_vars, FiniteInv, IInv, NEW i \in Streams, readers'[i].closed
  PROVE  \/ readers[i].closed \/ LoopSuperseded(i) \/ LoopEnds(i)
         \/ ((RestartFails \/ RestartEnds) /\ i = stream) \/ ServerRestarts
<1>1. readers \in [Streams -> Readers] /\ stream \in Streams /\ restart.seq \in Nat
  BY SessionTypes DEF TypeOK
<1>2. ASSUME NEW p \in data, DataArrives(p)
      PROVE  readers[i].closed
  <2> DEFINE x == RecvData(readers[p.id], p)
  <2>1. readers' = [readers EXCEPT ![p.id] = x] /\ p.id \in Streams
        /\ Outcome(readers[p.id], p, x, Others(p))
    BY <1>2, Arrival
  <2> HIDE DEF x
  <2>2. CASE p.id # i
    BY <1>1, <2>1, <2>2
  <2>3. CASE p.id = i
    <3>1. readers'[i] = x
      BY <1>1, <2>1, <2>3
    <3>. QED BY <2>1, <2>3, <3>1 DEF Outcome, Ignored, FailedBy, SetAside, Taken1
  <2>. QED BY <2>2, <2>3
<1>3. ASSUME NEW j \in Streams, Reads(j)
      PROVE  readers[i].closed
  BY <1>1, <1>3, ReadIs DEF Reads
<1>4. ASSUME NEW j \in Streams, Closes(j), j # i
      PROVE  readers[i].closed
  BY <1>1, <1>4 DEF Closes
<1>5. ASSUME RestartCalls
      PROVE  readers[i].closed
  <2>1. readers' = [readers EXCEPT ![stream + 1] = NewReader(restart.seq)]
    BY <1>5 DEF RestartCalls
  <2>2. ~NewReader(restart.seq).closed
    BY <1>1, NewReaderIs
  <2>. QED BY <1>1, <2>1, <2>2
<1>6. ASSUME RestartGoesOn
      PROVE  readers[i].closed
  <2> DEFINE x == UpdateNextSeq(readers[stream], restart.announced)
  <2>1. readers' = readers \/ readers' = [readers EXCEPT ![stream] = x]
    BY <1>6 DEF RestartGoesOn
  <2>2. x.closed = readers[stream].closed
    BY <1>1 DEF UpdateNextSeq, Readers
  <2> HIDE DEF x
  <2>. QED BY <1>1, <2>1, <2>2
<1>. QED BY <1>1, <1>2, <1>3, <1>4, <1>5, <1>6, ReadersStep

\* A reader that has reached the end of its stream stays there.
LEMMA EofStays ==
  ASSUME IInv, [Next]_vars, NEW i \in Streams, readers[i].eof, readers[i].buf = <<>>,
         ~ServerRestarts
  PROVE  readers'[i].eof /\ readers'[i].buf = <<>>
<1> DEFINE r == readers[i]
           s == readers'[i]
           Goal == s.eof /\ s.buf = <<>>
<1>1. /\ TypeOK /\ LoopsInv /\ IdsInv /\ readers \in [Streams -> Readers] /\ stream \in Streams
      /\ r \in Readers
  BY DEF IInv, TypeOK
<1>2. (s.eof = r.eof /\ s.buf = r.buf) => Goal
  OBVIOUS
<1>3. ASSUME NEW p \in data, DataArrives(p)
      PROVE  Goal
  <2> DEFINE x == RecvData(readers[p.id], p)
  <2>1. readers' = [readers EXCEPT ![p.id] = x] /\ p.id \in Streams
        /\ Outcome(readers[p.id], p, x, Others(p))
    BY <1>3, Arrival
  <2> HIDE DEF x
  <2>2. CASE p.id # i
    BY <1>1, <2>1, <2>2
  <2>3. CASE p.id = i
    <3>1. s = x /\ Outcome(r, p, s, Others(p)) /\ Finished(r)
      BY <1>1, <2>1, <2>3 DEF Finished
    <3>2. s = r
      BY <3>1 DEF Outcome, Ignored, FailedBy, SetAside
    <3>. QED BY <3>2
  <2>. QED BY <2>2, <2>3
<1>4. ASSUME NEW j \in Streams, Reads(j)
      PROVE  Goal
  <2>1. CASE j # i
    BY <1>1, <1>4, <2>1 DEF Reads
  <2>2. CASE j = i
    <3>1. s = Read(r)
      BY <1>1, <1>4, <2>2 DEF Reads
    <3> HIDE DEF s
    <3>2. s \in Readers /\ s.eof = r.eof /\ Len(s.buf) <= Len(r.buf)
      BY <1>1, <3>1, ReadIs
    <3>3. s.buf \in Seq(Positions0) /\ Len(s.buf) = 0
      <4>1. Len(r.buf) = 0 /\ s.buf \in Seq(Positions0)
        BY <3>2 DEF Readers
      <4>. QED BY <3>2, <4>1
    <3>4. s.buf = <<>>
      BY <3>3, EmptySeq
    <3>. QED BY <3>2, <3>4
  <2>. QED BY <2>1, <2>2
<1>5. ASSUME NEW j \in Streams, Closes(j)
      PROVE  Goal
  BY <1>1, <1>2, <1>5, CloseIs DEF Closes
<1>6. ASSUME RestartCalls
      PROVE  Goal
  <2>1. readers' = [readers EXCEPT ![stream + 1] = NewReader(restart.seq)]
    BY <1>6 DEF RestartCalls
  <2>2. i # stream + 1
    <3>1. streamId \in Nat /\ stream \in Nat /\ streamId <= stream
      BY <1>1, ManagerTypes DEF Streams, IdsInv
    <3>2. ~(i > streamId)
      BY <1>1 DEF LoopsInv, Untouched
    <3>. QED BY <3>1, <3>2
  <2>. QED BY <1>1, <2>1, <2>2
<1>7. ASSUME RestartGoesOn
      PROVE  Goal
  <2> DEFINE x == UpdateNextSeq(readers[stream], restart.announced)
  <2>1. readers' = readers \/ readers' = [readers EXCEPT ![stream] = x]
    BY <1>7 DEF RestartGoesOn
  <2>2. x.eof = readers[stream].eof /\ x.buf = readers[stream].buf
    BY <1>1 DEF UpdateNextSeq, Readers
  <2> HIDE DEF x
  <2>. QED BY <1>1, <2>1, <2>2
<1>8. readers' = readers => Goal
  OBVIOUS
<1>9. Goal
  <2> HIDE DEF Goal
  <2>. QED BY <1>1, <1>3, <1>4, <1>5, <1>6, <1>7, <1>8, ReadersStep
<1>. QED BY <1>9

\* A reader whose stream the remote end has not seen is as it was made.
LEMMA UntouchedStays ==
  ASSUME IInv, [Next]_vars, NEW i \in Streams, i > streamId
  PROVE  Untouched(readers'[i])
<1> DEFINE r == readers[i]
           s == readers'[i]
           Goal == Untouched(s)
<1>1. /\ TypeOK /\ LoopsInv /\ IdsInv /\ readers \in [Streams -> Readers] /\ stream \in Streams
      /\ r \in Readers /\ Untouched(r) /\ loops[i] = NoLoop
      /\ restart.seq \in Nat
  <2>1. TypeOK /\ LoopsInv /\ IdsInv
    BY DEF IInv
  <2>. QED BY <2>1, SessionTypes DEF TypeOK, LoopsInv, Unrun
<1>2. (s.eof = r.eof /\ s.buf = r.buf /\ s.ooo = r.ooo /\ s.failed = r.failed) => Goal
  BY <1>1 DEF Untouched
<1>3. ASSUME NEW p \in data, DataArrives(p)
      PROVE  Goal
  <2>1. readers' = [readers EXCEPT ![p.id] = RecvData(readers[p.id], p)]
    BY <1>3 DEF DataArrives
  <2>2. p.id # i
    <3>1. p.id \in Nat /\ streamId \in Nat /\ i \in Nat
      <4>1. p.id \in Streams /\ streamId \in Streams
        BY <1>1, SessionTypes, ManagerTypes
      <4>. QED BY <4>1, StreamsAssumption DEF Streams
    <3>2. p.id <= streamId
      BY <1>1 DEF IdsInv
    <3>. QED BY <3>1, <3>2
  <2>. QED BY <1>1, <1>2, <2>1, <2>2
<1>4. ASSUME NEW j \in Streams, Reads(j)
      PROVE  Goal
  <2>1. j # i
    BY <1>1, <1>4 DEF Reads, NoLoop
  <2>. QED BY <1>1, <1>2, <1>4, <2>1 DEF Reads
<1>5. ASSUME NEW j \in Streams, Closes(j)
      PROVE  Goal
  BY <1>1, <1>2, <1>5, CloseIs DEF Closes
<1>6. ASSUME RestartCalls
      PROVE  Goal
  <2>1. readers' = [readers EXCEPT ![stream + 1] = NewReader(restart.seq)]
    BY <1>6 DEF RestartCalls
  <2>2. Untouched(NewReader(restart.seq))
    BY <1>1, NewReaderIs DEF Untouched
  <2>. QED BY <1>1, <1>2, <2>1, <2>2
<1>7. ASSUME RestartGoesOn
      PROVE  Goal
  <2> DEFINE x == UpdateNextSeq(readers[stream], restart.announced)
  <2>1. readers' = readers \/ readers' = [readers EXCEPT ![stream] = x]
    BY <1>7 DEF RestartGoesOn
  <2>2. /\ x.eof = readers[stream].eof /\ x.buf = readers[stream].buf
        /\ x.ooo = readers[stream].ooo /\ x.failed = readers[stream].failed
    BY <1>1 DEF UpdateNextSeq, Readers
  <2> HIDE DEF x
  <2>. QED BY <1>1, <1>2, <2>1, <2>2
<1>8. ASSUME ServerRestarts
      PROVE  Goal
  <2>1. readers' = [j \in Streams |-> IF j <= stream THEN [NewReader(0) EXCEPT !.closed = TRUE]
                                                    ELSE readers[j]]
    BY <1>8 DEF ServerRestarts
  <2> DEFINE c == [NewReader(0) EXCEPT !.closed = TRUE]
  <2>2. Untouched(c)
    BY NewReaderIs DEF Untouched, Readers
  <2> HIDE DEF c
  <2>. QED BY <1>1, <2>1, <2>2 DEF c
<1>9. readers' = readers => Goal
  BY <1>2
<1>10. Goal
  <2> HIDE DEF Goal
  <2>. QED BY <1>1, <1>3, <1>4, <1>5, <1>6, <1>7, <1>8, <1>9, ReadersStep
<1>. QED BY <1>10

LEMMA LoopsKept ==
  ASSUME IInv, [Next]_vars
  PROVE  LoopsInv'
<1>1. /\ TypeOK /\ LoopsInv /\ IdsInv /\ CorkedInv /\ RestartInv /\ FiniteInv
      /\ stream \in Streams /\ streamId \in Nat /\ stream \in Nat /\ streamId <= stream
      /\ readers \in [Streams -> Readers] /\ streamId' \in Nat /\ streamId <= streamId'
  <2>1. TypeOK /\ LoopsInv /\ IdsInv /\ CorkedInv /\ RestartInv /\ FiniteInv
    BY DEF IInv
  <2>2. streamId \in Nat /\ stream \in Nat /\ prep.id \in Nat /\ stream \in Streams
    <3>1. streamId \in Streams /\ prep.id \in Nat /\ stream \in Streams
      BY <2>1, ManagerTypes, SessionTypes
    <3>. QED BY <3>1, StreamsAssumption DEF Streams
  <2>3. PrepareConnects => streamId' = prep.id /\ streamId < prep.id
    BY <2>1, ConnectEffect DEF IdsInv
  <2>. QED BY <2>1, <2>2, <2>3, StreamIdStep, SMTT(30) DEF IdsInv, TypeOK
<1>2. ASSUME NEW i \in Streams, Unrun(i), ~(RestartRunsLoop /\ i = stream)
      PROVE  loops'[i] = NoLoop /\ \A k \in DOMAIN file' : file'[k].id # i
  <2>1. loops'[i] = NoLoop
    <3>1. loops[i] = NoLoop /\ loops[i].at = "off"
      BY <1>2 DEF Unrun, NoLoop
    <3>. QED BY <1>1, <1>2, <3>1, LoopMoves
  <2>2. \A k \in DOMAIN file' : file'[k].id # i
    <3>1. CASE file' = file
      BY <1>2, <3>1 DEF Unrun
    <3>2. ASSUME NEW j \in Streams, loops[j].at = "act",
                 Len(file') = Len(file) + Len(loops[j].chunk),
                 \A k \in 1..Len(file) : file'[k] = file[k],
                 \A k \in (Len(file) + 1)..Len(file') :
                   file'[k] = [id |-> j, pos |-> loops[j].chunk[k - Len(file)]]
          PROVE  \A k \in DOMAIN file' : file'[k].id # i
      <4>1. j # i
        BY <1>2, <3>2 DEF Unrun, NoLoop
      <4>2. /\ DOMAIN file' = 1..Len(file') /\ DOMAIN file = 1..Len(file)
            /\ Len(file) \in Nat /\ Len(file') \in Nat
        <5>1. TypeOK'
          BY TypesKept
        <5>2. /\ file' \in Seq([id : Streams, pos : Positions0])
              /\ file \in Seq([id : Streams, pos : Positions0])
          BY <1>1, <5>1 DEF TypeOK
        <5>. QED BY <5>2
      <4>3. ASSUME NEW k \in DOMAIN file'
            PROVE  file'[k].id # i
        <5>1. CASE k \in 1..Len(file)
          BY <1>2, <3>2, <4>2, <5>1 DEF Unrun
        <5>2. CASE k \in (Len(file) + 1)..Len(file')
          <6>1. file'[k] = [id |-> j, pos |-> loops[j].chunk[k - Len(file)]]
            BY <3>2, <5>2
          <6>. QED BY <4>1, <6>1
        <5>. QED BY <4>2, <5>1, <5>2
      <4>. QED BY <4>3
    <3>. QED BY <1>1, <3>1, <3>2, FileStep
  <2>. QED BY <2>1, <2>2
<1>3. ASSUME NEW i \in Streams, i > streamId'
      PROVE  Unrun(i)' /\ Untouched(readers[i])'
  <2>1. i > streamId
    BY <1>1, <1>3 DEF Streams
  <2>2. Unrun(i)
    BY <1>1, <2>1 DEF LoopsInv
  <2>3. ~(RestartRunsLoop /\ i = stream)
    <3>1. RestartRunsLoop => streamId = stream
      BY <1>1 DEF RestartRunsLoop, CorkedInv, Connecting
    <3>. QED BY <1>1, <2>1, <3>1
  <2>4. Untouched(readers'[i])
    BY <2>1, UntouchedStays
  <2>. QED BY <1>2, <2>2, <2>3, <2>4 DEF Unrun, Untouched
<1>4. ASSUME restart'.at \notin {"idle", "open"}
      PROVE  (Unrun(stream) /\ ~readers[stream].closed)'
  <2>1. CASE RestartCalls
    <3>1. stream' = stream + 1 /\ readers' = [readers EXCEPT ![stream + 1] = NewReader(restart.seq)]
          /\ restart.at = "open" /\ restart.seq \in Nat
      BY <1>1, <2>1, SessionTypes DEF RestartCalls
    <3>2. stream + 1 \in Streams /\ stream + 1 > streamId
      BY <1>1, <3>1, StreamsAssumption DEF RestartInv, Streams
    <3>3. Unrun(stream + 1) /\ ~RestartRunsLoop
      BY <1>1, <3>1, <3>2 DEF LoopsInv, RestartRunsLoop
    <3>4. loops'[stream + 1] = NoLoop /\ \A k \in DOMAIN file' : file'[k].id # stream + 1
      BY <1>2, <3>2, <3>3
    <3>5. ~readers'[stream + 1].closed
      BY <1>1, <3>1, <3>2, NewReaderIs
    <3>. QED BY <3>1, <3>4, <3>5 DEF Unrun
  <2>2. CASE ~RestartCalls
    <3>1. stream' = stream
      BY <2>2, Frames
    <3>2. restart.at \notin {"idle", "open"} /\ ~RestartRunsLoop /\ ~RestartFails /\ ~RestartEnds
          /\ ~ServerRestarts
      <4>1. ~RestartRunsLoop /\ ~RestartFails /\ ~RestartEnds /\ ~ServerRestarts /\ ~RestartStats
        BY <1>1, <1>4, RestartEffect
      <4>2. RestartGoesOn => restart.at = "prepared"
        BY <1>1, RestartEffect
      <4>3. PrepareFindsDone \/ PrepareConsumes \/ PrepareConnects \/ StartsStream =>
              restart' = restart \/ restart.at \in {"prepare", "start"}
        <5>1. ASSUME NEW at, NEW id, NEW result, NEW announced, Replies(at, id, result, announced),
                     at \in {"prepare", "start"}
              PROVE  restart' = restart \/ restart.at \in {"prepare", "start"}
          BY <1>1, <5>1, ReplyEffect
        <5>2. PrepareFindsDone => Replies("prepare", stream, terminalEvent, request.seq)
          BY DEF PrepareFindsDone
        <5>3. PrepareConsumes => restart' = restart \/ Replies("prepare", prep.id, "refused", 0)
          BY DEF PrepareConsumes
        <5>4. PrepareConnects => Replies("prepare", prep.id, "ok", IF prep.seq > prep.head THEN prep.seq ELSE prep.head)
          BY DEF PrepareConnects
        <5>5. StartsStream => Replies("start", pending, "ok", 0)
          BY DEF StartsStream
        <5>. QED BY <5>1, <5>2, <5>3, <5>4, <5>5
      <4>. QED BY <1>4, <2>2, <4>1, <4>2, <4>3, Frames
    <3>3. Unrun(stream) /\ ~readers[stream].closed
      BY <1>1, <3>2 DEF LoopsInv
    <3>4. loops'[stream] = NoLoop /\ \A k \in DOMAIN file' : file'[k].id # stream
      BY <1>1, <1>2, <3>2, <3>3
    <3>5. ~readers'[stream].closed
      <4>1. ~LoopSuperseded(stream) /\ ~LoopEnds(stream)
        BY <3>3 DEF Unrun, NoLoop, LoopSuperseded, LoopEnds
      <4>. QED BY <1>1, <3>2, <3>3, <4>1, ClosedMoves
    <3>. QED BY <3>1, <3>4, <3>5 DEF Unrun
  <2>. QED BY <2>1, <2>2
<1>5. ASSUME NEW i \in Streams
      PROVE  /\ loops'[i].at # "off" => ~readers'[i].closed
             /\ loops'[i].at = "read" => loops'[i] = Loop("read")
             /\ loops'[i].end # "none" => loops'[i].chunk = <<>>
             /\ loops'[i].end = "eof" => readers'[i].eof /\ readers'[i].buf = <<>>
  <2>0. /\ loops[i].at # "off" => ~readers[i].closed
        /\ loops[i].at = "read" => loops[i] = Loop("read")
        /\ loops[i].end # "none" => loops[i].chunk = <<>>
        /\ loops[i].end = "eof" => readers[i].eof /\ readers[i].buf = <<>>
    BY <1>1 DEF LoopsInv
  <2>a. NoLoop.at = "off" /\ NoLoop.end = "none" /\ Loop("read").end = "none" /\ Loop("read").at = "read"
    BY DEF NoLoop, Loop
  <2>b. LoopReads(i) => ~ServerRestarts
    <3>1. LoopReads(i) => loops'[i].at = "check"
      BY <1>1 DEF LoopReads, TypeOK
    <3>2. ServerRestarts => loops'[i].at = "off"
      BY <2>a DEF ServerRestarts
    <3>. QED BY <3>1, <3>2
  <2>1. loops'[i].at # "off" => ~readers'[i].closed
    <3> SUFFICES ASSUME loops'[i].at # "off", readers'[i].closed PROVE FALSE
      OBVIOUS
    <3>1. ~LoopSuperseded(i) /\ ~LoopEnds(i) /\ ~ServerRestarts
      BY <1>1, <2>a DEF LoopSuperseded, LoopEnds, ServerRestarts, TypeOK
    <3>2. CASE loops[i].at # "off"
      <4>1. i = stream /\ (RestartFails \/ RestartEnds)
        BY <1>1, <2>0, <3>1, <3>2, ClosedMoves
      <4>2. restart.at \notin {"idle", "open"}
        BY <4>1 DEF RestartFails, RestartEnds
      <4>. QED BY <1>1, <3>2, <4>1, <4>2 DEF LoopsInv, Unrun, NoLoop
    <3>3. CASE loops[i].at = "off"
      <4>1. RestartRunsLoop /\ restart.at = "started" /\ i = stream
        BY <1>1, <2>a, <3>3, LoopMoves
      <4>2. ~readers[i].closed /\ readers' = readers
        BY <1>1, <4>1 DEF LoopsInv, RestartRunsLoop
      <4>. QED BY <4>2
    <3>. QED BY <3>2, <3>3
  <2>2. loops'[i].at = "read" => loops'[i] = Loop("read")
    BY <1>1, <2>0, <2>a, LoopMoves
  <2>3. loops'[i].end # "none" => loops'[i].chunk = <<>>
    <3>1. ReadEnd(readers[i]) # "none" => ReadChunk(readers[i]) = <<>>
      BY DEF ReadChunk
    <3>. QED BY <1>1, <2>0, <2>a, <3>1, LoopMoves
  <2>4. ASSUME loops'[i].end = "eof"
        PROVE  readers'[i].eof /\ readers'[i].buf = <<>>
    <3>1. ~ServerRestarts
      BY <2>4, <2>a DEF ServerRestarts
    <3>2. readers[i].eof /\ readers[i].buf = <<>>
      <4>1. CASE loops[i].end = "eof"
        BY <2>0, <4>1
      <4>2. CASE loops[i].end # "eof"
        <5>1. ReadEnd(readers[i]) = "eof"
          BY <1>1, <2>4, <2>a, <4>2, LoopMoves
        <5>. QED BY <5>1 DEF ReadEnd
      <4>. QED BY <4>1, <4>2
    <3>. QED BY <3>1, <3>2, EofStays
  <2>. QED BY <2>1, <2>2, <2>3, <2>4
<1>. QED BY <1>3, <1>4, <1>5 DEF LoopsInv

-----------------------------------------------------------------------------
(* What a step does to one reader.                                          *)

Leaves(i) ==
  LoopSuperseded(i) \/ LoopEnds(i) \/ ((RestartFails \/ RestartEnds) /\ i = stream)

LEMMA ReaderStep ==
  ASSUME IInv, [Next]_vars, NEW i \in Streams
  PROVE  LET r == readers[i]
             s == readers'[i]
         IN  \/ s = r
             \/ \E p \in data : p.id = i /\ DataArrives(p) /\ Outcome(r, p, s, Others(p))
             \/ LoopReads(i) /\ s = Read(r) /\ loops[i].at = "read"
             \/ /\ Leaves(i) /\ s.closed
                /\ s.next = r.next /\ s.buf = r.buf /\ s.ooo = r.ooo
                /\ s.eof = r.eof /\ s.failed = r.failed
             \/ ServerRestarts /\ i <= stream /\ s.next = 0 /\ Untouched(s) /\ s.closed
             \/ /\ RestartCalls /\ i = stream + 1
                /\ s.next = restart.seq /\ Untouched(s) /\ ~s.closed
             \/ /\ RestartGoesOn /\ i = stream /\ restart.announced > restart.seq
                /\ s.next = restart.announced /\ s.buf = r.buf /\ s.ooo = r.ooo
                /\ s.eof = r.eof /\ s.failed = r.failed /\ s.closed = r.closed
<1> DEFINE r == readers[i]
           s == readers'[i]
           Goal == \/ s = r
                   \/ \E p \in data : p.id = i /\ DataArrives(p) /\ Outcome(r, p, s, Others(p))
                   \/ LoopReads(i) /\ s = Read(r) /\ loops[i].at = "read"
                   \/ /\ Leaves(i) /\ s.closed
                      /\ s.next = r.next /\ s.buf = r.buf /\ s.ooo = r.ooo
                      /\ s.eof = r.eof /\ s.failed = r.failed
                   \/ ServerRestarts /\ i <= stream /\ s.next = 0 /\ Untouched(s) /\ s.closed
                   \/ /\ RestartCalls /\ i = stream + 1
                      /\ s.next = restart.seq /\ Untouched(s) /\ ~s.closed
                   \/ /\ RestartGoesOn /\ i = stream /\ restart.announced > restart.seq
                      /\ s.next = restart.announced /\ s.buf = r.buf /\ s.ooo = r.ooo
                      /\ s.eof = r.eof /\ s.failed = r.failed /\ s.closed = r.closed
<1>1. /\ TypeOK /\ readers \in [Streams -> Readers] /\ r \in Readers /\ stream \in Streams
      /\ restart.seq \in Nat
  BY SessionTypes DEF IInv, TypeOK
<1>2. ASSUME NEW p \in data, DataArrives(p)
      PROVE  Goal
  <2>1. readers' = [readers EXCEPT ![p.id] = RecvData(readers[p.id], p)] /\ p.id \in Streams
        /\ Outcome(readers[p.id], p, RecvData(readers[p.id], p), Others(p))
    BY <1>2, Arrival
  <2>2. p.id # i => s = r
    BY <1>1, <2>1
  <2>3. p.id = i => s = RecvData(r, p)
    BY <1>1, <2>1
  <2> HIDE DEF s
  <2>. QED BY <1>2, <2>1, <2>2, <2>3
<1>3. ASSUME NEW j \in Streams, LoopReads(j), Reads(j)
      PROVE  Goal
  <2>1. j # i => s = r
    BY <1>1, <1>3 DEF Reads
  <2>2. j = i => s = Read(r)
    BY <1>1, <1>3 DEF Reads
  <2> HIDE DEF s
  <2>. QED BY <1>3, <2>1, <2>2 DEF Reads
<1>4. ASSUME NEW j \in Streams, Closes(j),
             LoopSuperseded(j) \/ LoopEnds(j) \/ ((RestartFails \/ RestartEnds) /\ j = stream)
      PROVE  Goal
  <2>1. j # i => s = r
    BY <1>1, <1>4 DEF Closes
  <2>2. j = i => s = Close(r)
    BY <1>1, <1>4 DEF Closes
  <2> HIDE DEF s
  <2>3. j = i => /\ s.closed /\ s.next = r.next /\ s.buf = r.buf /\ s.ooo = r.ooo
                 /\ s.eof = r.eof /\ s.failed = r.failed
    BY <1>1, <2>2, CloseIs
  <2>. QED BY <1>4, <2>1, <2>3 DEF Leaves
<1>5. ASSUME ServerRestarts
      PROVE  Goal
  <2>1. readers' = [j \in Streams |-> IF j <= stream THEN [NewReader(0) EXCEPT !.closed = TRUE]
                                                    ELSE readers[j]]
    BY <1>5 DEF ServerRestarts
  <2> DEFINE c == [NewReader(0) EXCEPT !.closed = TRUE]
  <2>2. /\ NewReader(0) \in Readers /\ NewReader(0).next = 0 /\ NewReader(0).buf = <<>>
        /\ NewReader(0).ooo = {} /\ ~NewReader(0).eof /\ ~NewReader(0).failed
    BY NewReaderIs
  <2>3. c.next = 0 /\ Untouched(c) /\ c.closed
    BY <2>2 DEF Untouched, Readers
  <2>4. (i <= stream /\ s = c) \/ s = r
    BY <2>1
  <2> HIDE DEF c, s
  <2>. QED BY <1>5, <2>3, <2>4
<1>6. ASSUME RestartCalls
      PROVE  Goal
  <2>1. readers' = [readers EXCEPT ![stream + 1] = NewReader(restart.seq)]
    BY <1>6 DEF RestartCalls
  <2>2. (i = stream + 1 /\ s = NewReader(restart.seq)) \/ s = r
    BY <1>1, <2>1
  <2> HIDE DEF s
  <2>3. Untouched(NewReader(restart.seq)) /\ NewReader(restart.seq).next = restart.seq
        /\ ~NewReader(restart.seq).closed
    BY <1>1, NewReaderIs DEF Untouched
  <2>. QED BY <1>6, <2>2, <2>3
<1>7. ASSUME RestartGoesOn
      PROVE  Goal
  <2>1. \/ readers' = readers
        \/ /\ restart.announced > restart.seq
           /\ readers' = [readers EXCEPT ![stream] = UpdateNextSeq(readers[stream], restart.announced)]
    BY <1>7 DEF RestartGoesOn
  <2>2. \/ s = r
        \/ i = stream /\ restart.announced > restart.seq /\ s = UpdateNextSeq(r, restart.announced)
    BY <1>1, <2>1
  <2> HIDE DEF s
  <2>3. s = UpdateNextSeq(r, restart.announced) =>
          /\ s.next = restart.announced /\ s.buf = r.buf /\ s.ooo = r.ooo
          /\ s.eof = r.eof /\ s.failed = r.failed /\ s.closed = r.closed
    BY <1>1 DEF UpdateNextSeq, Readers
  <2>. QED BY <1>7, <2>2, <2>3
<1>8. readers' = readers => Goal
  OBVIOUS
<1>9. Goal
  <2> HIDE DEF Goal
  <2>. QED BY <1>1, <1>2, <1>3, <1>4, <1>5, <1>6, <1>7, <1>8, ReadersStep
<1>. QED BY <1>9

-----------------------------------------------------------------------------
(* The bytes of a stream, stored, held or to be read.                       *)

\* The bytes held go on where the file f ends, and end at next.
Follows(held, next, i, f) ==
  /\ \A k \in DOMAIN held : held[k] = (next - Len(held)) + k - 1
  /\ \A k \in DOMAIN f : f[k].id = i =>
       f[k].pos = (next - Len(held)) - Cardinality({l \in k..Len(f) : f[l].id = i})

LEMMA ContiguousIs ==
  ASSUME NEW i \in Streams
  PROVE  /\ Contiguous(i) <=> Follows(loops[i].chunk \o readers[i].buf, readers[i].next, i, file)
         /\ Contiguous(i)' <=>
              Follows(loops'[i].chunk \o readers'[i].buf, readers'[i].next, i, file')
  BY DEF Contiguous, Follows, Held, StoredFrom

\* A stream of which nothing is stored or held.
LEMMA FollowsFresh ==
  ASSUME NEW held \in Seq(Positions0), held = <<>>, NEW next \in Nat, NEW i,
         NEW f, \A k \in DOMAIN f : f[k].id # i
  PROVE  Follows(held, next, i, f)
  BY DEF Follows

\* The reader goes on.
LEMMA FollowsGrown ==
  ASSUME NEW c \in Seq(Positions0), NEW b \in Seq(Positions0), NEW d \in Seq(Positions0),
         NEW n \in Nat, NEW m \in Nat, NEW i, NEW f,
         Follows(c \o b, n, i, f),
         Len(d) = Len(b) + (m - n), Len(b) <= Len(d),
         \A k \in 1..Len(b) : d[k] = b[k],
         \A k \in (Len(b) + 1)..Len(d) : d[k] = n - Len(b) + k - 1
  PROVE  Follows(c \o d, m, i, f)
<1>1. Len(c) \in Nat /\ Len(b) \in Nat /\ Len(d) \in Nat
  OBVIOUS
<1>2. /\ Len(c \o b) = Len(c) + Len(b) /\ DOMAIN (c \o b) = 1..(Len(c) + Len(b))
      /\ \A k \in 1..(Len(c) + Len(b)) : (c \o b)[k] = IF k <= Len(c) THEN c[k] ELSE b[k - Len(c)]
  <2>1. /\ c \o b \in Seq(Positions0) /\ Len(c \o b) = Len(c) + Len(b)
        /\ \A k \in 1..(Len(c) + Len(b)) : (c \o b)[k] = IF k <= Len(c) THEN c[k] ELSE b[k - Len(c)]
    BY ConcatProperties, Zenon
  <2>. QED BY <2>1
<1>3. /\ Len(c \o d) = Len(c) + Len(d) /\ DOMAIN (c \o d) = 1..(Len(c) + Len(d))
      /\ \A k \in 1..(Len(c) + Len(d)) : (c \o d)[k] = IF k <= Len(c) THEN c[k] ELSE d[k - Len(c)]
  <2>1. /\ c \o d \in Seq(Positions0) /\ Len(c \o d) = Len(c) + Len(d)
        /\ \A k \in 1..(Len(c) + Len(d)) : (c \o d)[k] = IF k <= Len(c) THEN c[k] ELSE d[k - Len(c)]
    BY ConcatProperties, Zenon
  <2>. QED BY <2>1
<1> DEFINE x == c \o b
           y == c \o d
<1>4. m - Len(y) = n - Len(x)
  BY <1>1, <1>2, <1>3
<1>5. ASSUME NEW k \in DOMAIN y
      PROVE  y[k] = (m - Len(y)) + k - 1
  <2>1. CASE k <= Len(c) + Len(b)
    <3>1. k \in DOMAIN x /\ x[k] = (n - Len(x)) + k - 1
      BY <1>1, <1>2, <1>3, <2>1, SMTT(30) DEF Follows
    <3>2. y[k] = x[k]
      <4>1. CASE k <= Len(c)
        BY <1>1, <1>2, <1>3, <2>1, <4>1
      <4>2. CASE ~(k <= Len(c))
        <5>1. k - Len(c) \in 1..Len(b) /\ k \in 1..(Len(c) + Len(b)) /\ k \in 1..(Len(c) + Len(d))
          BY <1>1, <1>3, <2>1, <4>2
        <5>2. y[k] = d[k - Len(c)] /\ x[k] = b[k - Len(c)]
          BY <1>2, <1>3, <4>2, <5>1
        <5>. QED BY <5>1, <5>2
      <4>. QED BY <4>1, <4>2
    <3> HIDE DEF x, y
    <3>. QED BY <1>4, <3>1, <3>2
  <2>2. CASE ~(k <= Len(c) + Len(b))
    <3>1. k - Len(c) \in (Len(b) + 1)..Len(d) /\ ~(k <= Len(c)) /\ k \in 1..(Len(c) + Len(d))
      BY <1>1, <1>3, <2>2
    <3>2. y[k] = d[k - Len(c)]
      BY <1>3, <3>1
    <3>3. y[k] = n - Len(b) + (k - Len(c)) - 1
      BY <3>1, <3>2
    <3>4. Len(x) = Len(c) + Len(b) /\ k \in Int
      BY <1>2, <1>3
    <3>5. \A q, a, bb, nn \in Int : nn - bb + (q - a) - 1 = (nn - (a + bb)) + q - 1
      OBVIOUS
    <3>6. n - Len(b) + (k - Len(c)) - 1 = (n - (Len(c) + Len(b))) + k - 1
      <4>1. n \in Int /\ Len(b) \in Int /\ Len(c) \in Int
        BY <1>1
      <4>. QED BY ONLY <3>4, <3>5, <4>1
    <3> HIDE DEF x, y
    <3>. QED BY <1>4, <3>3, <3>4, <3>6
  <2>. QED BY <2>1, <2>2
<1>6. ASSUME NEW k \in DOMAIN f, f[k].id = i
      PROVE  f[k].pos = (m - Len(y)) - Cardinality({l \in k..Len(f) : f[l].id = i})
  BY <1>4, <1>6 DEF Follows
<1>. QED BY <1>5, <1>6 DEF Follows

\* The loop of another stream stores.
LEMMA FollowsOther ==
  ASSUME NEW T, NEW f \in Seq(T), NEW g \in Seq(T), Len(f) <= Len(g), NEW i,
         \A k \in 1..Len(f) : g[k] = f[k],
         \A k \in (Len(f) + 1)..Len(g) : g[k].id # i,
         NEW held, NEW next, Follows(held, next, i, f)
  PROVE  Follows(held, next, i, g)
<1>1. Len(f) \in Nat /\ Len(g) \in Nat /\ DOMAIN f = 1..Len(f) /\ DOMAIN g = 1..Len(g)
  OBVIOUS
<1>2. ASSUME NEW k \in DOMAIN g, g[k].id = i
      PROVE  g[k].pos = (next - Len(held)) - Cardinality({l \in k..Len(g) : g[l].id = i})
  <2>1. k \in 1..Len(f)
    BY <1>1, <1>2
  <2>2. {l \in k..Len(g) : g[l].id = i} = {l \in k..Len(f) : f[l].id = i}
    <3>1. ASSUME NEW l \in k..Len(g), g[l].id = i
          PROVE  l \in k..Len(f) /\ f[l].id = i
      BY <1>1, <2>1, <3>1
    <3>2. ASSUME NEW l \in k..Len(f), f[l].id = i
          PROVE  l \in k..Len(g) /\ g[l].id = i
      BY <1>1, <2>1, <3>2
    <3>. QED BY <3>1, <3>2
  <2>. QED BY <1>1, <1>2, <2>1, <2>2 DEF Follows
<1>. QED BY <1>2 DEF Follows

\* The loop stores its chunk.
LEMMA FollowsStored ==
  ASSUME NEW T, NEW f \in Seq(T), NEW g \in Seq(T), NEW i,
         NEW c \in Seq(Positions0), NEW b \in Seq(Positions0), NEW next \in Nat,
         Len(g) = Len(f) + Len(c),
         \A k \in 1..Len(f) : g[k] = f[k],
         \A k \in (Len(f) + 1)..Len(g) : g[k] = [id |-> i, pos |-> c[k - Len(f)]],
         Follows(c \o b, next, i, f)
  PROVE  Follows(b, next, i, g)
<1>1. /\ Len(f) \in Nat /\ Len(g) \in Nat /\ Len(b) \in Nat /\ Len(c) \in Nat
      /\ DOMAIN f = 1..Len(f) /\ DOMAIN g = 1..Len(g)
  OBVIOUS
<1>2. /\ Len(c \o b) = Len(c) + Len(b) /\ DOMAIN (c \o b) = 1..(Len(c) + Len(b))
      /\ \A k \in 1..(Len(c) + Len(b)) : (c \o b)[k] = IF k <= Len(c) THEN c[k] ELSE b[k - Len(c)]
  <2>1. /\ c \o b \in Seq(Positions0) /\ Len(c \o b) = Len(c) + Len(b)
        /\ \A k \in 1..(Len(c) + Len(b)) : (c \o b)[k] = IF k <= Len(c) THEN c[k] ELSE b[k - Len(c)]
    <3>1. c \in Seq(Positions0) /\ b \in Seq(Positions0)
      OBVIOUS
    <3>. QED BY ONLY <3>1, ConcatProperties, Zenon
  <2>. QED BY <2>1
<1> DEFINE x == c \o b
<1>3. Len(x) = Len(c) + Len(b)
  BY <1>2
<1>4. ASSUME NEW k \in DOMAIN b
      PROVE  b[k] = (next - Len(b)) + k - 1
  <2>1. k + Len(c) \in DOMAIN x /\ k \in Int
    BY <1>1, <1>2
  <2>2. x[k + Len(c)] = (next - Len(x)) + (k + Len(c)) - 1
    BY <2>1 DEF Follows
  <2>3. x[k + Len(c)] = b[k]
    <3>1. ~(k + Len(c) <= Len(c)) /\ (k + Len(c)) - Len(c) = k
      BY <1>1
    <3>. QED BY <1>2, <2>1, <3>1
  <2> HIDE DEF x
  <2>4. \A a, q, n, d \in Int : (n - (a + d)) + (q + a) - 1 = (n - d) + q - 1
    OBVIOUS
  <2>5. (next - (Len(c) + Len(b))) + (k + Len(c)) - 1 = (next - Len(b)) + k - 1
    <3>1. Len(c) \in Int /\ Len(b) \in Int /\ next \in Int
      BY <1>1
    <3>. QED BY ONLY <2>1, <2>4, <3>1
  <2>. QED BY <1>3, <2>2, <2>3, <2>5
<1>5. ASSUME NEW k \in DOMAIN g, g[k].id = i
      PROVE  g[k].pos = (next - Len(b)) - Cardinality({l \in k..Len(g) : g[l].id = i})
  <2> DEFINE last == (Len(f) + 1)..Len(g)
  <2>0. IsFiniteSet(last) /\ Cardinality(last) = Len(c)
    <3>1. IsFiniteSet(last) /\ Cardinality(last) = IF Len(f) + 1 > Len(g) THEN 0 ELSE Len(g) - (Len(f) + 1) + 1
      <4>1. Len(f) + 1 \in Int /\ Len(g) \in Int
        BY <1>1
      <4>. QED BY ONLY <4>1, FS_Interval
    <3> HIDE DEF last
    <3>. QED BY <1>1, <3>1
  <2>1. CASE k \in 1..Len(f)
    <3> DEFINE S == {l \in k..Len(f) : f[l].id = i}
               U == {l \in k..Len(g) : g[l].id = i}
    <3>1. f[k].pos = (next - Len(x)) - Cardinality(S)
      BY <1>1, <1>5, <2>1 DEF Follows
    <3>2. U = S \cup last
      <4>1. ASSUME NEW l \in U
            PROVE  l \in S \cup last
        BY <1>1, <2>1
      <4>2. ASSUME NEW l \in S
            PROVE  l \in U
        BY <1>1, <2>1
      <4>3. ASSUME NEW l \in last
            PROVE  l \in U
        <5>1. g[l] = [id |-> i, pos |-> c[l - Len(f)]] /\ l \in k..Len(g)
          BY <1>1, <2>1
        <5>. QED BY <5>1
      <4> HIDE DEF S, U, last
      <4>. QED BY <4>1, <4>2, <4>3
    <3>3. IsFiniteSet(S) /\ S \cap last = {}
      <4>1. IsFiniteSet(k..Len(f))
        BY <1>1, <2>1, FS_Interval
      <4>2. S \subseteq k..Len(f)
        OBVIOUS
      <4>3. S \cap last = {}
        BY <1>1
      <4> HIDE DEF S
      <4>. QED BY <4>1, <4>2, <4>3, FS_Subset
    <3> HIDE DEF S, U, last, x
    <3>4. Cardinality(U) = Cardinality(S) + Len(c) /\ Cardinality(S) \in Nat
      <4>1. Cardinality(S \cup last) = Cardinality(S) + Cardinality(last) - Cardinality(S \cap last)
        BY <2>0, <3>3, FS_Union
      <4>2. Cardinality({}) = 0
        BY FS_EmptySet
      <4>3. Cardinality(S) \in Nat
        BY <3>3, FS_CardinalityType
      <4>4. Cardinality(last) = Len(c) /\ Cardinality(S \cap last) = 0 /\ Len(c) \in Nat
        BY <1>1, <2>0, <3>3, <4>2
      <4>5. Cardinality(U) = Cardinality(S) + Cardinality(last) - Cardinality(S \cap last)
        BY <3>2, <4>1
      <4>. QED BY ONLY <4>3, <4>4, <4>5
    <3>5. \A n, cc, d, e \in Int : (n - (cc + d)) - e = (n - d) - (e + cc)
      OBVIOUS
    <3>6. (next - (Len(c) + Len(b))) - Cardinality(S) = (next - Len(b)) - (Cardinality(S) + Len(c))
      <4>1. Len(c) \in Int /\ Len(b) \in Int /\ next \in Int /\ Cardinality(S) \in Int
        BY <1>1, <3>4
      <4>. QED BY ONLY <3>5, <4>1
    <3>7. g[k] = f[k]
      BY <2>1
    <3>. QED BY <1>3, <3>1, <3>4, <3>6, <3>7 DEF U
  <2>2. CASE k \in last
    <3> DEFINE U == {l \in k..Len(g) : g[l].id = i}
    <3>1. U = k..Len(g)
      <4>1. ASSUME NEW l \in k..Len(g)
            PROVE  g[l].id = i
        <5>1. l \in (Len(f) + 1)..Len(g)
          BY <1>1, <2>2
        <5>2. g[l] = [id |-> i, pos |-> c[l - Len(f)]]
          BY <5>1
        <5>. QED BY <5>2
      <4>. QED BY <4>1
    <3>2. Cardinality(U) = Len(g) - k + 1
      <4>1. k \in Int /\ Len(g) \in Int /\ k <= Len(g)
        BY <1>1, <2>2
      <4>2. Cardinality(k..Len(g)) = IF k > Len(g) THEN 0 ELSE Len(g) - k + 1
        BY ONLY <4>1, FS_Interval
      <4>3. Cardinality(k..Len(g)) = Len(g) - k + 1
        BY ONLY <4>1, <4>2
      <4> HIDE DEF U
      <4>. QED BY <3>1, <4>3
    <3>3. g[k].pos = c[k - Len(f)]
      <4>1. g[k] = [id |-> i, pos |-> c[k - Len(f)]]
        BY <2>2
      <4>. QED BY <4>1
    <3>4. k - Len(f) \in 1..Len(c) /\ k \in Int
      BY <1>1, <2>2
    <3>5. k - Len(f) \in DOMAIN x /\ x[k - Len(f)] = c[k - Len(f)]
      <4>1. k - Len(f) \in 1..(Len(c) + Len(b)) /\ k - Len(f) <= Len(c)
        BY <1>1, <3>4
      <4>. QED BY <1>2, <4>1
    <3>6. x[k - Len(f)] = (next - Len(x)) + (k - Len(f)) - 1
      BY <3>5 DEF Follows
    <3> HIDE DEF U, x
    <3>7. \A n, cc, d, q, a \in Int : (n - (cc + d)) + (q - a) - 1 = (n - d) - ((a + cc) - q + 1)
      OBVIOUS
    <3>8. (next - (Len(c) + Len(b))) + (k - Len(f)) - 1
            = (next - Len(b)) - ((Len(f) + Len(c)) - k + 1)
      <4>1. Len(c) \in Int /\ Len(b) \in Int /\ next \in Int /\ Len(f) \in Int
        BY <1>1
      <4>. QED BY ONLY <3>4, <3>7, <4>1
    <3>. QED BY <1>3, <3>2, <3>3, <3>5, <3>6, <3>8 DEF U
  <2>. QED BY <1>1, <2>1, <2>2
<1>. QED BY <1>4, <1>5 DEF Follows

LEMMA ContiguityKept ==
  ASSUME IInv, [Next]_vars
  PROVE  ContiguityInv'
<1>1. /\ TypeOK /\ TypeOK' /\ LoopsInv /\ ContiguityInv /\ CorkedInv /\ IdsInv
      /\ stream \in Streams /\ streamId \in Nat /\ stream \in Nat /\ streamId <= stream
      /\ MaxBytes \in Nat
  <2>1. TypeOK /\ TypeOK' /\ LoopsInv /\ ContiguityInv /\ CorkedInv /\ IdsInv
    BY TypesKept DEF IInv
  <2>2. stream \in Streams /\ streamId \in Streams /\ MaxBytes \in Nat
    BY <2>1, SessionTypes, ManagerTypes
  <2>. QED BY <2>1, <2>2, StreamsAssumption DEF IdsInv, Streams
<1> SUFFICES ASSUME NEW i \in Streams, ~readers'[i].closed
             PROVE  Contiguous(i)'
  BY DEF ContiguityInv
<1> DEFINE r == readers[i]
           s == readers'[i]
           c == loops[i].chunk
           d == loops'[i].chunk
<1>2. /\ r \in Readers /\ s \in Readers /\ r.buf \in Seq(Positions0) /\ s.buf \in Seq(Positions0)
      /\ r.next \in Nat /\ s.next \in Nat /\ Len(r.buf) \in Nat /\ Len(s.buf) \in Nat
      /\ c \in Seq(Positions0) /\ d \in Seq(Positions0)
  <2>1. r \in Readers /\ s \in Readers
    BY <1>1 DEF TypeOK
  <2>2. c \in Seq(Positions0) /\ d \in Seq(Positions0)
    BY <1>1 DEF TypeOK
  <2>. QED BY <2>1, <2>2 DEF Readers
<1> DEFINE FT == [id : Streams, pos : Positions0]
<1>3. file \in Seq(FT) /\ file' \in Seq(FT) /\ Len(file) \in Nat /\ Len(file') \in Nat
  <2>1. file \in Seq(FT) /\ file' \in Seq(FT)
    BY <1>1 DEF TypeOK
  <2>. QED BY <2>1
<1>4. SUFFICES Follows(d \o s.buf, s.next, i, file')
  BY ContiguousIs
<1>5. ~readers[i].closed => Follows(c \o r.buf, r.next, i, file)
  BY <1>1, ContiguousIs DEF ContiguityInv
<1>6. NoLoop.chunk = <<>> /\ Loop("read").chunk = <<>> /\ NoLoop.at = "off" /\ NoLoop.end = "none"
      /\ Loop("read").at = "read"
  BY DEF NoLoop, Loop
\* A stream of which nothing is stored or held.
<1>7. ASSUME Unrun(i), s.buf = <<>>
      PROVE  Follows(d \o s.buf, s.next, i, file')
  <2>1. d = <<>>
    <3>1. loops[i] = NoLoop /\ loops[i].at = "off"
      BY <1>6, <1>7 DEF Unrun
    <3>. QED BY <1>1, <1>6, <3>1, LoopMoves
  <2>2. \A k \in DOMAIN file' : file'[k].id # i
    <3>1. CASE file' = file
      BY <1>7, <3>1 DEF Unrun
    <3>2. ASSUME NEW j \in Streams, loops[j].at = "act",
                 \A k \in 1..Len(file) : file'[k] = file[k],
                 \A k \in (Len(file) + 1)..Len(file') :
                   file'[k] = [id |-> j, pos |-> loops[j].chunk[k - Len(file)]]
          PROVE  \A k \in DOMAIN file' : file'[k].id # i
      <4>1. j # i
        BY <1>6, <1>7, <3>2 DEF Unrun
      <4>2. DOMAIN file = 1..Len(file) /\ DOMAIN file' = 1..Len(file')
        BY <1>3
      <4>3. ASSUME NEW k \in 1..Len(file')
            PROVE  file'[k].id # i
        <5>1. CASE k \in 1..Len(file)
          BY <1>7, <3>2, <4>2, <5>1 DEF Unrun
        <5>2. CASE k \in (Len(file) + 1)..Len(file')
          <6>1. file'[k] = [id |-> j, pos |-> loops[j].chunk[k - Len(file)]]
            BY <3>2, <5>2
          <6>. QED BY <4>1, <6>1
        <5>. QED BY <1>3, <5>1, <5>2
      <4>. QED BY <4>2, <4>3
    <3>. QED BY <1>1, <3>1, <3>2, FileStep
  <2>3. d \o s.buf = <<>> /\ d \o s.buf \in Seq(Positions0)
    BY <1>2, <1>7, <2>1, ConcatEmptySeq, EmptySeq, Zenon
  <2> HIDE DEF d, s
  <2>. QED BY <1>2, <2>2, <2>3, FollowsFresh
\* The file grows, if it does, by another stream's bytes.
<1>8. ASSUME ~LoopStores(i), NEW held, NEW next, Follows(held, next, i, file)
      PROVE  Follows(held, next, i, file')
  <2>1. CASE file' = file
    BY <1>8, <2>1
  <2>2. ASSUME NEW j \in Streams, LoopStores(j),
               Len(file') = Len(file) + Len(loops[j].chunk),
               \A k \in 1..Len(file) : file'[k] = file[k],
               \A k \in (Len(file) + 1)..Len(file') :
                 file'[k] = [id |-> j, pos |-> loops[j].chunk[k - Len(file)]]
        PROVE  Follows(held, next, i, file')
    <3>1. j # i /\ Len(file) <= Len(file')
      <4>1. Len(loops[j].chunk) \in Nat
        <5>1. loops[j].chunk \in Seq(Positions0)
          BY <1>1 DEF TypeOK
        <5>. QED BY <5>1
      <4>. QED BY <1>3, <1>8, <2>2, <4>1
    <3>2. ASSUME NEW k \in (Len(file) + 1)..Len(file')
          PROVE  file'[k].id # i
      <4>1. file'[k] = [id |-> j, pos |-> loops[j].chunk[k - Len(file)]]
        BY <2>2
      <4>. QED BY <3>1, <4>1
    <3> HIDE DEF FT
    <3>. QED BY <1>3, <1>8, <2>2, <3>1, <3>2, FollowsOther
  <2>. QED BY <1>1, <2>1, <2>2, FileStep
\* The loop stores its chunk.
<1>9. CASE LoopStores(i)
  <2>1. s = r
    <3>1. readers' = readers
      BY <1>9 DEF LoopStores
    <3>. QED BY <3>1
  <2>2. Follows(c \o r.buf, r.next, i, file)
    BY <1>5, <2>1
  <2>3. /\ d = <<>>
        /\ Len(file') = Len(file) + Len(c)
        /\ \A k \in 1..Len(file) : file'[k] = file[k]
        /\ \A k \in (Len(file) + 1)..Len(file') :
             file'[k] = [id |-> i, pos |-> c[k - Len(file)]]
    <3>1. file' # file \/ file' = file
      OBVIOUS
    <3>2. /\ DOMAIN c = 1..Len(c) /\ Len(c) \in Nat
          /\ file' = file \o [k \in DOMAIN c |-> [id |-> i, pos |-> c[k]]]
      BY <1>2, <1>9 DEF LoopStores
    <3> DEFINE more == [k \in 1..Len(c) |-> [id |-> i, pos |-> c[k]]]
    <3>3. \A k \in 1..Len(c) : [id |-> i, pos |-> c[k]] \in FT
      BY <1>2
    <3>4. more \in Seq(FT) /\ Len(more) = Len(c) /\ file' = file \o more
      BY <3>2, <3>3, IsASeq
    <3>5. \A k \in 1..Len(c) : more[k] = [id |-> i, pos |-> c[k]]
      OBVIOUS
    <3>6. d = <<>>
      <4>1. loops' = [loops EXCEPT ![i] = Loop("read")]
        BY <1>9 DEF LoopStores
      <4>. QED BY <1>1, <1>6, <4>1 DEF TypeOK
    <3> HIDE DEF more, FT, c, d
    <3>7. /\ Len(file \o more) = Len(file) + Len(more)
          /\ \A k \in 1..(Len(file) + Len(more)) :
               (file \o more)[k] = IF k <= Len(file) THEN file[k] ELSE more[k - Len(file)]
      BY <1>3, <3>4, ConcatProperties, ZenonT(40)
    <3>8. Len(file') = Len(file) + Len(c)
      BY <3>4, <3>7
    <3>9. ASSUME NEW k \in 1..Len(file)
          PROVE  file'[k] = file[k]
      <4>1. k \in 1..(Len(file) + Len(more)) /\ k <= Len(file)
        BY <1>3, <3>2, <3>4
      <4>. QED BY <3>4, <3>7, <4>1
    <3>10. ASSUME NEW k \in (Len(file) + 1)..Len(file')
           PROVE  file'[k] = [id |-> i, pos |-> c[k - Len(file)]]
      <4>1. k \in 1..(Len(file) + Len(more)) /\ ~(k <= Len(file)) /\ k - Len(file) \in 1..Len(c)
        BY <1>3, <3>2, <3>4, <3>8
      <4>2. file'[k] = more[k - Len(file)]
        BY <3>4, <3>7, <4>1
      <4>. QED BY <3>5, <4>1, <4>2
    <3>. QED BY <3>6, <3>8, <3>9, <3>10
  <2>4. d \o s.buf = s.buf
    BY <1>2, <2>3, ConcatEmptySeq, Zenon
  <2>5. Follows(r.buf, r.next, i, file')
    <3> HIDE DEF FT, c, d, r, s
    <3>. QED BY <1>2, <1>3, <2>2, <2>3, FollowsStored
  <2> HIDE DEF s, r, d
  <2>. QED BY <2>1, <2>4, <2>5
<1>10. CASE ~LoopStores(i)
  <2>1. CASE s = r
    <3>1. ~ServerRestarts \/ d = c \/ Unrun(i)
      <4>1. ServerRestarts => s.closed \/ i > stream
        BY <1>1 DEF ServerRestarts, Streams
      <4>2. i > stream => Unrun(i)
        BY <1>1, StreamsAssumption DEF LoopsInv, Streams
      <4>. QED BY <4>1, <4>2
    <3>2. CASE d = c
      <4>1. Follows(c \o r.buf, r.next, i, file)
        BY <1>5, <2>1
      <4>2. Follows(c \o r.buf, r.next, i, file')
        <5> HIDE DEF c, r
        <5>. QED BY <1>8, <1>10, <4>1
      <4> HIDE DEF s, r, d, c
      <4>. QED BY <2>1, <3>2, <4>2
    <3>3. CASE d # c
      <4>1. Unrun(i) => c = <<>>
        BY <1>6 DEF Unrun
      <4>2. CASE LoopReads(i)
        <5>1. s = Read(r) /\ c = <<>> /\ d = ReadChunk(r)
          <6>1. loops[i] = Loop("read")
            BY <1>1, <4>2 DEF LoopsInv, LoopReads
          <6>2. readers' = [readers EXCEPT ![i] = Read(readers[i])]
            BY <4>2 DEF LoopReads
          <6>. QED BY <1>1, <1>6, <4>2, <6>1, <6>2 DEF LoopReads, TypeOK
        <5>2. d \o s.buf = r.buf
          <6> HIDE DEF s, r, d
          <6>. QED BY <1>2, <5>1, ReadIs
        <5>3. c \o r.buf = r.buf
          BY <1>2, <5>1, ConcatEmptySeq, Zenon
        <5>4. Follows(r.buf, r.next, i, file)
          <6> HIDE DEF c
          <6>. QED BY <1>5, <2>1, <5>3
        <5>5. Follows(r.buf, r.next, i, file')
          <6> HIDE DEF r
          <6>. QED BY <1>8, <1>10, <5>4
        <5> HIDE DEF s, r, d
        <5>. QED BY <2>1, <5>2, <5>5
      <4>3. CASE ~LoopReads(i)
        <5>1. ~LoopSuperseded(i)
          <6>1. LoopSuperseded(i) => readers'[i] = Close(readers[i])
            BY <1>1 DEF LoopSuperseded, CloseReader, TypeOK
          <6>. QED BY <1>2, <6>1, CloseIs
        <5>2. loops'[i].chunk = loops[i].chunk \/ ServerRestarts \/ (RestartRunsLoop /\ i = stream)
          BY <1>1, <1>10, <4>3, <5>1, LoopMoves
        <5>3. RestartRunsLoop /\ i = stream => Unrun(i)
          BY <1>1 DEF RestartRunsLoop, LoopsInv
        <5>4. Unrun(i) => s.buf = <<>>
          <6>1. ServerRestarts => i > streamId
            <7>1. ServerRestarts => s.closed \/ i > stream
              BY <1>1 DEF ServerRestarts, Streams
            <7>. QED BY <1>1, <7>1 DEF Streams
          <6>2. i > streamId => r.buf = <<>>
            BY <1>1 DEF LoopsInv, Untouched
          <6>3. RestartRunsLoop /\ i = stream => d = c
            BY <1>1, <1>6, <5>3 DEF RestartRunsLoop, Unrun, TypeOK
          <6> HIDE DEF d, c
          <6>. QED BY <2>1, <3>3, <5>2, <6>1, <6>2, <6>3 DEF d, c
        <5>5. RestartRunsLoop /\ i = stream => d = c
          BY <1>1, <1>6, <5>3 DEF RestartRunsLoop, Unrun, TypeOK
        <5>. QED BY <1>7, <3>1, <3>3, <5>2, <5>4, <5>5
      <4>. QED BY <4>2, <4>3
    <3>. QED BY <3>2, <3>3
  <2>2. ASSUME NEW p \in data, p.id = i, DataArrives(p), Outcome(r, p, s, Others(p))
        PROVE  Follows(d \o s.buf, s.next, i, file')
    <3>1. loops' = loops /\ file' = file
      BY <2>2 DEF DataArrives
    <3>2. d = c
      BY <3>1
    <3>3. ~r.closed
      BY <2>2 DEF Outcome, Ignored, FailedBy, SetAside, Finished
    <3>4. CASE s.next = r.next /\ s.buf = r.buf
      <4> HIDE DEF s, r, d, c
      <4>. QED BY <1>5, <3>1, <3>2, <3>3, <3>4 DEF r, c
    <3>5. CASE Taken1(r, p, s, Others(p))
      <4>1. /\ Len(s.buf) = Len(r.buf) + (s.next - r.next)
            /\ \A k \in 1..Len(r.buf) : s.buf[k] = r.buf[k]
            /\ \A k \in (Len(r.buf) + 1)..Len(s.buf) : s.buf[k] = r.next - Len(r.buf) + k - 1
            /\ r.next <= End(p) /\ End(p) <= s.next
        BY <3>5 DEF Taken1, Unread
      <4>2. Len(r.buf) <= Len(s.buf)
        <5>1. End(p) \in Nat
          BY <1>1, SessionTypes
        <5>. QED BY <1>2, <4>1, <5>1
      <4>3. Follows(c \o r.buf, r.next, i, file)
        BY <1>5, <3>3
      <4> HIDE DEF s, r, c, d
      <4>4. Follows(c \o s.buf, s.next, i, file)
        BY <1>2, <3>2, <4>1, <4>2, <4>3, FollowsGrown
      <4>. QED BY <3>1, <3>2, <4>4
    <3>. QED BY <2>2, <3>4, <3>5 DEF Outcome, Ignored, FailedBy, SetAside
  <2>3. CASE LoopReads(i) /\ s = Read(r) /\ s # r
    <3>1. c = <<>> /\ d = ReadChunk(r) /\ file' = file
      <4>1. loops[i] = Loop("read")
        BY <1>1, <2>3 DEF LoopsInv, LoopReads
      <4>. QED BY <1>1, <1>6, <2>3, <4>1 DEF LoopReads, TypeOK
    <3>2. d \o s.buf = r.buf /\ s.next = r.next /\ s.closed = r.closed
      <4> HIDE DEF s, r, d
      <4>. QED BY <1>2, <2>3, <3>1, ReadIs
    <3>3. c \o r.buf = r.buf
      BY <1>2, <3>1, ConcatEmptySeq, Zenon
    <3> HIDE DEF s, r, c, d
    <3>. QED BY <1>5, <3>1, <3>2, <3>3 DEF s, r
  <2>4. CASE RestartCalls /\ i = stream + 1 /\ Untouched(s)
    <3>1. Unrun(i)
      <4>1. i > streamId
        BY <1>1, <2>4
      <4>. QED BY <1>1, <4>1 DEF LoopsInv
    <3>. QED BY <1>7, <2>4, <3>1 DEF Untouched
  <2>5. CASE RestartGoesOn /\ i = stream /\ s.buf = r.buf
    <3>1. restart.at = "prepared"
      BY <2>5 DEF RestartGoesOn
    <3>2. r.buf = <<>> /\ Unrun(i)
      BY <1>1, <2>5, <3>1 DEF CorkedInv, LoopsInv
    <3>. QED BY <1>7, <2>5, <3>2
  <2> HIDE DEF d, c
  <2>. QED BY <2>1, <2>2, <2>3, <2>4, <2>5, ReaderStep
<1>. QED BY <1>9, <1>10

-----------------------------------------------------------------------------
(* How far the readers are.                                                 *)

\* Streams and positions are numbers.
LEMMA Numbers ==
  ASSUME TypeOK
  PROVE  /\ stream \in Streams /\ streamId \in Streams /\ stream \in Nat /\ streamId \in Nat
         /\ MaxStreams \in Nat /\ prep.id \in Nat /\ (\A i \in Streams : i \in Nat /\ 1 <= i)
         /\ \A i \in Nat : 1 <= i /\ i <= stream => i \in Streams
<1>1. stream \in Streams /\ streamId \in Streams /\ prep.id \in Nat
  BY ManagerTypes, SessionTypes
<1>. QED BY <1>1, StreamsAssumption DEF Streams

\* A step takes the reader of a stream no further than what is written, and an
\* acknowledgement no further than that.
LEMMA StaysBelow ==
  ASSUME IInv, [Next]_vars, NEW i \in Streams, NEW bound \in Nat,
         readers[i].next <= bound, \A ack \in acks : ack.id = i => ack.seq <= bound,
         i <= streamId => total' <= bound,
         RestartCalls => i # stream + 1,
         RestartGoesOn /\ i = stream => restart.announced <= bound
  PROVE  /\ readers'[i].next <= bound
         /\ \A ack \in acks' : ack.id = i => ack.seq <= bound
<1>1. /\ TypeOK /\ TypeOK' /\ IdsInv /\ PacketsInv /\ total <= total'
      /\ total \in Nat /\ total' \in Nat
  <2>1. TypeOK /\ TypeOK' /\ IdsInv /\ PacketsInv /\ total <= total'
    BY TypesKept, AlwaysMonotone DEF IInv, Monotone
  <2>2. total \in 0..MaxBytes /\ total' \in 0..MaxBytes
    BY <2>1 DEF TypeOK, Remote!TypeOK
  <2>. QED BY <2>1, <2>2, ManagerAssumption
<1>2. i \in Nat /\ streamId \in Nat /\ readers[i].next \in Nat /\ readers'[i].next \in Nat
  <2>1. i \in Nat /\ streamId \in Nat /\ readers[i] \in Readers /\ readers'[i] \in Readers
    BY <1>1, Numbers, SessionTypes DEF TypeOK
  <2>. QED BY <2>1 DEF Readers
\* A packet of the stream ends below the bound.
<1>3. ASSUME NEW p, p \in data \/ p \in readers[i].ooo, p.id = i, p \in data \/ i <= streamId
      PROVE  End(p) <= bound /\ p.seq <= bound /\ i <= streamId
  <2>1. p \in Packets /\ PacketOk(p)
    BY <1>1, <1>3, SessionTypes DEF PacketsInv
  <2>2. p \in data => p.id <= streamId
    BY <1>1 DEF IdsInv
  <2>3. p.seq \in Nat /\ p.len \in Nat
    BY <1>1, <2>1, SessionTypes
  <2>. QED BY <1>1, <1>2, <1>3, <2>1, <2>2, <2>3 DEF PacketOk, End
<1>4. readers'[i].next <= bound
  <2>1. CASE \E p \in data : p.id = i /\ DataArrives(p) /\ Outcome(readers[i], p, readers'[i], Others(p))
    <3>1. PICK p \in data : p.id = i /\ Outcome(readers[i], p, readers'[i], Others(p))
      BY <2>1
    <3>2. i <= streamId /\ End(p) <= bound
      BY <1>3, <3>1
    <3>3. \/ readers'[i].next = readers[i].next \/ readers'[i].next = End(p)
          \/ \E q \in readers[i].ooo : readers'[i].next = End(q)
      BY <3>1 DEF Outcome, Ignored, FailedBy, SetAside, Taken1
    <3>4. \A q \in readers[i].ooo : q.id = i
      BY <1>1 DEF IdsInv
    <3>5. \A q \in readers[i].ooo : End(q) <= bound
      BY <1>3, <3>2, <3>4
    <3>. QED BY <3>2, <3>3, <3>5
  <2>2. CASE readers'[i].next = readers[i].next
    BY <2>2
  <2>3. LoopReads(i) /\ readers'[i] = Read(readers[i]) => readers'[i].next = readers[i].next
    BY <1>1, ReadIs, SessionTypes
  <2>4. \/ readers'[i].next = readers[i].next
        \/ \E p \in data : p.id = i /\ DataArrives(p) /\ Outcome(readers[i], p, readers'[i], Others(p))
        \/ readers'[i].next = 0
        \/ RestartGoesOn /\ i = stream /\ readers'[i].next = restart.announced
    <3>. HIDE DEF Leaves
    <3>. QED BY <2>3, ReaderStep
  <2>. QED BY <2>1, <2>2, <2>4
<1>5. ASSUME NEW ack, Answer(ack), ack.id = i
      PROVE  ack.seq <= bound
  <2>1. CASE ack.seq = readers'[i].next
    BY <1>4, <2>1
  <2>2. CASE \E p \in data : p.id = i /\ ack.seq = p.seq
    BY <1>3, <2>2
  <2>. QED BY <1>5, <2>1, <2>2 DEF Answer
<1>. QED BY <1>4, <1>5, AcksStep

LEMMA BoundsKept ==
  ASSUME IInv, [Next]_vars
  PROVE  BoundsInv'
<1>1. /\ TypeOK /\ TypeOK' /\ IdsInv /\ BoundsInv /\ HeadInv /\ CorkedInv /\ RestartInv /\ IdsInv'
      /\ stream \in Streams /\ streamId \in Streams /\ stream \in Nat /\ streamId \in Nat
      /\ prep.id \in Nat /\ total <= total' /\ streamId <= stream
  <2>1. /\ TypeOK /\ TypeOK' /\ IdsInv /\ BoundsInv /\ HeadInv /\ CorkedInv /\ RestartInv /\ IdsInv'
        /\ total <= total'
    BY TypesKept, IdsKept, AlwaysMonotone DEF IInv, Monotone
  <2>. QED BY <2>1, Numbers DEF IdsInv
<1>2. /\ total \in Nat /\ total' \in Nat /\ HeadPos \in Nat /\ HeadPos <= total
      /\ prep.seq \in Nat /\ request.seq \in Nat /\ restart.announced \in Nat
  <2>1. total' \in 0..MaxBytes
    BY <1>1 DEF TypeOK, Remote!TypeOK
  <2>. QED BY <1>1, <2>1, ManagerTypes, SessionTypes
<1>3. PrepareConnects => UNCHANGED <<total, readers, acks, stream, request>> /\ prep.at = "connect"
                         /\ streamId' = prep.id /\ prep'.at = "idle"
  BY <1>1, ConnectEffect, PrepEffect DEF PrepareConnects
<1>4. RestartGoesOn => restart.announced <= total /\ streamId = stream /\ prep.at = "idle"
                       /\ request'.kind # "prepare"
  <2>1. RestartGoesOn => restart.at = "prepared" /\ restart.result = "ok"
    BY <1>1, RestartEffect
  <2>2. RestartGoesOn => restart.announced <= HeadPos /\ streamId = stream /\ prep.at = "idle"
    BY <1>1, <2>1 DEF HeadInv, CorkedInv, Connecting, RestartInv
  <2>. QED BY <1>2, <2>2, RequestEffect
<1>5. /\ readers'[streamId'].next <= total'
      /\ \A ack \in acks' : ack.id = streamId' => ack.seq <= total'
  <2>1. CASE PrepareConnects
    <3>1. prep.seq <= HeadPos /\ readers[prep.id].next <= prep.seq
          /\ \A ack \in acks : ack.id = prep.id => ack.seq <= prep.seq
      BY <1>1, <1>3, <2>1 DEF HeadInv, BoundsInv
    <3>2. prep.id \in Streams
      <4>1. 1 <= prep.id /\ prep.id <= stream
        BY <1>1, <1>3, <2>1 DEF IdsInv
      <4>. QED BY <1>1, <4>1, Numbers
    <3>3. readers[prep.id].next \in Nat /\ \A ack \in acks : ack.seq \in Nat
      BY <1>1, <3>2, SessionTypes
    <3>. QED BY <1>2, <1>3, <2>1, <3>1, <3>3
  <2>2. CASE ~PrepareConnects
    <3>1. streamId' = streamId
      BY <2>2, StreamIdStep
    <3>2. /\ readers[streamId].next <= total
          /\ \A ack \in acks : ack.id = streamId => ack.seq <= total
      BY <1>1 DEF BoundsInv
    <3>3. readers[streamId].next \in Nat /\ \A ack \in acks : ack.seq \in Nat
      BY <1>1, SessionTypes
    <3>4. /\ readers[streamId].next <= total'
          /\ \A ack \in acks : ack.id = streamId => ack.seq <= total'
      BY <1>1, <1>2, <3>2, <3>3
    <3>5. streamId # stream + 1 /\ (RestartGoesOn => restart.announced <= total')
      BY <1>1, <1>2, <1>4
    <3>6. total' <= total'
      BY <1>2
    <3>. QED BY <1>1, <1>2, <3>1, <3>4, <3>5, <3>6, StaysBelow
  <2>. QED BY <2>1, <2>2
<1>6. ASSUME request'.kind = "prepare"
      PROVE  /\ readers'[stream'].next <= request'.seq
             /\ \A ack \in acks' : ack.id = stream' => ack.seq <= request'.seq
  <2>1. CASE RestartCalls
    <3>1. stream' = stream + 1 /\ acks' = acks /\ request'.seq = restart.seq
          /\ readers' = [readers EXCEPT ![stream + 1] = NewReader(restart.seq)]
      BY <1>6, <2>1, RequestEffect DEF RestartCalls, linkVars
    <3>2. stream + 1 \in Streams
      BY <1>1, <3>1 DEF TypeOK
    <3>3. readers'[stream + 1].next = restart.seq /\ restart.seq \in Nat
      <4>1. readers'[stream + 1] = NewReader(restart.seq) /\ restart.seq \in Nat
        BY <1>1, <3>1, <3>2, SessionTypes DEF TypeOK
      <4>. QED BY <4>1, NewReaderIs
    <3>4. \A ack \in acks : ack.id # stream + 1
      <4>1. \A ack \in acks : ack.id <= stream /\ ack.id \in Nat
        BY <1>1, SessionTypes, Numbers DEF IdsInv
      <4>2. stream \in Nat
        BY <1>1, Numbers
      <4>. QED BY ONLY <4>1, <4>2
    <3>. QED BY <3>1, <3>3, <3>4
  <2>2. CASE ~RestartCalls
    <3>1. request' = request /\ stream' = stream
      BY <1>6, <2>2, Frames, RequestEffect
    <3>2. /\ streamId < stream /\ readers[stream].next <= request.seq
          /\ \A ack \in acks : ack.id = stream => ack.seq <= request.seq
      BY <1>1, <1>6, <3>1 DEF BoundsInv, IdsInv
    <3>3. ~RestartGoesOn /\ ~(stream <= streamId)
      BY <1>1, <1>4, <1>6, <3>2
    <3>. QED BY <1>1, <1>2, <2>2, <3>1, <3>2, <3>3, StaysBelow
  <2>. QED BY <2>1, <2>2
<1>7. ASSUME prep'.at # "idle"
      PROVE  /\ readers'[prep'.id].next <= prep'.seq
             /\ \A ack \in acks' : ack.id = prep'.id => ack.seq <= prep'.seq
  <2>1. CASE PrepareDisconnects
    <3>1. readers' = readers /\ acks' = acks
      BY <2>1 DEF PrepareDisconnects, linkVars, localVars
    <3>2. prep'.id = stream /\ prep'.seq = request.seq /\ request.kind = "prepare"
      BY <1>1, <2>1, PrepEffect
    <3>. QED BY <1>1, <3>1, <3>2 DEF BoundsInv
  <2>2. CASE ~PrepareDisconnects
    <3>1. prep.at # "idle" /\ prep'.id = prep.id /\ prep'.seq = prep.seq
      BY <1>1, <1>3, <1>7, <2>2, Frames, PrepEffect, ConsumeEffect
    <3>2. /\ readers[prep.id].next <= prep.seq /\ streamId < prep.id /\ prep.id <= stream
          /\ \A ack \in acks : ack.id = prep.id => ack.seq <= prep.seq
      BY <1>1, <3>1 DEF BoundsInv, IdsInv
    <3>3. prep.id \in Streams /\ prep.id # stream + 1 /\ ~(prep.id <= streamId) /\ ~RestartGoesOn
      <4>1. 1 <= prep.id
        BY <1>1, <3>2
      <4>. QED BY <1>1, <1>4, <3>1, <3>2, <4>1, Numbers
    <3>. QED BY <1>2, <3>1, <3>2, <3>3, StaysBelow
  <2>. QED BY <2>1, <2>2
<1>. QED BY <1>5, <1>6, <1>7 DEF BoundsInv

-----------------------------------------------------------------------------
(* Where the ring starts.                                                   *)

\* The ring only moves on: by what a client acknowledges, by what a client that
\* connects has, and by what is overwritten.
LEMMA HeadStep ==
  ASSUME IInv, [Next]_vars
  PROVE  /\ HeadPos' \in Nat /\ HeadPos <= HeadPos'
         /\ ~connected /\ ~PrepareConsumes /\ count' < RingSize => HeadPos' = HeadPos
         /\ connected => HeadPos' = HeadPos \/ \E ack \in acks : AckArrives(ack)
         /\ connected /\ sentNotAcked = 0 => HeadPos' = HeadPos
<1>1. TypeOK /\ IdsInv
  BY DEF IInv
<1>2. HeadPos \in Nat /\ sentNotAcked \in Nat /\ connected \in BOOLEAN
  BY <1>1, ManagerTypes
<1>3. CASE UNCHANGED managerVars \/ PrepareDisconnects \/ PrepareConnects \/ StartsStream
  <2>1. UNCHANGED managerVars => HeadPos' = HeadPos
    BY DEF managerVars, ringVars, HeadPos
  <2>2. HeadPos' = HeadPos
    BY <1>3, <2>1, DisconnectEffect, ConnectEffect, StartEffect
  <2>. QED BY <1>2, <2>2
<1>4. CASE Goroutine
  BY <1>2, <1>4, GoroutineEffect
<1>5. ASSUME NEW ack \in acks, AckArrives(ack)
      PROVE  /\ HeadPos' \in Nat /\ HeadPos <= HeadPos' /\ (~connected => HeadPos' = HeadPos)
             /\ sentNotAcked = 0 => HeadPos' = HeadPos
  <2>1. ~connected => HeadPos' = HeadPos
    <3>1. ~connected => UNCHANGED managerVars
      BY <1>5, AckEffect
    <3>. QED BY <3>1 DEF managerVars, ringVars, HeadPos
  <2>2. HeadPos' \in Nat /\ sentNotAcked' \in Nat /\ HeadPos <= HeadPos'
        /\ HeadPos' + sentNotAcked' = HeadPos + sentNotAcked
    <3>1. HeadPos' = HeadPos \/ HeadPos <= HeadPos'
      BY <1>5, AckEffect
    <3>. QED BY <1>2, <1>5, <3>1, AckEffect
  <2>3. sentNotAcked = 0 => HeadPos' = HeadPos
    <3>1. \A a, b, c, d \in Nat : a <= c /\ c + d = a + b /\ b = 0 => c = a
      OBVIOUS
    <3>. QED BY ONLY <1>2, <2>2, <3>1
  <2>. QED BY <2>1, <2>2, <2>3
<1>6. CASE PrepareConsumes
  BY <1>2, <1>6, ConsumeEffect
<1>7. \/ UNCHANGED managerVars \/ PrepareDisconnects \/ PrepareConnects \/ StartsStream
      \/ Goroutine \/ PrepareConsumes \/ \E ack \in acks : AckArrives(ack)
  BY Frames DEF Goroutine
<1>. QED BY <1>2, <1>3, <1>4, <1>5, <1>6, <1>7

LEMMA HeadKept ==
  ASSUME IInv, [Next]_vars
  PROVE  HeadInv'
<1>1. /\ TypeOK /\ TypeOK' /\ IdsInv /\ HeadInv /\ CorkedInv /\ RestartInv
      /\ total <= total' /\ connected \in BOOLEAN
  <2>1. TypeOK /\ TypeOK' /\ IdsInv /\ HeadInv /\ CorkedInv /\ RestartInv /\ total <= total'
    BY TypesKept, AlwaysMonotone DEF IInv, Monotone
  <2>. QED BY <2>1, ManagerTypes
<1>2. /\ total \in Nat /\ total' \in Nat /\ HeadPos \in Nat /\ RingSize \in Nat
      /\ prep.seq \in Nat /\ prep.head \in Nat /\ restart.announced \in Nat /\ restart.seq \in Nat
      /\ count \in Nat /\ HeadPos' \in Nat /\ HeadPos <= HeadPos'
      /\ HeadPos' = HeadPos /\ count' < RingSize => count < RingSize
  <2>1. total' \in 0..MaxBytes /\ count' \in 0..RingSize
    BY <1>1 DEF TypeOK, Remote!TypeOK
  <2>2. total' \in Nat /\ count' \in Nat /\ total \in Nat /\ count \in Nat /\ RingSize \in Nat
    BY <1>1, <2>1, ManagerTypes
  <2>3. HeadPos = total - count /\ HeadPos' = total' - count'
    BY DEF HeadPos
  <2>4. HeadPos' = HeadPos /\ count' < RingSize => count < RingSize
    <3>1. \A t, u, c, d, r \in Nat : t <= u /\ u - d = t - c /\ d < r => c < r
      OBVIOUS
    <3>. QED BY ONLY <1>1, <2>2, <2>3, <3>1
  <2>. QED BY <1>1, <2>2, <2>4, ManagerTypes, SessionTypes, HeadStep
<1>3. ASSUME ~connected'
      PROVE  windowSize' = RingSize
  <2>1. CASE PrepareDisconnects
    BY <2>1, DisconnectEffect
  <2>2. CASE ~PrepareDisconnects
    <3>1. ~connected /\ windowSize = RingSize
      BY <1>1, <1>3, <2>2, StreamIdStep DEF HeadInv
    <3>2. ~PrepareConnects /\ ~StartsStream
      BY <1>3, <3>1, ConnectEffect, StartEffect
    <3>3. UNCHANGED managerVars \/ Goroutine \/ PrepareConsumes
      BY <2>2, <3>1, <3>2, Frames, AckEffect DEF Goroutine
    <3>4. UNCHANGED managerVars => windowSize' = windowSize
      BY DEF managerVars, ringVars
    <3>. QED BY <3>1, <3>3, <3>4, GoroutineEffect, ConsumeEffect
  <2>. QED BY <2>1, <2>2
<1>4. ASSUME prep'.at = "consume"
      PROVE  prep'.head <= HeadPos' /\ (count' < RingSize => prep'.head = HeadPos')
  <2>1. CASE PrepareReadsHead
    <3>1. HeadPos' = HeadPos
      BY <2>1 DEF PrepareReadsHead, managerVars, ringVars, HeadPos
    <3>. QED BY <1>1, <1>2, <2>1, <3>1, PrepEffect
  <2>2. CASE ~PrepareReadsHead
    <3>1. ~PrepareConsumes /\ prep.at = "consume" /\ prep'.head = prep.head
      BY <1>1, <1>4, <2>2, Frames, PrepEffect, ConsumeEffect, ConnectEffect
    <3>2. ~connected /\ prep.head <= HeadPos /\ (count < RingSize => prep.head = HeadPos)
      BY <1>1, <3>1 DEF HeadInv, IdsInv
    <3>. QED BY <1>2, <1>1, <3>1, <3>2, HeadStep
  <2>. QED BY <2>1, <2>2
<1>5. ASSUME prep'.at = "connect"
      PROVE  /\ prep'.head <= HeadPos' /\ prep'.seq <= HeadPos'
             /\ count' < RingSize => prep'.head = HeadPos'
  <2>1. CASE PrepareConsumes
    <3>1. /\ prep.head <= HeadPos /\ (count < RingSize => prep.head = HeadPos)
      BY <1>1, <2>1, ConsumeEffect DEF HeadInv
    <3>2. /\ prep'.seq = prep.seq
          /\ \/ prep.seq <= prep.head /\ HeadPos' = HeadPos /\ prep'.head = prep.head
             \/ /\ prep.seq > prep.head
                /\ HeadPos' = HeadPos + (prep.seq - prep.head)
                /\ prep'.head = HeadPos'
      BY <1>1, <1>5, <2>1, ConsumeEffect, PrepEffect
    <3>. QED BY <1>2, <3>1, <3>2
  <2>2. CASE ~PrepareConsumes
    <3>1. prep.at = "connect" /\ prep'.head = prep.head /\ prep'.seq = prep.seq
      BY <1>1, <1>5, <2>2, Frames, PrepEffect, ConnectEffect
    <3>2. ~connected /\ prep.head <= HeadPos /\ prep.seq <= HeadPos
          /\ (count < RingSize => prep.head = HeadPos)
      BY <1>1, <3>1 DEF HeadInv, IdsInv
    <3>. QED BY <1>2, <1>1, <2>2, <3>1, <3>2, HeadStep
  <2>. QED BY <2>1, <2>2
<1>6. ASSUME restart'.at \in {"prepared", "start"}, restart'.result = "ok"
      PROVE  /\ restart'.at = "prepared" => restart'.seq <= restart'.announced
             /\ restart'.announced <= HeadPos'
             /\ count' < RingSize => restart'.announced = HeadPos'
  <2> DEFINE head == IF prep.seq > prep.head THEN prep.seq ELSE prep.head
  <2>1. CASE restart.at \in {"prepared", "start"} /\ restart.result = "ok"
             /\ restart'.announced = restart.announced /\ restart'.seq = restart.seq
             /\ (restart' = restart \/ restart'.at = "start")
    <3>1. connected /\ sentNotAcked = 0
      BY <1>1, <2>1 DEF CorkedInv, Connecting
    <3>2. HeadPos' = HeadPos
      BY <3>1, HeadStep
    <3>. QED BY <1>1, <1>2, <2>1, <3>2 DEF HeadInv
  <2>2. CASE PrepareConnects /\ restart' # restart
    <3>1. prep.at = "connect" /\ HeadPos' = HeadPos /\ total' = total
      BY <2>2, ConnectEffect
    <3>2. Replies("prepare", prep.id, "ok", head)
      BY <2>2 DEF PrepareConnects
    <3>3. restart.at = "prepare" /\ ~prep.lost /\ restart'.seq = restart.seq
          /\ restart'.announced = head
      <4> HIDE DEF head
      <4>. QED BY <1>1, <2>2, <3>2, ReplyEffect
    <3>4. prep.seq = restart.seq
      BY <1>1, <3>1, <3>3 DEF RestartInv
    <3>5. prep.head <= HeadPos /\ prep.seq <= HeadPos /\ (count < RingSize => prep.head = HeadPos)
      BY <1>1, <3>1 DEF HeadInv
    <3>. QED BY <1>2, <3>1, <3>3, <3>4, <3>5
  <2>3. CASE restart' # restart /\ ~PrepareConnects
    <3>1. ~PrepareFindsDone
      <4>1. PrepareFindsDone => Replies("prepare", stream, terminalEvent, request.seq) /\ terminalEvent # "ok"
        BY <1>1 DEF PrepareFindsDone, TypeOK, Remote!TypeOK
      <4>. QED BY <1>1, <1>6, <2>3, <4>1, ReplyEffect
    <3>2. ~PrepareConsumes
      <4>1. PrepareConsumes => restart' = restart \/ Replies("prepare", prep.id, "refused", 0)
        BY ConsumeEffect
      <4>. QED BY <1>1, <1>6, <2>3, <4>1, ReplyEffect
    <3>3. ~StartsStream
      <4>1. StartsStream => Replies("start", pending, "ok", 0)
        BY DEF StartsStream
      <4>. QED BY <1>1, <1>6, <2>3, <4>1, ReplyEffect
    <3>4. RestartGoesOn
      BY <1>1, <1>6, <2>3, <3>1, <3>2, <3>3, Frames, RestartEffect
    <3>. QED BY <1>1, <2>1, <3>4, RestartEffect
  <2>. QED BY <1>6, <2>1, <2>2, <2>3
<1>7. ASSUME restart'.at = "start"
      PROVE  restart'.result = "ok"
  <2>1. restart' = restart \/ RestartGoesOn
    <3>1. PrepareFindsDone => Replies("prepare", stream, terminalEvent, request.seq)
      BY DEF PrepareFindsDone
    <3>2. PrepareConsumes => restart' = restart \/ Replies("prepare", prep.id, "refused", 0)
      BY ConsumeEffect
    <3>3. StartsStream => Replies("start", pending, "ok", 0)
      BY DEF StartsStream
    <3>4. PrepareConnects => \E head : Replies("prepare", prep.id, "ok", head)
      BY DEF PrepareConnects
    <3>5. ~(PrepareFindsDone \/ PrepareConsumes \/ StartsStream \/ PrepareConnects) \/ restart' = restart
      BY <1>1, <1>7, <3>1, <3>2, <3>3, <3>4, ReplyEffect
    <3>. QED BY <1>1, <1>7, <3>5, Frames, RestartEffect
  <2>. QED BY <1>1, <1>7, <2>1, RestartEffect DEF HeadInv
<1>. QED BY <1>3, <1>4, <1>5, <1>6, <1>7 DEF HeadInv

\* A reader does not go back.
LEMMA NextGrows ==
  ASSUME IInv, [Next]_vars, NEW i \in Streams, i <= stream, ~ServerRestarts
  PROVE  readers[i].next <= readers'[i].next
<1>1. TypeOK /\ TypeOK' /\ IdsInv /\ CorkedInv
  BY TypesKept DEF IInv
<1>2. i \in Nat /\ stream \in Nat /\ readers[i].next \in Nat /\ readers'[i].next \in Nat
      /\ restart.announced \in Nat /\ restart.seq \in Nat
  <2>1. i \in Nat /\ stream \in Nat /\ readers[i] \in Readers /\ readers'[i] \in Readers
        /\ restart.announced \in Nat /\ restart.seq \in Nat
    BY <1>1, Numbers, SessionTypes DEF TypeOK
  <2>. QED BY <2>1 DEF Readers
<1>3. ASSUME NEW p \in data, Outcome(readers[i], p, readers'[i], Others(p))
      PROVE  readers[i].next <= readers'[i].next
  <2>1. End(p) \in Nat
    BY <1>1, SessionTypes
  <2>2. \/ readers'[i].next = readers[i].next
        \/ readers[i].next <= End(p) /\ End(p) <= readers'[i].next
    BY <1>3 DEF Outcome, Ignored, FailedBy, SetAside, Taken1
  <2>. QED BY <1>2, <2>1, <2>2
<1>4. LoopReads(i) /\ readers'[i] = Read(readers[i]) => readers'[i].next = readers[i].next
  BY <1>1, ReadIs, SessionTypes
<1>5. RestartGoesOn /\ i = stream => readers[i].next = restart.seq
  <2>1. RestartGoesOn => restart.at = "prepared"
    BY <1>1, RestartEffect
  <2>. QED BY <1>1, <2>1 DEF CorkedInv
<1>6. \/ readers'[i].next = readers[i].next
      \/ \E p \in data : Outcome(readers[i], p, readers'[i], Others(p))
      \/ RestartGoesOn /\ i = stream /\ restart.announced > restart.seq
         /\ readers'[i].next = restart.announced
  <2>1. i # stream + 1
    BY <1>2
  <2>. HIDE DEF Leaves
  <2>. QED BY <1>4, <2>1, ReaderStep
<1>. QED BY <1>2, <1>3, <1>5, <1>6

LEMMA DroppedKept ==
  ASSUME IInv, [Next]_vars
  PROVE  DroppedInv'
<1> SUFFICES ASSUME total' <= RingSize, connected',
                    loops'[streamId'].at # "off" \/ (streamId' = stream' /\ restart'.at = "started")
             PROVE  HeadPos' <= readers'[streamId'].next
  BY DEF DroppedInv
<1>1. /\ TypeOK /\ TypeOK' /\ IdsInv /\ HeadInv /\ CorkedInv /\ RestartInv /\ LoopsInv /\ AcksInv
      /\ PacketsInv /\ DroppedInv /\ total <= total' /\ connected \in BOOLEAN
      /\ streamId \in Streams /\ streamId \in Nat /\ stream \in Nat /\ prep.id \in Nat
      /\ streamId <= stream
  <2>1. /\ TypeOK /\ TypeOK' /\ IdsInv /\ HeadInv /\ CorkedInv /\ RestartInv /\ LoopsInv /\ AcksInv
        /\ PacketsInv /\ DroppedInv /\ total <= total'
    BY TypesKept, AlwaysMonotone DEF IInv, Monotone
  <2>. QED BY <2>1, ManagerTypes, Numbers DEF IdsInv
<1>2. /\ total \in Nat /\ total' \in Nat /\ RingSize \in Nat /\ HeadPos \in Nat /\ HeadPos' \in Nat
      /\ readers[streamId].next \in Nat /\ readers'[streamId].next \in Nat
      /\ total <= RingSize /\ count \in Nat
  <2>1. total' \in 0..MaxBytes
    BY <1>1 DEF TypeOK, Remote!TypeOK
  <2>2. readers'[streamId] \in Readers
    BY <1>1 DEF TypeOK
  <2>3. readers'[streamId].next \in Nat
    BY <2>2 DEF Readers
  <2>4. total' \in Nat /\ total <= RingSize
    <3>1. \A a, b, c, d \in Nat : a <= b /\ b <= c => a <= c
      OBVIOUS
    <3>. QED BY <1>1, <2>1, <3>1, ManagerTypes
  <2>. QED BY <1>1, <2>3, <2>4, ManagerTypes, SessionTypes, HeadStep
<1>3. NoLoop.at = "off" /\ NoRestart.at = "idle"
  BY DEF NoLoop, NoRestart
<1>4. ~ServerRestarts
  <2>1. ServerRestarts => loops' = [i \in Streams |-> NoLoop] /\ restart' = NoRestart
                          /\ streamId' = streamId
    BY DEF ServerRestarts, managerVars, sessionVars
  <2>. QED BY <1>1, <1>3, <2>1
<1>5. ~PrepareConnects
  <2>1. ASSUME PrepareConnects
        PROVE  FALSE
    <3>1. streamId' = prep.id /\ prep.at = "connect" /\ loops' = loops /\ stream' = stream
      BY <2>1, ConnectEffect DEF PrepareConnects
    <3>2. streamId < prep.id /\ prep.id <= stream
      BY <1>1, <3>1 DEF IdsInv
    <3>3. prep.id \in Streams
      BY <1>1, <3>1 DEF TypeOK, Remote!TypeOK
    <3>4. loops'[prep.id].at = "off"
      BY <1>1, <1>3, <3>1, <3>2, <3>3 DEF LoopsInv, Unrun
    <3>5. restart' = restart \/ restart'.at = "prepared"
      BY <1>1, <2>1, ReplyEffect DEF PrepareConnects
    <3>6. restart.at # "started"
      BY <1>1, <3>1 DEF RestartInv
    <3>. QED BY <3>1, <3>4, <3>5, <3>6
  <2>. QED BY <2>1
<1>6. streamId' = streamId /\ connected
  BY <1>1, <1>5, StreamIdStep
<1>7. readers[streamId].next <= readers'[streamId].next
  BY <1>1, <1>4, NextGrows
\* The stream is started: it goes on where the ring starts.
<1>8. CASE StartsStream /\ restart' # restart
  <2>1. restart.at = "start" /\ HeadPos' = HeadPos
    BY <1>1, <1>8, ReplyEffect, StartEffect DEF StartsStream
  <2>2. restart.announced = HeadPos /\ readers[stream].next = restart.announced /\ streamId = stream
    <3>1. /\ restart.announced <= HeadPos /\ (count < RingSize => restart.announced = HeadPos)
          /\ readers[stream].next = restart.announced /\ streamId = stream
      BY <1>1, <2>1 DEF HeadInv, CorkedInv, Connecting
    <3>2. total \in Nat /\ count \in Nat /\ HeadPos = total - count /\ restart.announced \in Nat
      BY <1>1, ManagerTypes, SessionTypes
    <3>. QED BY <1>2, <3>1, <3>2
  <2>. QED BY <1>2, <1>6, <1>7, <2>1, <2>2
\* Otherwise it ran before.
<1>9. CASE ~(StartsStream /\ restart' # restart)
  <2>1. loops[streamId].at # "off" \/ (streamId = stream /\ restart.at = "started")
    <3>1. CASE restart'.at = "started" /\ streamId = stream'
      <4>1. PrepareFindsDone => restart' = restart \/ restart'.at = "prepared"
        BY <1>1, ReplyEffect DEF PrepareFindsDone
      <4>2. PrepareConsumes => restart' = restart \/ restart'.at = "prepared"
        BY <1>1, ReplyEffect, ConsumeEffect
      <4>3. restart' = restart
        BY <1>1, <1>5, <1>9, <3>1, <4>1, <4>2, Frames, RestartEffect
      <4>4. ~RestartCalls
        BY <1>1, <3>1, RestartEffect
      <4>. QED BY <3>1, <4>3, <4>4, Frames
    <3>2. CASE loops'[streamId].at # "off"
      BY <1>1, <1>3, <1>4, <3>2, LoopMoves
    <3>. QED BY <1>6, <3>1, <3>2
  <2>2. HeadPos <= readers[streamId].next
    BY <1>1, <1>2, <1>6, <2>1 DEF DroppedInv
  <2>3. CASE HeadPos' = HeadPos
    BY <1>2, <1>6, <1>7, <2>2, <2>3
  <2>4. ASSUME NEW ack \in acks, AckArrives(ack), HeadPos' # HeadPos
        PROVE  HeadPos' <= readers[streamId].next
    <3>1. ack.id = streamId /\ HeadPos' = ack.seq /\ count' <= count /\ HeadPos <= HeadPos'
          /\ total' = total
      BY <2>4, AckEffect
    <3>2. ~readers[streamId].closed
      BY <1>1, <2>1 DEF LoopsInv
    <3>3. ~readers[streamId].eof /\ ~readers[streamId].failed
      <4>1. count = 0 => HeadPos' <= HeadPos
        <5>1. count' \in Nat
          BY <1>1 DEF TypeOK, Remote!TypeOK
        <5>. QED BY <1>2, <3>1, <5>1 DEF HeadPos
      <4>. QED BY <1>1, <1>2, <1>6, <2>4, <3>1, <4>1 DEF PacketsInv
    <3>. QED BY <1>1, <3>1, <3>2, <3>3 DEF AcksInv, Finished
  <2>. QED BY <1>2, <1>6, <1>7, <2>2, <2>3, <2>4, HeadStep
<1>. QED BY <1>8, <1>9

-----------------------------------------------------------------------------
(* Flow control.                                                            *)

\* The next byte to be read is not one that was read before.
LEMMA UnreadGrows ==
  ASSUME IInv, [Next]_vars, NEW i \in Streams, i <= stream, ~ServerRestarts
  PROVE  Unread(readers[i]) <= Unread(readers'[i])
<1>1. TypeOK /\ TypeOK' /\ IdsInv /\ CorkedInv
  BY TypesKept DEF IInv
<1>2. /\ i \in Nat /\ stream \in Nat /\ readers[i].next \in Nat /\ readers'[i].next \in Nat
      /\ Len(readers[i].buf) \in Nat /\ Len(readers'[i].buf) \in Nat
  <2>1. readers[i] \in Readers /\ readers'[i] \in Readers
    BY <1>1 DEF TypeOK
  <2>2. readers[i].buf \in Seq(Positions0) /\ readers'[i].buf \in Seq(Positions0)
    BY <2>1 DEF Readers
  <2>. QED BY <1>1, <2>1, <2>2, Numbers DEF Readers
<1>3. readers[i].next <= readers'[i].next
  BY NextGrows
<1>4. ASSUME NEW p \in data, Outcome(readers[i], p, readers'[i], Others(p))
      PROVE  Unread(readers[i]) <= Unread(readers'[i])
  <2>1. \/ readers'[i].next = readers[i].next /\ readers'[i].buf = readers[i].buf
        \/ Len(readers'[i].buf) = Len(readers[i].buf) + (readers'[i].next - readers[i].next)
    BY <1>4 DEF Outcome, Ignored, FailedBy, SetAside, Taken1
  <2>2. \/ readers'[i].next = readers[i].next /\ Len(readers'[i].buf) = Len(readers[i].buf)
        \/ Len(readers'[i].buf) = Len(readers[i].buf) + (readers'[i].next - readers[i].next)
    BY <2>1
  <2>3. \A a, b, c, d \in Nat : (a = b /\ c = d) \/ c = d + (a - b) => b - d <= a - c
    OBVIOUS
  <2>4. readers[i].next - Len(readers[i].buf) <= readers'[i].next - Len(readers'[i].buf)
    BY ONLY <1>2, <2>2, <2>3
  <2>. QED BY <2>4 DEF Unread
<1>5. LoopReads(i) /\ readers'[i] = Read(readers[i]) =>
        readers'[i].next = readers[i].next /\ Len(readers'[i].buf) <= Len(readers[i].buf)
  BY <1>1, ReadIs, SessionTypes
<1>6. \/ \E p \in data : Outcome(readers[i], p, readers'[i], Others(p))
      \/ Len(readers'[i].buf) <= Len(readers[i].buf)
  <2>1. i # stream + 1
    BY <1>2
  <2>2. Len(readers[i].buf) <= Len(readers[i].buf)
    BY <1>2
  <2>. HIDE DEF Leaves
  <2>. QED BY <1>5, <2>1, <2>2, ReaderStep
<1>7. \A a, b, c, d \in Nat : b <= a /\ c <= d => b - d <= a - c
  OBVIOUS
<1>8. ASSUME Len(readers'[i].buf) <= Len(readers[i].buf)
      PROVE  readers[i].next - Len(readers[i].buf) <= readers'[i].next - Len(readers'[i].buf)
  BY ONLY <1>2, <1>3, <1>7, <1>8
<1>. QED BY <1>4, <1>6, <1>8 DEF Unread

\* Nothing has been sent to a stream that was never connected.
LEMMA ComingFresh ==
  ASSUME IInv, [Next]_vars, NEW i \in Streams, i > streamId
  PROVE  Coming(i)' = {} /\ Untouched(readers'[i])
<1>1. TypeOK /\ IdsInv /\ i \in Nat /\ streamId \in Nat
  <2>1. TypeOK /\ IdsInv
    BY DEF IInv
  <2>. QED BY <2>1, Numbers
<1>2. Untouched(readers'[i])
  BY UntouchedStays
<1>3. \A p \in data : p.id # i
  <2>1. \A p \in data : p.id <= streamId /\ p.id \in Nat
    BY <1>1, SessionTypes, Numbers DEF IdsInv
  <2>. QED BY ONLY <1>1, <2>1, i > streamId
<1>4. \A p : Sends(p) => p.id = streamId
  BY <1>1, SentPackets DEF Sends, SendData, SendTerminal
<1>5. \A p \in data' : p.id # i
  BY <1>1, <1>3, <1>4, DataStep
<1>. QED BY <1>2, <1>5 DEF Coming, Untouched

\* What a reader may still take came to it before, or the sender sends it now.
LEMMA ComingStep ==
  ASSUME IInv, [Next]_vars, NEW i \in Streams
  PROVE  \/ Coming(i)' \subseteq Coming(i)
         \/ /\ SendData /\ i = streamId /\ ~Finished(readers[i]) /\ readers' = readers
            /\ Coming(i)' \subseteq Coming(i) \cup {DataPacket}
            /\ data' = data \cup {DataPacket}
<1>1. TypeOK /\ IdsInv /\ LoopsInv /\ i \in Nat /\ streamId \in Nat /\ stream \in Nat
      /\ streamId <= stream
  <2>1. TypeOK /\ IdsInv /\ LoopsInv
    BY DEF IInv
  <2>. QED BY <2>1, Numbers DEF IdsInv
<1>2. CASE i > streamId
  BY <1>2, ComingFresh
<1>3. CASE ~(i > streamId)
  <2>1. Finished(readers[i]) => Finished(readers'[i])
    BY <1>1, <1>3, EndedStays
  <2>2. ASSUME NEW p \in readers'[i].ooo, p.kind = "data"
        PROVE  p \in Coming(i)
    <3>1. CASE p \in readers[i].ooo
      BY <2>2, <3>1 DEF Coming
    <3>2. CASE p \notin readers[i].ooo
      <4>1. LoopReads(i) /\ readers'[i] = Read(readers[i]) => readers'[i].ooo = readers[i].ooo
        BY <1>1, ReadIs, SessionTypes
      <4>2. PICK q \in data : q.id = i /\ Outcome(readers[i], q, readers'[i], Others(q))
        <5>. HIDE DEF Leaves
        <5>. QED BY <2>2, <3>2, <4>1, ReaderStep DEF Untouched
      <4>3. SetAside(readers[i], q, readers'[i]) /\ p = q
        BY <2>2, <3>2, <4>2 DEF Outcome, Ignored, FailedBy, SetAside, Taken1
      <4>. QED BY <2>2, <4>2, <4>3 DEF SetAside, Coming
    <3>. QED BY <3>1, <3>2
  <2>3. CASE data' \subseteq data
    BY <2>1, <2>2, <2>3 DEF Coming
  <2>4. CASE SenderSends /\ \E p : Sends(p) /\ data' = data \cup {p}
    <3>1. PICK p : Sends(p) /\ data' = data \cup {p}
      BY <2>4
    <3>2. readers' = readers
      BY <2>4 DEF SenderSends, localVars
    <3>3. CASE p.kind # "data"
      BY <3>1, <3>2, <3>3 DEF Coming, Finished
    <3>4. CASE p.kind = "data" /\ p.id = i /\ ~Finished(readers[i])
      <4>1. SendData /\ p = DataPacket /\ p.id = streamId
        BY <1>1, <3>1, <3>4, SentPackets DEF Sends, SendData, SendTerminal, TypeOK, Remote!TypeOK
      <4>. QED BY <3>1, <3>2, <3>4, <4>1 DEF Coming, Finished
    <3>5. CASE p.id # i \/ Finished(readers[i])
      BY <3>1, <3>2, <3>5 DEF Coming, Finished
    <3>. QED BY <3>3, <3>4, <3>5
  <2>. QED BY <2>3, <2>4, DataStep
<1>. QED BY <1>2, <1>3

\* A packet that is taken fits, with all that it makes next.
LEMMA TakenFits ==
  ASSUME IInv, NEW p \in data, NEW s,
         ~Finished(readers[p.id]), p.seq = readers[p.id].next, p.kind # "error",
         Taken1(readers[p.id], p, s, Others(p))
  PROVE  /\ \A q \in Coming(p.id) : End(q) <= Unread(readers[p.id]) + Window
         /\ Len(s.buf) <= Window
<1> DEFINE r == readers[p.id]
<1>1. TypeOK /\ FlowInv /\ PacketsInv
  BY DEF IInv
<1>2. /\ p \in Packets /\ p.id \in Streams /\ r \in Readers /\ s \in Readers
      /\ r.next \in Nat /\ s.next \in Nat /\ Len(r.buf) \in Nat /\ Len(s.buf) \in Nat
      /\ Window \in Nat /\ p.seq \in Nat /\ p.len \in Nat
  <2>1. p \in Packets /\ p.id \in Streams /\ r \in Readers /\ s \in Readers
    BY <1>1, SessionTypes DEF Taken1
  <2>2. r.buf \in Seq(Positions0) /\ s.buf \in Seq(Positions0)
    BY <2>1 DEF Readers
  <2>3. r.next \in Nat /\ s.next \in Nat
    BY <2>1 DEF Readers
  <2>4. Window \in Nat /\ p.seq \in Nat /\ p.len \in Nat
    BY <1>1, <2>1, SessionTypes
  <2>5. Len(r.buf) \in Nat /\ Len(s.buf) \in Nat
    BY <2>2
  <2>. QED BY <2>1, <2>3, <2>4, <2>5
<1>3. \A q \in Coming(p.id) : q \in Packets /\ q.seq \in Nat /\ q.len \in Nat /\ r.next <= q.seq
  BY <1>1, <1>2, SessionTypes DEF Coming, FlowInv
<1>4. /\ Len(s.buf) = Len(r.buf) + (s.next - r.next) /\ Len(r.buf) <= Window
      /\ s.next = End(p) \/ \E q \in r.ooo : q.kind = "data" /\ s.next = End(q)
  BY <1>1, <1>2 DEF Taken1, FlowInv
<1>5. p.kind = "data" => p \in Coming(p.id)
  BY DEF Coming
<1>6. \A q \in r.ooo : q.kind = "data" => q \in Coming(p.id)
  BY DEF Coming
<1>7. p.kind # "data" => p.len = 0 /\ p.seq = total
  BY <1>1, <1>2 DEF PacketsInv, PacketOk
<1>8. \A q \in Coming(p.id) : End(q) <= Unread(r) + Window
  <2>1. CASE \A q \in Coming(p.id) : r.next < q.seq
    <3>1. r.next = total
      BY <1>2, <1>5, <1>7, <2>1
    <3>2. \A q \in Coming(p.id) : End(q) <= total
      BY <1>1, <1>2 DEF Coming, PacketsInv, PacketOk
    <3>3. Coming(p.id) = {}
      BY <1>2, <1>3, <2>1, <3>1, <3>2 DEF End
    <3>. QED BY <3>3
  <2>. QED BY <1>1, <1>2, <2>1 DEF FlowInv
<1>9. Len(s.buf) <= Window
  <2>1. CASE s.next = End(p) /\ p.kind # "data"
    BY <1>2, <1>4, <1>7, <2>1 DEF End
  <2>2. CASE \E q \in Coming(p.id) : s.next = End(q)
    BY <1>2, <1>4, <1>8, <2>2, SMTT(30) DEF Unread
  <2>. QED BY <1>4, <1>5, <1>6, <2>1, <2>2
<1>. QED BY <1>8, <1>9

LEMMA FlowKept ==
  ASSUME IInv, [Next]_vars
  PROVE  FlowInv'
<1>1. /\ TypeOK /\ TypeOK' /\ FlowInv /\ SenderInv /\ PacketsInv /\ CorkedInv /\ IdsInv
      /\ stream \in Nat /\ streamId \in Nat /\ streamId <= stream /\ Window \in Nat
  <2>1. TypeOK /\ TypeOK' /\ FlowInv /\ SenderInv /\ PacketsInv /\ CorkedInv /\ IdsInv
    BY TypesKept DEF IInv
  <2>. QED BY <2>1, Numbers, ManagerTypes DEF IdsInv
<1> SUFFICES ASSUME NEW i \in Streams
             PROVE  LET s == readers'[i]
                    IN  /\ Len(s.buf) <= Window
                        /\ \A p \in Coming(i)' : s.next <= p.seq
                        /\ \A p, q \in Coming(i)' : p # q => Disjoint(p, q)
                        /\ ~Finished(s) => \A p \in data' \cap s.ooo : p.kind # "data"
                        /\ \/ \A p \in Coming(i)' : End(p) <= Unread(s) + Window
                           \/ /\ s.buf = <<>>
                              /\ \A p \in Coming(i)' : s.next < p.seq
                              /\ \A p, q \in Coming(i)' : End(p) <= q.seq + Window
  BY DEF FlowInv
<1> DEFINE r == readers[i]
           s == readers'[i]
           Fits(x, Q) == \A p \in Q : End(p) <= Unread(x) + Window
           Beyond(x, Q) == /\ x.buf = <<>>
                           /\ \A p \in Q : x.next < p.seq
                           /\ \A p, q \in Q : End(p) <= q.seq + Window
           Sound(x, Q, d) == /\ Len(x.buf) <= Window
                             /\ \A p \in Q : x.next <= p.seq
                             /\ \A p, q \in Q : p # q => Disjoint(p, q)
                             /\ ~Finished(x) => \A p \in d \cap x.ooo : p.kind # "data"
                             /\ Fits(x, Q) \/ Beyond(x, Q)
<1> SUFFICES Sound(s, Coming(i)', data')
  OBVIOUS
<1>2. Sound(r, Coming(i), data)
  BY <1>1 DEF FlowInv
<1>3. /\ r \in Readers /\ s \in Readers /\ r.next \in Nat /\ s.next \in Nat
      /\ Len(r.buf) \in Nat /\ Len(s.buf) \in Nat /\ i \in Nat
      /\ Unread(r) \in Int /\ Unread(s) \in Int
  <2>1. r \in Readers /\ s \in Readers
    BY <1>1 DEF TypeOK
  <2>2. r.buf \in Seq(Positions0) /\ s.buf \in Seq(Positions0) /\ r.next \in Nat /\ s.next \in Nat
    BY <2>1 DEF Readers
  <2>3. Len(r.buf) \in Nat /\ Len(s.buf) \in Nat
    BY <2>2
  <2>. QED BY <1>1, <2>1, <2>2, <2>3, Numbers, SMTT(30) DEF Unread
<1>4. \A p \in Coming(i) : p \in Packets /\ p.seq \in Nat /\ p.len \in Nat /\ End(p) \in Nat
  BY <1>1, SessionTypes DEF Coming
<1>5. ASSUME Coming(i)' = {}, Untouched(s)
      PROVE  Sound(s, Coming(i)', data')
  <2>1. Len(s.buf) <= Window
    BY <1>1, <1>5 DEF Untouched
  <2>2. s.ooo = {}
    BY <1>5 DEF Untouched
  <2>. QED BY <1>5, <2>1, <2>2
<1>6. CASE i > streamId
  BY <1>5, <1>6, ComingFresh
<1>7. CASE ServerRestarts /\ ~(i > streamId)
  <2>1. s = [NewReader(0) EXCEPT !.closed = TRUE]
    BY <1>1, <1>3, <1>7 DEF ServerRestarts
  <2>2. Untouched(s) /\ s.closed
    BY <2>1 DEF NewReader, Untouched
  <2>. QED BY <1>5, <2>2 DEF Coming, Untouched, Finished
\* The sender sends within the window it knows.
<1>8. CASE /\ SendData /\ i = streamId /\ ~Finished(r) /\ readers' = readers
           /\ Coming(i)' \subseteq Coming(i) \cup {DataPacket}
           /\ data' = data \cup {DataPacket}
  <2> DEFINE sent == HeadPos + sentNotAcked
  <2>0. PICK n : n = DataPacket
    OBVIOUS
  <2>1. /\ n \in Packets /\ n.seq = sent /\ n.len > 0 /\ n.len \in Nat /\ End(n) <= HeadPos + rwndSize
        /\ End(n) = sent + n.len /\ n.kind = "data"
        /\ sent \in Nat /\ HeadPos \in Nat /\ HeadPos <= sent /\ connected /\ rwndSize <= Window
        /\ rwndSize \in Nat
    <3>1. CanSendData /\ connected
      BY <1>8 DEF SendData, CanSendData
    <3>2. rwndSize \in 0..Window
      BY <1>1 DEF TypeOK, Remote!TypeOK, Remote!Rwnds
    <3>3. HeadPos \in Nat /\ sentNotAcked \in Nat /\ rwndSize \in Nat
      BY <1>1, ManagerTypes
    <3>4. PacketSize \in Nat /\ Room \in Int /\ PacketSize <= Room /\ Room <= rwndSize - sentNotAcked
      <4>1. PacketSize \in Nat /\ PacketSize <= Room /\ Room <= rwndSize - sentNotAcked
        BY <1>1, <3>1, SentPackets
      <4>2. Room \in Int
        BY <3>3, ManagerAssumption DEF Room, EffectiveWindow, Smaller
      <4>. QED BY <4>1, <4>2
    <3>5. n \in Packets /\ n.seq = sent /\ n.len = PacketSize /\ n.len > 0 /\ n.kind = "data"
      BY <1>1, <2>0, <3>1, SentPackets
    <3>. QED BY <1>1, <3>1, <3>2, <3>3, <3>4, <3>5 DEF End
  <2>8. Coming(i)' \subseteq Coming(i) \cup {n} /\ data' = data \cup {n}
    BY <1>8, <2>0
  <2>2. r.next <= sent /\ \A p \in Coming(i) : End(p) <= sent
    BY <1>1, <1>8, <2>1 DEF SenderInv
  <2>3. \A p, q \in Coming(i)' : p # q => Disjoint(p, q)
    BY <1>2, <1>4, <2>8, <2>1, <2>2 DEF Disjoint
  <2>4. \A p \in Coming(i)' : s.next <= p.seq
    BY <1>2, <1>8, <2>8, <2>1, <2>2
  <2>5. \A p \in data' \cap s.ooo : p.kind # "data"
    <3>1. n \notin r.ooo
      <4>1. n \in r.ooo => n \in Coming(i)
        BY <2>1 DEF Coming
      <4>. QED BY <2>1, <2>2, <4>1
    <3>. QED BY <1>2, <1>8, <2>8, <3>1
  <2>6. CASE HeadPos <= r.next
    <3>1. HeadPos + rwndSize <= Unread(r) + Window /\ sent <= Unread(r) + Window
      BY <1>1, <1>8, <2>1, <2>6 DEF SenderInv
    <3>2. Fits(s, Coming(i)')
      BY <1>1, <1>3, <1>4, <1>8, <2>8, <2>1, <2>2, <3>1
    <3>. QED BY <1>2, <1>8, <2>3, <2>4, <2>5, <3>2
  <2>7. CASE HeadPos > r.next
    <3>1. /\ r.buf = <<>> /\ \A p \in Coming(i) : HeadPos <= p.seq
          /\ sent <= HeadPos + Window
      BY <1>1, <1>8, <2>1, <2>7 DEF SenderInv
    <3>2. \A p \in Coming(i)' : HeadPos <= p.seq /\ p.seq \in Nat
      BY <1>4, <2>8, <2>1, <3>1
    <3>3. \A p \in Coming(i)' : End(p) <= HeadPos + Window /\ End(p) \in Nat
      BY <1>1, <1>4, <2>8, <2>1, <2>2, <3>1
    <3>4. Beyond(s, Coming(i)')
      BY <1>1, <1>3, <1>8, <2>1, <2>7, <3>1, <3>2, <3>3, SMTT(30)
    <3>. QED BY <1>2, <1>8, <2>3, <2>4, <2>5, <3>4
  <2>. QED BY <1>3, <2>1, <2>6, <2>7
\* Nothing new is sent to the stream.
<1>9. CASE Coming(i)' \subseteq Coming(i) /\ ~ServerRestarts /\ ~(i > streamId)
  <2>1. i <= stream /\ i # stream + 1
    BY <1>1, <1>3, <1>9
  <2>2. Finished(r) => Finished(s)
    BY <2>1, EndedStays
  <2>3. Unread(r) <= Unread(s)
    BY <1>9, <2>1, UnreadGrows
  <2>4. \A p, q \in Coming(i)' : p # q => Disjoint(p, q)
    BY <1>2, <1>9
  <2>5. LoopReads(i) /\ s = Read(r) => s.next = r.next /\ Len(s.buf) <= Len(r.buf) /\ s.ooo = r.ooo
    BY <1>3, ReadIs
  \* The reader stays where it is.
  <2>6. CASE s.next = r.next /\ Len(s.buf) <= Len(r.buf)
             /\ (~Finished(s) => \A p \in data' \cap s.ooo : p.kind # "data")
    <3>1. Fits(r, Coming(i)) => Fits(s, Coming(i)')
      BY <1>1, <1>3, <1>4, <1>9, <2>3
    <3>2. Beyond(r, Coming(i)) => Beyond(s, Coming(i)')
      <4>1. r.buf = <<>> => s.buf = <<>>
        <5>1. s.buf \in Seq(Positions0)
          BY <1>3 DEF Readers
        <5>. QED BY <1>3, <2>6, <5>1
      <4>. QED BY <1>9, <2>6, <4>1
    <3>3. Len(s.buf) <= Window /\ \A p \in Coming(i)' : s.next <= p.seq
      BY <1>1, <1>2, <1>3, <1>9, <2>6
    <3>. QED BY <1>2, <2>4, <2>6, <3>1, <3>2, <3>3
  \* A packet of the stream is taken.
  <2>7. ASSUME NEW p \in data, p.id = i, DataArrives(p), ~Finished(r), p.seq = r.next,
               p.kind # "error", Taken1(r, p, s, Others(p))
        PROVE  Sound(s, Coming(i)', data')
    <3>1. Fits(r, Coming(i)) /\ Len(s.buf) <= Window
      BY <2>7, TakenFits
    <3>2. Fits(s, Coming(i)')
      BY <1>1, <1>3, <1>4, <1>9, <2>3, <3>1
    <3>3. data' = data \ {p} /\ s.ooo \subseteq r.ooo
      BY <2>7 DEF DataArrives, Taken1
    <3>4. \A q \in data \cap r.ooo : q.kind # "data"
      BY <1>2, <2>7
    <3>5. \A q \in Coming(i)' : s.next <= q.seq
      <4>1. ASSUME NEW q \in Coming(i)'
            PROVE  q \in Others(p) /\ (q \in s.ooo \/ q \notin r.ooo)
        <5>1. q.kind = "data" /\ (q \in s.ooo \/ q \in data \ {p})
          BY <3>3 DEF Coming
        <5>2. q # p
          BY <3>3, <3>4, <5>1
        <5>. QED BY <1>9, <2>7, <3>3, <3>4, <5>1, <5>2 DEF Others
      <4>. QED BY <2>7, <4>1 DEF Taken1
    <3>. QED BY <2>4, <3>1, <3>2, <3>3, <3>4, <3>5
  \* The gap is skipped before anything is sent.
  <2>8. CASE RestartGoesOn /\ i = stream /\ s.buf = r.buf /\ s.ooo = r.ooo
    <3>1. restart.at = "prepared"
      BY <1>1, <2>8, RestartEffect
    <3>2. \A p \in data \cup r.ooo : p.id = i => p.kind # "data"
      BY <1>1, <2>8, <3>1 DEF CorkedInv
    <3>3. \A p \in r.ooo : p.id = i
      BY <1>1 DEF IdsInv
    <3>4. Coming(i) = {}
      BY <3>2, <3>3 DEF Coming
    <3>. QED BY <1>2, <1>9, <2>8, <3>2, <3>3, <3>4
  <2>9. data' \subseteq data \/ readers' = readers
    <3>1. SenderSends => readers' = readers
      BY DEF SenderSends, localVars
    <3>. QED BY <3>1, DataStep
  <2>10. CASE s.next = r.next /\ Len(s.buf) <= Len(r.buf) /\ s.ooo = r.ooo
    <3>1. ASSUME ~Finished(s), NEW p \in data' \cap s.ooo
          PROVE  p.kind # "data"
      <4>1. CASE p \in data
        BY <1>2, <2>2, <2>10, <3>1, <4>1
      <4>2. CASE p \notin data
        <5>1. Sends(p) /\ p.id = i /\ p \in r.ooo
          BY <1>1, <2>10, <3>1, <4>2, DataStep DEF IdsInv
        <5>2. ASSUME p.kind = "data"
              PROVE  FALSE
          <6>1. SendData /\ p = DataPacket /\ p.id = streamId
            BY <1>1, <5>1, <5>2, SentPackets DEF Sends, SendData, SendTerminal, TypeOK, Remote!TypeOK
          <6>2. CanSendData /\ connected /\ i = streamId
            BY <5>1, <6>1 DEF SendData, CanSendData
          <6>3. p.seq = HeadPos + sentNotAcked /\ p.len > 0 /\ p.len \in Nat /\ p.seq \in Nat
            BY <1>1, <6>1, <6>2, SentPackets, ManagerTypes
          <6>4. p \in Coming(i)
            BY <5>1, <5>2 DEF Coming
          <6>5. End(p) <= HeadPos + sentNotAcked
            BY <1>1, <2>2, <3>1, <6>2, <6>4 DEF SenderInv
          <6>. QED BY <6>3, <6>5 DEF End
        <5>. QED BY <5>2
      <4>. QED BY <4>1, <4>2
    <3>. QED BY <2>6, <2>10, <3>1
  <2>11. ASSUME NEW p \in data, p.id = i, DataArrives(p), SetAside(r, p, s)
         PROVE  Sound(s, Coming(i)', data')
    <3>1. data' = data \ {p}
      BY <2>11 DEF DataArrives
    <3>2. s.next = r.next /\ s.buf = r.buf /\ s.ooo = r.ooo \cup {p} /\ ~Finished(r)
      BY <2>11 DEF SetAside
    <3>3. \A q \in data' \cap s.ooo : q.kind # "data"
      BY <1>2, <3>1, <3>2
    <3>4. Len(s.buf) <= Len(r.buf)
      BY <1>3, <3>2
    <3>. QED BY <2>6, <3>2, <3>3, <3>4
  <2>12. Len(r.buf) <= Len(r.buf)
    BY <1>3
  <2>13. \/ s.next = r.next /\ Len(s.buf) <= Len(r.buf) /\ s.ooo = r.ooo
         \/ \E p \in data : p.id = i /\ DataArrives(p) /\ SetAside(r, p, s)
         \/ \E p \in data : /\ p.id = i /\ DataArrives(p) /\ ~Finished(r) /\ p.seq = r.next
                            /\ p.kind # "error" /\ Taken1(r, p, s, Others(p))
         \/ RestartGoesOn /\ i = stream /\ s.buf = r.buf /\ s.ooo = r.ooo
    <3>1. \A p : Outcome(r, p, s, Others(p)) =>
            \/ s.next = r.next /\ s.buf = r.buf /\ s.ooo = r.ooo
            \/ SetAside(r, p, s)
            \/ ~Finished(r) /\ p.seq = r.next /\ p.kind # "error" /\ Taken1(r, p, s, Others(p))
      BY DEF Outcome, Ignored, FailedBy
    <3> HIDE DEF Leaves
    <3>. QED BY <1>9, <2>1, <2>5, <2>12, <3>1, ReaderStep
  <2> HIDE DEF Sound
  <2>. QED BY <2>7, <2>8, <2>10, <2>11, <2>13
<1> HIDE DEF Sound
<1>. QED BY <1>6, <1>7, <1>8, <1>9, ComingStep

LEMMA AcksKept ==
  ASSUME IInv, [Next]_vars
  PROVE  AcksInv'
<1>1. TypeOK /\ TypeOK' /\ AcksInv /\ FlowInv' /\ IdsInv /\ Window \in Nat
  BY TypesKept, FlowKept, ManagerTypes DEF IInv
<1> SUFFICES ASSUME NEW ack \in acks', ~Finished(readers'[ack.id])
             PROVE  /\ ack.seq <= readers'[ack.id].next
                    /\ ack.seq + ack.rwnd <= Unread(readers'[ack.id]) + Window
  BY DEF AcksInv
<1> DEFINE i == ack.id
           r == readers[i]
           s == readers'[i]
<1>2. /\ i \in Streams /\ ack.seq \in Nat /\ ack.rwnd \in Nat
      /\ r \in Readers /\ s \in Readers
  <2>1. acks' \subseteq [id : Streams, seq : Nat, rwnd : 0..Window, fin : BOOLEAN,
                         cancel : BOOLEAN]
    BY <1>1 DEF TypeOK
  <2>2. i \in Streams /\ ack.seq \in Nat /\ ack.rwnd \in Nat
    BY <1>1, <2>1
  <2>. QED BY <1>1, <2>2 DEF TypeOK
<1>3. /\ r.next \in Nat /\ s.next \in Nat /\ Len(r.buf) \in Nat /\ Len(s.buf) \in Nat
      /\ Unread(r) \in Int /\ Unread(s) \in Int
  <2>1. r.buf \in Seq(Positions0) /\ s.buf \in Seq(Positions0) /\ r.next \in Nat /\ s.next \in Nat
    BY <1>2 DEF Readers
  <2>2. Len(r.buf) \in Nat /\ Len(s.buf) \in Nat
    BY <2>1
  <2>. QED BY <2>1, <2>2, SMTT(30) DEF Unread
<1>4. i <= stream
  BY <1>1, AcksStep DEF Answer, IdsInv
<1>5. ~Finished(r)
  BY <1>2, <1>4, EndedStays
<1>6. CASE ack \in acks
  <2>1. ~ServerRestarts
    BY DEF ServerRestarts
  <2>2. r.next <= s.next /\ Unread(r) <= Unread(s)
    BY <1>2, <1>4, <2>1, NextGrows, UnreadGrows
  <2>3. ack.seq <= r.next /\ ack.seq + ack.rwnd <= Unread(r) + Window
    BY <1>1, <1>5, <1>6 DEF AcksInv
  <2>. QED BY <1>1, <1>2, <1>3, <2>2, <2>3, SMTT(30)
<1>7. CASE Answer(ack)
  <2>1. ack.seq = s.next /\ ack.rwnd = Rwnd(s)
    BY <1>5, <1>7 DEF Answer
  <2>2. Len(s.buf) <= Window
    BY <1>1, <1>2 DEF FlowInv
  <2>3. Rwnd(s) = Window - Len(s.buf)
    BY <1>2, <2>2, RwndIs
  <2>. QED BY <1>1, <1>2, <1>3, <2>1, <2>2, <2>3, SMTT(30) DEF Unread
<1>. QED BY <1>6, <1>7, AcksStep

\* What the steps of the remote end are for a stream that stays connected.
LEMMA SenderStep ==
  ASSUME IInv, [Next]_vars, connected', ~PrepareConnects
  PROVE  /\ connected /\ streamId' = streamId
         /\ \/ SendData /\ readers' = readers
            \/ StartsStream
            \/ /\ readers' = readers /\ data' = data
               /\ \E ack \in acks : /\ AckArrives(ack) /\ ack.id = streamId
                                    /\ HeadPos' = ack.seq /\ HeadPos <= ack.seq
                                    /\ rwndSize' = ack.rwnd
                                    /\ HeadPos' + sentNotAcked' = HeadPos + sentNotAcked
            \/ /\ HeadPos' = HeadPos /\ sentNotAcked' = sentNotAcked /\ rwndSize' = rwndSize
               /\ ~SendData \/ readers' = readers
<1>1. connected /\ streamId' = streamId
  BY StreamIdStep, ManagerTypes DEF IInv
<1>2. ~PrepareDisconnects /\ ~PrepareConsumes
  BY <1>1, DisconnectEffect, ConsumeEffect
<1>3. CASE UNCHANGED managerVars /\ readers' # readers
  <2>1. HeadPos' = HeadPos /\ sentNotAcked' = sentNotAcked /\ rwndSize' = rwndSize
    BY <1>3 DEF managerVars, ringVars, sessionVars, HeadPos
  <2>2. ~SendData
    <3>1. SendData => sentNotAcked' = sentNotAcked + PacketSize /\ CanSendData
      BY DEF SendData
    <3>2. sentNotAcked \in Nat /\ (CanSendData => PacketSize \in Nat /\ PacketSize > 0)
      BY ManagerTypes, SentPackets DEF IInv
    <3>. QED BY <2>1, <3>1, <3>2
  <2>. QED BY <1>1, <2>1, <2>2
<1>4. CASE UNCHANGED managerVars /\ readers' = readers
  <2>1. HeadPos' = HeadPos /\ sentNotAcked' = sentNotAcked /\ rwndSize' = rwndSize
    BY <1>4 DEF managerVars, ringVars, sessionVars, HeadPos
  <2>. QED BY <1>1, <1>4, <2>1
<1>5. CASE Goroutine
  <2>1. readers' = readers
    BY <1>5 DEF Goroutine, PtyWrites, PtySignals, PtyFinishes, SenderSends, SenderWaits, localVars
  <2>2. HeadPos' = HeadPos /\ rwndSize' = rwndSize /\ (~SenderSends => sentNotAcked' = sentNotAcked)
    BY <1>1, <1>5, GoroutineEffect
  <2>3. SenderSends => SendData \/ sentNotAcked' = sentNotAcked
    BY DEF SenderSends, SendTerminal, sessionVars
  <2>. QED BY <1>1, <2>1, <2>2, <2>3
<1>6. ASSUME NEW ack \in acks, AckArrives(ack)
      PROVE  /\ readers' = readers /\ data' = data
             /\ HeadPos' + sentNotAcked' = HeadPos + sentNotAcked
             /\ \/ sentNotAcked' = sentNotAcked /\ rwndSize' = rwndSize /\ HeadPos' = HeadPos
                \/ /\ ack.id = streamId /\ HeadPos' = ack.seq /\ HeadPos <= ack.seq
                   /\ rwndSize' = ack.rwnd
  <2>1. readers' = readers /\ data' = data
    BY <1>6 DEF AckArrives, localVars
  <2>. QED BY <1>6, <2>1, AckEffect
<1>7. CASE StartsStream
  BY <1>1, <1>7
<1>8. \/ UNCHANGED managerVars \/ Goroutine \/ (\E ack \in acks : AckArrives(ack)) \/ StartsStream
  BY <1>2, Frames DEF Goroutine
<1>. QED BY <1>1, <1>3, <1>4, <1>5, <1>6, <1>7, <1>8

LEMMA SenderKept ==
  ASSUME IInv, [Next]_vars
  PROVE  SenderInv'
<1>1. /\ TypeOK /\ TypeOK' /\ FlowInv /\ SenderInv /\ PacketsInv /\ CorkedInv /\ IdsInv
      /\ AcksInv /\ BoundsInv /\ HeadInv /\ RestartInv
      /\ stream \in Streams /\ stream \in Nat /\ streamId \in Streams /\ streamId \in Nat
      /\ streamId <= stream /\ Window \in Nat
  <2>1. /\ TypeOK /\ TypeOK' /\ FlowInv /\ SenderInv /\ PacketsInv /\ CorkedInv /\ IdsInv
        /\ AcksInv /\ BoundsInv /\ HeadInv /\ RestartInv
    BY TypesKept DEF IInv
  <2>. QED BY <2>1, Numbers, ManagerTypes DEF IdsInv
<1> SUFFICES ASSUME connected', ~Finished(readers'[streamId'])
             PROVE  /\ readers'[streamId'].next <= HeadPos' + sentNotAcked'
                    /\ \A p \in Coming(streamId)' : End(p) <= HeadPos' + sentNotAcked'
                    /\ HeadPos' <= readers'[streamId'].next =>
                         /\ HeadPos' + rwndSize' <= Unread(readers'[streamId']) + Window
                         /\ HeadPos' + sentNotAcked' <= Unread(readers'[streamId']) + Window
                    /\ HeadPos' > readers'[streamId'].next =>
                         /\ readers'[streamId'].buf = <<>>
                         /\ \A p \in Coming(streamId)' : HeadPos' <= p.seq
                         /\ HeadPos' + sentNotAcked' <= HeadPos' + Window
  BY DEF SenderInv
<1>2. /\ HeadPos \in Nat /\ HeadPos' \in Nat /\ sentNotAcked \in Nat /\ sentNotAcked' \in Nat
      /\ rwndSize \in Nat /\ rwndSize' \in Nat /\ rwndSize <= Window /\ rwndSize' <= Window
      /\ HeadPos <= HeadPos' /\ HeadPos <= total
  <2>1. rwndSize \in 0..Window /\ rwndSize' \in 0..Window
    BY <1>1 DEF TypeOK, Remote!TypeOK, Remote!Rwnds
  <2>2. sentNotAcked' \in Nat
    BY <1>1 DEF TypeOK, Remote!TypeOK
  <2>3. HeadPos \in Nat /\ sentNotAcked \in Nat /\ HeadPos <= total /\ HeadPos' \in Nat /\ HeadPos <= HeadPos'
    BY <1>1, ManagerTypes, HeadStep
  <2>. QED BY <1>1, <2>1, <2>2, <2>3
\* A stream is connected: nothing is sent yet.
<1>3. CASE PrepareConnects
  <2>1. /\ streamId' = prep.id /\ prep.at = "connect" /\ HeadPos' = HeadPos
        /\ sentNotAcked' = 0 /\ rwndSize' = 0 /\ readers' = readers
    BY <1>3, ConnectEffect DEF PrepareConnects
  <2>2. streamId < prep.id /\ prep.seq <= HeadPos /\ readers[prep.id].next <= prep.seq
    BY <1>1, <2>1 DEF IdsInv, HeadInv, BoundsInv
  <2>3. PICK j : j = prep.id
    OBVIOUS
  <2>4. j \in Streams /\ streamId < j /\ readers[j].next <= HeadPos /\ readers[j].next \in Nat
    <3>1. j \in Streams
      BY <1>1, <2>1, <2>3 DEF TypeOK, Remote!TypeOK
    <3>2. readers[j].next \in Nat /\ prep.seq \in Nat
      BY <1>1, <3>1, SessionTypes
    <3>. QED BY <1>2, <2>2, <2>3, <3>1, <3>2
  <2>5. Coming(j)' = {} /\ readers'[j].buf = <<>>
    BY <2>4, ComingFresh DEF Untouched
  <2>6. Coming(streamId)' = {} /\ readers'[streamId'].buf = <<>> /\ readers'[streamId'].next = readers[j].next
    BY <2>1, <2>3, <2>5 DEF Coming
  <2>7. Unread(readers'[streamId']) = readers[j].next
    BY <2>4, <2>6 DEF Unread
  <2>. QED BY <1>1, <1>2, <2>1, <2>4, <2>6, <2>7
<1>5. PICK i : i = streamId
  OBVIOUS
<1> DEFINE r == readers[i]
           s == readers'[i]
           sent == HeadPos + sentNotAcked
\* The stream stays connected.
\* The stream stays connected.
<1>4. ASSUME ~PrepareConnects
      PROVE  /\ s.next <= HeadPos' + sentNotAcked'
             /\ \A p \in Coming(i)' : End(p) <= HeadPos' + sentNotAcked'
             /\ HeadPos' <= s.next =>
                  /\ HeadPos' + rwndSize' <= Unread(s) + Window
                  /\ HeadPos' + sentNotAcked' <= Unread(s) + Window
             /\ HeadPos' > s.next =>
                  /\ s.buf = <<>>
                  /\ \A p \in Coming(i)' : HeadPos' <= p.seq
                  /\ HeadPos' + sentNotAcked' <= HeadPos' + Window
             /\ streamId' = streamId
  <2>1. /\ connected /\ streamId' = i /\ i \in Streams /\ i <= stream /\ ~Finished(s)
        /\ i \in Nat /\ i # stream + 1
    BY <1>1, <1>4, <1>5, SenderStep
  <2>2. ~ServerRestarts
    <3>1. ServerRestarts => s = [NewReader(0) EXCEPT !.closed = TRUE]
      BY <1>1, <2>1 DEF ServerRestarts
    <3>2. ServerRestarts => s.closed
      BY <3>1 DEF NewReader
    <3>. QED BY <2>1, <3>2 DEF Finished
  <2>3. ~Finished(r)
    BY <2>1, EndedStays
  <2>4. /\ r \in Readers /\ s \in Readers /\ r.next \in Nat /\ s.next \in Nat
        /\ Len(r.buf) \in Nat /\ Len(s.buf) \in Nat /\ Unread(r) \in Int /\ Unread(s) \in Int
    <3>1. r \in Readers /\ s \in Readers
      BY <1>1, <2>1 DEF TypeOK
    <3>2. r.buf \in Seq(Positions0) /\ s.buf \in Seq(Positions0) /\ r.next \in Nat /\ s.next \in Nat
      BY <3>1 DEF Readers
    <3>3. Len(r.buf) \in Nat /\ Len(s.buf) \in Nat
      BY <3>2
    <3>. QED BY <3>1, <3>2, <3>3 DEF Unread
  <2>5. r.next <= s.next /\ Unread(r) <= Unread(s)
    BY <2>1, <2>2, NextGrows, UnreadGrows
  <2>6. /\ r.next <= sent
        /\ \A p \in Coming(i) : End(p) <= sent
        /\ HeadPos <= r.next =>
             /\ HeadPos + rwndSize <= Unread(r) + Window
             /\ sent <= Unread(r) + Window
        /\ HeadPos > r.next =>
             /\ r.buf = <<>>
             /\ \A p \in Coming(i) : HeadPos <= p.seq
             /\ sent <= HeadPos + Window
    BY <1>1, <1>5, <2>1, <2>3 DEF SenderInv
  <2>7. \A p \in Coming(i) : p \in Packets /\ p.seq \in Nat /\ p.len \in Nat /\ End(p) \in Nat
    BY <1>1, <2>1, SessionTypes DEF Coming
  <2>8. Coming(i)' \subseteq Coming(i) \/ (SendData /\ Coming(i)' \subseteq Coming(i) \cup {DataPacket})
    BY <2>1, ComingStep
  \* A packet is sent.
  <2>9. CASE SendData /\ readers' = readers
    <3>1. PICK n : n = DataPacket
      OBVIOUS
    <3>2. connected /\ CanSendData /\ HeadPos' = HeadPos /\ rwndSize' = rwndSize
          /\ sentNotAcked' = sentNotAcked + PacketSize
      BY <2>9 DEF SendData, CanSendData, HeadPos, ringVars
    <3>3. PacketSize \in Nat /\ PacketSize <= Room /\ Room <= rwndSize - sentNotAcked
          /\ n.seq = sent /\ n.len = PacketSize
      BY <1>1, <3>1, <3>2, SentPackets
    <3>4. Room \in Int
      BY <1>2, ManagerAssumption DEF Room, EffectiveWindow, Smaller
    <3>5. sent + PacketSize <= HeadPos + rwndSize /\ End(n) = sent + PacketSize
          /\ HeadPos' + sentNotAcked' = sent + PacketSize /\ HeadPos <= n.seq /\ n.seq \in Nat
      BY <1>2, <3>2, <3>3, <3>4 DEF End
    <3>6. Coming(i)' \subseteq Coming(i) \cup {n}
      BY <2>8, <3>1
    <3>7. \A p \in Coming(i)' : End(p) <= sent + PacketSize
      BY <1>2, <2>6, <2>7, <3>3, <3>5, <3>6
    <3>8. HeadPos > r.next => \A p \in Coming(i)' : HeadPos <= p.seq
      BY <2>6, <3>5, <3>6
    <3>9. HeadPos <= r.next => sent + PacketSize <= Unread(r) + Window
      <4>1. HeadPos <= r.next => HeadPos + rwndSize <= Unread(r) + Window
        BY <2>6
      <4>. QED BY <1>1, <1>2, <2>4, <3>3, <3>5, <4>1, SMTT(30)
    <3>10. sent + PacketSize <= HeadPos + Window /\ r.next <= sent + PacketSize
      <4>1. r.next <= sent
        BY <2>6
      <4>. QED BY <1>1, <1>2, <2>4, <3>3, <3>5, <4>1, SMTT(30)
    <3>. QED BY <1>5, <2>1, <2>6, <2>9, <3>2, <3>5, <3>7, <3>8, <3>9, <3>10
  \* The window is opened.
  <2>10. CASE StartsStream
    <3>1. readers' = readers /\ HeadPos' = HeadPos /\ sentNotAcked' = sentNotAcked /\ rwndSize' = Window
          /\ request.kind = "start"
      BY <2>10, StartEffect DEF StartsStream
    <3>2. r.buf = <<>>
      <4>1. i = stream /\ restart.at = "start"
        BY <1>1, <1>5, <2>3, <3>1 DEF RestartInv, Finished
      <4>. QED BY <1>1, <4>1 DEF CorkedInv
    <3>3. Unread(r) = r.next
      BY <2>4, <3>2 DEF Unread
    <3>4. ~SendData
      <4>1. SendData => sentNotAcked' = sentNotAcked + PacketSize /\ CanSendData
        BY DEF SendData
      <4>2. CanSendData => PacketSize \in Nat /\ PacketSize > 0
        BY <1>1, SentPackets
      <4>. QED BY <1>2, <3>1, <4>1, <4>2
    <3>. QED BY <1>1, <1>2, <1>5, <2>1, <2>4, <2>6, <2>8, <3>1, <3>3, <3>4
  \* What the reader has leaves the ring.
  <2>11. ASSUME NEW ack \in acks, readers' = readers, data' = data, ack.id = streamId,
                HeadPos' = ack.seq, HeadPos <= ack.seq, rwndSize' = ack.rwnd,
                HeadPos' + sentNotAcked' = HeadPos + sentNotAcked
         PROVE  /\ s.next <= HeadPos' + sentNotAcked'
                /\ \A p \in Coming(i)' : End(p) <= HeadPos' + sentNotAcked'
                /\ HeadPos' <= s.next
                /\ HeadPos' + rwndSize' <= Unread(s) + Window
                /\ HeadPos' + sentNotAcked' <= Unread(s) + Window
    <3>1. ack.seq <= r.next /\ ack.seq + ack.rwnd <= Unread(r) + Window
      BY <1>1, <1>5, <2>3, <2>11 DEF AcksInv
    <3>2. HeadPos <= r.next
      BY <1>2, <2>4, <2>11, <3>1
    <3>3. Coming(i)' = Coming(i)
      BY <2>11 DEF Coming, Finished
    <3>. QED BY <2>6, <2>11, <3>1, <3>2, <3>3
  \* The reader goes on.
  <2>12. CASE /\ HeadPos' = HeadPos /\ sentNotAcked' = sentNotAcked /\ rwndSize' = rwndSize
              /\ Coming(i)' \subseteq Coming(i)
    <3>1. LoopReads(i) /\ s = Read(r) => s.next = r.next /\ Len(s.buf) <= Len(r.buf)
      BY <2>4, ReadIs
    <3>2. ASSUME NEW p \in data, p.id = i, ~Finished(r), p.seq = r.next,
                 p.kind # "error", Taken1(r, p, s, Others(p))
          PROVE  s.next <= sent /\ HeadPos <= r.next
      <4>1. p \in Packets /\ p.seq \in Nat /\ p.len \in Nat
        BY <1>1, SessionTypes
      <4>2. p.kind = "data" => p \in Coming(i)
        BY <3>2 DEF Coming
      <4>3. p.kind # "data" => p.len = 0 /\ p.seq = total
        BY <1>1, <4>1 DEF PacketsInv, PacketOk
      <4>4. HeadPos <= r.next
        <5>1. CASE p.kind = "data"
          BY <1>2, <2>4, <2>6, <3>2, <4>1, <4>2, <5>1
        <5>2. CASE p.kind # "data"
          BY <1>2, <3>2, <4>3, <5>2
        <5>. QED BY <5>1, <5>2
      <4>5. s.next = End(p) \/ \E q \in r.ooo : q.kind = "data" /\ s.next = End(q)
        BY <3>2 DEF Taken1
      <4>6. \A q \in r.ooo : q.kind = "data" => q \in Coming(i)
        BY DEF Coming
      <4>7. End(p) <= sent
        <5>1. CASE p.kind = "data"
          BY <2>6, <4>2, <5>1
        <5>2. CASE p.kind # "data"
          BY <2>4, <2>6, <3>2, <4>1, <4>3, <5>2 DEF End
        <5>. QED BY <5>1, <5>2
      <4>. QED BY <2>6, <4>4, <4>5, <4>6, <4>7
    <3>3. CASE RestartGoesOn /\ i = stream /\ s.next = restart.announced /\ s.buf = r.buf
               /\ restart.announced > restart.seq
      <4>1. restart.at = "prepared" /\ restart.result = "ok"
        BY <1>1, <3>3, RestartEffect
      <4>2. restart.announced <= HeadPos /\ r.buf = <<>> /\ rwndSize = 0 /\ sentNotAcked = 0
        BY <1>1, <1>5, <3>3, <4>1 DEF HeadInv, CorkedInv
      <4>3. Unread(s) = s.next
        BY <2>4, <3>3, <4>2 DEF Unread
      <4>4. HeadPos > s.next => HeadPos > r.next
        BY <1>2, <2>4, <2>5
      <4>. QED BY <1>1, <1>2, <1>5, <2>1, <2>4, <2>6, <2>12, <3>3, <4>2, <4>3, <4>4
    <3>4. CASE s.next = r.next /\ Len(s.buf) <= Len(r.buf)
      <4>1. r.buf = <<>> => s.buf = <<>>
        <5>1. s.buf \in Seq(Positions0)
          BY <2>4 DEF Readers
        <5>. QED BY <2>4, <3>4, <5>1
      <4>2. HeadPos <= r.next =>
                  /\ HeadPos + rwndSize <= Unread(s) + Window
                  /\ sent <= Unread(s) + Window
        BY <1>1, <1>2, <2>4, <2>5, <2>6, SMTT(30)
      <4>. QED BY <1>5, <2>1, <2>6, <2>12, <3>4, <4>1, <4>2
    <3>5. CASE \E p \in data : /\ p.id = i /\ ~Finished(r) /\ p.seq = r.next
                               /\ p.kind # "error" /\ Taken1(r, p, s, Others(p))
      <4>1. s.next <= sent /\ HeadPos <= r.next
        BY <3>2, <3>5
      <4>2. HeadPos + rwndSize <= Unread(s) + Window /\ sent <= Unread(s) + Window
        <5>1. HeadPos + rwndSize <= Unread(r) + Window /\ sent <= Unread(r) + Window
          BY <2>6, <4>1
        <5>. QED BY <1>1, <1>2, <2>4, <2>5, <5>1, SMTT(30)
      <4>3. ~(HeadPos > s.next)
        BY <1>2, <2>4, <2>5, <4>1
      <4>. QED BY <1>5, <2>1, <2>6, <2>12, <4>1, <4>2, <4>3
    <3>6. Len(r.buf) <= Len(r.buf)
      BY <2>4
    <3>7. \A p : Outcome(r, p, s, Others(p)) =>
            \/ s.next = r.next /\ s.buf = r.buf
            \/ ~Finished(r) /\ p.seq = r.next /\ p.kind # "error" /\ Taken1(r, p, s, Others(p))
      BY DEF Outcome, Ignored, FailedBy, SetAside
    <3>8. \/ s.next = r.next /\ Len(s.buf) <= Len(r.buf)
          \/ \E p \in data : /\ p.id = i /\ ~Finished(r) /\ p.seq = r.next
                             /\ p.kind # "error" /\ Taken1(r, p, s, Others(p))
          \/ RestartGoesOn /\ i = stream /\ s.next = restart.announced /\ s.buf = r.buf
             /\ restart.announced > restart.seq
      <4> HIDE DEF Leaves
      <4>. QED BY <2>1, <2>2, <3>1, <3>6, <3>7, ReaderStep
    <3>. QED BY <3>3, <3>4, <3>5, <3>8
  <2>13. CASE HeadPos' <= s.next
    <3>1. ~(HeadPos' > s.next)
      BY <1>2, <2>4, <2>13
    <3>. QED BY <1>4, <1>5, <2>1, <2>8, <2>9, <2>10, <2>11, <2>12, <2>13, <3>1, SenderStep
  <2>14. CASE ~(HeadPos' <= s.next)
    BY <1>4, <1>5, <2>1, <2>8, <2>9, <2>10, <2>11, <2>12, <2>14, SenderStep
  <2>. QED BY <2>13, <2>14
<1>6. CASE ~PrepareConnects
  BY <1>4, <1>5, <1>6 DEF Coming
<1>. QED BY <1>3, <1>6

-----------------------------------------------------------------------------
(* The invariant.                                                           *)

LEMMA Initial == Init => IInv
<1> SUFFICES ASSUME Init
             PROVE  IInv
  OBVIOUS
<1>1. /\ Streams = 1..MaxStreams /\ 1 \in Streams /\ MaxStreams \in Nat /\ Window \in Nat /\ MaxBytes \in Nat
      /\ RingSize \in Nat
  BY StreamsAssumption, ReaderAssumption, ManagerAssumption DEF Streams
<1>2. Remote!Init
  <2>1. Remote!StartedWith(1, Window) <=> StartedWith(1, Window)
    BY DEF Remote!StartedWith, StartedWith, Remote!NoAck, NoAck, Remote!Smaller, Smaller,
           Remote!EffectiveWindow, EffectiveWindow
  <2>2. StartedWith(1, Window) /\ Window \in 0..Window
    BY <1>1 DEF Init
  <2>. QED BY <1>1, <2>1, <2>2 DEF Remote!Init, Remote!Rwnds
<1>3. RemoteInv /\ Remote!TypeOK
  BY <1>2, RemoteStarts DEF RemoteInv
<1>4. /\ total = 0 /\ count = 0 /\ connected /\ streamId = 1 /\ rwndSize = Window
      /\ sentNotAcked = 0 /\ HeadPos = 0 /\ ~terminalAcked
  BY DEF Init, StartedWith, HeadPos
<1>5. PICK r : r = NewReader(0)
  OBVIOUS
<1>6. /\ r \in Readers /\ r.next = 0 /\ r.buf = <<>> /\ r.ooo = {}
      /\ ~r.eof /\ ~r.failed /\ ~r.closed /\ \A i \in Streams : readers[i] = r
  <2>1. 0 \in Nat /\ \A i \in Streams : readers[i] = r
    BY <1>5 DEF Init
  <2>. QED BY <1>5, <2>1, NewReaderIs
<1>7. /\ link = "routed" /\ live = TRUE /\ writer = 1 /\ data = {} /\ acks = {}
      /\ request = NoRequest /\ prep = NoPrep /\ pending = 0 /\ stream = 1
      /\ restart = NoRestart /\ file = <<>> /\ gap = 0 /\ done = "no"
      /\ loops[1] = Loop("read") /\ \A i \in Streams : i # 1 => loops[i] = NoLoop
  BY <1>1 DEF Init
<1>8. /\ request.kind = "none" /\ prep.at = "idle" /\ ~prep.lost /\ restart.at = "idle"
      /\ restart.result = "none"
  BY <1>7 DEF NoRequest, NoPrep, NoRestart
<1>9. /\ NoLoop.at = "off" /\ NoLoop.chunk = <<>> /\ NoLoop.end = "none"
      /\ Loop("read").at = "read" /\ Loop("read").chunk = <<>> /\ Loop("read").end = "none"
  BY DEF Loop, NoLoop
<1>10. \A i \in Streams : loops[i].chunk = <<>> /\ loops[i].end = "none"
  BY <1>1, <1>7, <1>9
<1>11. TypeOK
  <2>1. request \in [kind : {"none", "prepare", "start"}, seq : Nat]
    BY <1>7 DEF NoRequest
  <2>2. prep \in [at : {"idle", "head", "consume", "connect"}, id : 0..MaxStreams,
                  seq : Nat, head : Positions0, lost : BOOLEAN]
    BY <1>1, <1>7 DEF NoPrep, Positions0
  <2>3. restart \in [at : {"idle", "open", "prepare", "prepared", "start", "started"},
                     seq : Nat, announced : Nat,
                     result : {"none", "ok", "refused", "eof", "error"}]
    BY <1>7 DEF NoRestart
  <2>4. readers \in [Streams -> Readers]
    BY <1>5, <1>6 DEF Init
  <2>5. loops \in [Streams -> [at : {"off", "read", "check", "act"}, chunk : Seq(Positions0),
                               end : {"none", "eof", "error", "closed"}]]
    <3>1. <<>> \in Seq(Positions0)
      OBVIOUS
    <3>2. Loop("read") = [at |-> "read", chunk |-> <<>>, end |-> "none"]
      BY DEF Loop, NoLoop
    <3>3. loops = [i \in Streams |-> IF i = 1 THEN [at |-> "read", chunk |-> <<>>, end |-> "none"]
                                     ELSE [at |-> "off", chunk |-> <<>>, end |-> "none"]]
      BY <3>2 DEF Init, NoLoop
    <3>. QED BY <3>1, <3>3
  <2>6. file \in Seq([id : Streams, pos : Positions0])
    BY <1>7
  <2>7. writer \in 0..MaxStreams /\ pending \in 0..MaxStreams /\ stream \in Streams
    BY <1>1, <1>7
  <2>. QED BY <1>3, <1>7, <2>1, <2>2, <2>3, <2>4, <2>5, <2>6, <2>7 DEF TypeOK
<1>12. FiniteInv
  BY <1>6, FS_EmptySet DEF FiniteInv
<1>13. IdsInv
  BY <1>1, <1>4, <1>6, <1>7, <1>8 DEF IdsInv
<1>14. RestartInv
  BY <1>7, <1>8 DEF RestartInv
<1>15. TerminalInv
  BY <1>4, <1>6, <1>7, <1>8 DEF TerminalInv
<1>16. CorkedInv
  BY <1>8 DEF CorkedInv, Connecting
<1>17. \A i \in Streams : i > 1 => Unrun(i) /\ Untouched(readers[i])
  BY <1>6, <1>7 DEF Unrun, Untouched
<1>18. LoopsInv
  BY <1>1, <1>4, <1>6, <1>7, <1>8, <1>9, <1>10, <1>17 DEF LoopsInv
<1>19. ContiguityInv
  <2>1. ASSUME NEW i \in Streams
        PROVE  Contiguous(i)
    <3>1. loops[i].chunk \o readers[i].buf = <<>> /\ <<>> \in Seq(Positions0)
      BY <1>6, <1>10
    <3>2. readers[i].next \in Nat /\ \A k \in DOMAIN file : file[k].id # i
      BY <1>6, <1>7
    <3>3. Follows(<<>>, readers[i].next, i, file)
      BY <3>1, <3>2, FollowsFresh
    <3>. QED BY <3>1, <3>3, ContiguousIs
  <2>. QED BY <2>1 DEF ContiguityInv
<1>20. PacketsInv
  BY <1>1, <1>4, <1>6, <1>7 DEF PacketsInv
<1>21. BoundsInv
  BY <1>1, <1>4, <1>6, <1>7, <1>8 DEF BoundsInv
<1>22. HeadInv
  BY <1>4, <1>8 DEF HeadInv
<1>23. DroppedInv
  BY <1>1, <1>4, <1>6 DEF DroppedInv
<1>24. AcksInv
  BY <1>7 DEF AcksInv
<1>25. \A i \in Streams : Coming(i) = {}
  BY <1>6, <1>7 DEF Coming
<1>26. FlowInv
  BY <1>1, <1>6, <1>7, <1>25 DEF FlowInv
<1>27. SenderInv
  BY <1>1, <1>4, <1>6, <1>25 DEF SenderInv, Unread
<1>. QED BY <1>3, <1>11, <1>12, <1>13, <1>14, <1>15, <1>16, <1>18, <1>19, <1>20, <1>21, <1>22,
            <1>23, <1>24, <1>26, <1>27 DEF IInv

LEMMA StepKeeps == IInv /\ [Next]_vars => IInv'
<1> SUFFICES ASSUME IInv, [Next]_vars
             PROVE  IInv'
  OBVIOUS
<1>1. TypeOK' /\ RemoteInv' /\ FiniteInv'
  <2>1. RemoteInv'
    BY StepIsManagerStep, RemoteStepKeeps DEF IInv
  <2>2. FiniteInv'
    BY ReadersKept DEF FiniteInv
  <2>. QED BY <2>1, <2>2, TypesKept
<1>2. IdsInv' /\ RestartInv' /\ TerminalInv' /\ CorkedInv' /\ LoopsInv' /\ ContiguityInv'
  BY IdsKept, RestartKept, TerminalKept, CorkedKept, LoopsKept, ContiguityKept
<1>3. PacketsInv' /\ BoundsInv' /\ HeadInv' /\ DroppedInv' /\ AcksInv' /\ FlowInv' /\ SenderInv'
  BY PacketsKept, BoundsKept, HeadKept, DroppedKept, AcksKept, FlowKept, SenderKept
<1>. QED BY <1>1, <1>2, <1>3 DEF IInv

LEMMA Invariance == Spec => []IInv
  BY Initial, StepKeeps, PTL DEF Spec

-----------------------------------------------------------------------------
(* What the invariant says.                                                 *)

\* The bytes that are set aside in a reader have places of their own in a stretch of the output.
LEMMA AsideFits ==
  ASSUME NEW ooo \in SUBSET Packets, NEW from \in Nat, NEW room \in Nat,
         \A p \in ooo : p.len > 0 => from <= p.seq /\ End(p) <= from + room,
         \A p, q \in ooo : p.len > 0 /\ q.len > 0 /\ p # q => Disjoint(p, q)
  PROVE  /\ Cardinality(UNION {{<<p, k>> : k \in 1..p.len} : p \in ooo}) \in Nat
         /\ Cardinality(UNION {{<<p, k>> : k \in 1..p.len} : p \in ooo}) <= room
<1> DEFINE S == UNION {{<<p, k>> : k \in 1..p.len} : p \in ooo}
           T == from..(from + room - 1)
           f == [x \in S |-> x[1].seq + x[2] - 1]
<1>1. ASSUME NEW x \in S
      PROVE  /\ x[1] \in ooo /\ x[2] \in Int /\ 1 <= x[2] /\ x[2] <= x[1].len
             /\ x[1].seq \in Nat /\ x[1].len \in Nat /\ x = <<x[1], x[2]>>
  <2>1. PICK p \in ooo : \E k \in 1..p.len : x = <<p, k>>
    OBVIOUS
  <2>2. p.seq \in Nat /\ p.len \in Nat
    BY DEF Packets, Positions0
  <2>. QED BY <2>1, <2>2
<1>2. f \in [S -> T]
  BY <1>1 DEF End
<1>3. ASSUME NEW x \in S, NEW y \in S, f[x] = f[y]
      PROVE  x = y
  <2>1. x[1].seq + x[2] - 1 = y[1].seq + y[2] - 1
    BY <1>3
  <2>2. x[1] = y[1]
    BY <1>1, <2>1 DEF Disjoint, End
  <2>. QED BY <1>1, <2>1, <2>2
<1>4. IsFiniteSet(T) /\ Cardinality(T) <= room
  <2>1. from \in Int /\ from + room - 1 \in Int
    OBVIOUS
  <2>2. /\ IsFiniteSet(T)
        /\ Cardinality(T) = IF from > from + room - 1 THEN 0 ELSE (from + room - 1) - from + 1
    BY ONLY <2>1, FS_Interval
  <2>. QED BY <2>2
<1>5. IsFiniteSet(S) /\ Cardinality(S) <= Cardinality(T)
  <2>1. f \in Injection(S, T)
    <3> HIDE DEF f, S, T
    <3>. QED BY <1>2, <1>3 DEF Injection, IsInjective
  <2> HIDE DEF f, S, T
  <2>. QED BY <1>4, <2>1, FS_Injection
<1>6. Cardinality(S) \in Nat /\ Cardinality(T) \in Nat
  <2> HIDE DEF S, T
  <2>. QED BY <1>4, <1>5, FS_CardinalityType
<1> HIDE DEF S, T
<1>7. Cardinality(S) \in Nat /\ Cardinality(S) <= room
  BY <1>4, <1>5, <1>6
<1>. QED BY <1>7 DEF S

LEMMA WindowIs == IInv => WindowRespected
<1> SUFFICES ASSUME IInv, NEW i \in Streams
             PROVE  HeldBytes(readers[i]) <= Window
  BY DEF WindowRespected
<1> DEFINE r == readers[i]
<1>1. /\ TypeOK /\ FlowInv /\ PacketsInv
  BY DEF IInv
<1>2. r \in Readers /\ r.ooo \subseteq Packets /\ r.next \in Nat /\ Len(r.buf) \in Nat /\ Window \in Nat
  BY <1>1, SessionTypes
<1>3. \A p \in r.ooo : p.len > 0 => p \in Coming(i)
  BY <1>1 DEF PacketsInv, PacketOk, Coming
<1>4. /\ Len(r.buf) <= Window
      /\ \A p \in Coming(i) : r.next <= p.seq
      /\ \A p, q \in Coming(i) : p # q => Disjoint(p, q)
      /\ \/ \A p \in Coming(i) : End(p) <= Unread(r) + Window
         \/ /\ r.buf = <<>>
            /\ \A p, q \in Coming(i) : End(p) <= q.seq + Window
  BY <1>1 DEF FlowInv
<1>5. \A p, q \in r.ooo : p.len > 0 /\ q.len > 0 /\ p # q => Disjoint(p, q)
  BY <1>3, <1>4
<1> DEFINE aside == Cardinality(UNION {{<<p, k>> : k \in 1..p.len} : p \in r.ooo})
<1>6. Len(r.buf) + aside <= Window
  <2>1. CASE \A p \in Coming(i) : End(p) <= Unread(r) + Window
    <3> DEFINE room == Window - Len(r.buf)
    <3>1. room \in Nat
      BY <1>2, <1>4
    <3>2. \A p \in r.ooo : p.len > 0 => r.next <= p.seq /\ End(p) <= r.next + room
      BY <1>2, <1>3, <1>4, <2>1 DEF Unread
    <3> HIDE DEF room
    <3>3. aside \in Nat /\ aside <= room
      <4> HIDE DEF r
      <4>. QED BY <1>2, <1>5, <3>1, <3>2, AsideFits
    <3> HIDE DEF aside
    <3>. QED BY <1>2, <3>3 DEF room
  \* What is set aside lies in one window, wherever it is.
  <2>2. CASE /\ r.buf = <<>>
             /\ \A p, q \in Coming(i) : End(p) <= q.seq + Window
    <3> DEFINE Bytes == {p \in r.ooo : p.len > 0}
    <3>1. \A p \in r.ooo : p.seq \in Nat /\ p.len \in Nat
      BY <1>1, <1>2, SessionTypes
    <3>2. PICK from \in Nat : \A p \in r.ooo : p.len > 0 => from <= p.seq /\ End(p) <= from + Window
      <4>1. CASE Bytes = {}
        BY <4>1
      <4>2. CASE Bytes # {}
        <5> DEFINE seqs == {p.seq : p \in Bytes}
        <5>1. seqs \subseteq Nat /\ seqs # {}
          BY <3>1, <4>2
        <5>2. PICK from \in seqs : \A n \in seqs : from <= n
          <6> HIDE DEF seqs
          <6>. QED BY <5>1, LeastNat
        <5>3. PICK q \in Bytes : from = q.seq
          BY <5>2
        <5>4. \A p \in Bytes : from <= p.seq /\ End(p) <= from + Window
          BY <1>3, <2>2, <5>2, <5>3
        <5>. QED BY <3>1, <5>3, <5>4
      <4>. QED BY <4>1, <4>2
    <3>3. aside \in Nat /\ aside <= Window
      <4> HIDE DEF r
      <4>. QED BY <1>2, <1>5, <3>2, AsideFits
    <3>4. Len(r.buf) = 0
      BY <2>2
    <3> HIDE DEF aside
    <3>. QED BY <1>2, <3>3, <3>4
  <2>. QED BY <1>4, <2>1, <2>2
<1>. QED BY <1>6 DEF HeldBytes

LEMMA EndIs == IInv => EndAfterOutput
  BY DEF IInv, LoopsInv, PacketsInv, EndAfterOutput

\* Flow control and the end of a stream: what a reader holds fits its window
\* however old the window is that the sender knows and whatever is overwritten,
\* and the end is stored after everything else.
THEOREM StreamIsSound == Spec => []StreamInv
<1>1. IInv => StreamInv
  BY WindowIs, EndIs DEF IInv, StreamInv
<1>. QED BY <1>1, Invariance, PTL

\* Between the network and the file a running loop loses, repeats or misplaces
\* no byte.
THEOREM OutputIsContiguous == Spec => []OutputContiguous
<1>1. IInv => OutputContiguous
  BY DEF IInv, LoopsInv, ContiguityInv, Contiguous, OutputContiguous
<1>. QED BY <1>1, Invariance, PTL

\* While the ring has never been full nothing leaves it that the reader of the
\* stream that runs does not have.
THEOREM NothingDroppedUnreceived == Spec => []DroppedOnlyWhenReceived
<1>1. IInv => DroppedOnlyWhenReceived
  BY DEF IInv, DroppedInv, DroppedOnlyWhenReceived
<1>. QED BY <1>1, Invariance, PTL

\* The position a stream is told to go on from is never past the ring's oldest byte, and
\* is that byte unless the ring is full: what was acknowledged, consumed or written since
\* PrepareConnect read it makes it stale only by overwriting (ClientConnected).
THEOREM RestartResumesAtHead == Spec => []ResumesAtHead
<1>1. IInv => ResumesAtHead
  BY DEF IInv, HeadInv, ResumesAtHead
<1>. QED BY <1>1, Invariance, PTL

\* Whatever the brokers, the main server and the links do, the remote end only
\* takes steps that StreamManagerOpen allows: its theorems hold of it here.
THEOREM RemoteEndIsStreamManager == Spec => RemoteIsStreamManager
<1>1. Init => Remote!Init
  <2>1. Remote!StartedWith(1, Window) <=> StartedWith(1, Window)
    BY DEF Remote!StartedWith, StartedWith, Remote!NoAck, NoAck, Remote!Smaller, Smaller,
           Remote!EffectiveWindow, EffectiveWindow
  <2>. QED BY <2>1, StreamsAssumption, ReaderAssumption DEF Init, Remote!Init, Remote!Rwnds, Streams
<1>2. IInv /\ [Next]_vars => [Remote!Next]_(Remote!managerVars)
  BY StepIsManagerStep, ManagerStepIsRemote
<1>. QED BY <1>1, <1>2, Invariance, PTL DEF Spec, RemoteIsStreamManager, Remote!Spec

-----------------------------------------------------------------------------
(* A single stream.                                                         *)

\* What is stored is all there was, in its place; the stream that is not closed
\* goes on after it.
OneInv ==
  /\ restart.at = "idle"
  /\ \A k \in DOMAIN file : file[k].pos = k - 1
  /\ ~readers[1].closed =>
       /\ done = "no"
       /\ readers[1].next = Len(file) + Len(loops[1].chunk) + Len(readers[1].buf)

Stored(f) == [k \in DOMAIN f |-> f[k].pos]

LEMMA OneTypes ==
  ASSUME TypeOK, MaxStreams = 1
  PROVE  /\ Streams = {1} /\ stream = 1 /\ streamId = 1
         /\ DOMAIN file = 1..Len(file) /\ Len(file) \in Nat
         /\ readers[1] \in Readers /\ readers[1].next \in Nat
         /\ loops[1].chunk \in Seq(Positions0) /\ readers[1].buf \in Seq(Positions0)
         /\ Len(loops[1].chunk) \in Nat /\ Len(readers[1].buf) \in Nat
<1>1. Streams = {1}
  BY DEF Streams
<1>2. stream = 1 /\ streamId = 1
  BY <1>1, Numbers
<1>3. file \in Seq([id : Streams, pos : Positions0])
  BY DEF TypeOK
<1>4. readers[1] \in Readers /\ readers[1].next \in Nat
      /\ loops[1].chunk \in Seq(Positions0) /\ readers[1].buf \in Seq(Positions0)
  BY <1>1, SessionTypes
<1>. QED BY <1>1, <1>2, <1>3, <1>4

\* What the loop takes from its reader is what comes next in the file.
LEMMA ChunkIs ==
  ASSUME IInv, OneInv, MaxStreams = 1, ~readers[1].closed
  PROVE  /\ \A k \in 1..Len(loops[1].chunk) : loops[1].chunk[k] = Len(file) + k - 1
         /\ Len(file) + Len(loops[1].chunk) <= total
<1>1. TypeOK /\ Contiguous(1) /\ readers[1].next <= total
  BY OneTypes DEF IInv, ContiguityInv, BoundsInv
<1> DEFINE c == loops[1].chunk
           b == readers[1].buf
<1>2. /\ c \in Seq(Positions0) /\ b \in Seq(Positions0) /\ Len(c) \in Nat /\ Len(b) \in Nat
      /\ Len(file) \in Nat /\ readers[1].next \in Nat /\ total \in Nat
  BY <1>1, OneTypes, ManagerTypes
<1>3. /\ Len(c \o b) = Len(c) + Len(b)
      /\ \A k \in 1..(Len(c) + Len(b)) :
           (c \o b)[k] = IF k <= Len(c) THEN c[k] ELSE b[k - Len(c)]
      /\ c \o b \in Seq(Positions0)
  <2> HIDE DEF c, b
  <2>. QED BY ONLY <1>2, ConcatProperties, Zenon
<1>4. readers[1].next = Len(file) + Len(c) + Len(b)
  BY DEF OneInv
<1>5. \A k \in DOMAIN (c \o b) : (c \o b)[k] = (readers[1].next - Len(c \o b)) + k - 1
  BY <1>1, ContiguousIs, OneTypes DEF Follows
<1>6. DOMAIN (c \o b) = 1..(Len(c) + Len(b))
  BY <1>3
<1> HIDE DEF c, b
<1>7. ASSUME NEW k \in 1..Len(c)
      PROVE  c[k] = Len(file) + k - 1
  <2>1. k \in 1..(Len(c) + Len(b)) /\ k <= Len(c)
    BY <1>2
  <2>. QED BY <1>2, <1>3, <1>4, <1>5, <1>6, <2>1
<1>8. Len(file) + Len(c) <= total
  BY <1>1, <1>2, <1>4
<1>. QED BY <1>7, <1>8 DEF c

LEMMA OneKept ==
  ASSUME MaxStreams = 1, IInv, OneInv, [Next]_vars
  PROVE  OneInv'
<1>1. TypeOK /\ TypeOK' /\ LoopsInv
  BY TypesKept DEF IInv
<1>2. /\ Streams = {1} /\ stream = 1
      /\ DOMAIN file = 1..Len(file) /\ Len(file) \in Nat
      /\ readers[1] \in Readers /\ readers[1].next \in Nat
      /\ loops[1].chunk \in Seq(Positions0) /\ readers[1].buf \in Seq(Positions0)
      /\ Len(loops[1].chunk) \in Nat /\ Len(readers[1].buf) \in Nat
  BY <1>1, OneTypes
<1>3. /\ DOMAIN file' = 1..Len(file') /\ Len(file') \in Nat
      /\ readers'[1] \in Readers /\ readers'[1].next \in Nat
      /\ loops'[1].chunk \in Seq(Positions0) /\ readers'[1].buf \in Seq(Positions0)
      /\ Len(loops'[1].chunk) \in Nat /\ Len(readers'[1].buf) \in Nat
  <2>1. file' \in Seq([id : Streams, pos : Positions0])
    BY <1>1 DEF TypeOK
  <2>2. readers'[1] \in Readers /\ loops'[1].chunk \in Seq(Positions0)
    BY <1>1, <1>2 DEF TypeOK
  <2>3. readers'[1].next \in Nat /\ readers'[1].buf \in Seq(Positions0)
    BY <2>2 DEF Readers
  <2>. QED BY <2>1, <2>2, <2>3
<1>4. restart'.at = "idle"
  <2>1. ~RestartStats
    BY <1>2 DEF RestartStats
  <2>2. ~RestartCalls /\ ~RestartGoesOn
    BY <1>1, RestartEffect DEF OneInv
  <2>3. PrepareFindsDone \/ PrepareConsumes \/ PrepareConnects \/ StartsStream => restart' = restart
    <3>1. PrepareFindsDone => Replies("prepare", stream, terminalEvent, request.seq)
      BY DEF PrepareFindsDone
    <3>2. PrepareConsumes => restart' = restart \/ Replies("prepare", prep.id, "refused", 0)
      BY ConsumeEffect
    <3>3. StartsStream => Replies("start", pending, "ok", 0)
      BY DEF StartsStream
    <3>4. PrepareConnects => \E head : Replies("prepare", prep.id, "ok", head)
      BY DEF PrepareConnects
    <3>. QED BY <1>1, <3>1, <3>2, <3>3, <3>4, ReplyEffect DEF OneInv
  <2>. QED BY <1>1, <2>1, <2>2, <2>3, Frames, RestartEffect DEF OneInv
<1>5. ASSUME NEW k \in DOMAIN file'
      PROVE  file'[k].pos = k - 1
  <2>1. CASE file' = file
    BY <2>1 DEF OneInv
  <2>2. ASSUME LoopStores(1), loops[1].at = "act",
               Len(file') = Len(file) + Len(loops[1].chunk),
               \A l \in 1..Len(file) : file'[l] = file[l],
               \A l \in (Len(file) + 1)..Len(file') :
                 file'[l] = [id |-> 1, pos |-> loops[1].chunk[l - Len(file)]]
        PROVE  file'[k].pos = k - 1
    <3>1. CASE k \in 1..Len(file)
      BY <1>2, <2>2, <3>1 DEF OneInv
    <3>2. CASE k \in (Len(file) + 1)..Len(file')
      <4>1. ~readers[1].closed
        BY <1>1, <1>2, <2>2 DEF LoopsInv
      <4>2. k - Len(file) \in 1..Len(loops[1].chunk)
        BY <1>2, <2>2, <3>2
      <4>3. loops[1].chunk[k - Len(file)] = Len(file) + (k - Len(file)) - 1
        BY <4>1, <4>2, ChunkIs
      <4>4. file'[k].pos = loops[1].chunk[k - Len(file)]
        <5>1. file'[k] = [id |-> 1, pos |-> loops[1].chunk[k - Len(file)]]
          BY ONLY <2>2, <3>2
        <5>. QED BY ONLY <5>1
      <4>5. \A l, n \in Int : n + (l - n) - 1 = l - 1
        OBVIOUS
      <4>6. k \in Int
        BY <3>2
      <4>. QED BY <1>2, <4>3, <4>4, <4>5, <4>6
    <3>. QED BY <1>2, <1>3, <3>1, <3>2
  <2>. QED BY <1>1, <1>2, <2>1, <2>2, FileStep
<1>6. ASSUME ~readers'[1].closed
      PROVE  /\ done' = "no"
             /\ readers'[1].next = Len(file') + Len(loops'[1].chunk) + Len(readers'[1].buf)
  <2> DEFINE r == readers[1]
             s == readers'[1]
  <2>14. r \in Readers /\ s \in Readers
    BY <1>2, <1>3
  <2>13. /\ r.next \in Nat /\ Len(r.buf) \in Nat /\ Len(loops[1].chunk) \in Nat
         /\ s.next \in Nat /\ Len(s.buf) \in Nat /\ Len(loops'[1].chunk) \in Nat
         /\ Len(file) \in Nat /\ Len(file') \in Nat
    BY <1>2, <1>3
  <2>1. ~r.closed
    BY <1>2, <1>6, EndedStays
  <2>2. done = "no" /\ r.next = Len(file) + Len(loops[1].chunk) + Len(r.buf)
    BY <2>1 DEF OneInv
  <2> DEFINE n == r.next
             f == Len(file)
             c == Len(loops[1].chunk)
             b == Len(r.buf)
             m == s.next
             g == Len(file')
             d == Len(loops'[1].chunk)
             e == Len(s.buf)
  <2>15. /\ n \in Nat /\ f \in Nat /\ c \in Nat /\ b \in Nat
         /\ m \in Nat /\ g \in Nat /\ d \in Nat /\ e \in Nat
         /\ n = f + c + b
    BY <2>2, <2>13
  <2>9. ASSUME m - e = n - b, g + d = f + c
        PROVE  m = g + d + e
    <3> HIDE DEF n, f, c, b, m, g, d, e
    <3>. QED BY ONLY <2>9, <2>15
  <2>10. ASSUME m = n, b = d + e, c = 0, g = f
         PROVE  m = g + d + e
    <3> HIDE DEF n, f, c, b, m, g, d, e
    <3>. QED BY ONLY <2>10, <2>15
  <2>3. ~LoopSuperseded(1) /\ ~LoopEnds(1) /\ ~RestartEnds /\ ~RestartGoesOn /\ ~RestartCalls
        /\ ~RestartFails /\ ~RestartRunsLoop
    <3>1. LoopSuperseded(1) \/ LoopEnds(1) => s.closed
      <4>1. LoopSuperseded(1) \/ LoopEnds(1) => s = Close(r)
        BY <1>1, <1>2 DEF LoopSuperseded, LoopEnds, CloseReader, TypeOK
      <4>. QED BY <1>2, <4>1, CloseIs
    <3>2. ~RestartEnds /\ ~RestartFails /\ ~RestartRunsLoop
      BY DEF RestartEnds, RestartFails, RestartRunsLoop, OneInv
    <3>3. ~RestartGoesOn /\ ~RestartCalls
      BY <1>1, RestartEffect DEF OneInv
    <3>. QED BY <1>6, <3>1, <3>2, <3>3
  <2>4. ~ServerRestarts
    <3>1. ServerRestarts => s = [NewReader(0) EXCEPT !.closed = TRUE]
      BY <1>2 DEF ServerRestarts
    <3>. QED BY <1>6, <3>1 DEF NewReader
  <2>5. done' = "no"
    BY <1>2, <2>2, <2>3, Frames
  <2>6. CASE LoopStores(1)
    <3>1. readers' = readers /\ loops'[1] = Loop("read")
      BY <1>1, <1>2, <2>6 DEF LoopStores, TypeOK
    <3>2. Len(loops'[1].chunk) = 0
      BY <3>1 DEF Loop, NoLoop
    <3>3. Len(file') = Len(file) + Len(loops[1].chunk)
      <4>1. file' = file \o [k \in 1..Len(loops[1].chunk) |-> [id |-> 1, pos |-> loops[1].chunk[k]]]
        BY <1>2, <2>6 DEF LoopStores
      <4>2. [k \in 1..Len(loops[1].chunk) |-> [id |-> 1, pos |-> loops[1].chunk[k]]]
              \in Seq([id : Streams, pos : Positions0])
        BY <1>2
      <4>3. file \in Seq([id : Streams, pos : Positions0])
        BY <1>1 DEF TypeOK
      <4>. QED BY <1>2, <4>1, <4>2, <4>3
    <3>4. s.next - Len(s.buf) = r.next - Len(r.buf)
      BY <3>1
    <3>5. Len(file') + Len(loops'[1].chunk) = Len(file) + Len(loops[1].chunk)
      BY <2>13, <3>2, <3>3
    <3>6. s.next = Len(file') + Len(loops'[1].chunk) + Len(s.buf)
      BY <2>9, <3>4, <3>5
    <3>. QED BY <2>5, <3>6
  <2>7. CASE LoopReads(1)
    <3>1. /\ s = Read(r) /\ loops'[1].chunk = ReadChunk(r) /\ loops[1].at = "read" /\ file' = file
      BY <1>1, <1>2, <2>7 DEF LoopReads, TypeOK
    <3>2. Len(loops[1].chunk) = 0
      <4>1. loops[1] = Loop("read")
        BY <1>1, <1>2, <3>1 DEF LoopsInv
      <4>. QED BY <4>1 DEF Loop, NoLoop
    <3>3. s.next = r.next /\ loops'[1].chunk \o s.buf = r.buf
      <4>1. ReadChunk(r) \o Read(r).buf = r.buf /\ Read(r).next = r.next
        <5> HIDE DEF r, s
        <5>. QED BY ReadIs, <2>14
      <4>. QED BY <3>1, <4>1
    <3>4. Len(loops'[1].chunk \o s.buf) = Len(loops'[1].chunk) + Len(s.buf)
      BY <1>3
    <3>5. Len(r.buf) = Len(loops'[1].chunk) + Len(s.buf) /\ Len(file') = Len(file)
      BY <3>1, <3>3, <3>4
    <3>7. s.next = Len(file') + Len(loops'[1].chunk) + Len(s.buf)
      BY <2>10, <3>2, <3>3, <3>5
    <3>. QED BY <2>5, <3>7
  <2>8. CASE ~LoopStores(1) /\ ~LoopReads(1)
    <3>1. file' = file
      BY <1>1, <1>2, <2>8, FileStep
    <3>2. loops'[1].chunk = loops[1].chunk
      BY <1>1, <1>2, <2>3, <2>4, <2>8, LoopMoves
    <3>3. s.next - Len(s.buf) = r.next - Len(r.buf)
      <4>1. \A p : Outcome(r, p, s, Others(p)) =>
              \/ s.next = r.next /\ s.buf = r.buf
              \/ Len(s.buf) = Len(r.buf) + (s.next - r.next)
        BY DEF Outcome, Ignored, FailedBy, SetAside, Taken1
      <4>2. \/ s.next = r.next /\ s.buf = r.buf
            \/ Len(s.buf) = Len(r.buf) + (s.next - r.next)
        BY <1>2, <1>6, <2>3, <2>4, <2>8, <4>1, ReaderStep
      <4>3. s.next = r.next /\ s.buf = r.buf => s.next - Len(s.buf) = r.next - Len(r.buf)
        OBVIOUS
      <4>4. \A x, y, z, w \in Nat : w = y + (z - x) => z - w = x - y
        OBVIOUS
      <4>5. Len(s.buf) = Len(r.buf) + (s.next - r.next) => s.next - Len(s.buf) = r.next - Len(r.buf)
        BY ONLY <2>13, <4>4, SMTT(30)
      <4>. QED BY <4>2, <4>3, <4>5
    <3>4. Len(file') + Len(loops'[1].chunk) = Len(file) + Len(loops[1].chunk)
      BY <3>1, <3>2
    <3>5. s.next = Len(file') + Len(loops'[1].chunk) + Len(s.buf)
      BY <2>9, <3>3, <3>4
    <3>. QED BY <2>5, <3>5
  <2>. QED BY <2>6, <2>7, <2>8
<1>. QED BY <1>4, <1>5, <1>6 DEF OneInv

\* A step writes a byte, or leaves what is written as it is.
LEMMA TotalStep ==
  ASSUME IInv, [Next]_vars
  PROVE  total' = total \/ (total' = total + 1 /\ UNCHANGED <<file, done>>)
<1>1. UNCHANGED managerVars => total' = total
  BY DEF managerVars, ringVars
<1>2. PtySignals \/ PtyFinishes \/ SenderWaits => total' = total
  BY DEF PtySignals, PtyFinishes, SenderWaits, SignalSender, PtyEnds, SenderSleeps, ringVars
<1>3. SenderSends => total' = total
  BY GoroutineEffect DEF Goroutine
<1>4. PtyWrites => total' = total \/ (total' = total + 1 /\ UNCHANGED <<file, done>>)
  BY DEF PtyWrites, WriteByte, WriteBlocks, localVars
<1>5. (\E ack \in acks : AckArrives(ack)) => total' = total
  BY AckEffect
<1>6. PrepareDisconnects \/ PrepareConsumes \/ PrepareConnects \/ StartsStream => total' = total
  BY DisconnectEffect, ConsumeEffect, ConnectEffect, StartEffect
<1>. QED BY <1>1, <1>2, <1>3, <1>4, <1>5, <1>6, Frames

LEMMA OneStep ==
  ASSUME MaxStreams = 1, IInv, OneInv, [Next]_vars
  PROVE  [Abstract!Next]_<<total, Stored(file), done>>
<1>1. TypeOK /\ TypeOK' /\ LoopsInv /\ PacketsInv
  BY TypesKept DEF IInv
<1>2. /\ Streams = {1} /\ stream = 1
      /\ DOMAIN file = 1..Len(file) /\ Len(file) \in Nat /\ total \in Nat
      /\ Len(loops[1].chunk) \in Nat /\ loops[1].chunk \in Seq(Positions0)
  BY <1>1, OneTypes, ManagerTypes
<1>3. total' = total \/ (total' = total + 1 /\ UNCHANGED <<file, done>>)
  BY TotalStep
<1>4. CASE UNCHANGED <<file, done>>
  <2>1. Stored(file)' = Stored(file)
    BY <1>4
  <2>. QED BY <1>3, <1>4, <2>1 DEF Abstract!Next, Abstract!Write, Stored
\* The loop stores its chunk.
<1>5. CASE LoopStores(1)
  <2> DEFINE c == loops[1].chunk
             n == Len(c)
  <2>1. total' = total /\ done' = done
    BY <1>5 DEF LoopStores, managerVars, ringVars
  <2>2. ~readers[1].closed /\ done = "no"
    BY <1>1, <1>2, <1>5 DEF LoopStores, LoopsInv, OneInv
  <2>3. /\ \A k \in 1..n : c[k] = Len(file) + k - 1
        /\ Len(file) + n <= total
    BY <2>2, ChunkIs
  <2>4. /\ Len(file') = Len(file) + n
        /\ \A k \in 1..Len(file) : file'[k] = file[k]
        /\ \A k \in (Len(file) + 1)..(Len(file) + n) : file'[k].pos = c[k - Len(file)]
        /\ DOMAIN file' = 1..(Len(file) + n)
    <3> DEFINE FT == [id : Streams, pos : Positions0]
               more == [k \in 1..n |-> [id |-> 1, pos |-> c[k]]]
    <3>1. more \in Seq(FT) /\ Len(more) = n /\ file \in Seq(FT) /\ file' = file \o more
      <4>1. file \in Seq(FT)
        BY <1>1 DEF TypeOK
      <4>2. more \in Seq(FT) /\ Len(more) = n
        BY <1>2
      <4>3. file' = file \o more
        BY <1>2, <1>5 DEF LoopStores
      <4>. QED BY <4>1, <4>2, <4>3
    <3>2. \A k \in 1..n : more[k].pos = c[k]
      OBVIOUS
    <3> HIDE DEF FT, more, n, c
    <3>3. /\ file \o more \in Seq(FT)
          /\ Len(file \o more) = Len(file) + Len(more)
          /\ \A k \in 1..(Len(file) + Len(more)) :
               (file \o more)[k] = IF k <= Len(file) THEN file[k] ELSE more[k - Len(file)]
      BY ONLY <3>1, ConcatProperties, Zenon
    <3>4. n \in Nat
      BY <1>2 DEF n, c
    <3>. QED BY <1>2, <3>1, <3>2, <3>3, <3>4
  <2>5. n \in Nat
    BY <1>2
  <2> HIDE DEF n, c
  <2>6. CASE n = 0
    <3>1. Stored(file)' = Stored(file)
      BY <1>2, <2>4, <2>6 DEF Stored
    <3>. QED BY <2>1, <3>1
  <2>7. CASE n # 0
    <3> DEFINE stored == Stored(file)
               added == [k \in 1..n |-> Len(stored) + k - 1]
    <3>1. stored \in Seq(Int) /\ Len(stored) = Len(file) /\ \A k \in 1..Len(file) : stored[k] = file[k].pos
      <4>1. \A k \in 1..Len(file) : file[k].pos \in Int
        BY <1>2 DEF OneInv
      <4>. QED BY <1>2, <4>1, IsASeq DEF Stored
    <3>2. added \in Seq(Int) /\ Len(added) = n /\ \A k \in 1..n : added[k] = Len(file) + k - 1
      <4>1. \A k \in 1..n : Len(stored) + k - 1 \in Int
        BY <1>2, <2>5, <3>1
      <4>. QED BY <2>5, <3>1, <4>1, IsASeq
    <3>7. stored \in Seq(Int) /\ added \in Seq(Int)
      BY <3>1, <3>2
    <3> HIDE DEF stored, added
    <3>3. /\ stored \o added \in Seq(Int)
          /\ Len(stored \o added) = Len(stored) + Len(added)
          /\ \A k \in 1..(Len(stored) + Len(added)) :
               (stored \o added)[k] = IF k <= Len(stored) THEN stored[k] ELSE added[k - Len(stored)]
      BY ONLY <3>7, ConcatProperties, Zenon
    <3>4. Stored(file)' = stored \o added
      <4>1. DOMAIN (stored \o added) = 1..(Len(file) + n)
        BY <3>1, <3>2, <3>3
      <4>2. ASSUME NEW k \in 1..(Len(file) + n)
            PROVE  file'[k].pos = (stored \o added)[k]
        <5>1. CASE k \in 1..Len(file)
          BY <1>2, <2>4, <2>5, <3>1, <3>2, <3>3, <5>1
        <5>2. CASE k \in (Len(file) + 1)..(Len(file) + n)
          <6>1. k - Len(file) \in 1..n /\ ~(k <= Len(file))
            BY <1>2, <2>5, <5>2
          <6>2. file'[k].pos = Len(file) + (k - Len(file)) - 1
            BY <2>3, <2>4, <5>2, <6>1
          <6>3. (stored \o added)[k] = Len(file) + (k - Len(file)) - 1
            BY <3>1, <3>2, <3>3, <6>1
          <6>. QED BY <6>2, <6>3
        <5>3. k \in 1..Len(file) \/ k \in (Len(file) + 1)..(Len(file) + n)
          BY <1>2, <2>5
        <5>. QED BY <5>1, <5>2, <5>3
      <4>3. Stored(file)' = [k \in 1..(Len(file) + n) |-> file'[k].pos]
        BY <2>4 DEF Stored
      <4>4. stored \o added = [k \in 1..(Len(file) + n) |-> (stored \o added)[k]]
        <5>1. PICK q \in Seq(Int) : q = stored \o added
          BY <3>3
        <5>2. PICK m \in Nat : q \in [1..m -> Int]
          <6>1. Seq(Int) = UNION {[1..m -> Int] : m \in Nat}
            BY ONLY SeqDef
          <6>. QED BY <5>1, <6>1
        <5>3. q = [k \in 1..m |-> q[k]] /\ DOMAIN q = 1..m
          BY ONLY <5>2
        <5>4. DOMAIN q = 1..(Len(file) + n)
          BY <4>1, <5>1
        <5>5. q = [k \in 1..(Len(file) + n) |-> q[k]]
          BY ONLY <5>3, <5>4
        <5>. QED BY ONLY <5>1, <5>5
      <4>. QED BY <4>2, <4>3, <4>4
    <3>5. n \in 1..(total - Len(stored))
      BY <1>2, <2>3, <2>5, <2>7, <3>1
    <3>6. Abstract!Store
      <4>1. Abstract!Store <=> /\ done = "no"
                               /\ \E m \in 1..(total - Len(stored)) :
                                    Stored(file)' = stored \o [k \in 1..m |-> Len(stored) + k - 1]
                               /\ UNCHANGED <<total, done>>
        BY DEF Abstract!Store, Stored, stored
      <4>. QED BY <2>1, <2>2, <3>4, <3>5, <4>1 DEF added
    <3>. QED BY <3>6 DEF Abstract!Next
  <2>. QED BY <2>6, <2>7
\* The loop comes to the end.
<1>6. CASE LoopEnds(1)
  <2>1. total' = total /\ file' = file /\ loops[1].at = "act" /\ loops[1].end # "none"
        /\ done' = IF loops[1].end = "eof" THEN "eof" ELSE "error"
    BY <1>6 DEF LoopEnds, managerVars, ringVars
  <2>2. ~readers[1].closed /\ done = "no"
    BY <1>1, <1>2, <2>1 DEF LoopsInv, OneInv
  <2>3. loops[1].end = "eof" => Len(file) = total
    <3>1. loops[1].end = "eof" => readers[1].next = total /\ Len(readers[1].buf) = 0
                                  /\ Len(loops[1].chunk) = 0
      BY <1>1, <1>2 DEF LoopsInv, PacketsInv
    <3>2. readers[1].next = Len(file) + Len(loops[1].chunk) + Len(readers[1].buf)
      BY <2>2 DEF OneInv
    <3>3. \A n, f, c, b \in Nat : n = f + c + b /\ b = 0 /\ c = 0 => n = f
      OBVIOUS
    <3>. QED BY <1>2, <3>1, <3>2, <3>3
  <2>4. Len(Stored(file)) = Len(file)
    BY <1>2, IsASeq DEF Stored
  <2>5. Abstract!End
    <3>1. Abstract!End <=> /\ done = "no" /\ done' \in {"eof", "error"}
                           /\ done' = "eof" => Len(Stored(file)) = total
                           /\ UNCHANGED <<total, Stored(file)>>
      BY DEF Abstract!End, Stored
    <3>. QED BY <2>1, <2>2, <2>3, <2>4, <3>1
  <2>. QED BY <2>5 DEF Abstract!Next
<1>7. (file' = file \/ LoopStores(1)) /\ (done' = done \/ LoopEnds(1))
  <2>1. ~RestartEnds
    BY DEF RestartEnds, OneInv
  <2>. QED BY <1>2, <2>1, Frames
<1>. QED BY <1>4, <1>5, <1>6, <1>7

\* A job with a single stream keeps what ByteStream promises: its file is a prefix
\* of what the process wrote, and the end is stored after all of it.
THEOREM OneStreamIsByteStream == MaxStreams = 1 => (Spec => OneStreamKept)
<1> SUFFICES ASSUME MaxStreams = 1
             PROVE  Spec => OneStreamKept
  OBVIOUS
<1>1. Init => OneInv /\ Abstract!Init
  <2> SUFFICES ASSUME Init
               PROVE  OneInv /\ Abstract!Init
    OBVIOUS
  <2>1. total = 0 /\ file = <<>> /\ done = "no" /\ restart.at = "idle"
    BY DEF Init, StartedWith, NoRestart
  <2>2. readers[1].next = 0 /\ readers[1].buf = <<>> /\ loops[1].chunk = <<>>
    BY DEF Init, Streams, NewReader, Loop, NoLoop
  <2>3. [k \in DOMAIN file |-> file[k].pos] = <<>>
    BY <2>1
  <2>. QED BY <2>1, <2>2, <2>3 DEF OneInv, Abstract!Init
<1>2. IInv /\ OneInv /\ [Next]_vars => OneInv'
  BY OneKept
<1>3. IInv /\ OneInv /\ [Next]_vars =>
        [Abstract!Next]_<<total, [k \in DOMAIN file |-> file[k].pos], done>>
  BY OneStep DEF Stored
<1>. QED BY <1>1, <1>2, <1>3, Invariance, PTL DEF Spec, OneStreamKept, Abstract!Spec
=============================================================================
