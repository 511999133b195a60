------------------------- MODULE StreamManagerProofs -------------------------
(***************************************************************************)
(* What holds of a StreamManager whatever its clients send.  The inductive *)
(* invariant is the conjunction of the four invariants the run checks: the *)
(* bounds of what is in flight need that an absent client has nothing in   *)
(* flight (ModeFollowsClient), the wake-ups need the bounds.               *)
(***************************************************************************)
EXTENDS StreamManagerOpen, TLAPS

Inv == TypeOK /\ ModeFollowsClient /\ BlockedOnlyWhenFull /\ SenderMissesNothing

\* The smaller of two numbers is one of them and above neither.
LEMMA SmallerNat ==
  \A a, b \in Nat : Smaller(a, b) \in Nat /\ Smaller(a, b) <= a /\ Smaller(a, b) <= b
  BY DEF Smaller

\* A StreamManager starts with every part of the invariant.
LEMMA Initial == Init => Inv
<1> SUFFICES ASSUME NEW id \in StreamIds, NEW rwnd \in Rwnds, StartedWith(id, rwnd)
             PROVE  Inv
  BY DEF Init
<1> rwnd \in Nat
  BY OpenAssumption DEF Rwnds
<1>1. windowSize \in 0..RingSize
  <2>1. EffectiveWindow(rwnd) \in Nat
    BY SmallerNat, ManagerAssumption DEF EffectiveWindow
  <2>. QED BY <2>1, SmallerNat, ManagerAssumption DEF StartedWith
<1>2. total \in 0..MaxBytes /\ count \in 0..RingSize /\ count <= total /\ sentNotAcked \in 0..count
  BY ManagerAssumption DEF StartedWith
<1>3. maxAcked \in [seq : 0..MaxBytes, rwnd : Rwnds]
  BY ManagerAssumption, OpenAssumption DEF StartedWith, NoAck, Rwnds
<1>4. TypeOK
  BY <1>1, <1>2, <1>3 DEF StartedWith, TypeOK
<1>. QED BY <1>4 DEF Inv, StartedWith, ModeFollowsClient, BlockedOnlyWhenFull,
                     SenderMissesNothing

\* SetEffectiveWindow of a ring that holds left bytes: its bounds, and a writer
\* that still waits has no room.  "woken" covers a ring that lost bytes.
LEMMA WindowSet ==
  ASSUME TypeOK, BlockedOnlyWhenFull,
         NEW sync \in BOOLEAN, NEW size \in Nat, NEW left \in 0..count,
         NEW woken \in BOOLEAN, left < count => woken,
         SetEffectiveWindow(sync, size, left, woken)
  PROVE  /\ windowSize' \in 0..RingSize
         /\ syncMode' = sync
         /\ count' \in 0..RingSize
         /\ count' <= left
         /\ sync => count' = left
         /\ total' = total
         /\ blocked' \in BOOLEAN
         /\ BlockedOnlyWhenFull'
<1> DEFINE window == Smaller(size, RingSize)
<1>1. window \in Nat /\ window <= RingSize
  BY SmallerNat, ManagerAssumption
<1>2. /\ windowSize' = window
      /\ syncMode' = sync
      /\ count' = IF ~sync /\ left > window THEN window ELSE left
      /\ blocked' = (blocked /\ ~woken /\ ~(syncMode /\ (window > windowSize \/ ~sync)))
      /\ total' = total
  BY DEF SetEffectiveWindow
<1>3. count \in 0..RingSize /\ windowSize \in 0..RingSize /\ blocked \in BOOLEAN
  BY DEF TypeOK
<1> HIDE DEF window
<1>4. blocked' \in BOOLEAN
  BY <1>2
<1>5. /\ windowSize' \in 0..RingSize
      /\ count' \in 0..RingSize
      /\ count' <= left
      /\ sync => count' = left
  BY <1>1, <1>2, <1>3, ManagerAssumption
<1>6. ASSUME blocked'
      PROVE  syncMode' /\ count' >= windowSize'
  <2>1. blocked /\ ~woken /\ ~(syncMode /\ (window > windowSize \/ ~sync))
    BY <1>2, <1>6
  <2>2. syncMode /\ count >= windowSize
    BY <2>1 DEF BlockedOnlyWhenFull
  <2>3. sync /\ ~(window > windowSize)
    BY <2>1, <2>2
  <2>4. left = count
    BY <2>1, <1>3
  <2>. QED BY <1>1, <1>2, <1>3, <2>2, <2>3, <2>4
<1>. QED BY <1>2, <1>4, <1>5, <1>6 DEF BlockedOnlyWhenFull

\* The windows the manager computes are numbers.
LEMMA WindowNat == \A rwnd \in Rwnds : EffectiveWindow(rwnd) \in Nat
  BY SmallerNat, ManagerAssumption, OpenAssumption DEF EffectiveWindow, Rwnds

-----------------------------------------------------------------------------
\* The goroutines keep the types and the bounds, and never sleep too early.
LEMMA GoroutinesKeep == Inv /\ Goroutines => Inv'
<1> SUFFICES ASSUME Inv, Goroutines PROVE Inv'
  OBVIOUS
<1> USE DEF Inv
<1>1. CASE WriteByte
  <2> USE <1>1 DEF WriteByte, PtyReady, sessionVars, terminalVars
  <2>1. connected => syncMode
    BY DEF ModeFollowsClient
  <2>2. total' \in 0..MaxBytes /\ count' \in 0..RingSize /\ count' <= total'
    BY ManagerAssumption DEF TypeOK
  <2>3. sentNotAcked' \in 0..count'
    BY ManagerAssumption DEF TypeOK
  <2>4. TypeOK'
    BY <2>2, <2>3 DEF TypeOK
  <2>5. ModeFollowsClient'
    BY DEF ModeFollowsClient
  <2>6. BlockedOnlyWhenFull' /\ SenderMissesNothing'
    BY DEF BlockedOnlyWhenFull, SenderMissesNothing
  <2>. QED BY <2>4, <2>5, <2>6
<1>2. CASE WriteBlocks
  <2> USE <1>2 DEF WriteBlocks, PtyReady, sessionVars, terminalVars
  <2>1. TypeOK' /\ ModeFollowsClient'
    BY DEF TypeOK, ModeFollowsClient
  <2>2. BlockedOnlyWhenFull'
    BY DEF BlockedOnlyWhenFull
  <2>3. SenderMissesNothing'
    BY DEF SenderMissesNothing, CanSendData, CanSendTerminal, Room
  <2>. QED BY <2>1, <2>2, <2>3
<1>3. CASE SignalSender
  <2> USE <1>3 DEF SignalSender, ringVars, sessionVars, terminalVars
  <2>. QED BY DEF TypeOK, ModeFollowsClient, BlockedOnlyWhenFull, SenderMissesNothing
<1>4. ASSUME NEW event \in {"eof", "error"}, PtyEnds(event)
      PROVE  Inv'
  <2> USE <1>4 DEF PtyEnds, PtyReady, ringVars, sessionVars
  <2>. QED BY DEF TypeOK, ModeFollowsClient, BlockedOnlyWhenFull, SenderMissesNothing
<1>5. CASE SendData
  <2> USE <1>5 DEF SendData, SenderRuns, ringVars, terminalVars
  <2>1. PacketSize \in Nat /\ PacketSize <= count - sentNotAcked
    <3>1. count \in Nat /\ sentNotAcked \in Nat /\ rwndSize \in Rwnds
      BY ManagerAssumption DEF TypeOK
    <3>2. Room \in Int /\ Room > 0 /\ sentNotAcked < count
      BY <3>1, WindowNat DEF CanSendData, Room
    <3>. QED BY <3>1, <3>2, ManagerAssumption DEF PacketSize, Smaller
  <2>2. sentNotAcked' \in 0..count'
    BY <2>1, ManagerAssumption DEF TypeOK
  <2>3. TypeOK'
    BY <2>2 DEF TypeOK
  <2>4. connected
    BY DEF CanSendData
  <2>. QED BY <2>3, <2>4 DEF ModeFollowsClient, BlockedOnlyWhenFull, SenderMissesNothing
<1>6. CASE SendTerminal
  <2> USE <1>6 DEF SendTerminal, SenderRuns, ringVars, sessionVars
  <2>. QED BY DEF TypeOK, ModeFollowsClient, BlockedOnlyWhenFull, SenderMissesNothing
<1>7. CASE SenderSleeps
  <2> USE <1>7 DEF SenderSleeps, ringVars, sessionVars, terminalVars
  <2>1. ~CanSendData' /\ ~CanSendTerminal'
    BY DEF CanSendData, CanSendTerminal, Room
  <2>. QED BY <2>1 DEF TypeOK, ModeFollowsClient, BlockedOnlyWhenFull, SenderMissesNothing
<1>. QED BY <1>1, <1>2, <1>3, <1>4, <1>5, <1>6, <1>7 DEF Goroutines

\* Connecting, disconnecting and changing the window keep the invariant.
LEMMA CallsKeep == Inv /\ Calls => Inv'
<1> SUFFICES ASSUME Inv, Calls PROVE Inv'
  OBVIOUS
<1> USE DEF Inv
<1>n. count \in Nat /\ count \in 0..count /\ count \in 0..RingSize /\ RingSize \in Nat
  BY ManagerAssumption DEF TypeOK
<1>w. ASSUME NEW sync \in BOOLEAN, NEW size \in Nat, SetEffectiveWindow(sync, size, count, FALSE)
      PROVE  /\ windowSize' \in 0..RingSize
             /\ syncMode' = sync
             /\ count' \in 0..RingSize
             /\ count' <= count
             /\ sync => count' = count
             /\ total' = total
             /\ blocked' \in BOOLEAN
             /\ BlockedOnlyWhenFull'
  <2>1. ~(count < count)
    BY <1>n
  <2>2. ASSUME NEW woken \in BOOLEAN, ~woken
        PROVE  SetEffectiveWindow(sync, size, count, woken)
    BY <1>w, <2>2 DEF SetEffectiveWindow
  <2>3. PICK woken \in BOOLEAN : ~woken
    OBVIOUS
  <2>. QED BY <1>n, <2>1, <2>2, <2>3, WindowSet
<1>1. CASE ClientDisconnected
  <2>1. CASE ~connected
    BY <1>1, <2>1 DEF ClientDisconnected, managerVars, ringVars, sessionVars, terminalVars,
      TypeOK, ModeFollowsClient, BlockedOnlyWhenFull, SenderMissesNothing, CanSendData,
      CanSendTerminal, Room
  <2>2. CASE connected
    <3>1. /\ connected' = FALSE /\ sentNotAcked' = 0 /\ maxAcked' = NoAck
          /\ terminalSent' = (terminalSent /\ terminalAcked)
          /\ SetEffectiveWindow(FALSE, RingSize, count, FALSE)
          /\ asleep' = FALSE
          /\ UNCHANGED <<signalDue, streamId, rwndSize, terminalEvent, terminalAcked>>
      BY <1>1, <2>2 DEF ClientDisconnected
    <3>2. /\ windowSize' \in 0..RingSize /\ syncMode' = FALSE /\ count' \in 0..RingSize
          /\ count' <= count /\ total' = total /\ blocked' \in BOOLEAN
          /\ BlockedOnlyWhenFull'
      BY <1>n, <1>w, <3>1
    <3>3. maxAcked' \in [seq : 0..MaxBytes, rwnd : Rwnds]
      BY <3>1, ManagerAssumption, OpenAssumption DEF NoAck, Rwnds
    <3>4. sentNotAcked' \in 0..count' /\ count' <= total' /\ total' \in 0..MaxBytes
      BY <3>1, <3>2, <1>n, ManagerAssumption DEF TypeOK
    <3>5. TypeOK'
      BY <3>1, <3>2, <3>3, <3>4 DEF TypeOK
    <3>. QED BY <3>1, <3>2, <3>5 DEF ModeFollowsClient, SenderMissesNothing
  <2>. QED BY <2>1, <2>2
<1>2. ASSUME NEW n \in 0..MaxBytes, ConsumeBytes(n)
      PROVE  Inv'
  <2> USE <1>2 DEF ConsumeBytes, sessionVars, terminalVars
  <2>0. sentNotAcked = 0 /\ n \in Nat
    BY ManagerAssumption DEF ModeFollowsClient
  <2>1. count' \in 0..RingSize /\ count' <= total' /\ sentNotAcked' \in 0..count'
    BY <2>0, <1>n, ManagerAssumption DEF TypeOK
  <2>2. TypeOK'
    BY <2>1 DEF TypeOK
  <2>3. BlockedOnlyWhenFull'
    <3>0. blocked' => blocked /\ n <= 0
      BY Zenon
    <3>1. n <= 0 => count' = count
      BY <2>0
    <3>2. syncMode' = syncMode /\ windowSize' = windowSize
      OBVIOUS
    <3>. QED BY <3>0, <3>1, <3>2 DEF BlockedOnlyWhenFull
  <2>. QED BY <2>0, <2>2, <2>3 DEF ModeFollowsClient, SenderMissesNothing, CanSendData,
                                  CanSendTerminal
<1>3. ASSUME NEW id \in StreamIds, NEW rwnd \in Rwnds, ClientConnected(id, rwnd)
      PROVE  Inv'
  <2>1. /\ connected' = TRUE /\ streamId' = id /\ rwndSize' = rwnd /\ sentNotAcked' = 0
        /\ SetEffectiveWindow(TRUE, EffectiveWindow(rwnd), count, FALSE)
        /\ asleep' = FALSE
        /\ UNCHANGED <<signalDue, maxAcked, terminalVars>>
    BY <1>3 DEF ClientConnected
  <2>2. /\ windowSize' \in 0..RingSize /\ syncMode' = TRUE /\ count' = count
        /\ total' = total /\ blocked' \in BOOLEAN /\ BlockedOnlyWhenFull'
    BY <1>w, <2>1, WindowNat
  <2>4. sentNotAcked' \in 0..count'
    BY <2>1, <2>2, <1>n
  <2>3. TypeOK'
    BY <2>1, <2>2, <2>4, <1>n DEF TypeOK, terminalVars
  <2>. QED BY <2>1, <2>2, <2>3 DEF ModeFollowsClient, SenderMissesNothing
<1>4. ASSUME NEW rwnd \in Rwnds, SetRwndSize(rwnd)
      PROVE  Inv'
  <2>1. /\ connected /\ rwndSize' = rwnd
        /\ SetEffectiveWindow(TRUE, EffectiveWindow(rwnd), count, FALSE)
        /\ asleep' = FALSE
        /\ UNCHANGED <<signalDue, connected, streamId, sentNotAcked, maxAcked, terminalVars>>
    BY <1>4 DEF SetRwndSize
  <2>2. /\ windowSize' \in 0..RingSize /\ syncMode' = TRUE /\ count' = count
        /\ total' = total /\ blocked' \in BOOLEAN /\ BlockedOnlyWhenFull'
    BY <1>w, <2>1, WindowNat
  <2>3. TypeOK'
    BY <2>1, <2>2, <1>n DEF TypeOK, terminalVars
  <2>. QED BY <2>1, <2>2, <2>3 DEF ModeFollowsClient, SenderMissesNothing
<1>. QED BY <1>1, <1>2, <1>3, <1>4 DEF Calls

\* An acknowledgement takes out of the ring what it acknowledges, and wakes the
\* sender when that or the window gave it room.
LEMMA AnswersKeep == Inv /\ Answers => Inv'
<1> SUFFICES ASSUME Inv, NEW ack \in Acks,
                    RecvAck(ack) \/ RecvFin(ack) \/ RecvOutside(ack) \/ RecvIgnored(ack)
             PROVE  Inv'
  BY DEF Answers
<1> USE DEF Inv
<1>a. ack.seq \in 0..MaxBytes /\ ack.rwnd \in Rwnds
  BY DEF Acks
<1>n. /\ count \in Nat /\ total \in Nat /\ sentNotAcked \in Nat /\ sentNotAcked <= count
      /\ RingSize \in Nat /\ ack.seq \in Nat /\ ack.rwnd \in Nat /\ rwndSize \in Nat
  BY <1>a, ManagerAssumption, OpenAssumption DEF TypeOK, Rwnds
<1>t. [seq |-> ack.seq, rwnd |-> ack.rwnd] \in [seq : 0..MaxBytes, rwnd : Rwnds]
  BY <1>a
<1>1. CASE RecvAck(ack)
  <2> DEFINE acked == ack.seq - HeadPos
  <2>1. /\ connected /\ acked \in 0..sentNotAcked
        /\ acked > 0 <=> ack.seq > HeadPos
    BY <1>1, <1>n DEF RecvAck, InFlight, HeadPos
  <2>2. /\ maxAcked' = [seq |-> ack.seq, rwnd |-> ack.rwnd]
        /\ sentNotAcked' = sentNotAcked - acked
        /\ rwndSize' = ack.rwnd
        /\ SetEffectiveWindow(TRUE, EffectiveWindow(ack.rwnd), count - acked, acked > 0)
        /\ UNCHANGED <<signalDue, connected, streamId, terminalVars>>
        /\ asleep' = (asleep /\ ~(ack.rwnd > rwndSize \/ ack.seq > HeadPos))
    BY <1>1 DEF RecvAck, TakesAck
  <2> HIDE DEF acked
  <2>3. /\ count - acked \in 0..count /\ (acked > 0) \in BOOLEAN
        /\ count - acked < count => acked > 0
    BY <2>1, <1>n
  <2>4. /\ windowSize' \in 0..RingSize /\ syncMode' = TRUE /\ count' = count - acked
        /\ count' \in 0..RingSize /\ total' = total /\ blocked' \in BOOLEAN
        /\ BlockedOnlyWhenFull'
    BY <2>2, <2>3, <1>a, WindowSet, WindowNat
  <2>5. sentNotAcked' \in 0..count' /\ count' <= total'
    BY <2>1, <2>2, <2>4, <1>n DEF TypeOK
  <2>6. asleep' \in BOOLEAN /\ maxAcked' \in [seq : 0..MaxBytes, rwnd : Rwnds]
    BY <2>2, <1>t
  <2>7. TypeOK'
    BY <2>2, <2>4, <2>5, <2>6, <1>a DEF TypeOK, terminalVars
  <2>8. ASSUME asleep', ~signalDue'
        PROVE  ~CanSendData' /\ ~CanSendTerminal'
    <3>1. /\ asleep /\ ~signalDue /\ ~(ack.rwnd > rwndSize) /\ ~(acked > 0)
      BY <2>1, <2>2, <2>8
    <3>2. acked = 0 /\ count' = count /\ sentNotAcked' = sentNotAcked
      BY <3>1, <2>1, <2>2, <2>4, <1>n
    <3>3. ~CanSendData /\ ~CanSendTerminal
      BY <3>1 DEF SenderMissesNothing
    <3>4. Room' <= Room
      BY <3>1, <3>2, <2>2, <1>n, ManagerAssumption DEF Room, EffectiveWindow, Smaller
    <3>5. Room \in Int /\ Room' \in Int
      BY <3>2, <2>2, <1>n, ManagerAssumption DEF Room, EffectiveWindow, Smaller
    <3>. QED BY <3>2, <3>3, <3>4, <3>5, <2>2 DEF CanSendData, CanSendTerminal, terminalVars
  <2>. QED BY <2>1, <2>2, <2>4, <2>7, <2>8 DEF ModeFollowsClient, SenderMissesNothing
<1>2. CASE RecvFin(ack)
  BY <1>2 DEF RecvFin, ringVars, sessionVars, TypeOK, ModeFollowsClient,
    BlockedOnlyWhenFull, SenderMissesNothing
<1>3. CASE RecvOutside(ack)
  <2>1. TypeOK'
    BY <1>3, <1>t DEF RecvOutside, ringVars, terminalVars, TypeOK
  <2>2. SenderMissesNothing'
    BY <1>3 DEF RecvOutside, ringVars, terminalVars, SenderMissesNothing, CanSendData,
      CanSendTerminal, Room
  <2>. QED BY <1>3, <2>1, <2>2 DEF RecvOutside, ringVars, ModeFollowsClient,
                                    BlockedOnlyWhenFull
<1>4. CASE RecvIgnored(ack)
  BY <1>4 DEF RecvIgnored, managerVars, ringVars, sessionVars, terminalVars, TypeOK,
    ModeFollowsClient, BlockedOnlyWhenFull, SenderMissesNothing, CanSendData,
    CanSendTerminal, Room
<1>. QED BY <1>1, <1>2, <1>3, <1>4

\* A step of a StreamManager, or none, keeps the invariant.
LEMMA StepKeeps == Inv /\ [Next]_managerVars => Inv'
<1>1. Inv /\ UNCHANGED managerVars => Inv'
  BY DEF managerVars, ringVars, sessionVars, terminalVars, Inv, TypeOK, ModeFollowsClient,
    BlockedOnlyWhenFull, SenderMissesNothing, CanSendData, CanSendTerminal, Room
<1>. QED BY <1>1, GoroutinesKeep, CallsKeep, AnswersKeep DEF Next

\* The invariant holds throughout.
LEMMA Invariance == Spec => []Inv
  BY Initial, StepKeeps, PTL DEF Spec

-----------------------------------------------------------------------------
\* For every size of the ring and of the windows, and whatever the clients send,
\* what is in flight is in the ring and what is in the ring has been written.
THEOREM ManagerTypeCorrect == Spec => []TypeOK
<1>1. Inv => TypeOK
  BY DEF Inv
<1>. QED BY <1>1, Invariance, PTL

\* drainCond is signalled whenever the sender may have something to send.
THEOREM NoLostSignal == Spec => []SenderMissesNothing
<1>1. Inv => SenderMissesNothing
  BY DEF Inv
<1>. QED BY <1>1, Invariance, PTL

\* The PTY reader is woken whenever the ring has room for it.
THEOREM NoLostWriter == Spec => []BlockedOnlyWhenFull
<1>1. Inv => BlockedOnlyWhenFull
  BY DEF Inv
<1>. QED BY <1>1, Invariance, PTL
=============================================================================
