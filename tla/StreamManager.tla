---------------------------- MODULE StreamManager ----------------------------
(***************************************************************************)
(* The remote half of a durable session's output: the ring buffer          *)
(* (pkg/jobmanager/cirbuf.go) that the PTY reader fills and the sender     *)
(* drains under flow control (pkg/jobmanager/streammanager.go).            *)
(*                                                                         *)
(* A byte is its position in the output of the process.  What the ring     *)
(* holds is then the last "count" positions below "total": an overwritten  *)
(* or consumed byte is always the oldest.  The PTY reader and the sender   *)
(* are goroutines that sleep on a channel and on a condition variable,     *)
(* their sleep is part of the state.                                       *)
(***************************************************************************)
EXTENDS Integers, Sequences, FiniteSets

CONSTANTS
  RingSize,   \* CirBufSize: bytes the ring can hold
  Cwnd,       \* CwndSize: bytes in flight to a client
  MaxPacket,  \* MaxPacketSize: bytes of one packet
  MaxBytes    \* bound: bytes the process writes

ASSUME ManagerAssumption ==
  /\ RingSize \in Nat \ {0}
  /\ Cwnd \in Nat \ {0}
  /\ MaxPacket \in Nat \ {0}
  /\ MaxBytes \in Nat

VARIABLES
  total,          \* CirBuf.totalSize: the position of the next byte
  count,          \* CirBuf.count
  syncMode,       \* CirBuf.syncMode: a full ring blocks the PTY reader
  windowSize,     \* CirBuf.windowSize
  blocked,        \* the PTY reader waits in CirBuf.waiterChan
  signalDue,      \* it has written a byte and not yet signalled drainCond
  connected,      \* StreamManager.connected
  streamId,       \* StreamManager.streamId
  rwndSize,       \* StreamManager.rwndSize
  sentNotAcked,   \* StreamManager.sentNotAcked
  maxAcked,       \* maxAckedSeq and maxAckedRwnd
  terminalEvent,  \* "none", "eof" or "error"
  terminalSent,   \* terminalEventSent
  terminalAcked,  \* terminalEventAcked
  asleep          \* the sender waits on drainCond

ringVars == <<total, count, syncMode, windowSize, blocked>>
sessionVars == <<connected, streamId, rwndSize, sentNotAcked, maxAcked>>
terminalVars == <<terminalEvent, terminalSent, terminalAcked>>
managerVars == <<ringVars, signalDue, sessionVars, terminalVars, asleep>>

NoAck == [seq |-> 0, rwnd |-> 0]

Smaller(a, b) == IF a < b THEN a ELSE b

HeadPos == total - count
EffectiveWindow(rwnd) == Smaller(Cwnd, rwnd)

-----------------------------------------------------------------------------
(* CirBuf.                                                                  *)

\* SetEffectiveWindow that leaves the writer waiting.
SetEffectiveWindowWithoutWake(sync, size, left, woken) ==
  LET window == Smaller(size, RingSize)
  IN  /\ windowSize' = window
      /\ syncMode' = sync
      /\ count' = IF ~sync /\ left > window THEN window ELSE left
      /\ blocked' = (blocked /\ ~woken)
      /\ UNCHANGED total

\* SetEffectiveWindow, after left bytes remain in the ring and woken says that
\* Consume has already released the writer.
SetEffectiveWindow(sync, size, left, woken) ==
  LET window == Smaller(size, RingSize)
      wake   == syncMode /\ (window > windowSize \/ ~sync)
  IN  /\ windowSize' = window
      /\ syncMode' = sync
      /\ count' = IF ~sync /\ left > window THEN window ELSE left
      /\ blocked' = (blocked /\ ~woken /\ ~wake)
      /\ UNCHANGED total

-----------------------------------------------------------------------------
(* The PTY reader goroutine.                                                *)

PtyReady == ~blocked /\ ~signalDue /\ terminalEvent = "none"

\* WriteAvailable, one byte: append, or overwrite the oldest when the ring is
\* full and no client is connected.
WriteByte ==
  /\ PtyReady
  /\ total < MaxBytes
  /\ ~(syncMode /\ count >= windowSize)
  /\ total' = total + 1
  /\ count' = IF count < windowSize THEN count + 1 ELSE count
  /\ signalDue' = TRUE
  /\ UNCHANGED <<syncMode, windowSize, blocked, sessionVars, terminalVars, asleep>>

\* WriteAvailable, no room: wait for spaceAvailable.
WriteBlocks ==
  /\ PtyReady
  /\ total < MaxBytes
  /\ syncMode
  /\ count >= windowSize
  /\ blocked' = TRUE
  /\ UNCHANGED <<total, count, syncMode, windowSize, signalDue, sessionVars,
                 terminalVars, asleep>>

\* handleReadData signals the sender after the write, in a step of its own
\* because it takes the other lock.
SignalSender ==
  /\ signalDue
  /\ signalDue' = FALSE
  /\ asleep' = FALSE
  /\ UNCHANGED <<ringVars, sessionVars, terminalVars>>

\* handleEOF, handleError: eofPos is total, which no longer changes.
PtyEnds(event) ==
  /\ PtyReady
  /\ terminalEvent' = event
  /\ asleep' = FALSE
  /\ UNCHANGED <<ringVars, signalDue, sessionVars, terminalSent, terminalAcked>>

-----------------------------------------------------------------------------
(* The sender goroutine, prepareNextPacket.                                 *)

Room == EffectiveWindow(rwndSize) - sentNotAcked

CanSendData == connected /\ count > 0 /\ Room > 0 /\ sentNotAcked < count
CanSendTerminal == connected /\ count = 0 /\ terminalEvent # "none" /\ ~terminalSent

SenderRuns == ~asleep /\ ~terminalAcked

SenderSleeps ==
  /\ SenderRuns
  /\ ~CanSendData
  /\ ~CanSendTerminal
  /\ asleep' = TRUE
  /\ UNCHANGED <<ringVars, signalDue, sessionVars, terminalVars>>

PacketSize == Smaller(Smaller(Room, MaxPacket), count - sentNotAcked)

\* The packet SendData takes, and its bookkeeping.
DataPacket == [id |-> streamId, seq |-> HeadPos + sentNotAcked, len |-> PacketSize,
               kind |-> "data"]

SendData ==
  /\ SenderRuns
  /\ CanSendData
  /\ sentNotAcked' = sentNotAcked + PacketSize
  /\ UNCHANGED <<ringVars, signalDue, connected, streamId, rwndSize, maxAcked,
                 terminalVars, asleep>>

TerminalPacket == [id |-> streamId, seq |-> total, len |-> 0, kind |-> terminalEvent]

SendTerminal ==
  /\ SenderRuns
  /\ CanSendTerminal
  /\ terminalSent' = TRUE
  /\ UNCHANGED <<ringVars, signalDue, sessionVars, terminalEvent, terminalAcked, asleep>>

-----------------------------------------------------------------------------
(* Connecting, acknowledging, disconnecting.                                *)

\* ClientDisconnected; nothing happens when no client is connected.
ClientDisconnected ==
  IF connected
    THEN /\ connected' = FALSE
         /\ sentNotAcked' = 0
         /\ maxAcked' = NoAck
         /\ terminalSent' = (terminalSent /\ terminalAcked)
         /\ SetEffectiveWindow(FALSE, RingSize, count, FALSE)
         /\ asleep' = FALSE
         /\ UNCHANGED <<signalDue, streamId, rwndSize, terminalEvent, terminalAcked>>
    ELSE UNCHANGED managerVars

\* A Consume that leaves the ring as it is.
ConsumeNothing(n) == ~connected /\ n <= count /\ UNCHANGED managerVars

\* The Consume of ClientConnected, when the client is ahead of the ring.
ConsumeBytes(n) ==
  /\ ~connected
  /\ n <= count
  /\ count' = IF n > 0 THEN count - n ELSE count
  /\ blocked' = (blocked /\ n <= 0)
  /\ UNCHANGED <<total, syncMode, windowSize, signalDue, sessionVars, terminalVars, asleep>>

\* The rest of ClientConnected.
ClientConnected(id, rwnd) ==
  /\ ~connected
  /\ connected' = TRUE
  /\ streamId' = id
  /\ rwndSize' = rwnd
  /\ sentNotAcked' = 0
  /\ SetEffectiveWindow(TRUE, EffectiveWindow(rwnd), count, FALSE)
  /\ asleep' = FALSE
  /\ UNCHANGED <<signalDue, maxAcked, terminalVars>>

Stale(ack) ==
  \/ ack.seq < maxAcked.seq
  \/ ack.seq = maxAcked.seq /\ ack.rwnd <= maxAcked.rwnd

InFlight(ack) == ack.seq >= HeadPos /\ ack.seq - HeadPos <= sentNotAcked

\* What is acknowledged leaves the ring, and the window is the client's.
TakesAck(ack) ==
  LET acked == ack.seq - HeadPos
  IN  /\ maxAcked' = [seq |-> ack.seq, rwnd |-> ack.rwnd]
      /\ sentNotAcked' = sentNotAcked - acked
      /\ rwndSize' = ack.rwnd
      /\ SetEffectiveWindow(TRUE, EffectiveWindow(ack.rwnd), count - acked, acked > 0)
      /\ UNCHANGED <<signalDue, connected, streamId, terminalVars>>

\* RecvAck, one action per outcome.
RecvFin(ack) ==
  /\ connected
  /\ ack.id = streamId
  /\ ack.fin
  /\ terminalAcked' = TRUE
  /\ asleep' = FALSE
  /\ UNCHANGED <<ringVars, signalDue, sessionVars, terminalEvent, terminalSent>>

RecvIgnored(ack) ==
  /\ \/ ~connected
     \/ ack.id # streamId
     \/ ~ack.fin /\ Stale(ack)
  /\ UNCHANGED managerVars

\* An acknowledgement outside of what was sent moves the latest tuple only.
RecvOutside(ack) ==
  /\ connected
  /\ ack.id = streamId
  /\ ~ack.fin
  /\ ~Stale(ack)
  /\ ~InFlight(ack)
  /\ maxAcked' = [seq |-> ack.seq, rwnd |-> ack.rwnd]
  /\ UNCHANGED <<ringVars, signalDue, connected, streamId, rwndSize, sentNotAcked,
                 terminalVars, asleep>>

\* RecvAck that takes acknowledgements in any order.
RecvAckIgnoringOrder(ack) ==
  /\ connected /\ ack.id = streamId /\ ~ack.fin
  /\ InFlight(ack)
  /\ TakesAck(ack)
  /\ asleep' = (asleep /\ ~(ack.rwnd > rwndSize \/ ack.seq > HeadPos))

RecvAck(ack) ==
  /\ connected /\ ack.id = streamId /\ ~ack.fin
  /\ ~Stale(ack)
  /\ InFlight(ack)
  /\ TakesAck(ack)
  /\ asleep' = (asleep /\ ~(ack.rwnd > rwndSize \/ ack.seq > HeadPos))

\* SetRwndSize that does not signal the sender.
SetRwndSizeSilently(rwnd) ==
  /\ connected
  /\ rwndSize' = rwnd
  /\ SetEffectiveWindow(TRUE, EffectiveWindow(rwnd), count, FALSE)
  /\ UNCHANGED <<asleep, signalDue, connected, streamId, sentNotAcked, maxAcked, terminalVars>>

\* SetRwndSize of a connected client.
SetRwndSize(rwnd) ==
  /\ connected
  /\ rwndSize' = rwnd
  /\ SetEffectiveWindow(TRUE, EffectiveWindow(rwnd), count, FALSE)
  /\ asleep' = FALSE
  /\ UNCHANGED <<signalDue, connected, streamId, sentNotAcked, maxAcked, terminalVars>>

-----------------------------------------------------------------------------
\* MakeStreamManager, connected by StartJob before its PTY reader is attached.
StartedWith(id, rwnd) ==
  /\ total = 0 /\ count = 0 /\ syncMode = TRUE
  /\ windowSize = Smaller(EffectiveWindow(rwnd), RingSize)
  /\ blocked = FALSE /\ signalDue = FALSE /\ asleep = FALSE
  /\ connected = TRUE /\ streamId = id /\ rwndSize = rwnd
  /\ sentNotAcked = 0 /\ maxAcked = NoAck
  /\ terminalEvent = "none" /\ terminalSent = FALSE /\ terminalAcked = FALSE
=============================================================================
