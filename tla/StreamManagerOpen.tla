------------------------- MODULE StreamManagerOpen -------------------------
(***************************************************************************)
(* A StreamManager among clients that may connect, acknowledge and change  *)
(* their window in any order: its goroutines and the calls it accepts, one *)
(* action each, and what holds of it whatever it is sent.                  *)
(***************************************************************************)
EXTENDS StreamManager

CONSTANTS
  StreamIds,  \* the streams clients make
  MaxRwnd     \* the largest window they announce

ASSUME OpenAssumption == MaxRwnd \in Nat

Rwnds == 0..MaxRwnd
Acks == [id : StreamIds, seq : 0..MaxBytes, rwnd : Rwnds, fin : BOOLEAN, cancel : BOOLEAN]

Init == \E id \in StreamIds, rwnd \in Rwnds : StartedWith(id, rwnd)

Goroutines ==
  \/ WriteByte \/ WriteBlocks \/ SignalSender
  \/ \E event \in {"eof", "error"} : PtyEnds(event)
  \/ SendData \/ SendTerminal \/ SenderSleeps

Calls ==
  \/ ClientDisconnected
  \/ \E n \in 0..MaxBytes : ConsumeBytes(n)
  \/ \E id \in StreamIds, rwnd \in Rwnds : ClientConnected(id, rwnd)
  \/ \E rwnd \in Rwnds : SetRwndSize(rwnd)

Answers == \E ack \in Acks : RecvAck(ack) \/ RecvFin(ack) \/ RecvOutside(ack) \/ RecvIgnored(ack)

Next == Goroutines \/ Calls \/ Answers

Spec == Init /\ [][Next]_managerVars

-----------------------------------------------------------------------------
\* The types of the state, and the bounds of the ring: what is in flight is in
\* the ring, what is in the ring has been written.
TypeOK ==
  /\ total \in 0..MaxBytes
  /\ count \in 0..RingSize
  /\ count <= total
  /\ windowSize \in 0..RingSize
  /\ syncMode \in BOOLEAN
  /\ blocked \in BOOLEAN
  /\ signalDue \in BOOLEAN
  /\ asleep \in BOOLEAN
  /\ connected \in BOOLEAN
  /\ streamId \in StreamIds
  /\ rwndSize \in Rwnds
  /\ sentNotAcked \in 0..count
  /\ maxAcked \in [seq : 0..MaxBytes, rwnd : Rwnds]
  /\ terminalEvent \in {"none", "eof", "error"}
  /\ terminalSent \in BOOLEAN
  /\ terminalAcked \in BOOLEAN

\* No lost wake-up of the sender: it sleeps only when there is nothing it may
\* send, or the signal for a byte just written is still to come.
SenderMissesNothing == asleep /\ ~signalDue => ~CanSendData /\ ~CanSendTerminal

\* No lost wake-up of the PTY reader: it waits only while the ring is full for
\* the window of a connected client.
BlockedOnlyWhenFull == blocked => syncMode /\ count >= windowSize

\* A connected client blocks the writer, an absent one lets it overwrite; what
\* was in flight to it is forgotten.
ModeFollowsClient == IF connected THEN syncMode ELSE sentNotAcked = 0
=============================================================================
