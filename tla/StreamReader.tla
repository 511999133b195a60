---------------------------- MODULE StreamReader ----------------------------
(***************************************************************************)
(* The local end of a stream (pkg/streamclient/streamreader.go): packets   *)
(* are put in order into a buffer, which the output loop reads and whose   *)
(* free room is announced with every acknowledgement.                      *)
(*                                                                         *)
(* A reader is a record, its methods are operators from a reader to a      *)
(* reader; all of them run under the reader's lock.  A byte is its         *)
(* position in the output of the process.                                  *)
(***************************************************************************)
EXTENDS Integers, Sequences, FiniteSets

CONSTANTS
  Window,   \* DefaultStreamRwnd, a reader's readWindow
  AckStep,  \* readWindow / 5: growth of the window worth an acknowledgement
  ReadMax   \* bytes of one read

ASSUME ReaderAssumption ==
  /\ Window \in Nat \ {0}
  /\ AckStep \in 0..Window
  /\ ReadMax \in Nat \ {0}

NewReader(seq) ==
  [next |-> seq, buf |-> <<>>, ooo |-> {}, eof |-> FALSE, failed |-> FALSE,
   closed |-> FALSE, lastRwnd |-> Window]

\* Close and a received error both leave an error behind, only Close sets closed.
Finished(r) == r.closed \/ r.eof \/ r.failed

Rwnd(r) == IF Len(r.buf) > Window THEN 0 ELSE Window - Len(r.buf)
Acknowledging(r) == [r EXCEPT !.lastRwnd = Rwnd(r)]

Positions(p) == [i \in 1..p.len |-> p.seq + i - 1]

RecvDataOrdered(r, p) ==
  [r EXCEPT !.buf = @ \o Positions(p), !.next = @ + p.len, !.eof = (p.kind = "eof")]

Lowest(packets) == CHOOSE p \in packets : \A q \in packets : p.seq <= q.seq

AddOoo(r, p) ==
  IF \E q \in r.ooo : q.seq = p.seq THEN r ELSE [r EXCEPT !.ooo = @ \cup {p}]

\* One turn of processOOOPackets: the lowest packet set aside is taken when it is
\* next; the first one that is not next ends it, the end of the stream drops what
\* is left.
ProcessOne(r) ==
  LET p == Lowest(r.ooo)
  IN  CASE r.ooo = {} -> r
        [] r.ooo # {} /\ r.eof -> [r EXCEPT !.ooo = {}]
        [] r.ooo # {} /\ ~r.eof /\ p.seq # r.next -> r
        [] OTHER -> [RecvDataOrdered(r, p) EXCEPT !.ooo = @ \ {p}]

\* processOOOPackets: after n turns the reader is drained[n].
ProcessOoo(r) ==
  LET drained[n \in 0..Cardinality(r.ooo)] ==
        IF n = 0 THEN r ELSE ProcessOne(drained[n - 1])
  IN  drained[Cardinality(r.ooo)]

InOrder(r, p) == ProcessOoo(RecvDataOrdered(r, p))

\* RecvData without the comparison of positions.
RecvDataUnordered(r, p) ==
  IF Finished(r) THEN r
  ELSE IF p.kind = "error" THEN Acknowledging([r EXCEPT !.failed = TRUE])
  ELSE Acknowledging(InOrder(r, p))

\* RecvData.  An error needs no position.
RecvData(r, p) ==
  IF Finished(r) THEN r
  ELSE IF p.kind = "error" THEN Acknowledging([r EXCEPT !.failed = TRUE])
  ELSE IF p.seq < r.next THEN r
  ELSE IF p.seq > r.next THEN AddOoo(r, p)
  ELSE Acknowledging(InOrder(r, p))

\* RecvData answers with an acknowledgement, final at the end of the stream.
RecvAcks(r, p) == ~Finished(r) /\ (p.kind = "error" \/ p.seq = r.next)

\* Read of a reader that does not have to wait.
ReadWaits(r) == r.buf = <<>> /\ ~Finished(r)

\* Read that reports the end before what is buffered.
ReadEndFirst(r) ==
  IF r.closed THEN "closed" ELSE IF r.failed THEN "error"
  ELSE IF r.eof THEN "eof" ELSE "none"

\* Read: an error is reported before what is buffered, the end after it.
ReadEnd(r) ==
  IF r.closed THEN "closed" ELSE IF r.failed THEN "error"
  ELSE IF r.buf = <<>> /\ r.eof THEN "eof" ELSE "none"

Taken(r) == IF Len(r.buf) < ReadMax THEN Len(r.buf) ELSE ReadMax
ReadChunk(r) == IF ReadEnd(r) = "none" THEN SubSeq(r.buf, 1, Taken(r)) ELSE <<>>
Dropped(r) == [r EXCEPT !.buf = SubSeq(@, Taken(r) + 1, Len(@))]

ReadAcks(r) ==
  LET s == Dropped(r)
  IN  /\ ReadEnd(r) = "none"
      /\ s.buf = <<>> \/ Rwnd(s) - r.lastRwnd >= AckStep

Read(r) ==
  IF ReadEnd(r) # "none" THEN r
  ELSE IF ReadAcks(r) THEN Acknowledging(Dropped(r)) ELSE Dropped(r)

\* UpdateNextSeq leaves the packets set aside where they are.
UpdateNextSeq(r, seq) == [r EXCEPT !.next = seq]

Close(r) == IF r.closed THEN r ELSE Acknowledging([r EXCEPT !.closed = TRUE])
=============================================================================
