----------------------------- MODULE ByteStream -----------------------------
(***************************************************************************)
(* What one stream of a durable session promises: the stored output is a   *)
(* prefix of what the process wrote, in order and without repetition, and  *)
(* the end of the stream is stored after all of it.  A stream that ends    *)
(* with an error may have lost the rest.                                   *)
(***************************************************************************)
EXTENDS Integers, Sequences

VARIABLES
  written,  \* bytes the process has written
  stored,   \* the stored bytes, each its position in the output
  over      \* "no", "eof" or "error"

Init == written = 0 /\ stored = <<>> /\ over = "no"

Write == written' = written + 1 /\ UNCHANGED <<stored, over>>

Store ==
  /\ over = "no"
  /\ \E n \in 1..(written - Len(stored)) :
       stored' = stored \o [k \in 1..n |-> Len(stored) + k - 1]
  /\ UNCHANGED <<written, over>>

End ==
  /\ over = "no"
  /\ over' \in {"eof", "error"}
  /\ over' = "eof" => Len(stored) = written
  /\ UNCHANGED <<written, stored>>

Next == Write \/ Store \/ End

Spec == Init /\ [][Next]_<<written, stored, over>>
=============================================================================
