--------------------------- MODULE MCVisualAnchor ---------------------------
(* Four commands of two shell sessions, the second of them run by a hosted runspace. *)
EXTENDS VisualAnchorProofs

CONSTANTS A, B

MCEpochOf == <<A, A, B, B>>
MCSequenceOf == <<1, 2, 1, 2>>
MCProducers == {"terminal", "hosted"}
MCProducerOf == <<"terminal", "hosted", "terminal", "terminal">>
=============================================================================
