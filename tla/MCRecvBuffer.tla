---------------------------- MODULE MCRecvBuffer ----------------------------
(* A frame with a body, a bare header, one that fills the buffer, one with *)
(* a length below that of a header, and last one whose length is too long. *)
EXTENDS RecvBuffer

MCStart == <<0, 3, 5, 10, 12, 16>>
MCField == <<3, 2, 5, 1, 6>>

\* Every frame carries its own length.
MCOwnField == <<3, 2, 5, 2, 4>>

\* The first frame carries a length of 0.
MCZeroField == <<0, 2, 5, 2, 4>>
=============================================================================
