--------------------------- MODULE MCBufferCalls ----------------------------
(* A small instance of BufferCalls for TLC. *)
EXTENDS BufferCalls

TwoValues == {0, 1}
=============================================================================
