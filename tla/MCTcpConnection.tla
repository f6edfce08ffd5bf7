-------------------------- MODULE MCTcpConnection ---------------------------
(* Small instances of TcpConnection for TLC. *)
EXTENDS TcpConnection

(* Behind the first request's id there is what looks like a frame whose    *)
(* fields are not sound, behind the others' the end of one frame and the   *)
(* start of the next.                                                      *)
MCPayload ==
  <<<<2, 0, 0, 0, 7, 9, 3>>, <<9, 3, 2, 0, 9, 9, 9>>, <<3, 2, 0, 0, 0, 0, 9>>>>

(* No byte of the payload is a mark. *)
PlainPayload == [n \in 1 .. Requests |-> [k \in 1 .. RequestLen - 7 |-> 9]]

AllCuts == 1 .. Requests * RequestLen
=============================================================================
