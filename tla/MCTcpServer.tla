---------------------------- MODULE MCTcpServer -----------------------------
(* A small instance of TcpServer for TLC. *)
EXTENDS TcpServer
=============================================================================
