---------------------------- MODULE MCEventLoop ----------------------------
(* Small instances of EventLoop for TLC. *)
EXTENDS EventLoop

CONSTANTS t1, t2, f1, wfd, tfd

MCThreads == {t1, t2}
MCOneThread == {t1}
MCFds == {f1}
=============================================================================
