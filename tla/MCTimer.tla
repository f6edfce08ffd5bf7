------------------------------ MODULE MCTimer -------------------------------
(* Small instances of Timer for TLC. *)
EXTENDS Timer

CONSTANTS l1, u1, u2, once, often

OneLoop   == {l1}
TwoUsers  == {u1, u2}
TwoEvents == {once, often}
Repeating == {often}
(* The one-shot event is the later one. *)
Intervals == [e \in TimerEvents |-> IF e = once THEN 2 ELSE 1]
=============================================================================
