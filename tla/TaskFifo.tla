------------------------------ MODULE TaskFifo ------------------------------
(***************************************************************************)
(* What EventLoop::addTask promises its callers, whatever the loop does    *)
(* with its two std::queue objects: one first-in first-out queue of tasks, *)
(* into which any thread puts and from which only the loop takes.  Nothing *)
(* is lost, repeated, reordered or invented.                               *)
(***************************************************************************)
EXTENDS Sequences

CONSTANT Task      \* the tasks that may be queued

VARIABLE queue

Init == queue = <<>>

Put == \E task \in Task : queue' = Append(queue, task)

Take == queue # <<>> /\ queue' = Tail(queue)

Next == Put \/ Take

Spec == Init /\ [][Next]_queue
=============================================================================
