------------------------------ MODULE Journal -------------------------------
(***************************************************************************)
(* What the logging macros promise (common/log.h): the messages of all     *)
(* threads come out in one order in which each was said, those of a thread *)
(* in its own; none is lost, repeated or made up.                          *)
(***************************************************************************)
EXTENDS Naturals, Sequences

CONSTANT Threads

VARIABLES said,     \* how many messages each thread has said
          waiting,  \* those that are not out yet
          printed   \* the output

vars == <<said, waiting, printed>>

Init == said = [t \in Threads |-> 0] /\ waiting = <<>> /\ printed = <<>>

Say(t) ==
  /\ said' = [said EXCEPT ![t] = @ + 1]
  /\ waiting' = Append(waiting, [by |-> t, no |-> said[t] + 1])
  /\ UNCHANGED printed

PrintFirst ==
  /\ waiting # <<>>
  /\ printed' = Append(printed, Head(waiting))
  /\ waiting' = Tail(waiting)
  /\ UNCHANGED said

Next == PrintFirst \/ \E t \in Threads : Say(t)

Spec == Init /\ [][Next]_vars
=============================================================================
