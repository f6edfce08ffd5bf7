------------------------------- MODULE Logger -------------------------------
(***************************************************************************)
(* rocket::Logger and the logging macros (common/log.h, common/log.cc).    *)
(*                                                                         *)
(* A macro compares its level with the logger's, without a lock, then      *)
(* calls pushLog and log.  These lock mu one after the other, so a message *)
(* may be printed by another thread than its own, and log may find nothing *)
(* left to print.  The text of a message is left out: a message is its     *)
(* thread and its number there.  The logger exists before any thread logs, *)
(* as in every program of the repository.                                  *)
(***************************************************************************)
EXTENDS Integers, QueueOps

CONSTANTS Threads,  \* the threads that log
          Nobody,   \* not a thread: mu is free
          MaxSaid   \* bound: messages of each thread

ASSUME LoggerAssumption == Nobody \notin Threads /\ MaxSaid \in Nat

VARIABLES m_log_level,  \* Logger::m_log_level
          m_buffer,     \* Logger::m_buffer
          mu,           \* who holds the mutex
          pc,           \* where each thread is
          msg,          \* log's local msg, <<>> if there is none
          said,         \* bound and history: messages each thread pushed
          printed       \* history: the lines of the output

vars == <<m_log_level, m_buffer, mu, pc, msg, said, printed>>

-----------------------------------------------------------------------------
Unkown == 0
Debug  == 1
Info   == 2
Error  == 3

Loglevels == Unkown .. Error
Messages  == [by : Threads, no : Nat]

Goto(t, at) == pc' = [pc EXCEPT ![t] = at]

(* Seeded defects. *)

(* A level that is not known is below all others. *)
UnknownBelow(log_level) ==
  IF log_level = "DEBUG" THEN Debug ELSE -1

(* mu is let go before printf. *)
TakeUnlocks(t) ==
  /\ pc[t] = "take" /\ msg[t] = <<>> /\ m_buffer # <<>>
  /\ msg' = [msg EXCEPT ![t] = <<Head(m_buffer)>>]
  /\ m_buffer' = Tail(m_buffer)
  /\ mu' = Nobody
  /\ UNCHANGED <<m_log_level, pc, said, printed>>

(* One message per call: "if" for "while". *)
PrintOnlyOne(t) ==
  /\ pc[t] = "take" /\ msg[t] # <<>>
  /\ printed' = printed \o msg[t]
  /\ msg' = [msg EXCEPT ![t] = <<>>]
  /\ mu' = Nobody /\ Goto(t, "idle")
  /\ UNCHANGED <<m_log_level, m_buffer, said>>

-----------------------------------------------------------------------------
StringtoLoglevel(log_level) ==
  CASE log_level = "DEBUG" -> Debug
    [] log_level = "INFO"  -> Info
    [] log_level = "ERROR" -> Error
    [] OTHER               -> Unkown

(* SetGloballLogger, with what the configuration file says. *)
Init ==
  /\ m_log_level \in
       {StringtoLoglevel(s) : s \in {"DEBUG", "INFO", "ERROR", "other"}}
  /\ m_buffer = <<>> /\ mu = Nobody
  /\ pc = [t \in Threads |-> "idle"] /\ msg = [t \in Threads |-> <<>>]
  /\ said = [t \in Threads |-> 0] /\ printed = <<>>

Set_log_level(level) ==
  /\ m_log_level' = level
  /\ UNCHANGED <<m_buffer, mu, pc, msg, said, printed>>

(* DEBUGLOG, INFOLOG, ERRORLOG: a message below the level is not made. *)
Statement(t, level) ==
  /\ pc[t] = "idle" /\ said[t] < MaxSaid
  /\ m_log_level <= level
  /\ Goto(t, "push")
  /\ UNCHANGED <<m_log_level, m_buffer, mu, msg, said, printed>>

pushLog(t) ==
  /\ pc[t] = "push" /\ mu = Nobody
  /\ said' = [said EXCEPT ![t] = @ + 1]
  /\ m_buffer' = Append(m_buffer, [by |-> t, no |-> said[t] + 1])
  /\ Goto(t, "log")
  /\ UNCHANGED <<m_log_level, mu, msg, printed>>

(* log: whatever is in m_buffer is printed, with mu held. *)
Lock(t) ==
  /\ pc[t] = "log" /\ mu = Nobody
  /\ mu' = t /\ Goto(t, "take")
  /\ UNCHANGED <<m_log_level, m_buffer, msg, said, printed>>

TakeFront(t) ==
  /\ pc[t] = "take" /\ msg[t] = <<>> /\ m_buffer # <<>>
  /\ msg' = [msg EXCEPT ![t] = <<Head(m_buffer)>>]
  /\ m_buffer' = Tail(m_buffer)
  /\ UNCHANGED <<m_log_level, mu, pc, said, printed>>

PrintOne(t) ==
  /\ pc[t] = "take" /\ msg[t] # <<>>
  /\ printed' = printed \o msg[t]
  /\ msg' = [msg EXCEPT ![t] = <<>>]
  /\ UNCHANGED <<m_log_level, m_buffer, mu, pc, said>>

LogDone(t) ==
  /\ pc[t] = "take" /\ msg[t] = <<>> /\ m_buffer = <<>>
  /\ mu' = Nobody /\ Goto(t, "idle")
  /\ UNCHANGED <<m_log_level, m_buffer, msg, said, printed>>

log(t) == Lock(t) \/ TakeFront(t) \/ PrintOne(t) \/ LogDone(t)

Next ==
  \/ \E level \in Loglevels : Set_log_level(level)
  \/ \E t \in Threads :
       (\E level \in Debug .. Error : Statement(t, level)) \/ pushLog(t) \/ log(t)

Spec == Init /\ [][Next]_vars

-----------------------------------------------------------------------------
(* Properties *)

TypeOK ==
  /\ m_log_level \in Loglevels
  /\ m_buffer \in Seq(Messages) /\ printed \in Seq(Messages)
  /\ mu \in Threads \cup {Nobody}
  /\ pc \in [Threads -> {"idle", "push", "log", "take"}]
  /\ msg \in [Threads -> Seq(Messages)]
  /\ said \in [Threads -> Nat]

(* When a logging statement has returned its message is in the output, no  *)
(* matter who printed it: a line never waits for the next statement.       *)
LoggedIsPrinted ==
  \A t \in Threads : \A n \in 1 .. said[t] :
    (n < said[t] \/ pc[t] = "idle") => [by |-> t, no |-> n] \in Elements(printed)

(* The output, the message in hand and m_buffer are one journal: messages  *)
(* come out once, and in the order in which they were pushed.              *)
InHand == IF mu = Nobody THEN <<>> ELSE msg[mu]

Implements == INSTANCE Journal WITH waiting <- InHand \o m_buffer

JournalSpec == Implements!Spec
=============================================================================
