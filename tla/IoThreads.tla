----------------------------- MODULE IoThreads ------------------------------
(***************************************************************************)
(* rocket::IOThread (net/io_thread.cc) and rocket::IOThreadGroup           *)
(* (net/io_thread_group.cc): the threads with a loop of their own, and the *)
(* two semaphores by which the main thread waits for each loop to exist    *)
(* and lets it run.                                                        *)
(*                                                                         *)
(* The steps are the ones the other side can fall between: each operation  *)
(* on a semaphore, pthread_create, and the construction of the loop.  The  *)
(* module has the steps only; TcpServer says what the main thread does     *)
(* between them.  The destructor and join() are left out: the server calls *)
(* neither, and ~IOThreadGroup deletes nothing.                            *)
(***************************************************************************)
EXTENDS Naturals

CONSTANT Size     \* m_size of the group: 2 in TcpServer::init

ASSUME SizeAssumption == Size \in Nat \ {0}

VARIABLES pc,                 \* where the main thread is
          i,                  \* the counter of the group's loops
          io,                 \* where each IOThread::Main is
          m_event_loop,       \* the threads whose loop was constructed
          m_init_semaphore,   \* the count of each m_init_semaphore
          m_start_semaphore,  \* the count of each m_start_semaphore
          m_idex              \* IOThreadGroup::m_idex

handshake == <<i, io, m_event_loop, m_init_semaphore, m_start_semaphore>>

-----------------------------------------------------------------------------
IoIds == 0 .. Size - 1

(* The process has not been ended. *)
Alive == pc # "dead"

-----------------------------------------------------------------------------
(* Seeded defects: each is a plausible slip in the definition it is named  *)
(* after, and breaks a property stated at the end of TcpServer.            *)

(* The constructor does not wait for its thread. *)
AwaitNothing ==
  /\ pc = "await" /\ pc' = "create"
  /\ i' = i + 1
  /\ UNCHANGED <<io, m_event_loop, m_init_semaphore, m_start_semaphore,
                 m_idex>>

(* The thread waits for the start on the semaphore it has just posted. *)
AwaitStartOnInit(t) ==
  /\ pc # "dead" /\ io[t] = "await" /\ m_init_semaphore[t] > 0
  /\ io' = [io EXCEPT ![t] = "loop"]
  /\ m_init_semaphore' = [m_init_semaphore EXCEPT ![t] = @ - 1]
  /\ UNCHANGED <<pc, i, m_event_loop, m_start_semaphore, m_idex>>

(* The index is compared with the last thread's, not with the size. *)
ChosenBeforeLast == IF m_idex = Size - 1 THEN 0 ELSE m_idex

(* The index does not come round. *)
ChosenNoReset == m_idex

-----------------------------------------------------------------------------
(* The main thread: IOThreadGroup's constructor, one IOThread at a time.   *)

CreateThread ==
  /\ pc = "create" /\ i < Size
  /\ pc' = "await"
  /\ io' = [io EXCEPT ![i] = "main"]
  /\ UNCHANGED <<i, m_event_loop, m_init_semaphore, m_start_semaphore,
                 m_idex>>

AwaitInit ==
  /\ pc = "await" /\ m_init_semaphore[i] > 0
  /\ m_init_semaphore' = [m_init_semaphore EXCEPT ![i] = @ - 1]
  /\ pc' = "create"
  /\ i' = i + 1
  /\ UNCHANGED <<io, m_event_loop, m_start_semaphore, m_idex>>

(* IOThreadGroup::start, one post at a time. *)
StartThread ==
  /\ pc = "start" /\ i < Size
  /\ m_start_semaphore' = [m_start_semaphore EXCEPT ![i] = @ + 1]
  /\ i' = i + 1
  /\ UNCHANGED <<pc, io, m_event_loop, m_init_semaphore, m_idex>>

(* The thread getIOThread returns; m_idex is set to the one after it. *)
Chosen == IF m_idex = Size THEN 0 ELSE m_idex

-----------------------------------------------------------------------------
(* IOThread::Main.                                                         *)

NewLoop(t) ==
  /\ Alive /\ io[t] = "main"
  /\ io' = [io EXCEPT ![t] = "init"]
  /\ m_event_loop' = m_event_loop \cup {t}
  /\ UNCHANGED <<pc, i, m_init_semaphore, m_start_semaphore, m_idex>>

PostInit(t) ==
  /\ Alive /\ io[t] = "init"
  /\ io' = [io EXCEPT ![t] = "await"]
  /\ m_init_semaphore' = [m_init_semaphore EXCEPT ![t] = @ + 1]
  /\ UNCHANGED <<pc, i, m_event_loop, m_start_semaphore, m_idex>>

AwaitStart(t) ==
  /\ Alive /\ io[t] = "await" /\ m_start_semaphore[t] > 0
  /\ io' = [io EXCEPT ![t] = "loop"]
  /\ m_start_semaphore' = [m_start_semaphore EXCEPT ![t] = @ - 1]
  /\ UNCHANGED <<pc, i, m_event_loop, m_init_semaphore, m_idex>>
=============================================================================
