----------------------------- MODULE TcpServer ------------------------------
(***************************************************************************)
(* rocket::TcpServer (tcp/tcp_server.cc): the main thread that builds the  *)
(* io threads, accepts clients and hands each to one of them; with         *)
(* TcpAcceptor (tcp/tcp_acceptor.cc), the pool of FdEvents                 *)
(* (tcp/fd_event_group.cc) and the io threads' loops.                      *)
(*                                                                         *)
(* Of a loop only this is kept: a queue of closures in the order they were *)
(* posted, which the thread takes one by one, as EventLoop implements it.  *)
(* A closure is known by the descriptor it registers.  What happens on a   *)
(* connection afterwards, and the race of its constructor with its own     *)
(* handlers, is TcpConnection's.                                           *)
(*                                                                         *)
(* No descriptor of a client is ever closed, so the kernel hands out       *)
(* larger and larger ones until it has none left.                          *)
(***************************************************************************)
EXTENDS IoThreads, FiniteSets, Sequences

CONSTANTS PoolSize,    \* 128 in GetFdEVentGroup: FdEvents made at first
          FirstFd,     \* the first descriptor accept can return
          LastFd,      \* the last one: RLIMIT_NOFILE - 1
          Clients      \* bound: clients that connect

ASSUME ServerAssumption ==
  /\ PoolSize \in Nat /\ PoolSize >= 2
  /\ FirstFd \in Nat /\ LastFd \in Nat /\ FirstFd <= LastFd
  /\ Clients \in Nat

VARIABLES listening,        \* the kernel takes clients for the socket
          watched,          \* m_lsitend_fd_event is in the main loop's epoll
          arrived,          \* clients that have connected
          accepted,         \* calls of accept that have returned one
          next_fd,          \* the lowest descriptor not in use
          m_fd_group,       \* m_fd of each FdEvent; <<>> before the pool is made
          m_client,         \* TcpServer::m_client, with the loop and the event
          m_pending_tasks,  \* the closures posted to each io thread's loop
          epoll_events      \* the descriptors each io thread's epoll watches

server == <<listening, watched, arrived, accepted, next_fd, m_fd_group,
            m_client, m_pending_tasks, epoll_events>>

vars == <<pc, i, io, m_event_loop, m_init_semaphore, m_start_semaphore, m_idex,
          listening, watched, arrived, accepted, next_fd, m_fd_group, m_client,
          m_pending_tasks, epoll_events>>

-----------------------------------------------------------------------------
Fds == FirstFd .. LastFd

(* The pool for descriptors below n. *)
Pool(n) == [k \in 1 .. n |-> k - 1]

(* The FdEvent of a descriptor is the one at its place in the vector. *)
EventAt(pool, fd) == pool[fd + 1]

(* A connection: its descriptor, the loop it was given, and the place of   *)
(* m_fd_event in the pool.                                                 *)
Connection(fd, t) == [fd |-> fd, loop |-> t, event |-> fd]
Connections == [fd : Fds, loop : IoIds, event : Nat]

-----------------------------------------------------------------------------
(* Seeded defects: each is a plausible slip in the definition it is named  *)
(* after, and breaks a property stated at the end of this module.          *)

(* The pool grows to the descriptor and not past it. *)
GrowToFd(pool, fd) ==
  LET made == IF pool = <<>> THEN Pool(PoolSize) ELSE pool
  IN  IF fd < Len(made) THEN made ELSE Pool(fd)

(* init() does not hand the listening descriptor to the main loop. *)
InitNoWatch ==
  /\ pc = "create" /\ i = Size
  /\ pc' = "start" /\ i' = 0
  /\ UNCHANGED <<io, m_event_loop, m_init_semaphore, m_start_semaphore,
                 m_idex, server>>

-----------------------------------------------------------------------------
Init ==
  /\ pc = "acceptor" /\ i = 0
  /\ io = [t \in IoIds |-> "none"] /\ m_event_loop = {}
  /\ m_init_semaphore = [t \in IoIds |-> 0]
  /\ m_start_semaphore = [t \in IoIds |-> 0]
  /\ m_idex = 0
  /\ listening = FALSE /\ watched = FALSE
  /\ arrived = 0 /\ accepted = 0
  /\ next_fd = FirstFd /\ m_fd_group = <<>> /\ m_client = {}
  /\ m_pending_tasks = [t \in IoIds |-> <<>>]
  /\ epoll_events = [t \in IoIds |-> {}]

(* FdEventGroup::GetFdEVentGroup and getFdEvent: the vector after a call   *)
(* for fd.  It grows to one and a half times the descriptor.               *)
getFdEvent(pool, fd) ==
  LET made == IF pool = <<>> THEN Pool(PoolSize) ELSE pool
  IN  IF fd < Len(made) THEN made ELSE Pool((3 * fd) \div 2)

-----------------------------------------------------------------------------
(* The main thread.                                                        *)

(* TcpAcceptor's constructor: the socket listens, or the process exits. *)
Acceptor ==
  /\ pc = "acceptor"
  /\ \/ pc' = "create" /\ listening' = TRUE
     \/ pc' = "dead" /\ UNCHANGED listening
  /\ UNCHANGED <<handshake, m_idex, watched, arrived, accepted, next_fd,
                 m_fd_group, m_client, m_pending_tasks, epoll_events>>

Create     == CreateThread /\ UNCHANGED server
ThreadMade == AwaitInit /\ UNCHANGED server
StartOne   == StartThread /\ UNCHANGED server

(* The rest of TcpServer::init, after the group was constructed. *)
InitDone ==
  /\ pc = "create" /\ i = Size
  /\ pc' = "start" /\ i' = 0
  /\ watched' = TRUE
  /\ UNCHANGED <<io, m_event_loop, m_init_semaphore, m_start_semaphore,
                 m_idex, listening, arrived, accepted, next_fd, m_fd_group,
                 m_client, m_pending_tasks, epoll_events>>

(* TcpServer::start goes on to the main loop. *)
MainLoop ==
  /\ pc = "start" /\ i = Size
  /\ pc' = "loop"
  /\ UNCHANGED <<handshake, m_idex, server>>

(* The main loop sees that the listening descriptor is readable. *)
CanAccept == pc = "loop" /\ watched /\ accepted < arrived

(* Seeded defect in onAccept: the loop is that of a second getIOThread.    *)
OnAcceptAskedTwice ==
  /\ CanAccept /\ next_fd <= LastFd
  /\ accepted' = accepted + 1
  /\ next_fd' = next_fd + 1
  /\ m_idex' = (IF Chosen + 1 = Size THEN 0 ELSE Chosen + 1) + 1
  /\ m_fd_group' = getFdEvent(m_fd_group, next_fd)
  /\ m_client' = m_client \cup {Connection(next_fd, Chosen)}
  /\ m_pending_tasks' =
       [m_pending_tasks EXCEPT
          ![IF Chosen + 1 = Size THEN 0 ELSE Chosen + 1] = Append(@, next_fd)]
  /\ UNCHANGED <<pc, handshake, listening, watched, arrived, epoll_events>>

(* onAccept, the callback of the listening descriptor. *)
onAccept ==
  /\ CanAccept /\ next_fd <= LastFd
  /\ accepted' = accepted + 1
  /\ next_fd' = next_fd + 1
  /\ m_idex' = Chosen + 1
  /\ m_fd_group' = getFdEvent(m_fd_group, next_fd)
  /\ m_client' = m_client \cup {Connection(next_fd, Chosen)}
  /\ m_pending_tasks' =
       [m_pending_tasks EXCEPT ![Chosen] = Append(@, next_fd)]
  /\ UNCHANGED <<pc, handshake, listening, watched, arrived, epoll_events>>

(* accept fails, as it must without a descriptor left and as it may for a  *)
(* network error.  The -1 goes on to getFdEvent, which as for 0 grows      *)
(* nothing, and returns the word before the vector, the size its allocator *)
(* keeps there: using that as an FdEvent is a fault that ends the process. *)
AcceptFails ==
  /\ CanAccept
  /\ pc' = "dead"
  /\ m_idex' = Chosen + 1
  /\ m_fd_group' = getFdEvent(m_fd_group, 0)
  /\ UNCHANGED <<handshake, listening, watched, arrived, accepted, next_fd,
                 m_client, m_pending_tasks, epoll_events>>

MainStep ==
  \/ Acceptor \/ Create \/ ThreadMade \/ InitDone \/ StartOne \/ MainLoop
  \/ onAccept \/ AcceptFails

-----------------------------------------------------------------------------
(* The io threads, each with its loop.                                     *)

(* One posted closure: addEpollEvent's, on the thread of the loop. *)
RunTask(t) ==
  /\ Alive /\ io[t] = "loop" /\ m_pending_tasks[t] # <<>>
  /\ epoll_events' =
       [epoll_events EXCEPT ![t] = @ \cup {Head(m_pending_tasks[t])}]
  /\ m_pending_tasks' = [m_pending_tasks EXCEPT ![t] = Tail(@)]
  /\ UNCHANGED <<pc, handshake, m_idex, listening, watched, arrived, accepted,
                 next_fd, m_fd_group, m_client>>

IoStep(t) ==
  \/ (NewLoop(t) \/ PostInit(t) \/ AwaitStart(t)) /\ UNCHANGED server
  \/ RunTask(t)

(* A client connects; the kernel keeps it until it is accepted. *)
Connect ==
  /\ Alive /\ listening /\ arrived < Clients
  /\ arrived' = arrived + 1
  /\ UNCHANGED <<pc, handshake, m_idex, listening, watched, accepted, next_fd,
                 m_fd_group, m_client, m_pending_tasks, epoll_events>>

Next == MainStep \/ Connect \/ \E t \in IoIds : IoStep(t)

Spec == Init /\ [][Next]_vars

(* Every thread goes on when it can; nobody has to connect. *)
FairSpec == Spec /\ WF_vars(MainStep) /\ \A t \in IoIds : WF_vars(IoStep(t))

-----------------------------------------------------------------------------
(* The values the variables may take: m_idex is never past the group. *)
TypeOK ==
  /\ pc \in {"acceptor", "create", "await", "start", "loop", "dead"}
  /\ i \in 0 .. Size
  /\ io \in [IoIds -> {"none", "main", "init", "await", "loop"}]
  /\ m_event_loop \subseteq IoIds
  /\ m_init_semaphore \in [IoIds -> Nat]
  /\ m_start_semaphore \in [IoIds -> Nat]
  /\ m_idex \in 0 .. Size
  /\ listening \in BOOLEAN /\ watched \in BOOLEAN
  /\ arrived \in Nat /\ accepted \in Nat
  /\ next_fd \in FirstFd .. LastFd + 1
  /\ m_fd_group \in Seq(Nat)
  /\ m_client \subseteq Connections
  /\ m_pending_tasks \in [IoIds -> Seq(Fds)]
  /\ epoll_events \in [IoIds -> SUBSET Fds]

(* onAccept uses getEventLoop() of the thread it chose without asking:     *)
(* whatever the speed of the threads, every loop that can be chosen has    *)
(* been constructed, and each of its threads was let run first, so no      *)
(* client is given to a thread that will not serve it.                     *)
LoopBeforeUse ==
  pc = "loop" => \A t \in IoIds :
                   /\ t \in m_event_loop
                   /\ io[t] = "loop" \/ m_start_semaphore[t] > 0

(* Of all clients, and whenever they came, no io thread has been given     *)
(* more than one more than another (getIOThread).                          *)
Load(t) == Cardinality({c \in m_client : c.loop = t})
Balanced == \A s, t \in IoIds : Load(s) <= Load(t) + 1

(* The pooled FdEvent a connection keeps a pointer to is there, and is the *)
(* one of its descriptor, after any growth of the pool (getFdEvent).       *)
EventOfDescriptor ==
  \A c \in m_client : /\ c.event + 1 \in DOMAIN m_fd_group
                      /\ EventAt(m_fd_group, c.event) = c.fd

(* A descriptor is watched, or waits to be, by the loop of its connection  *)
(* and by no other: the handlers of a connection run on one thread.        *)
ServedByOne ==
  \A c \in m_client, t \in IoIds :
    LET waits == \E k \in DOMAIN m_pending_tasks[t] :
                   m_pending_tasks[t][k] = c.fd
    IN  (c.fd \in epoll_events[t] \/ waits) <=> t = c.loop

(* Every accepted client gets watched by the loop it was given, unless the *)
(* process ends, though its closure may be posted before the thread has    *)
(* passed its semaphore.                                                   *)
AcceptedGetsWatched ==
  \A fd \in Fds, t \in IoIds :
    (Connection(fd, t) \in m_client) ~> (fd \in epoll_events[t] \/ ~Alive)

(* Every client that connects, before the server's loop runs or later, is  *)
(* accepted, unless the process ends.                                      *)
ArrivedGetsAccepted ==
  \A n \in 1 .. Clients : (arrived >= n) ~> (accepted >= n \/ ~Alive)
=============================================================================
