-------------------------- MODULE TcpServerProofs ---------------------------
(***************************************************************************)
(* Theorems about TcpServer for any number of io threads and clients, any  *)
(* size of the pool and any range of descriptors.  First one inductive     *)
(* invariant and what follows from it; then the start-up, whose semaphores *)
(* are counted exactly, and what becomes of the clients.                   *)
(***************************************************************************)
EXTENDS TcpServer, FiniteSetTheorems, TLAPS

USE SizeAssumption, ServerAssumption

-----------------------------------------------------------------------------
(* The strengthening. *)

(* How far the group's constructor is says which loops exist: each thread  *)
(* posts its semaphore after its loop was made, and the constructor waits  *)
(* for that before it goes to the next, from the first on.                 *)
Built ==
  /\ pc = "acceptor" => i = 0
  /\ pc = "await" => i < Size
  /\ \A t \in IoIds :
       /\ m_init_semaphore[t] > 0 \/ io[t] = "init" => t \in m_event_loop
       /\ pc \in {"create", "await"} /\ t < i => t \in m_event_loop
       /\ pc \in {"start", "loop"} => t \in m_event_loop

(* A thread that was let run is past its semaphore or will be. *)
LetRun(t) == io[t] = "loop" \/ m_start_semaphore[t] > 0
Started ==
  \A t \in IoIds : pc = "loop" \/ (pc = "start" /\ t < i) => LetRun(t)

(* The threads before m_idex have had one client more than the others. *)
Rotation ==
  Alive => \A s, t \in IoIds :
             /\ (s < m_idex <=> t < m_idex) => Load(s) = Load(t)
             /\ s < m_idex /\ t >= m_idex => Load(s) = Load(t) + 1

(* The pool has the FdEvent of a descriptor at its place, and reaches all  *)
(* descriptors that were accepted.                                         *)
Exact(pool) ==
  /\ pool # <<>> => Len(pool) >= PoolSize
  /\ \A k \in DOMAIN pool : pool[k] = k - 1
Pooled ==
  /\ Exact(m_fd_group)
  /\ \A c \in m_client : c.event = c.fd /\ c.fd < Len(m_fd_group)

(* What a loop knows of was accepted; the kernel has not reused it. *)
Fresh ==
  /\ IsFiniteSet(m_client)
  /\ \A c \in m_client : c.fd < next_fd
  /\ \A t \in IoIds :
       /\ \A fd \in epoll_events[t] : fd < next_fd
       /\ \A k \in DOMAIN m_pending_tasks[t] : m_pending_tasks[t][k] < next_fd

IInv ==
  /\ TypeOK /\ Built /\ Started /\ Fresh /\ Pooled /\ ServedByOne
  /\ Rotation /\ Balanced

-----------------------------------------------------------------------------
(* The clients of a set that were given to one loop. *)
LoadIn(C, t) == Cardinality({x \in C : x.loop = t})

(* One client more adds to the load of its loop and to no other's. *)
LEMMA LoadOfOneMore ==
  ASSUME NEW C, IsFiniteSet(C), NEW c, c \notin C, NEW t
  PROVE  /\ LoadIn(C, t) \in Nat
         /\ LoadIn(C \cup {c}, t)
              = LoadIn(C, t) + (IF c.loop = t THEN 1 ELSE 0)
<1> DEFINE D == {x \in C : x.loop = t}
           E == {x \in C \cup {c} : x.loop = t}
<1>1. IsFiniteSet(D)
  BY FS_Subset
<1>2. Cardinality(D) \in Nat
  BY <1>1, FS_CardinalityType
<1>3. Cardinality(E) = Cardinality(D) + (IF c.loop = t THEN 1 ELSE 0)
  <2>1. CASE c.loop = t
    <3>1. E = D \cup {c} /\ c \notin D
      BY <2>1
    <3> HIDE DEF D, E
    <3> QED BY <1>1, <2>1, <3>1, FS_AddElement
  <2>2. CASE c.loop # t
    <3>1. E = D
      BY <2>2
    <3> HIDE DEF D, E
    <3> QED BY <1>2, <2>2, <3>1
  <2> QED BY <2>1, <2>2
<1> QED BY <1>2, <1>3 DEF LoadIn

(* The pool after a call for a descriptor reaches it, keeps every place it *)
(* had and stays exact: one and a half times a descriptor that is not      *)
(* below the first size is more than the descriptor.                       *)
LEMMA PoolGrows ==
  ASSUME NEW pool \in Seq(Nat), NEW fd \in Nat, Exact(pool)
  PROVE  /\ getFdEvent(pool, fd) \in Seq(Nat)
         /\ Exact(getFdEvent(pool, fd))
         /\ fd < Len(getFdEvent(pool, fd))
         /\ Len(pool) <= Len(getFdEvent(pool, fd))
<1>1. ASSUME NEW n \in Nat
      PROVE  /\ Pool(n) \in Seq(Nat) /\ Len(Pool(n)) = n
             /\ \A k \in DOMAIN Pool(n) : Pool(n)[k] = k - 1
  BY DEF Pool
<1> DEFINE made == IF pool = <<>> THEN Pool(PoolSize) ELSE pool
           n == (3 * fd) \div 2
<1>2. /\ made \in Seq(Nat) /\ \A k \in DOMAIN made : made[k] = k - 1
      /\ Len(made) \in Nat /\ Len(pool) \in Nat
      /\ Len(made) >= PoolSize /\ Len(pool) <= Len(made)
  <2>1. CASE pool = <<>>
    BY <1>1, <2>1
  <2>2. CASE pool # <<>>
    BY <2>2 DEF Exact
  <2> QED BY <2>1, <2>2
<1>3. CASE fd < Len(made)
  <2>1. getFdEvent(pool, fd) = made
    BY <1>3 DEF getFdEvent
  <2> QED BY <1>2, <1>3, <2>1 DEF Exact
<1>4. CASE ~(fd < Len(made))
  <2>1. getFdEvent(pool, fd) = Pool(n)
    BY <1>4 DEF getFdEvent
  <2>2. fd >= 2 /\ fd >= Len(made) /\ fd >= PoolSize
    <3> HIDE DEF made
    <3> QED BY <1>2, <1>4
  <2>3. n \in Nat /\ fd < n
    BY <2>2
  <2> HIDE DEF n, made
  <2>4. /\ Pool(n) \in Seq(Nat) /\ Len(Pool(n)) = n
        /\ \A k \in DOMAIN Pool(n) : Pool(n)[k] = k - 1
    BY <1>1, <2>3
  <2>5. n >= PoolSize /\ Len(pool) <= n
    BY <1>2, <2>2, <2>3
  <2> QED BY <2>1, <2>3, <2>4, <2>5 DEF Exact
<1> QED BY <1>3, <1>4

(* What a queue holds after one more, and after one less. *)
LEMMA AppendHas ==
  ASSUME NEW S, NEW q \in Seq(S), NEW x, NEW e
  PROVE  (\E k \in DOMAIN Append(q, e) : Append(q, e)[k] = x)
           <=> (\E k \in DOMAIN q : q[k] = x) \/ x = e
<1>1. /\ DOMAIN q = 1 .. Len(q) /\ Len(q) \in Nat
      /\ DOMAIN Append(q, e) = 1 .. Len(q) + 1
      /\ \A k \in 1 .. Len(q) : Append(q, e)[k] = q[k]
      /\ Append(q, e)[Len(q) + 1] = e
  OBVIOUS
<1> QED BY <1>1

LEMMA TailHas ==
  ASSUME NEW S, NEW q \in Seq(S), q # <<>>, NEW x
  PROVE  (\E k \in DOMAIN q : q[k] = x)
           <=> (\E k \in DOMAIN Tail(q) : Tail(q)[k] = x) \/ x = Head(q)
<1>1. /\ DOMAIN q = 1 .. Len(q) /\ Len(q) \in Nat /\ Len(q) >= 1
      /\ DOMAIN Tail(q) = 1 .. Len(q) - 1
      /\ \A k \in 1 .. Len(q) - 1 : Tail(q)[k] = q[k + 1]
      /\ Head(q) = q[1]
  OBVIOUS
<1>2. ASSUME NEW k \in DOMAIN q, q[k] = x, x # Head(q)
      PROVE  \E j \in DOMAIN Tail(q) : Tail(q)[j] = x
  <2>1. k - 1 \in DOMAIN Tail(q) /\ Tail(q)[k - 1] = x
    BY <1>1, <1>2
  <2> QED BY <2>1
<1>3. ASSUME NEW j \in DOMAIN Tail(q)
      PROVE  j + 1 \in DOMAIN q /\ q[j + 1] = Tail(q)[j]
  BY <1>1
<1>4. 1 \in DOMAIN q /\ q[1] = Head(q)
  BY <1>1
<1> QED BY <1>2, <1>3, <1>4

-----------------------------------------------------------------------------
(* What each step does. *)

(* The io thread chosen for a client is one of the group. *)
LEMMA ChosenIsOne ==
  TypeOK => Chosen \in IoIds /\ Chosen + 1 \in 0 .. Size
BY DEF TypeOK, Chosen, IoIds

LEMMA InitOK == Init => IInv
<1> SUFFICES ASSUME Init PROVE IInv
  OBVIOUS
<1>1. TypeOK
  <2>1. <<>> \in Seq(Fds) /\ <<>> \in Seq(Nat)
    OBVIOUS
  <2>2. m_pending_tasks \in [IoIds -> Seq(Fds)]
    BY <2>1 DEF Init
  <2>3. /\ i \in 0 .. Size /\ m_idex \in 0 .. Size
        /\ next_fd \in FirstFd .. LastFd + 1
    BY DEF Init
  <2> QED BY <2>1, <2>2, <2>3 DEF Init, TypeOK
<1>2. Built /\ Started /\ Pooled /\ ServedByOne
  BY DEF Init, Built, Started, LetRun, Pooled, Exact, ServedByOne, IoIds
<1>3. Fresh
  BY FS_EmptySet DEF Init, Fresh
<1>4. \A t \in IoIds : Load(t) = 0
  <2> TAKE t \in IoIds
  <2>1. {c \in m_client : c.loop = t} = {}
    BY DEF Init
  <2> QED BY <2>1, FS_EmptySet DEF Load
<1>5. Rotation /\ Balanced
  BY <1>4 DEF Rotation, Balanced, Init, IoIds
<1> QED BY <1>1, <1>2, <1>3, <1>5 DEF IInv

LEMMA TypeStep ==
  TypeOK /\ Built /\ Exact(m_fd_group) /\ [Next]_vars => TypeOK'
<1> SUFFICES ASSUME TypeOK, Built, Exact(m_fd_group), [Next]_vars
             PROVE  TypeOK'
  OBVIOUS
<1> USE DEF TypeOK, handshake, server
<1>1. CASE Acceptor
  BY <1>1 DEF Acceptor
<1>2. CASE Create
  BY <1>2 DEF Create, CreateThread, IoIds
<1>3. CASE ThreadMade
  <2>1. i < Size
    BY <1>3 DEF ThreadMade, AwaitInit, Built
  <2>2. i \in IoIds /\ i' \in 0 .. Size
    BY <1>3, <2>1 DEF ThreadMade, AwaitInit, IoIds
  <2>3. m_init_semaphore' \in [IoIds -> Nat]
    BY <1>3, <2>2 DEF ThreadMade, AwaitInit
  <2> QED BY <1>3, <2>2, <2>3 DEF ThreadMade, AwaitInit
<1>4. CASE InitDone
  BY <1>4 DEF InitDone
<1>5. CASE StartOne
  <2>1. i \in IoIds /\ i' \in 0 .. Size
    BY <1>5 DEF StartOne, StartThread, IoIds
  <2>2. m_start_semaphore' \in [IoIds -> Nat]
    BY <1>5, <2>1 DEF StartOne, StartThread
  <2> QED BY <1>5, <2>1, <2>2 DEF StartOne, StartThread
<1>6. CASE MainLoop
  BY <1>6 DEF MainLoop
<1>7. CASE onAccept
  <2>1. next_fd \in Fds /\ next_fd \in Nat
    BY <1>7 DEF onAccept, Fds
  <2>2. Chosen \in IoIds /\ m_idex' \in 0 .. Size
    BY <1>7, ChosenIsOne DEF onAccept
  <2>3. m_fd_group' \in Seq(Nat)
    BY <1>7, <2>1, PoolGrows DEF onAccept
  <2>4. m_client' \subseteq Connections
    BY <1>7, <2>1, <2>2 DEF onAccept, Connection, Connections
  <2>5. m_pending_tasks' \in [IoIds -> Seq(Fds)]
    BY <1>7, <2>1, <2>2 DEF onAccept
  <2>6. next_fd' \in FirstFd .. LastFd + 1 /\ accepted' \in Nat
    BY <1>7, <2>1 DEF onAccept, Fds
  <2> QED BY <1>7, <2>2, <2>3, <2>4, <2>5, <2>6 DEF onAccept
<1>8. CASE AcceptFails
  <2>1. m_idex' \in 0 .. Size
    BY <1>8, ChosenIsOne DEF AcceptFails
  <2>2. m_fd_group' \in Seq(Nat)
    BY <1>8, PoolGrows DEF AcceptFails
  <2> QED BY <1>8, <2>1, <2>2 DEF AcceptFails
<1>9. CASE Connect
  BY <1>9 DEF Connect
<1>10. ASSUME NEW t \in IoIds, IoStep(t) PROVE TypeOK'
  <2>1. CASE NewLoop(t) /\ UNCHANGED server
    BY <2>1 DEF NewLoop
  <2>2. CASE PostInit(t) /\ UNCHANGED server
    BY <2>2 DEF PostInit
  <2>3. CASE AwaitStart(t) /\ UNCHANGED server
    BY <2>3 DEF AwaitStart
  <2>4. CASE RunTask(t)
    <3>1. /\ Head(m_pending_tasks[t]) \in Fds
          /\ Tail(m_pending_tasks[t]) \in Seq(Fds)
      BY <2>4 DEF RunTask
    <3> QED BY <2>4, <3>1 DEF RunTask
  <2> QED BY <1>10, <2>1, <2>2, <2>3, <2>4 DEF IoStep
<1>11. CASE UNCHANGED vars
  BY <1>11 DEF vars
<1> QED
  BY <1>1, <1>2, <1>3, <1>4, <1>5, <1>6, <1>7, <1>8, <1>9, <1>10, <1>11
     DEF Next, MainStep

(* The semaphores keep the two sides together. *)
LEMMA HandshakeStep ==
  TypeOK /\ Built /\ Started /\ [Next]_vars => Built' /\ Started'
<1> SUFFICES ASSUME TypeOK, Built, Started, [Next]_vars
             PROVE  Built' /\ Started'
  OBVIOUS
<1> USE DEF TypeOK, Built, Started, LetRun, handshake, server
<1>1. CASE Acceptor
  BY <1>1 DEF Acceptor, IoIds
<1>2. CASE Create
  <2>1. /\ pc = "create" /\ pc' = "await" /\ i < Size /\ i' = i
        /\ UNCHANGED <<m_event_loop, m_init_semaphore, m_start_semaphore>>
        /\ io' = [io EXCEPT ![i] = "main"]
    BY <1>2 DEF Create, CreateThread
  <2>2. \A t \in IoIds : io'[t] = io[t] \/ io'[t] = "main"
    BY <2>1
  <2> QED BY <2>1, <2>2
<1>3. CASE ThreadMade
  <2>1. /\ pc = "await" /\ pc' = "create" /\ i' = i + 1 /\ m_init_semaphore[i] > 0
        /\ UNCHANGED <<io, m_event_loop, m_start_semaphore>>
        /\ m_init_semaphore' = [m_init_semaphore EXCEPT ![i] = @ - 1]
    BY <1>3 DEF ThreadMade, AwaitInit
  <2>2. i \in IoIds /\ m_init_semaphore[i] \in Nat /\ i \in m_event_loop
    BY <2>1 DEF IoIds
  <2>3. \A t \in IoIds : m_init_semaphore'[t] > 0 => m_init_semaphore[t] > 0
    BY <2>1, <2>2
  <2>4. \A t \in IoIds : t < i + 1 => t < i \/ t = i
    BY DEF IoIds
  <2>5. Built'
    BY <2>1, <2>2, <2>3, <2>4
  <2> QED BY <2>1, <2>5
<1>4. CASE InitDone
  BY <1>4 DEF InitDone, IoIds
<1>5. CASE StartOne
  <2>1. /\ pc = "start" /\ pc' = pc /\ i < Size /\ i' = i + 1
        /\ UNCHANGED <<io, m_event_loop, m_init_semaphore>>
        /\ m_start_semaphore' = [m_start_semaphore EXCEPT ![i] = @ + 1]
    BY <1>5 DEF StartOne, StartThread
  <2>2. i \in IoIds /\ \A t \in IoIds : m_start_semaphore[t] \in Nat
    BY <2>1 DEF IoIds
  <2>3. /\ m_start_semaphore'[i] > 0
        /\ \A t \in IoIds : m_start_semaphore[t] > 0 => m_start_semaphore'[t] > 0
    BY <2>1, <2>2
  <2>4. \A t \in IoIds : t < i + 1 => t < i \/ t = i
    BY DEF IoIds
  <2>5. Built'
    BY <2>1
  <2> QED BY <2>1, <2>3, <2>4, <2>5
<1>6. CASE MainLoop
  BY <1>6 DEF MainLoop, IoIds
<1>7. CASE onAccept
  BY <1>7 DEF onAccept, CanAccept
<1>8. CASE AcceptFails
  BY <1>8 DEF AcceptFails
<1>9. CASE Connect
  BY <1>9 DEF Connect
<1>10. ASSUME NEW t \in IoIds, IoStep(t) PROVE Built' /\ Started'
  <2>1. CASE NewLoop(t) /\ UNCHANGED server
    BY <2>1 DEF NewLoop
  <2>2. CASE PostInit(t) /\ UNCHANGED server
    BY <2>2 DEF PostInit
  <2>3. CASE AwaitStart(t) /\ UNCHANGED server
    BY <2>3 DEF AwaitStart
  <2>4. CASE RunTask(t)
    BY <2>4 DEF RunTask
  <2> QED BY <1>10, <2>1, <2>2, <2>3, <2>4 DEF IoStep
<1>11. CASE UNCHANGED vars
  BY <1>11 DEF vars
<1> QED
  BY <1>1, <1>2, <1>3, <1>4, <1>5, <1>6, <1>7, <1>8, <1>9, <1>10, <1>11
     DEF Next, MainStep

(* Only three steps touch the clients, the pool and the loops' queues. *)
Aside ==
  /\ UNCHANGED <<next_fd, m_fd_group, m_client, m_pending_tasks,
                 epoll_events, m_idex>>
  /\ Alive' => Alive

LEMMA ThreeSteps ==
  [Next]_vars => \/ onAccept \/ AcceptFails \/ Aside
                 \/ \E t \in IoIds : RunTask(t)
<1> SUFFICES ASSUME [Next]_vars
             PROVE  \/ onAccept \/ AcceptFails \/ Aside
                    \/ \E t \in IoIds : RunTask(t)
  OBVIOUS
<1> USE DEF Aside, Alive, handshake, server
<1>1. CASE Acceptor \/ InitDone \/ MainLoop \/ Connect
  BY <1>1 DEF Acceptor, InitDone, MainLoop, Connect
<1>2. CASE Create \/ ThreadMade \/ StartOne
  BY <1>2 DEF Create, ThreadMade, StartOne, CreateThread, AwaitInit,
              StartThread
<1>3. ASSUME NEW t \in IoIds, IoStep(t) PROVE Aside \/ RunTask(t)
  BY <1>3 DEF IoStep, NewLoop, PostInit, AwaitStart
<1>4. CASE UNCHANGED vars
  BY <1>4 DEF vars
<1> QED BY <1>1, <1>2, <1>3, <1>4 DEF Next, MainStep

(* A new client's descriptor is larger than any before; the rest of the    *)
(* queues and the sets only lose what they had.                            *)
LEMMA FreshStep == TypeOK /\ Fresh /\ [Next]_vars => Fresh'
<1> SUFFICES ASSUME TypeOK, Fresh, [Next]_vars PROVE Fresh'
  OBVIOUS
<1> USE DEF TypeOK, Fresh
<1>1. CASE onAccept
  <2>1. next_fd' = next_fd + 1 /\ next_fd \in Nat
    BY <1>1 DEF onAccept
  <2>2. IsFiniteSet(m_client')
    BY <1>1, FS_AddElement DEF onAccept
  <2>3. \A c \in m_client' : c.fd < next_fd'
    <3> SUFFICES ASSUME NEW c \in m_client' PROVE c.fd < next_fd'
      OBVIOUS
    <3>1. CASE c \in m_client
      <4>1. c.fd \in Nat
        BY <3>1 DEF Connections, Fds
      <4> QED BY <2>1, <3>1, <4>1
    <3>2. CASE c = Connection(next_fd, Chosen)
      BY <2>1, <3>2 DEF Connection
    <3> QED BY <1>1, <3>1, <3>2 DEF onAccept
  <2>4. ASSUME NEW t \in IoIds, NEW k \in DOMAIN m_pending_tasks'[t]
        PROVE  m_pending_tasks'[t][k] < next_fd'
    <3>1. m_pending_tasks[t] \in Seq(Fds)
      OBVIOUS
    <3>2. \/ m_pending_tasks'[t] = m_pending_tasks[t]
          \/ m_pending_tasks'[t] = Append(m_pending_tasks[t], next_fd)
      BY <1>1, ChosenIsOne DEF onAccept
    <3>3. \/ /\ k \in DOMAIN m_pending_tasks[t]
             /\ m_pending_tasks'[t][k] = m_pending_tasks[t][k]
          \/ m_pending_tasks'[t][k] = next_fd
      <4>1. CASE m_pending_tasks'[t] = m_pending_tasks[t]
        BY <4>1
      <4>2. CASE m_pending_tasks'[t] = Append(m_pending_tasks[t], next_fd)
        <5> DEFINE q == m_pending_tasks[t]
        <5>1. q \in Seq(Fds) /\ k \in DOMAIN Append(q, next_fd)
          BY <3>1, <4>2
        <5>2. m_pending_tasks'[t][k] = Append(q, next_fd)[k]
          BY <4>2
        <5> HIDE DEF q
        <5>3. \/ k \in DOMAIN q /\ Append(q, next_fd)[k] = q[k]
              \/ Append(q, next_fd)[k] = next_fd
          BY <5>1
        <5> QED BY <5>2, <5>3 DEF q
      <4> QED BY <3>2, <4>1, <4>2
    <3>4. k \in DOMAIN m_pending_tasks[t] => m_pending_tasks[t][k] \in Nat
      BY <3>1 DEF Fds
    <3> QED BY <2>1, <3>3, <3>4
  <2>5. \A t \in IoIds : \A fd \in epoll_events'[t] : fd < next_fd'
    <3>1. \A t \in IoIds : epoll_events[t] \subseteq Nat
      BY DEF Fds
    <3> QED BY <1>1, <2>1, <3>1 DEF onAccept
  <2> QED BY <2>2, <2>3, <2>4, <2>5
<1>2. CASE AcceptFails
  BY <1>2 DEF AcceptFails
<1>3. CASE Aside
  BY <1>3 DEF Aside
<1>4. ASSUME NEW t \in IoIds, RunTask(t) PROVE Fresh'
  <2>1. m_pending_tasks[t] \in Seq(Fds) /\ m_pending_tasks[t] # <<>>
    BY <1>4 DEF RunTask
  <2>2. /\ Head(m_pending_tasks[t]) < next_fd
        /\ \A k \in DOMAIN Tail(m_pending_tasks[t]) :
             Tail(m_pending_tasks[t])[k] < next_fd
    <3>1. Head(m_pending_tasks[t]) = m_pending_tasks[t][1]
      BY <2>1
    <3>2. \A k \in DOMAIN Tail(m_pending_tasks[t]) :
            /\ k + 1 \in DOMAIN m_pending_tasks[t]
            /\ Tail(m_pending_tasks[t])[k] = m_pending_tasks[t][k + 1]
      BY <2>1
    <3> QED BY <2>1, <3>1, <3>2
  <2> QED BY <1>4, <2>2 DEF RunTask
<1> QED BY <1>1, <1>2, <1>3, <1>4, ThreeSteps

(* The pool grows under the connections' feet and keeps their FdEvents. *)
LEMMA PooledStep == TypeOK /\ Pooled /\ [Next]_vars => Pooled'
<1> SUFFICES ASSUME TypeOK, Pooled, [Next]_vars PROVE Pooled'
  OBVIOUS
<1>0. m_fd_group \in Seq(Nat) /\ Exact(m_fd_group)
  BY DEF TypeOK, Pooled
<1>1. CASE onAccept
  <2>1. next_fd \in Nat
    BY DEF TypeOK
  <2>2. /\ Exact(m_fd_group') /\ next_fd < Len(m_fd_group')
        /\ Len(m_fd_group) <= Len(m_fd_group')
        /\ Len(m_fd_group) \in Nat /\ Len(m_fd_group') \in Nat
    BY <1>0, <1>1, <2>1, PoolGrows DEF onAccept
  <2>3. \A c \in m_client : c.fd \in Nat
    BY DEF TypeOK, Connections, Fds
  <2>4. m_client' = m_client \cup {Connection(next_fd, Chosen)}
    BY <1>1 DEF onAccept
  <2> QED BY <2>2, <2>3, <2>4 DEF Pooled, Connection
<1>2. CASE AcceptFails
  <2>1. /\ Exact(m_fd_group')
        /\ Len(m_fd_group) <= Len(m_fd_group')
        /\ Len(m_fd_group) \in Nat /\ Len(m_fd_group') \in Nat
    BY <1>0, <1>2, PoolGrows DEF AcceptFails
  <2>2. \A c \in m_client : c.fd \in Nat
    BY DEF TypeOK, Connections, Fds
  <2> QED BY <1>2, <2>1, <2>2 DEF AcceptFails, Pooled
<1>3. CASE Aside
  BY <1>3 DEF Aside, Pooled
<1>4. ASSUME NEW t \in IoIds, RunTask(t) PROVE Pooled'
  BY <1>4 DEF RunTask, Pooled
<1> QED BY <1>1, <1>2, <1>3, <1>4, ThreeSteps

(* A closure stays with the loop it was posted to until it runs there. *)
LEMMA ServedStep ==
  TypeOK /\ Fresh /\ ServedByOne /\ [Next]_vars => ServedByOne'
<1> SUFFICES ASSUME TypeOK, Fresh, ServedByOne, [Next]_vars
             PROVE  ServedByOne'
  OBVIOUS
<1> DEFINE waits(fd, t) == \E k \in DOMAIN m_pending_tasks[t] :
                             m_pending_tasks[t][k] = fd
           known(fd, t) == fd \in epoll_events[t] \/ waits(fd, t)
<1>0. \A t \in IoIds : m_pending_tasks[t] \in Seq(Fds)
  BY DEF TypeOK
<1>1. CASE onAccept
  <2>1. next_fd \in Nat /\ Chosen \in IoIds
    BY ChosenIsOne DEF TypeOK
  <2>2. ASSUME NEW fd \in Fds, NEW t \in IoIds
        PROVE  known(fd, t)' <=> known(fd, t) \/ (t = Chosen /\ fd = next_fd)
    <3>1. CASE t = Chosen
      <4>1. m_pending_tasks'[t] = Append(m_pending_tasks[t], next_fd)
        BY <1>1, <2>1, <3>1 DEF onAccept, TypeOK
      <4>2. waits(fd, t)' <=> waits(fd, t) \/ fd = next_fd
        BY <1>0, <4>1, AppendHas
      <4> QED BY <1>1, <3>1, <4>2 DEF onAccept
    <3>2. CASE t # Chosen
      BY <1>1, <3>2 DEF onAccept, TypeOK
    <3> QED BY <3>1, <3>2
  <2>3. \A t \in IoIds : ~known(next_fd, t)
    BY <2>1 DEF Fresh
  <2>4. \A c \in m_client : c.fd \in Fds /\ c.fd # next_fd
    BY <2>1 DEF Fresh, TypeOK, Connections, Fds
  <2>5. next_fd \in Fds
    BY <1>1 DEF onAccept, Fds, TypeOK
  <2>6. m_client' = m_client \cup {Connection(next_fd, Chosen)}
    BY <1>1 DEF onAccept
  <2> HIDE DEF known
  <2>7. \A c \in m_client', t \in IoIds : known(c.fd, t)' <=> t = c.loop
    <3> SUFFICES ASSUME NEW c \in m_client', NEW t \in IoIds
                 PROVE  known(c.fd, t)' <=> t = c.loop
      OBVIOUS
    <3>1. CASE c \in m_client
      <4>1. known(c.fd, t) <=> t = c.loop
        BY <3>1 DEF known, ServedByOne
      <4> QED BY <2>2, <2>4, <3>1, <4>1
    <3>2. CASE c = Connection(next_fd, Chosen)
      <4>1. c.fd = next_fd /\ c.loop = Chosen
        BY <3>2 DEF Connection
      <4> QED BY <2>2, <2>3, <2>5, <4>1
    <3> QED BY <2>6, <3>1, <3>2
  <2> QED BY <2>7 DEF known, ServedByOne
<1>2. CASE AcceptFails
  BY <1>2 DEF AcceptFails, ServedByOne
<1>3. CASE Aside
  BY <1>3 DEF Aside, ServedByOne
<1>4. ASSUME NEW t \in IoIds, RunTask(t) PROVE ServedByOne'
  <2>1. ASSUME NEW fd, NEW s \in IoIds PROVE known(fd, s)' <=> known(fd, s)
    <3>1. CASE s = t
      <4>1. /\ m_pending_tasks'[s] = Tail(m_pending_tasks[s])
            /\ epoll_events'[s] =
                 epoll_events[s] \cup {Head(m_pending_tasks[s])}
            /\ m_pending_tasks[s] # <<>>
        BY <1>4, <3>1 DEF RunTask, TypeOK
      <4>2. waits(fd, s) <=> waits(fd, s)' \/ fd = Head(m_pending_tasks[s])
        <5> DEFINE q == m_pending_tasks[s]
        <5>1. q \in Seq(Fds) /\ q # <<>>
          BY <1>0, <4>1
        <5>2. (\E k \in DOMAIN q : q[k] = fd)
                <=> (\E k \in DOMAIN Tail(q) : Tail(q)[k] = fd) \/ fd = Head(q)
          <6> HIDE DEF q
          <6> QED BY <5>1, TailHas
        <5> QED BY <4>1, <5>2
      <4> QED BY <4>1, <4>2
    <3>2. CASE s # t
      BY <1>4, <3>2 DEF RunTask, TypeOK
    <3> QED BY <3>1, <3>2
  <2>2. m_client' = m_client
    BY <1>4 DEF RunTask
  <2> HIDE DEF known
  <2>3. \A c \in m_client, s \in IoIds : known(c.fd, s)' <=> s = c.loop
    <3>1. \A c \in m_client, s \in IoIds : known(c.fd, s) <=> s = c.loop
      BY DEF known, ServedByOne
    <3> QED BY <2>1, <3>1
  <2> QED BY <2>2, <2>3 DEF known, ServedByOne
<1> QED BY <1>1, <1>2, <1>3, <1>4, ThreeSteps

(* A client goes to the first thread that has had one less than those      *)
(* before it; when there is none, m_idex is at the end and comes round.    *)
LEMMA RotationStep ==
  TypeOK /\ Fresh /\ Rotation /\ Balanced /\ [Next]_vars
    => Rotation' /\ Balanced'
<1> SUFFICES ASSUME TypeOK, Fresh, Rotation, Balanced, [Next]_vars
             PROVE  Rotation' /\ Balanced'
  OBVIOUS
<1>1. CASE onAccept
  <2> DEFINE c == Connection(next_fd, Chosen)
  <2>1. /\ IsFiniteSet(m_client) /\ c \notin m_client
        /\ m_client' = m_client \cup {c} /\ c.loop = Chosen
    <3>1. next_fd \in Nat /\ c.fd = next_fd /\ c.loop = Chosen
      BY DEF TypeOK, Connection
    <3> QED BY <1>1, <3>1 DEF onAccept, Fresh
  <2> HIDE DEF c
  <2>2. \A t \in IoIds :
          /\ Load(t) \in Nat
          /\ Load(t)' = Load(t) + (IF Chosen = t THEN 1 ELSE 0)
    <3> TAKE t \in IoIds
    <3>1. /\ Load(t) = LoadIn(m_client, t)
          /\ Load(t)' = LoadIn(m_client \cup {c}, t)
      BY <2>1 DEF Load, LoadIn
    <3>2. /\ LoadIn(m_client, t) \in Nat
          /\ LoadIn(m_client \cup {c}, t)
               = LoadIn(m_client, t) + (IF c.loop = t THEN 1 ELSE 0)
      BY <2>1, LoadOfOneMore
    <3> QED BY <2>1, <3>1, <3>2
  <2>3. \A t \in IoIds : t \in Nat /\ t < Size
    BY DEF IoIds
  <2>4. Chosen \in IoIds /\ m_idex' = Chosen + 1 /\ m_idex \in 0 .. Size
    BY <1>1, ChosenIsOne DEF onAccept, TypeOK
  <2>5. \A s, t \in IoIds :
          /\ (s < Chosen <=> t < Chosen) => Load(s) = Load(t)
          /\ s < Chosen /\ t >= Chosen => Load(s) = Load(t) + 1
    <3>1. Alive
      BY <1>1 DEF onAccept, CanAccept, Alive
    <3>2. CASE m_idex = Size
      <4>1. Chosen = 0
        BY <3>2 DEF Chosen
      <4>2. \A s, t \in IoIds : Load(s) = Load(t)
        BY <2>3, <3>1, <3>2 DEF Rotation
      <4> QED BY <2>3, <4>1, <4>2
    <3>3. CASE m_idex # Size
      <4>1. Chosen = m_idex
        BY <3>3 DEF Chosen
      <4> QED BY <3>1, <4>1 DEF Rotation
    <3> QED BY <3>2, <3>3
  <2>6. ASSUME NEW s \in IoIds, NEW t \in IoIds
        PROVE  /\ (s < m_idex' <=> t < m_idex') => Load(s)' = Load(t)'
               /\ s < m_idex' /\ t >= m_idex' => Load(s)' = Load(t)' + 1
               /\ Load(s)' <= Load(t)' + 1
    <3> DEFINE ls == Load(s)
               lt == Load(t)
               ls1 == Load(s)'
               lt1 == Load(t)'
    <3>1. /\ ls \in Nat /\ lt \in Nat
          /\ ls1 = ls + (IF Chosen = s THEN 1 ELSE 0)
          /\ lt1 = lt + (IF Chosen = t THEN 1 ELSE 0)
          /\ (s < Chosen <=> t < Chosen) => ls = lt
          /\ s < Chosen /\ t >= Chosen => ls = lt + 1
          /\ t < Chosen /\ s >= Chosen => lt = ls + 1
      BY <2>2, <2>5
    <3> HIDE DEF ls, lt, ls1, lt1
    <3>2. /\ (s < m_idex' <=> t < m_idex') => ls1 = lt1
          /\ s < m_idex' /\ t >= m_idex' => ls1 = lt1 + 1
          /\ ls1 <= lt1 + 1
      BY <2>3, <2>4, <3>1
    <3> QED BY <3>2 DEF ls1, lt1
  <2> QED BY <2>6 DEF Rotation, Balanced
<1>2. CASE AcceptFails
  <2>1. m_client' = m_client /\ ~Alive'
    BY <1>2 DEF AcceptFails, Alive
  <2> QED BY <2>1 DEF Rotation, Balanced, Load
<1>3. CASE Aside
  BY <1>3 DEF Aside, Rotation, Balanced, Load
<1>4. ASSUME NEW t \in IoIds, RunTask(t) PROVE Rotation' /\ Balanced'
  <2>1. m_client' = m_client /\ m_idex' = m_idex /\ (Alive' <=> Alive)
    BY <1>4 DEF RunTask, Alive
  <2> QED BY <2>1 DEF Rotation, Balanced, Load
<1> QED BY <1>1, <1>2, <1>3, <1>4, ThreeSteps

-----------------------------------------------------------------------------
(* The server's invariant: the threads' hand-over, the pool, the queues    *)
(* and the loads, in every state of every server.                          *)
THEOREM Inductive == Spec => []IInv
<1>1. IInv /\ [Next]_vars => IInv'
  BY TypeStep, HandshakeStep, FreshStep, PooledStep, ServedStep, RotationStep
     DEF IInv, Pooled
<1> QED BY <1>1, InitOK, PTL DEF Spec

(* Type correctness: in particular m_idex never leaves the group. *)
THEOREM TypeCorrect == Spec => []TypeOK
<1>1. IInv => TypeOK
  BY DEF IInv
<1> QED BY <1>1, Inductive, PTL

(* Every loop onAccept can choose exists and its thread was let run, for   *)
(* any number of threads at any speed (the two semaphores of IOThread).    *)
THEOREM HandOverSafe == Spec => []LoopBeforeUse
<1>1. IInv => LoopBeforeUse
  BY DEF IInv, Built, Started, LetRun, LoopBeforeUse
<1> QED BY <1>1, Inductive, PTL

(* getIOThread spreads the clients evenly over any number of threads. *)
THEOREM LoadsBalanced == Spec => []Balanced
<1>1. IInv => Balanced
  BY DEF IInv
<1> QED BY <1>1, Inductive, PTL

(* getFdEvent's growth leaves each connection the FdEvent of its           *)
(* descriptor, for any first size of at least two.                         *)
THEOREM PoolSound == Spec => []EventOfDescriptor
<1>1. IInv => EventOfDescriptor
  <2> SUFFICES ASSUME IInv, NEW c \in m_client
               PROVE  /\ c.event + 1 \in DOMAIN m_fd_group
                      /\ EventAt(m_fd_group, c.event) = c.fd
    BY DEF EventOfDescriptor
  <2>1. c.fd \in Nat /\ m_fd_group \in Seq(Nat)
    BY DEF IInv, TypeOK, Connections, Fds
  <2>2. c.event = c.fd /\ c.fd < Len(m_fd_group) /\ Exact(m_fd_group)
    BY DEF IInv, Pooled
  <2>3. c.fd + 1 \in DOMAIN m_fd_group
    BY <2>1, <2>2
  <2>4. m_fd_group[c.fd + 1] = (c.fd + 1) - 1
    BY <2>2, <2>3 DEF Exact
  <2> QED BY <2>1, <2>2, <2>3, <2>4 DEF EventAt
<1> QED BY <1>1, Inductive, PTL

(* Each connection has one loop, from its acceptance on. *)
THEOREM OneLoopEach == Spec => []ServedByOne
<1>1. IInv => ServedByOne
  BY DEF IInv
<1> QED BY <1>1, Inductive, PTL

-----------------------------------------------------------------------------
(* A thread that the main thread let run. *)
LetGo(t) == pc = "loop" \/ (pc = "start" /\ t < i)

(* How far a thread is, and the exact count of its two semaphores: one post *)
(* for one wait, and what was posted is there until the other side took it. *)
Counts(t) ==
  /\ m_init_semaphore[t] \in {0, 1} /\ m_start_semaphore[t] \in {0, 1}
  /\ pc = "acceptor" => i = 0
  /\ Alive =>
       /\ io[t] = "none" <=>
            (pc = "acceptor" \/ (pc = "create" /\ t >= i) \/ (pc = "await" /\ t > i))
       /\ m_init_semaphore[t] =
            IF pc \in {"create", "await"} /\ t >= i /\ io[t] \in {"await", "loop"}
            THEN 1 ELSE 0
       /\ m_start_semaphore[t] = IF LetGo(t) /\ io[t] # "loop" THEN 1 ELSE 0
       /\ io[t] = "loop" => LetGo(t)
       /\ pc \in {"start", "loop"} \/ (pc \in {"create", "await"} /\ t < i) =>
            io[t] \in {"await", "loop"}
Semaphores == \A t \in IoIds : Counts(t)

LEMMA SemaphoresStep ==
  TypeOK /\ Built /\ Semaphores /\ [Next]_vars => Semaphores'
<1> SUFFICES ASSUME TypeOK, Built, Semaphores, [Next]_vars, NEW t \in IoIds
             PROVE  Counts(t)'
  BY DEF Semaphores, IoIds
<1> DEFINE u == io[t]
           a == m_init_semaphore[t]
           b == m_start_semaphore[t]
<1>0. /\ i \in Nat /\ i <= Size /\ t \in Nat /\ t < Size /\ Size \in Nat
      /\ t \in DOMAIN io /\ t \in DOMAIN m_init_semaphore /\ t \in DOMAIN m_start_semaphore
      /\ u \in {"none", "main", "init", "await", "loop"}
      /\ pc = "await" => i < Size
  BY SizeAssumption DEF TypeOK, IoIds, Built
<1>c. Counts(t)
  BY DEF Semaphores
<1> USE DEF Counts, LetGo, Alive, handshake, server
<1>1. CASE Acceptor
  <2>1. /\ u' = u /\ a' = a /\ b' = b /\ i' = i
        /\ pc = "acceptor" /\ pc' \in {"create", "dead"}
    BY <1>1 DEF Acceptor
  <2>2. i = 0
    BY <1>c, <2>1
  <2> QED BY <1>0, <1>c, <2>1, <2>2
<1>2. CASE Create
  <2>1. /\ u' = (IF t = i THEN "main" ELSE u) /\ a' = a /\ b' = b /\ i' = i
        /\ pc = "create" /\ pc' = "await" /\ i < Size
    BY <1>0, <1>2 DEF Create, CreateThread
  <2> QED BY <1>0, <1>c, <2>1
<1>3. CASE ThreadMade
  <2>1. /\ u' = u /\ a' = (IF t = i THEN a - 1 ELSE a) /\ b' = b /\ i' = i + 1
        /\ pc = "await" /\ pc' = "create" /\ (t = i => a > 0)
    BY <1>0, <1>3 DEF ThreadMade, AwaitInit
  <2> QED BY <1>0, <1>c, <2>1
<1>4. CASE InitDone
  <2>1. /\ u' = u /\ a' = a /\ b' = b /\ i' = 0 /\ i = Size
        /\ pc = "create" /\ pc' = "start"
    BY <1>0, <1>4 DEF InitDone
  <2> QED BY <1>0, <1>c, <2>1
<1>5. CASE StartOne
  <2>1. /\ u' = u /\ a' = a /\ b' = (IF t = i THEN b + 1 ELSE b) /\ i' = i + 1
        /\ pc = "start" /\ pc' = "start" /\ i < Size
    BY <1>0, <1>5 DEF StartOne, StartThread
  <2> QED BY <1>0, <1>c, <2>1
<1>6. CASE MainLoop
  <2>1. /\ u' = u /\ a' = a /\ b' = b /\ i = Size
        /\ pc = "start" /\ pc' = "loop"
    BY <1>0, <1>6 DEF MainLoop
  <2> QED BY <1>0, <1>c, <2>1
<1>7. CASE onAccept \/ Connect \/ UNCHANGED vars
  <2>1. u' = u /\ a' = a /\ b' = b /\ i' = i /\ pc' = pc
    BY <1>7 DEF onAccept, Connect, vars
  <2> QED BY <1>c, <2>1
<1>8. CASE AcceptFails
  <2>1. a' = a /\ b' = b /\ pc' = "dead"
    BY <1>8 DEF AcceptFails
  <2> QED BY <1>c, <2>1
<1>9. ASSUME NEW s \in IoIds, IoStep(s) PROVE Counts(t)'
  <2>1. CASE RunTask(s)
    <3>1. u' = u /\ a' = a /\ b' = b /\ i' = i /\ pc' = pc
      BY <2>1 DEF RunTask
    <3> QED BY <1>c, <3>1
  <2>2. CASE NewLoop(s)
    <3>1. /\ u' = (IF t = s THEN "init" ELSE u) /\ a' = a /\ b' = b /\ i' = i
          /\ pc' = pc /\ Alive /\ (t = s => u = "main")
      BY <1>0, <2>2 DEF NewLoop
    <3> QED BY <1>0, <1>c, <3>1
  <2>3. CASE PostInit(s)
    <3>1. /\ u' = (IF t = s THEN "await" ELSE u) /\ a' = (IF t = s THEN a + 1 ELSE a)
          /\ b' = b /\ i' = i /\ pc' = pc /\ Alive /\ (t = s => u = "init")
      BY <1>0, <2>3 DEF PostInit
    <3>2. CASE t = s
      <4>1. pc \in {"create", "await"} /\ t >= i /\ a = 0
        <5>1. pc \in {"create", "await"} /\ ~(t < i)
          BY <1>0, <1>c, <3>1, <3>2 DEF TypeOK
        <5> QED BY <1>0, <1>c, <3>1, <3>2, <5>1
      <4> QED BY <1>0, <1>c, <3>1, <3>2, <4>1
    <3>3. CASE t # s
      BY <1>0, <1>c, <3>1, <3>3
    <3> QED BY <3>2, <3>3
  <2>4. CASE AwaitStart(s)
    <3>1. /\ u' = (IF t = s THEN "loop" ELSE u) /\ b' = (IF t = s THEN b - 1 ELSE b)
          /\ a' = a /\ i' = i /\ pc' = pc /\ Alive /\ (t = s => u = "await" /\ b > 0)
      BY <1>0, <2>4 DEF AwaitStart
    <3> QED BY <1>0, <1>c, <3>1
  <2> QED BY <1>9, <2>1, <2>2, <2>3, <2>4 DEF IoStep
<1> QED
  BY <1>1, <1>2, <1>3, <1>4, <1>5, <1>6, <1>7, <1>8, <1>9 DEF Next, MainStep

LEMMA AlwaysCounted == Spec => []Semaphores
<1>1. Init => Semaphores
  BY DEF Init, Semaphores, Counts, LetGo, IoIds
<1>2. IInv => TypeOK /\ Built
  BY DEF IInv
<1> QED BY <1>1, <1>2, Inductive, SemaphoresStep, PTL DEF Spec

(* Nobody waits for a post that will not come: the thread that the         *)
(* constructor waits for is on its way to its post, and so is the main     *)
(* thread to the post that a thread waits for; and no count is above one.  *)
NobodyStranded ==
  /\ pc = "await" => m_init_semaphore[i] = 1 \/ io[i] \in {"main", "init"}
  /\ \A t \in IoIds :
       /\ m_init_semaphore[t] <= 1 /\ m_start_semaphore[t] <= 1
       /\ Alive /\ io[t] = "await" =>
            \/ m_start_semaphore[t] = 1
            \/ pc \in {"create", "await"} \/ (pc = "start" /\ i <= t)

(* The start-up cannot come to a stand with both sides waiting: TcpServer  *)
(* gets to its loop, and each io thread to its own, at any speeds.         *)
THEOREM HandOverMoves == Spec => []NobodyStranded
<1>1. TypeOK /\ Built /\ Semaphores => NobodyStranded
  <2> SUFFICES ASSUME TypeOK, Built, Semaphores PROVE NobodyStranded
    OBVIOUS
  <2>1. /\ \A t \in IoIds : io[t] \in {"none", "main", "init", "await", "loop"}
        /\ \A t \in IoIds : t \in Int /\ i \in Int
        /\ pc \in {"acceptor", "create", "await", "start", "loop", "dead"}
    BY DEF TypeOK, IoIds
  <2>2. ASSUME pc = "await"
        PROVE  m_init_semaphore[i] = 1 \/ io[i] \in {"main", "init"}
    <3>1. i \in IoIds /\ ~(i > i) /\ i >= i
      BY <2>2, SizeAssumption DEF TypeOK, Built, IoIds
    <3> QED BY <2>1, <2>2, <3>1 DEF Semaphores, Counts, Alive
  <2>3. ASSUME NEW t \in IoIds
        PROVE  /\ m_init_semaphore[t] <= 1 /\ m_start_semaphore[t] <= 1
               /\ Alive /\ io[t] = "await" =>
                    \/ m_start_semaphore[t] = 1
                    \/ pc \in {"create", "await"} \/ (pc = "start" /\ i <= t)
    BY <2>1 DEF Semaphores, Counts, Alive, LetGo
  <2> QED BY <2>2, <2>3 DEF NobodyStranded
<1>2. IInv => TypeOK /\ Built
  BY DEF IInv
<1> QED BY <1>1, <1>2, Inductive, AlwaysCounted, PTL

(* The main loop never runs without watching a socket that listens, and    *)
(* not before every io thread has its loop.  By then the post of each init *)
(* semaphore was taken, and that of each start semaphore is there unless   *)
(* its thread took it and runs.                                            *)
ServerReady ==
  pc = "loop" => /\ listening /\ watched
                 /\ \A t \in IoIds :
                      /\ io[t] \in {"await", "loop"}
                      /\ m_init_semaphore[t] = 0
                      /\ m_start_semaphore[t] = IF io[t] = "loop" THEN 0 ELSE 1

(* How far the main thread is says what the listening socket is good for. *)
Listens ==
  /\ pc \in {"create", "await", "start", "loop"} => listening
  /\ pc \in {"start", "loop"} => watched

LEMMA ListensStep == Listens /\ [Next]_vars => Listens'
<1> SUFFICES ASSUME Listens, [Next]_vars PROVE Listens'
  OBVIOUS
<1> USE DEF Listens, handshake, server
<1>1. CASE Acceptor \/ InitDone \/ MainLoop \/ onAccept \/ AcceptFails \/ Connect
  BY <1>1 DEF Acceptor, InitDone, MainLoop, onAccept, AcceptFails, Connect
<1>2. CASE Create \/ ThreadMade \/ StartOne
  BY <1>2 DEF Create, CreateThread, ThreadMade, AwaitInit, StartOne, StartThread
<1>3. ASSUME NEW t \in IoIds, IoStep(t) PROVE Listens'
  BY <1>3 DEF IoStep, NewLoop, PostInit, AwaitStart, RunTask
<1>4. CASE UNCHANGED vars
  BY <1>4 DEF vars
<1> QED BY <1>1, <1>2, <1>3, <1>4 DEF Next, MainStep

(* A client can be accepted only by a server that is complete. *)
THEOREM ServerIsReady == Spec => []ServerReady
<1>1. Init => Listens
  BY DEF Init, Listens
<1>2. Listens /\ Semaphores => ServerReady
  BY DEF Listens, Semaphores, Counts, ServerReady, Alive, LetGo
<1> QED BY <1>1, <1>2, ListensStep, AlwaysCounted, PTL DEF Spec

(* Nothing that belongs to a client is ever given back: there is one       *)
(* TcpClient for each that was accepted, and one descriptor less.          *)
ClientsKept ==
  /\ accepted <= arrived
  /\ next_fd = FirstFd + accepted
  /\ IsFiniteSet(m_client) /\ Cardinality(m_client) = accepted

LEMMA KeptStep == TypeOK /\ Fresh /\ ClientsKept /\ [Next]_vars => ClientsKept'
<1> SUFFICES ASSUME TypeOK, Fresh, ClientsKept, [Next]_vars
             PROVE  ClientsKept'
  OBVIOUS
<1> USE DEF ClientsKept, handshake, server
<1>0. accepted \in Nat /\ arrived \in Nat /\ next_fd \in Nat /\ FirstFd \in Nat
  BY ServerAssumption DEF TypeOK
<1>1. CASE onAccept
  <2> DEFINE c == Connection(next_fd, Chosen)
  <2>1. c \notin m_client
    <3>1. c.fd = next_fd /\ ~(next_fd < next_fd)
      BY <1>0 DEF Connection
    <3> QED BY <3>1 DEF Fresh
  <2>2. /\ IsFiniteSet(m_client') /\ Cardinality(m_client') = Cardinality(m_client) + 1
    <3>1. m_client' = m_client \cup {c} /\ IsFiniteSet(m_client)
      BY <1>1 DEF onAccept
    <3> HIDE DEF c
    <3> QED BY <2>1, <3>1, FS_AddElement
  <2>3. /\ accepted' = accepted + 1 /\ next_fd' = next_fd + 1 /\ arrived' = arrived
        /\ accepted < arrived
    BY <1>1 DEF onAccept, CanAccept
  <2> QED BY <1>0, <2>2, <2>3
<1>2. CASE Connect
  BY <1>0, <1>2 DEF Connect
<1>3. CASE Acceptor \/ InitDone \/ MainLoop \/ AcceptFails
  BY <1>3 DEF Acceptor, InitDone, MainLoop, AcceptFails
<1>4. CASE Create \/ ThreadMade \/ StartOne
  BY <1>4 DEF Create, ThreadMade, StartOne
<1>5. ASSUME NEW t \in IoIds, IoStep(t) PROVE ClientsKept'
  BY <1>5 DEF IoStep, RunTask
<1>6. CASE UNCHANGED vars
  BY <1>6 DEF vars
<1> QED BY <1>1, <1>2, <1>3, <1>4, <1>5, <1>6 DEF Next, MainStep

(* m_client grows with every client and next_fd with it: once the          *)
(* descriptors are used up, the next client that is accepted ends the      *)
(* server (AcceptFails).                                                   *)
THEOREM ClientsNeverReleased == Spec => []ClientsKept
<1>1. Init => ClientsKept
  BY FS_EmptySet, ServerAssumption DEF Init, ClientsKept
<1>2. IInv => TypeOK /\ Fresh
  BY DEF IInv
<1> QED BY <1>1, <1>2, Inductive, KeptStep, PTL DEF Spec

(* The descriptors a loop has yet to register are in the order in which    *)
(* they were accepted, behind those that it has registered, none twice.    *)
RegisteredInOrder ==
  \A t \in IoIds :
    /\ \A j, k \in DOMAIN m_pending_tasks[t] :
         j < k => m_pending_tasks[t][j] < m_pending_tasks[t][k]
    /\ \A k \in DOMAIN m_pending_tasks[t], fd \in epoll_events[t] :
         fd < m_pending_tasks[t][k]

LEMMA RegisteredStep == TypeOK /\ Fresh /\ RegisteredInOrder /\ [Next]_vars => RegisteredInOrder'
<1> SUFFICES ASSUME TypeOK, Fresh, RegisteredInOrder, [Next]_vars
             PROVE  RegisteredInOrder'
  OBVIOUS
<1> DEFINE Q(t) == m_pending_tasks[t]
<1>0. /\ m_pending_tasks \in [IoIds -> Seq(Fds)] /\ epoll_events \in [IoIds -> SUBSET Fds]
      /\ Fds \subseteq Nat /\ next_fd \in Nat
  BY ServerAssumption DEF TypeOK, Fds
<1>1. CASE onAccept
  <2> SUFFICES ASSUME NEW t \in IoIds
               PROVE  /\ \A j, k \in DOMAIN Q(t)' : j < k => Q(t)'[j] < Q(t)'[k]
                      /\ \A k \in DOMAIN Q(t)', fd \in epoll_events'[t] : fd < Q(t)'[k]
    BY DEF RegisteredInOrder
  <2>1. /\ epoll_events' = epoll_events
        /\ Q(t)' = Q(t) \/ Q(t)' = Append(Q(t), next_fd)
    BY <1>0, <1>1 DEF onAccept
  <2>2. CASE Q(t)' = Q(t)
    BY <2>1, <2>2 DEF RegisteredInOrder
  <2>3. CASE Q(t)' = Append(Q(t), next_fd)
    <3> DEFINE q == Q(t)
               n == Len(q)
    <3>1. q \in Seq(Fds) /\ n \in Nat /\ DOMAIN q = 1 .. n
      BY <1>0
    <3>2. /\ DOMAIN Q(t)' = 1 .. n + 1
          /\ \A k \in 1 .. n : Q(t)'[k] = q[k]
          /\ Q(t)'[n + 1] = next_fd
      BY <2>3, <3>1
    <3>3. /\ \A k \in 1 .. n : q[k] < next_fd
          /\ \A fd \in epoll_events[t] : fd < next_fd
      BY <3>1 DEF Fresh
    <3>4. /\ \A j, k \in 1 .. n : j < k => q[j] < q[k]
          /\ \A k \in 1 .. n, fd \in epoll_events[t] : fd < q[k]
      BY <3>1 DEF RegisteredInOrder
    <3> HIDE DEF q, n
    <3>5. \A j, k \in 1 .. n + 1 : j < k => j \in 1 .. n /\ (k \in 1 .. n \/ k = n + 1)
      BY <3>1
    <3>6. \A k \in 1 .. n + 1 : k \in 1 .. n \/ k = n + 1
      BY <3>1
    <3>7. \A j, k \in DOMAIN Q(t)' : j < k => Q(t)'[j] < Q(t)'[k]
      BY <3>2, <3>3, <3>4, <3>5
    <3>8. \A k \in DOMAIN Q(t)', fd \in epoll_events'[t] : fd < Q(t)'[k]
      BY <2>1, <3>2, <3>3, <3>4, <3>6
    <3> QED BY <3>7, <3>8
  <2> QED BY <2>1, <2>2, <2>3
<1>2. ASSUME NEW s \in IoIds, RunTask(s) PROVE RegisteredInOrder'
  <2> SUFFICES ASSUME NEW t \in IoIds
               PROVE  /\ \A j, k \in DOMAIN Q(t)' : j < k => Q(t)'[j] < Q(t)'[k]
                      /\ \A k \in DOMAIN Q(t)', fd \in epoll_events'[t] : fd < Q(t)'[k]
    BY DEF RegisteredInOrder
  <2>1. CASE s # t
    <3>1. Q(t)' = Q(t) /\ epoll_events'[t] = epoll_events[t]
      BY <1>0, <1>2, <2>1 DEF RunTask
    <3> QED BY <3>1 DEF RegisteredInOrder
  <2>2. CASE s = t
    <3> DEFINE q == Q(t)
               n == Len(q)
    <3>1. q \in Seq(Fds) /\ q # <<>> /\ n \in Nat \ {0} /\ DOMAIN q = 1 .. n
      BY <1>0, <1>2, <2>2 DEF RunTask
    <3>2. /\ Q(t)' = Tail(q) /\ epoll_events'[t] = epoll_events[t] \cup {q[1]}
      BY <1>0, <1>2, <2>2, <3>1 DEF RunTask
    <3>3. /\ DOMAIN Q(t)' = 1 .. n - 1
          /\ \A k \in 1 .. n - 1 : Q(t)'[k] = q[k + 1]
      BY <3>1, <3>2
    <3>4. /\ \A j, k \in 1 .. n : j < k => q[j] < q[k]
          /\ \A k \in 1 .. n, fd \in epoll_events[t] : fd < q[k]
      BY <3>1 DEF RegisteredInOrder
    <3> HIDE DEF q, n
    <3>5. \A k \in 1 .. n - 1 : k + 1 \in 1 .. n /\ 1 \in 1 .. n /\ 1 < k + 1
      BY <3>1
    <3>6. \A j, k \in 1 .. n - 1 : j < k => j + 1 < k + 1
      BY <3>1
    <3>7. \A j, k \in DOMAIN Q(t)' : j < k => Q(t)'[j] < Q(t)'[k]
      BY <3>3, <3>4, <3>5, <3>6
    <3>8. \A k \in DOMAIN Q(t)', fd \in epoll_events'[t] : fd < Q(t)'[k]
      BY <3>2, <3>3, <3>4, <3>5
    <3> QED BY <3>7, <3>8
  <2> QED BY <2>1, <2>2
<1>3. CASE AcceptFails \/ Aside
  <2>1. UNCHANGED <<m_pending_tasks, epoll_events>>
    BY <1>3 DEF AcceptFails, Aside
  <2> QED BY <2>1 DEF RegisteredInOrder
<1> QED BY <1>1, <1>2, <1>3, ThreeSteps

(* A loop registers its clients in the order in which they were accepted,  *)
(* each once (addEpollEvent's closures, posted by onAccept).               *)
THEOREM RegistersInOrder == Spec => []RegisteredInOrder
<1>1. Init => RegisteredInOrder
  BY DEF Init, RegisteredInOrder
<1>2. IInv => TypeOK /\ Fresh
  BY DEF IInv
<1> QED BY <1>1, <1>2, Inductive, RegisteredStep, PTL DEF Spec

(* The clients go round the io threads in the order in which they were     *)
(* accepted: descriptor FirstFd + n is given to loop n modulo Size.        *)
ServedInTurn ==
  \A c \in m_client : \E q \in Nat : c.fd = FirstFd + q * Size + c.loop

(* m_idex runs with the descriptors, and starts again at the group's end. *)
Turn == Alive => \E q \in Nat : next_fd = FirstFd + q * Size + m_idex

LEMMA TurnStep == TypeOK /\ Turn /\ ServedInTurn /\ [Next]_vars => Turn' /\ ServedInTurn'
<1> SUFFICES ASSUME TypeOK, Turn, ServedInTurn, [Next]_vars
             PROVE  Turn' /\ ServedInTurn'
  OBVIOUS
<1>1. CASE onAccept
  <2>1. PICK q \in Nat : next_fd = FirstFd + q * Size + m_idex
    BY <1>1 DEF onAccept, CanAccept, Turn, Alive
  <2>2. /\ FirstFd \in Nat /\ Size \in Nat /\ Chosen \in Nat /\ m_idex \in 0 .. Size
        /\ q * Size \in Nat
    <3>1. FirstFd \in Nat /\ Size \in Nat /\ m_idex \in 0 .. Size
      BY ServerAssumption, SizeAssumption DEF TypeOK
    <3>2. Chosen \in Nat
      BY ChosenIsOne DEF IoIds
    <3>3. q * Size \in Nat
      BY <3>1
    <3> QED BY <3>1, <3>2, <3>3
  <2>3. PICK r \in Nat : next_fd = FirstFd + r * Size + Chosen
    <3>1. CASE m_idex = Size
      <4>1. Chosen = 0 /\ (q + 1) * Size = q * Size + Size /\ q + 1 \in Nat
        BY <2>2, <3>1 DEF Chosen
      <4>2. next_fd = FirstFd + (q + 1) * Size + Chosen
        BY <2>1, <2>2, <3>1, <4>1
      <4> QED BY <4>1, <4>2
    <3>2. CASE m_idex # Size
      BY <2>1, <3>2 DEF Chosen
    <3> QED BY <3>1, <3>2
  <2>4. /\ next_fd' = next_fd + 1 /\ m_idex' = Chosen + 1
        /\ m_client' = m_client \cup {Connection(next_fd, Chosen)}
    BY <1>1 DEF onAccept
  <2>5. next_fd' = FirstFd + r * Size + m_idex'
    <3>1. r * Size \in Nat
      BY <2>2
    <3> QED BY <2>2, <2>3, <2>4, <3>1
  <2>6. ASSUME NEW c \in m_client' PROVE \E p \in Nat : c.fd = FirstFd + p * Size + c.loop
    <3>1. CASE c \in m_client
      BY <3>1 DEF ServedInTurn
    <3>2. CASE c = Connection(next_fd, Chosen)
      <4>1. c.fd = next_fd /\ c.loop = Chosen
        BY <3>2 DEF Connection
      <4> QED BY <2>3, <4>1
    <3> QED BY <2>4, <2>6, <3>1, <3>2
  <2> QED BY <2>5, <2>6 DEF Turn, ServedInTurn
<1>2. CASE AcceptFails
  <2>1. m_client' = m_client /\ ~Alive'
    BY <1>2 DEF AcceptFails, Alive
  <2> QED BY <2>1 DEF Turn, ServedInTurn
<1>3. CASE Aside
  BY <1>3 DEF Aside, Turn, ServedInTurn
<1>4. ASSUME NEW t \in IoIds, RunTask(t) PROVE Turn' /\ ServedInTurn'
  BY <1>4 DEF RunTask, Turn, ServedInTurn, Alive
<1> QED BY <1>1, <1>2, <1>3, <1>4, ThreeSteps

(* getIOThread gives each client to the loop after that of the client      *)
(* before it, however the threads and the clients interleave.              *)
THEOREM ServedRoundRobin == Spec => []ServedInTurn
<1>1. Init => Turn /\ ServedInTurn
  <2>1. FirstFd = FirstFd + 0 * Size + 0
    BY ServerAssumption, SizeAssumption
  <2> QED BY <2>1 DEF Init, Turn, ServedInTurn
<1>2. IInv => TypeOK
  BY DEF IInv
<1> QED BY <1>1, <1>2, Inductive, TurnStep, PTL DEF Spec
=============================================================================
