-------------------------- MODULE EventLoopProofs ---------------------------
(***************************************************************************)
(* Theorems about EventLoop for any number of threads, descriptors, posted *)
(* closures and reported handlers.                                         *)
(*                                                                         *)
(* The invariant IInv strengthens the properties with the phases of        *)
(* loop() (which queue can hold what at which point), with the tickets     *)
(* that make posted closures distinct, and with the distinctness of the    *)
(* three sequences taken one by one.                                       *)
(***************************************************************************)
EXTENDS EventLoop, QueueOpsProofs

-----------------------------------------------------------------------------
(* Only the running loop has swapped tasks, only the dispatch has results, *)
(* and handlers wait in m_pending_tasks only outside the run phase.        *)
Phases ==
  /\ pc # "run" => tmp_tasks = <<>>
  /\ pc # "dispatch" => result_events = <<>>
  /\ pc = "run" => Elements(m_pending_tasks) \subseteq Posted

(* No queued closure has a ticket that is still to be handed out. *)
Tickets ==
  \A task \in Elements(tmp_tasks) \cup Elements(m_pending_tasks) :
    task.ticket <= posts

(* TasksDistinct, without the concatenation. *)
PartsDistinct ==
  /\ Distinct(tmp_tasks) /\ Distinct(m_pending_tasks)
  /\ Distinct(result_events)
  /\ Elements(tmp_tasks) \cap Elements(m_pending_tasks) = {}
  /\ Elements(m_pending_tasks) \cap Elements(result_events) = {}

IInv ==
  /\ TypeOK
  /\ Phases
  /\ Tickets
  /\ PartsDistinct
  /\ MirrorExact
  /\ InterestFresh
  /\ OnlyDrainSwallowsWakeup

-----------------------------------------------------------------------------
(* Facts about tasks. *)
LEMMA TaskFacts ==
  /\ \A task \in Tasks : task.kind \in {"in", "out", "add", "del"}
                         /\ task.fd \in AllFds /\ task.ticket \in Nat
  /\ \A task \in Handlers : task.kind \in Events /\ task.ticket = 0
  /\ \A task \in Posted : /\ task.kind \in {"add", "del"} /\ task.fd \in Fds
                          /\ task.ticket \in 1 .. MaxPosts
  /\ Handlers \cap Posted = {}
  /\ Handlers \subseteq Tasks /\ Posted \subseteq Tasks
  /\ DrainTask \in Handlers
BY BoundAssumption
   DEF Tasks, Handlers, Posted, Events, AllFds, DrainTask, Handler

(* The two macros keep epoll's table a table of descriptors and interests. *)
LEMMA AddType ==
  ASSUME TypeOK, NEW fd \in AllFds, NEW ev \in SUBSET Events,
         ADD_TO_EPOLL(fd, ev)
  PROVE  /\ m_listend_fds' \subseteq AllFds
         /\ DOMAIN epoll_events' \subseteq AllFds
         /\ epoll_events' \in [DOMAIN epoll_events' -> SUBSET Events]
BY DEF TypeOK, ADD_TO_EPOLL

LEMMA DeleteType ==
  ASSUME TypeOK, NEW fd \in AllFds, DELETE_TO_EPOLL(fd)
  PROVE  /\ m_listend_fds' \subseteq AllFds
         /\ DOMAIN epoll_events' \subseteq AllFds
         /\ epoll_events' \in [DOMAIN epoll_events' -> SUBSET Events]
BY DEF TypeOK, DELETE_TO_EPOLL

(* While the mirror is exact the macros do what they are named for. *)
LEMMA AddEffect ==
  ASSUME MirrorExact, NEW fd, NEW ev, ADD_TO_EPOLL(fd, ev)
  PROVE  /\ MirrorExact'
         /\ DOMAIN epoll_events' = DOMAIN epoll_events \cup {fd}
         /\ epoll_events'[fd] = ev
         /\ \A f \in DOMAIN epoll_events : f # fd =>
              epoll_events'[f] = epoll_events[f]
BY DEF MirrorExact, ADD_TO_EPOLL

LEMMA DeleteEffect ==
  ASSUME MirrorExact, NEW fd, DELETE_TO_EPOLL(fd)
  PROVE  /\ MirrorExact'
         /\ DOMAIN epoll_events' = DOMAIN epoll_events \ {fd}
         /\ \A f \in DOMAIN epoll_events' : epoll_events'[f] = epoll_events[f]
BY DEF MirrorExact, DELETE_TO_EPOLL

-----------------------------------------------------------------------------
(* The type invariant holds of every state of the loop (EventLoop.cc). *)
LEMMA TypeInit == Init => TypeOK
<1> SUFFICES ASSUME Init PROVE TypeOK
  OBVIOUS
<1>1. <<>> \in Seq(Tasks) /\ <<>> \in Seq(Handlers)
  BY EmptySeq
<1>2. call \in [Threads -> [at : {"idle", "push", "wake"}, fd : AllFds]]
  BY DEF Init, Idle, At, AllFds
<1>3. /\ m_listend_fds \subseteq AllFds /\ DOMAIN epoll_events \subseteq AllFds
      /\ epoll_events \in [DOMAIN epoll_events -> SUBSET Events]
      /\ m_listen_events \in [AllFds -> SUBSET Events]
  BY DEF Init, AllFds, Events
<1>4. /\ m_pending_tasks \in Seq(Tasks) /\ tmp_tasks \in Seq(Tasks)
      /\ result_events \in Seq(Handlers)
      /\ pc \in {"idle", "test", "swap", "run", "dispatch", "exit"}
      /\ m_stop_flag \in BOOLEAN /\ readable \in BOOLEAN /\ drained \in BOOLEAN
  BY <1>1 DEF Init
<1>5. posts \in 0 .. MaxPosts
  BY BoundAssumption DEF Init
<1> QED BY <1>2, <1>3, <1>4, <1>5 DEF TypeOK

LEMMA TypeStep == TypeOK /\ [Next]_vars => TypeOK'
<1> SUFFICES ASSUME TypeOK, [Next]_vars PROVE TypeOK'
  OBVIOUS
<1> USE BoundAssumption
<1>1. CASE LoopStart
  BY <1>1 DEF TypeOK, LoopStart
<1>2. CASE TestStop
  BY <1>2 DEF TypeOK, TestStop
<1>3. CASE SwapTasks
  BY <1>3, EmptySeq DEF TypeOK, SwapTasks
<1>4. ASSUME NEW task, Running(task)
      PROVE  tmp_tasks' \in Seq(Tasks) /\ task \in Tasks
  BY <1>4, ElementsTail DEF TypeOK, Running
<1>5. CASE RunPosted
  <2>1. PICK task \in Posted :
          /\ Running(task)
          /\ IF task.kind = "add"
             THEN ADD_TO_EPOLL(task.fd, m_listen_events[task.fd])
             ELSE DELETE_TO_EPOLL(task.fd)
          /\ UNCHANGED <<m_stop_flag, readable, m_listen_events, drained>>
    BY <1>5 DEF RunPosted
  <2>2. task.fd \in AllFds /\ m_listen_events[task.fd] \in SUBSET Events
    BY TaskFacts, <2>1 DEF TypeOK, AllFds
  <2>3. /\ m_listend_fds' \subseteq AllFds
        /\ DOMAIN epoll_events' \subseteq AllFds
        /\ epoll_events' \in [DOMAIN epoll_events' -> SUBSET Events]
    BY <2>1, <2>2, AddType, DeleteType
  <2> QED BY <2>1, <2>3, <1>4 DEF TypeOK, Running
<1>6. CASE RunDrain
  BY <1>6, <1>4 DEF TypeOK, RunDrain, Running
<1>7. CASE RunHandler
  <2>1. PICK task \in Handlers \ {DrainTask} :
          /\ Running(task)
          /\ UNCHANGED <<readable, drained>>
          /\ \/ UNCHANGED <<m_stop_flag, m_listend_fds, epoll_events,
                            m_listen_events>>
             \/ \E fd \in Fds, ev \in Events :
                  \/ Reregister(fd, m_listen_events[fd] \cup {ev})
                  \/ Reregister(fd, m_listen_events[fd] \ {ev})
             \/ \E fd \in Fds : Unregister(fd)
             \/ /\ m_stop_flag' = TRUE
                /\ UNCHANGED <<m_listend_fds, epoll_events, m_listen_events>>
    BY <1>7 DEF RunHandler
  <2>2. ASSUME NEW fd \in Fds, NEW ev \in SUBSET Events, Reregister(fd, ev)
        PROVE  /\ m_listend_fds' \subseteq AllFds
               /\ DOMAIN epoll_events' \subseteq AllFds
               /\ epoll_events' \in [DOMAIN epoll_events' -> SUBSET Events]
               /\ m_listen_events' \in [AllFds -> SUBSET Events]
               /\ m_stop_flag' \in BOOLEAN
    <3>1. fd \in AllFds
      BY DEF AllFds
    <3> QED BY <2>2, <3>1, AddType DEF Reregister, TypeOK
  <2>3. ASSUME NEW fd \in Fds, Unregister(fd)
        PROVE  /\ m_listend_fds' \subseteq AllFds
               /\ DOMAIN epoll_events' \subseteq AllFds
               /\ epoll_events' \in [DOMAIN epoll_events' -> SUBSET Events]
               /\ m_listen_events' \in [AllFds -> SUBSET Events]
               /\ m_stop_flag' \in BOOLEAN
    <3>1. fd \in AllFds
      BY DEF AllFds
    <3> QED BY <2>3, <3>1, DeleteType DEF Unregister, TypeOK
  <2>4. \A fd \in Fds, ev \in Events :
          /\ m_listen_events[fd] \cup {ev} \in SUBSET Events
          /\ m_listen_events[fd] \ {ev} \in SUBSET Events
    BY DEF TypeOK, AllFds
  <2>5. /\ m_listend_fds' \subseteq AllFds
        /\ DOMAIN epoll_events' \subseteq AllFds
        /\ epoll_events' \in [DOMAIN epoll_events' -> SUBSET Events]
        /\ m_listen_events' \in [AllFds -> SUBSET Events]
        /\ m_stop_flag' \in BOOLEAN
    <3>1. CASE UNCHANGED <<m_stop_flag, m_listend_fds, epoll_events,
                           m_listen_events>>
      BY <3>1 DEF TypeOK
    <3>2. CASE \E fd \in Fds, ev \in Events :
                 \/ Reregister(fd, m_listen_events[fd] \cup {ev})
                 \/ Reregister(fd, m_listen_events[fd] \ {ev})
      BY <3>2, <2>2, <2>4
    <3>3. CASE \E fd \in Fds : Unregister(fd)
      BY <3>3, <2>3
    <3>4. CASE /\ m_stop_flag' = TRUE
               /\ UNCHANGED <<m_listend_fds, epoll_events, m_listen_events>>
      BY <3>4 DEF TypeOK
    <3> QED BY <2>1, <3>1, <3>2, <3>3, <3>4
  <2> QED BY <2>1, <2>5, <1>4 DEF TypeOK, Running
<1>8. CASE EpollWait
  <2>1. PICK batch \in Batches : EpollReturn(batch)
    BY <1>8 DEF EpollWait
  <2>2. batch \in Seq(Handlers)
    BY SeqDef DEF Batches
  <2> QED BY <2>1, <2>2 DEF TypeOK, EpollReturn
<1>9. CASE DispatchOne
  <2>1. /\ Head(result_events) \in Tasks
        /\ Tail(result_events) \in Seq(Handlers)
    BY <1>9, ElementsTail, TaskFacts DEF DispatchOne, TypeOK
  <2> QED BY <1>9, <2>1, ElementsAppend DEF DispatchOne, PushTask, TypeOK
<1>10. CASE DispatchDone
  BY <1>10 DEF TypeOK, DispatchDone
<1>11. ASSUME NEW t \in Threads, NEW fd \in Fds, NEW ev \in Events,
              Listen(t, fd, ev)
       PROVE  TypeOK'
  <2>1. fd \in AllFds
    BY DEF AllFds
  <2> QED BY <1>11, <2>1 DEF TypeOK, Listen, At
<1>12. ASSUME NEW t \in Threads, NEW fd \in Fds, NEW kind \in {"add", "del"},
              Post(t, kind, fd)
       PROVE  TypeOK'
  <2>1. [kind |-> kind, fd |-> fd, ticket |-> posts + 1] \in Tasks
    BY <1>12 DEF Post, TypeOK, Tasks, Posted
  <2>2. m_pending_tasks' \in Seq(Tasks) /\ posts' \in 0 .. MaxPosts
    BY <1>12, <2>1, ElementsAppend DEF Post, PushTask, TypeOK
  <2>3. call' \in [Threads -> [at : {"idle", "push", "wake"}, fd : AllFds]]
    BY <1>12 DEF Post, TypeOK, Waking, At, AllFds
  <2> QED BY <1>12, <2>2, <2>3 DEF Post, TypeOK
<1>13. ASSUME NEW t \in Threads, wakeup(t)
       PROVE  TypeOK'
  BY <1>13 DEF TypeOK, wakeup, Idle, At, AllFds
<1>14. ASSUME NEW t \in Threads, stop(t)
       PROVE  TypeOK'
  BY <1>14 DEF TypeOK, stop
<1>15. CASE UNCHANGED vars
  BY <1>15 DEF TypeOK, vars
<1> QED
  BY <1>1, <1>2, <1>3, <1>5, <1>6, <1>7, <1>8, <1>9, <1>10, <1>11, <1>12,
     <1>13, <1>14, <1>15
  DEF Next, LoopStep, LoopComputes, ThreadStep, addEpollEvent,
      deleteEpollEvent

(* Every variable of the loop keeps its type. *)
THEOREM TypeCorrect == Spec => []TypeOK
<1> QED BY TypeInit, TypeStep, PTL DEF Spec

-----------------------------------------------------------------------------
(* The inductive invariant. *)
LEMMA InvInit == Init => IInv
<1> SUFFICES ASSUME Init PROVE IInv
  OBVIOUS
<1>1. TypeOK
  BY TypeInit
<1>2. Phases /\ Tickets /\ PartsDistinct /\ OnlyDrainSwallowsWakeup
  BY ElementsEmpty
     DEF Init, Phases, Tickets, PartsDistinct, OnlyDrainSwallowsWakeup
<1>3. MirrorExact /\ InterestFresh
  BY FdAssumption DEF Init, MirrorExact, InterestFresh, AllFds
<1> QED BY <1>1, <1>2, <1>3 DEF IInv

(* Popping a task off tmp_tasks disturbs nothing but tmp_tasks. *)
LEMMA RunningKeeps ==
  ASSUME IInv, NEW task, Running(task)
  PROVE  /\ Phases' /\ Tickets' /\ PartsDistinct'
         /\ task \in Tasks
         /\ Elements(tmp_tasks) = {task} \cup Elements(tmp_tasks')
         /\ UNCHANGED <<m_pending_tasks, call>>
<1>1. /\ task \in Tasks
      /\ Elements(tmp_tasks) = {task} \cup Elements(tmp_tasks')
      /\ Distinct(tmp_tasks')
      /\ UNCHANGED <<m_pending_tasks, result_events, pc, call, posts>>
      /\ pc = "run"
  BY ElementsTail DEF IInv, TypeOK, PartsDistinct, Running
<1>2. Phases'
  BY <1>1 DEF IInv, Phases
<1>3. Tickets'
  BY <1>1 DEF IInv, Tickets
<1>4. PartsDistinct'
  BY <1>1 DEF IInv, PartsDistinct
<1> QED BY <1>1, <1>2, <1>3, <1>4

(* ... and, when it is not a registration, leaves interests fresh. *)
LEMMA FreshWithout ==
  ASSUME InterestFresh, NEW task, task.kind # "add",
         Elements(tmp_tasks) = {task} \cup Elements(tmp_tasks'),
         UNCHANGED <<m_pending_tasks, call>>,
         DOMAIN epoll_events' \subseteq DOMAIN epoll_events,
         \A fd \in DOMAIN epoll_events' :
           /\ epoll_events'[fd] = epoll_events[fd]
           /\ m_listen_events'[fd] = m_listen_events[fd]
  PROVE  InterestFresh'
BY DEF InterestFresh

LEMMA InvStep == IInv /\ [Next]_vars => IInv'
<1> SUFFICES ASSUME IInv, [Next]_vars PROVE IInv'
  OBVIOUS
<1>type. TypeOK /\ TypeOK'
  BY TypeStep DEF IInv
<1>1. CASE LoopStart
  BY <1>1, <1>type
     DEF LoopStart, IInv, Phases, Tickets, PartsDistinct, MirrorExact,
         InterestFresh, OnlyDrainSwallowsWakeup
<1>2. CASE TestStop
  BY <1>2, <1>type
     DEF TestStop, IInv, Phases, Tickets, PartsDistinct, MirrorExact,
         InterestFresh, OnlyDrainSwallowsWakeup
<1>3. CASE SwapTasks
  <2>1. /\ tmp_tasks = <<>> /\ result_events = <<>>
        /\ tmp_tasks' = m_pending_tasks /\ m_pending_tasks' = <<>>
        /\ UNCHANGED <<result_events, posts, m_listend_fds, epoll_events,
                       m_listen_events, call>>
    BY <1>3 DEF SwapTasks, IInv, Phases
  <2>2. /\ Elements(m_pending_tasks') = {} /\ Elements(result_events) = {}
        /\ Elements(tmp_tasks) = {} /\ Distinct(m_pending_tasks')
        /\ Elements(tmp_tasks') = Elements(m_pending_tasks)
    BY <2>1, ElementsEmpty
  <2>3. Phases'
    BY <1>3, <2>1, <2>2 DEF Phases, SwapTasks
  <2>4. Tickets'
    BY <2>1, <2>2 DEF IInv, Tickets
  <2>5. PartsDistinct'
    BY <2>1, <2>2 DEF IInv, PartsDistinct
  <2>6. MirrorExact' /\ InterestFresh'
    BY <2>1, <2>2 DEF IInv, MirrorExact, InterestFresh
  <2>7. OnlyDrainSwallowsWakeup'
    BY <2>2 DEF OnlyDrainSwallowsWakeup
  <2> QED BY <1>type, <2>3, <2>4, <2>5, <2>6, <2>7 DEF IInv
<1>4. CASE RunPosted
  <2>1. PICK task \in Posted :
          /\ Running(task)
          /\ IF task.kind = "add"
             THEN ADD_TO_EPOLL(task.fd, m_listen_events[task.fd])
             ELSE DELETE_TO_EPOLL(task.fd)
          /\ UNCHANGED <<m_stop_flag, readable, m_listen_events, drained>>
    BY <1>4 DEF RunPosted
  <2>2. /\ Phases' /\ Tickets' /\ PartsDistinct'
        /\ Elements(tmp_tasks) = {task} \cup Elements(tmp_tasks')
        /\ UNCHANGED <<m_pending_tasks, call>>
    BY <2>1, RunningKeeps
  <2>3. MirrorExact' /\ InterestFresh'
    <3>1. CASE task.kind = "add"
      <4>1. /\ MirrorExact'
            /\ DOMAIN epoll_events' = DOMAIN epoll_events \cup {task.fd}
            /\ epoll_events'[task.fd] = m_listen_events[task.fd]
            /\ \A f \in DOMAIN epoll_events : f # task.fd =>
                 epoll_events'[f] = epoll_events[f]
        BY <2>1, <3>1, AddEffect DEF IInv
      <4>2. ASSUME NEW fd \in DOMAIN epoll_events', fd # task.fd,
                   epoll_events'[fd] # m_listen_events[fd],
                   ~\E t \in Threads : call[t] = At("push", fd)
            PROVE  \E x \in Elements(tmp_tasks') \cup Elements(m_pending_tasks) :
                     x.kind = "add" /\ x.fd = fd
        BY <2>2, <4>1, <4>2 DEF IInv, InterestFresh
      <4> QED BY <2>1, <2>2, <4>1, <4>2 DEF InterestFresh
    <3>2. CASE task.kind # "add"
      <4>1. /\ MirrorExact'
            /\ DOMAIN epoll_events' \subseteq DOMAIN epoll_events
            /\ \A f \in DOMAIN epoll_events' :
                 epoll_events'[f] = epoll_events[f]
        BY <2>1, <3>2, DeleteEffect DEF IInv
      <4> QED BY <2>1, <2>2, <3>2, <4>1, FreshWithout DEF IInv
    <3> QED BY <3>1, <3>2
  <2>4. OnlyDrainSwallowsWakeup'
    BY <2>1, <2>2 DEF IInv, OnlyDrainSwallowsWakeup
  <2> QED BY <1>type, <2>2, <2>3, <2>4 DEF IInv
<1>5. CASE RunDrain
  <2>1. /\ Phases' /\ Tickets' /\ PartsDistinct'
        /\ Elements(tmp_tasks) = {DrainTask} \cup Elements(tmp_tasks')
        /\ UNCHANGED <<m_pending_tasks, call>>
        /\ DrainTask.kind # "add"
    BY <1>5, RunningKeeps DEF RunDrain, DrainTask, Handler
  <2>2. MirrorExact' /\ InterestFresh'
    BY <1>5, <2>1, FreshWithout DEF RunDrain, IInv, MirrorExact
  <2>3. OnlyDrainSwallowsWakeup'
    BY <1>5 DEF RunDrain, OnlyDrainSwallowsWakeup
  <2> QED BY <1>type, <2>1, <2>2, <2>3 DEF IInv
<1>6. CASE RunHandler
  <2>1. PICK task \in Handlers \ {DrainTask} :
          /\ Running(task)
          /\ UNCHANGED <<readable, drained>>
          /\ \/ UNCHANGED <<m_stop_flag, m_listend_fds, epoll_events,
                            m_listen_events>>
             \/ \E fd \in Fds, ev \in Events :
                  \/ Reregister(fd, m_listen_events[fd] \cup {ev})
                  \/ Reregister(fd, m_listen_events[fd] \ {ev})
             \/ \E fd \in Fds : Unregister(fd)
             \/ /\ m_stop_flag' = TRUE
                /\ UNCHANGED <<m_listend_fds, epoll_events, m_listen_events>>
    BY <1>6 DEF RunHandler
  <2>2. /\ Phases' /\ Tickets' /\ PartsDistinct'
        /\ Elements(tmp_tasks) = {task} \cup Elements(tmp_tasks')
        /\ UNCHANGED <<m_pending_tasks, call>>
        /\ task.kind # "add"
    BY <2>1, RunningKeeps, TaskFacts DEF Events
  <2>3. ASSUME NEW fd \in Fds, NEW ev, Reregister(fd, ev)
        PROVE  MirrorExact' /\ InterestFresh'
    <3>1. /\ MirrorExact'
          /\ DOMAIN epoll_events' = DOMAIN epoll_events \cup {fd}
          /\ epoll_events'[fd] = ev
          /\ \A f \in DOMAIN epoll_events : f # fd =>
               epoll_events'[f] = epoll_events[f]
      BY <2>3, AddEffect DEF IInv, Reregister
    <3>2. /\ m_listen_events'[fd] = ev
          /\ \A f \in DOMAIN epoll_events : f # fd =>
               m_listen_events'[f] = m_listen_events[f]
      BY <2>3, <1>type DEF Reregister, TypeOK, AllFds
    <3>3. ASSUME NEW f \in DOMAIN epoll_events', f # fd,
                 epoll_events'[f] # m_listen_events'[f],
                 ~\E t \in Threads : call[t] = At("push", f)
          PROVE  \E x \in Elements(tmp_tasks') \cup Elements(m_pending_tasks) :
                   x.kind = "add" /\ x.fd = f
      BY <2>2, <3>1, <3>2, <3>3 DEF IInv, InterestFresh
    <3> QED BY <2>2, <3>1, <3>2, <3>3 DEF InterestFresh
  <2>4. ASSUME NEW fd \in Fds, Unregister(fd)
        PROVE  MirrorExact' /\ InterestFresh'
    <3>1. /\ MirrorExact'
          /\ DOMAIN epoll_events' = DOMAIN epoll_events \ {fd}
          /\ \A f \in DOMAIN epoll_events' : epoll_events'[f] = epoll_events[f]
      BY <2>4, DeleteEffect DEF IInv, Unregister
    <3>2. \A f \in DOMAIN epoll_events' :
            m_listen_events'[f] = m_listen_events[f]
      BY <2>4, <3>1, <1>type DEF Unregister, TypeOK
    <3> QED BY <2>2, <3>1, <3>2, FreshWithout DEF IInv
  <2>5. ASSUME UNCHANGED <<m_listend_fds, epoll_events, m_listen_events>>
        PROVE  MirrorExact' /\ InterestFresh'
    BY <2>2, <2>5, FreshWithout DEF IInv, MirrorExact
  <2>6. MirrorExact' /\ InterestFresh'
    BY <2>1, <2>3, <2>4, <2>5
  <2>7. OnlyDrainSwallowsWakeup'
    BY <2>1, <2>2 DEF IInv, OnlyDrainSwallowsWakeup
  <2> QED BY <1>type, <2>2, <2>6, <2>7 DEF IInv
<1>7. CASE EpollWait
  <2>1. PICK batch \in Batches : EpollReturn(batch)
    BY <1>7 DEF EpollWait
  <2>2. /\ Distinct(batch) /\ Elements(batch) \subseteq Handlers
    BY DEF Batches, Elements
  <2>3. /\ pc = "run" /\ tmp_tasks = <<>> /\ pc' = "dispatch"
        /\ result_events' = batch
        /\ UNCHANGED <<m_pending_tasks, tmp_tasks, readable, m_listend_fds,
                       epoll_events, m_listen_events, call, posts, drained>>
    BY <2>1 DEF EpollReturn, Blocked
  <2>4. Phases' /\ Tickets'
    BY <2>3 DEF IInv, Phases, Tickets
  <2>5. PartsDistinct'
    BY <2>2, <2>3, TaskFacts DEF IInv, Phases, PartsDistinct
  <2>6. MirrorExact' /\ InterestFresh' /\ OnlyDrainSwallowsWakeup'
    BY <2>3 DEF IInv, MirrorExact, InterestFresh, OnlyDrainSwallowsWakeup
  <2> QED BY <1>type, <2>4, <2>5, <2>6 DEF IInv
<1>8. CASE DispatchOne
  <2> DEFINE h == Head(result_events)
  <2>1. /\ h \in Handlers /\ h \in Tasks
        /\ Elements(result_events) = {h} \cup Elements(result_events')
        /\ Distinct(result_events') /\ h \notin Elements(result_events')
    BY <1>8, <1>type, ElementsTail, TaskFacts
       DEF DispatchOne, TypeOK, IInv, PartsDistinct
  <2>2. /\ Elements(m_pending_tasks') = Elements(m_pending_tasks) \cup {h}
        /\ h \notin Elements(m_pending_tasks) => Distinct(m_pending_tasks')
    BY <1>8, <1>type, <2>1, ElementsAppend
       DEF DispatchOne, PushTask, TypeOK, IInv, PartsDistinct
  <2>3. /\ pc = "dispatch" /\ tmp_tasks = <<>>
        /\ Elements(tmp_tasks) = {} /\ Elements(tmp_tasks') = {}
        /\ UNCHANGED <<tmp_tasks, readable, m_listend_fds, epoll_events,
                       m_listen_events, pc, call, posts, drained>>
    BY <1>8, ElementsEmpty DEF DispatchOne, IInv, Phases
  <2> HIDE DEF h
  <2>4. Phases'
    BY <2>3 DEF IInv, Phases
  <2>5. Tickets'
    <3>1. h.ticket <= posts
      BY <2>1, <1>type, TaskFacts DEF TypeOK
    <3> QED BY <2>2, <2>3, <3>1 DEF IInv, Tickets
  <2>6. PartsDistinct'
    BY <2>1, <2>2, <2>3 DEF IInv, PartsDistinct
  <2>7. MirrorExact' /\ InterestFresh'
    BY <2>2, <2>3 DEF IInv, MirrorExact, InterestFresh
  <2>8. OnlyDrainSwallowsWakeup'
    BY <2>1, <2>2, <2>3, TaskFacts DEF IInv, OnlyDrainSwallowsWakeup
  <2> QED BY <1>type, <2>4, <2>5, <2>6, <2>7, <2>8 DEF IInv
<1>9. CASE DispatchDone
  BY <1>9, <1>type
     DEF DispatchDone, IInv, Phases, Tickets, PartsDistinct, MirrorExact,
         InterestFresh, OnlyDrainSwallowsWakeup
<1>10. ASSUME NEW t \in Threads, NEW fd \in Fds, NEW ev \in Events,
              Listen(t, fd, ev)
       PROVE  IInv'
  <2>1. /\ UNCHANGED <<m_pending_tasks, tmp_tasks, readable, m_listend_fds,
                       epoll_events, result_events, pc, posts, drained>>
        /\ call'[t] = At("push", fd) /\ call[t] = Idle
        /\ \A u \in Threads : u # t => call'[u] = call[u]
        /\ \A f \in AllFds : f # fd => m_listen_events'[f] = m_listen_events[f]
    BY <1>10, <1>type DEF Listen, TypeOK
  <2>2. Phases' /\ Tickets' /\ PartsDistinct' /\ MirrorExact'
    BY <2>1 DEF IInv, Phases, Tickets, PartsDistinct, MirrorExact
  <2>3. InterestFresh'
    <3>1. SUFFICES ASSUME NEW f \in DOMAIN epoll_events, f # fd
                   PROVE  \/ epoll_events[f] = m_listen_events'[f]
                          \/ \E u \in Threads : call'[u] = At("push", f)
                          \/ \E x \in Elements(tmp_tasks)
                                        \cup Elements(m_pending_tasks) :
                               x.kind = "add" /\ x.fd = f
      BY <2>1 DEF InterestFresh
    <3>2. call[t] # At("push", f)
      BY <2>1 DEF Idle, At
    <3> QED BY <2>1, <3>1, <3>2, <1>type DEF IInv, InterestFresh, TypeOK
  <2>4. OnlyDrainSwallowsWakeup'
    <3>1. call[t] # Waking
      BY <2>1 DEF Idle, Waking, At
    <3> QED BY <2>1, <3>1 DEF IInv, OnlyDrainSwallowsWakeup
  <2> QED BY <1>type, <2>2, <2>3, <2>4 DEF IInv
<1>11. ASSUME NEW t \in Threads, NEW fd \in Fds, NEW kind \in {"add", "del"},
              Post(t, kind, fd),
              (kind = "add" /\ call[t] = At("push", fd)) \/ call[t] = Idle
       PROVE  IInv'
  <2> DEFINE x == [kind |-> kind, fd |-> fd, ticket |-> posts + 1]
  <2>1. x \in Posted /\ x \in Tasks /\ x.ticket = posts + 1
        /\ x.kind = kind /\ x.fd = fd
    BY <1>11, <1>type DEF Post, TypeOK, Tasks, Posted
  <2>2. /\ Elements(m_pending_tasks') = Elements(m_pending_tasks) \cup {x}
        /\ x \notin Elements(m_pending_tasks) => Distinct(m_pending_tasks')
    BY <1>11, <1>type, <2>1, ElementsAppend
       DEF Post, PushTask, TypeOK, IInv, PartsDistinct
  <2>3. /\ UNCHANGED <<tmp_tasks, readable, m_listend_fds, epoll_events,
                       m_listen_events, result_events, pc, drained>>
        /\ posts' = posts + 1 /\ posts \in Nat
        /\ call'[t] = Waking
        /\ \A u \in Threads : u # t => call'[u] = call[u]
    BY <1>11, <1>type DEF Post, TypeOK
  <2> HIDE DEF x
  <2>4. /\ Elements(tmp_tasks) \subseteq Tasks
        /\ Elements(m_pending_tasks) \subseteq Tasks
        /\ Elements(result_events) \subseteq Handlers
    BY <1>type, ElementsByIndex DEF TypeOK
  <2>5. x \notin Elements(tmp_tasks) \cup Elements(m_pending_tasks)
    BY <2>1, <2>3 DEF IInv, Tickets
  <2>6. Phases'
    BY <2>1, <2>2, <2>3 DEF IInv, Phases
  <2>7. Tickets'
    BY <2>1, <2>2, <2>3, <2>4, TaskFacts DEF IInv, Tickets
  <2>8. PartsDistinct'
    BY <2>1, <2>2, <2>3, <2>4, <2>5, TaskFacts DEF IInv, PartsDistinct
  <2>9. MirrorExact' /\ InterestFresh'
    <3>1. ASSUME NEW f, call[t] = At("push", f)
          PROVE  x.kind = "add" /\ x.fd = f
      BY <1>11, <2>1, <3>1 DEF At, Idle
    <3> QED BY <2>2, <2>3, <3>1 DEF IInv, MirrorExact, InterestFresh
  <2>10. OnlyDrainSwallowsWakeup'
    BY <2>3 DEF OnlyDrainSwallowsWakeup
  <2> QED BY <1>type, <2>6, <2>7, <2>8, <2>9, <2>10 DEF IInv
<1>12. ASSUME NEW t \in Threads, wakeup(t)
       PROVE  IInv'
  <2>1. /\ UNCHANGED <<m_pending_tasks, tmp_tasks, m_listend_fds, epoll_events,
                       m_listen_events, result_events, pc, posts, drained>>
        /\ readable' = TRUE /\ call[t] = Waking
        /\ \A u \in Threads : u # t => call'[u] = call[u]
    BY <1>12, <1>type DEF wakeup, TypeOK
  <2>2. Phases' /\ Tickets' /\ PartsDistinct' /\ MirrorExact'
    BY <2>1 DEF IInv, Phases, Tickets, PartsDistinct, MirrorExact
  <2>3. InterestFresh'
    <3>1. \A f : call[t] # At("push", f)
      BY <2>1 DEF Waking, At
    <3> QED BY <2>1, <3>1 DEF IInv, InterestFresh
  <2>4. OnlyDrainSwallowsWakeup'
    BY <2>1 DEF OnlyDrainSwallowsWakeup
  <2> QED BY <1>type, <2>2, <2>3, <2>4 DEF IInv
<1>13. ASSUME NEW t \in Threads, stop(t)
       PROVE  IInv'
  BY <1>13, <1>type
     DEF stop, IInv, Phases, Tickets, PartsDistinct, MirrorExact,
         InterestFresh, OnlyDrainSwallowsWakeup
<1>14. CASE UNCHANGED vars
  BY <1>14, <1>type
     DEF vars, IInv, Phases, Tickets, PartsDistinct, MirrorExact,
         InterestFresh, OnlyDrainSwallowsWakeup
<1> QED
  BY <1>1, <1>2, <1>3, <1>4, <1>5, <1>6, <1>7, <1>8, <1>9, <1>10, <1>11,
     <1>12, <1>13, <1>14
  DEF Next, LoopStep, LoopComputes, ThreadStep, addEpollEvent,
      deleteEpollEvent

(* The strengthened invariant holds of every state. *)
THEOREM Invariance == Spec => []IInv
<1> QED BY InvInit, InvStep, PTL DEF Spec

-----------------------------------------------------------------------------
(* What the invariant gives. *)

(* epoll_ctl is always asked for the operation that fits the kernel's      *)
(* table, whoever registers and unregisters (ADD_TO_EPOLL, line 12;        *)
(* DELETE_TO_EPOLL, line 26).                                              *)
THEOREM MirrorAlwaysExact == Spec => []MirrorExact
<1>1. IInv => MirrorExact
  BY DEF IInv
<1> QED BY <1>1, Invariance, PTL

(* A registered descriptor's interest is never out of date without a       *)
(* registration on its way (FdEvent::listen, EventLoop::addEpollEvent).    *)
THEOREM InterestAlwaysFresh == Spec => []InterestFresh
<1>1. IInv => InterestFresh
  BY DEF IInv
<1> QED BY <1>1, Invariance, PTL

(* Queueing handlers without a wake-up is safe (addTask in loop(), lines   *)
(* 111 and 115): while the loop blocks in epoll_wait none is pending.      *)
THEOREM HandlersNeverStranded == Spec => []NoHandlerLeftBehind
<1>1. IInv => NoHandlerLeftBehind
  BY DEF IInv, Phases, NoHandlerLeftBehind, Blocked
<1> QED BY <1>1, Invariance, PTL

(* A posted closure can miss its wake-up only to the drain callback run    *)
(* after it was pushed (lines 199 to 205).                                 *)
THEOREM WakeupLostOnlyToDrain == Spec => []OnlyDrainSwallowsWakeup
<1>1. IInv => OnlyDrainSwallowsWakeup
  BY DEF IInv
<1> QED BY <1>1, Invariance, PTL

(* One report of epoll, or one post, is one task (lines 76 to 90 and 102   *)
(* to 117).                                                                *)
THEOREM TasksAlwaysDistinct == Spec => []TasksDistinct
<1>1. IInv => TasksDistinct
  <2>1. SUFFICES ASSUME IInv PROVE TasksDistinct
    OBVIOUS
  <2>2. /\ tmp_tasks \in Seq(Tasks) /\ m_pending_tasks \in Seq(Tasks)
        /\ result_events \in Seq(Tasks)
    BY <2>1, SeqMonotonic, TaskFacts DEF IInv, TypeOK
  <2>3. /\ Queue \in Seq(Tasks) /\ Distinct(Queue)
        /\ Elements(Queue) = Elements(tmp_tasks) \cup Elements(m_pending_tasks)
    BY <2>1, <2>2, DistinctConcat, ConcatProperties
       DEF IInv, PartsDistinct, Queue
  <2>4. Elements(tmp_tasks) = {} \/ Elements(result_events) = {}
    BY <2>1, ElementsEmpty DEF IInv, Phases
  <2>5. Distinct(result_events)
        /\ Elements(Queue) \cap Elements(result_events) = {}
    BY <2>1, <2>3, <2>4 DEF IInv, PartsDistinct
  <2> QED BY <2>2, <2>3, <2>5, DistinctConcat DEF TasksDistinct
<1> QED BY <1>1, Invariance, PTL

-----------------------------------------------------------------------------
(* The loop implements the first-in first-out queue.                       *)

(* A push at the end of m_pending_tasks is a push at the end of Queue. *)
LEMMA PushIsPut ==
  ASSUME TypeOK, NEW x \in Tasks, PushTask(x), UNCHANGED tmp_tasks
  PROVE  Fifo!Put
<1>1. m_pending_tasks \o <<x>> = Append(m_pending_tasks, x)
      /\ <<x>> \in Seq(Tasks)
  BY AppendIsConcat DEF TypeOK
<1>2. Queue' = tmp_tasks \o (m_pending_tasks \o <<x>>)
  BY <1>1 DEF Queue, PushTask
<1>3. Queue' = Queue \o <<x>> /\ Queue \in Seq(Tasks)
  BY <1>1, <1>2, ConcatAssociative, ConcatProperties DEF Queue, TypeOK
<1>4. Queue' = Append(Queue, x)
  BY <1>3, AppendIsConcat
<1> QED BY <1>4 DEF Fifo!Put

(* Popping tmp_tasks is taking the head of Queue. *)
LEMMA RunningIsTake ==
  ASSUME TypeOK, NEW task, Running(task)
  PROVE  Fifo!Take
<1>1. /\ tmp_tasks # <<>> /\ tmp_tasks \in Seq(Tasks)
      /\ m_pending_tasks \in Seq(Tasks)
      /\ tmp_tasks' = Tail(tmp_tasks) /\ m_pending_tasks' = m_pending_tasks
  BY DEF Running, TypeOK
<1>2. /\ Queue \in Seq(Tasks) /\ Queue # <<>>
      /\ Len(Queue) = Len(tmp_tasks) + Len(m_pending_tasks)
      /\ Len(tmp_tasks) \in Nat \ {0} /\ Len(m_pending_tasks) \in Nat
      /\ \A i \in 1 .. Len(Queue) :
           Queue[i] = IF i <= Len(tmp_tasks) THEN tmp_tasks[i]
                      ELSE m_pending_tasks[i - Len(tmp_tasks)]
  BY <1>1, ConcatProperties, ConcatEqualIffEmpty, EmptySeq, LenProperties
     DEF Queue
<1>3. /\ tmp_tasks' \in Seq(Tasks) /\ Len(tmp_tasks') = Len(tmp_tasks) - 1
      /\ \A i \in 1 .. Len(tmp_tasks') : tmp_tasks'[i] = tmp_tasks[i + 1]
  BY <1>1, HeadTailProperties
<1>4. /\ Queue' \in Seq(Tasks)
      /\ Len(Queue') = Len(tmp_tasks') + Len(m_pending_tasks)
      /\ \A i \in 1 .. Len(Queue') :
           Queue'[i] = IF i <= Len(tmp_tasks') THEN tmp_tasks'[i]
                       ELSE m_pending_tasks[i - Len(tmp_tasks')]
  BY <1>1, <1>3, ConcatProperties DEF Queue
<1>5. /\ Tail(Queue) \in Seq(Tasks) /\ Len(Tail(Queue)) = Len(Queue) - 1
      /\ \A i \in 1 .. Len(Tail(Queue)) : Tail(Queue)[i] = Queue[i + 1]
  BY <1>2, HeadTailProperties
<1>6. Len(Queue') = Len(Tail(Queue))
  BY <1>2, <1>3, <1>4, <1>5
<1>7. \A i \in 1 .. Len(Queue') : Queue'[i] = Tail(Queue)[i]
  <2>1. SUFFICES ASSUME NEW i \in 1 .. Len(Queue')
                 PROVE  Queue'[i] = Queue[i + 1]
    BY <1>5, <1>6
  <2>2. i + 1 \in 1 .. Len(Queue)
    BY <1>2, <1>5, <1>6
  <2>3. CASE i <= Len(tmp_tasks')
    <3>1. i \in 1 .. Len(tmp_tasks') /\ i + 1 <= Len(tmp_tasks)
      BY <1>2, <1>3, <2>3
    <3> QED BY <1>2, <1>3, <1>4, <2>2, <2>3, <3>1
  <2>4. CASE ~(i <= Len(tmp_tasks'))
    <3>1. ~(i + 1 <= Len(tmp_tasks))
          /\ i - Len(tmp_tasks') = (i + 1) - Len(tmp_tasks)
      BY <1>2, <1>3, <2>4
    <3> QED BY <1>2, <1>4, <2>2, <2>4, <3>1
  <2> QED BY <2>3, <2>4
<1>8. Queue' = Tail(Queue)
  BY <1>4, <1>5, <1>6, <1>7, SeqEqual
<1> QED BY <1>2, <1>8 DEF Fifo!Take

LEMMA FifoStep == IInv /\ [Next]_vars => [Fifo!Next]_Queue
<1> SUFFICES ASSUME IInv, [Next]_vars PROVE Fifo!Next \/ UNCHANGED Queue
  BY DEF Queue
<1>type. TypeOK
  BY DEF IInv
<1>1. ASSUME UNCHANGED <<tmp_tasks, m_pending_tasks>>
      PROVE  UNCHANGED Queue
  BY <1>1 DEF Queue
<1>2. CASE SwapTasks
  <2>1. tmp_tasks = <<>> /\ tmp_tasks' = m_pending_tasks
        /\ m_pending_tasks' = <<>>
    BY <1>2 DEF SwapTasks, IInv, Phases
  <2> QED BY <2>1, <1>type, ConcatEmptySeq DEF Queue, TypeOK
<1>3. ASSUME NEW task, Running(task)
      PROVE  Fifo!Next
  BY <1>3, <1>type, RunningIsTake DEF Fifo!Next
<1>4. CASE RunPosted \/ RunDrain \/ RunHandler
  BY <1>4, <1>3 DEF RunPosted, RunDrain, RunHandler
<1>5. CASE DispatchOne
  <2>1. Head(result_events) \in Tasks
    BY <1>5, <1>type, ElementsTail, TaskFacts DEF DispatchOne, TypeOK
  <2> QED BY <1>5, <1>type, <2>1, PushIsPut DEF DispatchOne, Fifo!Next
<1>6. ASSUME NEW t \in Threads, NEW fd \in Fds, NEW kind \in {"add", "del"},
             Post(t, kind, fd)
      PROVE  Fifo!Next
  <2>1. [kind |-> kind, fd |-> fd, ticket |-> posts + 1] \in Tasks
    BY <1>6, <1>type, BoundAssumption DEF Post, TypeOK, Tasks, Posted
  <2> QED BY <1>6, <1>type, <2>1, PushIsPut DEF Post, Fifo!Next
<1>7. CASE LoopStart \/ TestStop \/ EpollWait \/ DispatchDone
  BY <1>7, <1>1
     DEF LoopStart, TestStop, EpollWait, EpollReturn, DispatchDone
<1>8. ASSUME NEW t \in Threads, NEW fd, NEW ev,
             Listen(t, fd, ev) \/ wakeup(t) \/ stop(t)
      PROVE  UNCHANGED Queue
  BY <1>8, <1>1 DEF Listen, wakeup, stop
<1>9. CASE UNCHANGED vars
  BY <1>9, <1>1 DEF vars
<1> QED
  BY <1>2, <1>4, <1>5, <1>6, <1>7, <1>8, <1>9
  DEF Next, LoopStep, LoopComputes, ThreadStep, addEpollEvent,
      deleteEpollEvent

(* The two std::queue objects of loop(), its swap, its pops and the pushes *)
(* of addTask are one first-in first-out queue.                            *)
THEOREM FifoRefinement == Spec => FifoSpec
<1>1. Init => Fifo!Init
  BY ConcatEmptySeq, EmptySeq DEF Init, Fifo!Init, Queue
<1> QED BY <1>1, Invariance, FifoStep, PTL DEF Spec, FifoSpec, Fifo!Spec
=============================================================================
