----------------------------- MODULE EventLoop ------------------------------
(***************************************************************************)
(* rocket::EventLoop (net/EventLoop.cc), with the FdEvent flags it hands   *)
(* to epoll (net/fd_event.cc) and the eventfd that wakes it                *)
(* (net/wakeup_fd_event.cc).                                               *)
(*                                                                         *)
(* One thread owns the loop.  The others register and unregister           *)
(* descriptors by posting tasks and writing to the eventfd, or raise the   *)
(* stop flag.  The steps of the loop are the ones another thread can fall  *)
(* between: the test of m_stop_flag, the swap under m_mu, each task,       *)
(* epoll_wait and each addTask of the dispatch.                            *)
(*                                                                         *)
(* A callback is known by the event it was registered for.  The descriptor *)
(* is what a posted closure captures; its ticket tells two closures apart. *)
(* Descriptors stay open while they are registered, so epoll_ctl fails     *)
(* only when the operation does not fit the kernel's table.                *)
(***************************************************************************)
EXTENDS QueueOps, FiniteSets

CONSTANTS Threads,      \* the threads that do not own this loop
          Fds,          \* descriptors registered by callers
          WakeFd,       \* m_wakeup_fd
          TimerFd,      \* the descriptor of m_timer
          MaxPosts,     \* bound: closures posted by other threads
          MaxHandlers   \* bound: handlers one epoll_wait returns

ASSUME FdAssumption == /\ WakeFd # TimerFd
                       /\ WakeFd \notin Fds
                       /\ TimerFd \notin Fds
ASSUME BoundAssumption == MaxPosts \in Nat /\ MaxHandlers \in Nat

VARIABLES m_stop_flag,      \* EventLoop::m_stop_flag
          m_pending_tasks,  \* EventLoop::m_pending_tasks, guarded by m_mu
          tmp_tasks,        \* the local queue of loop() after the swap
          readable,         \* the counter of the eventfd is not zero
          m_listend_fds,    \* EventLoop::m_listend_fds
          epoll_events,     \* kernel: the interest of each registered fd
          m_listen_events,  \* FdEvent::m_listen_events.events of each fd
          result_events,    \* handlers of this epoll_wait still to be queued
          pc,               \* where the loop thread is
          call,             \* where each other thread is in its call
          posts,            \* closures posted so far
          drained           \* history: the eventfd was read since the swap

vars == <<m_stop_flag, m_pending_tasks, tmp_tasks, readable, m_listend_fds,
          epoll_events, m_listen_events, result_events, pc, call, posts,
          drained>>

-----------------------------------------------------------------------------
AllFds == Fds \cup {WakeFd, TimerFd}
Events == {"in", "out"}

Handlers == [kind : Events, fd : AllFds, ticket : {0}]
Posted   == [kind : {"add", "del"}, fd : Fds, ticket : 1 .. MaxPosts]
Tasks    == Handlers \cup Posted

Handler(ev, fd) == [kind |-> ev, fd |-> fd, ticket |-> 0]
DrainTask == Handler("in", WakeFd)

(* The tasks in the order in which the loop will run them. *)
Queue == tmp_tasks \o m_pending_tasks

(* The thread is at epoll_wait, or has gone through all its tasks. *)
Blocked == pc = "run" /\ tmp_tasks = <<>>

(* The orders in which one epoll_wait may hand out handlers: each at most  *)
(* once, and the two of a descriptor next to each other, input first.      *)
Batches ==
  {b \in UNION {[1 .. n -> Handlers] : n \in 0 .. MaxHandlers} :
     /\ Distinct(b)
     /\ \A i, j \in DOMAIN b :
          b[i].fd = b[j].fd /\ b[i].kind = "in" /\ b[j].kind = "out"
            => j = i + 1}

At(pt, fd) == [at |-> pt, fd |-> fd]
Idle    == At("idle", WakeFd)
Waking  == At("wake", WakeFd)

-----------------------------------------------------------------------------
(* Seeded defects: each is a plausible slip in the definition it is named  *)
(* after, and breaks a property stated at the end of this module.          *)

(* FdEvent's constructor without its memset. *)
InitNoMemset ==
  /\ m_stop_flag = FALSE /\ m_pending_tasks = <<>> /\ tmp_tasks = <<>>
  /\ readable = FALSE /\ m_listend_fds = {WakeFd, TimerFd}
  /\ epoll_events = [fd \in {WakeFd, TimerFd} |-> {"in"}]
  /\ m_listen_events = [fd \in AllFds |-> {"in", "garbage"}]
  /\ result_events = <<>> /\ pc = "idle" /\ call = [t \in Threads |-> Idle]
  /\ posts = 0 /\ drained = FALSE

(* The macro always asks for EPOLL_CTL_ADD. *)
AddAlwaysAdds(fd, ev) ==
  /\ epoll_events' = IF fd \in DOMAIN epoll_events THEN epoll_events
                     ELSE [f \in DOMAIN epoll_events \cup {fd} |->
                             IF f = fd THEN ev ELSE epoll_events[f]]
  /\ m_listend_fds' = m_listend_fds \cup {fd}

(* The removal forgets to erase the descriptor from m_listend_fds. *)
DeleteKeepsMirror(fd) ==
  IF fd \notin m_listend_fds
  THEN UNCHANGED <<epoll_events, m_listend_fds>>
  ELSE /\ epoll_events' =
            [f \in DOMAIN epoll_events \ {fd} |-> epoll_events[f]]
       /\ UNCHANGED m_listend_fds

(* The task goes to the front. *)
PushFront(task) == m_pending_tasks' = <<task>> \o m_pending_tasks

(* The pending queue is copied, not swapped. *)
SwapCopies ==
  /\ pc = "swap" /\ pc' = "run"
  /\ tmp_tasks' = m_pending_tasks
  /\ drained' = FALSE
  /\ UNCHANGED <<m_stop_flag, m_pending_tasks, readable, m_listend_fds,
                 epoll_events, m_listen_events, result_events, call, posts>>

(* epoll_wait without a time-out. *)
ReturnNeverEmpty(batch) ==
  /\ Blocked /\ batch # <<>>
  /\ \A i \in DOMAIN batch :
       /\ batch[i].fd \in DOMAIN epoll_events
       /\ batch[i].kind \in epoll_events[batch[i].fd]
  /\ readable <=> (DrainTask \in Elements(batch))
  /\ result_events' = batch
  /\ pc' = "dispatch"
  /\ UNCHANGED <<m_stop_flag, m_pending_tasks, tmp_tasks, readable,
                 m_listend_fds, epoll_events, m_listen_events, call, posts,
                 drained>>

(* The swap is made once, before the while loop. *)
DispatchSkipsSwap ==
  /\ pc = "dispatch" /\ result_events = <<>> /\ pc' = "run"
  /\ UNCHANGED <<m_stop_flag, m_pending_tasks, tmp_tasks, readable,
                 m_listend_fds, epoll_events, m_listen_events, result_events,
                 call, posts, drained>>

(* addTask is called without asking for the wake-up. *)
PostNoWakeup(t, kind, fd) ==
  /\ posts < MaxPosts /\ posts' = posts + 1
  /\ m_pending_tasks' = Append(m_pending_tasks,
                          [kind |-> kind, fd |-> fd, ticket |-> posts + 1])
  /\ call' = [call EXCEPT ![t] = Idle]
  /\ UNCHANGED <<m_stop_flag, tmp_tasks, readable, m_listend_fds,
                 epoll_events, m_listen_events, result_events, pc, drained>>

-----------------------------------------------------------------------------
(* The state after the constructor: the eventfd and the timer are in epoll *)
(* and the loop has not started.                                           *)
Init ==
  /\ m_stop_flag = FALSE
  /\ m_pending_tasks = <<>>
  /\ tmp_tasks = <<>>
  /\ readable = FALSE
  /\ m_listend_fds = {WakeFd, TimerFd}
  /\ epoll_events = [fd \in {WakeFd, TimerFd} |-> {"in"}]
  /\ m_listen_events = [fd \in AllFds |-> IF fd \in Fds THEN {} ELSE {"in"}]
  /\ result_events = <<>>
  /\ pc = "idle"
  /\ call = [t \in Threads |-> Idle]
  /\ posts = 0
  /\ drained = FALSE

-----------------------------------------------------------------------------
(* The two macros, run by the loop thread on an event whose flags are ev.  *)
(* EPOLL_CTL_ADD fails on a descriptor the kernel has, EPOLL_CTL_MOD on    *)
(* one it does not have; m_listend_fds is changed in either case.          *)
ADD_TO_EPOLL(fd, ev) ==
  LET op == IF fd \in m_listend_fds THEN "MOD" ELSE "ADD"
      ok == (op = "MOD") <=> (fd \in DOMAIN epoll_events)
  IN  /\ epoll_events' =
           IF ok THEN [f \in DOMAIN epoll_events \cup {fd} |->
                         IF f = fd THEN ev ELSE epoll_events[f]]
                 ELSE epoll_events
      /\ m_listend_fds' = m_listend_fds \cup {fd}

DELETE_TO_EPOLL(fd) ==
  IF fd \notin m_listend_fds
  THEN UNCHANGED <<epoll_events, m_listend_fds>>
  ELSE /\ epoll_events' =
            [f \in DOMAIN epoll_events \ {fd} |-> epoll_events[f]]
       /\ m_listend_fds' = m_listend_fds \ {fd}

(* EventLoop::addTask without its wake-up: push under m_mu. *)
PushTask(task) == m_pending_tasks' = Append(m_pending_tasks, task)

-----------------------------------------------------------------------------
(* The loop thread. *)
LoopStart ==
  /\ pc = "idle"
  /\ pc' = "test"
  /\ UNCHANGED <<m_stop_flag, m_pending_tasks, tmp_tasks, readable,
                 m_listend_fds, epoll_events, m_listen_events, result_events,
                 call, posts, drained>>

TestStop ==
  /\ pc = "test"
  /\ pc' = IF m_stop_flag THEN "exit" ELSE "swap"
  /\ UNCHANGED <<m_stop_flag, m_pending_tasks, tmp_tasks, readable,
                 m_listend_fds, epoll_events, m_listen_events, result_events,
                 call, posts, drained>>

SwapTasks ==
  /\ pc = "swap"
  /\ pc' = "run"
  /\ tmp_tasks' = m_pending_tasks
  /\ m_pending_tasks' = <<>>
  /\ drained' = FALSE
  /\ UNCHANGED <<m_stop_flag, readable, m_listend_fds, epoll_events,
                 m_listen_events, result_events, call, posts>>

(* The front task is taken off tmp_tasks before it runs. *)
Running(task) ==
  /\ pc = "run"
  /\ tmp_tasks # <<>>
  /\ task = Head(tmp_tasks)
  /\ tmp_tasks' = Tail(tmp_tasks)
  /\ UNCHANGED <<m_pending_tasks, result_events, pc, call, posts>>

(* A closure posted by another thread: ADD_TO_EPOLL reads the flags now.   *)
RunPosted ==
  \E task \in Posted :
    /\ Running(task)
    /\ IF task.kind = "add"
       THEN ADD_TO_EPOLL(task.fd, m_listen_events[task.fd])
       ELSE DELETE_TO_EPOLL(task.fd)
    /\ UNCHANGED <<m_stop_flag, readable, m_listen_events, drained>>

(* The callback of the eventfd reads until the counter is gone. *)
RunDrain ==
  /\ Running(DrainTask)
  /\ readable' = FALSE
  /\ drained' = TRUE
  /\ UNCHANGED <<m_stop_flag, m_listend_fds, epoll_events, m_listen_events>>

(* FdEvent::listen or FdEvent::cancel, then addEpollEvent, on the loop's   *)
(* own thread: the flags and the kernel's interest change together.        *)
Reregister(fd, ev) ==
  /\ m_listen_events' = [m_listen_events EXCEPT ![fd] = ev]
  /\ ADD_TO_EPOLL(fd, ev)
  /\ UNCHANGED m_stop_flag

(* deleteEpollEvent, then both flags cancelled (TcpConnection::clear). *)
Unregister(fd) ==
  /\ DELETE_TO_EPOLL(fd)
  /\ m_listen_events' = [m_listen_events EXCEPT ![fd] = {}]
  /\ UNCHANGED m_stop_flag

(* A user's callback: it may leave the loop alone, start or stop listening *)
(* for an event, unregister a descriptor, or stop the loop.                *)
RunHandler ==
  \E task \in Handlers \ {DrainTask} :
    /\ Running(task)
    /\ \/ UNCHANGED <<m_stop_flag, m_listend_fds, epoll_events,
                      m_listen_events>>
       \/ \E fd \in Fds, ev \in Events :
            \/ Reregister(fd, m_listen_events[fd] \cup {ev})
            \/ Reregister(fd, m_listen_events[fd] \ {ev})
       \/ \E fd \in Fds : Unregister(fd)
       \/ /\ m_stop_flag' = TRUE
          /\ UNCHANGED <<m_listend_fds, epoll_events, m_listen_events>>
    /\ UNCHANGED <<readable, drained>>

(* epoll_wait: what it reports was asked for, and the eventfd is reported  *)
(* exactly when it is readable.  The empty batch is the ten seconds' time- *)
(* out, a signal, or an error condition with neither event.                *)
EpollReturn(batch) ==
  /\ Blocked
  /\ \A i \in DOMAIN batch :
       /\ batch[i].fd \in DOMAIN epoll_events
       /\ batch[i].kind \in epoll_events[batch[i].fd]
  /\ readable <=> (DrainTask \in Elements(batch))
  /\ result_events' = batch
  /\ pc' = "dispatch"
  /\ UNCHANGED <<m_stop_flag, m_pending_tasks, tmp_tasks, readable,
                 m_listend_fds, epoll_events, m_listen_events, call, posts,
                 drained>>

EpollWait == \E batch \in Batches : EpollReturn(batch)

(* addTask(fd_event->handle(...)), which does not wake the loop. *)
DispatchOne ==
  /\ pc = "dispatch"
  /\ result_events # <<>>
  /\ PushTask(Head(result_events))
  /\ result_events' = Tail(result_events)
  /\ UNCHANGED <<m_stop_flag, tmp_tasks, readable, m_listend_fds,
                 epoll_events, m_listen_events, pc, call, posts, drained>>

DispatchDone ==
  /\ pc = "dispatch"
  /\ result_events = <<>>
  /\ pc' = "test"
  /\ UNCHANGED <<m_stop_flag, m_pending_tasks, tmp_tasks, readable,
                 m_listend_fds, epoll_events, m_listen_events, result_events,
                 call, posts, drained>>

LoopComputes == \/ LoopStart \/ TestStop \/ SwapTasks \/ RunPosted
                \/ RunDrain \/ RunHandler \/ DispatchOne \/ DispatchDone

LoopStep == LoopComputes \/ EpollWait

-----------------------------------------------------------------------------
(* The other threads. *)

(* Bound: what has been posted and what is about to be. *)
CanPost ==
  posts + Cardinality({t \in Threads : call[t].at = "push"}) < MaxPosts

(* FdEvent::listen, before the call of addEpollEvent. *)
Listen(t, fd, ev) ==
  /\ call[t] = Idle
  /\ CanPost
  /\ m_listen_events' =
       [m_listen_events EXCEPT ![fd] = m_listen_events[fd] \cup {ev}]
  /\ call' = [call EXCEPT ![t] = At("push", fd)]
  /\ UNCHANGED <<m_stop_flag, m_pending_tasks, tmp_tasks, readable,
                 m_listend_fds, epoll_events, result_events, pc, posts,
                 drained>>

(* The closure is pushed under m_mu; the eventfd is written afterwards. *)
Post(t, kind, fd) ==
  /\ posts < MaxPosts
  /\ posts' = posts + 1
  /\ PushTask([kind |-> kind, fd |-> fd, ticket |-> posts + 1])
  /\ call' = [call EXCEPT ![t] = Waking]
  /\ UNCHANGED <<m_stop_flag, tmp_tasks, readable, m_listend_fds,
                 epoll_events, m_listen_events, result_events, pc, drained>>

addEpollEvent(t, fd) == call[t] = At("push", fd) /\ Post(t, "add", fd)

deleteEpollEvent(t, fd) == call[t] = Idle /\ CanPost /\ Post(t, "del", fd)

wakeup(t) ==
  /\ call[t] = Waking
  /\ readable' = TRUE
  /\ call' = [call EXCEPT ![t] = Idle]
  /\ UNCHANGED <<m_stop_flag, m_pending_tasks, tmp_tasks, m_listend_fds,
                 epoll_events, m_listen_events, result_events, pc, posts,
                 drained>>

(* EventLoop::stop only raises the flag. *)
stop(t) ==
  /\ call[t] = Idle
  /\ ~m_stop_flag
  /\ m_stop_flag' = TRUE
  /\ UNCHANGED <<m_pending_tasks, tmp_tasks, readable, m_listend_fds,
                 epoll_events, m_listen_events, result_events, pc, call,
                 posts, drained>>

ThreadStep(t) ==
  \/ wakeup(t)
  \/ stop(t)
  \/ \E fd \in Fds : \/ \E ev \in Events : Listen(t, fd, ev)
                     \/ addEpollEvent(t, fd)
                     \/ deleteEpollEvent(t, fd)

-----------------------------------------------------------------------------
Next == LoopStep \/ \E t \in Threads : ThreadStep(t)

Spec == Init /\ [][Next]_vars

(* The loop thread keeps running: callbacks return, and epoll_wait returns *)
(* for its time-out or for the eventfd.  No descriptor owes it an event.   *)
(* A thread inside addEpollEvent goes on to push and to wake the loop.     *)
Fairness ==
  /\ WF_vars(LoopComputes \/ EpollReturn(<<>>) \/ EpollReturn(<<DrainTask>>))
  /\ \A t \in Threads :
       /\ WF_vars(wakeup(t))
       /\ WF_vars(\E fd \in Fds : addEpollEvent(t, fd))

FairSpec == Spec /\ Fairness

-----------------------------------------------------------------------------
(* Properties *)

TypeOK ==
  /\ m_stop_flag \in BOOLEAN
  /\ m_pending_tasks \in Seq(Tasks)
  /\ tmp_tasks \in Seq(Tasks)
  /\ readable \in BOOLEAN
  /\ m_listend_fds \subseteq AllFds
  /\ DOMAIN epoll_events \subseteq AllFds
  /\ epoll_events \in [DOMAIN epoll_events -> SUBSET Events]
  /\ m_listen_events \in [AllFds -> SUBSET Events]
  /\ result_events \in Seq(Handlers)
  /\ pc \in {"idle", "test", "swap", "run", "dispatch", "exit"}
  /\ call \in [Threads -> [at : {"idle", "push", "wake"}, fd : AllFds]]
  /\ posts \in 0 .. MaxPosts
  /\ drained \in BOOLEAN

(* The set m_listend_fds chooses between EPOLL_CTL_ADD and EPOLL_CTL_MOD,  *)
(* and whether a removal is made at all.  It names the descriptors the     *)
(* kernel has, so no epoll_ctl of the loop fails, in whatever order        *)
(* callbacks and other threads register and unregister.                    *)
MirrorExact == m_listend_fds = DOMAIN epoll_events

(* The kernel's interest in a registered descriptor is out of date only    *)
(* while the registration that will renew it is on its way: a thread is    *)
(* between FdEvent::listen and addEpollEvent, or its closure is queued.    *)
InterestFresh ==
  \A fd \in DOMAIN epoll_events :
    \/ epoll_events[fd] = m_listen_events[fd]
    \/ \E t \in Threads : call[t] = At("push", fd)
    \/ \E task \in Elements(tmp_tasks) \cup Elements(m_pending_tasks) :
         task.kind = "add" /\ task.fd = fd

(* Handlers are queued without waking the loop (addTask's iswakeup is      *)
(* false).  That is safe: the loop never goes to epoll_wait while a        *)
(* handler it queued is still waiting to run.                              *)
NoHandlerLeftBehind ==
  Blocked => Elements(m_pending_tasks) \subseteq Posted

(* No task is in the two queues, or about to be queued by the dispatch,    *)
(* more than once: one report of epoll runs a callback once.               *)
TasksDistinct == Distinct(Queue \o result_events)

(* A closure pushed since the last swap is covered by an eventfd that is   *)
(* readable or about to be, unless the drain callback of the current       *)
(* round consumed the wake-up: there is no other way to lose one.          *)
OnlyDrainSwallowsWakeup ==
  Elements(m_pending_tasks) \cap Posted # {} =>
    \/ readable
    \/ \E t \in Threads : call[t] = Waking
    \/ drained

(* What the comments promise ("first run the tasks, then listen", line 74; *)
(* "wake the epoll thread", line 125): the loop does not go to sleep for   *)
(* the ten seconds of epoll_wait with a posted closure nobody will wake it *)
(* for.                                                                    *)
NoLostWakeup ==
  (Blocked /\ Elements(m_pending_tasks) \cap Posted # {}) =>
    \/ readable
    \/ \E t \in Threads : call[t] = Waking

(* The swap of the two queues neither loses, repeats nor reorders a task.  *)
Fifo == INSTANCE TaskFifo WITH Task <- Tasks, queue <- Queue
FifoSpec == Fifo!Spec

(* Every closure that was posted runs, if only after the time-out of       *)
(* epoll_wait, unless the loop ends first.                                 *)
PostedTaskRuns ==
  \A k \in 1 .. MaxPosts :
    (\E task \in Elements(Queue) : task.ticket = k)
      ~> (pc = "exit" \/ ~\E task \in Elements(Queue) : task.ticket = k)

(* stop() does not wake the loop, yet the loop ends.                       *)
StopEndsLoop == m_stop_flag ~> pc = "exit"
=============================================================================
