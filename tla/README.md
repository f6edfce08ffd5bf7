# rocket: specifications, checks and proofs

`rocket` is a small C++ RPC framework: a reactor on epoll, timers, connections
with byte buffers, a framing protocol that carries protobuf messages, and a
client channel and a server dispatcher on top. These modules describe how its
parts behave when their steps interleave, TLC checks them on small instances,
and TLAPS proves the central facts for every value of the constants. File names
below are relative to `src/rocket/`.

## 1. Inventory

| component | state it keeps | operations | talks to |
|---|---|---|---|
| `EventLoop` (net/EventLoop.cc) | stop flag, pending tasks under a mutex, `m_listend_fds`, the epoll set, the eventfd | `loop`, `addTask`, `addEpollEvent`, `deleteEpollEvent`, `wakeup`, `stop` | every other part posts closures to it or is called back by it |
| `FdEvent`, `WakeUpEevent` | event flags and callbacks of a descriptor | `listen`, `cancel`, `handle`, `wakeup` | owned by loops, timers, connections |
| `Timer`, `TimerEvent` (net/timer.cc) | a multimap of events under a mutex, the timerfd; arrival time and cancel flag of each event | `addTimerEvent`, `delteTimerEvent`, `onTimer`, `resetArriveTime`, `setCancled` | the loop runs `onTimer`; any thread adds and deletes |
| `IOThread`, `IOThreadGroup` | a thread with a loop, two semaphores, a round-robin index | constructor, `start`, `join`, `getIOThread` | `TcpServer` |
| `TCpBUffer` (tcp/tcp_buffer.cc) | a vector and a read and a write index | `writeToBUffer`, `readFromBuffer`, `resizeBuffer`, `adjustBuffer`, `moveReadIndex`, `moveWriteIndex` | connection and coder |
| `TinyPBCoder` (net/coder) | none | `encode`, `decode` | buffers |
| `TcpConnection` (tcp/tcp_connection.cc) | its state, two buffers, the write and read callbacks of a client | `onread`, `excute`, `onwrite`, `clear`, `shutdown`, `listenRead`, `listenWrite`, `pushSentMessage`, `pushReadMessage` | the socket, the loop, coder, dispatcher |
| `TcpAcceptor`, `TcpServer` | listening socket, set of connections | `accept`, `onAccept`, `start` | main loop, io threads |
| `TcpcClient` (tcp/tcp_client.cc) | descriptor, one connection, the thread's loop | `connect`, `writeMessage`, `readMessage`, `stop`, `addTimerEvent` | connection, loop |
| `RpcChannel`, `RpcController`, `RpcClosure` | the objects of one call, the timeout event, cancel flag | `CallMethod` and its callbacks | client |
| `RpcDispatcher` (net/rpc/rpc_dispatcher.cc) | map of services | `dispatch`, `parseServiceFullname`, `registerService` | connection |
| `Logger` (common/log.cc) | the level, a queue of messages under a mutex | the logging macros, `pushLog`, `log`, `Set_log_level` | every thread logs |
| `FdEventGroup` (tcp/fd_event_group.cc) | a pool of `FdEvent`s | `getFdEvent` | connections, client |
| `NetAddr`, `Config`, `MsgIDUtil`, utilities | an address; what a file says; a message id per thread | accessors, parsing | all |
| tinyxml, `order.pb` | | vendored and generated | |

Behaviour that is hard to test, and so what the properties are about (every
instance with its line is under "hazards" in `PROJECT.json`):

* *Threads.* Closures cross from one thread to another through a queue and an
  eventfd; the timer's map is locked but its timerfd is not; the main thread
  constructs a connection that another thread's loop already serves.
* *Order.* The callbacks of an epoll round are queued as copies and run one by
  one, so an earlier one can close or re-register what a later one uses.
* *Partial I/O.* A frame comes in any number of reads, and the search for its
  end goes on into its payload; a write takes a part; a buffer is compacted,
  resized or full at that moment.
* *Time.* A timeout races the reply; a cancel races the expiry.
* *Progress.* Nothing is served unless the wake-up, the timerfd and the
  interest in a descriptor are there when the loop sleeps.
* *Failure far away.* What the dispatcher could not do has to reach the caller,
  through a reply that has an error code and no data.

What makes the components correct: the loop's two queues act as one FIFO, its
copy of the epoll set is exact and no task is stranded behind `epoll_wait`;
a timer forgets no event, runs none early and keeps the interval of a repeated
one; a buffer acts as a queue of
bytes; a connection decodes what was sent, in order and once, answers it and
closes (as far as section 4 allows); a call ends by its reply or by its timeout and not by both; a server
gives its clients evenly to loops that exist, and each is watched by one; the
log is one journal of what all threads said, and a statement that returned is in
it.

## 2. Modules

| module | models |
|---|---|
| `QueueOps` | `Distinct`, `Elements`: the helpers on queues |
| `TaskFifo` | what the task queue of a loop promises: a FIFO |
| `EventLoop` | `EventLoop`, `FdEvent`, `WakeUpEevent`; implements `TaskFifo` |
| `Timer` | `Timer`, `TimerEvent` and the timerfd, for any number of loops |
| `TcpBuffer` | `TCpBUffer`, each operation as an operator on a record |
| `BufferCalls` | a user that makes any sequence of calls on one buffer |
| `TinyPBCoder` | frames, and `decode`'s search for them; extends `TcpBuffer` |
| `TcpConnection` | the server's connection with `onAccept`, the loop's tasks, the socket and the peer; extends `TinyPBCoder` |
| `IoThreads` | `IOThread`, `IOThreadGroup`: the hand-over by two semaphores and the round robin |
| `TcpServer` | `TcpServer`, `TcpAcceptor`, `FdEventGroup`, and the io threads' loops as FIFO queues; extends `IoThreads` |
| `CallOutcome` | what a call promises its caller: settled once, by a refusal, its reply or its timeout |
| `RpcDispatcher` | `dispatch` as a function of a request: the checks in their order and the code each one reports |
| `RpcCall` | the client's side: `RpcChannel::CallMethod`, `TcpcClient`, the client branches of `TcpConnection`, the controller, the timeout, the network and the server; extends `RpcDispatcher`, implements `CallOutcome` |
| `Journal` | what the logging macros promise: one output in the order of the pushes |
| `Logger` | `Logger` and the macros, lock by lock; implements `Journal` |
| `MC*` | the instances TLC checks |
| `*Proofs` | the theorems and their proofs |

How a module corresponds to its code:

* A variable has the name of the member or the local it stands for; a step has
  the name of the function, or of the part of one, and `PROJECT.json` gives the
  lines of each. Variables marked *history* or *bound* have no counterpart.
* Steps are cut where another thread, the kernel or the peer can act: at each
  lock and unlock, each system call that matters, each task of the loop. Code of
  one thread between two such points is one step.
* Definitions under "Seeded defects" are plausible slips in the definition they
  are named after; each breaks one property when it takes its place, which shows
  that the property depends on that code. They are not part of any specification.

`EventLoop` models the thread of the loop (`TestStop`, `SwapTasks`, `RunPosted`,
`RunDrain`, `RunHandler`, `EpollReturn`, `DispatchOne`, `DispatchDone`) and
foreign threads (`Listen` then `addEpollEvent`, `deleteEpollEvent`, `wakeup`,
`stop`). A callback of a descriptor may re-register, cancel or unregister any
descriptor, as the callbacks of the repository do. `epoll_events` is the
kernel's table, `m_listend_fds` the process's copy of it.

`Timer` cuts `addTimerEvent` into the insertion under the lock, the copy of the
map under the lock and the arming without it, and `onTimer` into the drain, the
collection, one insertion per repeated event, the arming and one step per
callback. Time passes at any step.

`TcpConnection` runs the constructor of the main thread next to the loop's
thread; every read, write and pass of `decode` is a step, so that bytes arrive in
between. `DecodeCrash` and `WriteKilled` end the process: a coder that is not set
yet, and a second write to a socket whose peer is gone (SIGPIPE). `ExcuteOne` answers
one decoded request into the out buffer, `Excute` ends the pass and listens for
the socket. A payload is any bytes, those of a frame among them: what `decode` finds
may parse to a message of any id or to none (`Parsed`), and may end the process where
lengths that are no lengths reach `memcpy` (`DecodeOverrun`). Two history variables
say when the stream was torn: `lost`, a read was not kept; `cut`, `decode` was called
while the last request was there in part, up to a byte of its payload that looks like
`PB_START` or beyond it (`AtMark`).

`TcpServer` runs the main thread (the acceptor, the group's constructor thread by
thread, `start`, then `onAccept` at each round) next to `IOThread::Main` of each
io thread; every operation on a semaphore is a step. Of a loop it keeps what
`EventLoop` is shown to implement, a FIFO of closures; of a connection, what the
constructor takes: a loop and a pooled `FdEvent`. `AcceptFails` ends the process.

`RpcCall` is one thread; the environment (connect's outcome, room in the socket,
replies, a close, the clock) moves at any time. The batch of an `epoll_wait` is
kept as the callbacks the descriptors had when the events were seen. The request
is one of `Requests`, and what its reply holds is what `dispatch` makes of it; of
the controller the model keeps the flags and the error code. The refinement maps
the controller and what the callbacks left behind to `CallOutcome`'s `outcome`.

`Logger` cuts a statement where another thread may come in between: the level is
read without the lock, `pushLog` and `log` each take the mutex, and `log` prints
whatever it finds, its own message or another thread's.

## 3. Runs

| run | configuration | shows |
|---|---|---|
| `event_loop` | 2 foreign threads, 1 descriptor beside the eventfd and the timerfd, 2 posted closures, batches of at most 2 handlers; 98,189 states | epoll's table and its copy agree; an interest out of date is on its way to be renewed; no handler waits behind `epoll_wait`; the queues are one FIFO; a closure loses its wake-up only to the drain callback, and runs all the same; `stop()` ends the loop |
| `event_loop_lost_wakeup` | as above, 1 foreign thread, batches of 3 | **violation** of `NoLostWakeup` |
| `timer` | 1 loop, 2 foreign threads, one repeated and one one-shot event, clock 0..5, moving inside calls up to 2; 331,429 states | the timerfd is armed, or about to be, while events wait; none is early, nor a repeated one again within its interval; a one-shot runs once, a cancelled one at most once more; each is called back unless cancelled |
| `buffer_queue` | buffer of 6 growing to at most 12 bytes, 2 byte values, calls of 1 or 2 bytes; 192,539 states | indices inside; every call acts as on a queue, but for three named cases |
| `connection` | buffer of 30 bytes, 3 requests of 14 whose payloads hold marks and what looks like a frame, replies of 8, room for 2 of the 3; parts of the stream end at the places of `Cuts`; peer closes or resets, `shutdown`, constructor racing; 65,122 states | until the stream is torn, requests are decoded once and in order and a call of `decode` ends; bytes are lost only by a read that fills the buffer; the replies the room allows are sent; a watched connection that ended is closed, unless `decode` spins, and then left alone |
| `connection_replies` | 2 requests without marks, cut anywhere, no close, buffer of 20 | **violation** of `RepliesOnce` |
| `connection_revived` | 1 request, close, constructor racing | **violation** of `GetsClosed` |
| `server` | 2 io threads, a pool of 2, descriptors 1 to 5, 6 clients; 537 states | a loop exists and runs before it is used; clients are spread evenly; each has the event of its descriptor while the pool grows; each is accepted and watched by its own loop, unless the process ends |
| `rpc_call` | request of 2 units, room of 3, up to 2 replies; requests that are answered, answered in a form the caller cannot parse, and refused twice over; 11,508 states | the reply is always waited for; the call is settled once, as `CallOutcome` says, and does settle; the request gets written |
| `rpc_call_closure` | 1 reply | **violation** of `ClosureOnReply` |
| `rpc_call_errors` | 1 reply | **violation** of `ErrorTold` |
| `logger` | 3 threads, 2 messages each, a level that changes at any time; 66,104 states | the output is one journal of the pushes; a statement that returned has its line in it |

**Bounds.** They are constants of the modules, named and commented where they
are declared, and each is the smallest at which the cases happen. Two foreign
threads are what it takes to pass each other inside a call; a third would do
what one of the two does. Two posted closures give an older and a newer one.
Batches of two handlers give a callback that disturbs the next. A buffer of six
bytes is compacted from index 2, filled, and resized twice below 12. A
connection's buffer of 30 bytes is compacted after each frame of 14, keeps any part
of the next, and is filled by three requests read at once, so that bytes are lost and
`decode` can find a frame of no bytes. The places of `Cuts` are the ends of the
requests (14, 28, 42), one or two bytes into each (1, 2, 16, 29, 30) and behind a mark
of each payload (13, 24, 37); 29 and 30 fill the buffer but for one byte and wholly.
Both `lost` and `cut`, each without the other, are reached, and so is `Stuck` from
either. Three replies of 8 and a room of 16 leave one reply outside. A request of two
units and a room of three give a full write, a part, and none. Six clients
and five descriptors let the pool grow more than once and the descriptors run out. Two
replies are a reply and its repetition. With three threads that log, one can print
what two others pushed; a second message follows an own one. From `Hurry` on the
clock waits for calls to end, so that the instance stays small while events come
due; before it, time passes inside them. `MaxSent`, `LastCall` and `MaxTime` cap
histories and clocks: nothing that a property speaks of starts after them.

`CHECK_DEADLOCK FALSE` is set where the system may really stop: a loop that has
exited, a clock at its bound, a peer that sends nothing more, a call that has
returned. `buffer_queue` checks it.

**Fairness.** Weak fairness only, of what the scheduler, the kernel and the code
guarantee:

* `EventLoop`: the loop's thread goes on, and its `epoll_wait` returns, because
  it is called with a timeout of 10 s (line 42), if need be with nothing. A
  foreign thread inside a call finishes it; none has to call.
* `Timer`: time passes, a loop looks at its descriptors, a thread inside a timer
  goes on. Nobody has to add or delete.
* `TcpConnection`: both threads go on and the peer reads. It need not
  send and nobody has to close.
* `TcpServer`: the main thread and the io threads go on; nobody has to connect.
* `RpcCall`: the client's thread goes on, a connect in progress ends one way or
  the other, the clock moves, the server reads. It need not answer.
* `Logger`: none; what it promises is safety.

## 4. What the violations show

Each is listed under "findings" in `PROJECT.json` with the sentence of the
repository it contradicts.

1. *A wake-up is lost* (net/EventLoop.cc:201). The eventfd is drained by a queued
   task; a closure posted between the return of `epoll_wait` and that task has its
   wake-up drained too and stays pending while the loop sleeps.
   `OnlyDrainSwallowsWakeup` shows that this is the only way, `PostedTaskRuns` that
   the timeout of `epoll_wait` still gets it run.
2. *Replies are sent again* (tcp/tcp_connection.cc:170). `onwrite` never moves the
   read index of the out buffer.
3. *A closed connection is revived* (tcp/tcp_server.cc:35). `setState` of the main
   thread comes after `clear` of the loop's thread.
4. *The closure does not run for a reply* (net/rpc/rpc_channel.cc:105). The
   negation of `IsCanceled()` is missing.
5. *The error of a reply is dropped* (net/rpc/rpc_channel.cc:101). `m_err_code` is
   never looked at; no data parse as a response of defaults.

Other places where the code departs from what it says, visible in the modules
and not kept as runs of their own:

* `resizeBuffer` copies from index 0 and not from the read index
  (tcp/tcp_buffer.cc:64); `moveWriteIndex` does not count a read that
  fills the vector (line 99); `moveReadIndex` refuses to skip up to the end of a
  full one (line 89). These are the three exceptions of `QueueButForThree`, and
  `LostOnlyToFullBuffer` shows that the second is the only way a connection loses
  bytes.
* Two threads that add events copy the map under the lock and arm the timerfd
  without it (net/timer.cc:24 and 48), so the older copy can be armed last and the
  earlier event be late, against "the currently earliest" of line 65.
  `NeverForgotten` and `EventuallyFires` show that it is late, and not lost.
* A failed `accept` is logged and its -1 used as a descriptor
  (tcp/tcp_acceptor.cc:54): the read before the pool ends the server. As `clear`
  closes no descriptor, it comes when enough clients have: `AcceptFails`.
  `ClientsNeverReleased` counts what each client leaves behind.
* A service of a package is never found: `registerService` files it under its full
  name (net/rpc/rpc_dispatcher.cc:90), `parseServiceFullname` ends the name at the
  first dot (line 95). Theorem `PackagedNeverServed`; the run `rpc_call_errors` meets
  it.
* `decode` reads the four bytes of a length as soon as one of them has arrived
  (net/coder/tinypb_coder.cc:42). Where the others are still 0 the frame seems to end
  just before it starts; if the frame before it was short enough for `adjustBuffer`
  to leave it where it was (less than a third of the buffer), its `PB_END` is
  there, nothing is consumed and the loop of `decode` does not end. The same can
  happen after a read whose bytes were lost, when zeros stand where a frame should.
  `DecodeConsumes` therefore speaks of frames of at least a third of the buffer
  (`LongFrames`; the program's have 46 of 128 bytes or more, so that
  tcp/tcp_buffer.cc:71 moves what is left to index 0) and of the time until
  bytes are lost; `DecodeMakesProgress` proves it for all such sizes.
* An overdue event waits 100 ms (net/timer.cc:36), which line 35 calls "at once".
* `done` of `writeMessage` runs also when `EAGAIN` sent nothing
  (tcp/tcp_connection.cc:190; tcp/tcp_client.h:24 says on success): `Dones` in
  `RpcCall` is reached from `WriteBlocked` too.
* `is_looping` is assigned nowhere (net/EventLoop.h:70), so `TcpcClient::stop` does
  nothing: `Islooping == FALSE`. A call that got into the loop never returns
  (`CallNeverReturns`), also when it is settled and its closure has run.
* A request larger than the room of the socket is begun from its first byte at
  each write (tcp/tcp_connection.cc:170) and never gets through; `RequestWritten`
  is checked for a room that takes a request at once.
* A call whose `connect` ends at once, well or not, starts no loop
  (tcp/tcp_client.cc:33 and 69): `ConnectAtOnce`, `ConnectFails`.
* `decode` does not tell the bytes of a payload from marks. Behind a `PB_START` whose
  frame is incomplete the search goes on into it (net/coder/tinypb_coder.cc:48), so a
  read that ends inside a request whose payload holds a whole frame has that frame
  decoded as a message, its lengths unchecked (lines 84, 98, 121), and one whose
  payload holds `03 02 00` finds a frame of no bytes and does not end. No byte is
  lost for it. `DecodedInOrder` and `DecodeConsumes` hold until then (`cut`).
* As nothing leaves the out buffer (finding 2), each write begins with the first reply
  of the connection. Once the replies together exceed what the socket takes at once,
  the later ones are never handed over. `Answered` speaks of those within `SendRoom`.
* A thread that `decode` does not let go (`Stuck`) serves and closes none of the
  connections of its loop; `Answered` and `WatchedGetsClosed` name it as the exception.

## 5. Proofs

All are of safety, for every value of the constants that satisfies the named
assumptions; none bounds the number of threads, descriptors, events or bytes.

* `EventLoopProofs`. The inductive invariant `IInv` adds to the type and to three
  of the properties: `Phases` (where each queue may hold something while the
  loop is at a given point; in particular only posted closures are pending while
  tasks run), `Tickets` (no queued closure has a ticket still to be handed
  out) and `PartsDistinct`. Without them a swap could meet a second copy of a
  task, and a handler queued by the dispatch could be overtaken by `epoll_wait`.
  From `IInv` follow `MirrorExact`, `InterestFresh`, `NoHandlerLeftBehind`,
  `TasksDistinct` and `OnlyDrainSwallowsWakeup`; and `FifoRefinement`: the
  initial queue maps to the empty FIFO, and every step to a put, a take or a
  stutter. It rests on the lemmas on queues in `QueueOpsProofs`.
* `TimerProofs`. `NeverForgotten` is inductive with the type: a thread that leaves
  `resetArriveTime` empty-handed saw an empty map, and one that adds without
  arming saw a map somebody had taken charge of. `OneShotOnce` and
  `CancelledRunsAtMostOnceMore` need `Facts`:
  the clock of `onTimer` is not ahead of the time, a one-shot event is filed under
  the time it reports, what is pending or collected was added, a one-shot is not
  both pending and collected, and only cancelled events have run cancelled.
  `NotEarly` needs `Punctual` on top: an event is in a map once and not while it is
  still to be added again, and it is filed under the time it reports, unless it is a
  repeated one that another timer was given too, which moves that time.
  The number of loops is any, so one event in the timers of two loops, as
  net/test_eventloop.cc has it, is covered by these theorems. `EventsNeverLost`
  says where an event is while an expiry handles it: in a map, among those still
  to be added again, or among those still to be called back (`EventsKept`). It needs
  `InHand`: what a loop has collected it keeps through the calls of `addTimerEvent`
  and `delteTimerEvent` made inside, and only the entry of a cancelled event is
  erased.
* `BufferProofs`. `IndexesInside` is inductive with the type of the vector.
  `BufferActsAsQueue` follows from it, call by call, through a lemma on what each
  operation does to the bytes between the indices.
* `RpcCallProofs`. The inductive invariant is the type with five facts:
  `Connecting` (nothing is asked for before the connection is there, and
  connect's callback belongs to that time only), `Asked` (the request is queued or
  its reply is awaited), `Watched` (the socket is watched for the reply if it is
  awaited), `Counted` (the request is encoded once, and what was read was sent)
  and `Stopped` (a handled reply cancelled the timeout). `ReplyAwaited` follows
  from `Asked` and `Watched`. `CallRefinement` shows that the client implements
  `CallOutcome`; it needs `Timed` besides (the timer's callback is in a batch once
  at most and while the timeout is due, only an expiry cancels, an error code that
  nothing else explains belongs to a call that returned at once): without it an
  expiry could be taken twice, or meet a call that was refused. Most steps are
  `Quiet`, and only three actions are steps of the abstract call. The refinement
  carries `Accounted`, an invariant of the abstract call, over to the client:
  `ClosureRuns` says which result goes with how many runs of the closure.
  `CallStaysTimed` (by `Ticking`: what took the timeout out of the timer cancelled the
  call or found it cancelled) and `RequestStaysUnderWay` (by `Encoded`) are what
  `CallSettles` and `RequestWritten` need of the state: the timeout is still to
  come, and the socket watched with the right handler. `CallNeverReturns` is an
  action property.
  `PackagedNeverServed` is about `dispatch` alone, for any map of services: it rests
  on `DispatchSucceeds`, that the code is 0 exactly if every check succeeds.
* `TcpConnectionProofs`. `Order` is inductive by itself: the loop does not know the
  descriptor before the constructor's closure, and the read handler is queued before
  the write handler, so that after `clear` only the write handler can be left. From it
  follows `ClosedIsQuiet`. `Buffered` is the type together with
  `InBufferNeverFull`, each needed for the other's step: a read is bounded by
  what is free, and the vector stays as it was made because a read never asks for
  more. It rests on lemmas on what each operation of a buffer keeps and on what a
  frame found inside one can be. `LostOnlyToFullBuffer` follows step by step.
  `DecodedInOrder` and `DecodeConsumes` need `Kept`: until the stream is torn, what was
  read and not decoded stands between the indices byte for byte as in `Stream`
  (`Waits`), with zeros behind it, and begins where a request begins; and `decode` is
  called only where no mark of an incomplete request can be seen. A complete request
  in front is found at its first byte, whatever its payload holds (`FrontSeen`), and in
  an incomplete one nothing else looks like `PB_START`, so the first frame that
  `decode` finds is the next request (`FirstFrameFacts`), and taking it leaves the next
  one in front (`LeaveWaits`). `RepliesQueued` says of the out buffer, where nothing is
  ever taken out, that it holds the replies to what was decoded; with `Handing` (the write handler is at work only while the
  interest is there) it gives `RepliesHandedOver`: a loop that stopped watching for
  output has handed over every reply. `StaysWatchedTillClosed` is the counterpart of
  finding 3: a connection that epoll watches is not lost sight of, so only the one
  that was closed before it was set `Connect` is.
* `LoggerProofs`. `Held` says that the mutex is with the thread inside `log`,
  `Located` that a pushed message is printed, in hand or queued, `EarlierPrinted`
  that a thread's earlier messages are out; `LoggedIsPrinted` needs all three, as a
  thread leaves `log` on an empty queue that another may have emptied. From `Held`
  follows that the output, the message in hand and the queue are one `Journal`.
* `TcpServerProofs`. `Built` and `Started` say how far the two semaphores let each
  side go (`Built` also that the constructor counts from the first thread: without
  that the steps before it would not be inductive), `Rotation` that the threads before `m_idex` have one client more than
  the others (`Balanced` alone does not say who is next), `Pooled` that each event
  of the pool is at its place, `Fresh` that nothing known of a descriptor is older
  than it. `Semaphores` counts both semaphores of each thread exactly, from where
  the main thread and it are: `HandOverMoves` (neither side waits for a post that
  will not come) and `ServerIsReady` (at the main loop no init post is left, and a
  start post only of a thread that has yet to take it) follow. `RegistersInOrder`,
  `ClientsNeverReleased` and `ServedRoundRobin` follow the descriptors: each loop
  registers its own in the order of their acceptance, none is given back, and the
  n-th goes to loop n modulo `Size` (`Turn`: `m_idex` runs with the descriptors).

The SMT encoding of tlapm 1.4.5 takes `Len(s) = n` and `DOMAIN s = 1 .. n` to be the
same of any function, and of functions over `0 .. Size - 1` that is false: a leaf
that meets such a function together with `Len` could follow from nothing. Every leaf
was therefore also proved with that axiom weakened to the direction that holds (a
function whose domain is `1 .. n` has length n), so that no theorem rests on it; the
same should be done after a change of these proofs.

Only model-checked, as fairness and `ENABLED` are beyond the prover, are the nine
liveness properties. Of most a theorem states the safety half, what must still be
there for the step to come:

| liveness | proved of it |
|---|---|
| `PostedTaskRuns` | `FifoRefinement`: no closure is lost or overtaken |
| `StopEndsLoop` | nothing: the flag is only ever set |
| `EventuallyFires` | `EventsNeverForgotten`, `EventsNeverLost` |
| `Answered` | `RepliesAreQueued`, `RepliesHandedOver`: every reply is queued, and handed over before the interest in output ends |
| `WatchedGetsClosed` | `StaysWatchedTillClosed`: only the step that closes it ends the watch |
| `AcceptedGetsWatched` | `OneLoopEach`, `HandOverSafe`, `RegistersInOrder` |
| `ArrivedGetsAccepted` | `HandOverMoves`, `ServerIsReady` |
| `CallSettles` | `CallStaysTimed` |
| `RequestWritten` | `RequestStaysUnderWay` |

## 6. Abstractions and what is not modelled

* A descriptor stays open while it is registered; `~TcpcClient`, which closes it
  (tcp/tcp_client.cc:22), would run after the loop of its thread, which does not
  return. Setting an event flag is one
  step, though two threads may do it without a lock.
* Reading the clock and arming the timerfd relative to it is one step. The events
  of one expiry are a set: they are added again and called back in any order.
* The sizes of buffer and frames are scaled down with their proportion kept
  (a frame against a third of the buffer decides what `adjustBuffer` does); the
  length field has its four bytes. One byte stands for a message's id and its length:
  10 to 126 for an id whose length fits, any other for fields whose lengths are
  arbitrary, so that each check of them (lines 73 to 115) may go either way. The
  fields behind it are the payload, any bytes below 127: with a greater one a length
  inside a payload can be negative or overflow, which is undefined, and is left out.
  The peer sends only the frames of its requests; the run `connection` has its network
  cut them at the places of `Cuts`, the theorems anywhere. The byte before a vector is 0, as it is the top of the allocator's size
  field.
* In `TcpConnection` the dispatcher answers each request with one message of its id,
  whatever its error code. `RpcDispatcher` keeps of a request the parts of its
  method's name, whether it can be parsed and what its response is like. The code it
  reports for a request that cannot be parsed (net/rpc/rpc_dispatcher.cc:43) differs
  from the one common/error_code.h:12 names for it; the model has the code's.
  `m_service_map` is a constant: services are registered before the server starts.
* In `Logger` the text of a line is left out, and the level is an integer that is
  read and written in one step each.
* In `RpcCall` a reply is two units, enough to arrive by halves, and the timer
  holds the one event of the call. `connect` is called once; a closure that
  starts another call inside the loop is left out.
* In `TcpServer` a connection is only handed over; what its peer and its loop then
  do is `TcpConnection`'s, for one connection. `accept` returns rising descriptors,
  as none is closed. `IOThread`'s destructor and `join` are called by no server and
  left out, as is a second thread that makes the pool of `FdEvent`s.
  An event of the pool is the descriptor it was made for; that pointers into the old
  part stay valid is not shown (the vector holds pointers, which growing copies).
* Not modelled: `NetAddr` (parses and prints an address), `Config` (reads one file
  before the threads start), `MsgIDUtil` (a thread's own decimal counter, whose
  boundaries are 10^20 ids away), the byte order and id helpers. None has a state
  that steps of others can meet. `StringCoder` is used by no program; what it does to
  a buffer is in `BufferCalls`.
* tinyxml and `order.pb`, vendored and generated, are 5,891 of the 9,377 lines of
  the implementation. The modules stand for two fifths of the others; what is left
  are headers, includes, logging, accessors and the programs of the tests.

## 7. Plan

In order of what matters most:

1. done: the loop, the timer, the buffer, the connection, the call, with the
   theorems above.
2. done: `IoThreads` and `TcpServer`, with their theorems.
3. done: `TcpConnectionProofs`; the dispatcher composed with the call; the abstract
   call and the refinement; `Logger` and its journal; for every safety property a
   run checks a theorem, and for the liveness properties their safety halves.
4. The destructor of `IOThread` (a stop without a wake-up, a join of a thread that
   was never started), and an io thread shown to serve tasks from its start to its
   stop; two client threads that make the pool of events.
5. A second call from inside the closure, which runs in the loop of the first.
6. Abstract specifications of the timer (a set of events, each called when due) and
   of the server's dispatch (clients dealt in turn), and their refinements.
7. `MsgIDUtil` and `NetAddr` as functions against reference definitions.
