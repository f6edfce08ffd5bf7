------------------------------ MODULE RpcCall -------------------------------
(***************************************************************************)
(* One RPC call from the client's side: RpcChannel::CallMethod             *)
(* (net/rpc/rpc_channel.cc), the TcpcClient below it (tcp/tcp_client.cc),  *)
(* the client branches of TcpConnection (tcp/tcp_connection.cc) and the    *)
(* timeout event in the loop's timer.                                      *)
(*                                                                         *)
(* All of it runs on one thread: connect() starts the loop and each        *)
(* handler is a task of it.  The network, the server and the clock move at *)
(* any time.  A batch of epoll_wait may hold the timer and the socket in   *)
(* either order, and a task is the callback the descriptor had when the    *)
(* event was seen.                                                         *)
(*                                                                         *)
(* A request is RequestLen units of bytes, a reply two, so that it can be  *)
(* half there; what the reply says is RpcDispatcher's dispatch.  The       *)
(* closure of the call is the one of client_test/test.cc: it stops the     *)
(* client's loop.                                                          *)
(***************************************************************************)
EXTENDS RpcDispatcher

CONSTANTS Requests,    \* what a stub may be asked to call
          RequestLen,  \* units of bytes of the request
          SendRoom,    \* units the socket takes before the server reads them
          MaxReplies   \* bound: replies of the server, which may repeat one

ASSUME CallAssumption ==
  /\ Requests \subseteq [method_name : Seq(STRING), parsed : BOOLEAN,
                          response : Responses]
  /\ RequestLen \in Nat \ {0} /\ SendRoom \in Nat
  /\ MaxReplies \in Nat \ {0}

VARIABLES pc,               \* where the client's thread is
          m_stop_flag,      \* EventLoop::m_stop_flag
          tmp_tasks,        \* the callbacks of the batch that are left to run
          m_state,          \* TcpConnection::m_state
          m_listen_events,  \* FdEvent and epoll: the events asked for
          m_write_callback, \* FdEvent::m_write_callback
          m_write_dones,    \* m_write_dones holds the request
          m_read_dones,     \* m_read_dones holds the id of the request
          m_out_buffer,     \* units of bytes in m_out_buffer
          m_in_buffer,      \* units of bytes in m_in_buffer
          result,           \* excute's replies that are left to look at
          m_is_cancled,     \* TimerEvent::m_is_cancled of the timeout
          timeout,          \* the timeout event and its timerfd
          request,          \* the request of the call
          m_response,       \* the response the caller looks at
          controller,       \* the caller's RpcController
          net,              \* what became of connect()
          peer,             \* whether the server closed the connection
          room,             \* units the socket takes now
          unread,           \* units that arrived and were not read
          answered,         \* bound: units the server sent
          whole,            \* history: one write took the whole request
          replied,          \* history: the reply's callback ran
          ran               \* history: how often the closure ran

thread   == <<pc, m_stop_flag, tmp_tasks>>
interest == <<m_listen_events, m_write_callback>>
dones    == <<m_write_dones, m_read_dones>>
buffers  == <<m_out_buffer, m_in_buffer, result>>
timer    == <<m_is_cancled, timeout>>
caller   == <<request, m_response, controller>>
network  == <<net, peer, room, unread, answered>>
history  == <<whole, replied, ran>>
vars     == <<thread, m_state, interest, dones, buffers, timer, caller,
              network, history>>

(* What a step leaves alone that only moves the client's thread. *)
butPc    == <<m_stop_flag, tmp_tasks, m_state, interest, dones, buffers, timer,
              caller, network, history>>
client   == <<thread, m_state, interest, dones, buffers, timer, caller, history>>

-----------------------------------------------------------------------------
(* is_looping is initialised to false and assigned nowhere. *)
Islooping == FALSE

(* RpcController. *)
Controllers == [is_cancled : BOOLEAN, is_failed : BOOLEAN,
                is_finished : BOOLEAN, error_code : ErrorCodes]

StartCancel(c) ==
  [c EXCEPT !.is_cancled = TRUE, !.is_failed = TRUE, !.is_finished = TRUE]

SetError(c, error_code) == [c EXCEPT !.error_code = error_code, !.is_failed = TRUE]

(* The closure runs: it calls TcpcClient::stop. *)
RunClosure ==
  /\ ran' = ran + 1
  /\ m_stop_flag' = (m_stop_flag \/ Islooping)

(* The request and its callback join m_write_dones; the socket is watched. *)
writeMessage ==
  /\ m_write_dones' = TRUE
  /\ m_listen_events' = m_listen_events \cup {"out"}
  /\ m_write_callback' = "onwrite"

(* The callback of the reply joins m_read_dones. *)
readMessage ==
  /\ m_read_dones' = TRUE
  /\ m_listen_events' = m_listen_events \cup {"in"}

(* The next callback of the batch. *)
Run(cb) ==
  /\ pc = "loop" /\ tmp_tasks # <<>> /\ Head(tmp_tasks) = cb
  /\ tmp_tasks' = Tail(tmp_tasks)

-----------------------------------------------------------------------------
(* Seeded defects. *)

(* The reply does not cancel the timeout. *)
ReplyKeepsTimeout ==
  /\ pc = "replies" /\ result > 0 /\ ~replied
  /\ result' = result - 1
  /\ replied' = m_read_dones
  /\ IF m_read_dones /\ controller.is_cancled
     THEN RunClosure ELSE UNCHANGED <<m_stop_flag, ran>>
  /\ UNCHANGED <<pc, tmp_tasks, m_state, interest, dones, m_out_buffer,
                 m_in_buffer, timer, caller, network, whole>>

(* A socket that takes nothing clears the callbacks unrun. *)
BlockedDropsDones ==
  /\ pc = "write" /\ m_out_buffer > 0 /\ room = 0 /\ peer = "open"
  /\ pc' = "loop" /\ m_write_dones' = FALSE
  /\ UNCHANGED <<m_stop_flag, tmp_tasks, m_state, interest, m_read_dones,
                 buffers, timer, caller, network, history>>

(* ... or is not watched any longer. *)
BlockedCancelsOut ==
  /\ pc = "write" /\ m_out_buffer > 0 /\ room = 0 /\ peer = "open"
  /\ pc' = "dones" /\ m_listen_events' = m_listen_events \ {"out"}
  /\ UNCHANGED <<m_stop_flag, tmp_tasks, m_state, m_write_callback, dones,
                 buffers, timer, caller, network, history>>

(* m_write_dones keeps what was sent. *)
DonesNotCleared ==
  /\ pc = "dones"
  /\ pc' = "loop"
  /\ readMessage
  /\ UNCHANGED <<m_stop_flag, tmp_tasks, m_state, m_write_callback,
                 m_write_dones, buffers, timer, caller, network, whole,
                 replied, ran>>

(* The timeout is added once the connection is there. *)
CallWithoutTimeout ==
  /\ pc = "call"
  /\ pc' = "connect"
  /\ UNCHANGED butPc

-----------------------------------------------------------------------------
(* How much the kernel gives to the socket at first is not known. *)
Init ==
  /\ pc = "call" /\ m_stop_flag = FALSE /\ tmp_tasks = <<>>
  /\ m_state = "NotConnected"
  /\ m_listen_events = {} /\ m_write_callback = "none"
  /\ m_write_dones = FALSE /\ m_read_dones = FALSE
  /\ m_out_buffer = 0 /\ m_in_buffer = 0 /\ result = 0
  /\ m_is_cancled = FALSE /\ timeout = "none"
  /\ request \in Requests /\ m_response = "default"
  /\ controller = [is_cancled |-> FALSE, is_failed |-> FALSE,
                   is_finished |-> FALSE, error_code |-> "0"]
  /\ net = "none" /\ peer = "open" /\ room \in 0 .. SendRoom
  /\ unread = 0 /\ answered = 0
  /\ whole = FALSE /\ replied = FALSE /\ ran = 0

-----------------------------------------------------------------------------
(* CallMethod. *)

(* The channel is not initialised, or the request cannot be serialised.    *)
CallRefused ==
  /\ pc = "call"
  /\ pc' = "returned"
  /\ \E code \in {"ERROR_RPC_CHANNEL_INIT", "ERROR_FAILED_SERIALIZE"} :
       controller' = SetError(controller, code)
  /\ UNCHANGED <<m_stop_flag, tmp_tasks, m_state, interest, dones, buffers,
                 timer, request, m_response, network, history>>

CallMethod ==
  /\ pc = "call"
  /\ pc' = "connect"
  /\ timeout' = "pending"
  /\ UNCHANGED <<m_stop_flag, tmp_tasks, m_state, interest, dones, buffers,
                 m_is_cancled, caller, network, history>>

(* TcpcClient::connect, connected at once: the callback queues the request *)
(* and connect returns.  The loop is not started.                          *)
ConnectAtOnce ==
  /\ pc = "connect"
  /\ pc' = "returned"
  /\ net' = "ok"
  /\ writeMessage
  /\ m_state' = "Connect"
  /\ UNCHANGED <<m_stop_flag, tmp_tasks, m_read_dones, buffers, timer,
                 caller, peer, room, unread, answered, history>>

(* Failed at once: nobody is told. *)
ConnectFails ==
  /\ pc = "connect"
  /\ pc' = "returned"
  /\ UNCHANGED butPc

(* EINPROGRESS: the loop is started here, and connect does not return      *)
(* before the loop does.                                                   *)
ConnectLater ==
  /\ pc = "connect"
  /\ pc' = "test"
  /\ net' = "inprogress"
  /\ m_listen_events' = {"out"} /\ m_write_callback' = "connected"
  /\ UNCHANGED <<m_stop_flag, tmp_tasks, m_state, dones, buffers, timer,
                 caller, peer, room, unread, answered, history>>

-----------------------------------------------------------------------------
(* The loop. *)

TestStop ==
  /\ pc = "test"
  /\ pc' = IF m_stop_flag THEN "returned" ELSE "loop"
  /\ UNCHANGED butPc

EpollWait ==
  /\ pc = "loop" /\ tmp_tasks = <<>>
  /\ pc' = "wait"
  /\ UNCHANGED butPc

Readable == unread > 0 \/ peer = "closed"
Writable == net = "refused" \/ (net = "ok" /\ (room > 0 \/ peer = "closed"))

EpollReturn ==
  /\ pc = "wait"
  /\ LET in     == "in" \in m_listen_events /\ Readable
         out    == "out" \in m_listen_events /\ Writable
         due    == timeout = "due"
         socket == (IF in THEN <<"onread">> ELSE <<>>)
                     \o (IF out THEN <<m_write_callback>> ELSE <<>>)
         expiry == IF due THEN <<"onTimer">> ELSE <<>>
     IN  /\ in \/ out \/ due
         /\ tmp_tasks' \in {socket \o expiry, expiry \o socket}
  /\ pc' = "test"
  /\ UNCHANGED <<m_stop_flag, m_state, interest, dones, buffers, timer,
                 caller, network, history>>

(* onTimer takes the event out of the map, and calls it back unless it was *)
(* cancelled: the call is cancelled and the closure runs.                  *)
OnTimer ==
  /\ Run("onTimer")
  /\ timeout' = "over"
  /\ IF m_is_cancled
     THEN UNCHANGED <<controller, m_stop_flag, ran>>
     ELSE /\ controller' = SetError(StartCancel(controller),
                                    "ERROR_RPC_CALL_TIMEOUT")
          /\ RunClosure
  /\ UNCHANGED <<pc, m_state, interest, dones, buffers, m_is_cancled, request,
                 m_response, network, whole, replied>>

(* connect's callback on the socket: with no error, the request is queued. *)
Connected ==
  /\ Run("connected")
  /\ net = "ok"
  /\ m_state' = "Connect"
  /\ writeMessage
  /\ UNCHANGED <<pc, m_stop_flag, m_read_dones, buffers, timer, caller,
                 network, history>>

ConnectRefused ==
  /\ Run("connected")
  /\ net = "refused"
  /\ m_listen_events' = {}
  /\ UNCHANGED <<pc, m_stop_flag, m_state, m_write_callback, dones, buffers,
                 timer, caller, network, history>>

-----------------------------------------------------------------------------
(* TcpConnection::onread and excute. *)

OnRead ==
  /\ Run("onread") /\ unread > 0
  /\ unread' = 0
  /\ result' = (m_in_buffer + unread) \div 2
  /\ m_in_buffer' = (m_in_buffer + unread) % 2
  /\ pc' = "replies"
  /\ UNCHANGED <<m_stop_flag, m_state, interest, dones, m_out_buffer, timer,
                 caller, net, peer, room, answered, history>>

(* The end of the file: clear. *)
OnReadEnd ==
  /\ Run("onread") /\ unread = 0
  /\ m_state' = "Closed" /\ m_listen_events' = {}
  /\ UNCHANGED <<pc, m_stop_flag, m_write_callback, dones, buffers, timer,
                 caller, network, history>>

(* The bytes of the reply: none if it tells of an error, whose code nothing *)
(* on this side looks at.                                                   *)
pb_data == IF dispatch(request) = "0" THEN request.response ELSE "none"

(* A reply whose id is in m_read_dones: its callback cancels the timeout   *)
(* and parses the response (no bytes are a response of defaults); if the   *)
(* call was cancelled it runs the closure.  It stays in the map.           *)
ReadCallback ==
  /\ m_is_cancled' = TRUE
  /\ m_response' = IF pb_data = "message" THEN "filled" ELSE "default"
  /\ controller' = IF pb_data = "foreign"
                   THEN SetError(controller, "ERROR_FAILED_SERIALIZE")
                   ELSE controller
  /\ IF controller.is_cancled THEN RunClosure ELSE UNCHANGED <<m_stop_flag, ran>>

Reply ==
  /\ pc = "replies" /\ result > 0 /\ ~replied
  /\ result' = result - 1
  /\ replied' = m_read_dones
  /\ IF m_read_dones THEN ReadCallback
     ELSE UNCHANGED <<m_is_cancled, m_response, controller, m_stop_flag, ran>>
  /\ UNCHANGED <<pc, tmp_tasks, m_state, interest, dones, m_out_buffer,
                 m_in_buffer, timeout, request, network, whole>>

(* The callback's channel was reset when it ran first. *)
ReplyAgain ==
  /\ pc = "replies" /\ result > 0 /\ replied
  /\ pc' = "dead"
  /\ UNCHANGED butPc

RepliesEnd ==
  /\ pc = "replies" /\ result = 0
  /\ pc' = "loop"
  /\ UNCHANGED butPc

-----------------------------------------------------------------------------
(* TcpConnection::onwrite. *)

(* Returns in a state other than Connect; else what is in m_write_dones is *)
(* encoded.                                                                *)
OnWrite ==
  /\ Run("onwrite")
  /\ IF m_state = "Connect"
     THEN /\ pc' = "write"
          /\ m_out_buffer' = m_out_buffer + (IF m_write_dones THEN RequestLen ELSE 0)
     ELSE UNCHANGED <<pc, m_out_buffer>>
  /\ UNCHANGED <<m_stop_flag, m_state, interest, dones, m_in_buffer, result,
                 timer, caller, network, history>>

(* The socket takes all of the output, which stays in m_out_buffer. *)
WriteAll ==
  /\ pc = "write" /\ room >= m_out_buffer
  /\ pc' = "dones"
  /\ room' = room - m_out_buffer
  /\ whole' = TRUE
  /\ m_listen_events' = m_listen_events \ {"out"}
  /\ UNCHANGED <<m_stop_flag, tmp_tasks, m_state, m_write_callback, dones,
                 buffers, timer, caller, net, peer, unread, answered,
                 replied, ran>>

(* It takes a part: write() is called again with all of it. *)
WritePart ==
  /\ pc = "write" /\ 0 < room /\ room < m_out_buffer
  /\ room' = 0
  /\ UNCHANGED <<client, net, peer, unread, answered>>

(* EAGAIN. *)
WriteBlocked ==
  /\ pc = "write" /\ m_out_buffer > 0 /\ room = 0 /\ peer = "open"
  /\ pc' = "dones"
  /\ UNCHANGED butPc

(* The server does not take any more: SIGPIPE. *)
WriteKilled ==
  /\ pc = "write" /\ peer = "closed"
  /\ pc' = "dead"
  /\ UNCHANGED butPc

(* Whatever was written, the done callback of the request runs: it asks    *)
(* for the reply (readMessage).  m_write_dones is cleared.                 *)
Dones ==
  /\ pc = "dones"
  /\ pc' = "loop"
  /\ m_write_dones' = FALSE
  /\ IF m_write_dones
     THEN readMessage
     ELSE UNCHANGED <<m_read_dones, m_listen_events>>
  /\ UNCHANGED <<m_stop_flag, tmp_tasks, m_state, m_write_callback, buffers,
                 timer, caller, network, whole, replied, ran>>

-----------------------------------------------------------------------------
(* The network, the server and the clock. *)

NetConnects ==
  /\ net = "inprogress"
  /\ net' \in {"ok", "refused"}
  /\ UNCHANGED <<client, peer, room, unread, answered>>

ServerReads ==
  /\ net = "ok" /\ peer = "open" /\ room < SendRoom
  /\ room' = SendRoom
  /\ UNCHANGED <<client, net, peer, unread, answered>>

ServerReplies ==
  /\ whole /\ peer = "open" /\ answered < 2 * MaxReplies
  /\ \E n \in 1 .. 2 * MaxReplies - answered :
       answered' = answered + n /\ unread' = unread + n
  /\ UNCHANGED <<client, net, peer, room>>

ServerCloses ==
  /\ net = "ok" /\ peer = "open"
  /\ peer' = "closed"
  /\ UNCHANGED <<client, net, room, unread, answered>>

TimerExpires ==
  /\ timeout = "pending"
  /\ timeout' = "due"
  /\ UNCHANGED <<thread, m_state, interest, dones, buffers, m_is_cancled,
                 caller, network, history>>

-----------------------------------------------------------------------------
Client ==
  \/ CallRefused \/ CallMethod
  \/ ConnectAtOnce \/ ConnectFails \/ ConnectLater
  \/ TestStop \/ EpollWait \/ EpollReturn
  \/ OnTimer \/ Connected \/ ConnectRefused
  \/ OnRead \/ OnReadEnd \/ Reply \/ ReplyAgain \/ RepliesEnd
  \/ OnWrite \/ WriteAll \/ WritePart \/ WriteBlocked \/ WriteKilled \/ Dones

Environment ==
  NetConnects \/ ServerReads \/ ServerReplies \/ ServerCloses \/ TimerExpires

Next == pc # "dead" /\ (Client \/ Environment)

Spec == Init /\ [][Next]_vars

(* The thread goes on, connect() comes to an end, the clock moves, and the *)
(* server reads.  It need not answer.                                      *)
Fairness ==
  /\ WF_vars(pc # "dead" /\ Client)
  /\ WF_vars(pc # "dead" /\ NetConnects)
  /\ WF_vars(pc # "dead" /\ TimerExpires)
  /\ WF_vars(pc # "dead" /\ ServerReads)

FairSpec == Spec /\ Fairness

-----------------------------------------------------------------------------
(* Properties *)

Callbacks == {"none", "connected", "onread", "onwrite", "onTimer"}

TypeOK ==
  /\ pc \in {"call", "connect", "test", "loop", "wait", "replies", "write",
             "dones", "returned", "dead"}
  /\ m_stop_flag \in BOOLEAN
  /\ tmp_tasks \in Seq(Callbacks)
  /\ m_state \in {"NotConnected", "Connect", "Closed"}
  /\ m_listen_events \subseteq {"in", "out"}
  /\ m_write_callback \in {"none", "connected", "onwrite"}
  /\ m_write_dones \in BOOLEAN /\ m_read_dones \in BOOLEAN
  /\ m_out_buffer \in {0, RequestLen} /\ m_in_buffer \in {0, 1}
  /\ result \in 0 .. MaxReplies
  /\ m_is_cancled \in BOOLEAN /\ timeout \in {"none", "pending", "due", "over"}
  /\ request \in Requests /\ m_response \in {"default", "filled"}
  /\ controller \in Controllers
  /\ net \in {"none", "inprogress", "ok", "refused"}
  /\ peer \in {"open", "closed"} /\ room \in 0 .. SendRoom
  /\ unread \in 0 .. 2 * MaxReplies /\ answered \in 0 .. 2 * MaxReplies
  /\ whole \in BOOLEAN /\ replied \in BOOLEAN
  /\ ran \in Nat

(* Whenever the loop sleeps after the server was given the request, the    *)
(* socket is watched for the reply and its id is in m_read_dones, also     *)
(* when the request took several writes: no reply finds nobody waiting.    *)
ReplyAwaited ==
  (pc = "wait" /\ whole /\ m_state = "Connect") =>
    ("in" \in m_listen_events /\ m_read_dones)

(* What became of the call, from what the callbacks left behind. *)
Settled ==
  CASE replied /\ controller.is_cancled  -> "late"
    [] replied /\ ~controller.is_cancled -> "replied"
    [] ~replied /\ controller.is_cancled -> "cancelled"
    [] ~replied /\ ~controller.is_cancled ->
         IF controller.error_code = "0" THEN "open" ELSE "refused"

(* The call is settled once (rpc_channel.cc, lines 65, 74 and 95): a       *)
(* reply that was handled first keeps the timeout from cancelling the call *)
(* and running the closure, even if one epoll_wait found both; and no code *)
(* is told, and no closure run, but for one of the ways a call may end.    *)
Outcome == INSTANCE CallOutcome
             WITH outcome <- Settled, told <- controller.error_code, runs <- ran
OutcomeSpec == Outcome!Spec

InLoop == pc \notin {"call", "connect", "returned", "dead"}

(* A call that got into the loop comes to an end: it has a reply or it was *)
(* cancelled, whatever the network and the server do.                      *)
CallSettles ==
  InLoop ~> (replied \/ controller.is_cancled \/ pc = "dead")

(* "Wait until it is writable and send again" (tcp_connection.cc, lines    *)
(* 178 and 179): once connected, the whole request gets to a server that   *)
(* reads and does not close, however often the socket was full.  It does   *)
(* if the socket can take a whole request at once.                         *)
RequestWritten ==
  (InLoop /\ net = "ok") ~> (whole \/ peer = "closed" \/ pc = "dead")

(* A call that reports no failure has its response: "call rpc failed ...   *)
(* error code" (client_test/test.cc, lines 89 to 98) tells the others.     *)
ErrorTold == replied /\ ~controller.is_failed => m_response = "filled"

(* "call rpc succ" (client_test/test.cc, lines 89 and 90): the closure     *)
(* runs for a reply.                                                       *)
ClosureOnReply == replied => ran > 0
=============================================================================
