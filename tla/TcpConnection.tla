--------------------------- MODULE TcpConnection ----------------------------
(***************************************************************************)
(* rocket::TcpConnection on the server's side (tcp/tcp_connection.cc), the *)
(* socket under it and the peer that calls.                                *)
(*                                                                         *)
(* The main thread constructs the connection; its handlers onread and      *)
(* onwrite run on the thread of an EventLoop, one task at a time, in the   *)
(* order of the loop's queue.  Every system call and every pass of decode  *)
(* is a step of its own, so bytes arrive and leave in between.             *)
(*                                                                         *)
(* The peer sends the frames of its requests one after the other; any part *)
(* of them may have arrived.  A request is answered by RpcDispatcher with  *)
(* one message of the same id.  The server never closes the descriptor,    *)
(* so it stays valid.                                                      *)
(***************************************************************************)
EXTENDS TinyPBCoder, FiniteSets, SequencesExt

CONSTANTS BufferSize,   \* 128 in TcpServer::onAccept
          Requests,     \* how many requests the peer has for this connection
          RequestLen,   \* bytes of a request's frame
          Payload,      \* what each request's frame holds behind the id
          ReplyLen,     \* bytes of a reply's frame
          SendRoom,     \* bytes the socket takes before the peer reads them
          Cuts,         \* bound: where the network may cut the stream
          MaxSent,      \* bound: the peer reads no more once this was sent
          Closing       \* TRUE: the peer may close and the server shut down

ASSUME ConnectionAssumption ==
  /\ BufferSize \in Nat \ {0} /\ Requests \in 0 .. 116
  /\ RequestLen \in LenBytes + 3 .. 126 /\ ReplyLen \in LenBytes + 3 .. 126
  /\ Payload \in [1 .. Requests -> [1 .. RequestLen - LenBytes - 3 -> Bytes]]
  /\ Cuts \subseteq 1 .. Requests * RequestLen
  /\ SendRoom \in Nat \ {0} /\ MaxSent \in Nat
  /\ Closing \in BOOLEAN

VARIABLES main,             \* where the main thread is in onAccept
          m_coder,          \* m_coder points to a coder
          m_state,          \* m_state
          m_listen_events,  \* the events the FdEvent asks for
          epoll_events,     \* kernel: interest of the fd, {NotThere} if none
          m_pending_tasks,  \* the loop's queue, the tasks of this connection
          pc,               \* what the loop's thread does for it
          m_in_buffer,      \* m_in_buffer
          m_out_buffer,     \* m_out_buffer
          result,           \* excute's local result
          arrived,          \* how many bytes of Stream the socket received
          taken,            \* how many of them were read
          peer,             \* what the socket knows of the peer
          shut,             \* the socket was shut down by the server
          room,             \* how many bytes the socket takes
          sent,             \* history: the bytes the socket took
          decoded,          \* history: the ids decoded
          lost,             \* history: bytes read were not kept
          cut               \* history: a read was cut behind a payload's mark

onaccept == <<main, m_coder>>
interest == <<m_listen_events, epoll_events>>
buffers  == <<m_in_buffer, m_out_buffer, result>>
socket   == <<arrived, taken, peer, shut, room>>
history  == <<sent, decoded, lost, cut>>
vars     == <<onaccept, m_state, interest, m_pending_tasks, pc, buffers,
              socket, history>>

-----------------------------------------------------------------------------
NotThere == "not registered"

(* The ids of the requests: decimal digits in MsgIDUtil, never a mark. *)
Id(n) == 10 + n

(* All the bytes the peer has to send. *)
Stream ==
  [k \in 1 .. Requests * RequestLen |->
     LET n == (k - 1) \div RequestLen + 1
     IN  encodeTinyPB(Id(n), Payload[n])[((k - 1) % RequestLen) + 1]]

(* Of the first n bytes of the stream the last request has arrived in      *)
(* part, and behind its first byte there is a byte like PB_START, with     *)
(* another one behind it: the search for a frame goes on there.            *)
AtMark(n) ==
  \E k \in (n \div RequestLen) * RequestLen + 2 .. n - 1 :
    Stream[k] = PB_START

Available == arrived - taken
EndOfFile == peer # "open" \/ shut

Listen(ev) ==
  /\ m_listen_events' = m_listen_events \cup {ev}
  /\ epoll_events' = m_listen_events'

Cancel(ev) ==
  /\ m_listen_events' = m_listen_events \ {ev}
  /\ epoll_events' = m_listen_events'

-----------------------------------------------------------------------------
(* Seeded defects. *)

(* onwrite does not look at the state. *)
OnWriteAnyState ==
  /\ pc = "idle" /\ m_pending_tasks # <<>> /\ Head(m_pending_tasks) = "out"
  /\ m_pending_tasks' = Tail(m_pending_tasks)
  /\ pc' = "write"
  /\ UNCHANGED <<onaccept, m_state, interest, buffers, socket, history>>

(* excute forgets to listen for the socket to take the replies. *)
ExcuteNoListen ==
  /\ pc = "excute" /\ result = <<>>
  /\ pc' = "idle"
  /\ UNCHANGED <<onaccept, m_state, interest, m_pending_tasks, buffers, socket,
                 history>>

(* The end of the file is taken for a read of nothing. *)
EndReadAsNothing ==
  /\ pc = "read" /\ Available = 0 /\ EndOfFile /\ peer # "reset"
  /\ pc' = "decode" /\ result' = <<>>
  /\ UNCHANGED <<onaccept, m_state, interest, m_pending_tasks, m_in_buffer,
                 m_out_buffer, socket, history>>

-----------------------------------------------------------------------------
Init ==
  /\ main = "listen" /\ m_coder = FALSE
  /\ m_state = "NotConnected"
  /\ m_listen_events = {} /\ epoll_events = {NotThere}
  /\ m_pending_tasks = <<>> /\ pc = "idle"
  /\ m_in_buffer = New(BufferSize) /\ m_out_buffer = New(BufferSize)
  /\ result = <<>>
  /\ arrived = 0 /\ taken = 0 /\ peer = "open" /\ shut = FALSE
  /\ room = SendRoom
  /\ sent = <<>> /\ decoded = <<>> /\ lost = FALSE /\ cut = FALSE

-----------------------------------------------------------------------------
(* TcpServer::onAccept on the main thread. *)

(* The constructor listens, which posts a closure to the loop. *)
CtorListen ==
  /\ main = "listen"
  /\ main' = "coder"
  /\ m_listen_events' = {"in"}
  /\ m_pending_tasks' = Append(m_pending_tasks, "add")
  /\ UNCHANGED <<m_coder, m_state, epoll_events, pc, buffers, socket, history>>

CtorCoder ==
  /\ main = "coder"
  /\ main' = "state"
  /\ m_coder' = TRUE
  /\ UNCHANGED <<m_state, interest, m_pending_tasks, pc, buffers, socket,
                 history>>

(* setState, which sets Connect whatever it is given. *)
setState ==
  /\ main = "state"
  /\ main' = "done"
  /\ m_state' = "Connect"
  /\ UNCHANGED <<m_coder, interest, m_pending_tasks, pc, buffers, socket,
                 history>>

-----------------------------------------------------------------------------
(* The peer and the network. *)

Arrive ==
  /\ peer = "open"
  /\ arrived' \in {n \in Cuts : n > arrived}
  /\ UNCHANGED <<onaccept, m_state, interest, m_pending_tasks, pc, buffers,
                 taken, peer, shut, room, history>>

PeerReads ==
  /\ room < SendRoom
  /\ Len(sent) < MaxSent
  /\ room' = SendRoom
  /\ UNCHANGED <<onaccept, m_state, interest, m_pending_tasks, pc, buffers,
                 arrived, taken, peer, shut, history>>

(* The peer closes; if it left bytes unread, or some reach it later, it    *)
(* answers with a reset.                                                   *)
PeerCloses ==
  /\ Closing
  /\ \/ peer = "open" /\ peer' = "closed"
     \/ peer = "closed" /\ sent # <<>> /\ peer' = "reset"
  /\ UNCHANGED <<onaccept, m_state, interest, m_pending_tasks, pc, buffers,
                 arrived, taken, shut, room, history>>

-----------------------------------------------------------------------------
(* The loop. *)

Readable == Available > 0 \/ EndOfFile
Writable == room > 0 \/ EndOfFile

(* epoll_wait finds the descriptor ready: its handlers are queued, the     *)
(* read handler first.                                                     *)
EpollReturn ==
  /\ pc = "idle" /\ m_pending_tasks = <<>>
  /\ LET in  == "in" \in epoll_events /\ Readable
         out == "out" \in epoll_events /\ Writable
     IN  /\ in \/ out
         /\ m_pending_tasks' = (IF in THEN <<"in">> ELSE <<>>)
                                 \o (IF out THEN <<"out">> ELSE <<>>)
  /\ UNCHANGED <<onaccept, m_state, interest, pc, buffers, socket, history>>

Run(task) ==
  /\ pc = "idle" /\ m_pending_tasks # <<>> /\ Head(m_pending_tasks) = task
  /\ m_pending_tasks' = Tail(m_pending_tasks)

(* The closure of the constructor's addEpollEvent. *)
RunAdd ==
  /\ Run("add")
  /\ epoll_events' = m_listen_events
  /\ UNCHANGED <<onaccept, m_state, m_listen_events, pc, buffers, socket,
                 history>>

-----------------------------------------------------------------------------
(* onread.  A state other than Connect is logged only. *)
OnRead ==
  /\ Run("in")
  /\ pc' = "read"
  /\ UNCHANGED <<onaccept, m_state, interest, buffers, socket, history>>

(* read() gives what has arrived, as far as the buffer has room; when it   *)
(* fills the room, there may be more.                                      *)
ReadSome ==
  /\ pc = "read" /\ Available > 0
  /\ LET free == IF writeAble(m_in_buffer) = 0
                 THEN resizeBuffer(m_in_buffer, 2 * Size(m_in_buffer))
                 ELSE m_in_buffer
         n    == Least(Available, writeAble(free))
         data == SubSeq(Stream, taken + 1, taken + n)
     IN  /\ m_in_buffer' = moveWriteIndex(
                             Copied(free, free.m_write_index, data), n)
         /\ taken' = taken + n
         /\ pc' = IF n = writeAble(free) THEN "read" ELSE "decode"
         /\ lost' = (lost \/ readAble(m_in_buffer') # readAble(m_in_buffer) + n)
         /\ cut' = (cut \/ (pc' = "decode" /\ AtMark(taken')))
  /\ result' = <<>>
  /\ UNCHANGED <<onaccept, m_state, interest, m_pending_tasks, m_out_buffer,
                 arrived, peer, shut, room, sent, decoded>>

(* EAGAIN: everything was read. *)
ReadNothing ==
  /\ pc = "read" /\ Available = 0 /\ ~EndOfFile
  /\ pc' = "decode" /\ result' = <<>>
  /\ cut' = (cut \/ AtMark(taken))
  /\ UNCHANGED <<onaccept, m_state, interest, m_pending_tasks, m_in_buffer,
                 m_out_buffer, socket, sent, decoded, lost>>

(* Another error, ECONNRESET, is reported once: read() is called again. *)
ReadError ==
  /\ pc = "read" /\ Available = 0 /\ peer = "reset"
  /\ peer' = "gone"
  /\ UNCHANGED <<onaccept, m_state, interest, m_pending_tasks, pc, buffers,
                 arrived, taken, shut, room, history>>

(* clear, unless it is Closed already. *)
clear ==
  \/ m_state = "Closed" /\ UNCHANGED <<m_state, interest>>
  \/ /\ m_state # "Closed"
     /\ m_state' = "Closed"
     /\ epoll_events' = {NotThere}
     /\ m_listen_events' = {}

ReadEnd ==
  /\ pc = "read" /\ Available = 0 /\ EndOfFile /\ peer # "reset"
  /\ pc' = "idle"
  /\ clear
  /\ UNCHANGED <<onaccept, m_pending_tasks, buffers, socket, history>>

-----------------------------------------------------------------------------
(* excute: decode, dispatch, encode.  A pass of decode takes a frame or    *)
(* ends it.  Before m_coder is set its pointer is garbage.                 *)
DecodeOne ==
  /\ pc = "decode" /\ m_coder
  /\ \E i \in FirstFrame(m_in_buffer) :
       \E id \in Parsed(m_in_buffer, i) :
         /\ m_in_buffer' = Leave(m_in_buffer, i)
         /\ result' = result \o id
         /\ decoded' = decoded \o id
  /\ UNCHANGED <<onaccept, m_state, interest, m_pending_tasks, pc,
                 m_out_buffer, socket, sent, lost, cut>>

(* A length that is arbitrary takes memcpy or the string of the payload    *)
(* out of what may be touched.                                             *)
DecodeOverrun ==
  /\ pc = "decode" /\ m_coder
  /\ \E i \in FirstFrame(m_in_buffer) : Unsound(m_in_buffer, i)
  /\ pc' = "dead"
  /\ UNCHANGED <<onaccept, m_state, interest, m_pending_tasks, buffers, socket,
                 history>>

DecodeEnd ==
  /\ pc = "decode" /\ m_coder /\ Frames(m_in_buffer) = {}
  /\ pc' = "excute"
  /\ UNCHANGED <<onaccept, m_state, interest, m_pending_tasks, buffers, socket,
                 history>>

DecodeCrash ==
  /\ pc = "decode" /\ ~m_coder
  /\ pc' = "dead"
  /\ UNCHANGED <<onaccept, m_state, interest, m_pending_tasks, buffers, socket,
                 history>>

(* RpcDispatcher::dispatch: whether the service, the method and the        *)
(* request are found sound or not, it returns with a response of the same  *)
(* id; of the result and of the error codes nothing is kept.               *)
dispatch(id) == encodeTinyPB(id, [k \in 1 .. ReplyLen - LenBytes - 3 |-> 9])

(* A message is dispatched and its response encoded. *)
ExcuteOne ==
  /\ pc = "excute" /\ result # <<>>
  /\ m_out_buffer' = writeToBUffer(m_out_buffer, dispatch(Head(result)))
  /\ result' = Tail(result)
  /\ UNCHANGED <<onaccept, m_state, interest, m_pending_tasks, pc, m_in_buffer,
                 socket, history>>

(* Then the socket is watched, whether there was a message or not. *)
Excute ==
  /\ pc = "excute" /\ result = <<>>
  /\ Listen("out")
  /\ pc' = "idle"
  /\ UNCHANGED <<onaccept, m_state, m_pending_tasks, buffers, socket, history>>

-----------------------------------------------------------------------------
(* onwrite, which returns at once in a state other than Connect. *)
OnWrite ==
  /\ Run("out")
  /\ pc' = IF m_state = "Connect" THEN "write" ELSE "idle"
  /\ UNCHANGED <<onaccept, m_state, interest, buffers, socket, history>>

(* All of the output is offered to the socket, which takes what it can.    *)
(* Nothing leaves m_out_buffer.                                            *)
WriteSome ==
  /\ pc = "write" /\ readAble(m_out_buffer) > 0 /\ room > 0
  /\ ~shut /\ peer \in {"open", "closed"}
  /\ LET n == Least(readAble(m_out_buffer), room)
     IN  /\ sent' = sent \o SubSeq(Contents(m_out_buffer), 1, n)
         /\ room' = room - n
         /\ \/ n = readAble(m_out_buffer) /\ pc' = "idle" /\ Cancel("out")
            \/ n < readAble(m_out_buffer) /\ UNCHANGED <<pc, interest>>
  /\ UNCHANGED <<onaccept, m_state, m_pending_tasks, buffers, arrived, taken,
                 peer, shut, decoded, lost, cut>>

WriteNothing ==
  /\ pc = "write" /\ readAble(m_out_buffer) = 0
  /\ pc' = "idle"
  /\ Cancel("out")
  /\ UNCHANGED <<onaccept, m_state, m_pending_tasks, buffers, socket, history>>

(* EAGAIN: the socket stays watched. *)
WriteBlocked ==
  /\ pc = "write" /\ readAble(m_out_buffer) > 0 /\ room = 0
  /\ ~shut /\ peer \in {"open", "closed"}
  /\ pc' = "idle"
  /\ UNCHANGED <<onaccept, m_state, interest, m_pending_tasks, buffers, socket,
                 history>>

(* Any other error: write() is called again, and the second time there is  *)
(* nobody to write to the process is killed by SIGPIPE.                    *)
WriteKilled ==
  /\ pc = "write" /\ readAble(m_out_buffer) > 0
  /\ shut \/ peer \in {"reset", "gone"}
  /\ pc' = "dead"
  /\ UNCHANGED <<onaccept, m_state, interest, m_pending_tasks, buffers, socket,
                 history>>

(* shutdown, called on the loop's thread. *)
shutdown ==
  /\ Closing
  /\ pc = "idle"
  /\ m_state \notin {"Closed", "NotConnected"}
  /\ m_state' = "HalfClosing"
  /\ shut' = TRUE
  /\ UNCHANGED <<onaccept, interest, m_pending_tasks, pc, buffers, arrived,
                 taken, peer, room, history>>

-----------------------------------------------------------------------------
Accept == CtorListen \/ CtorCoder \/ setState

Handlers ==
  \/ RunAdd \/ OnRead \/ OnWrite
  \/ ReadSome \/ ReadNothing \/ ReadError \/ ReadEnd
  \/ DecodeOne \/ DecodeOverrun \/ DecodeEnd \/ DecodeCrash
  \/ ExcuteOne \/ Excute
  \/ WriteSome \/ WriteNothing \/ WriteBlocked \/ WriteKilled

Environment == Arrive \/ PeerReads \/ PeerCloses

(* After a crash the process is gone. *)
Next == /\ pc # "dead"
        /\ Accept \/ Environment \/ EpollReturn \/ Handlers \/ shutdown

Spec == Init /\ [][Next]_vars

(* Both threads go on; what was sent arrives and is read.  Nobody has to   *)
(* close.                                                                  *)
Fairness ==
  /\ WF_vars(pc # "dead" /\ Accept)
  /\ WF_vars(pc # "dead" /\ (EpollReturn \/ Handlers))
  /\ WF_vars(pc # "dead" /\ PeerReads)

FairSpec == Spec /\ Fairness

-----------------------------------------------------------------------------
(* Properties *)

TypeOK ==
  /\ main \in {"listen", "coder", "state", "done"}
  /\ m_coder \in BOOLEAN
  /\ m_state \in {"NotConnected", "Connect", "HalfClosing", "Closed"}
  /\ m_listen_events \subseteq {"in", "out"}
  /\ epoll_events = {NotThere} \/ epoll_events \subseteq {"in", "out"}
  /\ m_pending_tasks \in Seq({"add", "in", "out"})
  /\ pc \in {"idle", "read", "decode", "excute", "write", "dead"}
  /\ m_in_buffer \in Buffers(Bytes) /\ IndexOK(m_in_buffer)
  /\ m_out_buffer \in Buffers(Bytes) /\ IndexOK(m_out_buffer)
  /\ result \in Seq(Bytes)
  /\ taken \in 0 .. arrived /\ arrived \in 0 .. Len(Stream)
  /\ peer \in {"open", "closed", "reset", "gone"} /\ shut \in BOOLEAN
  /\ room \in 0 .. SendRoom
  /\ lost \in BOOLEAN /\ cut \in BOOLEAN

(* The in buffer never fills up and so never grows (lines 47 and 48 are    *)
(* never taken): it holds one byte less than it was made for.              *)
InBufferNeverFull ==
  /\ Size(m_in_buffer) = BufferSize
  /\ m_in_buffer.m_write_index < BufferSize

(* However the stream is cut into reads, the messages decoded are the      *)
(* requests the peer sent, in order and each once, until bytes are lost or *)
(* decode is called with a request there in part, behind a byte of its     *)
(* payload that looks like PB_START.                                       *)
DecodedInOrder ==
  ~lost /\ ~cut => decoded = [n \in 1 .. Len(decoded) |-> Id(n)]

(* A connection that is Closed is not watched by epoll any more, whatever  *)
(* handlers were queued with the one that closed it.                       *)
ClosedIsQuiet == m_state = "Closed" => epoll_events = {NotThere}

(* A frame taken from the front is a third of the buffer, so that          *)
(* adjustBuffer moves the rest there: with an id of MsgIDUtil, 20 digits,  *)
(* a frame has at least 46 bytes and the server's buffer has 128.          *)
LongFrames == BufferSize \div 3 <= RequestLen

(* A pass of decode that finds a frame takes bytes out of the buffer, so   *)
(* its loop (lines 30 to 136 of tinypb_coder.cc) ends, as long as frames   *)
(* are that long, no bytes were lost and decode was never called with a    *)
(* request there up to a mark of its payload; otherwise it need not.       *)
DecodeConsumes ==
  LongFrames /\ ~lost /\ ~cut /\ pc = "decode" =>
    \A i \in FirstFrame(m_in_buffer) :
      readAble(Leave(m_in_buffer, i)) < readAble(m_in_buffer)

(* What read() gives is added to the bytes that wait to be decoded, except *)
(* when it fills the free part of the buffer to the last byte: then        *)
(* moveWriteIndex refuses, and that is the only way bytes are lost.        *)
LostOnlyToFullBuffer ==
  [][lost' # lost => taken' - taken = writeAble(m_in_buffer)]_vars

(* "Then send the rpc response back" (line 92): the peer gets the replies  *)
(* to its requests, each once.                                             *)
RepliesOnce ==
  IsPrefix(sent, FlattenSeq([n \in 1 .. Len(decoded) |->
                               dispatch(decoded[n])]))

(* The whole reply to a request was handed to the socket. *)
Replied(id) ==
  \E i \in 0 .. Len(sent) - ReplyLen :
    SubSeq(sent, i + 1, i + ReplyLen) = dispatch(id)

(* The loop reads from it, or the closure that registers it is queued. *)
Watched == "in" \in epoll_events \/ Contains(m_pending_tasks, "add")

(* The loop of decode does not end: it finds a frame of no bytes again and *)
(* again.                                                                  *)
Stuck ==
  /\ pc = "decode" /\ m_coder
  /\ \E i \in FirstFrame(m_in_buffer) : Leave(m_in_buffer, i) = m_in_buffer

(* Every request that was decoded is replied to, unless the connection was *)
(* closed or the thread is lost to decode first, as long as the socket has *)
(* room for its reply and all the earlier ones of the connection: each     *)
(* write begins with the first of them again (line 170), and never gets to *)
(* a reply behind that room.                                               *)
Answered ==
  \A n \in 1 .. Requests :
    (\E i \in DOMAIN decoded : decoded[i] = Id(n) /\ i * ReplyLen <= SendRoom)
      ~> \/ Replied(Id(n))
         \/ m_state # "Connect" \/ ~Watched \/ Stuck \/ pc = "dead"

(* A connection the peer or the server has ended is Closed in time, as     *)
(* long as the loop watches it, unless the thread is lost to decode.       *)
WatchedGetsClosed ==
  (Watched /\ EndOfFile) ~> (m_state = "Closed" \/ Stuck \/ pc = "dead")

(* "When the descriptor becomes readable the connection is closed" (lines  *)
(* 225 and 226): a half-closed or abandoned connection is Closed in time.  *)
GetsClosed ==
  (m_state \in {"Connect", "HalfClosing"} /\ EndOfFile)
    ~> (m_state = "Closed" \/ pc = "dead")
=============================================================================
