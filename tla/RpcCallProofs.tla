--------------------------- MODULE RpcCallProofs ----------------------------
(***************************************************************************)
(* Theorems about the call of RpcCall for requests and sockets of any size *)
(* and any number of replies: the types, that a reply is always awaited,   *)
(* that the client implements the call of CallOutcome and keeps its        *)
(* accounts, and that neither the timeout of an open call nor a request    *)
(* that is not written yet is ever lost sight of.                          *)
(***************************************************************************)
EXTENDS RpcCall, SequenceTheorems, TLAPS

USE CallAssumption

(* The batch holds the callback cb. *)
Has(cb) == \E i \in 1 .. Len(tmp_tasks) : tmp_tasks[i] = cb

(* The callback cb is in the batch once at most. *)
Once(cb) ==
  \A i, j \in 1 .. Len(tmp_tasks) :
    tmp_tasks[i] = cb /\ tmp_tasks[j] = cb => i = j

OneConnected == Once("connected")

(* Before the connection is there nothing was asked for; connect's callback *)
(* belongs to that time only.                                               *)
Connecting ==
  /\ pc \in {"call", "connect"} => m_state = "NotConnected" /\ tmp_tasks = <<>>
  /\ m_write_callback = "connected" \/ Has("connected") => m_state = "NotConnected"
  /\ m_state = "NotConnected" => /\ ~m_write_dones /\ ~m_read_dones
                                 /\ m_out_buffer = 0
  /\ OneConnected

(* The request is queued or its reply is awaited. *)
Asked ==
  /\ m_state = "Connect" => m_write_dones \/ m_read_dones
  /\ pc \in {"write", "dones"} => m_state = "Connect"
  /\ whole => m_read_dones \/ pc = "dones"

(* The socket is watched for the reply if it is awaited, and only then. *)
Watched ==
  /\ m_read_dones /\ m_state = "Connect" => "in" \in m_listen_events
  /\ "in" \in m_listen_events \/ Has("onread") => m_read_dones

(* The request is encoded once, and what is read was sent. *)
Counted ==
  /\ m_write_dones => m_out_buffer = 0 \/ pc \in {"write", "dones", "dead"}
  /\ pc \notin {"replies", "dead"} => result = 0
  /\ m_in_buffer + unread + 2 * result <= answered

(* The reply that was handled cancelled the timeout. *)
Stopped == replied => m_is_cancled

Facts == Connecting /\ Asked /\ Watched /\ Counted /\ Stopped

Inv == TypeOK /\ Facts

(* The timer's callback is in the batch once at most, and only while the   *)
(* timeout is due; only an expiry cancels the call; a code that neither an *)
(* expiry nor a reply left belongs to a call that returned at once.        *)
Timed ==
  /\ Once("onTimer")
  /\ Has("onTimer") => timeout = "due"
  /\ controller.is_cancled => timeout = "over"
  /\ pc = "call" => timeout = "none"
  /\ replied => m_read_dones
  /\ ~replied /\ ~controller.is_cancled /\ controller.error_code # "0" =>
       pc = "returned"

-----------------------------------------------------------------------------
LEMMA RunFacts ==
  ASSUME TypeOK, NEW cb, Run(cb)
  PROVE  /\ tmp_tasks' \in Seq(Callbacks)
         /\ Has(cb)
         /\ \A t : Has(t)' => Has(t)
         /\ \A t : Once(t) => Once(t)'
         /\ Once(cb) => ~Has(cb)'
<1>1. /\ tmp_tasks \in Seq(Callbacks) /\ tmp_tasks # <<>>
      /\ tmp_tasks' = Tail(tmp_tasks) /\ Head(tmp_tasks) = cb
  BY DEF TypeOK, Run
<1>2. /\ tmp_tasks' \in Seq(Callbacks)
      /\ Len(tmp_tasks) \in Nat \ {0}
      /\ Len(tmp_tasks') = Len(tmp_tasks) - 1
      /\ \A i \in 1 .. Len(tmp_tasks) - 1 : tmp_tasks'[i] = tmp_tasks[i + 1]
      /\ tmp_tasks[1] = cb
  BY <1>1
<1>3. \A i \in 1 .. Len(tmp_tasks') : /\ i + 1 \in 1 .. Len(tmp_tasks)
                                      /\ tmp_tasks'[i] = tmp_tasks[i + 1]
                                      /\ i + 1 # 1
  BY <1>2
<1>4. Has(cb)
  BY <1>2 DEF Has
<1>5. \A t : Has(t)' => Has(t)
  BY <1>3 DEF Has
<1>6. \A t : Once(t) => Once(t)'
  <2> SUFFICES ASSUME NEW t, Once(t),
                      NEW i \in 1 .. Len(tmp_tasks'), NEW j \in 1 .. Len(tmp_tasks'),
                      tmp_tasks'[i] = t, tmp_tasks'[j] = t
               PROVE  i = j
    BY DEF Once
  <2>1. i + 1 = j + 1
    BY <1>3 DEF Once
  <2>2. i \in Int /\ j \in Int
    OBVIOUS
  <2> QED BY <2>1, <2>2
<1>7. Once(cb) => ~Has(cb)'
  <2>1. 1 \in 1 .. Len(tmp_tasks)
    BY <1>2
  <2> QED BY <1>2, <1>3, <2>1 DEF Once, Has
<1> QED BY <1>2, <1>4, <1>5, <1>6, <1>7

(* Two or three tasks put one behind the other. *)
LEMMA TwoTasks ==
  ASSUME NEW a, NEW b
  PROVE  <<a>> \o <<b>> = <<a, b>>
<1> DEFINE S == {a, b}
<1>1. <<a>> \in Seq(S) /\ <<b>> \in Seq(S) /\ <<a, b>> \in Seq(S)
  OBVIOUS
<1>2. /\ <<a>> \o <<b>> \in Seq(S) /\ Len(<<a>> \o <<b>>) = 2
      /\ \A i \in 1 .. 2 : (<<a>> \o <<b>>)[i] = <<a, b>>[i]
  BY <1>1, ConcatProperties
<1> QED BY <1>1, <1>2, SeqEqual

LEMMA ThreeTasks ==
  ASSUME NEW a, NEW b, NEW c
  PROVE  <<a, b>> \o <<c>> = <<a, b, c>> /\ <<c>> \o <<a, b>> = <<c, a, b>>
<1> DEFINE S == {a, b, c}
<1>1. /\ <<a, b>> \in Seq(S) /\ <<c>> \in Seq(S)
      /\ <<a, b, c>> \in Seq(S) /\ <<c, a, b>> \in Seq(S)
  OBVIOUS
<1>2. /\ <<a, b>> \o <<c>> \in Seq(S) /\ Len(<<a, b>> \o <<c>>) = 3
      /\ \A i \in 1 .. 3 : (<<a, b>> \o <<c>>)[i] = <<a, b, c>>[i]
  BY <1>1, ConcatProperties
<1>3. /\ <<c>> \o <<a, b>> \in Seq(S) /\ Len(<<c>> \o <<a, b>>) = 3
      /\ \A i \in 1 .. 3 : (<<c>> \o <<a, b>>)[i] = <<c, a, b>>[i]
  BY <1>1, ConcatProperties
<1>4. <<a, b>> \o <<c>> = <<a, b, c>>
  BY <1>1, <1>2, SeqEqual
<1>5. <<c>> \o <<a, b>> = <<c, a, b>>
  BY <1>1, <1>3, SeqEqual
<1> QED BY <1>4, <1>5

(* What epoll_wait may find, when cb is the write callback of the socket.   *)
Batches(cb) ==
  {<<"onread">>, <<cb>>, <<"onread", cb>>, <<"onTimer">>,
   <<"onread", "onTimer">>, <<"onTimer", "onread">>,
   <<cb, "onTimer">>, <<"onTimer", cb>>,
   <<"onread", cb, "onTimer">>, <<"onTimer", "onread", cb>>}

(* The callbacks of connect and of the timer are in a batch once at most.  *)
LEMMA OncePerBatch ==
  ASSUME NEW cb, cb \in Callbacks,
         cb # "onTimer", NEW s \in Batches(cb)
  PROVE  /\ s \in Seq(Callbacks)
         /\ \A i \in 1 .. Len(s) : s[i] = "connected" => cb = "connected"
         /\ \A i, j \in 1 .. Len(s) :
              s[i] = "connected" /\ s[j] = "connected" => i = j
         /\ \A i, j \in 1 .. Len(s) :
              s[i] = "onTimer" /\ s[j] = "onTimer" => i = j
<1>1. {"onread", "onTimer", cb} \subseteq Callbacks
  BY DEF Callbacks
<1>2. CASE s = <<"onread">>
  BY <1>1, <1>2
<1>3. CASE s = <<cb>>
  BY <1>1, <1>3
<1>4. CASE s = <<"onread", cb>>
  BY <1>1, <1>4
<1>5. CASE s = <<"onTimer">>
  BY <1>1, <1>5
<1>6. CASE s = <<"onread", "onTimer">>
  BY <1>1, <1>6
<1>7. CASE s = <<"onTimer", "onread">>
  BY <1>1, <1>7
<1>8. CASE s = <<cb, "onTimer">>
  BY <1>1, <1>8
<1>9. CASE s = <<"onTimer", cb>>
  BY <1>1, <1>9
<1>10. CASE s = <<"onread", cb, "onTimer">>
  BY <1>1, <1>10
<1>11. CASE s = <<"onTimer", "onread", cb>>
  BY <1>1, <1>11
<1> QED BY <1>2, <1>3, <1>4, <1>5, <1>6, <1>7, <1>8, <1>9, <1>10, <1>11
        DEF Batches

LEMMA ReturnFacts ==
  ASSUME TypeOK, EpollReturn
  PROVE  /\ tmp_tasks' \in Seq(Callbacks)
         /\ Has("onread")' => "in" \in m_listen_events \/ m_write_callback = "onread"
         /\ Has("connected")' => m_write_callback = "connected"
         /\ Has("onTimer")' => timeout = "due"
         /\ OneConnected' /\ Once("onTimer")'
<1> DEFINE cb == m_write_callback
<1>1. /\ tmp_tasks' \in Batches(cb)
      /\ "in" \notin m_listen_events =>
           tmp_tasks' \in {<<cb>>, <<"onTimer">>, <<cb, "onTimer">>, <<"onTimer", cb>>}
      /\ timeout # "due" =>
           tmp_tasks' \in {<<"onread">>, <<cb>>, <<"onread", cb>>}
  <2> DEFINE in     == "in" \in m_listen_events /\ Readable
             out    == "out" \in m_listen_events /\ Writable
             due    == timeout = "due"
             socket == (IF in THEN <<"onread">> ELSE <<>>)
                          \o (IF out THEN <<cb>> ELSE <<>>)
             expiry == IF due THEN <<"onTimer">> ELSE <<>>
  <2>1. /\ in \/ out \/ due
        /\ tmp_tasks' \in {socket \o expiry, expiry \o socket}
        /\ in => "in" \in m_listen_events
        /\ due <=> timeout = "due"
    BY DEF EpollReturn
  <2>2. /\ in /\ out => socket = <<"onread">> \o <<cb>>
        /\ in /\ ~out => socket = <<"onread">> \o <<>>
        /\ ~in /\ out => socket = <<>> \o <<cb>>
        /\ ~in /\ ~out => socket = <<>> \o <<>>
        /\ due => expiry = <<"onTimer">>
        /\ ~due => expiry = <<>>
    BY Zenon
  <2> HIDE DEF in, out, due, socket, expiry
  <2>3. /\ <<"onread">> \o <<cb>> = <<"onread", cb>>
        /\ <<"onread">> \o <<>> = <<"onread">>
        /\ <<>> \o <<cb>> = <<cb>>
        /\ <<>> \o <<>> = <<>>
    <3>1. <<"onread">> \o <<cb>> = <<"onread", cb>>
      BY TwoTasks, Zenon
    <3> QED BY <3>1
  <2>4. CASE in /\ out
    <3>1. socket = <<"onread", cb>>
      BY <2>2, <2>3, <2>4, Zenon
    <3>2. CASE due
      <4>1. /\ <<"onread", cb>> \o <<"onTimer">> = <<"onread", cb, "onTimer">>
            /\ <<"onTimer">> \o <<"onread", cb>> = <<"onTimer", "onread", cb>>
        BY ThreeTasks, ZenonT(40)
      <4> QED BY <2>1, <2>2, <2>4, <3>1, <3>2, <4>1, Zenon DEF Batches
    <3>3. CASE ~due
      <4>1. /\ <<"onread", cb>> \o <<>> = <<"onread", cb>>
            /\ <<>> \o <<"onread", cb>> = <<"onread", cb>>
        OBVIOUS
      <4> QED BY <2>1, <2>2, <2>4, <3>1, <3>3, <4>1, Zenon DEF Batches
    <3> QED BY <3>2, <3>3
  <2>5. ASSUME NEW a, socket = <<a>>, (a = "onread" /\ in) \/ a = cb
        PROVE  /\ tmp_tasks' \in {<<a>>, <<a, "onTimer">>, <<"onTimer", a>>}
               /\ timeout # "due" => tmp_tasks' = <<a>>
    <3>1. /\ <<a>> \o <<"onTimer">> = <<a, "onTimer">>
          /\ <<"onTimer">> \o <<a>> = <<"onTimer", a>>
      BY TwoTasks, Zenon
    <3>2. <<a>> \o <<>> = <<a>> /\ <<>> \o <<a>> = <<a>>
      OBVIOUS
    <3> QED BY <2>1, <2>2, <2>5, <3>1, <3>2, Zenon
  <2>6. CASE in /\ ~out
    <3>1. socket = <<"onread">>
      BY <2>2, <2>3, <2>6, Zenon
    <3> QED BY <2>1, <2>5, <2>6, <3>1, Zenon DEF Batches
  <2>7. CASE ~in /\ out
    <3>1. socket = <<cb>>
      BY <2>2, <2>3, <2>7, Zenon
    <3> QED BY <2>1, <2>5, <2>7, <3>1, Zenon DEF Batches
  <2>8. CASE ~in /\ ~out
    <3>1. socket = <<>> /\ expiry = <<"onTimer">>
      BY <2>1, <2>2, <2>3, <2>8, Zenon
    <3>2. <<"onTimer">> \o <<>> = <<"onTimer">> /\ <<>> \o <<"onTimer">> = <<"onTimer">>
      OBVIOUS
    <3> QED BY <2>1, <2>8, <3>1, <3>2, Zenon DEF Batches
  <2> QED BY <2>4, <2>6, <2>7, <2>8 DEF Batches
<1>2. cb \in Callbacks /\ cb # "onTimer"
  BY DEF TypeOK, Callbacks
<1> HIDE DEF cb
<1>3. /\ tmp_tasks' \in Seq(Callbacks)
      /\ \A i \in 1 .. Len(tmp_tasks') :
           tmp_tasks'[i] = "connected" => cb = "connected"
      /\ \A i, j \in 1 .. Len(tmp_tasks') :
           tmp_tasks'[i] = "connected" /\ tmp_tasks'[j] = "connected" => i = j
      /\ \A i, j \in 1 .. Len(tmp_tasks') :
           tmp_tasks'[i] = "onTimer" /\ tmp_tasks'[j] = "onTimer" => i = j
  BY <1>1, <1>2, OncePerBatch
<1>4. Has("onread")' => "in" \in m_listen_events \/ cb = "onread"
  <2> SUFFICES ASSUME "in" \notin m_listen_events, cb # "onread"
               PROVE  ~Has("onread")'
    OBVIOUS
  <2>1. CASE tmp_tasks' = <<cb>> \/ tmp_tasks' = <<"onTimer">>
    <3>1. Len(tmp_tasks') = 1 /\ tmp_tasks'[1] # "onread"
      BY <2>1
    <3> QED BY <3>1 DEF Has
  <2>2. CASE tmp_tasks' = <<cb, "onTimer">> \/ tmp_tasks' = <<"onTimer", cb>>
    <3>1. /\ Len(tmp_tasks') = 2
          /\ tmp_tasks'[1] # "onread" /\ tmp_tasks'[2] # "onread"
      BY <2>2
    <3> QED BY <3>1 DEF Has
  <2> QED BY <1>1, <2>1, <2>2
<1>5. Has("connected")' => cb = "connected"
  BY <1>3 DEF Has
<1>6. OneConnected' /\ Once("onTimer")'
  BY <1>3 DEF OneConnected, Once
<1>7. Has("onTimer")' => timeout = "due"
  <2> SUFFICES ASSUME timeout # "due" PROVE ~Has("onTimer")'
    OBVIOUS
  <2>1. CASE tmp_tasks' = <<"onread">>
    BY <2>1 DEF Has
  <2>2. CASE tmp_tasks' = <<cb>>
    BY <1>2, <2>2 DEF Has
  <2>3. CASE tmp_tasks' = <<"onread", cb>>
    BY <1>2, <2>3 DEF Has
  <2> QED BY <1>1, <2>1, <2>2, <2>3
<1> QED BY <1>3, <1>4, <1>5, <1>6, <1>7 DEF cb

(* An error leaves a controller one, and says nothing of a cancel. *)
LEMMA ControllerFacts ==
  ASSUME NEW c \in Controllers, NEW code \in ErrorCodes
  PROVE  /\ SetError(c, code) \in Controllers
         /\ SetError(c, code).is_cancled = c.is_cancled
         /\ SetError(c, code).error_code = code
         /\ StartCancel(c) \in Controllers
         /\ StartCancel(c).is_cancled
BY DEF Controllers, SetError, StartCancel

LEMMA CodeFacts ==
  {"0", "ERROR_FAILED_SERIALIZE", "ERROR_RPC_CALL_TIMEOUT",
   "ERROR_RPC_CHANNEL_INIT"} \subseteq ErrorCodes
BY DEF ErrorCodes

-----------------------------------------------------------------------------
LEMMA InitInv == Init => Inv
<1> SUFFICES ASSUME Init PROVE Inv
  OBVIOUS
<1>1. TypeOK
  <2>1. tmp_tasks \in Seq(Callbacks)
    BY DEF Init
  <2>2. controller \in Controllers
    BY CodeFacts DEF Init, Controllers
  <2>3. /\ room \in 0 .. SendRoom /\ unread \in 0 .. 2 * MaxReplies
        /\ answered \in 0 .. 2 * MaxReplies /\ result \in 0 .. MaxReplies
    BY DEF Init
  <2> QED BY <2>1, <2>2, <2>3 DEF Init, TypeOK
<1>2. tmp_tasks = <<>> /\ Len(tmp_tasks) = 0
  BY DEF Init
<1>3. OneConnected /\ ~Has("connected") /\ ~Has("onread")
  BY <1>2 DEF OneConnected, Once, Has
<1>4. Facts
  BY <1>3 DEF Init, Facts, Connecting, Asked, Watched, Counted, Stopped
<1> QED BY <1>1, <1>4 DEF Inv

(* A step that leaves the batch alone. *)
LEMMA SameTasks ==
  ASSUME UNCHANGED tmp_tasks
  PROVE  /\ \A cb : (Has(cb)' <=> Has(cb)) /\ (Once(cb)' <=> Once(cb))
         /\ OneConnected' <=> OneConnected
BY DEF Has, OneConnected, Once

LEMMA NextInv == Inv /\ [Next]_vars => Inv'
<1> SUFFICES ASSUME Inv, [Next]_vars PROVE Inv'
  OBVIOUS
<1> USE DEF Inv, Facts, Connecting, Asked, Watched, Counted, Stopped,
            RunClosure, Islooping,
            thread, interest, dones, buffers, timer, caller, network, history,
            butPc, client
<1>1. CASE OnTimer
  <2>1. Run("onTimer") /\ TypeOK
    BY <1>1 DEF OnTimer
  <2>2. /\ tmp_tasks' \in Seq(Callbacks) /\ Has("onTimer") /\ OneConnected'
        /\ Has("connected")' => Has("connected")
        /\ Has("onread")' => Has("onread")
    BY <2>1, RunFacts DEF OneConnected
  <2>3. TypeOK'
    <3>1. CASE m_is_cancled
      BY <1>1, <2>2, <3>1 DEF OnTimer, TypeOK
    <3>2. CASE ~m_is_cancled
      <4>1. controller' \in Controllers
        <5>1. controller' = SetError(StartCancel(controller),
                                     "ERROR_RPC_CALL_TIMEOUT")
          BY <1>1, <3>2, Zenon DEF OnTimer
        <5>2. controller \in Controllers
          BY DEF TypeOK
        <5> QED BY <5>1, <5>2, CodeFacts, ControllerFacts
      <4> QED BY <1>1, <2>2, <3>2, <4>1 DEF OnTimer, TypeOK
    <3> QED BY <3>1, <3>2
  <2> QED BY <1>1, <2>2, <2>3 DEF OnTimer, Run, TypeOK
<1>2. CASE Connected
  <2>1. Run("connected") /\ TypeOK
    BY <1>2 DEF Connected
  <2>2. /\ tmp_tasks' \in Seq(Callbacks) /\ Has("connected") /\ OneConnected'
        /\ Has("connected")' => Has("connected")
        /\ Has("onread")' => Has("onread")
        /\ ~Has("connected")'
    BY <2>1, RunFacts DEF OneConnected
  <2>3. TypeOK'
    BY <1>2, <2>2 DEF Connected, writeMessage, TypeOK
  <2> QED BY <1>2, <2>2, <2>3 DEF Connected, writeMessage, Run, TypeOK
<1>3. CASE ConnectRefused
  <2>1. Run("connected") /\ TypeOK
    BY <1>3 DEF ConnectRefused
  <2>2. /\ tmp_tasks' \in Seq(Callbacks) /\ Has("connected") /\ OneConnected'
        /\ Has("connected")' => Has("connected")
        /\ Has("onread")' => Has("onread")
        /\ ~Has("connected")'
    BY <2>1, RunFacts DEF OneConnected
  <2>3. TypeOK'
    BY <1>3, <2>2 DEF ConnectRefused, TypeOK
  <2> QED BY <1>3, <2>2, <2>3 DEF ConnectRefused, Run, TypeOK
<1>4. CASE OnRead
  <2>1. Run("onread") /\ TypeOK
    BY <1>4 DEF OnRead
  <2>2. /\ tmp_tasks' \in Seq(Callbacks) /\ Has("onread") /\ OneConnected'
        /\ Has("connected")' => Has("connected")
        /\ Has("onread")' => Has("onread")
    BY <2>1, RunFacts DEF OneConnected
  <2>3. TypeOK'
    BY <1>4, <2>2 DEF OnRead, TypeOK
  <2> QED BY <1>4, <2>2, <2>3 DEF OnRead, Run, TypeOK
<1>5. CASE OnReadEnd
  <2>1. Run("onread") /\ TypeOK
    BY <1>5 DEF OnReadEnd
  <2>2. /\ tmp_tasks' \in Seq(Callbacks) /\ Has("onread") /\ OneConnected'
        /\ Has("connected")' => Has("connected")
        /\ Has("onread")' => Has("onread")
    BY <2>1, RunFacts DEF OneConnected
  <2>3. TypeOK'
    BY <1>5, <2>2 DEF OnReadEnd, TypeOK
  <2> QED BY <1>5, <2>2, <2>3 DEF OnReadEnd, Run, TypeOK
<1>6. CASE OnWrite
  <2>1. Run("onwrite") /\ TypeOK
    BY <1>6 DEF OnWrite
  <2>2. /\ tmp_tasks' \in Seq(Callbacks) /\ Has("onwrite") /\ OneConnected'
        /\ Has("connected")' => Has("connected")
        /\ Has("onread")' => Has("onread")
    BY <2>1, RunFacts DEF OneConnected
  <2>3. TypeOK'
    <3>1. CASE m_state = "Connect" /\ m_write_dones
      <4>1. m_out_buffer = 0
        BY <1>6, <3>1 DEF OnWrite, Run
      <4> QED BY <1>6, <2>2, <3>1, <4>1 DEF OnWrite, TypeOK
    <3>2. CASE m_state = "Connect" /\ ~m_write_dones
      BY <1>6, <2>2, <3>2 DEF OnWrite, TypeOK
    <3>3. CASE m_state # "Connect"
      BY <1>6, <2>2, <3>3 DEF OnWrite, TypeOK
    <3> QED BY <3>1, <3>2, <3>3
  <2> QED BY <1>6, <2>2, <2>3 DEF OnWrite, Run, TypeOK
<1>7. CASE EpollReturn
  <2>1. /\ tmp_tasks' \in Seq(Callbacks) /\ OneConnected'
        /\ Has("onread")' => "in" \in m_listen_events
        /\ Has("connected")' => m_write_callback = "connected"
    BY <1>7, ReturnFacts DEF TypeOK
  <2>2. TypeOK'
    BY <1>7, <2>1 DEF EpollReturn, TypeOK
  <2> QED BY <1>7, <2>1, <2>2 DEF EpollReturn, TypeOK
<1>8. CASE CallRefused
  <2>1. tmp_tasks' = tmp_tasks
    BY <1>8 DEF CallRefused
  <2>2. TypeOK'
    <3>1. controller' \in Controllers
      BY <1>8, CodeFacts, ControllerFacts DEF CallRefused, TypeOK
    <3> QED BY <1>8, <3>1 DEF CallRefused, TypeOK
  <2> QED BY <1>8, <2>1, <2>2, SameTasks
       DEF CallRefused, TypeOK
<1>9. CASE CallMethod
  <2>1. tmp_tasks' = tmp_tasks
    BY <1>9 DEF CallMethod
  <2>2. TypeOK'
    BY <1>9 DEF CallMethod, TypeOK
  <2> QED BY <1>9, <2>1, <2>2, SameTasks
       DEF CallMethod, TypeOK
<1>10. CASE ConnectAtOnce
  <2>1. tmp_tasks' = tmp_tasks
    BY <1>10 DEF ConnectAtOnce
  <2>2. TypeOK'
    BY <1>10 DEF ConnectAtOnce, writeMessage, TypeOK
  <2>3. tmp_tasks = <<>> /\ m_state = "NotConnected"
    BY <1>10 DEF ConnectAtOnce
  <2>4. ~Has("connected") /\ ~Has("onread")
    BY <2>3 DEF Has
  <2> QED BY <1>10, <2>1, <2>2, <2>3, <2>4, SameTasks
       DEF ConnectAtOnce, writeMessage, TypeOK
<1>11. CASE ConnectFails
  <2>1. tmp_tasks' = tmp_tasks
    BY <1>11 DEF ConnectFails
  <2>2. TypeOK'
    BY <1>11 DEF ConnectFails, TypeOK
  <2> QED BY <1>11, <2>1, <2>2, SameTasks
       DEF ConnectFails, TypeOK
<1>12. CASE ConnectLater
  <2>1. tmp_tasks' = tmp_tasks
    BY <1>12 DEF ConnectLater
  <2>2. TypeOK'
    BY <1>12 DEF ConnectLater, TypeOK
  <2> QED BY <1>12, <2>1, <2>2, SameTasks
       DEF ConnectLater, TypeOK
<1>13. CASE TestStop
  <2>1. tmp_tasks' = tmp_tasks
    BY <1>13 DEF TestStop
  <2>2. TypeOK'
    BY <1>13 DEF TestStop, TypeOK
  <2> QED BY <1>13, <2>1, <2>2, SameTasks
       DEF TestStop, TypeOK
<1>14. CASE EpollWait
  <2>1. tmp_tasks' = tmp_tasks
    BY <1>14 DEF EpollWait
  <2>2. TypeOK'
    BY <1>14 DEF EpollWait, TypeOK
  <2> QED BY <1>14, <2>1, <2>2, SameTasks
       DEF EpollWait, TypeOK
<1>15. CASE Reply
  <2>1. tmp_tasks' = tmp_tasks
    BY <1>15 DEF Reply
  <2>2. controller' \in Controllers
    <3>1. controller \in Controllers
      BY DEF TypeOK
    <3>2. controller' \in {controller, SetError(controller, "ERROR_FAILED_SERIALIZE")}
      BY <1>15, Zenon DEF Reply, ReadCallback, caller
    <3> QED BY <3>1, <3>2, CodeFacts, ControllerFacts
  <2>3. TypeOK'
    <3>1. TypeOK /\ Reply
      BY <1>15
    <3> HIDE DEF Inv, Facts, Connecting, Asked, Watched, Counted, Stopped
    <3>2. /\ m_is_cancled' \in BOOLEAN /\ m_stop_flag' \in BOOLEAN
          /\ replied' \in BOOLEAN /\ whole' \in BOOLEAN
      BY <3>1, Zenon DEF Reply, ReadCallback, TypeOK
    <3>3. /\ m_response' \in {"default", "filled"} /\ ran' \in Nat
          /\ result' \in 0 .. MaxReplies
      BY <3>1 DEF Reply, ReadCallback, TypeOK
    <3> QED BY <2>2, <3>1, <3>2, <3>3 DEF Reply, TypeOK
  <2> QED BY <1>15, <2>1, <2>3, SameTasks
       DEF Reply, ReadCallback, TypeOK
<1>16. CASE ReplyAgain
  <2>1. tmp_tasks' = tmp_tasks
    BY <1>16 DEF ReplyAgain
  <2>2. TypeOK'
    BY <1>16 DEF ReplyAgain, TypeOK
  <2> QED BY <1>16, <2>1, <2>2, SameTasks
       DEF ReplyAgain, TypeOK
<1>17. CASE RepliesEnd
  <2>1. tmp_tasks' = tmp_tasks
    BY <1>17 DEF RepliesEnd
  <2>2. TypeOK'
    BY <1>17 DEF RepliesEnd, TypeOK
  <2> QED BY <1>17, <2>1, <2>2, SameTasks
       DEF RepliesEnd, TypeOK
<1>18. CASE WriteAll
  <2>1. tmp_tasks' = tmp_tasks
    BY <1>18 DEF WriteAll
  <2>2. TypeOK'
    BY <1>18 DEF WriteAll, TypeOK
  <2> QED BY <1>18, <2>1, <2>2, SameTasks
       DEF WriteAll, TypeOK
<1>19. CASE WritePart
  <2>1. tmp_tasks' = tmp_tasks
    BY <1>19 DEF WritePart
  <2>2. TypeOK'
    BY <1>19 DEF WritePart, TypeOK
  <2> QED BY <1>19, <2>1, <2>2, SameTasks
       DEF WritePart, TypeOK
<1>20. CASE WriteBlocked
  <2>1. tmp_tasks' = tmp_tasks
    BY <1>20 DEF WriteBlocked
  <2>2. TypeOK'
    BY <1>20 DEF WriteBlocked, TypeOK
  <2> QED BY <1>20, <2>1, <2>2, SameTasks
       DEF WriteBlocked, TypeOK
<1>21. CASE WriteKilled
  <2>1. tmp_tasks' = tmp_tasks
    BY <1>21 DEF WriteKilled
  <2>2. TypeOK'
    BY <1>21 DEF WriteKilled, TypeOK
  <2> QED BY <1>21, <2>1, <2>2, SameTasks
       DEF WriteKilled, TypeOK
<1>22. CASE Dones
  <2>1. tmp_tasks' = tmp_tasks
    BY <1>22 DEF Dones, readMessage
  <2>2. TypeOK'
    <3>1. /\ m_listen_events' \subseteq {"in", "out"}
          /\ m_read_dones' \in BOOLEAN
      BY <1>22 DEF Dones, readMessage, TypeOK
    <3>2. /\ pc' = "loop" /\ m_write_dones' = FALSE
          /\ UNCHANGED <<m_stop_flag, tmp_tasks, m_state, m_write_callback,
                         buffers, timer, caller, network, whole, replied, ran>>
      BY <1>22, Zenon DEF Dones, readMessage
    <3>3. TypeOK
      OBVIOUS
    <3> HIDE DEF Inv, Facts, Connecting, Asked, Watched, Counted, Stopped
    <3>4. /\ m_write_dones' \in BOOLEAN /\ m_stop_flag' \in BOOLEAN
          /\ m_is_cancled' \in BOOLEAN /\ whole' \in BOOLEAN
          /\ replied' \in BOOLEAN
      BY <3>2, <3>3, Zenon DEF TypeOK
    <3>5. /\ tmp_tasks' \in Seq(Callbacks)
          /\ controller' \in Controllers /\ request' \in Requests
          /\ m_response' \in {"default", "filled"}
          /\ m_state' \in {"NotConnected", "Connect", "Closed"}
          /\ m_write_callback' \in {"none", "connected", "onwrite"}
      BY <3>2, <3>3, Zenon DEF TypeOK
    <3>6. /\ m_out_buffer' \in {0, RequestLen} /\ m_in_buffer' \in {0, 1}
          /\ result' \in 0 .. MaxReplies
          /\ room' \in 0 .. SendRoom
          /\ unread' \in 0 .. 2 * MaxReplies /\ answered' \in 0 .. 2 * MaxReplies
          /\ ran' \in Nat
      BY <3>2, <3>3, Zenon DEF TypeOK
    <3>7. /\ timeout' \in {"none", "pending", "due", "over"}
          /\ net' \in {"none", "inprogress", "ok", "refused"}
          /\ peer' \in {"open", "closed"}
          /\ pc' \in {"call", "connect", "test", "loop", "wait", "replies",
                      "write", "dones", "returned", "dead"}
      BY <3>2, <3>3, Zenon DEF TypeOK
    <3> QED BY <3>1, <3>4, <3>5, <3>6, <3>7 DEF TypeOK
  <2> QED BY <1>22, <2>1, <2>2, SameTasks
       DEF Dones, readMessage, TypeOK
<1>23. CASE NetConnects
  <2>1. tmp_tasks' = tmp_tasks
    BY <1>23 DEF NetConnects
  <2>2. TypeOK'
    BY <1>23 DEF NetConnects, TypeOK
  <2> QED BY <1>23, <2>1, <2>2, SameTasks
       DEF NetConnects, TypeOK
<1>24. CASE ServerReads
  <2>1. tmp_tasks' = tmp_tasks
    BY <1>24 DEF ServerReads
  <2>2. TypeOK'
    BY <1>24 DEF ServerReads, TypeOK
  <2> QED BY <1>24, <2>1, <2>2, SameTasks
       DEF ServerReads, TypeOK
<1>25. CASE ServerReplies
  <2>1. tmp_tasks' = tmp_tasks
    BY <1>25 DEF ServerReplies
  <2>2. TypeOK'
    BY <1>25 DEF ServerReplies, TypeOK
  <2> QED BY <1>25, <2>1, <2>2, SameTasks
       DEF ServerReplies, TypeOK
<1>26. CASE ServerCloses
  <2>1. tmp_tasks' = tmp_tasks
    BY <1>26 DEF ServerCloses
  <2>2. TypeOK'
    BY <1>26 DEF ServerCloses, TypeOK
  <2> QED BY <1>26, <2>1, <2>2, SameTasks
       DEF ServerCloses, TypeOK
<1>27. CASE TimerExpires
  <2>1. tmp_tasks' = tmp_tasks
    BY <1>27 DEF TimerExpires
  <2>2. TypeOK'
    BY <1>27 DEF TimerExpires, TypeOK
  <2> QED BY <1>27, <2>1, <2>2, SameTasks
       DEF TimerExpires, TypeOK
<1>28. CASE UNCHANGED vars
  <2>1. tmp_tasks' = tmp_tasks
    BY <1>28 DEF vars
  <2>2. TypeOK'
    BY <1>28 DEF vars, TypeOK
  <2> QED BY <1>28, <2>1, <2>2, SameTasks
       DEF vars
<1> QED BY <1>1, <1>2, <1>3, <1>4, <1>5, <1>6, <1>7, <1>8, <1>9,
          <1>10, <1>11, <1>12, <1>13, <1>14, <1>15, <1>16, <1>17, <1>18,
          <1>19, <1>20, <1>21, <1>22, <1>23, <1>24, <1>25, <1>26, <1>27,
          <1>28
        DEF Next, Client, Environment
(* Inv holds in every state. *)
LEMMA Invariance == Spec => []Inv
<1>1. Init => Inv
  BY InitInv
<1>2. Inv /\ [Next]_vars => Inv'
  BY NextInv
<1> QED BY <1>1, <1>2, PTL DEF Spec

-----------------------------------------------------------------------------
(* Every variable has its type. *)
THEOREM TypeCorrect == Spec => []TypeOK
<1>1. Inv => TypeOK
  BY DEF Inv
<1> QED BY <1>1, Invariance, PTL

(* Once the server was given the whole request and the loop sleeps, the    *)
(* client waits for the reply: onwrite's callbacks ran and were not lost   *)
(* to a full socket.                                                       *)
THEOREM ReplyAlwaysAwaited == Spec => []ReplyAwaited
<1>1. Inv => ReplyAwaited
  BY DEF Inv, Facts, Asked, Watched, ReplyAwaited
<1> QED BY <1>1, Invariance, PTL

(* Which steps settle a call: the others leave the controller, the timeout *)
(* and the history alone, and only take from the batch.                    *)
Quiet ==
  /\ UNCHANGED <<controller, replied, ran>>
  /\ timeout' = timeout
  /\ pc' = "call" => pc = "call"
  /\ pc = "returned" => pc' = "returned"
  /\ m_read_dones => m_read_dones'
  /\ Once("onTimer") => Once("onTimer")'
  /\ Has("onTimer")' => Has("onTimer")

LEMMA QuietRun ==
  ASSUME TypeOK, Connected \/ ConnectRefused \/ OnRead \/ OnReadEnd \/ OnWrite
  PROVE  Quiet
<1>1. PICK cb : Run(cb)
  BY DEF Connected, ConnectRefused, OnRead, OnReadEnd, OnWrite
<1>2. (Once("onTimer") => Once("onTimer")') /\ (Has("onTimer")' => Has("onTimer"))
  BY <1>1, RunFacts
<1>3. pc = "loop" /\ pc' \in {"loop", "replies", "write"}
  BY <1>1 DEF Run, Connected, ConnectRefused, OnRead, OnReadEnd, OnWrite
<1>4. UNCHANGED <<controller, replied, ran, timeout, m_read_dones>>
  BY DEF Connected, ConnectRefused, OnRead, OnReadEnd, OnWrite, writeMessage,
         timer, caller, history, dones
<1> QED BY <1>2, <1>3, <1>4 DEF Quiet

(* A step of the client outside the batch, or of its environment. *)
Elsewhere ==
  \/ ConnectAtOnce \/ ConnectFails \/ ConnectLater \/ TestStop \/ EpollWait
  \/ ReplyAgain \/ RepliesEnd \/ WriteAll \/ WritePart \/ WriteBlocked
  \/ WriteKilled \/ Dones \/ NetConnects \/ ServerReads \/ ServerReplies
  \/ ServerCloses \/ UNCHANGED vars

LEMMA QuietElsewhere ==
  ASSUME Elsewhere
  PROVE  Quiet
<1> USE DEF butPc, client, thread, interest, dones, buffers, timer, caller,
            network, history, vars
<1>1. CASE ConnectAtOnce \/ ConnectFails \/ ConnectLater \/ TestStop \/ EpollWait
  <2>1. UNCHANGED <<controller, replied, ran, timeout, m_read_dones, tmp_tasks>>
    BY <1>1 DEF ConnectAtOnce, ConnectFails, ConnectLater, TestStop, EpollWait,
                writeMessage
  <2>2. pc # "returned" /\ pc' # "call"
    BY <1>1 DEF ConnectAtOnce, ConnectFails, ConnectLater, TestStop, EpollWait
  <2> QED BY <2>1, <2>2, SameTasks DEF Quiet
<1>2. CASE ReplyAgain \/ RepliesEnd \/ WriteAll \/ WriteBlocked \/ WriteKilled
  <2>1. UNCHANGED <<controller, replied, ran, timeout, m_read_dones, tmp_tasks>>
    BY <1>2 DEF ReplyAgain, RepliesEnd, WriteAll, WriteBlocked, WriteKilled
  <2>2. pc # "returned" /\ pc' # "call"
    BY <1>2 DEF ReplyAgain, RepliesEnd, WriteAll, WriteBlocked, WriteKilled
  <2> QED BY <2>1, <2>2, SameTasks DEF Quiet
<1>3. CASE Dones
  <2>1. UNCHANGED <<controller, replied, ran, timeout, tmp_tasks>>
    BY <1>3 DEF Dones
  <2>2. pc = "dones" /\ pc' = "loop" /\ (m_read_dones => m_read_dones')
    BY <1>3 DEF Dones, readMessage
  <2> QED BY <2>1, <2>2, SameTasks DEF Quiet
<1>4. CASE WritePart \/ NetConnects \/ ServerReads \/ ServerReplies \/ ServerCloses
  <2>1. UNCHANGED <<controller, replied, ran, timeout, m_read_dones, tmp_tasks, pc>>
    BY <1>4 DEF WritePart, NetConnects, ServerReads, ServerReplies, ServerCloses
  <2> QED BY <2>1, SameTasks DEF Quiet
<1>5. CASE UNCHANGED vars
  <2>1. UNCHANGED <<controller, replied, ran, timeout, m_read_dones, tmp_tasks, pc>>
    BY <1>5
  <2> QED BY <2>1, SameTasks DEF Quiet
<1> QED BY <1>1, <1>2, <1>3, <1>4, <1>5 DEF Elsewhere

LEMMA StepKinds ==
  ASSUME Inv, [Next]_vars
  PROVE  \/ Quiet \/ OnTimer \/ EpollReturn \/ CallRefused \/ CallMethod
         \/ Reply \/ TimerExpires
<1>1. TypeOK
  BY DEF Inv
<1> QED BY <1>1, QuietRun, QuietElsewhere
        DEF Next, Client, Environment, Elsewhere

(* What the steps that settle a call do to it. *)
LEMMA OnTimerFacts ==
  ASSUME TypeOK, OnTimer
  PROVE  /\ pc = "loop" /\ pc' = "loop" /\ timeout' = "over"
         /\ UNCHANGED <<replied, m_read_dones>>
         /\ Has("onTimer") /\ (Once("onTimer") => Once("onTimer")' /\ ~Has("onTimer")')
         /\ m_is_cancled => UNCHANGED <<controller, ran>>
         /\ ~m_is_cancled => /\ controller'.is_cancled
                             /\ controller'.error_code = "ERROR_RPC_CALL_TIMEOUT"
                             /\ ran' = ran + 1
<1>1. Run("onTimer")
  BY DEF OnTimer
<1>2. Has("onTimer") /\ (Once("onTimer") => Once("onTimer")' /\ ~Has("onTimer")')
  BY <1>1, RunFacts
<1>3. /\ pc = "loop" /\ pc' = "loop" /\ timeout' = "over"
      /\ UNCHANGED <<replied, m_read_dones>>
      /\ m_is_cancled => UNCHANGED <<controller, ran>>
  BY DEF OnTimer, Run, dones
<1>4. CASE ~m_is_cancled
  <2>1. /\ controller' = SetError(StartCancel(controller), "ERROR_RPC_CALL_TIMEOUT")
        /\ ran' = ran + 1
    BY <1>4, Zenon DEF OnTimer, RunClosure
  <2>2. controller \in Controllers
    BY DEF TypeOK
  <2> QED BY <1>2, <1>3, <1>4, <2>1, <2>2, CodeFacts, ControllerFacts
<1> QED BY <1>2, <1>3, <1>4

LEMMA ReplyFacts ==
  ASSUME TypeOK, Reply
  PROVE  /\ pc = "replies" /\ pc' = "replies" /\ ~replied /\ replied' = m_read_dones
         /\ UNCHANGED <<tmp_tasks, timeout, m_read_dones>>
         /\ controller'.is_cancled = controller.is_cancled
         /\ m_read_dones =>
              /\ controller'.error_code \in {controller.error_code, "ERROR_FAILED_SERIALIZE"}
              /\ ran' = IF controller.is_cancled THEN ran + 1 ELSE ran
         /\ ~m_read_dones => UNCHANGED <<controller, ran>>
<1>1. /\ pc = "replies" /\ pc' = "replies" /\ ~replied /\ replied' = m_read_dones
      /\ UNCHANGED <<tmp_tasks, timeout, m_read_dones>>
      /\ ~m_read_dones => UNCHANGED <<controller, ran>>
  BY DEF Reply, dones
<1>2. CASE m_read_dones
  <2>1. /\ controller' \in {controller, SetError(controller, "ERROR_FAILED_SERIALIZE")}
        /\ ran' = IF controller.is_cancled THEN ran + 1 ELSE ran
    BY <1>2, Zenon DEF Reply, ReadCallback, RunClosure
  <2>2. controller \in Controllers
    BY DEF TypeOK
  <2> QED BY <1>1, <1>2, <2>1, <2>2, CodeFacts, ControllerFacts
<1> QED BY <1>1, <1>2

LEMMA RefusedFacts ==
  ASSUME TypeOK, CallRefused
  PROVE  /\ pc = "call" /\ pc' = "returned"
         /\ UNCHANGED <<tmp_tasks, timeout, m_read_dones, replied, ran>>
         /\ controller'.is_cancled = controller.is_cancled
         /\ controller'.error_code \in {"ERROR_RPC_CHANNEL_INIT", "ERROR_FAILED_SERIALIZE"}
<1>1. PICK code \in {"ERROR_RPC_CHANNEL_INIT", "ERROR_FAILED_SERIALIZE"} :
        controller' = SetError(controller, code)
  BY DEF CallRefused
<1>2. controller \in Controllers
  BY DEF TypeOK
<1>3. /\ pc = "call" /\ pc' = "returned"
      /\ UNCHANGED <<tmp_tasks, timeout, m_read_dones, replied, ran>>
  BY DEF CallRefused, dones, timer, history
<1> QED BY <1>1, <1>2, <1>3, CodeFacts, ControllerFacts

LEMMA TimedInit == Init => Timed
<1> SUFFICES ASSUME Init PROVE Timed
  OBVIOUS
<1>1. tmp_tasks = <<>> /\ Len(tmp_tasks) = 0
  BY DEF Init
<1>2. Once("onTimer") /\ ~Has("onTimer")
  BY <1>1 DEF Once, Has
<1> QED BY <1>2 DEF Init, Timed

LEMMA TimedStep == Inv /\ Timed /\ [Next]_vars => Timed'
<1> SUFFICES ASSUME Inv, Timed, [Next]_vars PROVE Timed'
  OBVIOUS
<1>0. TypeOK
  BY DEF Inv
<1>1. CASE Quiet
  BY <1>1 DEF Quiet, Timed
<1>2. CASE OnTimer
  <2>1. m_is_cancled => UNCHANGED controller
    BY <1>0, <1>2, OnTimerFacts
  <2>2. ~m_is_cancled => controller'.is_cancled
    BY <1>0, <1>2, OnTimerFacts
  <2> QED BY <1>0, <1>2, <2>1, <2>2, OnTimerFacts DEF Timed
<1>3. CASE EpollReturn
  <2>1. Once("onTimer")' /\ (Has("onTimer")' => timeout = "due")
    BY <1>0, <1>3, ReturnFacts
  <2>2. /\ UNCHANGED <<controller, replied, timeout, m_read_dones>>
        /\ pc = "wait" /\ pc' = "test"
    BY <1>3 DEF EpollReturn, dones, timer, caller, history
  <2> QED BY <2>1, <2>2 DEF Timed
<1>4. CASE CallRefused
  BY <1>0, <1>4, RefusedFacts, SameTasks DEF Timed
<1>5. CASE CallMethod
  <2>1. /\ pc = "call" /\ pc' = "connect" /\ timeout' = "pending"
        /\ UNCHANGED <<controller, replied, m_read_dones, tmp_tasks>>
    BY <1>5 DEF CallMethod, dones, caller, history
  <2> QED BY <2>1, SameTasks DEF Timed
<1>6. CASE Reply
  BY <1>0, <1>6, ReplyFacts, SameTasks DEF Timed
<1>7. CASE TimerExpires
  <2>1. /\ timeout = "pending" /\ timeout' = "due"
        /\ UNCHANGED <<controller, replied, m_read_dones, tmp_tasks, pc>>
    BY <1>7 DEF TimerExpires, thread, dones, caller, history
  <2> QED BY <2>1, SameTasks DEF Timed
<1> QED BY <1>1, <1>2, <1>3, <1>4, <1>5, <1>6, <1>7, StepKinds

(* Every step of the client, its timer and its socket is a step of the     *)
(* abstract call, or none of its business.                                 *)
LEMMA OutcomeStep ==
  Inv /\ Timed /\ [Next]_vars =>
    [Outcome!Next]_<<Settled, controller.error_code, ran>>
<1> SUFFICES ASSUME Inv, Timed, [Next]_vars
             PROVE  \/ Outcome!Next
                    \/ UNCHANGED <<Settled, controller.error_code, ran>>
  BY Zenon
<1>0. /\ TypeOK /\ replied \in BOOLEAN /\ replied' \in BOOLEAN
      /\ controller.is_cancled \in BOOLEAN /\ ran \in Nat
  BY NextInv DEF Inv, TypeOK, Controllers
<1>1. ASSUME UNCHANGED <<controller, replied, ran>>
      PROVE  UNCHANGED <<Settled, controller.error_code, ran>>
  BY <1>1 DEF Settled
<1>2. CASE Quiet \/ EpollReturn \/ CallMethod \/ TimerExpires
  <2>1. UNCHANGED <<controller, replied, ran>>
    BY <1>2 DEF Quiet, EpollReturn, CallMethod, TimerExpires, caller, history
  <2> QED BY <1>1, <2>1
<1>3. CASE OnTimer /\ m_is_cancled
  <2>1. UNCHANGED <<controller, replied, ran>>
    BY <1>0, <1>3, OnTimerFacts
  <2> QED BY <1>1, <2>1
<1>4. CASE OnTimer /\ ~m_is_cancled
  <2>1. ~replied /\ ~replied'
    BY <1>0, <1>4, OnTimerFacts DEF Inv, Facts, Stopped
  <2>2. timeout = "due" /\ pc = "loop"
    BY <1>0, <1>4, OnTimerFacts DEF Timed
  <2>3. ~controller.is_cancled /\ controller.error_code = "0"
    BY <2>1, <2>2 DEF Timed
  <2>4. Settled = "open"
    BY <2>1, <2>3 DEF Settled
  <2>5. /\ controller'.is_cancled /\ ran' = ran + 1
        /\ controller'.error_code = "ERROR_RPC_CALL_TIMEOUT"
    BY <1>0, <1>4, OnTimerFacts
  <2>6. Settled' = "cancelled"
    BY <2>1, <2>5 DEF Settled
  <2> QED BY <2>4, <2>5, <2>6 DEF Outcome!Next, Outcome!TimeOut
<1>5. CASE CallRefused
  <2>1. pc = "call" /\ UNCHANGED <<replied, ran>>
    BY <1>0, <1>5, RefusedFacts
  <2>2. ~replied /\ ~controller.is_cancled
    BY <2>1 DEF Timed, Inv, Facts, Connecting
  <2>3. Settled = "open"
    BY <2>1, <2>2 DEF Settled, Timed
  <2>4. /\ ~controller'.is_cancled
        /\ controller'.error_code \in {"ERROR_RPC_CHANNEL_INIT", "ERROR_FAILED_SERIALIZE"}
    BY <1>0, <1>5, <2>2, RefusedFacts
  <2>5. Settled' = "refused"
    BY <2>1, <2>2, <2>4 DEF Settled
  <2> QED BY <2>1, <2>3, <2>4, <2>5 DEF Outcome!Next, Outcome!Refuse
<1>6. CASE Reply /\ ~m_read_dones
  <2>1. UNCHANGED <<controller, replied, ran>>
    BY <1>0, <1>6, ReplyFacts
  <2> QED BY <1>1, <2>1
<1>7. CASE Reply /\ m_read_dones
  <2>1. /\ pc = "replies" /\ ~replied /\ replied'
        /\ controller'.is_cancled = controller.is_cancled
        /\ controller'.error_code \in {controller.error_code, "ERROR_FAILED_SERIALIZE"}
        /\ ran' = IF controller.is_cancled THEN ran + 1 ELSE ran
    BY <1>0, <1>7, ReplyFacts
  <2>2. CASE controller.is_cancled
    <3>1. Settled = "cancelled" /\ Settled' = "late" /\ ran' = ran + 1
      BY <2>1, <2>2 DEF Settled
    <3> QED BY <2>1, <3>1 DEF Outcome!Next, Outcome!LateReply, Outcome!Tell
  <2>3. CASE ~controller.is_cancled
    <3>1. controller.error_code = "0"
      BY <2>1, <2>3 DEF Timed
    <3>2. Settled = "open" /\ Settled' = "replied" /\ ran' = ran
      BY <2>1, <2>3, <3>1 DEF Settled
    <3> QED BY <2>1, <3>2 DEF Outcome!Next, Outcome!Reply, Outcome!Tell
  <2> QED BY <2>2, <2>3
<1> QED BY <1>2, <1>3, <1>4, <1>5, <1>6, <1>7, StepKinds

(* The client, its timer and its socket implement the abstract call: it is *)
(* settled once, by a refusal, a reply or the timeout (rpc_channel.cc,     *)
(* lines 65, 74 and 95; timer.cc, line 123), whatever order epoll_wait     *)
(* found them in, and its closure runs for the timeout and a late reply.   *)
THEOREM CallRefinement == Spec => OutcomeSpec
<1>1. Init => Outcome!Init
  BY DEF Init, Outcome!Init, Settled
<1> QED BY <1>1, TimedInit, TimedStep, OutcomeStep, Invariance, PTL
        DEF Spec, OutcomeSpec, Outcome!Spec

-----------------------------------------------------------------------------
(* What a call came to, the code its caller is left with and the number of *)
(* times its closure ran belong together: the closure of a call that was   *)
(* replied to, or refused, has not run; a cancelled one has run it once, a *)
(* late reply has run it a second time (rpc_channel.cc, lines 88, 95, 98). *)
CallAccounted == Outcome!Accounted

LEMMA AccountedStep ==
  CallAccounted /\ [Outcome!Next]_<<Settled, controller.error_code, ran>> => CallAccounted'
<1> SUFFICES ASSUME CallAccounted, [Outcome!Next]_<<Settled, controller.error_code, ran>>
             PROVE  CallAccounted'
  OBVIOUS
<1> USE DEF CallAccounted, Outcome!Accounted
<1>1. CASE Outcome!Refuse
  BY <1>1 DEF Outcome!Refuse
<1>2. CASE Outcome!Reply
  BY <1>2 DEF Outcome!Reply, Outcome!Tell
<1>3. CASE Outcome!TimeOut
  BY <1>3 DEF Outcome!TimeOut
<1>4. CASE Outcome!LateReply
  BY <1>4 DEF Outcome!LateReply, Outcome!Tell
<1>5. CASE UNCHANGED <<Settled, controller.error_code, ran>>
  BY <1>5
<1> QED BY <1>1, <1>2, <1>3, <1>4, <1>5 DEF Outcome!Next

(* The abstract call keeps its accounts, and so does the client that       *)
(* implements it.                                                          *)
THEOREM ClosureRuns == Spec => []CallAccounted
<1>1. Outcome!Init => CallAccounted
  BY DEF Outcome!Init, CallAccounted, Outcome!Accounted
<1> QED BY <1>1, AccountedStep, CallRefinement, PTL DEF OutcomeSpec, Outcome!Spec

(* The timeout of a call that is not settled is still to come, and nobody  *)
(* cancelled it: the safety half of CallSettles.                           *)
StillTimed ==
  InLoop /\ Settled = "open" => timeout \in {"pending", "due"} /\ ~m_is_cancled

(* The timeout is there from CallMethod on; the reply cancels it, and what *)
(* took it out of the timer cancelled the call or found it cancelled.      *)
Ticking ==
  /\ timeout = "none" => pc \in {"call", "returned"}
  /\ timeout = "over" => controller.is_cancled \/ m_is_cancled
  /\ m_is_cancled => replied

LEMMA TickingStep == Inv /\ Timed /\ Ticking /\ [Next]_vars => Ticking'
<1> SUFFICES ASSUME Inv, Timed, Ticking, [Next]_vars PROVE Ticking'
  OBVIOUS
<1> USE DEF butPc, client, thread, interest, dones, buffers, timer, caller,
            network, history, vars
<1>0. TypeOK
  BY DEF Inv
<1>1. ASSUME UNCHANGED <<m_is_cancled, timeout, controller, replied>>,
             pc = "call" \/ pc = "returned" => pc' = "returned" \/ pc' = pc
      PROVE  Ticking'
  BY <1>1 DEF Ticking
<1>2. CASE Connected \/ ConnectRefused \/ OnRead \/ OnReadEnd \/ OnWrite
  <2>1. UNCHANGED <<m_is_cancled, timeout, controller, replied>> /\ pc = "loop"
    BY <1>2 DEF Connected, ConnectRefused, OnRead, OnReadEnd, OnWrite, Run,
                writeMessage
  <2> QED BY <1>1, <2>1
<1>3. CASE ConnectAtOnce \/ ConnectFails \/ ConnectLater \/ TestStop \/ EpollWait
           \/ EpollReturn \/ ReplyAgain \/ RepliesEnd \/ WriteAll \/ WriteBlocked
           \/ WriteKilled \/ Dones
  <2>1. UNCHANGED <<m_is_cancled, timeout, controller, replied>>
    BY <1>3 DEF ConnectAtOnce, ConnectFails, ConnectLater, TestStop, EpollWait,
       EpollReturn, ReplyAgain, RepliesEnd, WriteAll, WriteBlocked, WriteKilled,
       Dones, writeMessage, readMessage
  <2>2. pc \notin {"call", "returned"}
    BY <1>3 DEF ConnectAtOnce, ConnectFails, ConnectLater, TestStop, EpollWait,
       EpollReturn, ReplyAgain, RepliesEnd, WriteAll, WriteBlocked, WriteKilled,
       Dones
  <2> QED BY <1>1, <2>1, <2>2
<1>4. CASE WritePart \/ NetConnects \/ ServerReads \/ ServerReplies \/ ServerCloses
           \/ UNCHANGED vars
  <2>1. UNCHANGED <<m_is_cancled, timeout, controller, replied, pc>>
    BY <1>4 DEF WritePart, NetConnects, ServerReads, ServerReplies, ServerCloses
  <2> QED BY <1>1, <2>1
<1>5. CASE OnTimer
  <2>1. m_is_cancled' = m_is_cancled
    BY <1>5 DEF OnTimer
  <2> QED BY <1>0, <1>5, <2>1, OnTimerFacts DEF Ticking
<1>6. CASE CallRefused
  <2>1. m_is_cancled' = m_is_cancled
    BY <1>6 DEF CallRefused
  <2>2. timeout' = "none"
    BY <1>0, <1>6, RefusedFacts DEF Timed
  <2> QED BY <1>0, <1>6, <2>1, <2>2, RefusedFacts DEF Ticking
<1>7. CASE CallMethod
  <2>1. /\ m_is_cancled' = m_is_cancled /\ replied' = replied /\ timeout' = "pending"
    BY <1>7 DEF CallMethod
  <2> QED BY <2>1 DEF Ticking
<1>8. CASE Reply
  <2>1. m_is_cancled' = IF m_read_dones THEN TRUE ELSE m_is_cancled
    BY <1>8, Zenon DEF Reply, ReadCallback
  <2> QED BY <1>0, <1>8, <2>1, ReplyFacts DEF Ticking
<1>9. CASE TimerExpires
  <2>1. /\ UNCHANGED <<m_is_cancled, replied>> /\ timeout' = "due"
    BY <1>9 DEF TimerExpires
  <2> QED BY <2>1 DEF Ticking
<1> QED BY <1>2, <1>3, <1>4, <1>5, <1>6, <1>7, <1>8, <1>9
        DEF Next, Client, Environment

(* An open call in the loop can always still be timed out: whatever else   *)
(* happens to the connection, the loop does not wait for ever.             *)
THEOREM CallStaysTimed == Spec => []StillTimed
<1>1. Init => Ticking
  BY DEF Init, Ticking
<1>2. Inv /\ Timed /\ Ticking => StillTimed
  <2> SUFFICES ASSUME Inv, Timed, Ticking, InLoop, Settled = "open"
               PROVE  timeout \in {"pending", "due"} /\ ~m_is_cancled
    BY DEF StillTimed
  <2>1. /\ timeout \in {"none", "pending", "due", "over"}
        /\ replied \in BOOLEAN /\ controller.is_cancled \in BOOLEAN
    BY DEF Inv, TypeOK, Controllers
  <2>2. ~replied /\ ~controller.is_cancled
    BY <2>1 DEF Settled
  <2> QED BY <2>1, <2>2 DEF Ticking, InLoop
<1> QED BY <1>1, <1>2, Invariance, TimedInit, TimedStep, TickingStep, PTL DEF Spec

(* Until the server was given the whole request, the connection failed or  *)
(* was closed, the socket is watched for output, its handler is the one    *)
(* that the state of the connection calls for, and the request is there to *)
(* be written: the safety half of RequestWritten.                          *)
WriteUnderWay ==
  InLoop /\ ~whole /\ net \in {"inprogress", "ok"} /\ m_state # "Closed" =>
    /\ "out" \in m_listen_events
    /\ m_write_callback = IF m_state = "Connect" THEN "onwrite" ELSE "connected"
    /\ m_state = "Connect" => m_write_dones \/ m_out_buffer = RequestLen

(* Once connected, the request is queued or encoded; onwrite has encoded    *)
(* it when it writes.                                                      *)
Encoded ==
  /\ m_state = "Connect" => m_write_dones \/ m_out_buffer = RequestLen
  /\ pc \in {"write", "dones"} => m_out_buffer = RequestLen

Writing == WriteUnderWay /\ Encoded

LEMMA WritingStep == Inv /\ Writing /\ [Next]_vars => Writing'
<1> SUFFICES ASSUME Inv, Writing, [Next]_vars PROVE Writing'
  OBVIOUS
<1> USE DEF butPc, client, thread, interest, dones, buffers, timer, caller,
            network, history, vars, Writing, WriteUnderWay, Encoded, InLoop
<1>0. /\ pc \in {"write", "dones"} => m_state = "Connect"
      /\ m_state = "NotConnected" => ~whole
      /\ pc \in {"call", "connect"} => m_state = "NotConnected"
      /\ m_write_callback = "connected" => m_state = "NotConnected"
      /\ m_write_dones => m_out_buffer = 0 \/ pc \in {"write", "dones", "dead"}
      /\ RequestLen \in Nat \ {0} /\ m_out_buffer \in {0, RequestLen}
      /\ m_write_dones \in BOOLEAN
  <2>1. /\ RequestLen \in Nat \ {0} /\ m_out_buffer \in {0, RequestLen}
        /\ m_write_dones \in BOOLEAN
    <3>1. m_write_dones \in BOOLEAN /\ m_out_buffer \in {0, RequestLen}
      BY Zenon DEF Inv, TypeOK
    <3> QED BY <3>1, CallAssumption
  <2>2. Connecting /\ Asked /\ Counted
    BY DEF Inv, Facts
  <2>3. /\ pc \in {"write", "dones"} => m_state = "Connect"
        /\ whole => m_state # "NotConnected"
        /\ m_write_dones => m_out_buffer = 0 \/ pc \in {"write", "dones", "dead"}
    <3>1. whole => m_read_dones \/ pc = "dones"
      BY <2>2, Zenon DEF Asked
    <3>2. m_state = "NotConnected" => ~m_read_dones
      BY <2>2, Zenon DEF Connecting
    <3> QED BY <2>2, <3>1, <3>2 DEF Asked, Counted
  <2> QED BY <2>1, <2>2, <2>3 DEF Connecting
<1>1. ASSUME UNCHANGED <<m_state, interest, m_write_dones, m_out_buffer, whole, net>>,
             InLoop' => InLoop, pc' \in {"write", "dones"} => pc \in {"write", "dones"}
      PROVE  Writing'
  BY <1>1
<1>2. CASE OnTimer \/ OnRead \/ EpollReturn \/ TestStop \/ EpollWait \/ ReplyAgain
           \/ RepliesEnd \/ WriteKilled \/ Reply \/ WriteBlocked
  <2>1. UNCHANGED <<m_state, interest, m_write_dones, m_out_buffer, whole, net>>
    BY <1>2 DEF OnTimer, OnRead, EpollReturn, TestStop, EpollWait, ReplyAgain,
       RepliesEnd, WriteKilled, Reply, WriteBlocked
  <2>2. InLoop /\ (pc' \in {"write", "dones"} => pc \in {"write", "dones"})
    BY <1>2 DEF OnTimer, OnRead, EpollReturn, TestStop, EpollWait, ReplyAgain,
       RepliesEnd, WriteKilled, Reply, WriteBlocked, Run
  <2> QED BY <1>1, <2>1, <2>2
<1>3. CASE CallRefused \/ CallMethod \/ ConnectFails
  <2>1. ~InLoop' /\ pc' \notin {"write", "dones"} /\ m_state' = m_state
    BY <1>3 DEF CallRefused, CallMethod, ConnectFails
  <2>2. pc \in {"call", "connect"}
    BY <1>3 DEF CallRefused, CallMethod, ConnectFails
  <2> QED BY <1>0, <2>1, <2>2
<1>4. CASE ConnectAtOnce
  BY <1>4 DEF ConnectAtOnce, writeMessage
<1>5. CASE ConnectLater
  BY <1>0, <1>5 DEF ConnectLater
<1>6. CASE Connected
  BY <1>0, <1>6 DEF Connected, Run, writeMessage
<1>7. CASE ConnectRefused
  BY <1>0, <1>7 DEF ConnectRefused, Run
<1>8. CASE OnReadEnd
  BY <1>0, <1>8 DEF OnReadEnd, Run
<1>9. CASE OnWrite
  <2>1. /\ UNCHANGED <<m_state, interest, m_write_dones, whole, net>> /\ pc = "loop"
    BY <1>9 DEF OnWrite, Run
  <2>2. CASE m_state = "Connect"
    <3>1. pc' = "write" /\ m_out_buffer' = m_out_buffer + (IF m_write_dones THEN RequestLen ELSE 0)
      BY <1>9, <2>2 DEF OnWrite
    <3>2. CASE m_write_dones
      BY <1>0, <2>1, <2>2, <3>1, <3>2
    <3>3. CASE ~m_write_dones
      BY <1>0, <2>1, <2>2, <3>1, <3>3
    <3> QED BY <3>2, <3>3
  <2>3. CASE m_state # "Connect"
    BY <1>9, <2>1, <2>3 DEF OnWrite
  <2> QED BY <2>2, <2>3
<1>10. CASE WriteAll
  BY <1>0, <1>10 DEF WriteAll
<1>11. CASE Dones
  BY <1>0, <1>11 DEF Dones, readMessage
<1>12. CASE WritePart \/ ServerReads \/ ServerReplies \/ ServerCloses \/ TimerExpires
            \/ UNCHANGED vars
  <2>1. UNCHANGED <<m_state, interest, m_write_dones, m_out_buffer, whole, net, pc>>
    BY <1>12 DEF WritePart, ServerReads, ServerReplies, ServerCloses, TimerExpires
  <2> QED BY <1>1, <2>1
<1>13. CASE NetConnects
  BY <1>0, <1>13 DEF NetConnects
<1> QED BY <1>2, <1>3, <1>4, <1>5, <1>6, <1>7, <1>8, <1>9, <1>10, <1>11, <1>12, <1>13
        DEF Next, Client, Environment

(* A full socket never leaves the request stranded: what is not written    *)
(* yet is queued or encoded, and the loop is told when to go on with it.   *)
THEOREM RequestStaysUnderWay == Spec => []WriteUnderWay
<1>1. Init => Writing
  BY DEF Init, Writing, WriteUnderWay, Encoded, InLoop
<1>2. Writing => WriteUnderWay
  BY DEF Writing
<1> QED BY <1>1, <1>2, Invariance, WritingStep, PTL DEF Spec

(* The stop flag is set by RunClosure alone, and Islooping keeps it from   *)
(* that (tcp_client.cc, line 92): a call that got into the loop is not     *)
(* returned from, also when it is settled and its closure ran.             *)
LoopNeverReturns == [][pc \notin {"call", "connect", "returned"} => pc' # "returned"]_vars

LEMMA FlagStep == ~m_stop_flag /\ Next => ~m_stop_flag'
<1> SUFFICES ASSUME ~m_stop_flag, Next PROVE ~m_stop_flag'
  OBVIOUS
<1> USE DEF butPc, client, thread, RunClosure, Islooping
<1>1. CASE OnTimer \/ Reply
  BY <1>1, Zenon DEF OnTimer, Reply, ReadCallback
<1>2. CASE Connected \/ ConnectRefused \/ OnRead \/ OnReadEnd \/ OnWrite \/ EpollReturn
           \/ CallRefused \/ CallMethod \/ ConnectAtOnce \/ ConnectFails \/ ConnectLater
  BY <1>2 DEF Connected, ConnectRefused, OnRead, OnReadEnd, OnWrite, EpollReturn,
     CallRefused, CallMethod, ConnectAtOnce, ConnectFails, ConnectLater
<1>3. CASE TestStop \/ EpollWait \/ ReplyAgain \/ RepliesEnd \/ WriteAll \/ WriteBlocked
           \/ WriteKilled \/ Dones \/ WritePart
  BY <1>3 DEF TestStop, EpollWait, ReplyAgain, RepliesEnd, WriteAll, WriteBlocked,
     WriteKilled, Dones, WritePart
<1>4. CASE NetConnects \/ ServerReads \/ ServerReplies \/ ServerCloses \/ TimerExpires
  BY <1>4 DEF NetConnects, ServerReads, ServerReplies, ServerCloses, TimerExpires
<1> QED BY <1>1, <1>2, <1>3, <1>4 DEF Next, Client, Environment

LEMMA ReturnStep ==
  ASSUME ~m_stop_flag, Next, pc \notin {"call", "connect", "returned"}
  PROVE  pc' # "returned"
<1> USE DEF butPc, client, thread
<1>1. CASE OnTimer \/ Reply \/ Connected \/ ConnectRefused \/ OnRead \/ OnReadEnd \/ OnWrite
           \/ EpollReturn
  BY <1>1 DEF OnTimer, Reply, Connected, ConnectRefused, OnRead, OnReadEnd, OnWrite,
     EpollReturn, Run
<1>2. CASE CallRefused \/ CallMethod \/ ConnectAtOnce \/ ConnectFails \/ ConnectLater
  BY <1>2 DEF CallRefused, CallMethod, ConnectAtOnce, ConnectFails, ConnectLater
<1>3. CASE TestStop \/ EpollWait \/ ReplyAgain \/ RepliesEnd \/ WriteAll \/ WriteBlocked
           \/ WriteKilled \/ Dones \/ WritePart
  BY <1>3 DEF TestStop, EpollWait, ReplyAgain, RepliesEnd, WriteAll, WriteBlocked,
     WriteKilled, Dones, WritePart
<1>4. CASE NetConnects \/ ServerReads \/ ServerReplies \/ ServerCloses \/ TimerExpires
  BY <1>4 DEF NetConnects, ServerReads, ServerReplies, ServerCloses, TimerExpires
<1> QED BY <1>1, <1>2, <1>3, <1>4 DEF Next, Client, Environment

THEOREM CallNeverReturns == Spec => LoopNeverReturns
<1>1. Init => ~m_stop_flag
  BY DEF Init
<1>2. ~m_stop_flag /\ [Next]_vars => ~m_stop_flag'
  BY FlagStep DEF vars, thread
<1>3. ~m_stop_flag /\ [Next]_vars =>
        [pc \notin {"call", "connect", "returned"} => pc' # "returned"]_vars
  BY ReturnStep
<1> QED BY <1>1, <1>2, <1>3, PTL DEF Spec, LoopNeverReturns

-----------------------------------------------------------------------------
(* dispatch reports no error exactly if every check of it succeeds. *)
LEMMA DispatchSucceeds ==
  ASSUME NEW r
  PROVE  dispatch(r) = "0" <=> \A i \in 1 .. 5 : Checks(r)[i].ok
<1> DEFINE failed == {i \in 1 .. 5 : ~Checks(r)[i].ok}
<1>1. \A i \in 1 .. 5 : Checks(r)[i].code # "0"
  BY DEF Checks
<1>2. dispatch(r) = IF failed = {} THEN "0" ELSE Checks(r)[Min(failed)].code
  BY Zenon DEF dispatch
<1>3. failed # {} => Min(failed) \in 1 .. 5
  <2>1. SUFFICES ASSUME failed # {}
                 PROVE  \E x \in failed : \A y \in failed : x =< y
    BY DEF Min
  <2> HIDE DEF failed
  <2>2. failed \subseteq 1 .. 5
    BY DEF failed
  <2>3. failed # {} => \/ 1 \in failed \/ 2 \in failed \/ 3 \in failed
                      \/ 4 \in failed \/ 5 \in failed
    <3>1. \A n \in 1 .. 5 : n = 1 \/ n = 2 \/ n = 3 \/ n = 4 \/ n = 5
      OBVIOUS
    <3> QED BY <2>2, <3>1, Zenon
  <2>4. ASSUME NEW n \in 1 .. 5, n \in failed,
               \A m \in 1 .. 5 : m < n => m \notin failed
        PROVE  \E x \in failed : \A y \in failed : x =< y
    <3>1. \A y \in failed : y \in 1 .. 5 /\ ~(y < n)
      BY <2>2, <2>4
    <3>2. \A y \in 1 .. 5 : ~(y < n) => n =< y
      OBVIOUS
    <3>3. \A y \in failed : n =< y
      BY <3>1, <3>2, Zenon
    <3> QED BY <2>4, <3>3, Zenon
  <2>5. \A m \in 1 .. 5 : /\ ~(m < 1)
                          /\ m < 2 => m = 1
                          /\ m < 3 => m = 1 \/ m = 2
                          /\ m < 4 => m = 1 \/ m = 2 \/ m = 3
                          /\ m < 5 => m = 1 \/ m = 2 \/ m = 3 \/ m = 4
    OBVIOUS
  <2>6. 1 \in 1 .. 5 /\ 2 \in 1 .. 5 /\ 3 \in 1 .. 5 /\ 4 \in 1 .. 5 /\ 5 \in 1 .. 5
    OBVIOUS
  <2>7. \E n \in failed : n \in 1 .. 5 /\ \A m \in 1 .. 5 : m < n => m \notin failed
    BY <2>1, <2>3, <2>5, <2>6, Zenon
  <2> QED BY <2>4, <2>7, Zenon
<1>4. failed = {} <=> \A i \in 1 .. 5 : Checks(r)[i].ok
  BY Zenon
<1> QED BY <1>1, <1>2, <1>3, <1>4, Zenon

(* A service of a package is never found: its full name, the key it is     *)
(* registered with (rpc_dispatcher.cc, lines 90 and 91), has more than one *)
(* part, and the name that dispatch looks for ends at the first dot (line  *)
(* 95).  Every call of it is answered with an error.                       *)
THEOREM PackagedNeverServed ==
  ASSUME NEW r \in Requests, Len(r.method_name) > 2,
         \A s \in DOMAIN m_service_map : \A m \in m_service_map[s] : Len(m) = 1
  PROVE  dispatch(r) # "0"
<1> DEFINE name == parseServiceFullname(r.method_name)
<1>1. r.method_name \in Seq(STRING)
  BY CallAssumption
<1>2. Len(name.method_name) # 1
  <2>1. name.method_name = SubSeq(r.method_name, 2, Len(r.method_name))
    BY DEF parseServiceFullname
  <2>2. Len(r.method_name) \in Nat
    BY <1>1
  <2>3. Len(SubSeq(r.method_name, 2, Len(r.method_name))) = Len(r.method_name) - 1
    BY <1>1, <2>2, SubSeqProperties
  <2> QED BY <2>1, <2>2, <2>3
<1>3. name.method_name \notin MethodsOf(name.service_name)
  <2> HIDE DEF name
  <2>1. MethodsOf(name.service_name) = {}
        \/ \A m \in MethodsOf(name.service_name) : Len(m) = 1
    BY Zenon DEF MethodsOf
  <2> QED BY <1>2, <2>1, Zenon
<1>4. ~Checks(r)[3].ok
  BY <1>3 DEF Checks
<1> QED BY <1>4, DispatchSucceeds
=============================================================================
