---------------------------- MODULE LoggerProofs ----------------------------
(***************************************************************************)
(* Theorems about Logger, for any set of threads and any number of         *)
(* messages.                                                               *)
(***************************************************************************)
EXTENDS Logger, QueueOpsProofs

(* mu is held by the thread inside log, and only it has a message in hand. *)
Held ==
  \A t \in Threads : /\ pc[t] = "take" <=> mu = t
                     /\ msg[t] = <<>> \/ (mu = t /\ Len(msg[t]) = 1)

(* A message that was pushed is printed, in hand or in m_buffer. *)
Located ==
  \A t \in Threads : \A n \in 1 .. said[t] :
    [by |-> t, no |-> n] \in
      Elements(printed) \cup Elements(InHand) \cup Elements(m_buffer)

(* LoggedIsPrinted, also while the thread makes its next message. *)
EarlierPrinted ==
  \A t \in Threads : \A n \in 1 .. said[t] :
    (n < said[t] \/ pc[t] \in {"idle", "push"}) =>
      [by |-> t, no |-> n] \in Elements(printed)

IInv == TypeOK /\ Held /\ Located /\ EarlierPrinted

-----------------------------------------------------------------------------
(* A sequence of one message is that message. *)
LEMMA Single ==
  ASSUME NEW S, NEW s \in Seq(S), NEW q \in Seq(S), Len(s) = 1
  PROVE  /\ s[1] \in S /\ s = <<s[1]>> /\ Elements(s) = {s[1]}
         /\ q \o s = Append(q, s[1])
<1>1. s[1] \in S /\ DOMAIN s = 1 .. 1
  <2>1. DOMAIN s = 1 .. 1
    BY LenProperties
  <2>2. s[1] \in S
    BY ElementOfSeq
  <2> QED BY <2>1, <2>2
<1>2. s = <<s[1]>>
  BY <1>1
<1>3. Elements(s) = {s[1]}
  BY <1>1 DEF Elements
<1>4. q \o s = Append(q, s[1])
  BY <1>1, <1>2, AppendIsConcat
<1> QED
  BY <1>1, <1>2, <1>3, <1>4

(* The initial state satisfies the invariant. *)
LEMMA InitInv == Init => IInv
<1> SUFFICES ASSUME Init
             PROVE  IInv
  OBVIOUS
<1>1. TypeOK
  BY LoggerAssumption
     DEF Init, TypeOK, StringtoLoglevel, Loglevels, Unkown, Debug, Info, Error
<1>2. Held
  BY LoggerAssumption DEF Init, Held
<1>3. Located /\ EarlierPrinted
  BY DEF Init, Located, EarlierPrinted
<1> QED
  BY <1>1, <1>2, <1>3 DEF IInv

-----------------------------------------------------------------------------
(* A push puts the message at the end of m_buffer. *)
LEMMA PushInv ==
  ASSUME IInv, NEW t \in Threads, pushLog(t)
  PROVE  IInv'
<1> DEFINE m == [by |-> t, no |-> said[t] + 1]
<1> USE DEF IInv
<1>1. m \in Messages /\ said[t] \in Nat
  BY DEF TypeOK, Messages
<1>2. /\ Append(m_buffer, m) \in Seq(Messages)
      /\ Elements(Append(m_buffer, m)) = Elements(m_buffer) \cup {m}
  BY <1>1, ElementsAppend DEF TypeOK
<1>3. TypeOK'
  BY <1>1, <1>2 DEF TypeOK, pushLog, Goto
<1>4. Held' /\ InHand' = InHand
  BY DEF Held, TypeOK, InHand, pushLog, Goto
<1>5. ASSUME NEW u \in Threads, NEW n \in 1 .. said'[u]
      PROVE  \/ n \in 1 .. said[u]
             \/ u = t /\ n = said[t] + 1 /\ said'[u] = said[t] + 1
  BY <1>1, <1>5 DEF TypeOK, pushLog
<1>6. Located'
  BY <1>2, <1>4, <1>5 DEF Located, pushLog
<1>7. EarlierPrinted'
  <2> SUFFICES ASSUME NEW u \in Threads, NEW n \in 1 .. said'[u],
                      n < said'[u] \/ pc'[u] \in {"idle", "push"}
               PROVE  [by |-> u, no |-> n] \in Elements(printed)
    BY DEF EarlierPrinted, pushLog
  <2>1. CASE u = t
    BY <1>1, <2>1 DEF EarlierPrinted, pushLog, TypeOK, Goto
  <2>2. CASE u # t
    BY <2>2 DEF EarlierPrinted, pushLog, TypeOK, Goto
  <2> QED
    BY <2>1, <2>2
<1> QED
  BY <1>3, <1>4, <1>6, <1>7

(* TakeFront moves the first message of m_buffer into the hand. *)
LEMMA TakeInv ==
  ASSUME IInv, NEW t \in Threads, TakeFront(t)
  PROVE  IInv'
<1> USE DEF IInv
<1> DEFINE m == Head(m_buffer)
<1>1. /\ m \in Messages /\ Tail(m_buffer) \in Seq(Messages)
      /\ Elements(m_buffer) = {m} \cup Elements(Tail(m_buffer))
  BY ElementsTail DEF TypeOK, TakeFront
<1>2. mu = t /\ t # Nobody /\ msg' = [msg EXCEPT ![t] = <<m>>] /\ mu' = mu
  BY LoggerAssumption DEF Held, TakeFront
<1>3. TypeOK'
  BY <1>1, <1>2 DEF TypeOK, TakeFront
<1>4. Held'
  BY <1>2 DEF Held, TypeOK, TakeFront
<1>5. InHand = <<>> /\ InHand' = <<m>>
  BY <1>2 DEF InHand, TypeOK, TakeFront
<1>6. Elements(InHand) = {} /\ Elements(InHand') = {m}
  BY <1>5 DEF Elements
<1>7. Located'
  BY <1>1, <1>6 DEF Located, TakeFront
<1>8. EarlierPrinted'
  BY DEF EarlierPrinted, TakeFront
<1> QED
  BY <1>3, <1>4, <1>7, <1>8

(* PrintOne puts it into the output. *)
LEMMA PrintInv ==
  ASSUME IInv, NEW t \in Threads, PrintOne(t)
  PROVE  IInv'
<1> USE DEF IInv
<1> DEFINE m == msg[t][1]
<1>1. mu = t /\ t # Nobody /\ Len(msg[t]) = 1 /\ msg[t] \in Seq(Messages)
  BY LoggerAssumption DEF Held, PrintOne, TypeOK
<1>2. /\ m \in Messages /\ Elements(msg[t]) = {m}
      /\ printed' = Append(printed, m)
  BY <1>1, Single DEF TypeOK, PrintOne
<1>3. printed' \in Seq(Messages) /\ Elements(printed') = Elements(printed) \cup {m}
  BY <1>2, ElementsAppend DEF TypeOK
<1>4. TypeOK'
  BY <1>3 DEF TypeOK, PrintOne
<1>5. Held'
  BY <1>1 DEF Held, TypeOK, PrintOne
<1>6. Elements(InHand) = {m} /\ InHand' = <<>>
  BY <1>1, <1>2 DEF InHand, TypeOK, PrintOne
<1>7. Located'
  BY <1>3, <1>6 DEF Located, PrintOne
<1>8. EarlierPrinted'
  BY <1>3 DEF EarlierPrinted, PrintOne
<1> QED
  BY <1>4, <1>5, <1>7, <1>8

(* log returns with m_buffer empty, and so with all messages printed. *)
LEMMA DoneInv ==
  ASSUME IInv, NEW t \in Threads, LogDone(t)
  PROVE  IInv'
<1> USE DEF IInv
<1>1. mu = t /\ t # Nobody /\ mu' = Nobody
  BY LoggerAssumption DEF Held, LogDone
<1>2. Elements(m_buffer) = {} /\ Elements(InHand) = {}
  BY <1>1, ElementsEmpty DEF LogDone, InHand
<1>3. \A u \in Threads : \A n \in 1 .. said[u] :
        [by |-> u, no |-> n] \in Elements(printed)
  BY <1>2 DEF Located
<1>4. TypeOK'
  BY DEF TypeOK, LogDone, Goto
<1>5. Held'
  BY <1>1, LoggerAssumption DEF Held, TypeOK, LogDone, Goto
<1>6. Located' /\ EarlierPrinted'
  BY <1>3 DEF Located, EarlierPrinted, LogDone
<1> QED
  BY <1>4, <1>5, <1>6

(* The other steps move no message. *)
LEMMA QuietInv ==
  ASSUME IInv,
         \/ \E level \in Loglevels : Set_log_level(level)
         \/ \E t \in Threads : \/ \E level \in Debug .. Error : Statement(t, level)
                               \/ Lock(t)
         \/ UNCHANGED vars
  PROVE  IInv' /\ InHand' = InHand
<1> USE DEF IInv
<1>1. CASE \E level \in Loglevels : Set_log_level(level)
  BY <1>1 DEF Set_log_level, TypeOK, Held, Located, EarlierPrinted, InHand
<1>2. CASE UNCHANGED vars
  BY <1>2 DEF vars, TypeOK, Held, Located, EarlierPrinted, InHand
<1>3. ASSUME NEW t \in Threads, NEW level \in Debug .. Error, Statement(t, level)
      PROVE  IInv' /\ InHand' = InHand
  <2>1. TypeOK' /\ Held' /\ InHand' = InHand
    BY <1>3 DEF Statement, Goto, TypeOK, Held, InHand
  <2>2. Located'
    BY <1>3, <2>1 DEF Statement, Located
  <2>3. EarlierPrinted'
    BY <1>3 DEF Statement, Goto, TypeOK, EarlierPrinted
  <2> QED
    BY <2>1, <2>2, <2>3
<1>4. ASSUME NEW t \in Threads, Lock(t)
      PROVE  IInv' /\ InHand' = InHand
  <2>1. msg[t] = <<>> /\ mu' = t /\ mu = Nobody /\ t # Nobody
    BY <1>4, LoggerAssumption DEF Lock, Held
  <2>2. TypeOK' /\ InHand' = InHand
    BY <1>4, <2>1 DEF Lock, Goto, TypeOK, InHand
  <2>3. Held'
    BY <1>4, <2>1, LoggerAssumption DEF Lock, Goto, TypeOK, Held
  <2>4. Located'
    BY <1>4, <2>2 DEF Lock, Located
  <2>5. EarlierPrinted'
    BY <1>4 DEF Lock, Goto, TypeOK, EarlierPrinted
  <2> QED
    BY <2>2, <2>3, <2>4, <2>5
<1> QED
  BY <1>1, <1>2, <1>3, <1>4

LEMMA NextInv == IInv /\ [Next]_vars => IInv'
BY PushInv, TakeInv, PrintInv, DoneInv, QuietInv DEF Next, log

LEMMA Invariance == Spec => []IInv
<1> QED
  BY InitInv, NextInv, PTL DEF Spec

-----------------------------------------------------------------------------
(* Every variable of the logger keeps its type. *)
THEOREM TypeCorrect == Spec => []TypeOK
<1>1. IInv => TypeOK
  BY DEF IInv
<1> QED
  BY <1>1, Invariance, PTL

(* A statement that returned has its line in the output. *)
THEOREM StatementsPrinted == Spec => []LoggedIsPrinted
<1>1. IInv => LoggedIsPrinted
  BY DEF IInv, EarlierPrinted, LoggedIsPrinted
<1> QED
  BY <1>1, Invariance, PTL

-----------------------------------------------------------------------------
(* The logger implements the journal: the initial states. *)
LEMMA InitJournal == Init => Implements!Init
BY DEF Init, Implements!Init, InHand

(* The steps: a push says a message, printf prints one, and no other step  *)
(* changes the order of what is in hand and in m_buffer.                   *)
LEMMA NextJournal ==
  ASSUME IInv, [Next]_vars
  PROVE  [Implements!Next]_(Implements!vars)
<1> DEFINE waiting == InHand \o m_buffer
<1> USE DEF IInv
<1>1. InHand \in Seq(Messages) /\ m_buffer \in Seq(Messages)
  BY DEF TypeOK, InHand
<1>2. ASSUME NEW t \in Threads, pushLog(t)
      PROVE  Implements!Next
  <2> DEFINE m == [by |-> t, no |-> said[t] + 1]
  <2>1. InHand' = InHand /\ m_buffer' = Append(m_buffer, m) /\ m \in Messages
    BY <1>2 DEF pushLog, InHand, TypeOK, Messages
  <2>2. waiting' = Append(waiting, m)
    BY <1>1, <2>1
  <2> QED
    BY <1>2, <2>2 DEF pushLog, Implements!Next, Implements!Say
<1>3. ASSUME NEW t \in Threads, TakeFront(t)
      PROVE  UNCHANGED Implements!vars
  <2>1. mu = t /\ t # Nobody /\ InHand = <<>> /\ InHand' = <<Head(m_buffer)>>
    BY <1>3, LoggerAssumption DEF TakeFront, Held, InHand, TypeOK
  <2>2. waiting' = waiting
    BY <1>1, <1>3, <2>1 DEF TakeFront
  <2> QED
    BY <1>3, <2>2 DEF TakeFront, Implements!vars
<1>4. ASSUME NEW t \in Threads, PrintOne(t)
      PROVE  Implements!Next
  <2>1. /\ mu = t /\ t # Nobody /\ Len(msg[t]) = 1 /\ msg[t] \in Seq(Messages)
        /\ InHand = msg[t] /\ InHand' = <<>>
    BY <1>4, LoggerAssumption DEF PrintOne, Held, InHand, TypeOK
  <2> DEFINE m == msg[t][1]
  <2>2. m \in Messages /\ InHand = <<m>> /\ printed' = Append(printed, m)
    BY <1>4, <2>1, Single DEF TypeOK, PrintOne
  <2>3. waiting # <<>> /\ Head(waiting) = m /\ Tail(waiting) = m_buffer
    BY <1>1, <2>2
  <2>4. waiting' = m_buffer
    BY <1>1, <1>4, <2>1 DEF PrintOne
  <2> QED
    BY <1>4, <2>2, <2>3, <2>4 DEF PrintOne, Implements!Next, Implements!PrintFirst
<1>5. ASSUME NEW t \in Threads, LogDone(t)
      PROVE  UNCHANGED Implements!vars
  <2>1. InHand = <<>> /\ InHand' = <<>>
    BY <1>5, LoggerAssumption DEF LogDone, Held, InHand
  <2> QED
    BY <1>5, <2>1 DEF LogDone, Implements!vars
<1>6. ASSUME \/ \E level \in Loglevels : Set_log_level(level)
             \/ \E t \in Threads :
                  \/ \E level \in Debug .. Error : Statement(t, level)
                  \/ Lock(t)
             \/ UNCHANGED vars
      PROVE  UNCHANGED Implements!vars
  BY <1>6, QuietInv
     DEF Set_log_level, Statement, Lock, vars, Implements!vars
<1> QED
  BY <1>2, <1>3, <1>4, <1>5, <1>6 DEF Next, log

(* The output, the message in hand and m_buffer implement the journal. *)
THEOREM JournalRefinement == Spec => JournalSpec
<1> QED
  BY InitJournal, NextJournal, Invariance, PTL
     DEF Spec, JournalSpec, Implements!Spec
=============================================================================
