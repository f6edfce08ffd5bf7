---------------------------- MODULE TimerProofs -----------------------------
(***************************************************************************)
(* Theorems about Timer for any number of loops, threads and events, any   *)
(* intervals and any bounds.                                               *)
(***************************************************************************)
EXTENDS Timer, TLAPS

-----------------------------------------------------------------------------
(* The strengthening.  Where a thread is decides who will arm the timerfd, *)
(* so NeverForgotten is inductive by itself; the others need these facts.  *)

(* onTimer's clock is not ahead of the time. *)
ClockPast == \A l \in Loops : clock[l] <= now

(* A one-shot event is filed under the arrival time it reports. *)
KeyIsArrival ==
  \A l \in Loops : \A x \in m_pending_event[l] :
    x.ev \notin Repeated => x.key = m_arrive_time[x.ev]

(* What is pending, collected or run was constructed and added. *)
Known ==
  /\ \A l \in Loops : \A x \in m_pending_event[l] : <<l, x.ev>> \in added
  /\ \A l \in Loops : \A e \in tasks[l] : <<l, e>> \in added
  /\ \A l \in Loops : \A e \in tmp[l] : <<l, e>> \in added
  /\ fired \subseteq added
  /\ \A l \in Loops, e \in TimerEvents :
       <<l, e>> \in added => m_arrive_time[e] # Never

(* A one-shot event is not both collected and pending. *)
Exclusive ==
  \A l \in Loops, e \in TimerEvents \ Repeated :
    e \in tasks[l] => \A x \in m_pending_event[l] : x.ev # e

(* Only a cancelled event can have run cancelled. *)
RanCancelled ==
  \A l \in Loops, e \in TimerEvents :
    <<l, e>> \in fired_cancelled => e \in m_is_cancled

USE ProcAssumption, EventAssumption, TimeAssumption

-----------------------------------------------------------------------------
(* What addTimerEvent does under the lock. *)
LEMMA EmplaceFacts ==
  ASSUME TypeOK, NEW p \in Threads, NEW l \in Loops, NEW e \in TimerEvents,
         NEW arrive \in Int, NEW back \in {"idle", "readd", "callbacks"},
         Emplace(p, l, e, arrive, back)
  PROVE  /\ m_pending_event' \in [Loops -> SUBSET Entries]
         /\ m_pending_event'[l] =
              m_pending_event[l] \cup {[key |-> arrive, ev |-> e]}
         /\ \A k \in Loops : k # l => m_pending_event'[k] = m_pending_event[k]
         /\ pc' \in [Threads -> {"idle", "copy", "settime", "erase",
                        "ontimer", "collect", "readd", "callbacks"}]
         /\ pc'[p] \in {"copy", back}
         /\ m_pending_event[l] = {} => pc'[p] = "copy"
         /\ \A q \in Threads : q # p => pc'[q] = pc[q]
         /\ ret' \in [Threads -> {"idle", "readd", "callbacks"}]
         /\ timer' \in [Threads -> Loops]
         /\ timer'[p] = l
         /\ \A q \in Threads : q # p => timer'[q] = timer[q]
<1>1. [key |-> arrive, ev |-> e] \in Entries
  BY DEF Entries
<1>2. /\ pc' \in [Threads -> {"idle", "copy", "settime", "erase",
                        "ontimer", "collect", "readd", "callbacks"}]
      /\ pc'[p] \in {"copy", back}
      /\ m_pending_event[l] = {} => pc'[p] = "copy"
      /\ \A q \in Threads : q # p => pc'[q] = pc[q]
  <2>1. PICK at \in {"copy", back} :
          /\ pc' = [pc EXCEPT ![p] = at]
          /\ m_pending_event[l] = {} => at = "copy"
    BY DEF Emplace, Goto, Begin
  <2> QED BY <2>1 DEF TypeOK
<1> QED BY <1>1, <1>2 DEF Emplace, TypeOK

(* Every variable of the timers keeps its type. *)
LEMMA TypeInit == Init => TypeOK
BY DEF Init, TypeOK, Never

LEMMA TypeStep == TypeOK /\ [Next]_vars => TypeOK'
<1> SUFFICES ASSUME TypeOK, [Next]_vars PROVE TypeOK'
  OBVIOUS
<1>1. CASE Tick
  BY <1>1 DEF Tick, TypeOK, events, locals, history
<1>2. ASSUME NEW e \in TimerEvents, Construct(e) PROVE TypeOK'
  BY <1>2 DEF Construct, TypeOK, locals, history
<1>3. ASSUME NEW e \in TimerEvents, setCancled(e) PROVE TypeOK'
  BY <1>3 DEF setCancled, TypeOK, locals, history
<1>4. ASSUME NEW p \in Threads, NEW l \in Loops, NEW e \in TimerEvents,
             addTimerEvent(p, l, e)
      PROVE  TypeOK'
  <2>1. pc[p] \in {"idle", "readd", "callbacks"} /\ m_arrive_time[e] \in Int
    BY <1>4 DEF addTimerEvent, CanCall, TypeOK
  <2> QED BY <1>4, <2>1, EmplaceFacts DEF addTimerEvent, TypeOK, events
<1>5. ASSUME NEW p \in Threads, NEW l \in Loops, NEW e \in TimerEvents,
             delteTimerEvent(p, l, e)
      PROVE  TypeOK'
  BY <1>5 DEF delteTimerEvent, CanCall, Goto, TypeOK
<1>6. ASSUME NEW p \in Threads, CopyPending(p) PROVE TypeOK'
  BY <1>6 DEF CopyPending, Goto, Begin, TypeOK, Entries, events, history
<1>7. ASSUME NEW p \in Threads, SetTime(p) PROVE TypeOK'
  BY <1>7 DEF SetTime, Goto, TypeOK, events, locals, history
<1>8. ASSUME NEW p \in Threads, EraseEntry(p) PROVE TypeOK'
  BY <1>8 DEF EraseEntry, Goto, TypeOK, events, locals, history
<1>9. ASSUME NEW l \in Loops, Trigger(l) PROVE TypeOK'
  BY <1>9 DEF Trigger, Goto, TypeOK, events, locals, history, Threads
<1>10. ASSUME NEW l \in Loops, ReadExpiry(l) PROVE TypeOK'
  BY <1>10 DEF ReadExpiry, Goto, TypeOK, events, history, Threads, Never
<1>11. ASSUME NEW l \in Loops, Collect(l) PROVE TypeOK'
  <2> DEFINE due == Due(m_pending_event[l], clock[l])
             live == {x.ev : x \in due} \ m_is_cancled
  <2>1. live \subseteq TimerEvents
    BY DEF TypeOK, Entries, Due
  <2> QED BY <1>11, <2>1 DEF Collect, Goto, TypeOK, events, history, Threads
<1>12. ASSUME NEW l \in Loops, ReaddOne(l) PROVE TypeOK'
  <2>1. PICK e \in tmp[l] :
          /\ tmp' = [tmp EXCEPT ![l] = @ \ {e}]
          /\ m_arrive_time' = [m_arrive_time EXCEPT ![e] = now + Interval[e]]
          /\ Emplace(l, l, e, now + Interval[e], "readd")
    BY <1>12 DEF ReaddOne
  <2>2. e \in TimerEvents /\ now + Interval[e] \in Int /\ l \in Threads
    BY DEF TypeOK, Threads
  <2> QED BY <1>12, <2>1, <2>2, EmplaceFacts DEF ReaddOne, TypeOK, history
<1>13. ASSUME NEW l \in Loops, ReaddDone(l) PROVE TypeOK'
  BY <1>13 DEF ReaddDone, Goto, TypeOK, events, history, Threads
<1>14. ASSUME NEW l \in Loops, RunCallback(l) PROVE TypeOK'
  <2>1. PICK e \in tasks[l] :
          /\ tasks' = [tasks EXCEPT ![l] = @ \ {e}]
          /\ fired' = fired \cup {<<l, e>>}
          /\ fired_cancelled' =
               fired_cancelled \cup ({<<l, e>>} \cap (Loops \X m_is_cancled))
    BY <1>14 DEF RunCallback
  <2>2. e \in TimerEvents
    BY DEF TypeOK
  <2> QED BY <1>14, <2>1, <2>2 DEF RunCallback, TypeOK, events
<1>15. ASSUME NEW l \in Loops, OnTimerDone(l) PROVE TypeOK'
  BY <1>15 DEF OnTimerDone, Goto, TypeOK, events, locals, history, Threads
<1>16. CASE UNCHANGED vars
  BY <1>16 DEF vars, TypeOK, events, locals, history
<1> QED BY <1>1, <1>2, <1>3, <1>4, <1>5, <1>6, <1>7, <1>8, <1>9, <1>10,
           <1>11, <1>12, <1>13, <1>14, <1>15, <1>16
        DEF Next, Call, GoOn, OnTimer

(* The state of the timers is well typed in every reachable state. *)
THEOREM TypeCorrect == Spec => []TypeOK
<1> QED BY TypeInit, TypeStep, PTL DEF Spec

-----------------------------------------------------------------------------
(* No event is forgotten.  The invariant is inductive with the types: a    *)
(* thread that leaves resetArriveTime empty-handed saw an empty map, and   *)
(* one that adds without arming saw a map somebody had taken charge of.    *)
LEMMA NeverForgottenInit == Init => NeverForgotten
BY DEF Init, NeverForgotten

(* A step that keeps l's map within what it was, its timerfd armed if it   *)
(* was, and every thread that was going to arm it, keeps l remembered.     *)
LEMMA StillRemembered ==
  ASSUME NeverForgotten, NEW l \in Loops,
         m_pending_event[l] = {} => m_pending_event'[l] = {},
         armed[l] # Never => armed'[l] # Never \/ WillArm(l)',
         WillArm(l) => WillArm(l)'
  PROVE  m_pending_event'[l] # {} => armed'[l] # Never \/ WillArm(l)'
BY DEF NeverForgotten

LEMMA NeverForgottenStep ==
  TypeOK /\ NeverForgotten /\ [Next]_vars => NeverForgotten'
<1> SUFFICES ASSUME TypeOK, NeverForgotten, [Next]_vars,
                    NEW l \in Loops
             PROVE  m_pending_event'[l] # {} => armed'[l] # Never \/ WillArm(l)'
  BY DEF NeverForgotten
<1>loops. l \in Threads
  BY DEF Threads
<1>1. ASSUME UNCHANGED <<m_pending_event, armed, pc, timer>>
      PROVE  m_pending_event'[l] # {} => armed'[l] # Never \/ WillArm(l)'
  BY <1>1 DEF NeverForgotten, WillArm
<1>2. ASSUME NEW p \in Threads, NEW k \in Loops, NEW e \in TimerEvents,
             addTimerEvent(p, k, e)
      PROVE  m_pending_event'[l] # {} => armed'[l] # Never \/ WillArm(l)'
  <2>1. /\ pc[p] \in {"idle", "callbacks"} /\ armed' = armed
        /\ Emplace(p, k, e, m_arrive_time[e], pc[p])
        /\ m_arrive_time[e] \in Int
    BY <1>2 DEF addTimerEvent, CanCall, TypeOK
  <2>2. /\ \A j \in Loops : j # k => m_pending_event'[j] = m_pending_event[j]
        /\ pc'[p] \in {"copy", pc[p]} /\ timer'[p] = k
        /\ m_pending_event[k] = {} => pc'[p] = "copy"
        /\ \A q \in Threads : q # p => pc'[q] = pc[q] /\ timer'[q] = timer[q]
    BY <2>1, EmplaceFacts
  <2>3. WillArm(l) => WillArm(l)'
    BY <2>1, <2>2, <1>loops DEF WillArm
  <2>4. CASE l = k /\ m_pending_event[k] = {}
    BY <2>2, <2>4 DEF WillArm
  <2>5. CASE ~(l = k /\ m_pending_event[k] = {})
    BY <2>1, <2>2, <2>3, <2>5 DEF NeverForgotten
  <2> QED BY <2>4, <2>5
<1>3. ASSUME NEW p \in Threads, NEW k \in Loops, NEW e \in TimerEvents,
             delteTimerEvent(p, k, e)
      PROVE  m_pending_event'[l] # {} => armed'[l] # Never \/ WillArm(l)'
  <2>1. /\ pc[p] \in {"idle", "callbacks"}
        /\ UNCHANGED <<m_pending_event, armed>>
        /\ \A q \in Threads : q # p => pc'[q] = pc[q] /\ timer'[q] = timer[q]
    BY <1>3 DEF delteTimerEvent, CanCall, Goto, TypeOK
  <2>2. WillArm(l) => WillArm(l)'
    BY <2>1, <1>loops DEF WillArm
  <2> QED BY <2>1, <2>2, StillRemembered
<1>4. ASSUME NEW p \in Threads, CopyPending(p)
      PROVE  m_pending_event'[l] # {} => armed'[l] # Never \/ WillArm(l)'
  <2>1. /\ pc[p] = "copy" /\ UNCHANGED <<m_pending_event, armed, timer>>
        /\ \A q \in Threads : q # p => pc'[q] = pc[q]
        /\ m_pending_event[timer[p]] = {} \/ pc'[p] = "settime"
    BY <1>4 DEF CopyPending, Goto, TypeOK
  <2>2. CASE timer[p] = l
    BY <2>1, <2>2 DEF WillArm
  <2>3. CASE timer[p] # l
    <3>1. WillArm(l) => WillArm(l)'
      BY <2>1, <2>3, <1>loops DEF WillArm
    <3> QED BY <2>1, <3>1, StillRemembered
  <2> QED BY <2>2, <2>3
<1>5. ASSUME NEW p \in Threads, SetTime(p)
      PROVE  m_pending_event'[l] # {} => armed'[l] # Never \/ WillArm(l)'
  <2>1. /\ pc[p] = "settime" /\ UNCHANGED <<m_pending_event, timer>>
        /\ \A q \in Threads : q # p => pc'[q] = pc[q]
        /\ \A k \in Loops : k # timer[p] => armed'[k] = armed[k]
    BY <1>5 DEF SetTime, Goto, TypeOK, locals
  <2>2. armed'[timer[p]] # Never
    BY <1>5 DEF SetTime, TypeOK, Never
  <2>3. CASE timer[p] = l
    BY <2>2, <2>3
  <2>4. CASE timer[p] # l
    <3>1. WillArm(l) => WillArm(l)'
      BY <2>1, <2>4, <1>loops DEF WillArm
    <3> QED BY <2>1, <2>4, <3>1, StillRemembered
  <2> QED BY <2>3, <2>4
<1>6. ASSUME NEW p \in Threads, EraseEntry(p)
      PROVE  m_pending_event'[l] # {} => armed'[l] # Never \/ WillArm(l)'
  <2>1. /\ pc[p] = "erase" /\ UNCHANGED <<armed, timer>>
        /\ \A q \in Threads : q # p => pc'[q] = pc[q]
        /\ m_pending_event'[l] \subseteq m_pending_event[l]
    BY <1>6 DEF EraseEntry, Goto, TypeOK, locals
  <2>2. WillArm(l) => WillArm(l)'
    BY <2>1, <1>loops DEF WillArm
  <2> QED BY <2>1, <2>2, StillRemembered
<1>7. ASSUME NEW k \in Loops, Trigger(k) \/ OnTimerDone(k)
      PROVE  m_pending_event'[l] # {} => armed'[l] # Never \/ WillArm(l)'
  <2>1. /\ pc[k] \in {"idle", "callbacks"} /\ k \in Threads
        /\ UNCHANGED <<m_pending_event, armed, timer>>
        /\ \A q \in Threads : q # k => pc'[q] = pc[q]
    BY <1>7 DEF Trigger, OnTimerDone, Goto, TypeOK, locals, Threads
  <2>2. WillArm(l) => WillArm(l)'
    BY <2>1, <1>loops DEF WillArm
  <2> QED BY <2>1, <2>2, StillRemembered
<1>8. ASSUME NEW k \in Loops, ReadExpiry(k)
      PROVE  m_pending_event'[l] # {} => armed'[l] # Never \/ WillArm(l)'
  <2>1. /\ pc[k] = "ontimer" /\ pc'[k] = "collect" /\ k \in Threads
        /\ UNCHANGED <<m_pending_event, timer>>
        /\ \A q \in Threads : q # k => pc'[q] = pc[q]
        /\ \A j \in Loops : j # k => armed'[j] = armed[j]
    BY <1>8 DEF ReadExpiry, Goto, TypeOK, Threads
  <2>2. CASE l = k
    BY <2>1, <2>2 DEF WillArm
  <2>3. CASE l # k
    <3>1. WillArm(l) => WillArm(l)'
      BY <2>1, <2>3, <1>loops DEF WillArm
    <3> QED BY <2>1, <2>3, <3>1, StillRemembered
  <2> QED BY <2>2, <2>3
<1>9. ASSUME NEW k \in Loops, Collect(k)
      PROVE  m_pending_event'[l] # {} => armed'[l] # Never \/ WillArm(l)'
  <2>1. /\ pc[k] = "collect" /\ pc'[k] = "readd" /\ k \in Threads
        /\ UNCHANGED <<armed, timer>>
        /\ \A q \in Threads : q # k => pc'[q] = pc[q]
        /\ m_pending_event'[l] \subseteq m_pending_event[l]
    BY <1>9 DEF Collect, Goto, TypeOK, Threads
  <2>2. WillArm(l) => WillArm(l)'
    BY <2>1, <1>loops DEF WillArm
  <2> QED BY <2>1, <2>2, StillRemembered
<1>10. ASSUME NEW k \in Loops, ReaddOne(k)
       PROVE  m_pending_event'[l] # {} => armed'[l] # Never \/ WillArm(l)'
  <2>1. PICK e \in tmp[k] : Emplace(k, k, e, now + Interval[e], "readd")
    BY <1>10 DEF ReaddOne
  <2>2. /\ k \in Threads /\ e \in TimerEvents /\ now + Interval[e] \in Int
        /\ pc[k] = "readd" /\ armed' = armed
    BY <1>10 DEF ReaddOne, TypeOK, Threads
  <2>3. /\ \A j \in Loops : j # k => m_pending_event'[j] = m_pending_event[j]
        /\ pc'[k] \in {"copy", "readd"} /\ timer'[k] = k
        /\ \A q \in Threads : q # k => pc'[q] = pc[q] /\ timer'[q] = timer[q]
    BY <2>1, <2>2, EmplaceFacts
  <2>4. CASE l = k
    BY <2>2, <2>3, <2>4 DEF WillArm
  <2>5. CASE l # k
    <3>1. WillArm(l) => WillArm(l)'
      BY <2>2, <2>3, <2>5, <1>loops DEF WillArm
    <3> QED BY <2>2, <2>3, <2>5, <3>1, StillRemembered
  <2> QED BY <2>4, <2>5
<1>11. ASSUME NEW k \in Loops, ReaddDone(k)
       PROVE  m_pending_event'[l] # {} => armed'[l] # Never \/ WillArm(l)'
  <2>1. /\ pc[k] = "readd" /\ pc'[k] = "copy" /\ k \in Threads
        /\ timer'[k] = k
        /\ UNCHANGED <<m_pending_event, armed>>
        /\ \A q \in Threads : q # k => pc'[q] = pc[q] /\ timer'[q] = timer[q]
    BY <1>11 DEF ReaddDone, Goto, TypeOK, Threads
  <2>2. CASE l = k
    BY <2>1, <2>2 DEF WillArm
  <2>3. CASE l # k
    <3>1. WillArm(l) => WillArm(l)'
      BY <2>1, <2>3, <1>loops DEF WillArm
    <3> QED BY <2>1, <2>3, <3>1, StillRemembered
  <2> QED BY <2>2, <2>3
<1> QED BY <1>1, <1>2, <1>3, <1>4, <1>5, <1>6, <1>7, <1>8, <1>9, <1>10,
           <1>11
        DEF Next, Call, GoOn, OnTimer, Tick, Construct, setCancled,
            RunCallback, vars, locals

(* While events are pending in a timer, its timerfd is armed or a thread   *)
(* is about to arm it (addTimerEvent, line 58; onTimer, line 144).         *)
THEOREM EventsNeverForgotten == Spec => []NeverForgotten
<1>1. Init => TypeOK /\ NeverForgotten
  BY TypeInit, NeverForgottenInit
<1>2. TypeOK /\ NeverForgotten /\ [Next]_vars => (TypeOK /\ NeverForgotten)'
  BY TypeStep, NeverForgottenStep
<1> QED BY <1>1, <1>2, PTL DEF Spec

-----------------------------------------------------------------------------
(* A one-shot event runs once, a cancelled one at most once more: all of   *)
(* Facts together is inductive.                                            *)
Facts == /\ ClockPast /\ KeyIsArrival /\ Known /\ Exclusive /\ RanCancelled
         /\ OneShotOnce /\ CancelledRunsAtMostOnceMore

LEMMA FactsInit == Init => Facts
BY DEF Init, Facts, ClockPast, KeyIsArrival, Known, Exclusive, RanCancelled,
       OneShotOnce, CancelledRunsAtMostOnceMore, Never

(* A step that leaves the events alone, lets time pass and cancels.        *)
LEMMA FactsKept ==
  ASSUME TypeOK, TypeOK', Facts, now' >= now, m_is_cancled \subseteq m_is_cancled',
         UNCHANGED <<m_arrive_time, m_pending_event, clock, tmp, tasks, added,
                     fired, fired_cancelled>>
  PROVE  Facts'
<1>1. ClockPast'
  BY DEF Facts, ClockPast, TypeOK
<1>2. KeyIsArrival' /\ Known' /\ Exclusive'
  BY DEF Facts, KeyIsArrival, Known, Exclusive
<1>3. RanCancelled' /\ OneShotOnce' /\ CancelledRunsAtMostOnceMore'
  BY DEF Facts, RanCancelled, OneShotOnce, CancelledRunsAtMostOnceMore
<1> QED BY <1>1, <1>2, <1>3 DEF Facts

LEMMA FactsConstruct ==
  ASSUME TypeOK, Facts, NEW e \in TimerEvents, Construct(e)
  PROVE  Facts'
<1>1. /\ m_arrive_time[e] = Never
      /\ \A d \in TimerEvents : d # e => m_arrive_time'[d] = m_arrive_time[d]
      /\ m_arrive_time'[e] # Never
      /\ UNCHANGED <<now, m_is_cancled, m_pending_event, clock, tmp, tasks,
                     added, fired, fired_cancelled>>
  BY DEF Construct, TypeOK, Never, locals, history
<1>2. \A l \in Loops : \A x \in m_pending_event[l] : x.ev # e
  BY <1>1 DEF Facts, Known
<1>3. KeyIsArrival'
  BY <1>1, <1>2 DEF Facts, KeyIsArrival, TypeOK, Entries
<1>4. Known'
  BY <1>1 DEF Facts, Known
<1> QED BY <1>1, <1>3, <1>4
        DEF Facts, ClockPast, Exclusive, RanCancelled, OneShotOnce,
            CancelledRunsAtMostOnceMore

LEMMA FactsAdd ==
  ASSUME TypeOK, Facts, NEW p \in Threads, NEW k \in Loops,
         NEW e \in TimerEvents, addTimerEvent(p, k, e)
  PROVE  Facts'
<1>1. /\ pc[p] \in {"idle", "callbacks"}
      /\ m_arrive_time[e] \in Int /\ m_arrive_time[e] # Never
      /\ <<k, e>> \notin added /\ added' = added \cup {<<k, e>>}
      /\ Emplace(p, k, e, m_arrive_time[e], pc[p])
      /\ UNCHANGED <<now, m_arrive_time, m_is_cancled, clock, tmp, tasks,
                     fired, fired_cancelled>>
  BY DEF addTimerEvent, CanCall, TypeOK, events
<1>2. /\ m_pending_event'[k] =
           m_pending_event[k] \cup {[key |-> m_arrive_time[e], ev |-> e]}
      /\ \A l \in Loops : l # k => m_pending_event'[l] = m_pending_event[l]
  BY <1>1, EmplaceFacts
<1>3. e \notin tasks[k] /\ <<k, e>> \notin fired
  BY <1>1 DEF Facts, Known
<1>4. KeyIsArrival'
  BY <1>1, <1>2 DEF Facts, KeyIsArrival
<1>5. Known'
  BY <1>1, <1>2 DEF Facts, Known
<1>6. Exclusive' /\ OneShotOnce'
  BY <1>1, <1>2, <1>3 DEF Facts, Exclusive, OneShotOnce
<1> QED BY <1>1, <1>4, <1>5, <1>6
        DEF Facts, ClockPast, RanCancelled, CancelledRunsAtMostOnceMore

LEMMA FactsErase ==
  ASSUME TypeOK, Facts, NEW p \in Threads, EraseEntry(p)
  PROVE  Facts'
<1>1. /\ \A l \in Loops : m_pending_event'[l] \subseteq m_pending_event[l]
      /\ UNCHANGED <<now, m_arrive_time, m_is_cancled, clock, tmp, tasks,
                     added, fired, fired_cancelled>>
  BY DEF EraseEntry, TypeOK, events, locals, history
<1> QED BY <1>1
        DEF Facts, ClockPast, KeyIsArrival, Known, Exclusive, RanCancelled,
            OneShotOnce, CancelledRunsAtMostOnceMore

LEMMA FactsReadExpiry ==
  ASSUME TypeOK, Facts, NEW k \in Loops, ReadExpiry(k)
  PROVE  Facts'
<1>1. ClockPast'
  BY DEF ReadExpiry, Facts, ClockPast, TypeOK
<1> QED BY <1>1
        DEF ReadExpiry, Facts, KeyIsArrival, Known, Exclusive, RanCancelled,
            OneShotOnce, CancelledRunsAtMostOnceMore, events, history

(* A one-shot event is filed once, so Collect takes all of it. *)
LEMMA FactsCollect ==
  ASSUME TypeOK, Facts, NEW k \in Loops, Collect(k)
  PROVE  Facts'
<1> DEFINE due == Due(m_pending_event[k], clock[k])
           live == {x.ev : x \in due} \ m_is_cancled
<1>1. /\ m_pending_event'[k] = m_pending_event[k] \ due
      /\ tmp'[k] = live \cap Repeated /\ tasks'[k] = live
      /\ \A l \in Loops : l # k => /\ m_pending_event'[l] = m_pending_event[l]
                                   /\ tmp'[l] = tmp[l] /\ tasks'[l] = tasks[l]
      /\ UNCHANGED <<now, m_arrive_time, m_is_cancled, clock, added, fired,
                     fired_cancelled>>
  BY DEF Collect, TypeOK, events, history
<1>2. due \subseteq m_pending_event[k] /\ \A x \in due : x.key <= clock[k]
  BY DEF Due
<1>3. \A e \in live : e \notin m_is_cancled /\ \E x \in due : x.ev = e
  OBVIOUS
<1> HIDE DEF due, live
<1>4. ClockPast' /\ KeyIsArrival' /\ RanCancelled'
  BY <1>1 DEF Facts, ClockPast, KeyIsArrival, RanCancelled
<1>5. Known'
  BY <1>1, <1>2, <1>3 DEF Facts, Known
<1>6. Exclusive'
  <2>1. ASSUME NEW e \in live \ Repeated, NEW y \in m_pending_event[k] \ due
        PROVE  y.ev # e
    <3>1. PICK x \in due : x.ev = e
      BY <1>3
    <3>2. x \in m_pending_event[k] /\ x \in Entries /\ y \in Entries
      BY <1>2 DEF TypeOK
    <3>3. y.ev = e => y.key = x.key
      BY <3>1, <3>2 DEF Facts, KeyIsArrival
    <3>4. y.ev = e => y = x
      BY <3>1, <3>2, <3>3 DEF Entries
    <3> QED BY <3>4
  <2> QED BY <1>1, <2>1 DEF Facts, Exclusive
<1>7. OneShotOnce'
  BY <1>1, <1>2, <1>3 DEF Facts, OneShotOnce
<1>8. CancelledRunsAtMostOnceMore'
  BY <1>1, <1>3 DEF Facts, CancelledRunsAtMostOnceMore, RanCancelled
<1> QED BY <1>4, <1>5, <1>6, <1>7, <1>8 DEF Facts

(* Only a repeated event is added again and gets another arrival time. *)
LEMMA FactsReadd ==
  ASSUME TypeOK, Facts, NEW k \in Loops, ReaddOne(k)
  PROVE  Facts'
<1>1. PICK e \in tmp[k] :
        /\ tmp' = [tmp EXCEPT ![k] = @ \ {e}]
        /\ m_arrive_time' = [m_arrive_time EXCEPT ![e] = now + Interval[e]]
        /\ Emplace(k, k, e, now + Interval[e], "readd")
  BY DEF ReaddOne
<1>2. /\ e \in Repeated /\ e \in TimerEvents
      /\ now + Interval[e] \in Int /\ now + Interval[e] # Never
      /\ k \in Threads
  BY DEF TypeOK, Never, Threads
<1>3. /\ m_pending_event'[k] =
           m_pending_event[k] \cup {[key |-> now + Interval[e], ev |-> e]}
      /\ \A l \in Loops : l # k => m_pending_event'[l] = m_pending_event[l]
  BY <1>1, <1>2, EmplaceFacts
<1>4. /\ \A d \in TimerEvents \ Repeated : m_arrive_time'[d] = m_arrive_time[d]
      /\ \A d \in TimerEvents :
           m_arrive_time[d] # Never => m_arrive_time'[d] # Never
      /\ \A l \in Loops : tmp'[l] \subseteq tmp[l]
  BY <1>1, <1>2 DEF TypeOK
<1>5. UNCHANGED <<now, m_is_cancled, clock, tasks, added, fired,
                  fired_cancelled>>
  BY DEF ReaddOne, history
<1>6. KeyIsArrival'
  BY <1>2, <1>3, <1>4 DEF Facts, KeyIsArrival, TypeOK, Entries
<1>7. Known'
  BY <1>3, <1>4, <1>5 DEF Facts, Known
<1>8. Exclusive' /\ OneShotOnce'
  BY <1>2, <1>3, <1>5 DEF Facts, Exclusive, OneShotOnce
<1> QED BY <1>5, <1>6, <1>7, <1>8
        DEF Facts, ClockPast, RanCancelled, CancelledRunsAtMostOnceMore

(* What runs has left the map, and leaves the collected callbacks. *)
LEMMA FactsRun ==
  ASSUME TypeOK, Facts, NEW k \in Loops, RunCallback(k)
  PROVE  Facts'
<1>1. PICK e \in tasks[k] :
        /\ tasks' = [tasks EXCEPT ![k] = @ \ {e}]
        /\ fired' = fired \cup {<<k, e>>}
        /\ fired_cancelled' =
             fired_cancelled \cup ({<<k, e>>} \cap (Loops \X m_is_cancled))
  BY DEF RunCallback
<1>2. /\ tasks'[k] = tasks[k] \ {e}
      /\ \A l \in Loops : l # k => tasks'[l] = tasks[l]
      /\ \A l \in Loops, d \in TimerEvents :
           <<l, d>> \in fired' => <<l, d>> \in fired \/ (l = k /\ d = e)
      /\ \A l \in Loops, d \in TimerEvents :
           <<l, d>> \in fired_cancelled' =>
             \/ <<l, d>> \in fired_cancelled
             \/ l = k /\ d = e /\ e \in m_is_cancled
      /\ e \in TimerEvents
  BY <1>1 DEF TypeOK
<1>3. UNCHANGED <<now, m_arrive_time, m_is_cancled, m_pending_event, clock,
                  tmp, added>>
  BY DEF RunCallback, events
<1>4. Known' /\ Exclusive'
  <2>1. (fired \subseteq added)'
    BY <1>1, <1>3 DEF Facts, Known
  <2>2. \A l \in Loops : tasks'[l] \subseteq tasks[l]
    BY <1>2
  <2> QED BY <2>1, <2>2, <1>3 DEF Facts, Known, Exclusive
<1>5. OneShotOnce'
  BY <1>2, <1>3 DEF Facts, OneShotOnce, Exclusive
<1>6. RanCancelled' /\ CancelledRunsAtMostOnceMore'
  BY <1>2, <1>3 DEF Facts, RanCancelled, CancelledRunsAtMostOnceMore
<1> QED BY <1>3, <1>4, <1>5, <1>6 DEF Facts, ClockPast, KeyIsArrival

LEMMA FactsStep == TypeOK /\ Facts /\ [Next]_vars => Facts'
<1> SUFFICES ASSUME TypeOK, Facts, [Next]_vars PROVE Facts'
  OBVIOUS
<1> USE TypeStep
<1>1. CASE Tick
  BY <1>1, FactsKept DEF Tick, TypeOK, events, locals, history
<1>2. ASSUME NEW e \in TimerEvents, Construct(e) PROVE Facts'
  BY <1>2, FactsConstruct
<1>3. ASSUME NEW e \in TimerEvents, setCancled(e) PROVE Facts'
  BY <1>3, FactsKept DEF setCancled, TypeOK, locals, history
<1>4. ASSUME NEW p \in Threads, Call(p) PROVE Facts'
  <2>1. ASSUME NEW l \in Loops, NEW e \in TimerEvents,
               delteTimerEvent(p, l, e)
        PROVE  Facts'
    BY <2>1, FactsKept DEF delteTimerEvent, TypeOK
  <2> QED BY <1>4, <2>1, FactsAdd DEF Call
<1>5. ASSUME NEW p \in Threads, CopyPending(p) \/ SetTime(p) PROVE Facts'
  BY <1>5, FactsKept
     DEF CopyPending, SetTime, TypeOK, events, locals, history
<1>6. ASSUME NEW p \in Threads, EraseEntry(p) PROVE Facts'
  BY <1>6, FactsErase
<1>7. ASSUME NEW l \in Loops, Trigger(l) \/ ReaddDone(l) \/ OnTimerDone(l)
      PROVE  Facts'
  BY <1>7, FactsKept
     DEF Trigger, ReaddDone, OnTimerDone, TypeOK, events, locals, history
<1>8. ASSUME NEW l \in Loops,
             ReadExpiry(l) \/ Collect(l) \/ ReaddOne(l) \/ RunCallback(l)
      PROVE  Facts'
  BY <1>8, FactsReadExpiry, FactsCollect, FactsReadd, FactsRun
<1>9. CASE UNCHANGED vars
  BY <1>9, FactsKept DEF vars, TypeOK, events, locals, history
<1> QED BY <1>1, <1>2, <1>3, <1>4, <1>5, <1>6, <1>7, <1>8, <1>9
        DEF Next, GoOn, OnTimer

LEMMA FactsAlways == Spec => []Facts
<1>1. Init => TypeOK /\ Facts
  BY TypeInit, FactsInit
<1>2. TypeOK /\ Facts /\ [Next]_vars => (TypeOK /\ Facts)'
  BY TypeStep, FactsStep
<1> QED BY <1>1, <1>2, PTL DEF Spec

(* A one-shot event that ran on a loop cannot run there again, whatever    *)
(* adds, deletions and expiries interleave (onTimer, lines 119 to 151).    *)
THEOREM OneShotRunsOnce == Spec => []OneShotOnce
<1>1. Facts => OneShotOnce
  BY DEF Facts
<1> QED BY <1>1, FactsAlways, PTL

(* An event that ran although it was cancelled is not collected again      *)
(* (onTimer tests m_is_cancled under the lock, line 121).                  *)
THEOREM CancelledRunsOnceMore == Spec => []CancelledRunsAtMostOnceMore
<1>1. Facts => CancelledRunsAtMostOnceMore
  BY DEF Facts
<1> QED BY <1>1, FactsAlways, PTL

-----------------------------------------------------------------------------
(* No event that was added and not cancelled is lost, whatever adds,       *)
(* deletions and expiries interleave: it is pending, or onTimer has it to  *)
(* call back, or, if it is repeated, to add again; or it has run.          *)
EventsKept ==
  \A l \in Loops, e \in TimerEvents :
    <<l, e>> \in added /\ e \notin m_is_cancled =>
      \/ \E x \in m_pending_event[l] : x.ev = e
      \/ e \in Repeated /\ e \in tmp[l]
      \/ e \notin Repeated /\ (e \in tasks[l] \/ <<l, e>> \in fired)

(* What onTimer has collected it holds until it is done with it, also      *)
(* while it or its callbacks are inside addTimerEvent or delteTimerEvent;  *)
(* and only the entry of a cancelled event is erased.                      *)
HandAt(l) ==
  /\ tmp[l] # {} =>
       \/ pc[l] = "readd"
       \/ pc[l] \in {"copy", "settime"} /\ ret[l] = "readd"
  /\ tasks[l] # {} =>
       \/ pc[l] \in {"readd", "callbacks"}
       \/ pc[l] \in {"copy", "settime", "erase"} /\ ret[l] \in {"readd", "callbacks"}
EraseAt(p) == pc[p] = "erase" => first[p] \in m_is_cancled
InHand == (\A l \in Loops : HandAt(l)) /\ \A p \in Threads : EraseAt(p)

(* A step of one thread concerns what that thread has in hand. *)
LEMMA InHandElsewhere ==
  ASSUME InHand, NEW p \in Threads,
         \A q \in Threads : q # p => pc'[q] = pc[q] /\ ret'[q] = ret[q] /\ first'[q] = first[q],
         \A l \in Loops : l # p => tmp'[l] = tmp[l] /\ tasks'[l] = tasks[l],
         m_is_cancled \subseteq m_is_cancled',
         p \in Loops => HandAt(p)', EraseAt(p)'
  PROVE  InHand'
<1>1. ASSUME NEW l \in Loops PROVE HandAt(l)'
  BY DEF InHand, HandAt, Threads
<1>2. ASSUME NEW q \in Threads PROVE EraseAt(q)'
  BY DEF InHand, EraseAt
<1> QED BY <1>1, <1>2 DEF InHand

LEMMA InHandStep == TypeOK /\ InHand /\ [Next]_vars => InHand'
<1> SUFFICES ASSUME TypeOK, InHand, [Next]_vars PROVE InHand'
  OBVIOUS
<1> USE DEF events, locals, history
<1>0. /\ \A p \in Threads : p \in DOMAIN pc /\ p \in DOMAIN ret /\ p \in DOMAIN first
      /\ \A l \in Loops : l \in DOMAIN tmp /\ l \in DOMAIN tasks /\ l \in Threads
  BY DEF TypeOK, Threads
<1>1. ASSUME UNCHANGED <<pc, ret, first, tmp, tasks>>, m_is_cancled \subseteq m_is_cancled'
      PROVE  InHand'
  BY <1>1 DEF InHand, HandAt, EraseAt
<1>2. CASE Tick \/ UNCHANGED vars
  BY <1>1, <1>2 DEF Tick, vars
<1>3. ASSUME NEW e \in TimerEvents, Construct(e) \/ setCancled(e) PROVE InHand'
  BY <1>1, <1>3 DEF Construct, setCancled
<1>4. ASSUME NEW p \in Threads, NEW l \in Loops, NEW e \in TimerEvents,
             addTimerEvent(p, l, e)
      PROVE  InHand'
  <2>1. /\ pc[p] \in {"idle", "callbacks"} /\ UNCHANGED <<first, tmp, tasks, m_is_cancled>>
        /\ m_arrive_time[e] \in Int /\ Emplace(p, l, e, m_arrive_time[e], pc[p])
    BY <1>4 DEF addTimerEvent, CanCall, TypeOK
  <2>2. /\ pc'[p] \in {"copy", pc[p]}
        /\ \A q \in Threads : q # p => pc'[q] = pc[q]
    BY <2>1, EmplaceFacts
  <2>3. ret' = [ret EXCEPT ![p] = pc[p]]
    BY <2>1 DEF Emplace
  <2>4. EraseAt(p)' /\ (p \in Loops => HandAt(p)')
    BY <1>0, <2>1, <2>2, <2>3 DEF InHand, HandAt, EraseAt
  <2> QED BY <2>1, <2>2, <2>3, <2>4, InHandElsewhere
<1>5. ASSUME NEW p \in Threads, NEW l \in Loops, NEW e \in TimerEvents,
             delteTimerEvent(p, l, e)
      PROVE  InHand'
  <2>1. /\ pc[p] \in {"idle", "callbacks"} /\ UNCHANGED <<tmp, tasks>>
        /\ pc' = [pc EXCEPT ![p] = "erase"] /\ ret' = [ret EXCEPT ![p] = pc[p]]
        /\ first' = [first EXCEPT ![p] = e] /\ m_is_cancled' = m_is_cancled \cup {e}
    BY <1>5 DEF delteTimerEvent, CanCall, Goto
  <2>2. EraseAt(p)' /\ (p \in Loops => HandAt(p)')
    BY <1>0, <2>1 DEF InHand, HandAt, EraseAt
  <2> QED BY <2>1, <2>2, InHandElsewhere
<1>6. ASSUME NEW p \in Threads, GoOn(p) PROVE InHand'
  <2>1. /\ pc[p] \in {"copy", "settime", "erase"} /\ UNCHANGED <<ret, tmp, tasks, m_is_cancled>>
        /\ \/ pc' = [pc EXCEPT ![p] = "settime"] /\ pc[p] = "copy"
           \/ pc' = [pc EXCEPT ![p] = ret[p]]
        /\ \A q \in Threads : q # p => first'[q] = first[q]
        /\ ret[p] \in {"idle", "readd", "callbacks"}
    <3>1. CASE CopyPending(p)
      BY <1>0, <3>1 DEF CopyPending, Goto, TypeOK
    <3>2. CASE SetTime(p) \/ EraseEntry(p)
      BY <3>2 DEF SetTime, EraseEntry, Goto, TypeOK
    <3> QED BY <1>6, <3>1, <3>2 DEF GoOn
  <2>2. EraseAt(p)' /\ (p \in Loops => HandAt(p)')
    BY <1>0, <2>1 DEF InHand, HandAt, EraseAt
  <2>3. \A q \in Threads : q # p => pc'[q] = pc[q]
    BY <1>0, <2>1
  <2> QED BY <2>1, <2>2, <2>3, InHandElsewhere
<1>7. ASSUME NEW l \in Loops, OnTimer(l) PROVE InHand'
  <2>0. l \in Threads
    BY <1>0
  <2>1. CASE Trigger(l) \/ ReadExpiry(l)
    <3>1. /\ pc[l] \in {"idle", "ontimer"} /\ UNCHANGED <<ret, first, tmp, tasks, m_is_cancled>>
          /\ pc' \in {[pc EXCEPT ![l] = "ontimer"], [pc EXCEPT ![l] = "collect"]}
      BY <2>1 DEF Trigger, ReadExpiry, Goto
    <3>2. EraseAt(l)' /\ HandAt(l)'
      BY <1>0, <2>0, <3>1 DEF InHand, HandAt, EraseAt
    <3>3. \A q \in Threads : q # l => pc'[q] = pc[q]
      BY <1>0, <3>1
    <3> QED BY <2>0, <3>1, <3>2, <3>3, InHandElsewhere
  <2>2. CASE Collect(l)
    <3>1. /\ UNCHANGED <<ret, first, m_is_cancled>> /\ pc' = [pc EXCEPT ![l] = "readd"]
          /\ \A k \in Loops : k # l => tmp'[k] = tmp[k] /\ tasks'[k] = tasks[k]
      BY <1>0, <2>2 DEF Collect, Goto
    <3>2. EraseAt(l)' /\ HandAt(l)'
      BY <1>0, <2>0, <3>1 DEF InHand, HandAt, EraseAt
    <3>3. \A q \in Threads : q # l => pc'[q] = pc[q]
      BY <1>0, <3>1
    <3> QED BY <2>0, <3>1, <3>2, <3>3, InHandElsewhere
  <2>3. CASE ReaddOne(l)
    <3>1. PICK e \in tmp[l] :
            /\ tmp' = [tmp EXCEPT ![l] = @ \ {e}]
            /\ Emplace(l, l, e, now + Interval[e], "readd")
      BY <2>3 DEF ReaddOne
    <3>2. e \in TimerEvents /\ now + Interval[e] \in Int
      BY EventAssumption DEF TypeOK
    <3>3. /\ pc'[l] \in {"copy", "readd"}
          /\ \A q \in Threads : q # l => pc'[q] = pc[q]
      BY <2>0, <3>1, <3>2, EmplaceFacts
    <3>4. ret' = [ret EXCEPT ![l] = "readd"]
      BY <3>1 DEF Emplace
    <3>5. UNCHANGED <<first, tasks, m_is_cancled>>
      BY <2>3 DEF ReaddOne
    <3>6. EraseAt(l)' /\ HandAt(l)'
      BY <1>0, <2>0, <3>3, <3>4 DEF HandAt, EraseAt
    <3> QED BY <1>0, <2>0, <3>1, <3>3, <3>4, <3>5, <3>6, InHandElsewhere
  <2>4. CASE ReaddDone(l)
    <3>1. /\ pc[l] = "readd" /\ tmp[l] = {} /\ UNCHANGED <<first, tmp, tasks, m_is_cancled>>
          /\ pc' = [pc EXCEPT ![l] = "copy"] /\ ret' = [ret EXCEPT ![l] = "callbacks"]
      BY <2>4 DEF ReaddDone, Goto
    <3>2. EraseAt(l)' /\ HandAt(l)'
      BY <1>0, <2>0, <3>1 DEF InHand, HandAt, EraseAt
    <3> QED BY <2>0, <3>1, <3>2, InHandElsewhere
  <2>5. CASE RunCallback(l)
    <3>1. /\ pc[l] = "callbacks" /\ UNCHANGED <<pc, ret, first, tmp, m_is_cancled>>
          /\ \A k \in Loops : k # l => tasks'[k] = tasks[k]
      BY <1>0, <2>5 DEF RunCallback
    <3>2. EraseAt(l)' /\ HandAt(l)'
      BY <1>0, <2>0, <3>1 DEF InHand, HandAt, EraseAt
    <3> QED BY <2>0, <3>1, <3>2, InHandElsewhere
  <2>6. CASE OnTimerDone(l)
    <3>1. /\ pc[l] = "callbacks" /\ tasks[l] = {}
          /\ UNCHANGED <<ret, first, tmp, tasks, m_is_cancled>>
          /\ pc' = [pc EXCEPT ![l] = "idle"]
      BY <2>6 DEF OnTimerDone, Goto
    <3>2. EraseAt(l)' /\ HandAt(l)'
      BY <1>0, <2>0, <3>1 DEF InHand, HandAt, EraseAt
    <3> QED BY <2>0, <3>1, <3>2, InHandElsewhere
  <2> QED BY <1>7, <2>1, <2>2, <2>3, <2>4, <2>5, <2>6 DEF OnTimer
<1> QED BY <1>2, <1>3, <1>4, <1>5, <1>6, <1>7 DEF Next, Call

(* A step after which every loop has what it had. *)
LEMMA NothingLost ==
  ASSUME EventsKept, added' = added, m_is_cancled \subseteq m_is_cancled', fired \subseteq fired',
         \A l \in Loops :
           /\ \A x \in m_pending_event[l] :
                x \in m_pending_event'[l] \/ x.ev \in m_is_cancled
           /\ tmp[l] \subseteq tmp'[l] /\ tasks[l] \subseteq tasks'[l]
  PROVE  EventsKept'
BY DEF EventsKept

LEMMA KeptInTimer == TypeOK /\ InHand /\ EventsKept /\ [Next]_vars => EventsKept'
<1> SUFFICES ASSUME TypeOK, InHand, EventsKept, [Next]_vars PROVE EventsKept'
  OBVIOUS
<1> USE DEF events, locals, history
<1>1. CASE Tick \/ UNCHANGED vars
  BY <1>1, NothingLost DEF Tick, vars
<1>2. ASSUME NEW e \in TimerEvents, Construct(e) \/ setCancled(e) PROVE EventsKept'
  BY <1>2, NothingLost DEF Construct, setCancled
<1>3. ASSUME NEW p \in Threads, NEW k \in Loops, NEW e \in TimerEvents,
             addTimerEvent(p, k, e)
      PROVE  EventsKept'
  <2>1. /\ pc[p] \in {"idle", "readd", "callbacks"} /\ m_arrive_time[e] \in Int
        /\ Emplace(p, k, e, m_arrive_time[e], pc[p])
        /\ added' = added \cup {<<k, e>>}
        /\ UNCHANGED <<tmp, tasks, fired, m_is_cancled>>
    BY <1>3 DEF addTimerEvent, CanCall, TypeOK
  <2>2. /\ m_pending_event'[k] =
             m_pending_event[k] \cup {[key |-> m_arrive_time[e], ev |-> e]}
        /\ \A l \in Loops : l # k => m_pending_event'[l] = m_pending_event[l]
    BY <2>1, EmplaceFacts
  <2>3. \E x \in m_pending_event'[k] : x.ev = e
    <3> DEFINE r == [key |-> m_arrive_time[e], ev |-> e]
    <3>1. r.ev = e /\ r \in m_pending_event'[k]
      BY <2>2
    <3> QED BY <3>1
  <2> QED BY <2>1, <2>2, <2>3 DEF EventsKept
<1>4. ASSUME NEW p \in Threads, NEW k \in Loops, NEW e \in TimerEvents,
             delteTimerEvent(p, k, e)
      PROVE  EventsKept'
  BY <1>4, NothingLost DEF delteTimerEvent
<1>5. ASSUME NEW p \in Threads, CopyPending(p) \/ SetTime(p) PROVE EventsKept'
  BY <1>5, NothingLost DEF CopyPending, SetTime
<1>6. ASSUME NEW p \in Threads, EraseEntry(p) PROVE EventsKept'
  <2>1. /\ first[p] \in m_is_cancled
        /\ UNCHANGED <<tmp, tasks, fired, m_is_cancled, added>>
        /\ m_pending_event' = [m_pending_event EXCEPT ![timer[p]] =
             @ \ {[key |-> m_arrive_time[first[p]], ev |-> first[p]]}]
    BY <1>6 DEF EraseEntry, InHand, EraseAt
  <2>2. ASSUME NEW l \in Loops, NEW x \in m_pending_event[l]
        PROVE  x \in m_pending_event'[l] \/ x.ev \in m_is_cancled
    <3>1. m_pending_event'[l] \in
            {m_pending_event[l],
             m_pending_event[l] \ {[key |-> m_arrive_time[first[p]], ev |-> first[p]]}}
      BY <2>1 DEF TypeOK
    <3> QED BY <2>1, <3>1
  <2> QED BY <2>1, <2>2, NothingLost
<1>7. ASSUME NEW k \in Loops, OnTimer(k) PROVE EventsKept'
  <2>1. CASE Trigger(k) \/ ReadExpiry(k) \/ ReaddDone(k) \/ OnTimerDone(k)
    BY <2>1, NothingLost DEF Trigger, ReadExpiry, ReaddDone, OnTimerDone
  <2>2. CASE Collect(k)
    <3> DEFINE due == Due(m_pending_event[k], clock[k])
               live == {x.ev : x \in due} \ m_is_cancled
    <3>1. /\ m_pending_event'[k] = m_pending_event[k] \ due
          /\ tmp'[k] = live \cap Repeated /\ tasks'[k] = live
          /\ \A l \in Loops : l # k => /\ m_pending_event'[l] = m_pending_event[l]
                                       /\ tmp'[l] = tmp[l] /\ tasks'[l] = tasks[l]
          /\ UNCHANGED <<added, fired, m_is_cancled>>
      BY <2>2 DEF Collect, TypeOK
    <3>2. tmp[k] = {} /\ tasks[k] = {}
      BY <2>2 DEF Collect, InHand, HandAt
    <3>3. \A x \in due : x.ev \in live \/ x.ev \in m_is_cancled
      OBVIOUS
    <3> HIDE DEF due, live
    <3>4. ASSUME NEW l \in Loops, NEW e \in TimerEvents, <<l, e>> \in added, e \notin m_is_cancled
          PROVE  \/ \E x \in m_pending_event'[l] : x.ev = e
                 \/ e \in Repeated /\ e \in tmp'[l]
                 \/ e \notin Repeated /\ (e \in tasks'[l] \/ <<l, e>> \in fired)
      <4>1. CASE l # k
        BY <3>1, <3>4, <4>1 DEF EventsKept
      <4>2. CASE l = k
        <5>1. (\E x \in m_pending_event[k] : x.ev = e) \/ (e \notin Repeated /\ <<k, e>> \in fired)
          BY <3>2, <3>4, <4>2 DEF EventsKept
        <5>2. ASSUME NEW x \in m_pending_event[k], x.ev = e, x \in due
              PROVE  e \in live
          BY <3>3, <3>4, <5>2
        <5> QED BY <3>1, <4>2, <5>1, <5>2
      <4> QED BY <4>1, <4>2
    <3> QED BY <3>1, <3>4 DEF EventsKept
  <2>3. CASE ReaddOne(k)
    <3>1. PICK e \in tmp[k] :
            /\ tmp' = [tmp EXCEPT ![k] = @ \ {e}]
            /\ Emplace(k, k, e, now + Interval[e], "readd")
      BY <2>3 DEF ReaddOne
    <3>2. e \in TimerEvents /\ now + Interval[e] \in Int /\ k \in Threads
      BY EventAssumption DEF TypeOK, Threads
    <3>3. /\ m_pending_event'[k] =
               m_pending_event[k] \cup {[key |-> now + Interval[e], ev |-> e]}
          /\ \A l \in Loops : l # k => m_pending_event'[l] = m_pending_event[l]
      BY <3>1, <3>2, EmplaceFacts
    <3>4. \E x \in m_pending_event'[k] : x.ev = e
      <4> DEFINE r == [key |-> now + Interval[e], ev |-> e]
      <4>1. r.ev = e /\ r \in m_pending_event'[k]
        BY <3>3
      <4> QED BY <4>1
    <3>5. /\ UNCHANGED <<tasks, added, fired, m_is_cancled>>
          /\ tmp'[k] = tmp[k] \ {e} /\ \A l \in Loops : l # k => tmp'[l] = tmp[l]
      BY <2>3, <3>1 DEF ReaddOne, TypeOK
    <3> QED BY <3>3, <3>4, <3>5 DEF EventsKept
  <2>4. CASE RunCallback(k)
    <3>1. PICK e \in tasks[k] :
            tasks' = [tasks EXCEPT ![k] = @ \ {e}] /\ fired' = fired \cup {<<k, e>>}
      BY <2>4 DEF RunCallback
    <3>2. /\ UNCHANGED <<m_pending_event, tmp, added, m_is_cancled>>
          /\ tasks'[k] = tasks[k] \ {e} /\ \A l \in Loops : l # k => tasks'[l] = tasks[l]
      BY <2>4, <3>1 DEF RunCallback, TypeOK
    <3> QED BY <3>1, <3>2 DEF EventsKept
  <2> QED BY <1>7, <2>1, <2>2, <2>3, <2>4 DEF OnTimer
<1> QED BY <1>1, <1>2, <1>3, <1>4, <1>5, <1>6, <1>7 DEF Next, Call, GoOn

(* With NeverForgotten the safety half of EventuallyFires: an event that   *)
(* is still to run is where an expiry will find it, and the timerfd is     *)
(* armed for it or about to be.                                            *)
THEOREM EventsNeverLost == Spec => []EventsKept
<1>1. Init => InHand /\ EventsKept
  BY DEF Init, InHand, HandAt, EraseAt, EventsKept
<1> QED BY <1>1, TypeCorrect, InHandStep, KeptInTimer, PTL DEF Spec

-----------------------------------------------------------------------------
(* No callback is early.  An event is in a loop's map once, and not while  *)
(* onTimer has still to add it again; it is filed under the arrival time   *)
(* it reports if it never gets another or no other timer can give it one.  *)
OneEntry ==
  \A l \in Loops : \A x, y \in m_pending_event[l] : x.ev = y.ev => x = y

NotBoth ==
  \A l \in Loops : \A x \in m_pending_event[l] : x.ev \notin tmp[l]

Settled(l, e) == e \in Repeated => OnlyIn(l, e)

FiledByArrival ==
  \A l \in Loops : \A x \in m_pending_event[l] :
    Settled(l, x.ev) => x.key = m_arrive_time[x.ev]

Punctual == OneEntry /\ NotBoth /\ FiledByArrival /\ NotEarly

(* A step that adds no entry, moves no arrival time and collects nothing. *)
LEMMA PunctualKept ==
  ASSUME Punctual, TypeOK,
         UNCHANGED <<m_arrive_time, clock, tmp>>, added \subseteq added',
         \A l \in Loops : /\ m_pending_event'[l] \subseteq m_pending_event[l]
                          /\ tasks'[l] \subseteq tasks[l]
  PROVE  Punctual'
<1>1. \A l \in Loops, e \in TimerEvents : OnlyIn(l, e)' => OnlyIn(l, e)
  BY DEF OnlyIn
<1>2. \A l \in Loops : /\ tasks[l] \subseteq TimerEvents
                       /\ \A x \in m_pending_event[l] : x.ev \in TimerEvents
  BY DEF TypeOK, Entries
<1>3. OneEntry' /\ NotBoth'
  BY DEF Punctual, OneEntry, NotBoth
<1>4. FiledByArrival'
  BY <1>1, <1>2 DEF Punctual, FiledByArrival, Settled
<1>5. NotEarly'
  BY <1>1, <1>2 DEF Punctual, NotEarly
<1> QED BY <1>3, <1>4, <1>5 DEF Punctual

(* What exists is constructed no more. *)
LEMMA PunctualConstruct ==
  ASSUME Punctual, TypeOK, Facts, NEW e \in TimerEvents, Construct(e)
  PROVE  Punctual'
<1>1. /\ m_arrive_time[e] = Never
      /\ \A d \in TimerEvents : d # e => m_arrive_time'[d] = m_arrive_time[d]
      /\ UNCHANGED <<m_pending_event, clock, tmp, tasks, added>>
  BY DEF Construct, TypeOK, locals, history
<1>2. \A l \in Loops :
        /\ \A d \in tasks[l] : d \in TimerEvents /\ d # e
        /\ \A x \in m_pending_event[l] : x.ev \in TimerEvents /\ x.ev # e
  <2>1. \A l \in Loops : <<l, e>> \notin added
    BY <1>1 DEF Facts, Known
  <2>2. \A l \in Loops : /\ tasks[l] \subseteq TimerEvents
                         /\ \A x \in m_pending_event[l] : x.ev \in TimerEvents
    BY DEF TypeOK, Entries
  <2> QED BY <2>1, <2>2 DEF Facts, Known
<1>3. OneEntry' /\ NotBoth'
  BY <1>1 DEF Punctual, OneEntry, NotBoth
<1>4. FiledByArrival'
  BY <1>1, <1>2 DEF Punctual, FiledByArrival, Settled, OnlyIn
<1>5. NotEarly'
  BY <1>1, <1>2 DEF Punctual, NotEarly, OnlyIn
<1> QED BY <1>3, <1>4, <1>5 DEF Punctual

(* An event is added to a timer for the first time, which has it nowhere. *)
LEMMA PunctualAdd ==
  ASSUME Punctual, TypeOK, Facts, NEW p \in Threads, NEW k \in Loops,
         NEW e \in TimerEvents, addTimerEvent(p, k, e)
  PROVE  Punctual'
<1> DEFINE r == [key |-> m_arrive_time[e], ev |-> e]
<1>1. /\ pc[p] \in {"idle", "readd", "callbacks"} /\ m_arrive_time[e] \in Int
      /\ <<k, e>> \notin added /\ added' = added \cup {<<k, e>>}
      /\ Emplace(p, k, e, m_arrive_time[e], pc[p])
      /\ UNCHANGED <<m_arrive_time, clock, tmp, tasks>>
  BY DEF addTimerEvent, CanCall, TypeOK, events
<1>2. /\ m_pending_event'[k] = m_pending_event[k] \cup {r}
      /\ \A l \in Loops : l # k => m_pending_event'[l] = m_pending_event[l]
      /\ r.ev = e /\ r.key = m_arrive_time[e]
  BY <1>1, EmplaceFacts
<1> HIDE DEF r
<1>3. /\ e \notin tasks[k] /\ e \notin tmp[k]
      /\ \A x \in m_pending_event[k] : x.ev # e
  BY <1>1 DEF Facts, Known
<1>4. \A l \in Loops, d \in TimerEvents : OnlyIn(l, d)' => OnlyIn(l, d)
  BY <1>1 DEF OnlyIn
<1>5. \A l \in Loops : /\ tasks[l] \subseteq TimerEvents
                       /\ \A x \in m_pending_event[l] : x.ev \in TimerEvents
  BY DEF TypeOK, Entries
<1>6. OneEntry' /\ NotBoth'
  BY <1>1, <1>2, <1>3 DEF Punctual, OneEntry, NotBoth
<1>7. FiledByArrival'
  BY <1>1, <1>2, <1>4, <1>5 DEF Punctual, FiledByArrival, Settled
<1>8. NotEarly'
  BY <1>1, <1>2, <1>3, <1>4, <1>5 DEF Punctual, NotEarly
<1> QED BY <1>6, <1>7, <1>8 DEF Punctual

(* The clock is read when nothing is collected. *)
LEMMA PunctualReadExpiry ==
  ASSUME Punctual, TypeOK, InHand, NEW k \in Loops, ReadExpiry(k)
  PROVE  Punctual'
<1>1. /\ tasks[k] = {} /\ \A l \in Loops : l # k => clock'[l] = clock[l]
      /\ UNCHANGED <<m_arrive_time, m_pending_event, tmp, tasks, added>>
  BY DEF ReadExpiry, InHand, HandAt, TypeOK, events, history
<1>2. OneEntry' /\ NotBoth' /\ FiledByArrival'
  BY <1>1 DEF Punctual, OneEntry, NotBoth, FiledByArrival, Settled, OnlyIn
<1>3. NotEarly'
  BY <1>1 DEF Punctual, NotEarly, OnlyIn
<1> QED BY <1>2, <1>3 DEF Punctual

(* What is collected is due, and its only entry leaves the map. *)
LEMMA PunctualCollect ==
  ASSUME Punctual, TypeOK, InHand, NEW k \in Loops, Collect(k)
  PROVE  Punctual'
<1> DEFINE due == Due(m_pending_event[k], clock[k])
           live == {x.ev : x \in due} \ m_is_cancled
<1>1. /\ m_pending_event'[k] = m_pending_event[k] \ due
      /\ tmp'[k] = live \cap Repeated /\ tasks'[k] = live
      /\ \A l \in Loops : l # k => /\ m_pending_event'[l] = m_pending_event[l]
                                   /\ tmp'[l] = tmp[l] /\ tasks'[l] = tasks[l]
      /\ UNCHANGED <<m_arrive_time, clock, added>>
  BY DEF Collect, TypeOK, events, history
<1>2. due \subseteq m_pending_event[k] /\ \A x \in due : x.key <= clock[k]
  BY DEF Due
<1>3. \A e \in live : \E x \in due : x.ev = e
  OBVIOUS
<1> HIDE DEF due, live
<1>4. OneEntry'
  BY <1>1, <1>2 DEF Punctual, OneEntry
<1>5. NotBoth'
  BY <1>1, <1>2, <1>3 DEF Punctual, OneEntry, NotBoth
<1>6. FiledByArrival'
  BY <1>1, <1>2 DEF Punctual, FiledByArrival, Settled, OnlyIn
<1>7. NotEarly'
  <2>1. \A e \in live : Settled(k, e) => m_arrive_time[e] <= clock[k]
    BY <1>2, <1>3 DEF Punctual, FiledByArrival
  <2>2. \A e \in tasks'[k] : ~(e \in Repeated \ tmp'[k])
    BY <1>1
  <2> QED BY <1>1, <2>1, <2>2 DEF Punctual, NotEarly, Settled, OnlyIn
<1> QED BY <1>4, <1>5, <1>6, <1>7 DEF Punctual

(* A repeated event is filed an interval after a time the clock of onTimer *)
(* has not passed; another timer that has it does not call it its own.     *)
LEMMA PunctualReadd ==
  ASSUME Punctual, TypeOK, Facts, NEW k \in Loops, ReaddOne(k)
  PROVE  Punctual'
<1>1. PICK e \in tmp[k] :
        /\ tmp' = [tmp EXCEPT ![k] = @ \ {e}]
        /\ m_arrive_time' = [m_arrive_time EXCEPT ![e] = now + Interval[e]]
        /\ Emplace(k, k, e, now + Interval[e], "readd")
  BY DEF ReaddOne
<1> DEFINE r == [key |-> now + Interval[e], ev |-> e]
<1>2. /\ e \in Repeated /\ e \in TimerEvents /\ k \in Threads
      /\ now + Interval[e] \in Int /\ now + Interval[e] >= clock[k] + Interval[e]
      /\ <<k, e>> \in added
  BY DEF TypeOK, Threads, Facts, ClockPast, Known
<1>3. /\ m_pending_event'[k] = m_pending_event[k] \cup {r}
      /\ \A l \in Loops : l # k => m_pending_event'[l] = m_pending_event[l]
      /\ r.ev = e /\ r.key = now + Interval[e]
  BY <1>1, <1>2, EmplaceFacts
<1> HIDE DEF r
<1>4. /\ tmp'[k] = tmp[k] \ {e}
      /\ \A l \in Loops : l # k => tmp'[l] = tmp[l]
      /\ m_arrive_time'[e] = now + Interval[e]
      /\ \A d \in TimerEvents : d # e => m_arrive_time'[d] = m_arrive_time[d]
  BY <1>1, <1>2 DEF TypeOK
<1>5. UNCHANGED <<clock, tasks, added>>
  BY DEF ReaddOne, history
<1>6. \A x \in m_pending_event[k] : x.ev # e
  BY <1>1 DEF Punctual, NotBoth
<1>7. \A l \in Loops : l # k => ~OnlyIn(l, e)
  BY <1>2 DEF OnlyIn
<1>8. \A l \in Loops : /\ tasks[l] \subseteq TimerEvents
                       /\ \A x \in m_pending_event[l] : x.ev \in TimerEvents
  BY DEF TypeOK, Entries
<1>9. OneEntry' /\ NotBoth'
  BY <1>3, <1>4, <1>6 DEF Punctual, OneEntry, NotBoth
<1>10. FiledByArrival'
  BY <1>2, <1>3, <1>4, <1>5, <1>6, <1>7, <1>8
     DEF Punctual, FiledByArrival, Settled, OnlyIn
<1>11. NotEarly'
  <2> SUFFICES ASSUME NEW l \in Loops, NEW d \in tasks'[l]
               PROVE  /\ (d \in Repeated => d \in tmp'[l] /\ OnlyIn(l, d)')
                           => m_arrive_time'[d] <= clock'[l]
                      /\ d \in Repeated \ tmp'[l]
                           => \A x \in m_pending_event'[l] :
                                x.ev = d => x.key >= clock'[l] + Interval[d]
    BY DEF NotEarly
  <2>1. d \in TimerEvents /\ (OnlyIn(l, d)' <=> OnlyIn(l, d))
    BY <1>5, <1>8 DEF OnlyIn
  <2>2. CASE d = e /\ l = k
    BY <1>2, <1>3, <1>4, <1>5, <1>6, <2>2
  <2>3. CASE d = e /\ l # k
    BY <1>2, <1>3, <1>4, <1>5, <1>7, <2>1, <2>3 DEF Punctual, NotEarly
  <2>4. CASE d # e
    BY <1>3, <1>4, <1>5, <2>1, <2>4 DEF Punctual, NotEarly
  <2> QED BY <2>2, <2>3, <2>4
<1> QED BY <1>9, <1>10, <1>11 DEF Punctual

LEMMA PunctualStep ==
  TypeOK /\ Facts /\ InHand /\ Punctual /\ [Next]_vars => Punctual'
<1> SUFFICES ASSUME TypeOK, Facts, InHand, Punctual, [Next]_vars
             PROVE  Punctual'
  OBVIOUS
<1>1. CASE Tick \/ UNCHANGED vars
  BY <1>1, PunctualKept DEF Tick, vars, events, locals, history
<1>2. ASSUME NEW e \in TimerEvents, Construct(e) \/ setCancled(e)
      PROVE  Punctual'
  BY <1>2, PunctualConstruct, PunctualKept DEF setCancled, locals, history
<1>3. ASSUME NEW p \in Threads, Call(p) PROVE Punctual'
  <2>1. ASSUME NEW l \in Loops, NEW e \in TimerEvents,
               delteTimerEvent(p, l, e)
        PROVE  Punctual'
    BY <2>1, PunctualKept DEF delteTimerEvent
  <2> QED BY <1>3, <2>1, PunctualAdd DEF Call
<1>4. ASSUME NEW p \in Threads, GoOn(p) PROVE Punctual'
  <2>1. /\ UNCHANGED <<m_arrive_time, clock, tmp, tasks, added>>
        /\ \A l \in Loops : m_pending_event'[l] \subseteq m_pending_event[l]
    BY <1>4 DEF GoOn, CopyPending, SetTime, EraseEntry, TypeOK, events,
                locals, history
  <2> QED BY <2>1, PunctualKept
<1>5. ASSUME NEW l \in Loops, Trigger(l) \/ ReaddDone(l) \/ OnTimerDone(l)
      PROVE  Punctual'
  BY <1>5, PunctualKept
     DEF Trigger, ReaddDone, OnTimerDone, events, locals, history
<1>6. ASSUME NEW l \in Loops, RunCallback(l) PROVE Punctual'
  <2>1. /\ UNCHANGED <<m_arrive_time, clock, tmp, m_pending_event, added>>
        /\ \A k \in Loops : tasks'[k] \subseteq tasks[k]
    BY <1>6 DEF RunCallback, TypeOK, events
  <2> QED BY <2>1, PunctualKept
<1> QED BY <1>1, <1>2, <1>3, <1>4, <1>5, <1>6, PunctualReadExpiry,
           PunctualCollect, PunctualReadd
        DEF Next, OnTimer

(* Whatever onTimer calls back had arrived when it read the clock, and a   *)
(* repeated event is next due a whole interval after that reading or later *)
(* (onTimer, lines 119 to 151), in any number of timers.                   *)
THEOREM NeverEarly == Spec => []NotEarly
<1>1. Init => InHand /\ Punctual
  BY DEF Init, InHand, HandAt, EraseAt, Punctual, OneEntry, NotBoth,
         FiledByArrival, NotEarly
<1>2. Punctual => NotEarly
  BY DEF Punctual
<1> QED BY <1>1, <1>2, TypeCorrect, FactsAlways, InHandStep, PunctualStep,
           PTL DEF Spec
=============================================================================
