------------------------------- MODULE Timer --------------------------------
(***************************************************************************)
(* rocket::Timer (net/timer.cc) and TimerEvent (net/timer_event.cc): the   *)
(* events waiting in m_pending_event, the timerfd that is armed for the    *)
(* first of them, and the callback onTimer the loop runs when it expires.  *)
(*                                                                         *)
(* Any thread may call addTimerEvent and delteTimerEvent of any timer.     *)
(* m_mu protects m_pending_event only: resetArriveTime copies the map      *)
(* under the lock and arms the timerfd after it has let go, so the steps   *)
(* of two threads mix there.  Each timer belongs to one loop and is named  *)
(* by it; its onTimer runs on that loop's thread.                          *)
(*                                                                         *)
(* Time is absolute and in ticks.  Reading the clock and arming relative   *)
(* to it (lines 31 to 48) is one step.  The events of one expiry are       *)
(* re-added and called back in any order, the map's among them.            *)
(***************************************************************************)
EXTENDS Integers, FiniteSets

CONSTANTS Loops,         \* the loops, each with its timer
          Users,         \* threads that are not loops
          TimerEvents,   \* the TimerEvent objects
          Repeated,      \* those with m_is_repeated
          Interval,      \* m_interval of each
          OverdueDelay,  \* the 100 ms of line 36
          LastCall,      \* bound: nobody adds an event after this time
          MaxTime,       \* bound: the clock stops here
          Hurry          \* bound: from here on no tick inside a call

ASSUME ProcAssumption == Loops \cap Users = {}
ASSUME EventAssumption == /\ Repeated \subseteq TimerEvents
                          /\ Interval \in [TimerEvents -> Nat]
ASSUME TimeAssumption == /\ OverdueDelay \in Nat \ {0}
                         /\ LastCall \in Nat /\ MaxTime \in Nat
                         /\ Hurry \in Nat

VARIABLES now,              \* getNowMs
          m_arrive_time,    \* TimerEvent::m_arrive_time, Never before it exists
          m_is_cancled,     \* the events with TimerEvent::m_is_cancled
          m_pending_event,  \* Timer::m_pending_event of each loop
          armed,            \* when the timerfd expires, Never if disarmed
          pc,               \* where each thread is
          ret,              \* where resetArriveTime returns to
          timer,            \* the timer the thread works on
          first,            \* the event the thread works on
          clock,            \* onTimer's local now
          tmp,              \* onTimer's local tmp: events to add again
          tasks,            \* onTimer's local tasks: callbacks to run
          added,            \* bound and history: <<loop, event>> added by a user
          deleted,          \* bound: <<loop, event>> deleted by a user
          fired,            \* history: <<loop, event>> whose callback ran
          fired_cancelled   \* history: ... ran although it was cancelled

locals  == <<ret, timer, first, clock, tmp, tasks>>
history == <<added, deleted, fired, fired_cancelled>>
events  == <<m_arrive_time, m_is_cancled>>
vars    == <<now, events, m_pending_event, armed, pc, locals, history>>

-----------------------------------------------------------------------------
Never == -1

Threads == Loops \cup Users

(* An entry of the multimap. *)
Entries == [key : Int, ev : TimerEvents]

(* The entries begin() may return: those with the smallest key. *)
Begin(map) == {x \in map : \A y \in map : x.key <= y.key}

Expired(l) == armed[l] # Never /\ armed[l] <= now

Goto(p, at) == pc' = [pc EXCEPT ![p] = at]

-----------------------------------------------------------------------------
(* Seeded defects: each is a plausible slip in the definition it is named  *)
(* after, and breaks a property stated at the end of this module.          *)

(* onTimer compares with the clock one tick ahead. *)
DueOneAhead(map, t) == {x \in map : x.key <= t + 1}

(* A past event gives interval 0, which disarms the timerfd. *)
SetTimeZero(p) ==
  /\ pc[p] = "settime"
  /\ LET arrive == m_arrive_time[first[p]]
     IN  armed' = [armed EXCEPT ![timer[p]] =
                     IF arrive > now THEN arrive ELSE Never]
  /\ Goto(p, ret[p])
  /\ UNCHANGED <<now, events, m_pending_event, locals, history>>

(* onTimer forgets isReapted, isCancled, or the erase. *)
CollectAs(l, due, readd, run) ==
  /\ pc[l] = "collect"
  /\ m_pending_event' = [m_pending_event EXCEPT ![l] = @ \ due]
  /\ tmp' = [tmp EXCEPT ![l] = readd]
  /\ tasks' = [tasks EXCEPT ![l] = run]
  /\ Goto(l, "readd")
  /\ UNCHANGED <<now, events, armed, ret, timer, first, clock, history>>

DueEvents(l) == {x.ev : x \in {y \in m_pending_event[l] : y.key <= clock[l]}}

CollectReaddsAll(l) ==
  CollectAs(l, {x \in m_pending_event[l] : x.key <= clock[l]},
            DueEvents(l) \ m_is_cancled, DueEvents(l) \ m_is_cancled)

CollectRunsCancelled(l) ==
  CollectAs(l, {x \in m_pending_event[l] : x.key <= clock[l]},
            DueEvents(l) \cap Repeated, DueEvents(l))

CollectKeepsEntries(l) ==
  CollectAs(l, {}, (DueEvents(l) \ m_is_cancled) \cap Repeated,
            DueEvents(l) \ m_is_cancled)

(* onTimer without its own call of resetArriveTime. *)
ReaddDoneNoReset(l) ==
  /\ pc[l] = "readd" /\ tmp[l] = {}
  /\ Goto(l, "callbacks")
  /\ UNCHANGED <<now, events, m_pending_event, armed, locals, history>>

-----------------------------------------------------------------------------
(* The entries an expiry handled at time t takes. *)
Due(map, t) == {x \in map : x.key <= t}

Init ==
  /\ now = 0
  /\ m_arrive_time = [e \in TimerEvents |-> Never]
  /\ m_is_cancled = {}
  /\ m_pending_event = [l \in Loops |-> {}]
  /\ armed = [l \in Loops |-> Never]
  /\ pc = [p \in Threads |-> "idle"]
  /\ ret = [p \in Threads |-> "idle"]
  /\ timer \in [Threads -> Loops]
  /\ \A l \in Loops : timer[l] = l
  /\ first \in [Threads -> TimerEvents]
  /\ clock = [l \in Loops |-> 0]
  /\ tmp = [l \in Loops |-> {}]
  /\ tasks = [l \in Loops |-> {}]
  /\ added = {} /\ deleted = {} /\ fired = {} /\ fired_cancelled = {}

-----------------------------------------------------------------------------
(* The passing of time. *)
Tick ==
  /\ now < MaxTime
  /\ now >= Hurry => /\ \A p \in Threads : pc[p] = "idle"
                     /\ \A l \in Loops : ~Expired(l)
  /\ now' = now + 1
  /\ UNCHANGED <<events, m_pending_event, armed, pc, locals, history>>

(* TimerEvent's constructor. *)
Construct(e) ==
  /\ m_arrive_time[e] = Never
  /\ m_arrive_time' = [m_arrive_time EXCEPT ![e] = now + Interval[e]]
  /\ UNCHANGED <<now, m_is_cancled, m_pending_event, armed, pc, locals,
                 history>>

(* addTimerEvent under the lock: the event goes into the map, and the      *)
(* thread will arm the timerfd only if the map was empty or the event is   *)
(* earlier than the first one.                                             *)
Emplace(p, l, e, arrive, back) ==
  LET map == m_pending_event[l]
  IN  /\ m_pending_event' = [m_pending_event EXCEPT
                               ![l] = map \cup {[key |-> arrive, ev |-> e]}]
      /\ \/ map = {} /\ Goto(p, "copy")
         \/ \E x \in Begin(map) :
              Goto(p, IF m_arrive_time[x.ev] > arrive THEN "copy" ELSE back)
      /\ ret' = [ret EXCEPT ![p] = back]
      /\ timer' = [timer EXCEPT ![p] = l]

(* resetArriveTime under the lock: nothing to do for an empty map. *)
CopyPending(p) ==
  /\ pc[p] = "copy"
  /\ LET map == m_pending_event[timer[p]]
     IN  \/ map = {} /\ Goto(p, ret[p]) /\ UNCHANGED first
         \/ \E x \in Begin(map) : /\ first' = [first EXCEPT ![p] = x.ev]
                                  /\ Goto(p, "settime")
  /\ UNCHANGED <<now, events, m_pending_event, armed, ret, timer, clock, tmp,
                 tasks, history>>

(* resetArriveTime without the lock: the timerfd is armed for the first    *)
(* event of the copy, and a past event for OverdueDelay from now.          *)
SetTime(p) ==
  /\ pc[p] = "settime"
  /\ LET arrive == m_arrive_time[first[p]]
     IN  armed' = [armed EXCEPT ![timer[p]] =
                     IF arrive > now THEN arrive ELSE now + OverdueDelay]
  /\ Goto(p, ret[p])
  /\ UNCHANGED <<now, events, m_pending_event, locals, history>>

-----------------------------------------------------------------------------
(* The calls of any thread that is not inside a timer: a loop's thread can *)
(* make them from any callback, a timer's callback included.               *)
CanCall(p) == pc[p] \in {"idle", "callbacks"}

addTimerEvent(p, l, e) ==
  /\ CanCall(p)
  /\ now <= LastCall
  /\ m_arrive_time[e] # Never
  /\ <<l, e>> \notin added
  /\ added' = added \cup {<<l, e>>}
  /\ Emplace(p, l, e, m_arrive_time[e], pc[p])
  /\ UNCHANGED <<now, events, armed, first, clock, tmp, tasks, deleted, fired,
                 fired_cancelled>>

(* TimerEvent::setCancled(true): all an answered call does. *)
setCancled(e) ==
  /\ m_arrive_time[e] # Never
  /\ m_is_cancled' = m_is_cancled \cup {e}
  /\ UNCHANGED <<now, m_arrive_time, m_pending_event, armed, pc, locals,
                 history>>

(* delteTimerEvent: the flag first, then the entry, under the lock. *)
delteTimerEvent(p, l, e) ==
  /\ CanCall(p)
  /\ <<l, e>> \in added \ deleted
  /\ deleted' = deleted \cup {<<l, e>>}
  /\ m_is_cancled' = m_is_cancled \cup {e}
  /\ timer' = [timer EXCEPT ![p] = l]
  /\ first' = [first EXCEPT ![p] = e]
  /\ ret' = [ret EXCEPT ![p] = pc[p]]
  /\ Goto(p, "erase")
  /\ UNCHANGED <<now, m_arrive_time, m_pending_event, armed, clock, tmp,
                 tasks, added, fired, fired_cancelled>>

EraseEntry(p) ==
  /\ pc[p] = "erase"
  /\ LET e == first[p]
     IN  m_pending_event' = [m_pending_event EXCEPT
           ![timer[p]] = @ \ {[key |-> m_arrive_time[e], ev |-> e]}]
  /\ Goto(p, ret[p])
  /\ UNCHANGED <<now, events, armed, locals, history>>

-----------------------------------------------------------------------------
(* onTimer, on the loop's thread. *)

(* The loop sees the timerfd readable and queues the callback. *)
Trigger(l) ==
  /\ pc[l] = "idle"
  /\ Expired(l)
  /\ Goto(l, "ontimer")
  /\ UNCHANGED <<now, events, m_pending_event, armed, locals, history>>

(* The expiry is read away, unless the timerfd was armed again meanwhile. *)
ReadExpiry(l) ==
  /\ pc[l] = "ontimer"
  /\ armed' = [armed EXCEPT ![l] = IF Expired(l) THEN Never ELSE @]
  /\ clock' = [clock EXCEPT ![l] = now]
  /\ Goto(l, "collect")
  /\ UNCHANGED <<now, events, m_pending_event, ret, timer, first, tmp, tasks,
                 history>>

(* Under the lock: what is due leaves the map, cancelled or not. *)
Collect(l) ==
  /\ pc[l] = "collect"
  /\ LET due  == Due(m_pending_event[l], clock[l])
         live == {x.ev : x \in due} \ m_is_cancled
     IN  /\ m_pending_event' = [m_pending_event EXCEPT ![l] = @ \ due]
         /\ tmp' = [tmp EXCEPT ![l] = live \cap Repeated]
         /\ tasks' = [tasks EXCEPT ![l] = live]
  /\ Goto(l, "readd")
  /\ UNCHANGED <<now, events, armed, ret, timer, first, clock, history>>

(* A repeated event gets its next arrival time and is added again. *)
ReaddOne(l) ==
  /\ pc[l] = "readd"
  /\ \E e \in tmp[l] :
       /\ tmp' = [tmp EXCEPT ![l] = @ \ {e}]
       /\ m_arrive_time' = [m_arrive_time EXCEPT ![e] = now + Interval[e]]
       /\ Emplace(l, l, e, now + Interval[e], "readd")
  /\ UNCHANGED <<now, m_is_cancled, armed, first, clock, tasks, history>>

(* Then the timerfd is armed for what is left, whatever it is. *)
ReaddDone(l) ==
  /\ pc[l] = "readd"
  /\ tmp[l] = {}
  /\ Goto(l, "copy")
  /\ ret' = [ret EXCEPT ![l] = "callbacks"]
  /\ timer' = [timer EXCEPT ![l] = l]
  /\ UNCHANGED <<now, events, m_pending_event, armed, first, clock, tmp,
                 tasks, history>>

(* The callbacks collected earlier run; m_is_cancled is not looked at. *)
RunCallback(l) ==
  /\ pc[l] = "callbacks"
  /\ \E e \in tasks[l] :
       /\ tasks' = [tasks EXCEPT ![l] = @ \ {e}]
       /\ fired' = fired \cup {<<l, e>>}
       /\ fired_cancelled' =
            fired_cancelled \cup ({<<l, e>>} \cap (Loops \X m_is_cancled))
  /\ UNCHANGED <<now, events, m_pending_event, armed, pc, ret, timer, first,
                 clock, tmp, added, deleted>>

OnTimerDone(l) ==
  /\ pc[l] = "callbacks"
  /\ tasks[l] = {}
  /\ Goto(l, "idle")
  /\ UNCHANGED <<now, events, m_pending_event, armed, locals, history>>

-----------------------------------------------------------------------------
Call(p) == \E l \in Loops, e \in TimerEvents :
             addTimerEvent(p, l, e) \/ delteTimerEvent(p, l, e)

GoOn(p) == CopyPending(p) \/ SetTime(p) \/ EraseEntry(p)

OnTimer(l) ==
  \/ Trigger(l) \/ ReadExpiry(l) \/ Collect(l) \/ ReaddOne(l) \/ ReaddDone(l)
  \/ RunCallback(l) \/ OnTimerDone(l)

Next ==
  \/ Tick
  \/ \E e \in TimerEvents : Construct(e) \/ setCancled(e)
  \/ \E p \in Threads : Call(p) \/ GoOn(p)
  \/ \E l \in Loops : OnTimer(l)

Spec == Init /\ [][Next]_vars

(* Time passes, a loop looks at its descriptors and runs its callbacks, a  *)
(* thread inside a timer goes on.  Nobody has to call.                     *)
Fairness ==
  /\ WF_vars(Tick)
  /\ \A l \in Loops : WF_vars(OnTimer(l))
  /\ \A p \in Threads : WF_vars(GoOn(p))

FairSpec == Spec /\ Fairness

-----------------------------------------------------------------------------
(* Properties *)

TypeOK ==
  /\ now \in 0 .. MaxTime
  /\ m_arrive_time \in [TimerEvents -> Int]
  /\ m_is_cancled \subseteq TimerEvents
  /\ m_pending_event \in [Loops -> SUBSET Entries]
  /\ armed \in [Loops -> Int]
  /\ pc \in [Threads -> {"idle", "copy", "settime", "erase", "ontimer",
                         "collect", "readd", "callbacks"}]
  /\ ret \in [Threads -> {"idle", "readd", "callbacks"}]
  /\ timer \in [Threads -> Loops]
  /\ first \in [Threads -> TimerEvents]
  /\ clock \in [Loops -> 0 .. MaxTime]
  /\ tmp \in [Loops -> SUBSET Repeated]
  /\ tasks \in [Loops -> SUBSET TimerEvents]
  /\ added \subseteq Loops \X TimerEvents
  /\ deleted \subseteq added
  /\ fired \subseteq Loops \X TimerEvents
  /\ fired_cancelled \subseteq fired

(* A thread is on its way to arm the timerfd of l: inside resetArriveTime, *)
(* or in onTimer before its own call of it.                                *)
WillArm(l) ==
  \/ \E p \in Threads : timer[p] = l /\ pc[p] \in {"copy", "settime"}
  \/ pc[l] \in {"collect", "readd"}

(* No event is forgotten: while one is pending, the timerfd is armed or    *)
(* some thread is about to arm it, however addTimerEvent, delteTimerEvent  *)
(* and onTimer interleave.                                                 *)
NeverForgotten ==
  \A l \in Loops : m_pending_event[l] # {} => armed[l] # Never \/ WillArm(l)

(* No other timer was given the event, whose arrival time it would move.   *)
OnlyIn(l, e) == \A k \in Loops \ {l} : <<k, e>> \notin added

(* "will excute at" (timer_event.cc, line 10): whatever is called back, or *)
(* collected to be, had arrived when onTimer read the clock; and once a    *)
(* repeated event is in the map again, its next arrival is a whole         *)
(* interval away from that reading, however long onTimer takes and         *)
(* whoever adds and deletes meanwhile.                                     *)
NotEarly ==
  \A l \in Loops : \A e \in tasks[l] :
    /\ (e \in Repeated => e \in tmp[l] /\ OnlyIn(l, e))
         => m_arrive_time[e] <= clock[l]
    /\ e \in Repeated \ tmp[l]
         => \A x \in m_pending_event[l] :
              x.ev = e => x.key >= clock[l] + Interval[e]

(* A one-shot event whose callback ran on a loop is not pending there, nor *)
(* collected, any more: it cannot run twice, whoever adds and deletes.     *)
OneShotOnce ==
  \A l \in Loops, e \in TimerEvents \ Repeated :
    <<l, e>> \in fired => /\ e \notin tasks[l]
                          /\ \A x \in m_pending_event[l] : x.ev # e

(* A cancelled event may still run once, when the cancellation finds it    *)
(* collected, although delteTimerEvent has returned; never twice, although *)
(* onTimer may have put it back into the map.                              *)
CancelledRunsAtMostOnceMore ==
  \A l \in Loops, e \in TimerEvents :
    <<l, e>> \in fired_cancelled => e \notin tasks[l]

(* Every event that is pending and not cancelled is called back, late      *)
(* arming and dropped updates notwithstanding.                             *)
EventuallyFires ==
  \A l \in Loops, e \in TimerEvents \ Repeated :
    (<<l, e>> \in added)
      ~> (<<l, e>> \in fired \/ e \in m_is_cancled)
=============================================================================
