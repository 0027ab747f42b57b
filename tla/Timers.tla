------------------------------- MODULE Timers -------------------------------
(***************************************************************************)
(* The timers of the firmware (sched.c) with the interrupt of the hardware *)
(* timer that runs them (generic/armcm_timer.c): the ordered list that     *)
(* starts with the timer that is due next, the two timers that are always  *)
(* on it, the stand-in that replaces the head when the head is deleted or  *)
(* overtaken, and the place of the last insertion.  Clocks wrap.           *)
(***************************************************************************)
EXTENDS Integers, Sequences, SequencesExt, SortedSets

CONSTANTS
    Users,              \* timers of steppers, endstops, buttons, ...
    Wrap,               \* number of values of a ticks (2^32 in the code)
    Period,             \* ticks between two runs of periodic_timer
    Ahead,              \* how far ahead of the ticks a timer is asked for
    Latency,            \* ticks that an interrupt is held up at most
    Defer,              \* TIMER_DEFER_REPEAT_TICKS
    TooLate             \* the 1000 us that a timer may be in the past

ASSUME TimersAssumption ==
    /\ Wrap \in Nat /\ Wrap % 2 = 0
    /\ {Period, Ahead, Latency, Defer, TooLate} \subseteq Nat /\ Period > 0 /\ TooLate > 0
    /\ Ahead + Period + Latency + 2 * (TooLate + Defer) < Wrap \div 2
    /\ Users \cap {"periodic", "sentinel", "deleted"} = {}

VARIABLES
    timerList,          \* timer_list, the head first
    wake,               \* waketime of each timer; 0 while it is not listed
    lastInsert,         \* last_insert
    ticks,              \* timer_read_time()
    alarm               \* when the hardware interrupts

timerVars == <<timerList, wake, lastInsert, ticks, alarm>>

Half == Wrap \div 2
Nodes == Users \cup {"periodic", "sentinel", "deleted"}
Clocks == 0..Wrap - 1

After(c, n) == (c + n) % Wrap

\* timer_is_before: the sign of the difference, as 32 bits hold it.
Before(c, d) == (c - d) % Wrap >= Half

Due(c) == ~Before(ticks, c)
HeadTimer == Head(timerList)
Active == Users \cap ToSet(timerList)

\* insert_timer: behind place n of the list s, before the first timer that is later.
Inserted(s, n, t, w, times) ==
    LET later == {i \in n + 1..Len(s) : Before(w, times[s[i]])}
        at == CHOOSE i \in later : \A j \in later : i <= j
    IN  InsertAt(s, at, t)

Place(s, t) == CHOOSE i \in DOMAIN s : s[i] = t

-----------------------------------------------------------------------------
TimerInit ==
    /\ timerList = <<"periodic", "sentinel">>
    /\ wake = [t \in Nodes |-> IF t = "sentinel" THEN Half ELSE 0]
    /\ lastInsert = "periodic"
    /\ ticks = 0
    /\ alarm = 0

\* Mutation: timer_kick that leaves the hardware as it is
NoKick == UNCHANGED alarm

\* timer_kick: an interrupt at once, unless one is pending
Kick == alarm' = IF Due(alarm) THEN alarm ELSE ticks

\* sched_timer_reset: what a shutdown leaves of the list.
ResetTimers ==
    /\ timerList' = <<"deleted", "periodic", "sentinel">>
    /\ wake' = [t \in Nodes |-> CASE t \in Users -> 0
                                  [] t = "deleted" -> wake["periodic"]
                                  [] OTHER -> wake[t]]
    /\ lastInsert' = "periodic"
    /\ Kick
    /\ UNCHANGED ticks

\* The times a task or a callback may ask for.
WantedTimes == {After(ticks, d) : d \in -1..Ahead}

\* sched_add_timer from a task, when the new timer comes first: the hardware is
\* kicked and runs the stand-in, after which it knows the time of the new one.
AddFirst(t, w) ==
    /\ t \notin Active
    /\ Before(w, wake[HeadTimer])
    /\ IF Before(w, ticks)
       THEN ResetTimers                 \* "Timer too close"
       ELSE /\ timerList' = <<"deleted", t>> \o
                    (IF HeadTimer = "deleted" THEN Tail(timerList) ELSE timerList)
            /\ wake' = [wake EXCEPT ![t] = w, !["deleted"] = w]
            /\ Kick
            /\ UNCHANGED <<lastInsert, ticks>>

\* sched_add_timer otherwise
AddLater(t, w) ==
    /\ t \notin Active
    /\ ~Before(w, wake[HeadTimer])
    /\ timerList' = Inserted(timerList, 1, t, w, wake)
    /\ wake' = [wake EXCEPT ![t] = w]
    /\ UNCHANGED <<lastInsert, ticks, alarm>>

\* What sched_del_timer makes of the list, the times and the last insertion.
Without(t, s) == IF Head(s) = t THEN <<"deleted">> \o Tail(s)
                                ELSE Remaining(s, {t})
StoppedTimes(t, times, s) == [times EXCEPT ![t] = 0,
                              !["deleted"] = IF Head(s) = t THEN times[t] ELSE @]
KeptInsert(T) == IF lastInsert \in T THEN "periodic" ELSE lastInsert

\* sched_del_timer from a task, whether or not the timer is listed
Delete(t) ==
    /\ timerList' = Without(t, timerList)
    /\ wake' = StoppedTimes(t, wake, timerList)
    /\ lastInsert' = KeptInsert({t})
    /\ UNCHANGED <<ticks, alarm>>

\* The hardware is set for the next timer; or soon, when that is due, tasks wait and
\* it is not yet so late that the firmware shuts down ("Rescheduled timer in the past").
SetAlarm(next) ==
    \/ alarm' = next
    \/ /\ Due(next) /\ ~Before(After(next, TooLate), ticks)
       /\ alarm' = After(ticks, Defer)

\* sched_timer_dispatch when the function returns SF_DONE; it may stop another timer
\* (stepper_stop), which is not the head.
DispatchDone ==
    /\ Due(alarm)
    /\ HeadTimer \in Users \cup {"deleted"}
    /\ \E stopped \in SUBSET (Active \ {HeadTimer}) :
          LET rest == Remaining(Tail(timerList), stopped)
              gone == stopped \cup {HeadTimer}
          IN  /\ timerList' = rest
              /\ wake' = [u \in Nodes |-> IF u \in gone THEN 0 ELSE wake[u]]
              /\ lastInsert' = IF KeptInsert(stopped) = HeadTimer THEN Head(rest)
                                                                  ELSE KeptInsert(stopped)
              /\ SetAlarm(wake[Head(rest)])
    /\ UNCHANGED ticks

\* The end of sched_timer_dispatch after SF_RESCHEDULE with the new time w.
Reschedule(w, times) ==
    LET rest == Tail(timerList)
        from == IF lastInsert = HeadTimer THEN 0
                ELSE IF Before(w, times[lastInsert]) THEN 1 ELSE Place(rest, lastInsert)
    IN  /\ wake' = [times EXCEPT ![HeadTimer] = w]
        /\ IF Before(w, times[Head(rest)])
           THEN /\ SetAlarm(w)
                /\ UNCHANGED <<timerList, lastInsert>>
           ELSE /\ timerList' = Inserted(rest, from, HeadTimer, w, times)
                /\ lastInsert' = HeadTimer
                /\ SetAlarm(times[Head(rest)])
        /\ UNCHANGED ticks

\* sched_timer_dispatch when a user's function asks to be called again
DispatchAgain ==
    /\ Due(alarm)
    /\ HeadTimer \in Users
    /\ \E w \in WantedTimes : Reschedule(w, wake)

\* periodic_event, which moves the sentinel along
DispatchPeriodic ==
    /\ Due(alarm)
    /\ HeadTimer = "periodic"
    /\ LET w == After(wake["periodic"], Period)
       IN  Reschedule(w, [wake EXCEPT !["sentinel"] = After(w, Half)])

\* run_shutdown, from any other cause
ShutdownTimers == ResetTimers

\* An interrupt is held up for at most Latency ticks.
TimerTick ==
    /\ Before(ticks, After(alarm, Latency))
    /\ ticks' = After(ticks, 1)
    /\ UNCHANGED <<timerList, wake, lastInsert, alarm>>

TimerNext ==
    \/ \E t \in Users, w \in WantedTimes : AddFirst(t, w) \/ AddLater(t, w)
    \/ \E t \in Users : Delete(t)
    \/ DispatchDone \/ DispatchAgain \/ DispatchPeriodic
    \/ ShutdownTimers
    \/ TimerTick

TimerSpec == TimerInit /\ [][TimerNext]_timerVars

-----------------------------------------------------------------------------
\* The list is in the order of time, holds every timer once and ends with the sentinel,
\* whose function shuts the printer down; the place of the last insertion is on it, from
\* which insert_timer goes on.
ListOrdered ==
    /\ \A i \in 1..Len(timerList) - 2 :
          ~Before(wake[timerList[i + 1]], wake[timerList[i]])
    /\ \A i, j \in DOMAIN timerList : timerList[i] = timerList[j] => i = j
    /\ Last(timerList) = "sentinel" /\ "periodic" \in ToSet(timerList)
    /\ HeadTimer # "sentinel" /\ lastInsert \in ToSet(timerList)

\* No function is called before its time: whenever the hardware interrupts, kicked or
\* set for a timer that was deleted since, the head is due or only the stand-in.
NeverEarly == Due(alarm) => HeadTimer = "deleted" \/ Due(wake[HeadTimer])

\* No timer is missed: the hardware interrupts by the time of the head, or as much
\* later as tasks get when too many timers are due.
NeverMissed == ~Before(After(wake[HeadTimer], TooLate + Defer), alarm)

\* Timers run in order, none too early and none too late, however they are added,
\* deleted and rescheduled while the clock wraps (sched.c:62-232).
TimersRight == ListOrdered /\ NeverEarly /\ NeverMissed
=============================================================================
