------------------------------ MODULE Reactor -------------------------------
(***************************************************************************)
(* The reactor of klippy (reactor.py): timers, greenlets that pause inside *)
(* a callback, ReactorMutex and ReactorCompletion.                         *)
(*                                                                         *)
(* One greenlet runs at a time.  The dispatch greenlet passes over the     *)
(* timers and calls those that are due.  A callback that pauses leaves its *)
(* greenlet with the pass it was in, and another greenlet goes on as       *)
(* dispatcher; the pause is a timer of its own.  What callbacks do is      *)
(* arbitrary.  A pass goes over the timers in any order.                   *)
(***************************************************************************)
EXTENDS Integers, Sequences, FiniteSets, Functions

CONSTANTS
    ReactorTimers,      \* registered timers: positive numbers
    Greenlets,          \* bound of the model: callbacks under way at a time;
                        \* other positive numbers
    LastTime            \* bound of the model: the clock stops

ASSUME ReactorAssumption ==
    /\ ReactorTimers \subseteq Nat \ {0} /\ Greenlets \subseteq Nat \ {0}
    /\ ReactorTimers \cap Greenlets = {}
    /\ LastTime \in Nat

Never == LastTime + 1
Times == 0..Never       \* 0 is NOW, which is always past
Nobody == 0             \* no greenlet, no timer
File  == -1             \* stands for the timer of a file descriptor's callback

VARIABLES
    clock,              \* monotonic()
    waketime,           \* of each timer, and of the pause of each greenlet
    nextTimer,          \* _next_timer
    pass,               \* timers the pass of the dispatcher has yet to look at
    passTime,           \* its eventtime
    runs,               \* greenlet whose callback runs, or Nobody
    callback,           \* the timer whose callback each greenlet is in, or Nobody
    paused,             \* greenlets whose pause has a timer
    isLocked, nextPending, mutexQueue,     \* ReactorMutex
    mutexHolder,        \* history: the greenlet that locked it last
    completed,          \* a ReactorCompletion has its result
    completionWaits     \* its list "waiting"

mutexVars == <<isLocked, nextPending, mutexQueue, mutexHolder>>
completionVars == <<completed, completionWaits>>
reactorVars == <<clock, waketime, nextTimer, pass, passTime, runs, callback,
                 paused, mutexVars, completionVars>>

ReactorInit ==
    /\ clock = 0 /\ nextTimer = 0
    /\ waketime = [t \in ReactorTimers \cup Greenlets |-> IF t \in ReactorTimers THEN 0 ELSE Never]
    /\ pass = {} /\ passTime = 0 /\ runs = Nobody
    /\ callback = [g \in Greenlets |-> Nobody] /\ paused = {}
    /\ isLocked = FALSE /\ nextPending = FALSE /\ mutexQueue = << >>
    /\ mutexHolder = Nobody
    /\ completed = FALSE /\ completionWaits = {}

Registered == ReactorTimers \cup paused
Earlier(a, b) == IF a < b THEN a ELSE b
Free == {g \in Greenlets : callback[g] = Nobody}

Dispatching == runs = Nobody

-----------------------------------------------------------------------------
(* The dispatcher.                                                         *)

ClockTicks ==
    /\ clock < LastTime /\ clock' = clock + 1
    /\ UNCHANGED <<waketime, nextTimer, pass, passTime, runs, callback, paused,
                   mutexVars, completionVars>>

\* _check_timers when the next timer is due.
StartPass ==
    /\ Dispatching /\ pass = {} /\ clock >= nextTimer
    /\ nextTimer' = Never
    /\ pass' = Registered /\ passTime' = clock
    /\ UNCHANGED <<clock, waketime, runs, callback, paused, mutexVars,
                   completionVars>>

\* Which greenlet runs when timer t is called.
Called(t) ==
    IF t \in Greenlets
    THEN runs' = t /\ UNCHANGED callback
    ELSE \E g \in Free : /\ \A f \in Free : g <= f
                         /\ runs' = g
                         /\ callback' = [callback EXCEPT ![g] = t]

HandedOver == FALSE

\* A step of the pass.  A greenlet that waited for the mutex or the completion
\* leaves the list it was in.
Visit(t) ==
    /\ Dispatching /\ t \in pass /\ pass' = pass \ {t}
    /\ IF passTime >= waketime[t]
       THEN /\ Called(t)
            /\ waketime' = [waketime EXCEPT ![t] = Never]
            /\ completionWaits' = completionWaits \ {t}
            /\ IF nextPending /\ Head(mutexQueue) = t
               THEN /\ nextPending' = HandedOver
                    /\ mutexQueue' = Tail(mutexQueue)
                    /\ mutexHolder' = t
                    /\ UNCHANGED isLocked
               ELSE UNCHANGED mutexVars
            /\ UNCHANGED nextTimer
       ELSE /\ nextTimer' = Earlier(nextTimer, waketime[t])
            /\ UNCHANGED <<waketime, runs, callback, mutexVars, completionWaits>>
    /\ UNCHANGED <<clock, passTime, paused, completed>>

\* A file descriptor is ready between two passes.
FileReady ==
    /\ Dispatching /\ pass = {} /\ Called(File)
    /\ UNCHANGED <<clock, waketime, nextTimer, pass, passTime, paused, mutexVars,
                   completionVars>>

-----------------------------------------------------------------------------
(* What a callback does.                                                   *)

\* Mutant of Soonest: update_timer changes the waketime only.
NotSooner(w) == nextTimer

Soonest(w) == Earlier(nextTimer, w)

\* update_timer.
UpdateTimer(g, t, w) ==
    /\ runs = g
    /\ waketime' = [waketime EXCEPT ![t] = w] /\ nextTimer' = Soonest(w)
    /\ UNCHANGED <<clock, pass, passTime, runs, callback, paused, mutexVars,
                   completionVars>>

\* Mutant of PassAnew: the new dispatcher relies on _next_timer.
PassLater == nextTimer

PassAnew == 0

\* pause: a greenlet that was the dispatcher leaves its pass to a new one,
\* another one switches back to the pass that called it.
Pauses(g, w) ==
    /\ waketime' = [waketime EXCEPT ![g] = w]
    /\ runs' = Nobody
    /\ IF g \in paused
       THEN nextTimer' = Soonest(w) /\ UNCHANGED <<pass, paused>>
       ELSE nextTimer' = PassAnew /\ pass' = {} /\ paused' = paused \cup {g}

Pause(g, w) ==
    /\ runs = g /\ Pauses(g, w)
    /\ UNCHANGED <<clock, passTime, callback, mutexVars, completionVars>>

\* The callback is over: its pass goes on, or, when it has paused, its greenlet
\* ends and the pass that called it last goes on.  The next waketime is what
\* the callback returns.
Return(g, w) ==
    /\ runs = g /\ runs' = Nobody
    /\ mutexHolder # g
    /\ callback' = [callback EXCEPT ![g] = Nobody]
    /\ paused' = paused \ {g}
    /\ IF callback[g] = File
       THEN UNCHANGED <<waketime, nextTimer>>
       ELSE /\ waketime' = [waketime EXCEPT ![callback[g]] = w, ![g] = Never]
            /\ nextTimer' = Soonest(w)
    /\ UNCHANGED <<clock, pass, passTime, mutexVars, completionVars>>

-----------------------------------------------------------------------------
(* ReactorMutex: the lock is not free between __exit__ and the moment the  *)
(* next greenlet runs.                                                     *)

Lock(g) ==
    /\ runs = g /\ mutexHolder # g
    /\ IF ~isLocked
       THEN /\ isLocked' = TRUE /\ mutexHolder' = g
            /\ UNCHANGED <<nextPending, mutexQueue, waketime, runs, nextTimer,
                           pass, paused>>
       ELSE /\ mutexQueue' = Append(mutexQueue, g)
            /\ Pauses(g, Never)
            /\ UNCHANGED <<isLocked, nextPending, mutexHolder>>
    /\ UNCHANGED <<clock, passTime, callback, completionVars>>

\* Mutant of Unlocked: the mutex is free until the next greenlet runs.
FreeAtOnce == FALSE

Unlocked == isLocked

Unlock(g) ==
    /\ runs = g /\ mutexHolder = g
    /\ mutexHolder' = Nobody
    /\ IF mutexQueue = << >>
       THEN isLocked' = FALSE /\ UNCHANGED <<nextPending, waketime, nextTimer>>
       ELSE /\ nextPending' = TRUE /\ isLocked' = Unlocked
            /\ waketime' = [waketime EXCEPT ![Head(mutexQueue)] = 0]
            /\ nextTimer' = Soonest(0)
    /\ UNCHANGED <<clock, pass, passTime, runs, callback, paused, mutexQueue,
                   completionVars>>

-----------------------------------------------------------------------------
(* ReactorCompletion.                                                      *)

WaitCompletion(g, w) ==
    /\ runs = g /\ ~completed
    /\ completionWaits' = completionWaits \cup {g}
    /\ Pauses(g, w)
    /\ UNCHANGED <<clock, passTime, callback, mutexVars, completed>>

Complete(g) ==
    /\ runs = g /\ ~completed /\ completed' = TRUE
    /\ waketime' = [t \in DOMAIN waketime |->
                       IF t \in completionWaits THEN 0 ELSE waketime[t]]
    /\ nextTimer' = IF completionWaits = {} THEN nextTimer ELSE Soonest(0)
    /\ UNCHANGED <<clock, pass, passTime, runs, callback, paused, mutexVars,
                   completionWaits>>

Acts(g) ==
    \/ \E t \in ReactorTimers, w \in Times : UpdateTimer(g, t, w)
    \/ \E w \in Times : Pause(g, w) \/ Return(g, w)
    \/ \E w \in Times : WaitCompletion(g, w)
    \/ Lock(g) \/ Unlock(g) \/ Complete(g)

ReactorNext ==
    \/ ClockTicks \/ StartPass \/ FileReady
    \/ \E t \in ReactorTimers \cup Greenlets : Visit(t)
    \/ \E g \in Greenlets : Acts(g)

ReactorSpec == ReactorInit /\ [][ReactorNext]_reactorVars

-----------------------------------------------------------------------------
(* Properties.                                                             *)

\* Before the dispatcher sleeps no timer is due earlier than it believes, so
\* none is called late, however callbacks pause, return and change timers
\* (reactor.py:118-162, 206-234).
NoTimerLost ==
    Dispatching /\ pass = {} => \A t \in Registered : nextTimer <= waketime[t]

\* A greenlet that the mutex was handed to is woken, and whoever waits for the
\* mutex or for a completion is not woken by anything else
\* (reactor.py:23-38, 74-91).
WaitersPaused ==
    /\ Range(mutexQueue) \cup completionWaits \subseteq paused
    /\ nextPending => mutexQueue # << >> /\ waketime[Head(mutexQueue)] = 0
    /\ \A i \in DOMAIN mutexQueue :
          ~(nextPending /\ i = 1) => waketime[mutexQueue[i]] = Never
    /\ completed => \A g \in completionWaits : waketime[g] = 0

\* Neither a timer nor a greenlet that waits is forgotten or woken for nothing
\* (reactor.py:23-38, 74-91, 118-162).
NobodyForgotten == NoTimerLost /\ WaitersPaused

\* The mutex implements a lock that is handed on in order.
Fifo == INSTANCE FifoLock WITH
            Clients <- Greenlets, Nobody <- Nobody,
            owner   <- IF nextPending THEN Head(mutexQueue) ELSE mutexHolder,
            waiting <- IF nextPending THEN Tail(mutexQueue) ELSE mutexQueue

ImplementsFifo == Fifo!LockSpec
=============================================================================
