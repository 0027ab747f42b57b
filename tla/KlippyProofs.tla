---------------------------- MODULE KlippyProofs ----------------------------
(* Proofs about Reactor, Session, PrintTime, SaveVariables, Runout and     *)
(* Rollback. For any number of timers and greenlets no timer is missed,    *)
(* nobody who waits is forgotten, and the mutex is a lock that is handed   *)
(* on in order; a printer that is ready has the configuration that was     *)
(* read; the toolhead neither runs dry nor far ahead of the time of the    *)
(* micro-controller; a power loss loses nothing of the variables that are  *)
(* saved; filament that runs out is noticed once; and what was extruded    *)
(* without filament is printed again.                                      *)
EXTENDS Reactor, Session, PrintTime, SaveVariables, Runout, Rollback, SequenceLemmas,
        SequenceTheorems, FiniteSetTheorems, TLAPS

Wakers == ReactorTimers \cup Greenlets

ReactorTypeOK ==
    /\ clock \in 0..LastTime /\ passTime \in 0..LastTime
    /\ waketime \in [Wakers -> Times]
    /\ nextTimer \in Times
    /\ pass \subseteq Wakers
    /\ runs \in Greenlets \cup {Nobody}
    /\ callback \in [Greenlets -> ReactorTimers \cup {Nobody, File}]
    /\ paused \subseteq Greenlets
    /\ isLocked \in BOOLEAN /\ nextPending \in BOOLEAN
    /\ mutexQueue \in Seq(Greenlets)
    /\ mutexHolder \in Greenlets \cup {Nobody}
    /\ completed \in BOOLEAN /\ completionWaits \subseteq Greenlets

\* A greenlet that runs, that paused or that has the mutex is in a callback, so
\* no other callback is given to it.
InCallback ==
    /\ \A g \in paused : callback[g] # Nobody
    /\ runs # Nobody => callback[runs] # Nobody

\* What the pass has looked at is not due before _next_timer, in the middle of a
\* pass and of a callback as well.
PassedOver ==
    /\ pass \subseteq Registered \ {runs}
    /\ \A t \in Registered \ pass : nextTimer <= waketime[t]

\* A greenlet waits in one place of one list, and does not run.
WaitsOnce ==
    /\ \A i, k \in DOMAIN mutexQueue : mutexQueue[i] = mutexQueue[k] => i = k
    /\ \A i \in DOMAIN mutexQueue : /\ mutexQueue[i] \in paused
                                    /\ mutexQueue[i] # runs
                                    /\ mutexQueue[i] # mutexHolder
                                    /\ mutexQueue[i] \notin completionWaits
    /\ completionWaits \subseteq paused /\ runs \notin completionWaits

\* The mutex is locked from the first __enter__ until nobody wants it.
LockedBySomebody ==
    /\ isLocked <=> (mutexHolder # Nobody \/ nextPending)
    /\ nextPending => mutexHolder = Nobody /\ mutexQueue # << >>
    /\ mutexQueue # << >> => isLocked

\* Who is handed the mutex is due, who waits for it is not, and those that wait
\* for a completion are due once it has its result.
WaitersWoken ==
    /\ \A i \in DOMAIN mutexQueue :
          waketime[mutexQueue[i]] = IF nextPending /\ i = 1 THEN 0 ELSE Never
    /\ completed => \A g \in completionWaits : waketime[g] = 0

ReactorInv ==
    /\ ReactorTypeOK /\ InCallback /\ PassedOver
    /\ WaitsOnce /\ LockedBySomebody /\ WaitersWoken

-----------------------------------------------------------------------------
(* The invariant holds at first and is preserved.                          *)

LEMMA TimesFacts ==
    /\ LastTime \in Nat /\ Never \in Times /\ Never > LastTime
    /\ 0 \in Times /\ Times \subseteq Nat /\ 0..LastTime \subseteq Times
    /\ \A w \in Times : w >= 0 /\ w <= Never
    /\ \A a, b \in Times : /\ Earlier(a, b) \in Times
                            /\ Earlier(a, b) <= a /\ Earlier(a, b) <= b
                            /\ Earlier(a, 0) = 0
BY ReactorAssumption DEF Times, Never, Earlier

LEMMA NamesDiffer ==
    /\ File # Nobody
    /\ \A g \in Greenlets : g # Nobody /\ g # File /\ g \notin ReactorTimers
    /\ \A t \in ReactorTimers : t # Nobody /\ t # File /\ t \notin Greenlets
BY ReactorAssumption DEF Nobody, File

\* At first nobody waits and every timer is due.
LEMMA ReactorInitInv == ReactorInit => ReactorInv
<1> SUFFICES ASSUME ReactorInit PROVE ReactorInv
  OBVIOUS
<1> USE TimesFacts, NamesDiffer DEF ReactorInit
<1>1. ReactorTypeOK
  <2>1. waketime \in [Wakers -> Times]
    BY DEF Wakers
  <2>2. clock \in 0..LastTime /\ nextTimer \in Times
    OBVIOUS
  <2>3. mutexQueue \in Seq(Greenlets)
    OBVIOUS
  <2> QED  BY <2>1, <2>2, <2>3 DEF ReactorTypeOK, mutexVars
<1>2. InCallback /\ WaitsOnce /\ LockedBySomebody /\ WaitersWoken
  BY DEF InCallback, WaitsOnce, LockedBySomebody, WaitersWoken
<1>3. PassedOver
  BY DEF PassedOver, Registered
<1> QED  BY <1>1, <1>2, <1>3 DEF ReactorInv

\* Which greenlet runs after a call, and what stays of the callbacks.
LEMMA CalledFacts ==
  ASSUME NEW t \in ReactorTimers \cup Greenlets \cup {File}, Called(t),
         ReactorTypeOK, t \in Greenlets => callback[t] # Nobody
  PROVE  /\ runs' \in Greenlets /\ callback'[runs'] # Nobody
         /\ callback' \in [Greenlets -> ReactorTimers \cup {Nobody, File}]
         /\ \A g \in Greenlets : callback[g] # Nobody => callback'[g] # Nobody
         /\ runs' = t \/ callback[runs'] = Nobody
<1> USE NamesDiffer DEF ReactorTypeOK
<1>1. CASE t \in Greenlets
  BY <1>1 DEF Called
<1>2. CASE t \notin Greenlets
  <2> PICK g \in Free : runs' = g /\ callback' = [callback EXCEPT ![g] = t]
    BY <1>2 DEF Called
  <2> QED  BY <1>2 DEF Free
<1> QED  BY <1>1, <1>2

\* A visit of a timer or of a greenlet's pause.
LEMMA VisitInv ==
  ASSUME ReactorInv, NEW t \in Wakers, Visit(t)
  PROVE  ReactorInv'
<1> USE NamesDiffer DEF ReactorInv
<1>t. t \in Registered \ {runs} /\ runs = Nobody
  BY DEF Visit, PassedOver, Dispatching
<1>w. /\ waketime[t] \in Times /\ nextTimer \in Times /\ nextTimer <= Never
      /\ waketime \in [Wakers -> Times] /\ Registered \subseteq Wakers
      /\ passTime < Never /\ passTime \in Nat /\ Never \in Times /\ Times \subseteq Nat
  BY TimesFacts DEF ReactorTypeOK, Registered, Wakers
<1>1. CASE ~(passTime >= waketime[t])
  <2>1. /\ nextTimer' = Earlier(nextTimer, waketime[t]) /\ pass' = pass \ {t}
        /\ UNCHANGED <<clock, passTime, waketime, runs, callback, paused, isLocked,
                       nextPending, mutexQueue, mutexHolder, completed, completionWaits>>
    BY <1>1 DEF Visit, mutexVars
  <2>2. ReactorTypeOK' /\ InCallback'
    <3>1. nextTimer' \in Times
      BY <1>w, <2>1, TimesFacts
    <3> QED  BY <2>1, <3>1 DEF ReactorTypeOK, InCallback
  <2>3. PassedOver'
    <3>1. Registered' = Registered
      BY <2>1 DEF Registered
    <3>2. ASSUME NEW r \in Registered \ pass'  PROVE nextTimer' <= waketime'[r]
      <4>1. nextTimer' <= nextTimer /\ nextTimer' <= waketime[t] /\ nextTimer' \in Nat
        BY <1>w, <2>1, TimesFacts
      <4>2. r = t \/ nextTimer <= waketime[r]
        BY <2>1 DEF PassedOver
      <4>3. waketime[r] \in Nat /\ nextTimer \in Nat /\ waketime' = waketime
        BY <1>w, <2>1
      <4> QED  BY <4>1, <4>2, <4>3
    <3> QED  BY <2>1, <3>1, <3>2 DEF PassedOver
  <2>4. WaitsOnce' /\ LockedBySomebody' /\ WaitersWoken'
    BY <2>1 DEF WaitsOnce, LockedBySomebody, WaitersWoken
  <2> QED  BY <2>2, <2>3, <2>4
<1>2. CASE passTime >= waketime[t]
  <2>1. /\ Called(t) /\ pass' = pass \ {t}
        /\ waketime' = [waketime EXCEPT ![t] = Never]
        /\ completionWaits' = completionWaits \ {t}
        /\ UNCHANGED <<clock, passTime, nextTimer, paused, completed, isLocked>>
    BY <1>2 DEF Visit, mutexVars
  <2>2. /\ runs' \in Greenlets /\ callback'[runs'] # Nobody
        /\ callback' \in [Greenlets -> ReactorTimers \cup {Nobody, File}]
        /\ \A g \in Greenlets : callback[g] # Nobody => callback'[g] # Nobody
        /\ runs' = t \/ runs' \notin paused
    <3>1. t \in Greenlets => callback[t] # Nobody
      BY <1>t DEF InCallback, Registered
    <3> QED  BY <2>1, <3>1, CalledFacts DEF Wakers, InCallback, ReactorTypeOK
  <2>3. waketime[t] # Never
    BY <1>2, <1>w
  <2>7. waketime' \in [Wakers -> Times] /\ pass' \subseteq Wakers
        /\ completionWaits' \subseteq Greenlets
    BY <1>w, <2>1 DEF ReactorTypeOK
  <2>6. PassedOver'
    <3>1. Registered' = Registered /\ pass' \subseteq Registered' \ {runs'}
      BY <1>t, <2>1, <2>2, NamesDiffer DEF Registered, PassedOver
    <3>2. ASSUME NEW r \in Registered \ pass'  PROVE nextTimer' <= waketime'[r]
      <4>1. r = t \/ nextTimer <= waketime[r]
        BY <2>1 DEF PassedOver
      <4> QED  BY <1>w, <2>1, <4>1
    <3> QED  BY <3>1, <3>2 DEF PassedOver
  <2>4. CASE nextPending /\ Head(mutexQueue) = t
    <3>1. nextPending' = FALSE /\ mutexQueue' = Tail(mutexQueue) /\ mutexHolder' = t
      BY <1>2, <2>4 DEF Visit, HandedOver
    <3>2. /\ mutexQueue # << >> /\ mutexHolder = Nobody /\ isLocked
          /\ t = mutexQueue[1] /\ t \in Greenlets /\ 1 \in DOMAIN mutexQueue
      BY <2>4 DEF LockedBySomebody, ReactorTypeOK
    <3>3. /\ mutexQueue' \in Seq(Greenlets)
          /\ \A i \in DOMAIN mutexQueue' : /\ i + 1 \in DOMAIN mutexQueue
                                           /\ i + 1 # 1
                                           /\ mutexQueue'[i] = mutexQueue[i + 1]
      BY <3>1, <3>2 DEF ReactorTypeOK
    <3>4. ReactorTypeOK'
      BY <2>1, <2>2, <2>7, <3>1, <3>2, <3>3 DEF ReactorTypeOK
    <3>5. InCallback'
      BY <2>1, <2>2 DEF InCallback, ReactorTypeOK
    <3>6. PassedOver'
      BY <2>6
    <3>7. WaitsOnce'
      <4>1. runs' = t
        BY <3>2, <2>1 DEF Called
      <4>2. \A i \in DOMAIN mutexQueue' : mutexQueue'[i] # t
        BY <3>2, <3>3 DEF WaitsOnce
      <4>3. \A i, k \in DOMAIN mutexQueue' : mutexQueue'[i] = mutexQueue'[k] => i = k
        <5> SUFFICES ASSUME NEW i \in DOMAIN mutexQueue', NEW k \in DOMAIN mutexQueue',
                            mutexQueue'[i] = mutexQueue'[k]
                     PROVE  i = k
          OBVIOUS
        <5>1. i + 1 = k + 1
          BY <3>3 DEF WaitsOnce
        <5>2. i \in Nat /\ k \in Nat
          BY <3>3
        <5> QED  BY <5>1, <5>2
      <4> QED  BY <2>1, <3>1, <3>3, <4>1, <4>2, <4>3 DEF WaitsOnce
    <3>8. LockedBySomebody'
      BY <2>1, <3>1, <3>2 DEF LockedBySomebody
    <3>9. WaitersWoken'
      <4>1. \A i \in DOMAIN mutexQueue' : mutexQueue'[i] # t
        BY <3>2, <3>3 DEF WaitsOnce
      <4>2. \A i \in DOMAIN mutexQueue' : mutexQueue'[i] \in Wakers
        BY <3>3 DEF Wakers
      <4>3. \A i \in DOMAIN mutexQueue' : waketime'[mutexQueue'[i]] = Never
        BY <1>w, <2>1, <3>3, <4>1, <4>2 DEF WaitersWoken
      <4>4. completed' => \A g \in completionWaits' : waketime'[g] = 0
        BY <1>w, <2>1 DEF WaitersWoken, ReactorTypeOK, Wakers
      <4> QED  BY <3>1, <4>3, <4>4 DEF WaitersWoken
    <3> QED  BY <3>4, <3>5, <3>6, <3>7, <3>8, <3>9
  <2>5. CASE ~(nextPending /\ Head(mutexQueue) = t)
    <3>1. UNCHANGED <<nextPending, mutexQueue, mutexHolder>>
      BY <1>2, <2>5 DEF Visit, mutexVars
    <3>2. \A i \in DOMAIN mutexQueue : mutexQueue[i] # t
      BY <2>3, <2>5 DEF WaitersWoken, ReactorTypeOK
    <3>4. ReactorTypeOK'
      BY <2>1, <2>2, <2>7, <3>1 DEF ReactorTypeOK
    <3>5. InCallback'
      BY <2>1, <2>2 DEF InCallback, ReactorTypeOK
    <3>6. PassedOver'
      BY <2>6
    <3>7. WaitsOnce'
      <4>1. runs' \notin completionWaits'
        BY <2>1, <2>2 DEF WaitsOnce
      <4>2. \A i \in DOMAIN mutexQueue' : mutexQueue'[i] # runs'
        BY <2>1, <2>2, <3>1, <3>2 DEF WaitsOnce
      <4> QED  BY <2>1, <3>1, <4>1, <4>2 DEF WaitsOnce
    <3>8. LockedBySomebody'
      BY <2>1, <3>1 DEF LockedBySomebody
    <3>9. WaitersWoken'
      <4>1. \A i \in DOMAIN mutexQueue : mutexQueue[i] \in Wakers
        BY DEF ReactorTypeOK, Wakers
      <4>2. \A i \in DOMAIN mutexQueue :
                 waketime'[mutexQueue[i]] = waketime[mutexQueue[i]]
        BY <1>w, <2>1, <3>2, <4>1
      <4>4. completed' => \A g \in completionWaits' : waketime'[g] = 0
        BY <1>w, <2>1 DEF WaitersWoken, ReactorTypeOK, Wakers
      <4> QED  BY <3>1, <4>2, <4>4 DEF WaitersWoken
    <3> QED  BY <3>4, <3>5, <3>6, <3>7, <3>8, <3>9
  <2> QED  BY <2>4, <2>5
<1> QED  BY <1>1, <1>2

\* The steps of the dispatcher in which no timer is called.
LEMMA DispatchInv ==
  ASSUME ReactorInv, ClockTicks \/ StartPass \/ FileReady
  PROVE  ReactorInv'
<1> USE NamesDiffer DEF ReactorInv
<1>1. CASE ClockTicks
  <2>1. clock' \in 0..LastTime
    BY <1>1, TimesFacts DEF ClockTicks, ReactorTypeOK
  <2>2. UNCHANGED <<waketime, nextTimer, pass, passTime, runs, callback, paused, isLocked,
                    nextPending, mutexQueue, mutexHolder, completed, completionWaits>>
    BY <1>1 DEF ClockTicks, mutexVars, completionVars
  <2>3. ReactorTypeOK'
    BY <2>1, <2>2 DEF ReactorTypeOK
  <2>4. InCallback' /\ WaitsOnce' /\ LockedBySomebody' /\ WaitersWoken'
    BY <2>2 DEF InCallback, WaitsOnce, LockedBySomebody, WaitersWoken
  <2>5. PassedOver'
    BY <2>2 DEF PassedOver, Registered
  <2> QED  BY <2>3, <2>4, <2>5
<1>2. CASE StartPass
  <2>1. /\ passTime' \in 0..LastTime /\ nextTimer' \in Times /\ pass' \subseteq Wakers
        /\ pass' = Registered' /\ runs = Nobody /\ runs' = Nobody
    BY <1>2, TimesFacts DEF StartPass, Dispatching, ReactorTypeOK, Registered, Wakers
  <2>2. PassedOver'
    <3>1. Registered' = Registered /\ Nobody \notin Registered
      BY <1>2 DEF StartPass, Registered, ReactorTypeOK
    <3> QED  BY <2>1, <3>1 DEF PassedOver
  <2> QED
    BY <1>2, <2>1, <2>2 DEF StartPass, mutexVars, completionVars, ReactorTypeOK,
       InCallback, WaitsOnce, LockedBySomebody, WaitersWoken
<1>3. CASE FileReady
  <2>1. /\ runs' \in Greenlets /\ callback'[runs'] # Nobody
        /\ callback' \in [Greenlets -> ReactorTimers \cup {Nobody, File}]
        /\ \A g \in Greenlets : callback[g] # Nobody => callback'[g] # Nobody
        /\ runs' = File \/ callback[runs'] = Nobody
    BY <1>3, CalledFacts DEF FileReady
  <2>2. runs' \notin paused /\ runs' # File /\ pass = {} /\ pass' = {}
    BY <1>3, <2>1 DEF InCallback, FileReady
  <2>3. UNCHANGED <<clock, waketime, nextTimer, passTime, paused, isLocked, nextPending,
                    mutexQueue, mutexHolder, completed, completionWaits>>
    BY <1>3 DEF FileReady, mutexVars, completionVars
  <2>4. ReactorTypeOK' /\ InCallback'
    BY <2>1, <2>2, <2>3 DEF ReactorTypeOK, InCallback
  <2>5. PassedOver'
    BY <2>2, <2>3 DEF PassedOver, Registered
  <2>6. WaitsOnce' /\ LockedBySomebody' /\ WaitersWoken'
    BY <2>2, <2>3 DEF WaitsOnce, LockedBySomebody, WaitersWoken
  <2> QED  BY <2>4, <2>5, <2>6
<1> QED  BY <1>1, <1>2, <1>3

\* What a greenlet that pauses leaves behind, whatever it waits for.
LEMMA PausesFacts ==
  ASSUME ReactorInv, NEW g \in Greenlets, NEW w \in Times, runs = g, Pauses(g, w),
         UNCHANGED callback
  PROVE  /\ waketime' = [waketime EXCEPT ![g] = w]
         /\ waketime' \in [Wakers -> Times] /\ nextTimer' \in Times
         /\ pass' \subseteq Wakers /\ runs' = Nobody
         /\ paused' = paused \cup {g}
         /\ InCallback' /\ PassedOver'
<1> USE NamesDiffer DEF ReactorInv
<1>1. /\ waketime' = [waketime EXCEPT ![g] = w] /\ runs' = Nobody
      /\ paused' = paused \cup {g} /\ g \in Wakers /\ waketime \in [Wakers -> Times]
      /\ nextTimer \in Times
  BY DEF Pauses, Wakers, ReactorTypeOK
<1>2. waketime' \in [Wakers -> Times]
  BY <1>1
<1>3. CASE g \in paused
  <2>1. nextTimer' = Earlier(nextTimer, w) /\ pass' = pass /\ Registered' = Registered
    BY <1>1, <1>3 DEF Pauses, Soonest, Registered
  <2>2. /\ nextTimer' \in Times /\ nextTimer' <= nextTimer /\ nextTimer' <= w
        /\ Times \subseteq Nat
    BY <1>1, <2>1, TimesFacts
  <2>3. ASSUME NEW r \in Registered \ pass  PROVE nextTimer' <= waketime'[r]
    <3>1. nextTimer <= waketime[r] /\ r \in Wakers
      BY DEF PassedOver, Registered, Wakers, ReactorTypeOK
    <3>2. nextTimer \in Nat /\ nextTimer' \in Nat /\ waketime[r] \in Nat /\ w \in Nat
      BY <1>1, <2>2, <3>1
    <3>3. CASE r = g
      BY <1>1, <2>2, <3>3
    <3>4. CASE r # g
      BY <1>1, <2>2, <3>1, <3>2, <3>4
    <3> QED  BY <3>3, <3>4
  <2>4. PassedOver'
    BY <1>1, <2>1, <2>3 DEF PassedOver, Registered, ReactorTypeOK
  <2> QED  BY <1>1, <1>2, <2>1, <2>2, <2>4 DEF InCallback, ReactorTypeOK
<1>4. CASE g \notin paused
  <2>1. nextTimer' = 0 /\ pass' = {} /\ Registered' = Registered \cup {g}
    BY <1>1, <1>4 DEF Pauses, PassAnew, Registered
  <2>2. Registered' \subseteq Wakers
    BY <2>1 DEF Registered, Wakers, ReactorTypeOK
  <2>3. PassedOver'
    BY <1>2, <2>1, <2>2, TimesFacts DEF PassedOver
  <2> QED
    BY <1>1, <1>2, <2>1, <2>3, TimesFacts DEF InCallback, ReactorTypeOK
<1> QED  BY <1>3, <1>4

\* A greenlet pauses, for a time, for the mutex or for a completion.
LEMMA PauseInv ==
  ASSUME ReactorInv, NEW g \in Greenlets, NEW w \in Times,
         Pause(g, w) \/ WaitCompletion(g, w) \/ (Lock(g) /\ isLocked)
  PROVE  ReactorInv'
<1> USE NamesDiffer DEF ReactorInv
<1>1. CASE Pause(g, w)
  <2>1. /\ runs = g /\ Pauses(g, w)
        /\ UNCHANGED <<clock, passTime, callback, isLocked, nextPending, mutexQueue,
                       mutexHolder, completed, completionWaits>>
    BY <1>1 DEF Pause, mutexVars, completionVars
  <2>2. ReactorTypeOK' /\ InCallback' /\ PassedOver'
    BY <2>1, PausesFacts DEF ReactorTypeOK
  <2>3. WaitsOnce' /\ LockedBySomebody'
    BY <2>1, PausesFacts DEF WaitsOnce, LockedBySomebody, ReactorTypeOK
  <2>4. WaitersWoken'
    <3>1. \A i \in DOMAIN mutexQueue : /\ mutexQueue[i] # g
                                       /\ mutexQueue[i] \in Wakers
      BY <2>1 DEF WaitsOnce, ReactorTypeOK, Wakers
    <3>2. completionWaits \subseteq Wakers \ {g}
      BY <2>1 DEF WaitsOnce, ReactorTypeOK, Wakers
    <3> QED  BY <2>1, <3>1, <3>2, PausesFacts DEF WaitersWoken, ReactorTypeOK
  <2> QED  BY <2>2, <2>3, <2>4
<1>2. CASE WaitCompletion(g, w)
  <2>1. /\ runs = g /\ Pauses(g, w) /\ ~completed
        /\ completionWaits' = completionWaits \cup {g}
        /\ UNCHANGED <<clock, passTime, callback, isLocked, nextPending, mutexQueue,
                       mutexHolder, completed>>
    BY <1>2 DEF WaitCompletion, mutexVars
  <2>2. ReactorTypeOK' /\ InCallback' /\ PassedOver'
    BY <2>1, PausesFacts DEF ReactorTypeOK
  <2>3. WaitsOnce' /\ LockedBySomebody'
    BY <2>1, PausesFacts DEF WaitsOnce, LockedBySomebody, ReactorTypeOK
  <2>4. WaitersWoken'
    <3>1. \A i \in DOMAIN mutexQueue : /\ mutexQueue[i] # g
                                       /\ mutexQueue[i] \in Wakers
      BY <2>1 DEF WaitsOnce, ReactorTypeOK, Wakers
    <3> QED  BY <2>1, <3>1, PausesFacts DEF WaitersWoken, ReactorTypeOK
  <2> QED  BY <2>2, <2>3, <2>4
<1>3. CASE Lock(g) /\ isLocked
  <2>1. /\ runs = g /\ Pauses(g, Never) /\ mutexHolder # g
        /\ mutexQueue' = Append(mutexQueue, g)
        /\ UNCHANGED <<clock, passTime, callback, isLocked, nextPending, mutexHolder,
                       completed, completionWaits>>
    BY <1>3 DEF Lock, completionVars
  <2>n. Never \in Times
    BY TimesFacts
  <2>2. ReactorTypeOK' /\ InCallback' /\ PassedOver'
    BY <2>1, <2>n, PausesFacts DEF ReactorTypeOK
  <2>q. /\ Len(mutexQueue') = Len(mutexQueue) + 1 /\ mutexQueue' # << >>
        /\ Len(mutexQueue) \in Nat
        /\ DOMAIN mutexQueue = 1..Len(mutexQueue)
        /\ DOMAIN mutexQueue' = 1..Len(mutexQueue) + 1
        /\ \A i \in DOMAIN mutexQueue' :
              mutexQueue'[i] = IF i = Len(mutexQueue) + 1 THEN g ELSE mutexQueue[i]
        /\ \A i \in DOMAIN mutexQueue' : i = Len(mutexQueue) + 1 \/ i \in DOMAIN mutexQueue
    BY <2>1 DEF ReactorTypeOK
  <2>3. WaitsOnce'
    <3>1. \A i \in DOMAIN mutexQueue : mutexQueue[i] # g
      BY <2>1 DEF WaitsOnce
    <3>2. \A i, k \in DOMAIN mutexQueue' : mutexQueue'[i] = mutexQueue'[k] => i = k
      BY <2>q, <3>1 DEF WaitsOnce
    <3>3. \A i \in DOMAIN mutexQueue' : mutexQueue'[i] \in paused' /\ mutexQueue'[i] # runs'
      BY <2>1, <2>n, <2>q, PausesFacts DEF WaitsOnce, ReactorTypeOK
    <3>4. \A i \in DOMAIN mutexQueue' : /\ mutexQueue'[i] # mutexHolder'
                                        /\ mutexQueue'[i] \notin completionWaits'
      BY <2>1, <2>q DEF WaitsOnce
    <3> QED  BY <2>1, <2>n, <3>2, <3>3, <3>4, PausesFacts DEF WaitsOnce, ReactorTypeOK
  <2>4. LockedBySomebody'
    BY <1>3, <2>1, <2>q DEF LockedBySomebody
  <2>5. WaitersWoken'
    <3>1. \A i \in DOMAIN mutexQueue : /\ mutexQueue[i] # g
                                       /\ mutexQueue[i] \in Wakers
      BY <2>1 DEF WaitsOnce, ReactorTypeOK, Wakers
    <3>2. nextPending => Len(mutexQueue) + 1 # 1
      BY <2>q DEF LockedBySomebody, ReactorTypeOK
    <3>3. g \in Wakers /\ completionWaits \subseteq Wakers \ {g}
      BY <2>1 DEF WaitsOnce, ReactorTypeOK, Wakers
    <3>4. /\ waketime' = [waketime EXCEPT ![g] = Never]
          /\ waketime \in [Wakers -> Times]
      BY <2>1, <2>n, PausesFacts DEF ReactorTypeOK
    <3>5. \A i \in DOMAIN mutexQueue' :
             waketime'[mutexQueue'[i]] = IF nextPending' /\ i = 1 THEN 0 ELSE Never
      BY <2>1, <2>q, <3>1, <3>2, <3>3, <3>4 DEF WaitersWoken
    <3> QED  BY <2>1, <3>3, <3>4, <3>5 DEF WaitersWoken
  <2> QED  BY <2>2, <2>3, <2>4, <2>5
<1> QED  BY <1>1, <1>2, <1>3

\* A callback changes the time of a timer.
LEMMA UpdateInv ==
  ASSUME ReactorInv, NEW g \in Greenlets, NEW t \in ReactorTimers, NEW w \in Times,
         UpdateTimer(g, t, w)
  PROVE  ReactorInv'
<1> USE NamesDiffer DEF ReactorInv
<1>1. /\ waketime' = [waketime EXCEPT ![t] = w] /\ nextTimer' = Earlier(nextTimer, w)
      /\ UNCHANGED <<clock, pass, passTime, runs, callback, paused, isLocked, nextPending,
                     mutexQueue, mutexHolder, completed, completionWaits>>
  BY DEF UpdateTimer, Soonest, mutexVars, completionVars
<1>2. /\ t \in Wakers /\ waketime \in [Wakers -> Times] /\ nextTimer \in Times
      /\ Registered' = Registered /\ Registered \subseteq Wakers
  BY <1>1 DEF Wakers, Registered, ReactorTypeOK
<1>3. /\ nextTimer' \in Times /\ nextTimer' <= nextTimer /\ nextTimer' <= w
      /\ Times \subseteq Nat
  BY <1>1, <1>2, TimesFacts
<1>4. waketime' \in [Wakers -> Times]
  BY <1>1, <1>2
<1>5. ReactorTypeOK' /\ InCallback'
  BY <1>1, <1>3, <1>4 DEF ReactorTypeOK, InCallback
<1>6. ASSUME NEW r \in Registered \ pass  PROVE nextTimer' <= waketime'[r]
  <2>1. nextTimer <= waketime[r] /\ waketime[r] \in Nat /\ nextTimer \in Nat
        /\ nextTimer' \in Nat
    BY <1>2, <1>3 DEF PassedOver
  <2>2. CASE r = t
    BY <1>1, <1>2, <1>3, <2>2
  <2>3. CASE r # t
    BY <1>1, <1>2, <1>3, <2>1, <2>3
  <2> QED  BY <2>2, <2>3
<1>7. PassedOver'
  BY <1>1, <1>2, <1>6 DEF PassedOver
<1>8. WaitsOnce' /\ LockedBySomebody'
  BY <1>1 DEF WaitsOnce, LockedBySomebody
<1>9. WaitersWoken'
  <2>1. \A i \in DOMAIN mutexQueue : waketime'[mutexQueue[i]] = waketime[mutexQueue[i]]
    BY <1>1, <1>2 DEF ReactorTypeOK, Wakers
  <2>2. \A c \in completionWaits : waketime'[c] = waketime[c]
    BY <1>1, <1>2 DEF ReactorTypeOK, Wakers
  <2> QED  BY <1>1, <2>1, <2>2 DEF WaitersWoken
<1> QED  BY <1>5, <1>7, <1>8, <1>9

\* A callback is over.
LEMMA ReturnInv ==
  ASSUME ReactorInv, NEW g \in Greenlets, NEW w \in Times, Return(g, w)
  PROVE  ReactorInv'
<1> USE NamesDiffer DEF ReactorInv
<1>1. /\ runs = g /\ runs' = Nobody /\ mutexHolder # g
      /\ callback' = [callback EXCEPT ![g] = Nobody] /\ paused' = paused \ {g}
      /\ UNCHANGED <<clock, pass, passTime, isLocked, nextPending, mutexQueue,
                     mutexHolder, completed, completionWaits>>
  BY DEF Return, mutexVars, completionVars
<1>2. /\ callback[g] \in ReactorTimers \cup {File}
      /\ waketime \in [Wakers -> Times] /\ nextTimer \in Times /\ g \in Wakers
      /\ Registered' = Registered \ {g} /\ Registered \subseteq Wakers
  BY <1>1 DEF InCallback, ReactorTypeOK, Wakers, Registered
<1>3. /\ waketime' \in [Wakers -> Times] /\ nextTimer' \in Times
      /\ \A r \in Registered' \ pass' : nextTimer' <= waketime'[r]
      /\ \A h \in Greenlets \ {g} : waketime'[h] = waketime[h]
  <2>1. \A r \in Registered' \ pass' : nextTimer <= waketime[r] /\ waketime[r] \in Times
    BY <1>1, <1>2 DEF PassedOver
  <2>2. CASE callback[g] = File
    BY <1>1, <1>2, <2>1, <2>2 DEF Return
  <2>3. CASE callback[g] # File
    <3> DEFINE c == callback[g]
    <3>1. /\ waketime' = [waketime EXCEPT ![c] = w, ![g] = Never]
          /\ nextTimer' = Earlier(nextTimer, w)
      BY <2>3 DEF Return, Soonest
    <3>2. c \in ReactorTimers /\ c \in Wakers /\ c # g
      BY <1>2, <2>3 DEF Wakers
    <3>3. /\ nextTimer' \in Times /\ nextTimer' <= nextTimer /\ nextTimer' <= w
          /\ Times \subseteq Nat /\ Never \in Times
      BY <1>2, <3>1, TimesFacts
    <3>4. waketime' \in [Wakers -> Times]
      BY <1>2, <3>1, <3>3
    <3> HIDE DEF c
    <3>5. \A h \in Wakers \ {g, c} : waketime'[h] = waketime[h]
      BY <1>2, <3>1
    <3>6. waketime'[c] = w
      BY <1>2, <3>1, <3>2
    <3>7. ASSUME NEW r \in Registered' \ pass'  PROVE nextTimer' <= waketime'[r]
      <4>1. r \in Wakers \ {g} /\ nextTimer <= waketime[r] /\ waketime[r] \in Nat
            /\ nextTimer \in Nat /\ nextTimer' \in Nat
        BY <1>2, <2>1, <3>3
      <4>2. CASE r = c
        BY <3>3, <3>6, <4>2
      <4>3. CASE r # c
        BY <3>3, <3>5, <4>1, <4>3
      <4> QED  BY <4>2, <4>3
    <3>8. \A h \in Greenlets \ {g} : waketime'[h] = waketime[h]
      BY <3>2, <3>5 DEF Wakers
    <3> QED  BY <3>3, <3>4, <3>7, <3>8
  <2> QED  BY <2>2, <2>3
<1>4. ReactorTypeOK'
  BY <1>1, <1>3 DEF ReactorTypeOK
<1>5. InCallback'
  BY <1>1 DEF InCallback, ReactorTypeOK
<1>6. PassedOver'
  BY <1>1, <1>2, <1>3 DEF PassedOver, Wakers, Registered, ReactorTypeOK
<1>7. WaitsOnce' /\ LockedBySomebody'
  BY <1>1 DEF WaitsOnce, LockedBySomebody, ReactorTypeOK
<1>8. WaitersWoken'
  <2>1. \A i \in DOMAIN mutexQueue : waketime'[mutexQueue[i]] = waketime[mutexQueue[i]]
    BY <1>1, <1>3 DEF ReactorTypeOK, WaitsOnce
  <2>2. \A c \in completionWaits : waketime'[c] = waketime[c]
    BY <1>1, <1>3 DEF ReactorTypeOK, WaitsOnce
  <2> QED  BY <1>1, <2>1, <2>2 DEF WaitersWoken
<1> QED  BY <1>4, <1>5, <1>6, <1>7, <1>8

\* The mutex is free and a greenlet locks it.
LEMMA LockFreeInv ==
  ASSUME ReactorInv, NEW g \in Greenlets, Lock(g), ~isLocked
  PROVE  ReactorInv'
<1> USE NamesDiffer DEF ReactorInv
<1>1. /\ isLocked' = TRUE /\ mutexHolder' = g /\ runs = g
      /\ UNCHANGED <<clock, waketime, nextTimer, pass, passTime, runs, callback, paused,
                     nextPending, mutexQueue, completed, completionWaits>>
  BY DEF Lock, completionVars
<1>2. mutexQueue = << >> /\ ~nextPending
  BY DEF LockedBySomebody
<1>3. ReactorTypeOK' /\ InCallback'
  BY <1>1 DEF ReactorTypeOK, InCallback
<1>4. PassedOver'
  BY <1>1 DEF PassedOver, Registered
<1>5. WaitsOnce' /\ WaitersWoken'
  BY <1>1 DEF WaitsOnce, WaitersWoken
<1>6. LockedBySomebody'
  BY <1>1, <1>2 DEF LockedBySomebody
<1> QED  BY <1>3, <1>4, <1>5, <1>6

\* The mutex is given back, or handed to the first that waits for it.
LEMMA UnlockInv ==
  ASSUME ReactorInv, NEW g \in Greenlets, Unlock(g)
  PROVE  ReactorInv'
<1> USE NamesDiffer DEF ReactorInv
<1>1. /\ runs = g /\ mutexHolder = g /\ mutexHolder' = Nobody
      /\ UNCHANGED <<clock, pass, passTime, runs, callback, paused, mutexQueue,
                     completed, completionWaits>>
  BY DEF Unlock, completionVars
<1>2. ~nextPending
  BY <1>1 DEF LockedBySomebody
<1>3. CASE mutexQueue = << >>
  <2>1. isLocked' = FALSE /\ UNCHANGED <<nextPending, waketime, nextTimer>>
    BY <1>3 DEF Unlock
  <2>2. ReactorTypeOK' /\ InCallback'
    BY <1>1, <2>1 DEF ReactorTypeOK, InCallback
  <2>3. PassedOver'
    BY <1>1, <2>1 DEF PassedOver, Registered
  <2>4. WaitsOnce' /\ WaitersWoken'
    BY <1>1, <1>3, <2>1 DEF WaitsOnce, WaitersWoken
  <2>5. LockedBySomebody'
    BY <1>1, <1>2, <1>3, <2>1 DEF LockedBySomebody
  <2> QED  BY <2>2, <2>3, <2>4, <2>5
<1>4. CASE mutexQueue # << >>
  <2> DEFINE h == Head(mutexQueue)
  <2>1. /\ nextPending' = TRUE /\ isLocked' = isLocked
        /\ waketime' = [waketime EXCEPT ![h] = 0] /\ nextTimer' = Earlier(nextTimer, 0)
    BY <1>4 DEF Unlock, Unlocked, Soonest
  <2>2. /\ 1 \in DOMAIN mutexQueue /\ h = mutexQueue[1] /\ h \in Wakers /\ isLocked
        /\ waketime \in [Wakers -> Times]
    BY <1>4 DEF ReactorTypeOK, Wakers, LockedBySomebody
  <2> HIDE DEF h
  <2>3. /\ nextTimer' = 0 /\ nextTimer' \in Times /\ waketime' \in [Wakers -> Times]
        /\ Times \subseteq Nat
    BY <2>1, <2>2, TimesFacts DEF ReactorTypeOK
  <2>4. ReactorTypeOK' /\ InCallback'
    BY <1>1, <2>1, <2>3 DEF ReactorTypeOK, InCallback
  <2>5. PassedOver'
    <3>1. Registered' = Registered /\ Registered \subseteq Wakers
      BY <1>1 DEF Registered, ReactorTypeOK, Wakers
    <3>2. ASSUME NEW r \in Registered  PROVE nextTimer' <= waketime'[r]
      <4>1. waketime'[r] \in Nat
        BY <2>3, <3>1
      <4> QED  BY <2>3, <4>1
    <3> QED  BY <1>1, <3>1, <3>2 DEF PassedOver
  <2>6. WaitsOnce'
    BY <1>1 DEF WaitsOnce, ReactorTypeOK
  <2>7. LockedBySomebody'
    BY <1>1, <1>4, <2>1, <2>2 DEF LockedBySomebody
  <2>8. WaitersWoken'
    <3>1. \A i \in DOMAIN mutexQueue : mutexQueue[i] \in Wakers /\ (i # 1 => mutexQueue[i] # h)
      BY <2>2 DEF ReactorTypeOK, Wakers, WaitsOnce
    <3>2. \A i \in DOMAIN mutexQueue :
             waketime'[mutexQueue[i]] = IF i = 1 THEN 0 ELSE Never
      BY <1>2, <2>1, <2>2, <3>1 DEF WaitersWoken
    <3>3. completionWaits \subseteq Wakers \ {h}
      BY <2>2 DEF ReactorTypeOK, Wakers, WaitsOnce
    <3> QED  BY <1>1, <2>1, <2>2, <3>2, <3>3 DEF WaitersWoken
  <2> QED  BY <2>4, <2>5, <2>6, <2>7, <2>8
<1> QED  BY <1>3, <1>4

\* A completion gets its result.
LEMMA CompleteInv ==
  ASSUME ReactorInv, NEW g \in Greenlets, Complete(g)
  PROVE  ReactorInv'
<1> USE NamesDiffer DEF ReactorInv
<1>1. /\ runs = g /\ ~completed /\ completed' = TRUE
      /\ waketime' = [t \in Wakers |-> IF t \in completionWaits THEN 0 ELSE waketime[t]]
      /\ UNCHANGED <<clock, pass, passTime, runs, callback, paused, isLocked, nextPending,
                     mutexQueue, mutexHolder, completionWaits>>
  BY DEF Complete, mutexVars, ReactorTypeOK
<1>2. /\ waketime \in [Wakers -> Times] /\ waketime' \in [Wakers -> Times]
      /\ nextTimer' \in Times /\ Times \subseteq Nat
      /\ nextTimer' = 0 \/ (completionWaits = {} /\ nextTimer' = nextTimer)
  BY <1>1, TimesFacts DEF ReactorTypeOK, Complete, Soonest
<1>3. ReactorTypeOK' /\ InCallback'
  BY <1>1, <1>2 DEF ReactorTypeOK, InCallback
<1>4. PassedOver'
  <2>1. Registered' = Registered /\ Registered \subseteq Wakers
    BY <1>1 DEF Registered, ReactorTypeOK, Wakers
  <2>2. CASE nextTimer' = 0
    <3>1. ASSUME NEW r \in Registered  PROVE nextTimer' <= waketime'[r]
      <4>1. waketime'[r] \in Nat
        BY <1>2, <2>1
      <4> QED  BY <2>2, <4>1
    <3> QED  BY <1>1, <2>1, <3>1 DEF PassedOver
  <2>3. CASE completionWaits = {} /\ nextTimer' = nextTimer
    <3>1. waketime' = waketime
      BY <1>1, <1>2, <2>3
    <3> QED  BY <1>1, <2>1, <2>3, <3>1 DEF PassedOver
  <2> QED  BY <1>2, <2>2, <2>3
<1>5. WaitsOnce' /\ LockedBySomebody'
  BY <1>1 DEF WaitsOnce, LockedBySomebody
<1>6. WaitersWoken'
  <2>1. \A i \in DOMAIN mutexQueue : waketime'[mutexQueue[i]] = waketime[mutexQueue[i]]
    BY <1>1 DEF ReactorTypeOK, WaitsOnce, Wakers
  <2>2. \A c \in completionWaits : waketime'[c] = 0
    BY <1>1 DEF ReactorTypeOK, Wakers
  <2> QED  BY <1>1, <2>1, <2>2 DEF WaitersWoken
<1> QED  BY <1>3, <1>4, <1>5, <1>6

\* No step breaks the invariant.
LEMMA ReactorNextInv == ReactorInv /\ [ReactorNext]_reactorVars => ReactorInv'
<1> SUFFICES ASSUME ReactorInv, [ReactorNext]_reactorVars  PROVE ReactorInv'
  OBVIOUS
<1>1. CASE ClockTicks \/ StartPass \/ FileReady
  BY <1>1, DispatchInv
<1>2. CASE \E t \in ReactorTimers \cup Greenlets : Visit(t)
  BY <1>2, VisitInv DEF Wakers
<1>3. ASSUME NEW g \in Greenlets, Acts(g)  PROVE ReactorInv'
  <2>1. CASE \E t \in ReactorTimers, w \in Times : UpdateTimer(g, t, w)
    BY <2>1, UpdateInv
  <2>2. CASE \E w \in Times : Pause(g, w) \/ WaitCompletion(g, w)
    BY <2>2, PauseInv
  <2>3. CASE \E w \in Times : Return(g, w)
    BY <2>3, ReturnInv
  <2>4. CASE Lock(g)
    BY <2>4, LockFreeInv, PauseInv, TimesFacts
  <2>5. CASE Unlock(g) \/ Complete(g)
    BY <2>5, UnlockInv, CompleteInv
  <2> QED  BY <1>3, <2>1, <2>2, <2>3, <2>4, <2>5 DEF Acts
<1>4. CASE UNCHANGED reactorVars
  BY <1>4 DEF reactorVars, mutexVars, completionVars, ReactorInv, ReactorTypeOK, InCallback,
     PassedOver, Registered, WaitsOnce, LockedBySomebody, WaitersWoken
<1> QED  BY <1>1, <1>2, <1>3, <1>4 DEF ReactorNext

THEOREM ReactorInvariance == ReactorSpec => []ReactorInv
<1> QED  BY ReactorInitInv, ReactorNextInv, PTL DEF ReactorSpec

-----------------------------------------------------------------------------
(* What users of the reactor rely on.                                      *)

\* No timer is called late because _next_timer says otherwise, and whoever the
\* mutex is handed to or the completion is for is woken, by nothing else
\* (reactor.py:23-38, 74-91, 118-162).
THEOREM NobodyIsForgotten == ReactorSpec => []NobodyForgotten
<1>1. ReactorInv => NobodyForgotten
  <2> SUFFICES ASSUME ReactorInv  PROVE NobodyForgotten
    OBVIOUS
  <2> USE DEF ReactorInv
  <2>1. NoTimerLost
    BY DEF PassedOver, NoTimerLost
  <2>2. Range(mutexQueue) \subseteq paused
    BY DEF Range, WaitsOnce
  <2>3. nextPending => mutexQueue # << >> /\ waketime[Head(mutexQueue)] = 0
    <3> SUFFICES ASSUME nextPending  PROVE mutexQueue # << >> /\ waketime[Head(mutexQueue)] = 0
      OBVIOUS
    <3>1. mutexQueue # << >> /\ 1 \in DOMAIN mutexQueue /\ Head(mutexQueue) = mutexQueue[1]
      BY DEF LockedBySomebody, ReactorTypeOK
    <3> QED  BY <3>1 DEF WaitersWoken
  <2> QED  BY <2>1, <2>2, <2>3 DEF NobodyForgotten, WaitersPaused, WaitersWoken, WaitsOnce
<1> QED  BY <1>1, ReactorInvariance, PTL

\* ReactorMutex is a lock with one owner that is handed on in the order of the
\* requests, although it has no holder while the next greenlet is woken
\* (reactor.py:74-91).
THEOREM MutexImplementsFifo == ReactorSpec => ImplementsFifo
<1> DEFINE own == IF nextPending THEN Head(mutexQueue) ELSE mutexHolder
           wait == IF nextPending THEN Tail(mutexQueue) ELSE mutexQueue
<1>1. ReactorInit => Fifo!LockInit
  BY DEF ReactorInit, Fifo!LockInit
<1>2. ReactorInv /\ [ReactorNext]_reactorVars
        => [Fifo!Give \/ \E c \in Greenlets : Fifo!Take(c)]_Fifo!lockVars
  <2> SUFFICES ASSUME ReactorInv, [ReactorNext]_reactorVars
               PROVE  \/ Fifo!Give \/ \E c \in Greenlets : Fifo!Take(c)
                      \/ UNCHANGED <<own, wait>>
    BY DEF Fifo!lockVars
  <2> USE NamesDiffer DEF ReactorInv
  <2>1. CASE UNCHANGED <<nextPending, mutexQueue, mutexHolder>>
    BY <2>1
  <2>2. ASSUME NEW t \in Wakers, Visit(t)
        PROVE  UNCHANGED <<own, wait>>
    <3>1. CASE UNCHANGED <<nextPending, mutexQueue, mutexHolder>>
      BY <3>1
    <3>2. CASE /\ nextPending /\ Head(mutexQueue) = t /\ ~nextPending'
               /\ mutexQueue' = Tail(mutexQueue) /\ mutexHolder' = t
      BY <3>2
    <3> QED  BY <2>2, <3>1, <3>2 DEF Visit, mutexVars, HandedOver
  <2>3. ASSUME NEW g \in Greenlets, Lock(g)
        PROVE  Fifo!Take(g)
    <3>1. CASE ~isLocked
      <4>1. own = Nobody /\ own' = g /\ wait' = wait
        BY <2>3, <3>1 DEF Lock, LockedBySomebody
      <4> QED  BY <4>1 DEF Fifo!Take
    <3>2. CASE isLocked
      <4>1. mutexQueue' = Append(mutexQueue, g) /\ UNCHANGED <<nextPending, mutexHolder>>
        BY <2>3, <3>2 DEF Lock
      <4>2. own # Nobody
        BY <3>2 DEF LockedBySomebody, ReactorTypeOK
      <4>3. own' = own /\ wait' = Append(wait, g)
        <5>1. CASE ~nextPending
          BY <4>1, <5>1
        <5>2. CASE nextPending
          <6>1. mutexQueue \in Seq(Greenlets) /\ mutexQueue # << >>
            BY <5>2 DEF LockedBySomebody, ReactorTypeOK
          <6>2. /\ Head(Append(mutexQueue, g)) = Head(mutexQueue)
                /\ Tail(Append(mutexQueue, g)) = Append(Tail(mutexQueue), g)
            BY <6>1
          <6> QED  BY <4>1, <5>2, <6>2
        <5> QED  BY <5>1, <5>2
      <4> QED  BY <4>2, <4>3 DEF Fifo!Take
    <3> QED  BY <3>1, <3>2
  <2>4. ASSUME NEW g \in Greenlets, Unlock(g)
        PROVE  Fifo!Give
    <3>1. own = g /\ wait = mutexQueue /\ mutexHolder' = Nobody /\ mutexQueue' = mutexQueue
          /\ ~nextPending
      BY <2>4 DEF Unlock, LockedBySomebody
    <3>2. CASE mutexQueue = << >>
      BY <2>4, <3>1, <3>2 DEF Unlock, Fifo!Give
    <3>3. CASE mutexQueue # << >>
      BY <2>4, <3>1, <3>3 DEF Unlock, Fifo!Give
    <3> QED  BY <3>2, <3>3
  <2>5. ASSUME NEW g \in Greenlets, Acts(g)
        PROVE  \/ Fifo!Give \/ Fifo!Take(g)
               \/ UNCHANGED <<nextPending, mutexQueue, mutexHolder>>
    BY <2>3, <2>4, <2>5 DEF Acts, UpdateTimer, Pause, Return, WaitCompletion, Complete, mutexVars
  <2> QED
    BY <2>1, <2>2, <2>5 DEF ReactorNext, ClockTicks, StartPass, FileReady, reactorVars,
       mutexVars, Wakers
<1> QED
  BY <1>1, <1>2, ReactorInvariance, PTL DEF ReactorSpec, ImplementsFifo, Fifo!LockSpec

-----------------------------------------------------------------------------
(* The session with the micro-controllers (Session).                       *)

\* The micro-controller has no configuration or the one of this session.
Configured == mcuVersion \in {NoConfig, configVersion}

ConfigInv ==
    /\ message = "ready" => connecting = "done"
    /\ message = "ready" \/ connecting \in {"get again", "ready"} => Configured

\* Nothing but the connection makes the printer ready or configures the micro-controller.
LEMMA OthersConfigure ==
  ASSUME ConfigInv,
         UNCHANGED <<connecting, configVersion>>,
         message' \in {message, "shutdown", "error"},
         mcuVersion' \in {mcuVersion, NoConfig}
  PROVE  ConfigInv'
  BY DEF ConfigInv, Configured

LEMMA InvokesShutdown ==
  ASSUME NEW why, InvokeShutdown(why)
  PROVE  message' \in {message, "shutdown"} /\ mcuVersion' = mcuVersion
  BY DEF InvokeShutdown, Stated, stateVars, mcuState

LEMMA ConfigStep ==
  ASSUME ConfigInv, [SessionNext]_sessionVars
  PROVE  ConfigInv'
<1> DEFINE Keeps == /\ UNCHANGED <<connecting, configVersion>>
                    /\ message' \in {message, "shutdown", "error"}
                    /\ mcuVersion' \in {mcuVersion, NoConfig}
<1>1. CASE ReadConfig
  BY <1>1 DEF ReadConfig, ConfigInv, Configured, Stated, mcuState
<1>2. CASE McuIdentify
  BY <1>2 DEF McuIdentify, ConnectFails, ConfigInv, Configured, Stated, stateVars
<1>3. CASE GetConfig
  BY <1>3 DEF GetConfig, ConnectFails, ConfigInv, Configured, Stated, Mismatch
<1>4. CASE GetAgain
  BY <1>4 DEF GetAgain, ConnectFails, ConfigInv, Configured, Stated
<1>5. CASE BecomeReady
  BY <1>5 DEF BecomeReady, ConfigInv, Configured, mcuState
<1>6. CASE ShutdownCall \/ LostCommunication \/ EmergencyStop
  <2>1. Keeps
    BY <1>6, InvokesShutdown DEF ShutdownCall, LostCommunication, EmergencyStop
  <2> QED  BY <2>1, OthersConfigure
<1>7. CASE TakeFromMcu \/ Rested \/ Refuses \/ EditFile \/ Silence
           \/ (\E r \in {"restart", "firmware_restart"} : RequestRestart(r))
  <2>1. Keeps
    BY <1>7 DEF TakeFromMcu, Rested, Refuses, EditFile, Silence, RequestRestart,
                mcuState, stateVars, sessionOnly
  <2> QED  BY <2>1, OthersConfigure
<1>8. CASE (\E why \in {"range", "fault"}, lost \in BOOLEAN : McuFault(why, lost))
           \/ (\E lost \in BOOLEAN : McuResets(lost))
  <2>1. Keeps
    BY <1>8 DEF McuFault, McuResets, stateVars
  <2> QED  BY <2>1, OthersConfigure
<1>9. CASE NextSession
  <2>1. CASE runResult = "error_exit"
    BY <1>9, <2>1, OthersConfigure DEF NextSession, mcuState, sessionOnly, stateVars
  <2>2. CASE runResult # "error_exit"
    BY <1>9, <2>2 DEF NextSession, NewSession, ConfigInv
  <2> QED  BY <2>1, <2>2
<1>10. CASE UNCHANGED sessionVars
  BY <1>10, OthersConfigure DEF sessionVars, mcuState, sessionOnly, stateVars
<1> QED  BY <1>1, <1>2, <1>3, <1>4, <1>5, <1>6, <1>7, <1>8, <1>9, <1>10
         DEF SessionNext, SessionStep

\* A printer that is ready never works with another configuration than it has read, whatever
\* was edited, restarted or reset (mcu.py:668-745): the safety of SessionRight.
THEOREM ReadyIsConfigured == SessionSpec => []ReadyConfigured
<1>1. SessionInit => ConfigInv
  BY DEF SessionInit, ConfigInv
<1>2. ConfigInv => ReadyConfigured
  BY DEF ConfigInv, Configured, ReadyConfigured
<1> QED  BY <1>1, <1>2, ConfigStep, PTL DEF SessionSpec

-----------------------------------------------------------------------------
(* The print time of the toolhead and the idle timeout (PrintTime).        *)

Full == Larger(High + 1, Lead)

\* What is buffered when the flush timer is started, and not yet used when it is due.
Margin == Smaller(Low, Lead + 1)

Hosts == [state : {"Flushed", "Priming", "Main", "Drip"}, buffer : Int, ahead : Int,
          flushIn : Int, stallAt : Int, idle : {"Idle", "Ready", "Printing"}, idleIn : Int]

\* Who gives moves a print time has told the idle timeout, and so has who is ahead of what
\* _calc_print_time asks for.
Told(h) == h.state \in {"Main", "Drip"} \/ h.buffer > Lead => h.idle = "Printing"

\* The flush timer comes before the toolhead runs dry, and moves that are not looked at by
\* _check_stall only come in the main state.
HostInv(h) ==
    /\ h \in Hosts
    /\ h.buffer >= -IdleAfter /\ h.ahead \in 0..MaxAhead
    /\ h.state = "Main" => /\ -Late <= h.flushIn /\ h.flushIn <= h.buffer - Margin
                           /\ h.stallAt <= High + 1
    /\ h.state \in {"Flushed", "Priming"} => h.stallAt = Always
    /\ h.state = "Drip" => h.ahead = 0 /\ h.flushIn = NEVER
    /\ Told(h)

\* How much is buffered depends on who may add to it.
FreeBounded(h) ==
    \/ h.buffer <= Full
    \/ h.ahead = 0 /\ h.state # "Main" /\ h.buffer <= Full + MaxAhead

WorkerInv ==
    /\ worker \in [at : {"free", "stall", "wait", "drip"}, left : Nat]
    /\ worker.at = "free" => worker.left = 0 /\ FreeBounded(host)
    /\ worker.at \in {"wait", "drip"} \/ worker.left > 0 => host.ahead = 0
    /\ worker.at = "drip" <=> host.state = "Drip"
    /\ worker.at = "drip" => host.buffer <= Full + MaxAhead
    /\ worker.left > 0 => host.idle = "Printing"

TimeInv == HostInv(host) /\ WorkerInv /\ BufferBounded

LEMMA TimeConstants ==
  /\ Low \in Nat /\ High \in Nat /\ Lead \in Nat /\ ReadyAfter \in Nat /\ IdleAfter \in Nat
  /\ Second \in Nat /\ Late \in Nat /\ MaxAhead \in Nat
  /\ 0 < ReadyAfter /\ 0 < Second
  /\ Full \in Nat /\ Margin \in Nat /\ Late < Margin /\ Margin <= Low /\ Margin <= Lead + 1
  /\ High + 1 <= Full /\ Lead <= Full /\ Low < Full /\ 1 < Full /\ IdleAfter < 99
  /\ \A n \in Lengths : n \in Nat /\ 0 < n /\ Full + MaxAhead + n < 99
<1> USE PrintTimeAssumption
<1>1. /\ Low \in Nat /\ High \in Nat /\ Lead \in Nat /\ ReadyAfter \in Nat /\ IdleAfter \in Nat
      /\ Second \in Nat /\ Late \in Nat /\ MaxAhead \in Nat
      /\ 0 < ReadyAfter /\ 0 < Second
  OBVIOUS
<1>2. /\ Late < Low /\ Low <= High /\ Late <= Lead /\ IdleAfter < 99
  BY <1>1 DEF Always
<1>3. ASSUME NEW n \in Lengths
      PROVE  n \in Nat /\ 0 < n /\ High + 1 + MaxAhead + n < 99 /\ Lead + MaxAhead + n < 99
  <2>1. High \in 0 .. NEVER - 2 - MaxAhead - n /\ Lead \in 0 .. NEVER - 2 - MaxAhead - n
    OBVIOUS
  <2>2. n \in Nat \ {0}
    OBVIOUS
  <2> QED  BY <1>1, <2>1, <2>2 DEF NEVER
<1>4. /\ Full \in Nat /\ Margin \in Nat /\ Late < Margin /\ Margin <= Low /\ Margin <= Lead + 1
      /\ High + 1 <= Full /\ Lead <= Full /\ Low < Full /\ 1 < Full
      /\ Full = High + 1 \/ Full = Lead
  BY <1>1, <1>2 DEF Full, Margin, Larger, Smaller
<1> QED  BY <1>1, <1>2, <1>3, <1>4

LEMMA ToldSame ==
  ASSUME NEW g \in Hosts, Told(g), NEW h \in Hosts, h.idle \in {g.idle, "Printing"},
         h.buffer <= g.buffer, h.state \in {"Main", "Drip"} => h.state = g.state
  PROVE  Told(h)
<1>1. PICK a \in Int : a = g.buffer
  BY DEF Hosts
<1>2. PICK b \in Int : b = h.buffer
  BY DEF Hosts
<1>3. PICK l \in Int : l = Lead
  BY TimeConstants
<1>4. h.buffer > Lead => g.buffer > Lead
  BY <1>1, <1>2, <1>3
<1> QED  BY <1>4 DEF Told

\* What the helpers of the toolhead do to the fields that are proved about.
LEMMA SyncedHost ==
  \A h \in Hosts : LET s == Synced(h) IN
      /\ s \in Hosts /\ s.state = h.state /\ s.buffer = h.buffer /\ s.ahead = h.ahead
      /\ s.flushIn = h.flushIn /\ s.stallAt = h.stallAt /\ s.idle = "Printing"
<1> SUFFICES ASSUME NEW h \in Hosts
             PROVE  LET s == Synced(h) IN
      /\ s \in Hosts /\ s.state = h.state /\ s.buffer = h.buffer /\ s.ahead = h.ahead
      /\ s.flushIn = h.flushIn /\ s.stallAt = h.stallAt /\ s.idle = "Printing"
  OBVIOUS
<1>1. h.buffer \in Int
  BY DEF Hosts
<1>2. Larger(0, ReadyAfter - h.buffer) \in Int
  BY <1>1, TimeConstants DEF Larger
<1>3. CASE h.idle = "Printing"
  BY <1>3 DEF Synced
<1>4. CASE h.idle # "Printing"
  <2>1. Synced(h) = [h EXCEPT !.idle = "Printing", !.idleIn = Larger(0, ReadyAfter - h.buffer)]
    BY <1>4 DEF Synced
  <2> QED  BY <1>2, <2>1 DEF Hosts
<1> QED  BY <1>3, <1>4

LEMMA CalcHost ==
  ASSUME NEW h \in Hosts
  PROVE  LET c == CalcPrintTime(h) IN
      /\ c \in Hosts /\ c.state = h.state /\ c.ahead = h.ahead
      /\ c.flushIn = h.flushIn /\ c.stallAt = h.stallAt
      /\ c.buffer >= h.buffer /\ c.buffer >= Lead /\ (c.buffer = h.buffer \/ c.buffer = Lead)
      /\ (h.buffer > Lead => h.idle = "Printing") => c.idle = "Printing"
<1>1. CASE Lead >= h.buffer
  <2>0. [h EXCEPT !.buffer = Lead] \in Hosts
    <3>1. Lead \in Int
      BY TimeConstants
    <3> QED  BY <3>1 DEF Hosts
  <2>1. PICK g \in Hosts : g = [h EXCEPT !.buffer = Lead]
    BY <2>0
  <2>2. g.state = h.state /\ g.ahead = h.ahead /\ g.flushIn = h.flushIn /\ g.stallAt = h.stallAt
        /\ g.buffer = Lead
    BY <2>1 DEF Hosts
  <2>3. CalcPrintTime(h) = Synced(g)
    BY <1>1, <2>1 DEF CalcPrintTime
  <2>4. h.buffer \in Int
    BY DEF Hosts
  <2> QED  BY <1>1, <2>2, <2>3, <2>4, SyncedHost, TimeConstants
<1>2. CASE ~(Lead >= h.buffer)
  <2>1. h.buffer \in Int
    BY DEF Hosts
  <2> QED  BY <1>2, <2>1, TimeConstants DEF CalcPrintTime
<1> QED  BY <1>1, <1>2

LEMMA ProcessHost ==
  ASSUME NEW h \in Hosts, HostInv(h), NEW n \in Nat, 0 < n, n <= h.ahead
  PROVE  LET p == Process(h, n) IN
      /\ HostInv(p) /\ p.state = "Main" /\ p.ahead = h.ahead - n
      /\ p.buffer <= h.buffer + n \/ p.buffer <= Lead + n
      /\ h.state = "Main" => p.buffer = h.buffer + n
      /\ p.idle = "Printing"
<1>0. h.buffer \in Int /\ h.ahead \in Int /\ h.flushIn \in Int /\ h.stallAt \in Int
  BY DEF Hosts
<1>1. PICK c \in Hosts :
        /\ Process(h, n) = [c EXCEPT !.buffer = @ + n, !.ahead = @ - n]
        /\ c.state = "Main" /\ c.ahead = h.ahead
        /\ c.buffer = h.buffer \/ (c.buffer = Lead /\ h.state # "Main")
        /\ c.buffer >= h.buffer
        /\ IF h.state = "Main" THEN c = h
           ELSE c.flushIn = 0 /\ c.stallAt = Always /\ c.buffer >= Lead
        /\ c.idle = "Printing"
  <2>0. (h.state = "Main" => h.idle = "Printing") /\ (h.buffer > Lead => h.idle = "Printing")
    BY DEF HostInv, Told
  <2>1. CASE h.state = "Main"
    <3>1. Process(h, n) = [h EXCEPT !.buffer = @ + n, !.ahead = @ - n]
      BY <2>1 DEF Process
    <3>2. h.buffer >= h.buffer
      BY <1>0
    <3> QED  BY <2>0, <2>1, <3>1, <3>2
  <2>2. CASE h.state # "Main"
    <3>1. h.state \in {"Flushed", "Priming"}
      BY <1>0, <2>2 DEF HostInv, Hosts
    <3>2. Resume(h) \in Hosts
      <4>1. Always \in Int /\ 0 \in Int
        BY DEF Always
      <4> QED  BY <4>1 DEF Resume, Hosts
    <3>3. PICK r \in Hosts : r = Resume(h)
      BY <3>2
    <3>4. /\ r.state = "Main" /\ r.stallAt = Always /\ r.flushIn = 0
          /\ r.buffer = h.buffer /\ r.ahead = h.ahead /\ r.idle = h.idle
      BY <3>3 DEF Resume, Hosts
    <3>5. CalcPrintTime(r) \in Hosts
      BY CalcHost
    <3>6. PICK c \in Hosts : c = CalcPrintTime(r)
      BY <3>5
    <3>7. Process(h, n) = [c EXCEPT !.buffer = @ + n, !.ahead = @ - n]
      BY <2>2, <3>1, <3>3, <3>6 DEF Process
    <3>8. /\ c.state = "Main" /\ c.ahead = h.ahead /\ c.flushIn = 0 /\ c.stallAt = Always
          /\ c.buffer >= h.buffer /\ c.buffer >= Lead /\ (c.buffer = h.buffer \/ c.buffer = Lead)
      BY <3>4, <3>6, CalcHost
    <3>9. c.idle = "Printing"
      BY <2>0, <3>4, <3>6, CalcHost
    <3> QED  BY <2>2, <3>7, <3>8, <3>9
  <2> QED  BY <2>1, <2>2
<1>2. c.buffer \in Int /\ c.ahead \in Int
  BY DEF Hosts
<1>3. [c EXCEPT !.buffer = @ + n, !.ahead = @ - n] \in Hosts
  <2>1. c.buffer + n \in Int /\ c.ahead - n \in Int
    BY <1>2
  <2> QED  BY <2>1 DEF Hosts
<1>4. PICK p \in Hosts : p = Process(h, n)
  BY <1>1, <1>3
<1>5. /\ p.state = "Main" /\ p.buffer = c.buffer + n /\ p.ahead = h.ahead - n
      /\ p.flushIn = c.flushIn /\ p.stallAt = c.stallAt /\ p.idle = "Printing"
  BY <1>1, <1>4 DEF Hosts
<1>6. -Late <= p.flushIn /\ p.flushIn <= p.buffer - Margin /\ p.stallAt <= High + 1
  <2>1. CASE h.state = "Main"
    BY <1>0, <1>1, <1>5, <2>1, TimeConstants DEF HostInv
  <2>2. CASE h.state # "Main"
    BY <1>0, <1>1, <1>2, <1>5, <2>2, TimeConstants DEF Always
  <2> QED  BY <2>1, <2>2
<1>7. p.buffer >= -IdleAfter /\ p.ahead \in 0..MaxAhead
  BY <1>0, <1>1, <1>2, <1>5, TimeConstants DEF HostInv
<1>8. HostInv(p)
  BY <1>5, <1>6, <1>7 DEF HostInv, Told
<1>9. p.buffer <= h.buffer + n \/ p.buffer <= Lead + n
  BY <1>0, <1>1, <1>5, TimeConstants
<1>10. h.state = "Main" => p.buffer = h.buffer + n
  BY <1>1, <1>5
<1> QED  BY <1>4, <1>5, <1>8, <1>9, <1>10

LEMMA FlushHost ==
  ASSUME NEW h \in Hosts, HostInv(h)
  PROVE  LET f == FlushQueue(h) IN
      /\ f \in Hosts /\ f.ahead = 0 /\ f.buffer >= -IdleAfter
      /\ f = h \/ (HostInv(f) /\ f.state = "Main")
      /\ h.state = "Main" => HostInv(f)
      /\ h.ahead = 0 => f = h
      /\ f.buffer <= h.buffer + h.ahead \/ f.buffer <= Lead + h.ahead
<1>0. h.buffer \in Int /\ h.ahead \in 0..MaxAhead
  BY DEF HostInv, Hosts
<1>1. CASE h.ahead = 0
  <2>1. FlushQueue(h) = h
    BY <1>1 DEF FlushQueue
  <2>2. h.buffer <= h.buffer + h.ahead /\ h.buffer >= -IdleAfter
    BY <1>0, <1>1 DEF HostInv
  <2>3. PICK f \in Hosts : f = FlushQueue(h)
    BY <2>1
  <2>4. f = h /\ f.ahead = 0 /\ f.buffer <= h.buffer + h.ahead /\ f.buffer >= -IdleAfter
    BY <1>1, <2>1, <2>2, <2>3
  <2> QED  BY <2>3, <2>4
<1>2. CASE h.ahead # 0
  <2>1. FlushQueue(h) = Process(h, h.ahead) /\ h.ahead \in Nat /\ 0 < h.ahead
    BY <1>0, <1>2, TimeConstants DEF FlushQueue
  <2>2. PICK n \in Nat : n = h.ahead
    BY <2>1
  <2>3. HostInv(Process(h, n)) /\ Process(h, n).state = "Main" /\ Process(h, n).ahead = h.ahead - n
        /\ (Process(h, n).buffer <= h.buffer + n \/ Process(h, n).buffer <= Lead + n)
    BY <1>0, <2>1, <2>2, ProcessHost
  <2>4. PICK f \in Hosts : f = FlushQueue(h)
    BY <2>1, <2>2, <2>3 DEF HostInv
  <2> QED  BY <1>0, <1>2, <2>1, <2>2, <2>3, <2>4 DEF HostInv
<1> QED  BY <1>1, <1>2

LEMMA FlushStepsHost ==
  ASSUME NEW h \in Hosts, HostInv(h)
  PROVE  LET f == FlushSteps(h) IN
      /\ HostInv(f) /\ f.ahead = 0 /\ f.state = "Flushed" /\ f.idle \in {h.idle, "Printing"}
      /\ f.buffer <= h.buffer + h.ahead \/ f.buffer <= Lead + h.ahead
<1>1. PICK q \in Hosts : q = FlushQueue(h)
  BY FlushHost
<1>2. q.ahead = 0 /\ q.buffer >= -IdleAfter /\ Told(q) /\ q.idle \in {h.idle, "Printing"}
      /\ (q.buffer <= h.buffer + h.ahead \/ q.buffer <= Lead + h.ahead)
  BY <1>1, FlushHost DEF HostInv, Told
<1>3. FlushSteps(h) = [q EXCEPT !.state = "Flushed", !.stallAt = Always, !.flushIn = NEVER]
  BY <1>1 DEF FlushSteps
<1>4. Always \in Int /\ NEVER \in Int
  BY DEF Always, NEVER
<1>5. FlushSteps(h) \in Hosts
  BY <1>3, <1>4 DEF Hosts
<1>6. PICK f \in Hosts : f = FlushSteps(h)
  BY <1>5
<1>7. f.state = "Flushed" /\ f.stallAt = Always /\ f.buffer = q.buffer /\ f.ahead = q.ahead
      /\ f.idle = q.idle
  BY <1>3, <1>6 DEF Hosts
<1>7a. Told(f)
  BY <1>2, <1>7 DEF Told
<1>8. HostInv(f)
  BY <1>2, <1>7, <1>7a, TimeConstants DEF HostInv
<1> QED  BY <1>2, <1>6, <1>7, <1>8

LEMMA LookaheadHost ==
  ASSUME NEW h \in Hosts, HostInv(h)
  PROVE  LET f == FlushLookahead(h) IN
      /\ HostInv(f) /\ f.ahead = 0 /\ f.state \in {"Main", "Flushed"}
      /\ f.buffer <= h.buffer + h.ahead \/ f.buffer <= Lead + h.ahead
      /\ f.state = "Main" => h.state = "Main"
      /\ h.ahead = 0 /\ h.state = "Main" => f = h
<1>1. CASE h.state = "Main"
  BY <1>1, FlushHost DEF FlushLookahead
<1>2. CASE h.state # "Main"
  BY <1>2, FlushStepsHost DEF FlushLookahead
<1> QED  BY <1>1, <1>2

LEMMA LastMoveHost ==
  ASSUME NEW h \in Hosts, HostInv(h)
  PROVE  LET f == LastMoveTime(h) IN
      /\ HostInv(f) /\ f.ahead = 0 /\ f.state \in {"Main", "Flushed"}
      /\ f.buffer <= h.buffer + h.ahead \/ f.buffer <= Lead + h.ahead
      /\ f.state = "Main" => h.state = "Main"
      /\ h.ahead = 0 /\ h.state = "Main" => f = h
      /\ f.idle = "Printing"
<1>0. h.buffer \in Int /\ h.ahead \in 0..MaxAhead
  BY DEF HostInv, Hosts
<1>1. FlushLookahead(h) \in Hosts
  BY LookaheadHost DEF HostInv
<1>2. PICK f \in Hosts : f = FlushLookahead(h)
  BY <1>1
<1>3. /\ HostInv(f) /\ f.ahead = 0 /\ f.state \in {"Main", "Flushed"}
      /\ f.buffer <= h.buffer + h.ahead \/ f.buffer <= Lead + h.ahead
      /\ f.state = "Main" => h.state = "Main"
      /\ h.ahead = 0 /\ h.state = "Main" => f = h
  BY <1>2, LookaheadHost
<1>4. CASE f.state = "Main"
  BY <1>2, <1>3, <1>4 DEF LastMoveTime, HostInv, Told
<1>5. CASE f.state # "Main"
  <2>1. LastMoveTime(h) = CalcPrintTime(f)
    BY <1>2, <1>5 DEF LastMoveTime
  <2>2. CalcPrintTime(f) \in Hosts
    BY CalcHost
  <2>3. PICK c \in Hosts : c = CalcPrintTime(f)
    BY <2>2
  <2>4. /\ c.state = "Flushed" /\ c.ahead = 0 /\ c.stallAt = f.stallAt
        /\ (c.buffer = f.buffer \/ c.buffer = Lead) /\ c.buffer >= f.buffer
    BY <1>3, <1>5, <2>3, CalcHost
  <2>4a. c.idle = "Printing"
    BY <1>3, <2>3, CalcHost DEF HostInv, Told
  <2>5. c.buffer \in Int /\ f.buffer \in Int
    BY DEF Hosts
  <2>6. c.buffer >= -IdleAfter
    BY <1>3, <2>4, <2>5, TimeConstants DEF HostInv
  <2>7. c.stallAt = Always
    BY <1>3, <1>5, <2>4 DEF HostInv
  <2>8. HostInv(c)
    BY <2>4, <2>4a, <2>6, <2>7, TimeConstants DEF HostInv, Told
  <2>9. c.buffer <= h.buffer + h.ahead \/ c.buffer <= Lead + h.ahead
    BY <1>0, <1>3, <2>4, TimeConstants
  <2> QED  BY <1>3, <1>5, <2>1, <2>3, <2>4, <2>4a, <2>8, <2>9
<1> QED  BY <1>4, <1>5

LEMMA PrimedHost ==
  ASSUME NEW h \in Hosts, HostInv(h)
  PROVE  LET p == Primed(h) IN
      /\ HostInv(p) /\ p.state \in {"Main", "Priming"} /\ p.buffer = h.buffer /\ p.ahead = h.ahead
      /\ p.state = "Main" => p = h
      /\ p.idle = h.idle
<1>1. CASE h.state = "Main"
  BY <1>1 DEF Primed
<1>2. CASE h.state # "Main"
  <2>1. Always \in Int /\ 1 \in Int
    BY DEF Always
  <2>2. Primed(h) \in Hosts
    BY <1>2, <2>1 DEF Primed, Hosts
  <2>3. PICK p \in Hosts : p = Primed(h)
    BY <2>2
  <2>4. p.state = "Priming" /\ p.stallAt = Always /\ p.buffer = h.buffer /\ p.ahead = h.ahead
        /\ p.idle = h.idle
    BY <1>2, <2>3 DEF Primed, Hosts
  <2>5. HostInv(p)
    BY <2>4 DEF HostInv, Told
  <2> QED  BY <2>3, <2>4, <2>5
<1> QED  BY <1>1, <1>2

LEMMA DeferredHost ==
  ASSUME NEW h \in Hosts, HostInv(h)
  PROVE  LET d == CheckDeferred(h) IN
      /\ HostInv(d) /\ d.state = h.state /\ d.buffer = h.buffer /\ d.ahead = h.ahead
      /\ d.idle = h.idle
<1>1. CASE h.state = "Main"
  <2>0. High + 1 \in Int
    BY TimeConstants
  <2>1. CheckDeferred(h) = [h EXCEPT !.stallAt = High + 1]
    BY <1>1 DEF CheckDeferred
  <2>2. CheckDeferred(h) \in Hosts
    BY <2>0, <2>1 DEF Hosts
  <2>3. PICK p \in Hosts : p = CheckDeferred(h)
    BY <2>2
  <2>4. p.state = "Main" /\ p.stallAt = High + 1 /\ p.buffer = h.buffer /\ p.ahead = h.ahead
        /\ p.flushIn = h.flushIn /\ p.idle = h.idle
    BY <1>1, <2>1, <2>3 DEF Hosts
  <2>5. HostInv(p)
    BY <1>1, <2>4, TimeConstants DEF HostInv, Told
  <2> QED  BY <1>1, <2>3, <2>4, <2>5
<1>2. CASE h.state # "Main"
  <2>1. CheckDeferred(h) = h
    BY <1>2 DEF CheckDeferred, Hosts
  <2> QED  BY <2>1
<1> QED  BY <1>1, <1>2

\* The steps of the greenlet that has the mutex.
LEMMA CheckStallStep ==
  ASSUME NEW h \in Hosts, HostInv(h), CheckStall(h), h.state \in {"Main", "Priming"},
         \E n \in Lengths : h.buffer <= Full + MaxAhead + n
  PROVE  TimeInv'
<1>0. h.buffer \in Int
  BY DEF Hosts
<1>1. CASE Stalls(h)
  <2>1. host' = h /\ worker' = [at |-> "stall", left |-> 0]
    BY <1>1 DEF CheckStall
  <2>2. WorkerInv'
    BY <2>1 DEF WorkerInv
  <2>3. HostInv(host') /\ BufferBounded'
    BY <2>1 DEF BufferBounded, Full
  <2> QED  BY <2>2, <2>3 DEF TimeInv, HostInv, Hosts, Margin
<1>2. CASE ~Stalls(h)
  <2>1. host' = CheckDeferred(h) /\ worker' = FreeWorker
    BY <1>2 DEF CheckStall
  <2>2. HostInv(host') /\ host'.state = h.state /\ host'.buffer = h.buffer
    BY <2>1, DeferredHost
  <2>3. h.buffer <= High
    BY <1>0, <1>2, TimeConstants DEF Stalls
  <2>4. host'.buffer <= Full
    BY <1>0, <2>2, <2>3, TimeConstants
  <2>5. WorkerInv'
    <3>1. worker' \in [at : {"free", "stall", "wait", "drip"}, left : Nat]
          /\ worker'.at = "free" /\ worker'.left = 0
      BY <2>1 DEF FreeWorker
    <3>2. FreeBounded(host')
      BY <2>4 DEF FreeBounded
    <3> QED  BY <2>2, <3>1, <3>2 DEF WorkerInv, FreeBounded, Full
  <2>6. BufferBounded'
    BY <2>2 DEF BufferBounded, Full
  <2> QED  BY <2>2, <2>5, <2>6 DEF TimeInv, HostInv, Hosts, Margin
<1> QED  BY <1>1, <1>2

LEMMA MoveStep ==
  ASSUME TimeInv, NEW n \in Lengths, NEW lazy \in 0..host.ahead, Move(n, lazy)
  PROVE  TimeInv'
<1>0. /\ host \in Hosts /\ HostInv(host) /\ WorkerInv
      /\ n \in Nat /\ 0 < n /\ host.ahead + n <= MaxAhead /\ worker = FreeWorker
      /\ host.ahead \in 0..MaxAhead /\ host.buffer \in Int /\ lazy \in Nat /\ lazy <= host.ahead
  BY TimeConstants DEF TimeInv, HostInv, Move, Hosts
<1>1. FreeBounded(host) /\ host.state # "Drip"
  BY <1>0 DEF WorkerInv, FreeWorker
<1>2. host.ahead + n \in Int
  BY <1>0
<1>3. [host EXCEPT !.ahead = @ + n] \in Hosts
  BY <1>0, <1>2 DEF Hosts
<1>4. PICK q \in Hosts : q = [host EXCEPT !.ahead = @ + n]
  BY <1>3
<1>5. /\ q.ahead = host.ahead + n /\ q.buffer = host.buffer /\ q.state = host.state
      /\ q.flushIn = host.flushIn /\ q.stallAt = host.stallAt /\ q.idle = host.idle
  BY <1>0, <1>4 DEF Hosts
<1>6. HostInv(q)
  <2>1. q.ahead \in 0..MaxAhead
    BY <1>0, <1>5, TimeConstants
  <2> QED  BY <1>0, <1>1, <1>5, <2>1 DEF HostInv, Told
<1>7. PICK h \in Hosts :
        /\ h = IF lazy = 0 THEN q ELSE Process(q, lazy)
        /\ HostInv(h) /\ h.buffer <= Full + MaxAhead + n /\ h.state # "Drip"
  <2>1. CASE lazy = 0
    <3>1. q.buffer <= Full + MaxAhead + n
      BY <1>0, <1>1, <1>5, TimeConstants DEF FreeBounded
    <3> QED  BY <1>1, <1>5, <1>6, <2>1, <3>1
  <2>2. CASE lazy # 0
    <3>1. 0 < lazy /\ lazy <= q.ahead
      BY <1>0, <1>5, <2>2
    <3>2. Process(q, lazy) \in Hosts
      BY <1>0, <1>6, <3>1, ProcessHost DEF HostInv
    <3>3. PICK h \in Hosts : h = Process(q, lazy)
      BY <3>2
    <3>4. HostInv(h) /\ h.state = "Main"
          /\ (h.buffer <= q.buffer + lazy \/ h.buffer <= Lead + lazy)
      BY <1>0, <1>6, <3>1, <3>3, ProcessHost
    <3>5. host.buffer <= Full
      BY <1>0, <1>1, <2>2 DEF FreeBounded
    <3>6. h.buffer \in Int
      BY DEF Hosts
    <3>7. h.buffer <= Full + MaxAhead + n
      BY <1>0, <1>5, <3>4, <3>5, <3>6, TimeConstants
    <3> QED  BY <2>2, <3>3, <3>4, <3>7
  <2> QED  BY <2>1, <2>2
<1>8. IF h.buffer > h.stallAt THEN CheckStall(Primed(h)) ELSE host' = h /\ UNCHANGED worker
  BY <1>4, <1>7 DEF Move
<1>9. h.buffer \in Int /\ h.stallAt \in Int
  BY DEF Hosts
<1>10. CASE h.buffer > h.stallAt
  <2>1. Primed(h) \in Hosts
    BY <1>7, PrimedHost DEF HostInv
  <2>2. PICK p \in Hosts : p = Primed(h)
    BY <2>1
  <2>3. HostInv(p) /\ p.state \in {"Main", "Priming"} /\ p.buffer = h.buffer
    BY <1>7, <2>2, PrimedHost
  <2>4. CheckStall(p)
    BY <1>8, <1>10, <2>2
  <2> QED  BY <1>0, <1>7, <2>3, <2>4, CheckStallStep
<1>11. CASE ~(h.buffer > h.stallAt)
  <2>1. host' = h /\ worker' = worker
    BY <1>8, <1>11
  <2>2. h.state = "Main"
    <3>1. h.buffer > -99
      BY <1>7, <1>9, TimeConstants DEF HostInv
    <3>2. h.stallAt # Always
      BY <1>9, <1>11, <3>1 DEF Always
    <3> QED  BY <1>7, <3>2 DEF HostInv, Hosts
  <2>3. h.buffer <= Full
    BY <1>7, <1>9, <1>11, <2>2, TimeConstants DEF HostInv
  <2>4. FreeBounded(h)
    BY <2>3 DEF FreeBounded
  <2>5. WorkerInv'
    BY <1>0, <2>1, <2>2, <2>4 DEF WorkerInv, FreeWorker, FreeBounded, Full
  <2>6. BufferBounded'
    BY <1>7, <2>1 DEF BufferBounded, Full
  <2> QED  BY <1>0, <1>7, <2>1, <2>5, <2>6 DEF TimeInv, HostInv, Hosts, Margin
<1> QED  BY <1>10, <1>11

LEMMA DwellStep ==
  ASSUME TimeInv, NEW n \in Lengths, Dwell(n)
  PROVE  TimeInv'
<1>0. /\ host \in Hosts /\ HostInv(host) /\ WorkerInv
      /\ n \in Nat /\ 0 < n /\ worker = FreeWorker
      /\ host.ahead \in 0..MaxAhead /\ host.buffer \in Int
  BY TimeConstants DEF TimeInv, HostInv, Dwell, Hosts
<1>1. FreeBounded(host) /\ host.state # "Drip"
  BY <1>0 DEF WorkerInv, FreeWorker
<1>2. LastMoveTime(host) \in Hosts
  BY <1>0, LastMoveHost DEF HostInv
<1>3. PICK f \in Hosts : f = LastMoveTime(host)
  BY <1>2
<1>4. HostInv(f) /\ f.ahead = 0 /\ f.state \in {"Main", "Flushed"} /\ f.buffer \in Int
      /\ f.idle = "Printing"
      /\ (f.buffer <= host.buffer + host.ahead \/ f.buffer <= Lead + host.ahead)
  BY <1>0, <1>3, LastMoveHost DEF Hosts
<1>5. f.buffer <= Full + MaxAhead
  BY <1>0, <1>1, <1>4, TimeConstants DEF FreeBounded
<1>6. [f EXCEPT !.buffer = @ + n] \in Hosts
  <2>1. f.buffer + n \in Int
    BY <1>0, <1>4
  <2> QED  BY <2>1 DEF Hosts
<1>7. PICK d \in Hosts : d = [f EXCEPT !.buffer = @ + n]
  BY <1>6
<1>8. /\ d.buffer = f.buffer + n /\ d.ahead = 0 /\ d.state = f.state
      /\ d.flushIn = f.flushIn /\ d.stallAt = f.stallAt /\ f.flushIn \in Int
      /\ d.idle = "Printing"
  BY <1>4, <1>7 DEF Hosts
<1>9. HostInv(d)
  <2>1. d.buffer >= -IdleAfter /\ d.ahead \in 0..MaxAhead
    BY <1>0, <1>4, <1>8, TimeConstants DEF HostInv
  <2>2. d.state = "Main" => d.flushIn <= d.buffer - Margin
    BY <1>0, <1>4, <1>8, TimeConstants DEF HostInv
  <2> QED  BY <1>4, <1>8, <2>1, <2>2 DEF HostInv, Told
<1>10. Primed(d) \in Hosts
  BY <1>9, PrimedHost DEF HostInv
<1>11. PICK p \in Hosts : p = Primed(d)
  BY <1>10
<1>12. HostInv(p) /\ p.state \in {"Main", "Priming"} /\ p.buffer = d.buffer
  BY <1>9, <1>11, PrimedHost
<1>13. CheckStall(p)
  BY <1>3, <1>7, <1>11 DEF Dwell
<1>14. p.buffer <= Full + MaxAhead + n
  BY <1>0, <1>4, <1>5, <1>8, <1>12, TimeConstants
<1> QED  BY <1>0, <1>12, <1>13, <1>14, CheckStallStep

Workers == [at : {"free", "stall", "wait", "drip"}, left : Nat]

\* The invariant of a state, from what is known of the toolhead and the greenlet.
LEMMA Becomes ==
  ASSUME NEW h \in Hosts, HostInv(h), NEW w \in Workers,
         host' = h, worker' = w,
         w.at = "free" => w.left = 0 /\ FreeBounded(h),
         w.at \in {"wait", "drip"} \/ w.left > 0 => h.ahead = 0,
         w.at = "drip" <=> h.state = "Drip",
         w.left > 0 => h.idle = "Printing",
         h.buffer <= Full + MaxAhead
  PROVE  TimeInv'
<1>1. WorkerInv'
  BY DEF WorkerInv, Workers, FreeBounded, Full
<1>2. BufferBounded'
  <2>1. h.buffer \in Int
    BY DEF Hosts
  <2>2. PICK n \in Lengths : TRUE
    BY PrintTimeAssumption
  <2>3. h.buffer <= Full + MaxAhead + n
    BY <2>1, TimeConstants
  <2> QED  BY <2>3 DEF BufferBounded, Full
<1> QED  BY <1>1, <1>2 DEF TimeInv, HostInv, Hosts, Margin

LEMMA Known ==
  ASSUME TimeInv
  PROVE  /\ host \in Hosts /\ HostInv(host) /\ WorkerInv /\ worker \in Workers
         /\ host.ahead \in 0..MaxAhead /\ host.buffer \in Int /\ host.flushIn \in Int
         /\ host.stallAt \in Int /\ worker.left \in Nat
         /\ worker = FreeWorker => FreeBounded(host) /\ host.state # "Drip"
  BY DEF TimeInv, HostInv, WorkerInv, Hosts, Workers, FreeWorker

LEMMA FreeFlushed ==
  ASSUME TimeInv, NEW h \in Hosts, worker = FreeWorker,
         h.buffer <= host.buffer + host.ahead \/ h.buffer <= Lead + host.ahead
  PROVE  h.buffer <= Full + MaxAhead
<1>1. h.buffer \in Int
  BY DEF Hosts
<1> QED  BY <1>1, Known, TimeConstants DEF FreeBounded

LEMMA HeatStep ==
  ASSUME TimeInv, Heat
  PROVE  TimeInv'
<1>0. worker = FreeWorker /\ FreeWorker \in Workers /\ worker' = worker
  BY DEF Heat, FreeWorker, Workers
<1>1. CASE host.ahead = 0
  <2>1. LastMoveTime(host) \in Hosts
    BY Known, LastMoveHost DEF HostInv
  <2>2. PICK f \in Hosts : f = LastMoveTime(host)
    BY <2>1
  <2>3. /\ HostInv(f) /\ f.ahead = 0 /\ f.state \in {"Main", "Flushed"} /\ f.buffer \in Int
        /\ (f.buffer <= host.buffer + host.ahead \/ f.buffer <= Lead + host.ahead)
        /\ f.state = "Main" => host.state = "Main"
        /\ host.ahead = 0 /\ host.state = "Main" => f = host
    BY Known, <2>2, LastMoveHost DEF Hosts
  <2>4. f.buffer <= Full + MaxAhead
    BY <1>0, <2>3, FreeFlushed
  <2>5. FreeBounded(f)
    BY <1>0, <1>1, <2>3, <2>4, Known DEF FreeBounded
  <2>6. host' = f
    BY <1>1, <2>2 DEF Heat
  <2> QED  BY <1>0, <2>3, <2>4, <2>5, <2>6, Becomes DEF FreeWorker
<1>2. CASE host.ahead # 0
  <2>1. host' = host
    BY <1>2 DEF Heat
  <2>2. host.buffer <= Full + MaxAhead
    BY <1>0, Known, TimeConstants DEF FreeBounded
  <2> QED  BY <1>0, <2>1, <2>2, Known, Becomes DEF FreeWorker
<1> QED  BY <1>1, <1>2

LEMMA WaitMovesStep ==
  ASSUME TimeInv, WaitMoves
  PROVE  TimeInv'
<1>0. worker = FreeWorker /\ worker' = [at |-> "wait", left |-> 0]
  BY Known DEF WaitMoves
<1>1. PICK w \in Workers : w = [at |-> "wait", left |-> 0]
  BY DEF Workers
<1>2. FlushLookahead(host) \in Hosts
  BY Known, LookaheadHost DEF HostInv
<1>3. PICK f \in Hosts : f = FlushLookahead(host)
  BY <1>2
<1>4. /\ HostInv(f) /\ f.ahead = 0 /\ f.state \in {"Main", "Flushed"}
      /\ (f.buffer <= host.buffer + host.ahead \/ f.buffer <= Lead + host.ahead)
  BY Known, <1>3, LookaheadHost
<1>5. f.buffer <= Full + MaxAhead
  BY <1>0, <1>4, FreeFlushed
<1>6. host' = f
  BY <1>3 DEF WaitMoves
<1>7. w.at = "wait" /\ w.left = 0
  BY <1>1
<1> QED  BY <1>0, <1>1, <1>4, <1>5, <1>6, <1>7, Becomes

LEMMA DripMoveStep ==
  ASSUME TimeInv, NEW n \in Lengths, DripMove(n)
  PROVE  TimeInv'
<1>0. worker = FreeWorker /\ worker' = [at |-> "stall", left |-> n]
  BY Known DEF DripMove
<1>1. PICK w \in Workers : w = [at |-> "stall", left |-> n]
  BY TimeConstants DEF Workers
<1>2. LastMoveTime(host) \in Hosts
  BY Known, LastMoveHost DEF HostInv
<1>3. PICK f \in Hosts : f = LastMoveTime(host)
  BY <1>2
<1>4. /\ HostInv(f) /\ f.ahead = 0 /\ f.idle = "Printing"
      /\ (f.buffer <= host.buffer + host.ahead \/ f.buffer <= Lead + host.ahead)
  BY Known, <1>3, LastMoveHost
<1>5. f.buffer <= Full + MaxAhead
  BY <1>0, <1>4, FreeFlushed
<1>6. Primed(f) \in Hosts
  BY <1>4, PrimedHost DEF HostInv
<1>7. PICK p \in Hosts : p = Primed(f)
  BY <1>6
<1>8. HostInv(p) /\ p.state \in {"Main", "Priming"} /\ p.buffer = f.buffer /\ p.ahead = 0
      /\ p.idle = "Printing"
  BY <1>4, <1>7, PrimedHost
<1>9. host' = p
  BY <1>3, <1>7 DEF DripMove
<1>10. w.at = "stall"
  BY <1>1
<1> QED  BY <1>0, <1>1, <1>5, <1>8, <1>9, <1>10, Becomes

\* The drip state begins.
LEMMA DrippingHost ==
  ASSUME NEW h \in Hosts, HostInv(h), h.ahead = 0, h.idle = "Printing"
  PROVE  LET d == Dripping(h) IN
      HostInv(d) /\ d.state = "Drip" /\ d.buffer = h.buffer /\ d.ahead = 0 /\ d.idle = "Printing"
<1>1. FlushQueue(h) = h
  BY DEF FlushQueue
<1>2. Dripping(h) = [h EXCEPT !.state = "Drip", !.stallAt = NEVER, !.flushIn = NEVER]
  BY <1>1 DEF Dripping
<1>3. NEVER \in Int
  BY DEF NEVER
<1>4. Dripping(h) \in Hosts
  BY <1>2, <1>3 DEF Hosts
<1>5. PICK d \in Hosts : d = Dripping(h)
  BY <1>4
<1>6. d.state = "Drip" /\ d.flushIn = NEVER /\ d.buffer = h.buffer /\ d.ahead = h.ahead
      /\ d.idle = "Printing"
  BY <1>2, <1>5 DEF Hosts
<1>7. HostInv(d)
  BY <1>6 DEF HostInv, Told
<1> QED  BY <1>5, <1>6, <1>7

LEMMA StallEndsStep ==
  ASSUME TimeInv, StallEnds
  PROVE  TimeInv'
<1>0. worker.at = "stall" /\ ~Stalls(host) /\ host.state # "Drip"
  BY Known DEF StallEnds, WorkerInv
<1>1. host.buffer <= High
  BY <1>0, Known, TimeConstants DEF Stalls
<1>2. CheckDeferred(host) \in Hosts
  BY Known, DeferredHost DEF HostInv
<1>3. PICK c \in Hosts : c = CheckDeferred(host)
  BY <1>2
<1>4. HostInv(c) /\ c.state = host.state /\ c.buffer = host.buffer /\ c.ahead = host.ahead
      /\ c.idle = host.idle
  BY <1>3, Known, DeferredHost
<1>5. c.buffer <= Full
  BY <1>1, <1>4, Known, TimeConstants
<1>5a. c.buffer <= Full + MaxAhead
  BY <1>5, <1>4, Known, TimeConstants
<1>6. FreeWorker \in Workers
  BY DEF FreeWorker, Workers
<1>7. CASE worker.left = 0 /\ host' = CheckDeferred(host) /\ worker' = FreeWorker
  <2>1. FreeBounded(c)
    BY <1>5 DEF FreeBounded
  <2> QED  BY <1>0, <1>3, <1>4, <1>5a, <1>6, <1>7, <2>1, Becomes DEF FreeWorker
<1>8. CASE worker.left > 0 /\ worker' = [worker EXCEPT !.at = "drip"]
           /\ host' = CalcPrintTime(Dripping(CheckDeferred(host)))
  <2>1. c.ahead = 0 /\ c.idle = "Printing"
    BY <1>4, <1>8, Known DEF WorkerInv
  <2>2. Dripping(c) \in Hosts
    BY <1>4, <2>1, DrippingHost DEF HostInv
  <2>3. PICK d \in Hosts : d = Dripping(c)
    BY <2>2
  <2>4. HostInv(d) /\ d.state = "Drip" /\ d.buffer = c.buffer /\ d.ahead = 0
        /\ d.idle = "Printing"
    BY <1>4, <2>1, <2>3, DrippingHost
  <2>5. CalcPrintTime(d) \in Hosts
    BY CalcHost
  <2>6. PICK e \in Hosts : e = CalcPrintTime(d)
    BY <2>5
  <2>7. /\ e.state = "Drip" /\ e.ahead = 0 /\ e.flushIn = d.flushIn
        /\ e.buffer >= d.buffer /\ (e.buffer = d.buffer \/ e.buffer = Lead)
        /\ e.idle = "Printing"
    BY <2>4, <2>6, CalcHost
  <2>8. e.buffer \in Int /\ d.buffer \in Int
    BY DEF Hosts
  <2>9. HostInv(e)
    <3>1. e.buffer >= -IdleAfter
      BY <2>4, <2>7, <2>8, TimeConstants DEF HostInv
    <3> QED  BY <2>4, <2>7, <3>1, TimeConstants DEF HostInv, Told
  <2>10. e.buffer <= Full + MaxAhead
    BY <1>5a, <2>4, <2>7, <2>8, TimeConstants
  <2>11. PICK w \in Workers : w = [worker EXCEPT !.at = "drip"]
    BY Known DEF Workers
  <2>12. w.at = "drip"
    BY <2>11, Known DEF Workers
  <2>13. host' = e /\ worker' = w
    BY <1>3, <1>8, <2>3, <2>6, <2>11
  <2> QED  BY <1>0, <2>7, <2>9, <2>10, <2>12, <2>13, Becomes
<1>9. CASE worker.left > 0 /\ worker' = FreeWorker
           /\ host' = FlushSteps(Dripping(CheckDeferred(host)))
  <2>1. c.ahead = 0 /\ c.idle = "Printing"
    BY <1>4, <1>9, Known DEF WorkerInv
  <2>2. Dripping(c) \in Hosts
    BY <1>4, <2>1, DrippingHost DEF HostInv
  <2>3. PICK d \in Hosts : d = Dripping(c)
    BY <2>2
  <2>4. HostInv(d) /\ d.state = "Drip" /\ d.buffer = c.buffer /\ d.ahead = 0
        /\ d.idle = "Printing"
    BY <1>4, <2>1, <2>3, DrippingHost
  <2>5. FlushSteps(d) \in Hosts
    BY <2>4, FlushStepsHost DEF HostInv
  <2>6. PICK f \in Hosts : f = FlushSteps(d)
    BY <2>5
  <2>7. /\ HostInv(f) /\ f.ahead = 0 /\ f.state = "Flushed"
        /\ (f.buffer <= d.buffer + d.ahead \/ f.buffer <= Lead + d.ahead)
    BY <2>4, <2>6, FlushStepsHost
  <2>8. f.buffer \in Int /\ d.buffer \in Int
    BY DEF Hosts
  <2>9. f.buffer <= Full + MaxAhead
    BY <1>5a, <2>4, <2>7, <2>8, TimeConstants
  <2>10. FreeBounded(f)
    BY <2>7, <2>9 DEF FreeBounded
  <2>11. host' = f
    BY <1>3, <1>9, <2>3, <2>6
  <2> QED  BY <1>0, <1>6, <1>9, <2>7, <2>9, <2>10, <2>11, Becomes DEF FreeWorker
<1> QED  BY <1>7, <1>8, <1>9 DEF StallEnds

LEMMA WaitEndsStep ==
  ASSUME TimeInv, WaitEnds
  PROVE  TimeInv' /\ host.ahead = 0 /\ host.buffer < 0
<1>1. worker.at = "wait" /\ worker' = FreeWorker /\ host' = host
      /\ FreeWorker \in Workers
  BY Known DEF WaitEnds, FreeWorker, Workers
<1>2. host.ahead = 0 /\ host.state # "Drip"
  BY <1>1, Known DEF WorkerInv
<1>3. host.buffer < 0
  BY Known DEF WaitEnds, StillMoving
<1>4. host.buffer <= Full /\ host.buffer <= Full + MaxAhead
  BY <1>3, Known, TimeConstants
<1> QED  BY <1>1, <1>2, <1>3, <1>4, Known, Becomes DEF FreeWorker, FreeBounded

LEMMA DripStep ==
  ASSUME TimeInv, DripSegment
  PROVE  TimeInv'
<1>1. worker.at = "drip" /\ host.buffer <= 1 /\ host.state = "Drip"
      /\ host.ahead = 0 /\ worker.left > 0 /\ host.idle = "Printing"
  BY Known DEF DripSegment, WorkerInv
<1>2. host.buffer + 1 \in Int /\ worker.left - 1 \in Nat
  BY <1>1, Known
<1>3. [host EXCEPT !.buffer = @ + 1] \in Hosts
  BY <1>2, Known DEF Hosts
<1>4. PICK h \in Hosts : h = [host EXCEPT !.buffer = @ + 1]
  BY <1>3
<1>5. h.buffer = host.buffer + 1 /\ h.ahead = 0 /\ h.state = "Drip" /\ h.flushIn = host.flushIn
      /\ h.idle = "Printing"
  BY <1>1, <1>4, Known DEF Hosts
<1>6. [worker EXCEPT !.left = @ - 1] \in Workers
  BY <1>2, Known DEF Workers
<1>7. PICK w \in Workers : w = [worker EXCEPT !.left = @ - 1]
  BY <1>6
<1>8. w.at = "drip"
  BY <1>1, <1>7, Known DEF Workers
<1>9. h.buffer >= -IdleAfter /\ h.buffer <= Full + MaxAhead /\ h.ahead \in 0..MaxAhead
  BY <1>1, <1>5, Known, TimeConstants DEF HostInv
<1>10. HostInv(h)
  BY <1>1, <1>5, <1>9, Known DEF HostInv, Told
<1>11. host' = h /\ worker' = w
  BY <1>4, <1>7 DEF DripSegment
<1> QED  BY <1>1, <1>5, <1>8, <1>9, <1>10, <1>11, Becomes

LEMMA DripEndsStep ==
  ASSUME TimeInv, DripEnds
  PROVE  TimeInv'
<1>1. worker.at = "drip" /\ worker' = FreeWorker /\ FreeWorker \in Workers
      /\ host.ahead = 0 /\ host.buffer <= Full + MaxAhead
  BY Known DEF DripEnds, WorkerInv, FreeWorker, Workers
<1>2. FlushSteps(host) \in Hosts
  BY Known, FlushStepsHost DEF HostInv
<1>3. PICK f \in Hosts : f = FlushSteps(host)
  BY <1>2
<1>4. /\ HostInv(f) /\ f.ahead = 0 /\ f.state = "Flushed" /\ f.buffer \in Int
      /\ (f.buffer <= host.buffer + host.ahead \/ f.buffer <= Lead + host.ahead)
  BY <1>3, Known, FlushStepsHost DEF Hosts
<1>5. f.buffer <= Full + MaxAhead
  BY <1>1, <1>4, Known, TimeConstants
<1>6. FreeBounded(f)
  BY <1>4, <1>5 DEF FreeBounded
<1>7. host' = f
  BY <1>3 DEF DripEnds
<1> QED  BY <1>1, <1>4, <1>5, <1>6, <1>7, Becomes DEF FreeWorker

\* The timers of the toolhead and of the timeout, and time; the greenlet does not move.
LEMMA SameWorker ==
  ASSUME TimeInv, NEW h \in Hosts, host' = h, worker' = worker,
         h.state = host.state, h.ahead = host.ahead, HostInv(h), h.buffer <= host.buffer,
         h.idle = host.idle \/ worker = FreeWorker
  PROVE  TimeInv'
<1>1. h.buffer \in Int
  BY DEF Hosts
<1>2. FreeBounded(host) => FreeBounded(h)
  BY <1>1, Known, TimeConstants DEF FreeBounded
<1>3. worker'.at = "drip" => h.buffer <= Full + MaxAhead
  BY <1>1, Known, TimeConstants DEF WorkerInv
<1>4. WorkerInv'
  <2>1. worker.left > 0 => h.idle = "Printing"
    BY DEF TimeInv, WorkerInv, FreeWorker
  <2> QED  BY <1>2, <1>3, <2>1, Known DEF WorkerInv, FreeBounded, Full
<1>5. BufferBounded'
  <2>1. PICK n \in Lengths : host.buffer <= Full + MaxAhead + n
    BY DEF TimeInv, BufferBounded, Full
  <2>2. h.buffer <= Full + MaxAhead + n
    BY <1>1, <2>1, Known, TimeConstants
  <2> QED  BY <2>2 DEF BufferBounded, Full
<1> QED  BY <1>4, <1>5 DEF TimeInv, HostInv, Hosts, Margin

LEMMA FlushHandlerStep ==
  ASSUME TimeInv, FlushHandler
  PROVE  TimeInv'
<1>1. host.flushIn <= 0 /\ worker' = worker
  BY Known DEF FlushHandler
<1>2. host.state # "Drip"
  <2>1. SUFFICES ASSUME host.state = "Drip"  PROVE FALSE
    OBVIOUS
  <2>2. host.flushIn = 99
    BY <2>1, Known DEF HostInv, NEVER
  <2> QED  BY <1>1, <2>2
<1>3. CASE host.buffer > Low
  <2>1. host.buffer - Low \in Int
    BY Known, TimeConstants
  <2>2. [host EXCEPT !.flushIn = host.buffer - Low] \in Hosts
    BY <2>1, Known DEF Hosts
  <2>3. PICK h \in Hosts : h = [host EXCEPT !.flushIn = host.buffer - Low]
    BY <2>2
  <2>4. /\ h.buffer = host.buffer /\ h.ahead = host.ahead /\ h.state = host.state
        /\ h.flushIn = host.buffer - Low /\ h.stallAt = host.stallAt
        /\ h.idle = host.idle
    BY <2>3, Known DEF Hosts
  <2>5. -Late <= h.flushIn /\ h.flushIn <= h.buffer - Margin /\ h.buffer <= host.buffer
    BY <1>3, <2>4, Known, TimeConstants
  <2>6. HostInv(h)
    BY <1>2, <2>4, <2>5, Known DEF HostInv, Told
  <2>7. host' = h
    BY <1>3, <2>3 DEF FlushHandler, Again
  <2> QED  BY <1>1, <2>4, <2>5, <2>6, <2>7, SameWorker
<1>4. CASE ~(host.buffer > Low)
  <2>1. FlushSteps(host) \in Hosts
    BY Known, FlushStepsHost DEF HostInv
  <2>2. PICK f \in Hosts : f = FlushSteps(host)
    BY <2>1
  <2>3. /\ HostInv(f) /\ f.ahead = 0 /\ f.state = "Flushed" /\ f.buffer \in Int
        /\ f.idle \in {host.idle, "Printing"}
        /\ (f.buffer <= host.buffer + host.ahead \/ f.buffer <= Lead + host.ahead)
    BY <2>2, Known, FlushStepsHost DEF Hosts
  <2>4. f.buffer <= Full + MaxAhead
    BY <1>4, <2>3, Known, TimeConstants
  <2>5. FreeBounded(f)
    BY <2>3, <2>4 DEF FreeBounded
  <2>6. host' = f
    BY <1>4, <2>2 DEF FlushHandler
  <2>7. /\ worker.at # "drip" /\ (worker.at = "free" => worker.left = 0)
    BY <1>2, Known DEF WorkerInv
  <2>8. worker.left > 0 => f.idle = "Printing"
    BY <2>3, Known DEF WorkerInv
  <2> QED  BY <2>8, <1>1, <2>3, <2>4, <2>5, <2>6, <2>7, Known, Becomes
<1> QED  BY <1>3, <1>4

\* Only the fields of the idle timeout change.
LEMMA IdleStep ==
  ASSUME TimeInv, worker' = worker,
         NEW s \in {"Idle", "Ready", "Printing"}, NEW t \in Int,
         host' = [host EXCEPT !.idle = s, !.idleIn = t],
         s = host.idle \/ (worker = FreeWorker /\ host.state # "Main" /\ host.buffer <= Lead)
  PROVE  TimeInv'
<1>1. [host EXCEPT !.idle = s, !.idleIn = t] \in Hosts
  BY Known DEF Hosts
<1>2. PICK h \in Hosts : h = [host EXCEPT !.idle = s, !.idleIn = t]
  BY <1>1
<1>3. /\ h.buffer = host.buffer /\ h.ahead = host.ahead /\ h.state = host.state
      /\ h.flushIn = host.flushIn /\ h.stallAt = host.stallAt /\ h.idle = s
  BY <1>2, Known DEF Hosts
<1>4. Told(h)
  <2>1. CASE s = host.idle
    BY <1>3, <2>1, Known DEF HostInv, Told
  <2>2. CASE worker = FreeWorker /\ host.state # "Main" /\ host.buffer <= Lead
    <3>1. host.state \notin {"Main", "Drip"} /\ ~(host.buffer > Lead)
      BY <2>2, Known, TimeConstants
    <3> QED  BY <1>3, <3>1 DEF Told
  <2> QED  BY <2>1, <2>2
<1>5. HostInv(h) /\ h.buffer <= host.buffer
  BY <1>3, <1>4, Known DEF HostInv
<1>6. h.idle = host.idle \/ worker = FreeWorker
  BY <1>3
<1> QED  BY <1>2, <1>3, <1>5, <1>6, SameWorker

LEMMA SleepStep ==
  ASSUME TimeInv, NEW t \in Int, Sleep(t)
  PROVE  TimeInv'
<1>1. host' = [host EXCEPT !.idle = host.idle, !.idleIn = t] /\ host.idle \in {"Idle", "Ready", "Printing"}
  BY Known DEF Sleep, Hosts
<1>2. worker' = worker
  BY DEF Sleep
<1>3. PICK s \in {"Idle", "Ready", "Printing"} : s = host.idle
  BY <1>1
<1> QED  BY <1>1, <1>2, <1>3, IdleStep

\* A toolhead that has run out is not in the main state.
LEMMA RunOut ==
  ASSUME TimeInv, host.buffer <= 0
  PROVE  host.state # "Main" /\ host.buffer <= Lead
BY Known, TimeConstants DEF HostInv

LEMMA GoIdleStep ==
  ASSUME TimeInv, GoIdle, worker = FreeWorker, host.ahead = 0, host.buffer <= 0
  PROVE  TimeInv'
<1>1. FreeWorker \in Workers /\ worker.at = "free" /\ worker.left = 0
  BY DEF FreeWorker, Workers
<1>2. [host EXCEPT !.idle = "Printing"] \in Hosts
  BY Known DEF Hosts
<1>3. PICK a \in Hosts : a = [host EXCEPT !.idle = "Printing"]
  BY <1>2
<1>4. /\ a.buffer = host.buffer /\ a.ahead = host.ahead /\ a.state = host.state
      /\ a.flushIn = host.flushIn /\ a.stallAt = host.stallAt /\ a.idle = "Printing"
  BY <1>3, Known DEF Hosts
<1>5. HostInv(a)
  BY <1>4, Known DEF HostInv, Told
<1>6. LastMoveTime(a) \in Hosts
  BY <1>5, LastMoveHost DEF HostInv
<1>7. PICK b \in Hosts : b = LastMoveTime(a)
  BY <1>6
<1>8. /\ HostInv(b) /\ b.ahead = 0 /\ b.state \in {"Main", "Flushed"} /\ b.buffer \in Int
      /\ (b.buffer <= host.buffer + host.ahead \/ b.buffer <= Lead + host.ahead)
      /\ b.state = "Main" => host.state = "Main"
  BY <1>4, <1>5, <1>7, LastMoveHost DEF Hosts
<1>9. b.state = "Flushed" /\ b.buffer <= Lead
  BY <1>8, RunOut, Known, TimeConstants
<1>10. NEVER \in Int
  BY DEF NEVER
<1>11. [b EXCEPT !.idle = "Idle", !.idleIn = NEVER] \in Hosts
  BY <1>10 DEF Hosts
<1>12. PICK e \in Hosts : e = [b EXCEPT !.idle = "Idle", !.idleIn = NEVER]
  BY <1>11
<1>13. /\ e.buffer = b.buffer /\ e.ahead = b.ahead /\ e.state = b.state
       /\ e.flushIn = b.flushIn /\ e.stallAt = b.stallAt
  BY <1>12 DEF Hosts
<1>14. Told(e)
  <2>1. ~(e.buffer > Lead)
    BY <1>8, <1>9, <1>13, TimeConstants
  <2> QED  BY <1>9, <1>13, <2>1 DEF Told
<1>15. HostInv(e)
  BY <1>8, <1>13, <1>14 DEF HostInv
<1>16. host' = e /\ worker' = worker
  BY <1>3, <1>7, <1>12 DEF GoIdle
<1>17. e.buffer <= Full /\ e.buffer <= Full + MaxAhead
  BY <1>8, <1>9, <1>13, TimeConstants
<1>18. FreeBounded(e)
  BY <1>17 DEF FreeBounded
<1> QED  BY <1>1, <1>8, <1>9, <1>13, <1>15, <1>16, <1>17, <1>18, Becomes

LEMMA CheckIdleStep ==
  ASSUME TimeInv, CheckIdle
  PROVE  TimeInv'
<1>1. CASE \E t \in {IdleAfter, IdleAfter + host.buffer, Second} : Sleep(t)
  <2>1. IdleAfter \in Int /\ IdleAfter + host.buffer \in Int /\ Second \in Int
    BY Known, TimeConstants
  <2>2. PICK t \in Int : Sleep(t)
    BY <1>1, <2>1
  <2> QED  BY <2>2, SleepStep
<1>2. CASE ~Busy /\ -host.buffer >= IdleAfter /\ ~GcodeBusy /\ GoIdle
  <2>1. host.ahead = 0 /\ host.buffer <= 0 /\ worker = FreeWorker
    BY <1>2, Known, TimeConstants DEF Busy, GcodeBusy
  <2> QED  BY <1>2, <2>1, GoIdleStep
<1> QED  BY <1>1, <1>2 DEF CheckIdle

LEMMA CheckReadyStep ==
  ASSUME TimeInv, CheckReady
  PROVE  TimeInv'
<1>1. PICK b \in Int : b = Smaller(2 * Second, host.buffer)
  BY Known, TimeConstants DEF Smaller
<1>2. CASE \E t \in {ReadyAfter + Larger(0, b), ReadyAfter + b, ReadyAfter} : Sleep(t)
  <2>1. ReadyAfter + Larger(0, b) \in Int /\ ReadyAfter + b \in Int /\ ReadyAfter \in Int
    BY TimeConstants DEF Larger
  <2>2. PICK t \in Int : Sleep(t)
    BY <1>2, <2>1
  <2> QED  BY <2>2, SleepStep
<1>3. CASE /\ b <= -ReadyAfter /\ ~GcodeBusy /\ worker' = worker
           /\ host' = [host EXCEPT !.idle = "Ready", !.idleIn = IdleAfter]
  <2>1. worker = FreeWorker /\ IdleAfter \in Int
    BY <1>3, TimeConstants DEF GcodeBusy
  <2>2. host.buffer <= 0
    BY <1>1, <1>3, Known, TimeConstants DEF Smaller
  <2>3. host.state # "Main" /\ host.buffer <= Lead
    BY <2>2, RunOut
  <2> QED  BY <1>3, <2>1, <2>3, IdleStep
<1> QED  BY <1>1, <1>2, <1>3 DEF CheckReady

LEMMA TickStep ==
  ASSUME TimeInv, Tick
  PROVE  TimeInv'
<1>0. worker' = worker /\ host.flushIn > -Late
  BY Known DEF Tick
<1> DEFINE b == Larger(-IdleAfter, host.buffer - 1)
           s == IF Aged(host.stallAt) < -IdleAfter THEN Always ELSE Aged(host.stallAt)
           f == Aged(host.flushIn)
           i == Aged(host.idleIn)
<1>1. /\ b \in Int /\ b >= -IdleAfter /\ b >= host.buffer - 1 /\ b <= host.buffer
      /\ s \in Int /\ f \in Int /\ i \in Int
  <2>1. host.idleIn \in Int
    BY Known DEF Hosts
  <2> QED  BY <2>1, Known, TimeConstants DEF Aged, Always, NEVER, Larger, HostInv
<1>2. host' = [host EXCEPT !.buffer = b, !.flushIn = f, !.idleIn = i, !.stallAt = s]
  BY DEF Tick
<1>3. [host EXCEPT !.buffer = b, !.flushIn = f, !.idleIn = i, !.stallAt = s] \in Hosts
  <2> HIDE DEF b, s, f, i
  <2> QED  BY <1>1, Known DEF Hosts
<1>4. PICK h \in Hosts :
        h = [host EXCEPT !.buffer = b, !.flushIn = f, !.idleIn = i, !.stallAt = s]
  BY <1>3
<1>5. /\ h.buffer = b /\ h.ahead = host.ahead /\ h.state = host.state
      /\ h.flushIn = f /\ h.stallAt = s /\ h.idle = host.idle
  <2> HIDE DEF b, s, f, i
  <2> QED  BY <1>4, Known DEF Hosts
<1>6. ASSUME host.state = "Main"
      PROVE  -Late <= f /\ f <= b - Margin /\ s <= High + 1
  <2>1. host.flushIn <= host.buffer - Margin /\ host.stallAt <= High + 1
    BY <1>6, Known DEF HostInv
  <2>2. PICK n \in Lengths : host.buffer <= Full + MaxAhead + n
    BY DEF TimeInv, BufferBounded, Full
  <2>3. host.flushIn < 99 /\ -99 < host.flushIn /\ host.stallAt < 99
    <3>1. Full + MaxAhead + n < 99 /\ Late <= Low /\ Low < Full /\ High + 1 <= Full
      BY TimeConstants
    <3>2. n \in Nat
      BY TimeConstants
    <3> QED  BY <1>0, <2>1, <2>2, <3>1, <3>2, Known, TimeConstants
  <2>4. f = host.flushIn - 1
    BY <2>3, Known DEF Aged, Always, NEVER
  <2>5. s <= High + 1
    BY <2>1, Known, TimeConstants DEF Aged, Always, NEVER
  <2> QED  BY <1>0, <1>1, <2>1, <2>4, <2>5, Known, TimeConstants
<1>7. host.state \in {"Flushed", "Priming"} => s = Always
  BY Known, TimeConstants DEF HostInv, Aged, Always
<1>8. host.state = "Drip" => f = NEVER
  BY Known DEF HostInv, Aged
<1>9. HostInv(h)
  <2> HIDE DEF b, s, f, i
  <2>1. Told(h)
    BY <1>1, <1>5, Known, ToldSame DEF HostInv
  <2> QED  BY <2>1, <1>1, <1>5, <1>6, <1>7, <1>8, Known DEF HostInv
<1>10. h.buffer <= host.buffer
  BY <1>1, <1>5
<1> QED  BY <1>0, <1>2, <1>4, <1>5, <1>9, <1>10, SameWorker

\* The toolhead never runs dry while it moves and never runs further ahead than its limits,
\* the state of the idle timeout is "Printing" while it executes moves, and M400 returns only
\* when it stands still (toolhead.py:344-523, idle_timeout.py:44-107): the part of
\* PrintTimeRight that needs no fairness.
THEOREM ToolheadIsInTime ==
  PrintTimeInit /\ [][PrintTimeNext]_printTimeVars =>
      /\ [](PrintTimeTypeOK /\ BufferNotEmpty /\ BufferBounded /\ MovesArePrinting)
      /\ [][WaitsForAll]_printTimeVars
<1>1. PrintTimeInit => TimeInv
  <2> SUFFICES ASSUME PrintTimeInit  PROVE TimeInv
    OBVIOUS
  <2>1. /\ -IdleAfter \in Int /\ NEVER \in Int /\ Always \in Int /\ 0 \in Int
        /\ -IdleAfter <= Full /\ -IdleAfter <= Full + MaxAhead /\ 0 \in 0..MaxAhead
        /\ -IdleAfter >= -IdleAfter
    BY TimeConstants DEF NEVER, Always
  <2>2. host \in Hosts
    BY <2>1 DEF PrintTimeInit, Hosts
  <2>3. /\ host.state = "Flushed" /\ host.buffer = -IdleAfter /\ host.ahead = 0
        /\ host.stallAt = Always /\ worker = FreeWorker /\ worker.at = "free" /\ worker.left = 0
        /\ worker \in Workers
    BY DEF PrintTimeInit, FreeWorker, Workers
  <2>4. HostInv(host)
    <3>1. ~(host.buffer > Lead)
      BY <2>3, TimeConstants
    <3> QED  BY <2>1, <2>2, <2>3, <3>1 DEF HostInv, Told
  <2>5. WorkerInv
    BY <2>1, <2>3 DEF WorkerInv, FreeBounded, Workers
  <2>6. BufferBounded
    <3>1. PICK n \in Lengths : TRUE
      BY PrintTimeAssumption
    <3>2. host.buffer <= Full + MaxAhead + n
      BY <2>1, <2>3, TimeConstants
    <3> QED  BY <3>2 DEF BufferBounded, Full
  <2> QED  BY <2>3, <2>4, <2>5, <2>6 DEF TimeInv
<1>2. TimeInv => PrintTimeTypeOK /\ BufferNotEmpty /\ BufferBounded /\ MovesArePrinting
  <2> SUFFICES ASSUME TimeInv
               PROVE  PrintTimeTypeOK /\ BufferNotEmpty /\ BufferBounded /\ MovesArePrinting
    OBVIOUS
  <2>1. PrintTimeTypeOK
    BY Known DEF PrintTimeTypeOK, HostInv, Hosts, Workers
  <2>2. BufferNotEmpty
    BY Known, TimeConstants DEF BufferNotEmpty, HostInv
  <2>3. MovesArePrinting
    BY Known DEF MovesArePrinting, HostInv, Told
  <2> QED  BY <2>1, <2>2, <2>3 DEF TimeInv
<1>3. TimeInv /\ [PrintTimeNext]_printTimeVars => TimeInv'
  <2> SUFFICES ASSUME TimeInv, [PrintTimeNext]_printTimeVars
               PROVE  TimeInv'
    OBVIOUS
  <2>1. CASE Command
    BY <2>1, MoveStep, DwellStep, DripMoveStep, HeatStep, WaitMovesStep DEF Command
  <2>2. CASE StallEnds \/ WaitEnds \/ DripSegment \/ DripEnds
    BY <2>2, StallEndsStep, WaitEndsStep, DripStep, DripEndsStep
  <2>3. CASE FlushHandler \/ CheckIdle \/ CheckReady \/ Tick
    BY <2>3, FlushHandlerStep, CheckIdleStep, CheckReadyStep, TickStep
  <2>4. CASE UNCHANGED printTimeVars
    <3>1. host' = host /\ worker' = worker
      BY <2>4 DEF printTimeVars
    <3>2. host.buffer <= host.buffer
      BY Known
    <3> QED  BY <3>1, <3>2, Known, SameWorker
  <2> QED  BY <2>1, <2>2, <2>3, <2>4 DEF PrintTimeNext
<1>4. TimeInv => [WaitsForAll]_printTimeVars
  BY WaitEndsStep DEF WaitsForAll
<1> QED  BY <1>1, <1>2, <1>3, <1>4, PTL

-----------------------------------------------------------------------------
(* Saved variables of a process that is not restarted: there is one thread *)
(* then, and every snapshot is on its way from memory to the file in the   *)
(* order of the saves.                                                     *)

Working == pc[1] \in {"open", "write", "fsync", "replace"}

\* Only the first session has a thread, and it lives as long as the session.
OneThread ==
    /\ session = IF running THEN 1 ELSE 0
    /\ running <=> pc[1] # "done"
    /\ ~running => queue[1] = << >>
    /\ \A t \in Sessions : t # 1 => pc[t] = "done"

\* Both entries of the directory name files that are on the medium, and the
\* thread works on another inode.
OnMedium ==
    /\ content[file] \in Snapshots /\ stable[file] = content[file]
    /\ content[entry] \in Snapshots /\ stable[entry] = content[entry]
    /\ tmp # file /\ tmp # entry
    /\ pc[1] \in {"write", "fsync", "replace"} => tmp # NoInode
    /\ pc[1] \in {"write", "fsync"} => fd[1] = tmp
    /\ pc[1] = "write" => content[tmp] = Empty
    /\ pc[1] \in {"fsync", "replace"} => content[tmp] = snap[1]
    /\ pc[1] = "replace" => stable[tmp] = snap[1]
    /\ pc[1] = "sync" => content[file] = snap[1]

\* From the medium to the memory snapshots only get newer.
Ordered ==
    /\ NotNewer(kept, content[entry])
    /\ NotNewer(content[entry], content[file])
    /\ \A n \in Names : content[file][n] <= saves
    /\ running => /\ NotNewer(content[file], mem)
                  /\ \A n \in Names : mem[n] <= saves
    /\ Working => NotNewer(content[file], snap[1]) /\ NotNewer(snap[1], mem)
    /\ running => \A i \in 1..Len(queue[1]) :
                     /\ NotNewer(content[file], queue[1][i])
                     /\ NotNewer(queue[1][i], mem)
                     /\ Working => NotNewer(snap[1], queue[1][i])
                     /\ \A j \in 1..i : NotNewer(queue[1][j], queue[1][i])

IInv == TypeOK /\ OneThread /\ OnMedium /\ Ordered

LEMMA OneIsSession == 1 \in Sessions
  BY SaveAssumption DEF Sessions

\* The variables have their types in every reachable state, whatever fails,
\* and vars_queue keeps to its size.
THEOREM TypeCorrect == Spec => []TypeOK
<1> USE SaveAssumption
<1>1. Init => TypeOK
  BY OneIsSession DEF Init, TypeOK, Empty, Snapshots, Sessions
<1>2. TypeOK /\ [Next]_vars => TypeOK'
  <2> SUFFICES ASSUME TypeOK, [Next]_vars  PROVE  TypeOK'
    OBVIOUS
  <2> USE DEF TypeOK, fsVars
  <2>e. Empty \in Snapshots
    BY DEF Empty, Snapshots
  <2>1. CASE \E set \in SUBSET Names \ {{}} : Save(set)
    <3> PICK set \in SUBSET Names \ {{}} : Save(set)
      BY <2>1
    <3>1. mem' \in Snapshots /\ saves' \in 0..MaxSaves
      BY DEF Save, Snapshots
    <3>2. \A q \in Seq(Snapshots) : Len(q) <= QueueSize =>
             Put(q, mem') \in Seq(Snapshots) /\ Len(Put(q, mem')) <= QueueSize
      BY <3>1 DEF Put
    <3>3. /\ queue' \in [Sessions -> Seq(Snapshots)]
          /\ \A t \in Sessions : Len(queue'[t]) <= QueueSize
      BY <3>2 DEF Save
    <3> QED  BY <3>1, <3>3 DEF Save
  <2>2. CASE \E t \in Sessions : Thread(t)
    <3> PICK t \in Sessions : Thread(t)
      BY <2>2
    <3>0. AfterWrite(t) \in {"get", "done"}
      BY DEF AfterWrite
    <3>1. CASE Get(t)
      <4>1. Head(queue[t]) \in Snapshots /\ Tail(queue[t]) \in Seq(Snapshots)
            /\ Len(Tail(queue[t])) <= QueueSize
        BY <3>1 DEF Get
      <4> QED  BY <3>1, <4>1 DEF Get, Step
    <3>2. CASE GetTimesOut(t)
      BY <3>2 DEF GetTimesOut, Step
    <3>3. CASE Open(t)
      BY <3>3, <2>e DEF Open, Step
    <3>4. CASE Write(t)
      <4>1. PICK c \in {snap[t]} \cup IF content[fd[t]] = Empty THEN {} ELSE {Torn} :
               content' = [content EXCEPT ![fd[t]] = c]
        BY <3>4 DEF Write
      <4>2. c \in Snapshots \cup {Torn}
        OBVIOUS
      <4>3. content' \in [Inodes -> Snapshots \cup {Torn}]
        BY <4>1, <4>2
      <4> QED  BY <3>4, <4>3 DEF Write, Step
    <3>5. CASE Fsync(t)
      <4>1. stable' \in [Inodes -> Snapshots \cup {Torn}]
        BY <3>5 DEF Fsync, Fsynced
      <4> QED  BY <3>5, <4>1 DEF Fsync, Step
    <3>6. CASE Replace(t)
      BY <3>6 DEF Replace, Step
    <3>7. CASE Sync(t)
      <4>1. kept' \in Snapshots
        BY <3>7 DEF Sync, Snapshots
      <4> QED  BY <3>7, <4>1, <3>0 DEF Sync, Step
    <3>8. CASE WriteFails(t)
      BY <3>8, <3>0 DEF WriteFails
    <3> QED
      BY <3>1, <3>2, <3>3, <3>4, <3>5, <3>6, <3>7, <3>8 DEF Thread
  <2>3. CASE Disconnect
    <3>1. session \in 0..MaxSessions
      OBVIOUS
    <3>2. running' = FALSE /\ session' \in 0..(MaxSessions - 1)
      BY <2>3, <3>1 DEF Disconnect
    <3> QED  BY <2>3, <3>2 DEF Disconnect
  <2>4. CASE PowerLoss
    <3>1. PICK s \in Survivors : stable' = [i \in Inodes |-> s]
      BY <2>4 DEF PowerLoss
    <3>2. s \in Snapshots \cup {Torn}
      BY DEF Survivors, Remains
    <3>3. stable' \in [Inodes -> Snapshots \cup {Torn}] /\ content' = stable'
      BY <2>4, <3>1, <3>2 DEF PowerLoss
    <3>4. /\ queue' \in [Sessions -> Seq(Snapshots)]
          /\ \A t \in Sessions : Len(queue'[t]) <= QueueSize
      BY <2>4 DEF PowerLoss, NoThreads
    <3>5. /\ pc' \in [Sessions -> {"get", "open", "write", "fsync", "replace",
                                   "sync", "done"}]
          /\ snap' \in [Sessions -> Snapshots]
          /\ fd' \in [Sessions -> Inodes \cup {NoInode}]
      BY <2>4, <2>e DEF PowerLoss, NoThreads
    <3>6. session' \in 0..(MaxSessions - 1) /\ running' = FALSE
      BY <2>4 DEF PowerLoss
    <3>7. file' = file /\ entry' = file /\ tmp' = NoInode
          /\ UNCHANGED <<mem, saves, kept>>
      BY <2>4 DEF PowerLoss
    <3> QED  BY <3>3, <3>4, <3>5, <3>6, <3>7
  <2>5. CASE Start
    <3>1. mem' \in Snapshots
      BY <2>5 DEF Start, Loaded
    <3>2. running' = TRUE /\ session' \in 0..MaxSessions
      BY <2>5 DEF Start
    <3> QED  BY <2>5, <3>1, <3>2 DEF Start
  <2>6. CASE UNCHANGED vars
    BY <2>6 DEF vars
  <2> QED  BY <2>1, <2>2, <2>3, <2>4, <2>5, <2>6 DEF Next
<1> QED  BY <1>1, <1>2, PTL DEF Spec

-----------------------------------------------------------------------------

\* Older and newer is an order of snapshots.
LEMMA OrderRefl == ASSUME NEW a \in Snapshots  PROVE NotNewer(a, a)
  BY DEF Snapshots, NotNewer

LEMMA OrderTrans ==
    ASSUME NEW a \in Snapshots, NEW b \in Snapshots, NEW c \in Snapshots,
           NotNewer(a, b), NotNewer(b, c)
    PROVE  NotNewer(a, c)
<1> SUFFICES ASSUME NEW n \in Names  PROVE a[n] <= c[n]
  BY DEF NotNewer
<1>1. a[n] \in Nat /\ b[n] \in Nat /\ c[n] \in Nat
  BY DEF Snapshots
<1>2. a[n] <= b[n] /\ b[n] <= c[n]
  BY DEF NotNewer
<1> QED  BY <1>1, <1>2

LEMMA EmptyIsOldest ==
    ASSUME NEW a \in Snapshots
    PROVE  Empty \in Snapshots /\ NotNewer(Empty, a)
  BY DEF Snapshots, NotNewer, Empty

\* A thread that is not done is the one of the running session, and goes on
\* after a write.
LEMMA TheThread ==
    ASSUME TypeOK, OneThread, NEW t \in Sessions, pc[t] # "done"
    PROVE  t = 1 /\ running /\ AfterWrite(1) = "get"
  BY DEF TypeOK, OneThread, AfterWrite, Stop

LEMMA InitInv == Init => OneThread /\ OnMedium /\ Ordered
<1> SUFFICES ASSUME Init  PROVE OneThread /\ OnMedium /\ Ordered
  OBVIOUS
<1>1. OneThread
  BY OneIsSession DEF Init, OneThread
<1>2. OnMedium
  BY OneIsSession, EmptyIsOldest, SaveAssumption
  DEF Init, OnMedium, Snapshots, Empty
<1>3. Ordered
  BY OneIsSession, SaveAssumption DEF Init, Ordered, NotNewer, Empty, Working
<1> QED  BY <1>1, <1>2, <1>3

LEMMA SaveInv ==
    ASSUME IInv, TypeOK', NEW set \in SUBSET Names, Save(set)
    PROVE  OneThread' /\ OnMedium' /\ Ordered'
<1> USE OneIsSession, SaveAssumption
<1>1. OneThread' /\ OnMedium'
  BY DEF IInv, OneThread, OnMedium, Save, fsVars
<1>2. Ordered'
  <2> DEFINE q == queue[1]
             r == queue'[1]
  <2>1. running /\ session = 1 /\ r = Put(q, mem')
    BY DEF IInv, OneThread, TypeOK, Save
  <2>2. mem \in Snapshots /\ mem' \in Snapshots /\ snap[1] \in Snapshots
        /\ content[file] \in Snapshots /\ q \in Seq(Snapshots)
    BY DEF IInv, TypeOK, OnMedium
  <2>3. NotNewer(mem, mem') /\ \A n \in Names : mem'[n] <= saves'
    BY <2>1, <2>2 DEF IInv, Ordered, TypeOK, Save, NotNewer, Snapshots
  <2>4. NotNewer(content[file], mem') /\ (Working => NotNewer(snap[1], mem'))
    BY <2>1, <2>2, <2>3, OrderTrans DEF IInv, Ordered
  <2>5. \A i \in 1..Len(q) : q[i] \in Snapshots /\ NotNewer(q[i], mem')
    BY <2>1, <2>2, <2>3, OrderTrans DEF IInv, Ordered
  <2>6. \A i \in 1..Len(r) :
           /\ NotNewer(content[file], r[i])
           /\ NotNewer(r[i], mem')
           /\ Working => NotNewer(snap[1], r[i])
           /\ \A j \in 1..i : NotNewer(r[j], r[i])
    <3>1. CASE r = q
      BY <2>1, <2>5, <3>1 DEF IInv, Ordered
    <3>2. CASE r = Append(q, mem')
      <4>1. Len(r) = Len(q) + 1 /\ r[Len(q) + 1] = mem'
            /\ \A i \in 1..Len(q) : r[i] = q[i]
        BY <2>2, <3>2
      <4>2. ASSUME NEW i \in 1..Len(q)
            PROVE  /\ NotNewer(content[file], r[i])
                   /\ NotNewer(r[i], mem')
                   /\ Working => NotNewer(snap[1], r[i])
                   /\ \A j \in 1..i : NotNewer(r[j], r[i])
        <5>1. \A j \in 1..i : j \in 1..Len(q)
          BY <2>2
        <5> QED  BY <2>1, <2>5, <4>1, <5>1 DEF IInv, Ordered
      <4>3. /\ NotNewer(content[file], mem')
            /\ Working => NotNewer(snap[1], mem')
            /\ \A j \in 1..(Len(q) + 1) : NotNewer(r[j], mem')
        <5>1. NotNewer(mem', mem')
          BY <2>2, OrderRefl
        <5>2. ASSUME NEW j \in 1..(Len(q) + 1)  PROVE NotNewer(r[j], mem')
          <6>1. j = Len(q) + 1 \/ j \in 1..Len(q)
            BY <2>2
          <6>2. CASE j = Len(q) + 1
            BY <4>1, <5>1, <6>2
          <6>3. CASE j \in 1..Len(q)
            BY <2>5, <4>1, <6>3
          <6> QED  BY <6>1, <6>2, <6>3
        <5> QED  BY <2>4, <5>2
      <4>4. \A i \in 1..Len(r) : i \in 1..Len(q) \/ i = Len(q) + 1
        BY <2>2, <4>1
      <4> QED  BY <4>1, <4>2, <4>3, <4>4, <2>2, OrderRefl
    <3> QED  BY <2>1, <3>1, <3>2 DEF Put
  <2>7. /\ NotNewer(kept, content[entry]) /\ NotNewer(content[entry], content[file])
        /\ \A n \in Names : content[file][n] <= saves + 1
    BY <2>2 DEF IInv, Ordered, TypeOK, Snapshots
  <2>8. /\ saves' = saves + 1 /\ UNCHANGED <<pc, snap, running, file, entry>>
        /\ UNCHANGED <<content, kept>> /\ (Working' <=> Working)
    BY DEF Save, fsVars, Working
  <2>9. /\ NotNewer(kept, content[entry])'
        /\ NotNewer(content[entry], content[file])'
        /\ (\A n \in Names : content[file][n] <= saves)'
    BY <2>7, <2>8 DEF NotNewer
  <2>10. (running => /\ NotNewer(content[file], mem)
                     /\ \A n \in Names : mem[n] <= saves)'
    BY <2>3, <2>4, <2>8 DEF NotNewer
  <2>11. (Working => NotNewer(content[file], snap[1]) /\ NotNewer(snap[1], mem))'
    BY <2>4, <2>8 DEF NotNewer, IInv, Ordered
  <2>12. (running => \A i \in 1..Len(queue[1]) :
                     /\ NotNewer(content[file], queue[1][i])
                     /\ NotNewer(queue[1][i], mem)
                     /\ Working => NotNewer(snap[1], queue[1][i])
                     /\ \A j \in 1..i : NotNewer(queue[1][j], queue[1][i]))'
    BY <2>6, <2>8 DEF NotNewer
  <2> QED
    BY <2>9, <2>10, <2>11, <2>12 DEF Ordered
<1> QED  BY <1>1, <1>2

LEMMA GetInv ==
    ASSUME IInv, TypeOK', NEW t \in Sessions, Get(t)
    PROVE  OneThread' /\ OnMedium' /\ Ordered'
<1> USE OneIsSession, SaveAssumption
<1> DEFINE q == queue[1]
           r == queue'[1]
<1>1. t = 1 /\ running /\ pc[1] = "get" /\ pc' = [pc EXCEPT ![1] = "open"]
  BY TheThread DEF IInv, Get, Step
<1>2. pc'[1] = "open" /\ \A u \in Sessions : u # 1 => pc'[u] = pc[u]
  BY <1>1 DEF IInv, TypeOK
<1>3. q \in Seq(Snapshots) /\ q # << >> /\ r = Tail(q) /\ snap'[1] = q[1]
  BY <1>1 DEF IInv, TypeOK, Get
<1>4. Len(q) \in Nat \ {0} /\ Len(r) = Len(q) - 1
      /\ \A i \in 1..Len(r) : r[i] = q[i + 1]
  BY <1>3
<1>5. OneThread' /\ OnMedium'
  BY <1>1, <1>2 DEF IInv, OneThread, OnMedium, Get, fsVars
<1>6. UNCHANGED <<mem, session, running, file, entry, content, saves, kept>>
  BY DEF Get, fsVars
<1>7. \A i \in 1..Len(q) : /\ NotNewer(content[file], q[i])
                          /\ NotNewer(q[i], mem)
                          /\ \A j \in 1..i : NotNewer(q[j], q[i])
  BY <1>1 DEF IInv, Ordered
<1>8. NotNewer(content[file], q[1]) /\ NotNewer(q[1], mem)
  BY <1>4, <1>7
<1>9. ASSUME NEW i \in 1..Len(r)
      PROVE  /\ NotNewer(content[file], r[i])
             /\ NotNewer(r[i], mem)
             /\ NotNewer(q[1], r[i])
             /\ \A j \in 1..i : NotNewer(r[j], r[i])
  <2>1. i + 1 \in 1..Len(q) /\ 1 \in 1..(i + 1)
        /\ \A j \in 1..i : j + 1 \in 1..(i + 1) /\ j \in 1..Len(r)
    BY <1>4
  <2> QED  BY <1>4, <1>7, <2>1
<1>10. Ordered'
  <2>1. /\ NotNewer(kept, content[entry])'
        /\ NotNewer(content[entry], content[file])'
        /\ (\A n \in Names : content[file][n] <= saves)'
        /\ (running => /\ NotNewer(content[file], mem)
                       /\ \A n \in Names : mem[n] <= saves)'
    BY <1>6 DEF NotNewer, IInv, Ordered
  <2>2. (Working => NotNewer(content[file], snap[1]) /\ NotNewer(snap[1], mem))'
    BY <1>3, <1>6, <1>8 DEF NotNewer
  <2>3. (running => \A i \in 1..Len(queue[1]) :
                     /\ NotNewer(content[file], queue[1][i])
                     /\ NotNewer(queue[1][i], mem)
                     /\ Working => NotNewer(snap[1], queue[1][i])
                     /\ \A j \in 1..i : NotNewer(queue[1][j], queue[1][i]))'
    BY <1>3, <1>6, <1>9 DEF NotNewer
  <2> QED  BY <2>1, <2>2, <2>3 DEF Ordered
<1> QED  BY <1>5, <1>10

\* What holds of a step that leaves the queue, the memory, the snapshot and
\* the two named files alone.
LEMMA OrderKept ==
    ASSUME IInv, UNCHANGED <<mem, queue, snap, running, file, entry, saves, kept>>,
           content'[file] = content[file], content'[entry] = content[entry],
           Working' => Working
    PROVE  Ordered'
  BY DEF IInv, Ordered, NotNewer

LEMMA WritingInv ==
    ASSUME IInv, TypeOK', NEW t \in Sessions,
           Open(t) \/ Write(t) \/ Fsync(t) \/ WriteFails(t) \/ GetTimesOut(t)
    PROVE  OneThread' /\ OnMedium' /\ Ordered'
<1> USE OneIsSession, SaveAssumption
<1>0. pc[t] # "done" /\ UNCHANGED <<mem, queue, snap, session, running, file, entry, saves, kept>>
  BY DEF Open, Write, Fsync, WriteFails, GetTimesOut, Step, fsVars
<1>1. t = 1 /\ running /\ session = 1 /\ AfterWrite(1) = "get" /\ ~Stop(1)
  BY <1>0, TheThread DEF IInv, OneThread, Stop
<1>2. /\ pc \in [Sessions -> {"get", "open", "write", "fsync", "replace", "sync", "done"}]
      /\ fd \in [Sessions -> Inodes \cup {NoInode}]
      /\ snap[1] \in Snapshots
      /\ file \in Inodes /\ entry \in Inodes /\ tmp \in Inodes \cup {NoInode}
      /\ content \in [Inodes -> Snapshots \cup {Torn}]
      /\ stable \in [Inodes -> Snapshots \cup {Torn}]
  BY DEF IInv, TypeOK
<1>3. OnMedium /\ OneThread
  BY DEF IInv
<1>4. CASE Open(1)
  <2>1. pc[1] = "open" /\ pc' = [pc EXCEPT ![1] = "write"]
        /\ fd' = [fd EXCEPT ![1] = tmp'] /\ stable' = stable
        /\ content' = [content EXCEPT ![tmp'] = Empty]
    BY <1>4 DEF Open, Step
  <2>2. tmp' \in Inodes /\ tmp' # file /\ tmp' # entry
    BY <1>2, <1>3, <1>4 DEF Open, InUse, OnMedium
  <2>3. OneThread'
    BY <1>0, <1>1, <1>2, <1>3, <2>1 DEF OneThread
  <2>4. OnMedium'
    BY <1>0, <1>2, <1>3, <2>1, <2>2 DEF OnMedium
  <2>5. Ordered'
    BY <1>0, <1>2, <2>1, <2>2, OrderKept DEF Working
  <2> QED  BY <2>3, <2>4, <2>5
<1>5. CASE Write(1)
  <2>1. pc[1] = "write" /\ pc' = [pc EXCEPT ![1] = "fsync"]
        /\ fd[1] = tmp /\ tmp \in Inodes /\ content[tmp] = Empty
        /\ UNCHANGED <<tmp, fd, stable>>
    BY <1>2, <1>3, <1>5 DEF Write, Step, OnMedium
  <2>2. content' = [content EXCEPT ![tmp] = snap[1]]
    BY <1>5, <2>1 DEF Write
  <2>3. OneThread'
    BY <1>0, <1>1, <1>2, <1>3, <2>1 DEF OneThread
  <2>4. OnMedium'
    BY <1>0, <1>2, <1>3, <2>1, <2>2 DEF OnMedium
  <2>5. Ordered'
    BY <1>0, <1>2, <1>3, <2>1, <2>2, OrderKept DEF Working, OnMedium
  <2> QED  BY <2>3, <2>4, <2>5
<1>6. CASE Fsync(1)
  <2>1. pc[1] = "fsync" /\ pc' = [pc EXCEPT ![1] = "replace"]
        /\ fd[1] = tmp /\ tmp \in Inodes /\ content[tmp] = snap[1]
        /\ stable' = [stable EXCEPT ![tmp] = content[tmp]]
        /\ UNCHANGED <<tmp, content>>
    BY <1>2, <1>3, <1>6 DEF Fsync, Fsynced, Step, OnMedium
  <2>3. OneThread'
    BY <1>0, <1>1, <1>2, <1>3, <2>1 DEF OneThread
  <2>4. OnMedium'
    BY <1>0, <1>2, <1>3, <2>1 DEF OnMedium
  <2>5. Ordered'
    BY <1>0, <1>2, <2>1, OrderKept DEF Working
  <2> QED  BY <2>3, <2>4, <2>5
<1>7. CASE WriteFails(1)
  <2>1. pc' = [pc EXCEPT ![1] = "get"] /\ tmp' = NoInode
        /\ UNCHANGED <<content, stable>>
    BY <1>1, <1>7 DEF WriteFails
  <2>3. OneThread'
    BY <1>0, <1>1, <1>2, <1>3, <2>1 DEF OneThread
  <2>4. OnMedium'
    BY <1>0, <1>2, <1>3, <2>1 DEF OnMedium
  <2>5. Ordered'
    BY <1>0, <1>2, <2>1, OrderKept DEF Working
  <2> QED  BY <2>3, <2>4, <2>5
<1>8. CASE GetTimesOut(1)
  BY <1>1, <1>8 DEF GetTimesOut
<1> QED  BY <1>1, <1>4, <1>5, <1>6, <1>7, <1>8

LEMMA ReplaceInv ==
    ASSUME IInv, TypeOK', NEW t \in Sessions, Replace(t)
    PROVE  OneThread' /\ OnMedium' /\ Ordered'
<1> USE OneIsSession, SaveAssumption
<1>1. t = 1 /\ running /\ session = 1 /\ pc[1] = "replace" /\ tmp # NoInode
      /\ pc' = [pc EXCEPT ![1] = "sync"] /\ file' = tmp /\ tmp' = NoInode
  BY TheThread DEF IInv, OneThread, Replace, Step
<1>2. UNCHANGED <<mem, queue, snap, session, running, entry, content, stable, saves, kept>>
  BY DEF Replace
<1>3. content[tmp] = snap[1] /\ stable[tmp] = snap[1] /\ snap[1] \in Snapshots
      /\ file \in Inodes /\ entry \in Inodes
      /\ pc \in [Sessions -> {"get", "open", "write", "fsync", "replace", "sync", "done"}]
  BY <1>1 DEF IInv, OnMedium, TypeOK
<1>4. OneThread'
  BY <1>1, <1>2, <1>3 DEF IInv, OneThread
<1>5. OnMedium'
  BY <1>1, <1>2, <1>3 DEF IInv, OnMedium
<1>6. Ordered'
  <2>1. /\ NotNewer(content[file], snap[1]) /\ NotNewer(snap[1], mem)
        /\ NotNewer(content[entry], content[file])
        /\ \A i \in 1..Len(queue[1]) : NotNewer(snap[1], queue[1][i])
    BY <1>1 DEF IInv, Ordered, Working
  <2>2. NotNewer(content[entry], snap[1])
    BY <1>3, <2>1, OrderTrans DEF IInv, OnMedium
  <2>3. \A n \in Names : snap[1][n] <= saves
    <3> SUFFICES ASSUME NEW n \in Names  PROVE snap[1][n] <= saves
      OBVIOUS
    <3>1. snap[1][n] <= mem[n] /\ mem[n] <= saves
      BY <1>1, <2>1 DEF NotNewer, IInv, Ordered
    <3>2. snap[1][n] \in Nat /\ mem[n] \in Nat /\ saves \in Nat
      BY <1>3 DEF IInv, TypeOK, Snapshots
    <3> QED  BY <3>1, <3>2
  <2>4. ~Working' /\ content'[file'] = snap[1] /\ content'[entry'] = content[entry]
    BY <1>1, <1>2, <1>3 DEF Working
  <2> QED
    BY <1>1, <1>2, <2>1, <2>2, <2>3, <2>4 DEF IInv, Ordered, NotNewer
<1> QED  BY <1>4, <1>5, <1>6

LEMMA SyncInv ==
    ASSUME IInv, TypeOK', NEW t \in Sessions, Sync(t)
    PROVE  OneThread' /\ OnMedium' /\ Ordered'
<1> USE OneIsSession, SaveAssumption
<1>1. t = 1 /\ running /\ session = 1 /\ pc[1] = "sync"
      /\ pc' = [pc EXCEPT ![1] = "get"]
  BY TheThread DEF IInv, OneThread, Sync, Step
<1>2. entry' = file /\ stable' = content
      /\ UNCHANGED <<mem, queue, snap, session, running, file, tmp, content, saves>>
  BY DEF Sync
<1>3. content[file] = snap[1] /\ snap[1] \in Snapshots /\ kept \in Snapshots
      /\ content[file] \in Snapshots /\ content[entry] \in Snapshots
      /\ pc \in [Sessions -> {"get", "open", "write", "fsync", "replace", "sync", "done"}]
  BY <1>1 DEF IInv, OnMedium, TypeOK
<1>4. OneThread'
  BY <1>1, <1>2, <1>3 DEF IInv, OneThread
<1>5. OnMedium'
  BY <1>1, <1>2, <1>3 DEF IInv, OnMedium
<1>6. Ordered'
  <2>1. NotNewer(kept, content[file])
    BY <1>3, OrderTrans DEF IInv, Ordered
  <2>2. \A n \in Names : kept'[n] = snap[1][n]
    <3> SUFFICES ASSUME NEW n \in Names  PROVE kept'[n] = snap[1][n]
      OBVIOUS
    <3>1. kept'[n] = IF snap[1][n] > kept[n] THEN snap[1][n] ELSE kept[n]
      BY <1>1 DEF Sync
    <3>2. kept[n] <= snap[1][n] /\ kept[n] \in Nat /\ snap[1][n] \in Nat
      BY <1>3, <2>1 DEF NotNewer, Snapshots
    <3> QED  BY <3>1, <3>2
  <2>3. NotNewer(content[file], content[file]) /\ NotNewer(kept', content[file])
    BY <1>3, <2>2, OrderRefl DEF NotNewer
  <2>4. ~Working'
    BY <1>1, <1>3 DEF Working
  <2> QED
    BY <1>2, <2>3, <2>4 DEF IInv, Ordered, NotNewer
<1> QED  BY <1>4, <1>5, <1>6

LEMMA PowerLossInv ==
    ASSUME IInv, TypeOK', PowerLoss
    PROVE  OneThread' /\ OnMedium' /\ Ordered'
<1> USE OneIsSession, SaveAssumption
<1>1. PICK s \in Survivors : stable' = [i \in Inodes |-> s]
  BY DEF PowerLoss
<1>2. queue'[1] = << >> /\ content' = stable' /\ entry' = file /\ file' = file /\ tmp' = NoInode
      /\ session' = 0 /\ running' = FALSE /\ UNCHANGED <<saves, kept>>
      /\ pc' = [t \in Sessions |-> "done"]
  BY DEF PowerLoss, NoThreads
<1>3. s = content[file] \/ s = content[entry]
  BY DEF Survivors, Remains, IInv, OnMedium
<1>4. /\ content[file] \in Snapshots /\ content[entry] \in Snapshots
      /\ kept \in Snapshots /\ file \in Inodes /\ saves \in Nat
  BY DEF IInv, OnMedium, TypeOK
<1>5. NotNewer(kept, s) /\ NotNewer(s, content[file]) /\ s \in Snapshots
  BY <1>3, <1>4, OrderTrans, OrderRefl DEF IInv, Ordered
<1>6. \A n \in Names : s[n] <= saves
  <2> SUFFICES ASSUME NEW n \in Names  PROVE s[n] <= saves
    OBVIOUS
  <2>1. s[n] <= content[file][n] /\ content[file][n] <= saves
    BY <1>5 DEF NotNewer, IInv, Ordered
  <2>2. s[n] \in Nat /\ content[file][n] \in Nat
    BY <1>4, <1>5 DEF Snapshots
  <2> QED  BY <1>4, <2>1, <2>2
<1>7. OneThread'
  BY <1>2 DEF OneThread
<1>8. OnMedium'
  BY <1>1, <1>2, <1>4, <1>5 DEF OnMedium
<1>9. Ordered'
  <2>1. content'[file'] = s /\ content'[entry'] = s /\ ~Working' /\ ~running'
    BY <1>1, <1>2, <1>4 DEF Working
  <2>2. NotNewer(s, s)
    BY <1>5, OrderRefl
  <2> QED  BY <1>2, <1>5, <1>6, <2>1, <2>2 DEF Ordered, NotNewer
<1> QED  BY <1>7, <1>8, <1>9

LEMMA StartInv ==
    ASSUME IInv, TypeOK', Start
    PROVE  OneThread' /\ OnMedium' /\ Ordered'
<1> USE OneIsSession, SaveAssumption
<1>1. ~running /\ running' = TRUE /\ session = 0 /\ session' = 1
      /\ mem' = content[file] /\ pc' = [pc EXCEPT ![1] = "get"]
  BY DEF IInv, OneThread, Start, Loaded
<1>2. UNCHANGED <<queue, snap, file, tmp, entry, content, stable, saves, kept>>
  BY DEF Start, fsVars
<1>3. /\ content[file] \in Snapshots
      /\ pc \in [Sessions -> {"get", "open", "write", "fsync", "replace", "sync", "done"}]
  BY DEF IInv, OnMedium, TypeOK
<1>4. OneThread'
  BY <1>1, <1>2, <1>3 DEF IInv, OneThread
<1>5. OnMedium'
  BY <1>1, <1>2, <1>3 DEF IInv, OnMedium
<1>6. Ordered'
  <2>1. NotNewer(content[file], content[file])
    BY <1>3, OrderRefl
  <2>2. ~Working' /\ Len(queue'[1]) = 0
    BY <1>1, <1>2, <1>3 DEF Working, IInv, OneThread
  <2> QED  BY <1>1, <1>2, <2>1, <2>2 DEF IInv, Ordered, NotNewer
<1> QED  BY <1>4, <1>5, <1>6

LEMMA Invariance ==
    ASSUME "restart" \notin Faults
    PROVE  Spec => []IInv
<1>1. Init => OneThread /\ OnMedium /\ Ordered
  BY InitInv
<1>2. IInv /\ TypeOK' /\ [Next]_vars => OneThread' /\ OnMedium' /\ Ordered'
  <2> SUFFICES ASSUME IInv, TypeOK', [Next]_vars
               PROVE  OneThread' /\ OnMedium' /\ Ordered'
    OBVIOUS
  <2>1. CASE \E set \in SUBSET Names \ {{}} : Save(set)
    BY <2>1, SaveInv
  <2>2. CASE \E t \in Sessions : Thread(t)
    BY <2>2, GetInv, WritingInv, ReplaceInv, SyncInv DEF Thread
  <2>3. CASE Disconnect
    BY <2>3 DEF Disconnect
  <2>4. CASE PowerLoss
    BY <2>4, PowerLossInv
  <2>5. CASE Start
    BY <2>5, StartInv
  <2>6. CASE UNCHANGED vars
    BY <2>6 DEF vars, fsVars, IInv, OneThread, OnMedium, Ordered, Working, NotNewer
  <2> QED  BY <2>1, <2>2, <2>3, <2>4, <2>5, <2>6 DEF Next
<1> QED  BY <1>1, <1>2, TypeCorrect, PTL DEF Spec, IInv

\* Whatever write fails and whenever the power does, the file found at the
\* next start can be parsed and holds every variable as new as the last
\* snapshot that was written: safe_write never trades a good file for a worse.
THEOREM PowerLosesNothing ==
    ASSUME "restart" \notin Faults
    PROVE  Spec => []NothingLost
<1>1. IInv => NothingLost
  <2> SUFFICES ASSUME IInv, NEW s \in Survivors  PROVE NotNewer(kept, s)
    BY DEF NothingLost
  <2>1. s = content[file] \/ s = content[entry]
    BY DEF Survivors, Remains, IInv, OnMedium
  <2>2. /\ content[file] \in Snapshots /\ content[entry] \in Snapshots
        /\ kept \in Snapshots
    BY DEF IInv, OnMedium, TypeOK
  <2> QED  BY <2>1, <2>2, OrderTrans DEF IInv, Ordered
<1> QED  BY <1>1, Invariance, PTL

\* What klippy writes next is never older than what the file holds, so that a
\* save of one variable does not set another one back (cmd_SAVE_VARIABLE).
THEOREM MemoryIsNewest ==
    ASSUME "restart" \notin Faults
    PROVE  Spec => []MemoryNewest
<1>1. IInv => MemoryNewest
  BY DEF IInv, Ordered, MemoryNewest
<1> QED  BY <1>1, Invariance, PTL

-----------------------------------------------------------------------------
\* The filament sensor.

RunoutPlaces == {"none", "start", "look", "mistake", "sleep", "leave"}

\* No thread debounces any more.
Quiet(t) == \A d \in Debouncers : t[d] \in {"none", "leave"}

\* At most the thread d does.
QuietBut(t, d) == \A o \in Debouncers : o # d => t[o] \in {"none", "leave"}

\* While SET_FILAMENT_SENSOR is not used: an armed sensor has no runout, and one
\* that is not has at most one, as a callback, a thread, or gcode that runs.
OneAtATime ==
    \/ callbacks = << >> /\ handlers = << >> /\ Quiet(thread)
    \/ /\ minEvent = "never" /\ handlers = << >> /\ Quiet(thread)
       /\ callbacks \in {<<"check">>, <<"debounced">>}
    \/ minEvent = "never" /\ callbacks = << >> /\ Len(handlers) = 1 /\ Quiet(thread)
    \/ /\ minEvent = "never" /\ callbacks = << >> /\ handlers = << >>
       /\ \E d \in Debouncers : QuietBut(thread, d)

RunoutInv == RunoutTypeOK /\ CountsFromZero /\ (~switched => OneAtATime)

CallbackKinds == {"off", "check", "direct", "debounced"}

LEMMA RunoutStart == RunoutInit => RunoutInv
<1> SUFFICES ASSUME RunoutInit  PROVE RunoutInv
  OBVIOUS
<1>1. RunoutTypeOK
  <2>1. /\ << >> \in Seq(CallbackKinds) /\ << >> \in Seq({"direct", "debounced"})
        /\ 0 \in 0..DebounceCount
        /\ [d \in Debouncers |-> "none"] \in [Debouncers -> RunoutPlaces]
    BY RunoutAssumption DEF RunoutPlaces
  <2> QED  BY <2>1 DEF RunoutInit, RunoutTypeOK, CallbackKinds, RunoutPlaces
<1>2. CountsFromZero
  BY DEF RunoutInit, CountsFromZero
<1>3. OneAtATime
  <2>1. Quiet(thread)
    BY DEF RunoutInit, Quiet
  <2> QED  BY <2>1 DEF RunoutInit, OneAtATime
<1> QED  BY <1>1, <1>2, <1>3 DEF RunoutInv

LEMMA FewerKinds ==
  ASSUME NEW S, NEW q \in Seq(S), q # << >>
  PROVE  /\ Tail(q) \in Seq(S) /\ Head(q) \in S
         /\ \A x \in S : q = <<x>> => Tail(q) = << >> /\ Head(q) = x
<1>1. Tail(q) \in Seq(S) /\ Head(q) \in S
  OBVIOUS
<1>2. ASSUME NEW x \in S, q = <<x>>  PROVE Tail(q) = << >> /\ Head(q) = x
  <2>1. Head(<<x>>) = x /\ Tail(<<x>>) = << >>
    BY SMT
  <2> QED  BY <1>2, <2>1
<1> QED  BY <1>1, <1>2

LEMMA EmptyNone ==
  ASSUME NEW S, NEW q \in Seq(S)
  PROVE  (q = << >> <=> Len(q) = 0) /\ (q = << >> => DOMAIN q = {}) /\ Len(q) \in Nat
OBVIOUS

\* One element is taken out.
LEMMA OneFewer ==
  ASSUME NEW S, NEW q \in Seq(S), NEW i \in 1..Len(q)
  PROVE  /\ SubSeq(q, 1, i - 1) \o SubSeq(q, i + 1, Len(q)) \in Seq(S)
         /\ Len(SubSeq(q, 1, i - 1) \o SubSeq(q, i + 1, Len(q))) = Len(q) - 1
<1>1. \A k \in 1..Len(q) : q[k] \in S
  OBVIOUS
<1>2. Len(q) \in Nat /\ i \in Int /\ 1 <= i /\ i <= Len(q)
  OBVIOUS
<1>3. SubSeq(q, 1, i - 1) \in Seq(S) /\ Len(SubSeq(q, 1, i - 1)) = i - 1
  BY <1>1, <1>2
<1>4. SubSeq(q, i + 1, Len(q)) \in Seq(S) /\ Len(SubSeq(q, i + 1, Len(q))) = Len(q) - i
  BY <1>1, <1>2
<1>5. ASSUME NEW a \in Seq(S), NEW b \in Seq(S)
      PROVE  a \o b \in Seq(S) /\ Len(a \o b) = Len(a) + Len(b)
  OBVIOUS
<1>6. PICK a \in Seq(S), b \in Seq(S) :
         a = SubSeq(q, 1, i - 1) /\ b = SubSeq(q, i + 1, Len(q))
  BY <1>3, <1>4
<1>7. a \o b \in Seq(S) /\ Len(a \o b) = Len(a) + Len(b)
  BY <1>5
<1>8. Len(a) + Len(b) = Len(q) - 1
  <2>1. Len(a) = i - 1 /\ Len(b) = Len(q) - i
    BY <1>3, <1>4, <1>6
  <2> QED  BY <1>2, <2>1
<1>9. SubSeq(q, 1, i - 1) \o SubSeq(q, i + 1, Len(q)) = a \o b
  BY <1>6
<1> QED  BY <1>7, <1>8, <1>9

\* A step of one thread that goes on.
LEMMA ThreadMoves ==
  ASSUME RunoutInv, NEW d \in Debouncers, NEW a, NEW b \in RunoutPlaces, Moves(d, a, b)
  PROVE  /\ thread' \in [Debouncers -> RunoutPlaces] /\ thread[d] = a /\ thread'[d] = b
         /\ \A o \in Debouncers : o # d => thread'[o] = thread[o]
BY DEF Moves, RunoutInv, RunoutTypeOK, RunoutPlaces

LEMMA NotedFits ==
  ASSUME RunoutInv, enabled' \in BOOLEAN, NEW p \in BOOLEAN, NEW how \in {"check", "direct"},
         Note(p, how)
  PROVE  /\ minEvent' \in {"never", "later", "past"} /\ callbacks' \in Seq(CallbackKinds)
         /\ \/ minEvent = "past" /\ minEvent' = "never" /\ callbacks' = Append(callbacks, how)
            \/ UNCHANGED <<minEvent, callbacks>>
<1>1. callbacks \in Seq(CallbackKinds) /\ how \in CallbackKinds
  BY DEF RunoutInv, RunoutTypeOK, CallbackKinds
<1>2. Append(callbacks, how) \in Seq(CallbackKinds)
  BY <1>1
<1> QED  BY <1>1, <1>2 DEF Note, Disarmed, RunoutInv, RunoutTypeOK

\* The reactor's steps.
LEMMA ReactorKeeps ==
  ASSUME RunoutInv, TimePasses \/ Button \/ PrintingChanges \/ Callback
                    \/ (\E i \in DOMAIN handlers : HandlerEnds(i))
                    \/ (\E on \in BOOLEAN : SetSensor(on))
  PROVE  RunoutInv'
<1>1. /\ {filament, enabled, printing, switched, collided} \subseteq BOOLEAN
      /\ minEvent \in {"never", "later", "past"} /\ callbacks \in Seq(CallbackKinds)
      /\ handlers \in Seq({"direct", "debounced"}) /\ thread \in [Debouncers -> RunoutPlaces]
      /\ looks \in 0..DebounceCount
  BY DEF RunoutInv, RunoutTypeOK, CallbackKinds, RunoutPlaces
<1>2. looks' = looks
  BY DEF TimePasses, Button, PrintingChanges, Callback, HandlerEnds, SetSensor, ThreadsSame
<1>3. CASE TimePasses
  <2>1. RunoutTypeOK' /\ CountsFromZero'
    BY <1>3 DEF TimePasses, ThreadsSame, RunoutInv, RunoutTypeOK, CountsFromZero, HasLock
  <2>2. ~switched => OneAtATime'
    BY <1>3 DEF TimePasses, ThreadsSame, RunoutInv, OneAtATime, Quiet, QuietBut
  <2> QED  BY <2>1, <2>2, <1>3 DEF RunoutInv, TimePasses
<1>4. CASE PrintingChanges
  <2>1. RunoutTypeOK' /\ CountsFromZero'
    BY <1>4 DEF PrintingChanges, ThreadsSame, RunoutInv, RunoutTypeOK, CountsFromZero, HasLock
  <2>2. ~switched => OneAtATime'
    BY <1>4 DEF PrintingChanges, ThreadsSame, RunoutInv, OneAtATime, Quiet, QuietBut
  <2> QED  BY <2>1, <2>2, <1>4 DEF RunoutInv, PrintingChanges
<1>5. CASE Button
  <2>0. enabled' \in BOOLEAN /\ filament' \in BOOLEAN /\ "check" \in {"check", "direct"}
    BY <1>1, <1>5 DEF Button
  <2>1. /\ minEvent' \in {"never", "later", "past"} /\ callbacks' \in Seq(CallbackKinds)
        /\ \/ minEvent = "past" /\ minEvent' = "never" /\ callbacks' = Append(callbacks, "check")
           \/ UNCHANGED <<minEvent, callbacks>>
    BY <1>5, <2>0, NotedFits DEF Button
  <2>2. RunoutTypeOK' /\ CountsFromZero'
    BY <1>1, <1>5, <2>0, <2>1
       DEF Button, ThreadsSame, RunoutInv, RunoutTypeOK, CountsFromZero, HasLock, CallbackKinds
  <2>3. ~switched => OneAtATime'
    <3>1. handlers' = handlers /\ thread' = thread
      BY <1>5 DEF Button, ThreadsSame
    <3>2. CASE UNCHANGED <<minEvent, callbacks>>
      BY <3>1, <3>2 DEF RunoutInv, OneAtATime, Quiet, QuietBut
    <3>3. CASE minEvent = "past" /\ minEvent' = "never" /\ callbacks' = Append(callbacks, "check")
      <4> SUFFICES ASSUME ~switched  PROVE OneAtATime'
        OBVIOUS
      <4>1. callbacks = << >> /\ handlers = << >> /\ Quiet(thread)
        BY <3>3 DEF RunoutInv, OneAtATime
      <4>2. callbacks' = <<"check">>
        BY <3>3, <4>1
      <4> QED  BY <3>1, <3>3, <4>1, <4>2 DEF OneAtATime, Quiet
    <3> QED  BY <2>1, <3>2, <3>3
  <2> QED  BY <2>2, <2>3, <1>5 DEF RunoutInv, Button
<1>6. ASSUME NEW on \in BOOLEAN, SetSensor(on)  PROVE RunoutInv'
  <2>0. enabled' \in BOOLEAN /\ filament \in BOOLEAN /\ "direct" \in {"check", "direct"}
    BY <1>1, <1>6 DEF SetSensor
  <2>1. /\ minEvent' \in {"never", "later", "past"} /\ callbacks' \in Seq(CallbackKinds)
    <3>1. CASE on
      BY <1>6, <3>1, <2>0, NotedFits DEF SetSensor
    <3>2. CASE ~on
      <4>1. "off" \in CallbackKinds
        BY DEF CallbackKinds
      <4> QED  BY <1>1, <1>6, <3>2, <4>1 DEF SetSensor
    <3> QED  BY <3>1, <3>2
  <2>2. RunoutTypeOK' /\ CountsFromZero'
    BY <1>1, <1>6, <2>0, <2>1
       DEF SetSensor, ThreadsSame, RunoutInv, RunoutTypeOK, CountsFromZero, HasLock, CallbackKinds
  <2> QED  BY <2>2, <1>6 DEF RunoutInv, SetSensor
<1>7. CASE Callback
  <2>1. /\ callbacks' \in Seq(CallbackKinds) /\ Head(callbacks) \in CallbackKinds
        /\ \A x \in CallbackKinds : callbacks = <<x>> => callbacks' = << >> /\ Head(callbacks) = x
    BY <1>1, <1>7, FewerKinds DEF Callback
  <2>2. CASE Head(callbacks) = "off"
    <3>1. RunoutTypeOK' /\ CountsFromZero'
      BY <1>1, <1>2, <1>7, <2>1, <2>2
         DEF Callback, RunoutInv, RunoutTypeOK, CountsFromZero, HasLock, CallbackKinds
    <3>2. ~switched => callbacks # << >> /\ OneAtATime
      BY <1>7 DEF Callback, RunoutInv
    <3>3. ~switched => FALSE
      <4> SUFFICES ASSUME ~switched  PROVE FALSE
        OBVIOUS
      <4>1. callbacks \in {<<"check">>, <<"debounced">>}
        BY <3>2 DEF OneAtATime
      <4>2. Head(callbacks) \in {"check", "debounced"}
        BY <2>1, <4>1
      <4> QED  BY <4>2, <2>2
    <3> QED  BY <3>1, <3>3, <1>7 DEF RunoutInv, Callback
  <2>3. CASE Head(callbacks) = "check"
    <3>1. PICK d \in Debouncers :
             thread[d] = "none" /\ thread' = [thread EXCEPT ![d] = "start"]
      BY <1>7, <2>3 DEF Callback
    <3>2. /\ UNCHANGED <<handlers, minEvent, filament, enabled, printing, looks, switched,
                         collided>>
          /\ callbacks # << >>
      BY <1>7, <2>3 DEF Callback
    <3>3. thread' \in [Debouncers -> RunoutPlaces] /\ thread'[d] = "start"
          /\ \A o \in Debouncers : o # d => thread'[o] = thread[o]
      BY <1>1, <3>1 DEF RunoutPlaces
    <3>4. RunoutTypeOK'
      BY <1>1, <2>1, <3>2, <3>3 DEF RunoutTypeOK, CallbackKinds, RunoutPlaces
    <3>5. CountsFromZero'
      <4>1. HasLock \subseteq HasLock'
        BY <3>1, <3>3 DEF HasLock
      <4> QED  BY <3>2, <4>1 DEF CountsFromZero, RunoutInv
    <3>6. ~switched => OneAtATime'
      <4> SUFFICES ASSUME ~switched  PROVE OneAtATime'
        OBVIOUS
      <4>1. /\ minEvent = "never" /\ handlers = << >> /\ Quiet(thread)
            /\ callbacks \in {<<"check">>, <<"debounced">>}
        BY <3>2 DEF RunoutInv, OneAtATime
      <4>2. callbacks' = << >>
        BY <2>1, <4>1
      <4>3. QuietBut(thread', d)
        BY <3>3, <4>1 DEF Quiet, QuietBut
      <4> QED  BY <3>2, <4>1, <4>2, <4>3 DEF OneAtATime
    <3> QED  BY <3>2, <3>4, <3>5, <3>6 DEF RunoutInv
  <2>4. CASE Head(callbacks) \in {"direct", "debounced"}
    <3>1. /\ handlers' = Append(handlers, Head(callbacks)) /\ callbacks # << >>
          /\ UNCHANGED <<minEvent, thread, filament, enabled, printing, looks, switched, collided>>
      BY <1>7, <2>4 DEF Callback
    <3>2. /\ handlers' \in Seq({"direct", "debounced"})
          /\ handlers = << >> => Len(handlers') = 1
      BY <1>1, <2>4, <3>1
    <3>3. RunoutTypeOK' /\ CountsFromZero'
      BY <1>1, <2>1, <3>1, <3>2
         DEF RunoutInv, RunoutTypeOK, CountsFromZero, HasLock, CallbackKinds, RunoutPlaces
    <3>4. ~switched => OneAtATime'
      <4> SUFFICES ASSUME ~switched  PROVE OneAtATime'
        OBVIOUS
      <4>1. /\ minEvent = "never" /\ handlers = << >> /\ Quiet(thread)
            /\ callbacks \in {<<"check">>, <<"debounced">>}
        BY <3>1 DEF RunoutInv, OneAtATime
      <4>2. callbacks' = << >>
        BY <2>1, <4>1
      <4> QED  BY <3>1, <3>2, <4>1, <4>2 DEF OneAtATime, Quiet
    <3> QED  BY <3>1, <3>3, <3>4 DEF RunoutInv
  <2> QED  BY <2>1, <2>2, <2>3, <2>4 DEF CallbackKinds
<1>8. ASSUME NEW i \in DOMAIN handlers, HandlerEnds(i)  PROVE RunoutInv'
  <2>1. /\ handlers' = SubSeq(handlers, 1, i - 1) \o SubSeq(handlers, i + 1, Len(handlers))
        /\ minEvent' = "later"
        /\ UNCHANGED <<filament, enabled, printing, callbacks, switched, thread, looks, collided>>
    BY <1>8 DEF HandlerEnds, EventOver, ThreadsSame
  <2>2. handlers \in Seq({"direct", "debounced"}) /\ i \in 1..Len(handlers)
    BY <1>1
  <2>4. handlers' \in Seq({"direct", "debounced"}) /\ Len(handlers') = Len(handlers) - 1
    BY <2>1, <2>2, OneFewer
  <2>5. RunoutTypeOK' /\ CountsFromZero'
    BY <1>1, <2>1, <2>4
       DEF RunoutInv, RunoutTypeOK, CountsFromZero, HasLock, CallbackKinds, RunoutPlaces
  <2>6. ~switched => OneAtATime'
    <3> SUFFICES ASSUME ~switched  PROVE OneAtATime'
      OBVIOUS
    <3>1. callbacks = << >> /\ Len(handlers) = 1 /\ Quiet(thread)
      <4>1. handlers # << >>
        BY <2>2, EmptyNone
      <4> QED  BY <4>1 DEF RunoutInv, OneAtATime
    <3>2. handlers' = << >>
      BY <2>4, <3>1, EmptyNone
    <3> QED  BY <2>1, <3>1, <3>2 DEF OneAtATime, Quiet
  <2> QED  BY <2>1, <2>5, <2>6 DEF RunoutInv
<1> QED  BY <1>3, <1>4, <1>5, <1>6, <1>7, <1>8

\* The steps of a debounce thread.
LEMMA ThreadKeeps ==
  ASSUME RunoutInv, NEW d \in Debouncers, Debounce(d)
  PROVE  RunoutInv'
<1>1. /\ {filament, enabled, printing, switched, collided} \subseteq BOOLEAN
      /\ minEvent \in {"never", "later", "past"} /\ callbacks \in Seq(CallbackKinds)
      /\ handlers \in Seq({"direct", "debounced"}) /\ thread \in [Debouncers -> RunoutPlaces]
      /\ looks \in 0..DebounceCount
  BY DEF RunoutInv, RunoutTypeOK, CallbackKinds, RunoutPlaces
<1>2. UNCHANGED <<filament, enabled, printing, handlers, switched>>
  BY DEF Debounce, Acquire, Look, Mistake, Wakes, Leave, ReactorSame
<1>3. PICK b \in RunoutPlaces : Moves(d, thread[d], b)
  BY DEF Debounce, Acquire, Look, Mistake, Wakes, Leave, Moves, RunoutPlaces
<1>4. /\ thread' \in [Debouncers -> RunoutPlaces] /\ thread'[d] = b
      /\ \A o \in Debouncers : o # d => thread'[o] = thread[o]
  BY <1>3, ThreadMoves
<1>5. \/ looks' = looks \/ looks' = 0
      \/ looks' = looks + 1 /\ looks < DebounceCount
  BY <1>1, RunoutAssumption DEF Debounce, Acquire, Look, Mistake, Wakes, Leave, Enough, Cleared
<1>6. looks' \in 0..DebounceCount /\ collided' \in BOOLEAN
  <2>1. collided' \in BOOLEAN
    BY <1>1 DEF Debounce, Acquire, Look, Mistake, Wakes, Leave
  <2> QED  BY <1>1, <1>5, <2>1, RunoutAssumption
<1>7. \/ callbacks' = callbacks
      \/ callbacks' = Append(callbacks, "debounced") /\ thread[d] = "look" /\ b = "leave"
  BY <1>1, <1>4 DEF Debounce, Acquire, Look, Mistake, Wakes, Leave, Moves, Reported
<1>8. \/ minEvent' = minEvent
      \/ minEvent' = "later" /\ thread[d] = "mistake" /\ b = "leave"
  BY <1>1, <1>4 DEF Debounce, Acquire, Look, Mistake, Wakes, Leave, Moves, EventOver
<1>9. RunoutTypeOK'
  <2>1. callbacks' \in Seq(CallbackKinds)
    <3>1. "debounced" \in CallbackKinds
      BY DEF CallbackKinds
    <3> QED  BY <1>1, <1>7, <3>1
  <2>2. minEvent' \in {"never", "later", "past"}
    BY <1>1, <1>8
  <2> QED  BY <1>1, <1>2, <1>4, <1>6, <2>1, <2>2 DEF RunoutTypeOK, CallbackKinds, RunoutPlaces
<1>10. CountsFromZero'
  <2>1. CASE Leave(d)
    BY <2>1 DEF Leave, Cleared, CountsFromZero
  <2>2. CASE Acquire(d)
    <3>1. HasLock \subseteq HasLock'
      BY <1>3, <1>4, <2>2 DEF Acquire, Moves, HasLock
    <3> QED  BY <2>2, <3>1 DEF Acquire, CountsFromZero, RunoutInv
  <2>3. CASE Look(d) \/ Mistake(d) \/ Wakes(d)
    <3>1. b \notin {"none", "start"}
      BY <1>1, <1>4, <2>3 DEF Look, Mistake, Wakes, Moves
    <3> QED  BY <1>4, <3>1 DEF CountsFromZero, HasLock
  <2> QED  BY <2>1, <2>2, <2>3 DEF Debounce
<1>11. ~switched => OneAtATime'
  <2> SUFFICES ASSUME ~switched  PROVE OneAtATime'
    OBVIOUS
  <2>1. OneAtATime
    BY DEF RunoutInv
  <2>2. CASE thread[d] = "leave"
    <3>1. b = "none" /\ callbacks' = callbacks /\ minEvent' = minEvent
      BY <1>1, <1>4, <1>7, <1>8, <2>2 DEF Debounce, Acquire, Look, Mistake, Wakes, Leave, Moves
    <3>2. /\ Quiet(thread) => Quiet(thread')
          /\ \A e \in Debouncers : QuietBut(thread, e) => QuietBut(thread', e)
      BY <1>4, <3>1 DEF Quiet, QuietBut
    <3> QED  BY <1>2, <2>1, <3>1, <3>2 DEF OneAtATime
  <2>3. CASE thread[d] # "leave"
    <3>1. thread[d] \in {"start", "look", "mistake", "sleep"}
      BY <2>3 DEF Debounce, Acquire, Look, Mistake, Wakes, Leave, Moves
    <3>3. ~Quiet(thread)
      BY <3>1 DEF Quiet
    <3>2. minEvent = "never" /\ callbacks = << >> /\ handlers = << >>
      BY <2>1, <3>3 DEF OneAtATime
    <3>4. QuietBut(thread, d)
      BY <2>1, <3>1, <3>3 DEF OneAtATime, QuietBut
    <3>5. QuietBut(thread', d) /\ (b = "leave" => Quiet(thread'))
      BY <1>4, <3>4 DEF QuietBut, Quiet
    <3>6. CASE callbacks' = callbacks
      <4>1. CASE minEvent' = minEvent
        BY <1>2, <3>2, <3>3, <3>5, <3>6, <4>1 DEF OneAtATime
      <4>2. CASE b = "leave"
        BY <1>2, <3>2, <3>3, <3>5, <3>6, <4>2 DEF OneAtATime
      <4> QED  BY <1>8, <4>1, <4>2
    <3>7. CASE callbacks' = Append(callbacks, "debounced") /\ thread[d] = "look" /\ b = "leave"
      <4>1. callbacks' = <<"debounced">>
        BY <3>2, <3>3, <3>7
      <4>2. minEvent' = minEvent
        BY <1>8, <3>7
      <4> QED  BY <1>2, <3>2, <3>3, <3>5, <3>7, <4>1, <4>2 DEF OneAtATime
    <3> QED  BY <1>7, <3>6, <3>7
  <2> QED  BY <2>2, <2>3
<1> QED  BY <1>2, <1>9, <1>10, <1>11 DEF RunoutInv

LEMMA RunoutCounted == RunoutInv => OneRunout
<1> SUFFICES ASSUME RunoutInv, ~switched
             PROVE  Events <= 1 /\ (Events = 1 => minEvent = "never")
  BY DEF OneRunout
<1> DEFINE C == {i \in DOMAIN callbacks : callbacks[i] # "off"}
           H == Len(handlers)
           T == {d \in Debouncers : thread[d] \in {"start", "look", "mistake", "sleep"}}
<1>0. /\ callbacks \in Seq(CallbackKinds) /\ handlers \in Seq({"direct", "debounced"})
      /\ OneAtATime
  BY DEF RunoutInv, RunoutTypeOK, CallbackKinds
<1>1. /\ Events = Cardinality(C) + H + Cardinality(T)
      /\ H \in Nat /\ (handlers = << >> => H = 0)
      /\ callbacks = << >> => C = {}
  BY <1>0, EmptyNone DEF Events
<1>2. Quiet(thread) => T = {}
  BY DEF Quiet
<1>3. Cardinality({}) = 0
  BY FS_EmptySet
<1>4. callbacks = << >> => Cardinality(C) = 0
  BY <1>1, <1>3
<1>5. CASE callbacks = << >> /\ handlers = << >> /\ Quiet(thread)
  <2>1. Cardinality(C) = 0 /\ H = 0 /\ Cardinality(T) = 0
    BY <1>1, <1>2, <1>3, <1>4, <1>5
  <2>2. Events = 0
    BY <1>1, <2>1
  <2> QED  BY <2>2
<1>6. CASE /\ minEvent = "never" /\ handlers = << >> /\ Quiet(thread)
           /\ callbacks \in {<<"check">>, <<"debounced">>}
  <2>0. PICK x \in {"check", "debounced"} : callbacks = <<x>>
    BY <1>6
  <2>1. C = {1}
    <3>1. DOMAIN <<x>> = {1} /\ <<x>>[1] = x
      OBVIOUS
    <3> QED  BY <2>0, <3>1
  <2>2. Cardinality(C) = 1
    BY <2>1, FS_Singleton
  <2>3. H = 0 /\ Cardinality(T) = 0
    BY <1>1, <1>2, <1>3, <1>6
  <2>4. Events = 1
    BY <1>1, <2>2, <2>3
  <2> QED  BY <1>6, <2>4
<1>7. CASE minEvent = "never" /\ callbacks = << >> /\ Len(handlers) = 1 /\ Quiet(thread)
  <2>1. Cardinality(C) = 0 /\ H = 1 /\ Cardinality(T) = 0
    BY <1>1, <1>2, <1>3, <1>4, <1>7
  <2>2. Events = 1
    BY <1>1, <2>1
  <2> QED  BY <1>7, <2>2
<1>8. CASE /\ minEvent = "never" /\ callbacks = << >> /\ handlers = << >>
           /\ \E d \in Debouncers : QuietBut(thread, d)
  <2>1. PICK d \in Debouncers : QuietBut(thread, d)
    BY <1>8
  <2>2. T \subseteq {d}
    BY <2>1 DEF QuietBut
  <2>3. IsFiniteSet({d}) /\ Cardinality({d}) = 1
    BY FS_Singleton
  <2>4. Cardinality(T) <= 1 /\ Cardinality(T) \in Nat
    BY <2>2, <2>3, FS_Subset, FS_CardinalityType
  <2>5. Cardinality(C) = 0 /\ H = 0
    BY <1>1, <1>4, <1>8
  <2>6. Events <= 1
    BY <1>1, <2>4, <2>5
  <2> QED  BY <1>8, <2>6
<1> QED  BY <1>0, <1>5, <1>6, <1>7, <1>8 DEF OneAtATime

\* However many debounce threads there are and in whatever order they go between
\* the reactor's steps, a thread counts from 0, and unless SET_FILAMENT_SENSOR is
\* used one runout is taken up at a time, with the sensor disarmed until its
\* gcode is over (the events of RunoutDebounceHelper and thread_debounce).
THEOREM OneRunoutAtATime == RunoutSpec => [](RunoutTypeOK /\ CountsFromZero /\ OneRunout)
<1>1. RunoutInit => RunoutInv
  BY RunoutStart
<1>2. RunoutInv /\ [RunoutNext]_runoutVars => RunoutInv'
  <2> SUFFICES ASSUME RunoutInv, [RunoutNext]_runoutVars  PROVE RunoutInv'
    OBVIOUS
  <2>1. CASE \E d \in Debouncers : Debounce(d)
    BY <2>1, ThreadKeeps
  <2>2. CASE TimePasses \/ Button \/ PrintingChanges \/ Callback
             \/ (\E i \in DOMAIN handlers : HandlerEnds(i))
             \/ (\E on \in BOOLEAN : SetSensor(on))
    BY <2>2, ReactorKeeps
  <2>3. CASE UNCHANGED runoutVars
    BY <2>3 DEF runoutVars, RunoutInv, RunoutTypeOK, CountsFromZero, OneAtATime, HasLock, Quiet,
                QuietBut
  <2> QED  BY <2>1, <2>2, <2>3 DEF RunoutNext
<1>3. RunoutInv => RunoutTypeOK /\ CountsFromZero /\ OneRunout
  BY RunoutCounted DEF RunoutInv
<1> QED  BY <1>1, <1>2, <1>3, PTL DEF RunoutSpec

-----------------------------------------------------------------------------
(* Where a print resumes after a runout (Rollback).  The record is the     *)
(* newest lines without a gap, and each begins where the one before it     *)
(* ends: so what the search knows of the lines that it has passed tells    *)
(* what the older ones cannot be.                                          *)

Positions == [e : Int, z : Int]
RecordedLines == [line : Nat, from : Positions, to : Positions]

\* The newest of l lines, when the last one ended at p.
Recorded(s, l, p) ==
    /\ s \in Seq(RecordedLines) /\ l \in Nat /\ p \in Positions
    /\ Len(s) <= l
    /\ \A i \in 1..Len(s) : s[i].line = l - Len(s) + i
    /\ \A i \in 1..Len(s) - 1 : s[i].to = s[i + 1].from
    /\ Len(s) > 0 => s[Len(s)].to = p

RollbackInv ==
    /\ Recorded(recorded, line, pos)
    /\ maxSize \in Nat /\ Len(recorded) <= maxSize
    /\ lackE \in Nat \cup {NoRunout}
    /\ gravity \in Nat \X Nat

\* t is the last m elements of s.
IsEnd(t, s, m) ==
    /\ m \in Nat /\ m <= Len(s) /\ Len(t) = m
    /\ \A k \in 1..m : t[k] = s[Len(s) - m + k]

LEMMA NewestFacts ==
  ASSUME NEW T, NEW s \in Seq(T), NEW n \in Nat
  PROVE  Newest(s, n) \in Seq(T) /\ \E m \in 0..n : IsEnd(Newest(s, n), s, m)
<1>1. PICK N \in Nat : N = Len(s)
  OBVIOUS
<1>2. PICK m \in Nat : m = (IF n < N THEN n ELSE N) /\ m <= n /\ m <= N
  OBVIOUS
<1>3. Newest(s, n) = SubSeq(s, N - m + 1, N)
  BY <1>1, <1>2 DEF Newest
<1>4. N - m + 1 \in 1..N + 1 /\ N \in 0..N /\ N - (N - m + 1) + 1 = m
  <2>1. m <= N
    BY <1>2
  <2> QED  BY <2>1
<1>5. \A i \in N - m + 1..N : s[i] \in T
  <2>1. \A i \in N - m + 1..N : i \in 1..N
    BY <1>1, <1>2
  <2> QED  BY <1>1, <2>1
<1>6. /\ SubSeq(s, N - m + 1, N) \in Seq(T)
      /\ Len(SubSeq(s, N - m + 1, N)) = m
      /\ \A k \in 1..m : SubSeq(s, N - m + 1, N)[k] = s[N - m + k]
  <2>1. PICK a \in 1..N + 1 : a = N - m + 1
    BY <1>4
  <2>2. SubSeq(s, a, N) \in Seq(T)
    BY <1>1, <1>5, <2>1
  <2>3. Len(SubSeq(s, a, N)) = m
    BY <1>1, <1>2, <1>4, <2>1
  <2>4. ASSUME NEW k \in 1..m  PROVE SubSeq(s, a, N)[k] = s[N - m + k]
    <3>1. k \in 1..N - a + 1 /\ a + k - 1 = N - m + k
      BY <1>1, <1>2, <2>1
    <3> QED  BY <1>1, <3>1
  <2> QED  BY <2>1, <2>2, <2>3, <2>4
<1>7. PICK t : t = SubSeq(s, N - m + 1, N)
  OBVIOUS
<1>8. t \in Seq(T) /\ Len(t) = m /\ \A k \in 1..m : t[k] = s[N - m + k]
  BY <1>6, <1>7
<1>9. Newest(s, n) = t /\ m <= n /\ m <= N
  BY <1>2, <1>3, <1>7
<1>10. m \in 0..n /\ IsEnd(t, s, m)
  BY <1>1, <1>8, <1>9 DEF IsEnd
<1> QED  BY <1>8, <1>9, <1>10

\* The record is still one when it loses its oldest lines.
LEMMA NewestRecorded ==
  ASSUME NEW s, NEW l, NEW p, Recorded(s, l, p), NEW n \in Nat
  PROVE  Recorded(Newest(s, n), l, p) /\ Len(Newest(s, n)) <= n
<1>1. s \in Seq(RecordedLines) /\ l \in Nat /\ p \in Positions
  BY DEF Recorded
<1>2. PICK m \in Nat :
         /\ m <= n /\ m <= Len(s) /\ Newest(s, n) \in Seq(RecordedLines)
         /\ Len(Newest(s, n)) = m
         /\ \A k \in 1..m : Newest(s, n)[k] = s[Len(s) - m + k]
  <2>1. PICK u \in Seq(RecordedLines) : u = s
    BY <1>1
  <2>2. Newest(u, n) \in Seq(RecordedLines) /\ \E m \in 0..n : IsEnd(Newest(u, n), u, m)
    BY NewestFacts
  <2>3. PICK m \in 0..n : IsEnd(Newest(u, n), u, m)
    BY <2>2
  <2> QED  BY <2>1, <2>2, <2>3 DEF IsEnd
<1>3. PICK N \in Nat : N = Len(s)
  BY <1>1
<1>4. PICK t \in Seq(RecordedLines) : t = Newest(s, n)
  BY <1>2
<1>5. m <= N /\ N <= l /\ Len(t) = m /\ \A k \in 1..m : t[k] = s[N - m + k]
  BY <1>2, <1>3, <1>4 DEF Recorded
<1>6. /\ \A i \in 1..N : s[i].line = l - N + i
      /\ \A i \in 1..N - 1 : s[i].to = s[i + 1].from
      /\ N > 0 => s[N].to = p
  BY <1>3 DEF Recorded
<1>7. ASSUME NEW i \in 1..m  PROVE t[i].line = l - m + i
  <2>1. N - m + i \in 1..N /\ l - N + (N - m + i) = l - m + i
    BY <1>1, <1>5
  <2> QED  BY <1>5, <1>6, <2>1
<1>8. ASSUME NEW i \in 1..m - 1  PROVE t[i].to = t[i + 1].from
  <2>1. N - m + i \in 1..N - 1 /\ N - m + i + 1 = N - m + (i + 1) /\ i \in 1..m /\ i + 1 \in 1..m
    BY <1>5
  <2> QED  BY <1>5, <1>6, <2>1
<1>9. m > 0 => t[m].to = p
  <2>1. m > 0 => m \in 1..m /\ N - m + m = N /\ N > 0
    BY <1>5
  <2> QED  BY <1>5, <1>6, <2>1
<1>10. m <= l
  BY <1>1, <1>5
<1> QED  BY <1>1, <1>2, <1>4, <1>5, <1>7, <1>8, <1>9, <1>10 DEF Recorded

\* A line is recorded.
LEMMA LineRecorded ==
  ASSUME NEW s, NEW l, NEW p, Recorded(s, l, p), NEW q \in Positions
  PROVE  Recorded(Append(s, [line |-> l + 1, from |-> p, to |-> q]), l + 1, q)
<1>1. s \in Seq(RecordedLines) /\ l \in Nat /\ p \in Positions
  BY DEF Recorded
<1>2. PICK x \in RecordedLines : x = [line |-> l + 1, from |-> p, to |-> q]
  <2>1. l + 1 \in Nat
    BY <1>1
  <2> QED  BY <1>1, <2>1 DEF RecordedLines
<1>3. PICK N \in Nat : N = Len(s)
  BY <1>1
<1>4. /\ N <= l
      /\ \A i \in 1..N : s[i].line = l - N + i
      /\ \A i \in 1..N - 1 : s[i].to = s[i + 1].from
      /\ N > 0 => s[N].to = p
  BY <1>3 DEF Recorded
<1>5. PICK t \in Seq(RecordedLines) :
         /\ t = Append(s, x) /\ Len(t) = N + 1
         /\ \A k \in 1..N : t[k] = s[k]
         /\ t[N + 1] = x
  BY <1>1, <1>3, AppendFacts
<1>6. ASSUME NEW i \in 1..N + 1  PROVE t[i].line = l + 1 - (N + 1) + i
  <2>1. CASE i \in 1..N
    <3>1. l - N + i = l + 1 - (N + 1) + i
      BY <1>1, <2>1
    <3> QED  BY <1>4, <1>5, <2>1, <3>1
  <2>2. CASE i = N + 1
    <3>1. l + 1 - (N + 1) + i = l + 1
      BY <1>1, <2>2
    <3> QED  BY <1>2, <1>5, <2>2, <3>1
  <2> QED  BY <2>1, <2>2
<1>7. ASSUME NEW i \in 1..N + 1 - 1  PROVE t[i].to = t[i + 1].from
  <2>1. CASE i \in 1..N - 1
    <3>1. i \in 1..N /\ i + 1 \in 1..N
      BY <2>1
    <3> QED  BY <1>4, <1>5, <2>1, <3>1
  <2>2. CASE i = N
    <3>1. N \in 1..N /\ N > 0
      BY <2>2
    <3> QED  BY <1>2, <1>4, <1>5, <2>2, <3>1
  <2>3. i \in 1..N - 1 \/ i = N
    OBVIOUS
  <2> QED  BY <2>1, <2>2, <2>3
<1>8. t[N + 1].to = q /\ N + 1 > 0 /\ N + 1 <= l + 1 /\ l + 1 \in Nat
  BY <1>1, <1>2, <1>4, <1>5
<1>9. Recorded(t, l + 1, q)
  <2>1. PICK M \in Nat : M = N + 1
    OBVIOUS
  <2>2. PICK k \in Nat : k = l + 1
    BY <1>8
  <2>3. /\ Len(t) = M /\ M <= k
        /\ \A i \in 1..M : t[i].line = k - M + i
        /\ \A i \in 1..M - 1 : t[i].to = t[i + 1].from
        /\ t[M].to = q
    <3>1. Len(t) = M /\ M <= k
      BY <1>5, <1>8, <2>1, <2>2
    <3>2. ASSUME NEW i \in 1..M  PROVE t[i].line = k - M + i
      <4>1. i \in 1..N + 1 /\ k - M + i = l + 1 - (N + 1) + i
        BY <1>1, <2>1, <2>2
      <4> QED  BY <1>6, <4>1
    <3>3. \A i \in 1..M - 1 : t[i].to = t[i + 1].from
      BY <1>7, <2>1
    <3>4. t[M].to = q
      BY <1>8, <2>1
    <3> QED  BY <3>1, <3>2, <3>3, <3>4
  <2> QED  BY <2>2, <2>3 DEF Recorded
<1> QED  BY <1>2, <1>5, <1>9

-----------------------------------------------------------------------------
(* A step of the search (Searched).                                        *)

SearchStates == [found : Nat, stop : BOOLEAN, rolled : BOOLEAN, extra : Int,
                 goOn : BOOLEAN, locked : BOOLEAN, height : Int]

LEMMA LineFacts ==
  ASSUME NEW l \in RecordedLines
  PROVE  /\ l.line \in Nat /\ l.from.e \in Int /\ l.to.e \in Int
         /\ l.from.z \in Int /\ l.to.z \in Int
BY DEF RecordedLines, Positions

LEMMA StateFacts ==
  ASSUME NEW s \in SearchStates
  PROVE  /\ s.found \in Nat /\ s.stop \in BOOLEAN /\ s.rolled \in BOOLEAN /\ s.extra \in Int
         /\ s.goOn \in BOOLEAN /\ s.locked \in BOOLEAN /\ s.height \in Int
BY DEF SearchStates

\* What a state of the search keeps of the one before it.
SameSearch(u, s) ==
    u.found = s.found /\ u.stop = s.stop /\ u.rolled = s.rolled /\ u.extra = s.extra

LEMMA ZCheckedFacts ==
  ASSUME NEW s \in SearchStates, NEW l \in RecordedLines
  PROVE  LET u == ZChecked(s, l)
         IN  /\ u \in SearchStates /\ SameSearch(u, s)
             /\ l.to.z = l.from.z => u.goOn = s.goOn
<1>1. PICK g \in BOOLEAN : g = (s.goOn /\ ~Collides(s, l))
  OBVIOUS
<1>2. PICK k \in BOOLEAN :
         k = (s.locked \/ (l.to.z = l.from.z /\ l.to.e > l.from.e /\ ~s.locked))
  OBVIOUS
<1>3. PICK h \in Int :
         h = IF l.to.z = l.from.z /\ l.to.e > l.from.e /\ ~s.locked THEN l.to.z ELSE s.height
  BY LineFacts, StateFacts
<1>4. ZChecked(s, l) = [s EXCEPT !.goOn = g, !.locked = k, !.height = h]
  BY <1>1, <1>2, <1>3 DEF ZChecked
<1>5. [s EXCEPT !.goOn = g, !.locked = k, !.height = h] \in SearchStates
  BY DEF SearchStates
<1>6. SameSearch([s EXCEPT !.goOn = g, !.locked = k, !.height = h], s)
  BY DEF SearchStates, SameSearch
<1>7. [s EXCEPT !.goOn = g, !.locked = k, !.height = h].goOn = g
  BY DEF SearchStates
<1>8. l.to.z = l.from.z => g = s.goOn
  <2>2. l.to.z = l.from.z => l.to.z - l.from.z = 0
    BY LineFacts
  <2>3. l.to.z = l.from.z => ~Collides(s, l)
    BY <2>2 DEF Collides
  <2> QED  BY <1>1, <2>3, StateFacts
<1> QED  BY <1>4, <1>5, <1>6, <1>7, <1>8

\* A state after a line was kept, found, or the search has stopped.
LEMMA KeptFacts ==
  ASSUME NEW s \in SearchStates, NEW l \in RecordedLines
  PROVE  /\ Found(s, l) \in SearchStates /\ Stopped(s) \in SearchStates
         /\ Kept(s, l) \in SearchStates
         /\ Found(s, l).found = l.line /\ Found(s, l).stop = s.stop
         /\ Found(s, l).extra = s.extra /\ Found(s, l).goOn = s.goOn
         /\ Stopped(s).stop /\ Stopped(s).found = s.found
         /\ Stopped(s).extra = s.extra /\ Stopped(s).goOn = s.goOn
         /\ Kept(s, l).stop = s.stop /\ Kept(s, l).extra = s.extra /\ Kept(s, l).goOn = s.goOn
         /\ Kept(s, l).found = IF l.to.e > l.from.e THEN l.line ELSE s.found
<1>1. l.line \in Nat
  BY LineFacts
<1>2. /\ Stopped(s) \in SearchStates
      /\ Stopped(s).stop /\ Stopped(s).found = s.found
      /\ Stopped(s).extra = s.extra /\ Stopped(s).goOn = s.goOn
  BY DEF SearchStates, Stopped
<1>3. /\ Found(s, l) \in SearchStates
      /\ Found(s, l).found = l.line /\ Found(s, l).stop = s.stop
      /\ Found(s, l).extra = s.extra /\ Found(s, l).goOn = s.goOn
  BY <1>1 DEF SearchStates, Found
<1>4. PICK v \in SearchStates : v = Found(s, l)
  BY <1>3
<1>5. /\ [v EXCEPT !.rolled = TRUE] \in SearchStates
      /\ [v EXCEPT !.rolled = TRUE].found = v.found
      /\ [v EXCEPT !.rolled = TRUE].stop = v.stop
      /\ [v EXCEPT !.rolled = TRUE].extra = v.extra
      /\ [v EXCEPT !.rolled = TRUE].goOn = v.goOn
  BY DEF SearchStates
<1>6. CASE l.to.e > l.from.e
  <2>1. Kept(s, l) = [v EXCEPT !.rolled = TRUE]
    BY <1>4, <1>6 DEF Kept
  <2> QED  BY <1>2, <1>3, <1>4, <1>5, <1>6, <2>1
<1>7. CASE ~(l.to.e > l.from.e)
  <2>1. Kept(s, l) = s
    BY <1>7 DEF Kept
  <2> QED  BY <1>2, <1>3, <1>7, <2>1
<1> QED  BY <1>6, <1>7

\* With gravity_min at most gravity_target the search adds up what the lines
\* extrude, and stops when that is enough.
AddsUp(u, s, l, g) ==
    /\ u.goOn /\ u.extra = s.extra + l.to.e - l.from.e
    /\ u.stop => u.found = l.line /\ u.extra >= g[2]
    /\ ~u.stop /\ l.to.e > l.from.e => u.found = l.line

LEMMA SuppliedFacts ==
  ASSUME NEW s \in SearchStates, ~s.stop, NEW l \in RecordedLines, NEW g \in Nat \X Nat
  PROVE  LET u == Supplied(s, l, g)
         IN  /\ u \in SearchStates
             /\ u.found = s.found \/ u.found = l.line
             /\ g[1] = 0 => u.found = s.found
             /\ 0 < g[1] /\ g[1] <= g[2] /\ s.goOn => AddsUp(u, s, l, g)
<1>1. g[1] \in Nat /\ g[2] \in Nat
  OBVIOUS
<1>2. PICK t \in SearchStates :
         /\ t = [s EXCEPT !.extra = @ + l.to.e - l.from.e]
         /\ t.extra = s.extra + l.to.e - l.from.e
         /\ t.found = s.found /\ t.stop = s.stop /\ t.goOn = s.goOn /\ t.rolled = s.rolled
  <2>1. PICK x \in Int : x = s.extra + l.to.e - l.from.e
    BY LineFacts, StateFacts
  <2>2. /\ [s EXCEPT !.extra = x] \in SearchStates
        /\ [s EXCEPT !.extra = x].extra = x
        /\ [s EXCEPT !.extra = x].found = s.found /\ [s EXCEPT !.extra = x].stop = s.stop
        /\ [s EXCEPT !.extra = x].goOn = s.goOn /\ [s EXCEPT !.extra = x].rolled = s.rolled
    BY DEF SearchStates
  <2>3. [s EXCEPT !.extra = x] = [s EXCEPT !.extra = @ + l.to.e - l.from.e]
    BY <2>1
  <2> QED  BY <2>1, <2>2, <2>3
<1>3. PICK u : u = Supplied(s, l, g)
  OBVIOUS
<1>4. t.extra \in Int
  BY StateFacts
<1>5. CASE ~s.goOn \/ g[1] = 0
  <2>1. u = Stopped(s)
    BY <1>3, <1>5 DEF Supplied
  <2>2. u \in SearchStates /\ u.found = s.found
    BY <2>1, KeptFacts
  <2>3. ~(0 < g[1] /\ g[1] <= g[2] /\ s.goOn)
    BY <1>1, <1>5
  <2> QED  BY <1>3, <2>2, <2>3
<1>6. CASE ~(~s.goOn \/ g[1] = 0) /\ TooMuch(t.extra, g)
  <2>1. u = Stopped(t)
    BY <1>2, <1>3, <1>6 DEF Supplied
  <2>2. u \in SearchStates /\ u.found = s.found
    BY <1>2, <2>1, KeptFacts
  <2>3. ~(g[1] <= g[2])
    BY <1>1, <1>4, <1>6 DEF TooMuch
  <2> QED  BY <1>3, <2>2, <2>3
<1>7. ASSUME ~(~s.goOn \/ g[1] = 0), u = Kept(t, l)
      PROVE  /\ u \in SearchStates
             /\ u.found = s.found \/ u.found = l.line
             /\ 0 < g[1] /\ g[1] <= g[2] /\ s.goOn => AddsUp(u, s, l, g)
  <2>1. /\ u \in SearchStates
        /\ u.stop = t.stop /\ u.extra = t.extra /\ u.goOn = t.goOn
        /\ u.found = IF l.to.e > l.from.e THEN l.line ELSE t.found
    BY <1>7, KeptFacts
  <2>2. u.found = s.found \/ u.found = l.line
    BY <1>2, <2>1
  <2>3. ~u.stop /\ u.goOn /\ u.extra = s.extra + l.to.e - l.from.e
    BY <1>2, <1>7, <2>1
  <2>4. l.to.e > l.from.e => u.found = l.line
    BY <2>1
  <2> QED  BY <2>1, <2>2, <2>3, <2>4 DEF AddsUp
<1>8. CASE /\ ~(~s.goOn \/ g[1] = 0) /\ ~TooMuch(t.extra, g)
           /\ MoreWanted(t.extra, g) \/ t.rolled
  <2>1. u = Kept(t, l)
    BY <1>2, <1>3, <1>8 DEF Supplied
  <2> QED  BY <1>3, <1>7, <1>8, <2>1
<1>9. CASE /\ ~(~s.goOn \/ g[1] = 0) /\ ~TooMuch(t.extra, g) /\ ~MoreWanted(t.extra, g)
           /\ ~t.rolled
  <2>1. u = Stopped([Found(t, l) EXCEPT !.rolled = TRUE])
    BY <1>2, <1>3, <1>9 DEF Supplied
  <2>2. PICK v \in SearchStates :
           v = Found(t, l) /\ v.found = l.line /\ v.extra = t.extra /\ v.goOn = t.goOn
    <3>1. /\ Found(t, l) \in SearchStates /\ Found(t, l).found = l.line
          /\ Found(t, l).extra = t.extra /\ Found(t, l).goOn = t.goOn
      BY KeptFacts
    <3> QED  BY <3>1
  <2>3. PICK w \in SearchStates :
           /\ w = [v EXCEPT !.rolled = TRUE]
           /\ w.found = v.found /\ w.extra = v.extra /\ w.goOn = v.goOn
    <3>1. /\ [v EXCEPT !.rolled = TRUE] \in SearchStates
          /\ [v EXCEPT !.rolled = TRUE].found = v.found
          /\ [v EXCEPT !.rolled = TRUE].extra = v.extra
          /\ [v EXCEPT !.rolled = TRUE].goOn = v.goOn
      BY DEF SearchStates
    <3> QED  BY <3>1
  <2>4. u = Stopped(w)
    BY <2>1, <2>2, <2>3
  <2>5. u \in SearchStates /\ u.stop /\ u.found = l.line /\ u.extra = t.extra
        /\ u.goOn = s.goOn
    <3>1. /\ u \in SearchStates /\ u.stop /\ u.found = w.found
          /\ u.extra = w.extra /\ u.goOn = w.goOn
      BY <2>4, KeptFacts
    <3> QED  BY <1>2, <2>2, <2>3, <3>1
  <2>6. u.extra >= g[2]
    BY <1>1, <1>4, <1>9, <2>5 DEF MoreWanted
  <2>7. u.goOn /\ u.extra = s.extra + l.to.e - l.from.e
    BY <1>2, <1>9, <2>5
  <2> QED  BY <1>3, <1>9, <2>5, <2>6, <2>7 DEF AddsUp
<1> QED  BY <1>5, <1>6, <1>8, <1>9

LEMMA LackingFacts ==
  ASSUME NEW s \in SearchStates, ~s.stop, NEW l \in RecordedLines, NEW lack \in Nat,
         l.from.e <= l.to.e, lack <= l.to.e
  PROVE  LET u == Lacking(s, l, lack)
         IN  /\ u \in SearchStates
             /\ u.found = s.found \/ u.found = l.line
             /\ u.stop => l.from.e <= lack
             /\ l.from.e < l.to.e /\ lack < l.to.e => u.found = l.line
<1>1. l.from.e \in Int /\ l.to.e \in Int /\ EOffset \in Nat
  BY LineFacts, RollbackAssumption
<1>2. PICK u : u = Lacking(s, l, lack)
  OBVIOUS
<1>3. ~(l.to.e < lack - EOffset)
  BY <1>1
<1>4. CASE EmptyWithin(l, lack)
  <2>1. u = Stopped(Found(s, l))
    BY <1>2, <1>4 DEF Lacking
  <2>2. PICK v \in SearchStates : v = Found(s, l) /\ v.found = l.line
    <3>1. Found(s, l) \in SearchStates /\ Found(s, l).found = l.line
      BY KeptFacts
    <3> QED  BY <3>1
  <2>3. u \in SearchStates /\ u.found = l.line
    BY <2>1, <2>2, KeptFacts
  <2>4. l.from.e <= lack
    BY <1>1, <1>4 DEF EmptyWithin
  <2> QED  BY <1>2, <2>3, <2>4
<1>5. CASE ~EmptyWithin(l, lack)
  <2>1. u = Kept(s, l)
    BY <1>2, <1>3, <1>5 DEF Lacking
  <2>2. u \in SearchStates /\ ~u.stop
        /\ u.found = IF l.to.e > l.from.e THEN l.line ELSE s.found
    BY <2>1, KeptFacts
  <2>3. l.from.e < l.to.e => l.to.e > l.from.e
    BY <1>1
  <2>4. u.found = s.found \/ u.found = l.line
    BY <2>2
  <2>5. l.from.e < l.to.e => u.found = l.line
    BY <2>2, <2>3
  <2> QED  BY <1>2, <2>2, <2>4, <2>5
<1> QED  BY <1>4, <1>5

\* What a step of the search does with a line on which nothing is retracted.
SearchedRight(u, s, l, lack, g) ==
    /\ u \in SearchStates
    /\ u.found = s.found \/ u.found = l.line
    /\ s.stop => u = s
    /\ ~s.stop /\ u.stop => l.from.e <= lack
    /\ ~s.stop /\ l.from.e < l.to.e /\ lack < l.to.e => u.found = l.line
    /\ g[1] = 0 /\ u.found # s.found => u.found = l.line /\ lack <= l.to.e
    /\ /\ ~s.stop /\ s.goOn /\ l.to.e < lack /\ l.to.z = l.from.z
       /\ 0 < g[1] /\ g[1] <= g[2]
       => AddsUp(u, s, l, g)

LEMMA SearchedFacts ==
  ASSUME NEW s \in SearchStates, NEW l \in RecordedLines, NEW lack \in Nat,
         NEW g \in Nat \X Nat, l.from.e <= l.to.e
  PROVE  SearchedRight(Searched(s, l, lack, g), s, l, lack, g)
<1>1. l.from.e \in Int /\ l.to.e \in Int
  BY LineFacts
<1>2. PICK u : u = Searched(s, l, lack, g)
  OBVIOUS
<1>3. PICK z \in SearchStates :
         z = ZChecked(s, l) /\ SameSearch(z, s) /\ (l.to.z = l.from.z => z.goOn = s.goOn)
  BY ZCheckedFacts
<1>4. z.found = s.found /\ z.stop = s.stop /\ z.extra = s.extra
  BY <1>3 DEF SameSearch
<1>5. CASE s.stop
  <2>1. u = s
    BY <1>2, <1>5 DEF Searched
  <2> QED  BY <1>2, <1>5, <2>1 DEF SearchedRight
<1>6. CASE ~s.stop /\ FilamentAt(l, lack)
  <2>1. u = Supplied(z, l, g) /\ ~z.stop
    BY <1>2, <1>3, <1>4, <1>6 DEF Searched
  <2>2. /\ u \in SearchStates
        /\ u.found = z.found \/ u.found = l.line
        /\ g[1] = 0 => u.found = z.found
        /\ 0 < g[1] /\ g[1] <= g[2] /\ z.goOn => AddsUp(u, z, l, g)
    BY <2>1, SuppliedFacts
  <2>3. lack > l.to.e /\ l.from.e <= lack /\ ~(lack < l.to.e)
    BY <1>1, <1>6 DEF FilamentAt
  <2>4. AddsUp(u, z, l, g) => AddsUp(u, s, l, g)
    BY <1>4 DEF AddsUp
  <2>5. l.to.z = l.from.z /\ 0 < g[1] /\ g[1] <= g[2] /\ s.goOn => AddsUp(u, s, l, g)
    BY <1>3, <2>2, <2>4
  <2>6. u.found = s.found \/ u.found = l.line
    BY <1>4, <2>2
  <2>7. g[1] = 0 => u.found = s.found
    BY <1>4, <2>2
  <2> QED  BY <1>2, <1>6, <2>2, <2>3, <2>5, <2>6, <2>7 DEF SearchedRight
<1>7. CASE ~s.stop /\ ~FilamentAt(l, lack)
  <2>1. u = Lacking(z, l, lack) /\ ~z.stop
    BY <1>2, <1>3, <1>4, <1>7 DEF Searched
  <2>2. lack <= l.to.e /\ ~(l.to.e < lack)
    BY <1>1, <1>7 DEF FilamentAt
  <2>3. /\ u \in SearchStates
        /\ u.found = z.found \/ u.found = l.line
        /\ u.stop => l.from.e <= lack
        /\ l.from.e < l.to.e /\ lack < l.to.e => u.found = l.line
    BY <2>1, <2>2, LackingFacts
  <2>4. u.found = s.found \/ u.found = l.line
    BY <1>4, <2>3
  <2> QED  BY <1>2, <1>7, <2>2, <2>3, <2>4 DEF SearchedRight
<1> QED  BY <1>5, <1>6, <1>7

\* after is what the search knows after each line.
Passage(lines, lack, g, after) ==
    /\ after[Len(lines) + 1] = Begun
    /\ \A i \in 1..Len(lines) : after[i] = Searched(after[i + 1], lines[i], lack, g)

\* The search is well-defined: it takes one line after the other.
LEMMA PassageExists ==
  ASSUME NEW lines, Len(lines) \in Nat, NEW lack, NEW g
  PROVE  \E after : Passage(lines, lack, g, after) /\ Located(lines, lack, g) = after[1].found
<1> DEFINE n == Len(lines)
           Passed(s, i) == Searched(s, lines[i], lack, g)
           From(i, h) == h = [j \in i..n + 1 |-> IF j = n + 1 THEN Begun ELSE Passed(h[j + 1], j)]
           Reached == {i \in 1..n + 1 : \E h : From(i, h)}
<1>1. n + 1 \in Reached
  <2> DEFINE h == [j \in n + 1..n + 1 |-> Begun]
  <2>1. From(n + 1, h)
    OBVIOUS
  <2> HIDE DEF h
  <2> QED  BY <2>1
<1>2. ASSUME NEW i \in 1..n, i + 1 \in Reached  PROVE i \in Reached
  <2>1. PICK h : From(i + 1, h)
    BY <1>2
  <2> HIDE DEF Passed
  <2> DEFINE f == [j \in i..n + 1 |-> IF j = i THEN Passed(h[i + 1], i) ELSE h[j]]
  <2>2. \A j \in i + 1..n + 1 :
           f[j] = h[j] /\ h[j] = IF j = n + 1 THEN Begun ELSE Passed(h[j + 1], j)
    BY <2>1
  <2>3. f[i] = Passed(h[i + 1], i) /\ f[i + 1] = h[i + 1]
    BY <2>2
  <2>4. ASSUME NEW j \in i..n + 1
        PROVE  f[j] = IF j = n + 1 THEN Begun ELSE Passed(f[j + 1], j)
    <3>1. CASE j = i
      BY <2>3, <3>1
    <3>2. CASE j = n + 1
      <4>1. j \in i + 1..n + 1
        BY <3>2
      <4> QED  BY <2>2, <3>2, <4>1
    <3>3. CASE j \in i + 1..n
      <4>1. j \in i + 1..n + 1 /\ j + 1 \in i + 1..n + 1
        BY <3>3
      <4> QED  BY <2>2, <3>3, <4>1
    <3> QED  BY <3>1, <3>2, <3>3
  <2>5. From(i, f)
    BY <2>4
  <2> HIDE DEF f
  <2> QED  BY <2>5
<1>3. 1 \in Reached
  <2> HIDE DEF Reached
  <2>1. \A i \in 1..n + 1 : i \in Reached
    BY <1>1, <1>2, Downward
  <2> QED  BY <2>1
<1>4. PICK h : From(1, h)
  BY <1>3
<1> DEFINE after == CHOOSE f : f = [j \in 1..n + 1 |->
                                      IF j = n + 1 THEN Begun ELSE Passed(f[j + 1], j)]
<1>5. after = [j \in 1..n + 1 |-> IF j = n + 1 THEN Begun ELSE Passed(after[j + 1], j)]
  <2> HIDE DEF Passed
  <2> QED  BY <1>4
<1>6. Located(lines, lack, g) = after[1].found
  BY DEF Located
<1>7. Passage(lines, lack, g, after)
  <2> HIDE DEF after
  <2>1. \A j \in 1..n + 1 : after[j] = IF j = n + 1 THEN Begun ELSE Passed(after[j + 1], j)
    BY <1>5
  <2> QED  BY <2>1 DEF Passage
<1> HIDE DEF after
<1> QED  BY <1>6, <1>7

\* Where the k-th line of a record begins that ends at p.
BeginsAt(lines, p, k) == IF k = Len(lines) + 1 THEN p.e ELSE lines[k].from.e

\* The lines of a record in which nothing is retracted.
LEMMA LinesRise ==
  ASSUME NEW lines, NEW l, NEW p, Recorded(lines, l, p), ~Retracts(lines),
         NEW i \in 1..Len(lines)
  PROVE  /\ lines[i] \in RecordedLines
         /\ lines[i].from.e \in Int /\ lines[i].to.e \in Int /\ lines[i].line \in Nat
         /\ lines[i].from.e <= lines[i].to.e
         /\ lines[i].from.e = BeginsAt(lines, p, i)
         /\ lines[i].to.e = BeginsAt(lines, p, i + 1)
         /\ 1 <= lines[i].line
         /\ \A j \in i..Len(lines) : lines[i].line <= lines[j].line
<1>1. lines \in Seq(RecordedLines) /\ l \in Nat /\ p \in Positions
  BY DEF Recorded
<1>2. PICK n \in Nat : n = Len(lines) /\ n <= l /\ DOMAIN lines = 1..n
  BY <1>1 DEF Recorded
<1>3. i \in 1..n /\ \A j \in 1..n : lines[j].line = l - n + j
  BY <1>2 DEF Recorded
<1>4. lines[i] \in RecordedLines
  BY <1>1
<1>5. lines[i].from.e \in Int /\ lines[i].to.e \in Int /\ lines[i].line \in Nat
  BY <1>4, LineFacts
<1>6. lines[i].from.e <= lines[i].to.e
  <2>1. ~(lines[i].to.e < lines[i].from.e)
    BY <1>2, <1>3 DEF Retracts
  <2> QED  BY <1>5, <2>1
<1>7. lines[i].from.e = BeginsAt(lines, p, i)
  <2>1. i # n + 1
    BY <1>3
  <2> QED  BY <1>2, <2>1 DEF BeginsAt
<1>8. lines[i].to.e = BeginsAt(lines, p, i + 1)
  <2>1. CASE i = n
    <3>1. lines[n].to = p
      <4>1. n > 0
        BY <1>3
      <4> QED  BY <1>2, <4>1 DEF Recorded
    <3> QED  BY <1>2, <2>1, <3>1 DEF BeginsAt
  <2>2. CASE i # n
    <3>1. i \in 1..n - 1 /\ i + 1 # n + 1
      BY <1>3, <2>2
    <3>2. lines[i].to = lines[i + 1].from
      BY <1>2, <3>1 DEF Recorded
    <3> QED  BY <1>2, <3>1, <3>2 DEF BeginsAt
  <2> QED  BY <2>1, <2>2
<1>9. 1 <= lines[i].line
  <2>1. 1 <= l - n + i
    BY <1>1, <1>2, <1>3
  <2> QED  BY <1>3, <2>1
<1>10. ASSUME NEW j \in i..n  PROVE lines[i].line <= lines[j].line
  <2>1. j \in 1..n /\ l - n + i <= l - n + j
    BY <1>1, <1>2, <1>3
  <2> QED  BY <1>3, <2>1
<1> QED  BY <1>2, <1>4, <1>5, <1>6, <1>7, <1>8, <1>9, <1>10

\* Every line that lacked filament is one to go on before, or at.
LackingFound(lines, p, lack, s, k) ==
    /\ s.stop => BeginsAt(lines, p, k) <= lack
    /\ \A i \in k..Len(lines) :
          lines[i].from.e < lines[i].to.e /\ lack < lines[i].to.e
             => s.found \in 1..lines[i].line

\* Without gravity_min only a line that lacked filament is found.
OnlyLacking(lines, lack, g, s, k) ==
    g[1] = 0 /\ s.found # 0 =>
        \E j \in k..Len(lines) : s.found = lines[j].line /\ lack <= lines[j].to.e

\* When no line lacked filament, it is gone back by gravity_target or to the
\* first line that extruded.
EnoughFound(lines, p, g, s, k) ==
    /\ s.goOn
    /\ s.stop => \E j \in k..Len(lines) :
                    s.found = lines[j].line /\ g[2] <= p.e - lines[j].from.e
    /\ ~s.stop => /\ s.extra = p.e - BeginsAt(lines, p, k)
                  /\ \A i \in k..Len(lines) :
                        lines[i].from.e < lines[i].to.e => s.found \in 1..lines[i].line

\* No line of a record that ends at p lacked filament or changed the height.
NoneLacks(lines, lack, g) ==
    /\ 0 < g[1] /\ g[1] <= g[2]
    /\ \A i \in 1..Len(lines) : lines[i].to.e < lack /\ lines[i].to.z = lines[i].from.z

LEMMA LackingStep ==
  ASSUME NEW lines, NEW l, NEW p, Recorded(lines, l, p), ~Retracts(lines),
         NEW k \in 1..Len(lines), NEW lack \in Nat, NEW g,
         NEW s \in SearchStates, LackingFound(lines, p, lack, s, k + 1),
         NEW u, SearchedRight(u, s, lines[k], lack, g)
  PROVE  LackingFound(lines, p, lack, u, k)
<1>1. PICK n \in Nat : n = Len(lines) /\ k \in 1..n
  BY DEF Recorded
<1>2. PICK a \in Int, b \in Int, c \in Nat :
         /\ a = lines[k].from.e /\ b = lines[k].to.e /\ c = lines[k].line
         /\ a <= b /\ 1 <= c
         /\ a = BeginsAt(lines, p, k) /\ b = BeginsAt(lines, p, k + 1)
  BY LinesRise
<1>3. u.stop => a <= lack
  <2>1. CASE s.stop
    <3>1. b <= lack
      BY <1>2, <2>1 DEF LackingFound
    <3> QED  BY <1>2, <3>1
  <2>2. CASE ~s.stop
    BY <1>2, <2>2 DEF SearchedRight
  <2> QED  BY <2>1, <2>2
<1>4. a < b /\ lack < b => u.found = c
  <2>1. s.stop => b <= lack
    BY <1>2 DEF LackingFound
  <2>2. s.stop => ~(lack < b)
    BY <2>1
  <2> QED  BY <1>2, <2>2 DEF SearchedRight
<1>5. ASSUME NEW i \in k..n, lines[i].from.e < lines[i].to.e, lack < lines[i].to.e
      PROVE  u.found \in 1..lines[i].line
  <2>1. i \in 1..n
    BY <1>1
  <2>2. lines[i].line \in Nat /\ c <= lines[i].line
    BY <1>1, <1>2, <1>5, <2>1, LinesRise
  <2>3. c \in 1..lines[i].line
    BY <1>2, <2>2
  <2>4. CASE i = k
    <3>1. lines[i].from.e = a /\ lines[i].to.e = b
      BY <1>2, <2>4
    <3>2. a < b /\ lack < b
      BY <1>5, <3>1
    <3> QED  BY <1>4, <2>3, <3>2
  <2>5. CASE i # k
    <3>1. i \in k + 1..n
      BY <1>1, <2>5
    <3>2. s.found \in 1..lines[i].line
      BY <1>1, <1>5, <3>1 DEF LackingFound
    <3>3. u.found = s.found \/ u.found = c
      BY <1>2 DEF SearchedRight
    <3> QED  BY <2>3, <3>2, <3>3
  <2> QED  BY <2>4, <2>5
<1> QED  BY <1>1, <1>2, <1>3, <1>5 DEF LackingFound

LEMMA OnlyStep ==
  ASSUME NEW lines, Len(lines) \in Nat, NEW k \in 1..Len(lines), NEW lack, NEW g,
         NEW s, OnlyLacking(lines, lack, g, s, k + 1),
         NEW u, SearchedRight(u, s, lines[k], lack, g)
  PROVE  OnlyLacking(lines, lack, g, u, k)
<1> SUFFICES ASSUME g[1] = 0, u.found # 0
             PROVE  \E j \in k..Len(lines) : u.found = lines[j].line /\ lack <= lines[j].to.e
  BY DEF OnlyLacking
<1>1. CASE u.found = s.found
  <2>1. PICK j \in k + 1..Len(lines) : s.found = lines[j].line /\ lack <= lines[j].to.e
    BY <1>1 DEF OnlyLacking
  <2>2. j \in k..Len(lines)
    OBVIOUS
  <2> QED  BY <1>1, <2>1, <2>2
<1>2. CASE u.found # s.found
  <2>1. u.found = lines[k].line /\ lack <= lines[k].to.e
    BY <1>2 DEF SearchedRight
  <2>2. k \in k..Len(lines)
    OBVIOUS
  <2> QED  BY <2>1, <2>2
<1> QED  BY <1>1, <1>2

LEMMA EnoughStep ==
  ASSUME NEW lines, NEW l, NEW p, Recorded(lines, l, p), ~Retracts(lines),
         NEW k \in 1..Len(lines), NEW lack \in Nat, NEW g \in Nat \X Nat,
         NoneLacks(lines, lack, g),
         NEW s \in SearchStates, EnoughFound(lines, p, g, s, k + 1),
         NEW u, SearchedRight(u, s, lines[k], lack, g)
  PROVE  EnoughFound(lines, p, g, u, k)
<1>1. PICK n \in Nat : n = Len(lines) /\ k \in 1..n
  BY DEF Recorded
<1>2. PICK a \in Int, b \in Int, c \in Nat :
         /\ a = lines[k].from.e /\ b = lines[k].to.e /\ c = lines[k].line
         /\ a <= b /\ 1 <= c
         /\ a = BeginsAt(lines, p, k) /\ b = BeginsAt(lines, p, k + 1)
  BY LinesRise
<1>3. PICK e \in Int : e = p.e
  BY DEF Recorded, Positions
<1>4. k \in k..n /\ k + 1..n \subseteq k..n
  BY <1>1
<1>5. CASE s.stop
  <2>1. u = s
    BY <1>5 DEF SearchedRight
  <2>2. PICK j \in k + 1..n : s.found = lines[j].line /\ g[2] <= p.e - lines[j].from.e
    BY <1>1, <1>5 DEF EnoughFound
  <2>3. s.goOn
    BY DEF EnoughFound
  <2> QED  BY <1>1, <1>4, <1>5, <2>1, <2>2, <2>3 DEF EnoughFound
<1>6. CASE ~s.stop
  <2>1. AddsUp(u, s, lines[k], g)
    <3>1. s.goOn /\ lines[k].to.e < lack /\ lines[k].to.z = lines[k].from.z
          /\ 0 < g[1] /\ g[1] <= g[2]
      BY DEF EnoughFound, NoneLacks
    <3> QED  BY <1>6, <3>1 DEF SearchedRight
  <2>2. s.extra = e - b
    BY <1>2, <1>3, <1>6 DEF EnoughFound
  <2>3. u.extra = e - a
    <3>1. u.extra = s.extra + b - a
      BY <1>2, <2>1 DEF AddsUp
    <3>2. e - b + b - a = e - a
      OBVIOUS
    <3> QED  BY <2>2, <3>1, <3>2
  <2>4. u.goOn
    BY <2>1 DEF AddsUp
  <2>5. CASE u.stop
    <3>1. u.found = c /\ u.extra >= g[2]
      BY <1>2, <2>1, <2>5 DEF AddsUp
    <3>2. g[2] <= e - a
      <4>1. g[2] \in Nat
        OBVIOUS
      <4> QED  BY <2>3, <3>1, <4>1
    <3> QED  BY <1>1, <1>2, <1>3, <1>4, <2>4, <2>5, <3>1, <3>2 DEF EnoughFound
  <2>6. CASE ~u.stop
    <3>1. b > a => u.found = c
      BY <1>2, <2>1, <2>6 DEF AddsUp
    <3>2. ASSUME NEW i \in k..n, lines[i].from.e < lines[i].to.e
          PROVE  u.found \in 1..lines[i].line
      <4>1. i \in 1..n
        BY <1>1
      <4>2. lines[i].line \in Nat /\ c <= lines[i].line
        BY <1>1, <1>2, <3>2, <4>1, LinesRise
      <4>3. c \in 1..lines[i].line
        BY <1>2, <4>2
      <4>4. CASE i = k
        BY <1>2, <3>1, <3>2, <4>3, <4>4
      <4>5. CASE i # k
        <5>1. i \in k + 1..n
          BY <1>1, <4>5
        <5>2. s.found \in 1..lines[i].line
          BY <1>1, <1>6, <3>2, <5>1 DEF EnoughFound
        <5>3. u.found = s.found \/ u.found = c
          BY <1>2 DEF SearchedRight
        <5> QED  BY <4>3, <5>2, <5>3
      <4> QED  BY <4>4, <4>5
    <3> QED  BY <1>1, <1>2, <1>3, <2>3, <2>4, <2>6, <3>2 DEF EnoughFound
  <2> QED  BY <2>5, <2>6
<1> QED  BY <1>5, <1>6

\* What the search finds in a record in which nothing is retracted.
LEMMA LocatedFacts ==
  ASSUME NEW lines, NEW l, NEW p, Recorded(lines, l, p), ~Retracts(lines),
         NEW lack \in Nat, NEW g \in Nat \X Nat,
         NEW r, r = Located(lines, lack, g)
  PROVE  /\ \A i \in 1..Len(lines) :
               lines[i].from.e < lines[i].to.e /\ lack < lines[i].to.e
                  => r \in 1..lines[i].line
         /\ g[1] = 0 /\ r # 0 =>
               \E j \in 1..Len(lines) : r = lines[j].line /\ lack <= lines[j].to.e
         /\ NoneLacks(lines, lack, g) =>
               \/ \E j \in 1..Len(lines) : r = lines[j].line /\ g[2] <= p.e - lines[j].from.e
               \/ \A i \in 1..Len(lines) :
                     lines[i].from.e < lines[i].to.e => r \in 1..lines[i].line
<1>1. PICK n \in Nat : n = Len(lines) /\ n + 1 \in Nat
  BY DEF Recorded
<1>2. PICK after : Passage(lines, lack, g, after) /\ r = after[1].found
  BY <1>1, PassageExists
<1>3. after[n + 1] = Begun /\ \A i \in 1..n : after[i] = Searched(after[i + 1], lines[i], lack, g)
  BY <1>1, <1>2 DEF Passage
<1> DEFINE Right(k) ==
               /\ after[k] \in SearchStates
               /\ LackingFound(lines, p, lack, after[k], k)
               /\ OnlyLacking(lines, lack, g, after[k], k)
               /\ NoneLacks(lines, lack, g) => EnoughFound(lines, p, g, after[k], k)
           T == {k \in 1..n + 1 : Right(k)}
<1>4. Right(n + 1)
  <2>1. /\ Begun \in SearchStates /\ ~Begun.stop /\ Begun.found = 0 /\ Begun.goOn
        /\ Begun.extra = 0
    BY DEF Begun, SearchStates
  <2>2. n + 1..n = {}
    OBVIOUS
  <2>3. BeginsAt(lines, p, n + 1) = p.e /\ p.e - p.e = 0
    BY <1>1 DEF BeginsAt, Recorded, Positions
  <2>4. LackingFound(lines, p, lack, Begun, n + 1)
    BY <1>1, <2>1, <2>2 DEF LackingFound
  <2>5. OnlyLacking(lines, lack, g, Begun, n + 1)
    BY <2>1 DEF OnlyLacking
  <2>6. EnoughFound(lines, p, g, Begun, n + 1)
    BY <1>1, <2>1, <2>2, <2>3 DEF EnoughFound
  <2> QED  BY <1>3, <2>1, <2>4, <2>5, <2>6
<1>5. ASSUME NEW k \in 1..n, Right(k + 1)  PROVE Right(k)
  <2>1. k \in 1..Len(lines)
    BY <1>1
  <2>2. PICK s \in SearchStates : s = after[k + 1]
    BY <1>5
  <2>3. PICK u : u = after[k] /\ u = Searched(s, lines[k], lack, g)
    BY <1>3, <2>2
  <2>4. SearchedRight(u, s, lines[k], lack, g)
    <3>1. PICK m \in RecordedLines : m = lines[k] /\ m.from.e <= m.to.e
      BY <2>1, LinesRise
    <3>2. SearchedRight(Searched(s, m, lack, g), s, m, lack, g)
      BY <3>1, SearchedFacts
    <3> QED  BY <2>3, <3>1, <3>2
  <2>5. u \in SearchStates
    BY <2>4 DEF SearchedRight
  <2>6. LackingFound(lines, p, lack, u, k)
    <3>1. LackingFound(lines, p, lack, s, k + 1)
      BY <1>5, <2>2
    <3> QED  BY <2>1, <2>4, <3>1, LackingStep
  <2>7. OnlyLacking(lines, lack, g, u, k)
    <3>1. OnlyLacking(lines, lack, g, s, k + 1)
      BY <1>5, <2>2
    <3> QED  BY <1>1, <2>1, <2>4, <3>1, OnlyStep
  <2>8. ASSUME NoneLacks(lines, lack, g)  PROVE EnoughFound(lines, p, g, u, k)
    <3>1. EnoughFound(lines, p, g, s, k + 1)
      BY <1>5, <2>2, <2>8
    <3> QED  BY <2>1, <2>4, <2>8, <3>1, EnoughStep
  <2> QED  BY <2>3, <2>5, <2>6, <2>7, <2>8
<1>6. Right(1)
  <2> HIDE DEF Right
  <2>1. n + 1 \in T
    BY <1>4
  <2>2. \A i \in 1..(n + 1) - 1 : i + 1 \in T => i \in T
    <3>1. ASSUME NEW i \in 1..(n + 1) - 1, i + 1 \in T  PROVE i \in T
      <4>1. i \in 1..n /\ i \in 1..n + 1
        OBVIOUS
      <4> QED  BY <1>5, <3>1, <4>1
    <3> QED  BY <3>1
  <2> HIDE DEF T
  <2>3. PICK N \in Nat : N = n + 1
    BY <1>1
  <2>4. \A i \in 1..N : i \in T
    <3>1. N \in T /\ \A i \in 1..N - 1 : i + 1 \in T => i \in T
      BY <2>1, <2>2, <2>3
    <3> QED  BY <3>1, Downward
  <2>5. 1 \in T
    BY <2>3, <2>4
  <2> QED  BY <2>5 DEF T
<1>7. PICK s \in SearchStates : s = after[1] /\ r = s.found
  BY <1>2, <1>6
<1>8. /\ LackingFound(lines, p, lack, s, 1) /\ OnlyLacking(lines, lack, g, s, 1)
      /\ NoneLacks(lines, lack, g) => EnoughFound(lines, p, g, s, 1)
  BY <1>6, <1>7
<1> HIDE DEF Right, T
<1>9. \A i \in 1..Len(lines) :
         lines[i].from.e < lines[i].to.e /\ lack < lines[i].to.e => r \in 1..lines[i].line
  BY <1>7, <1>8 DEF LackingFound
<1>10. g[1] = 0 /\ r # 0 =>
          \E j \in 1..Len(lines) : r = lines[j].line /\ lack <= lines[j].to.e
  BY <1>7, <1>8 DEF OnlyLacking
<1>11. ASSUME NoneLacks(lines, lack, g)
       PROVE  \/ \E j \in 1..Len(lines) : r = lines[j].line /\ g[2] <= p.e - lines[j].from.e
              \/ \A i \in 1..Len(lines) :
                    lines[i].from.e < lines[i].to.e => r \in 1..lines[i].line
  <2>1. EnoughFound(lines, p, g, s, 1)
    BY <1>8, <1>11
  <2>2. CASE s.stop
    BY <1>7, <2>1, <2>2 DEF EnoughFound
  <2>3. CASE ~s.stop
    BY <1>7, <2>1, <2>3 DEF EnoughFound
  <2> QED  BY <2>2, <2>3
<1> QED  BY <1>9, <1>10, <1>11

-----------------------------------------------------------------------------
(* The record, and what F108 makes of it.                                  *)

LEMMA RecordKept ==
  ASSUME RollbackInv, [RollbackNext]_rollbackVars
  PROVE  RollbackInv'
<1>1. /\ Recorded(recorded, line, pos) /\ maxSize \in Nat /\ Len(recorded) <= maxSize
      /\ lackE \in Nat \cup {NoRunout} /\ gravity \in Nat \X Nat
  BY DEF RollbackInv
<1>2. ASSUME NEW m \in LineMoves, RecordLine(m)  PROVE RollbackInv'
  <2>1. PICK q \in Positions : q = [e |-> pos.e + m[1], z |-> pos.z + m[2]]
    <3>1. m[1] \in Int /\ m[2] \in Int
      BY RollbackAssumption
    <3>2. pos.e \in Int /\ pos.z \in Int
      BY <1>1 DEF Recorded, Positions
    <3>3. PICK x \in Int, y \in Int : x = pos.e + m[1] /\ y = pos.z + m[2]
      BY <3>1, <3>2
    <3>4. [e |-> x, z |-> y] \in Positions
      BY DEF Positions
    <3> QED  BY <3>3, <3>4
  <2>2. /\ line' = line + 1 /\ pos' = q
        /\ recorded' = Newest(Append(recorded, [line |-> line + 1, from |-> pos, to |-> q]), maxSize)
        /\ gravity' = gravity /\ maxSize' = maxSize /\ lackE' = lackE
    BY <1>2, <2>1 DEF RecordLine
  <2>3. PICK s, k : /\ s = Append(recorded, [line |-> line + 1, from |-> pos, to |-> q])
                    /\ k = line + 1
    OBVIOUS
  <2>4. Recorded(s, k, q)
    BY <1>1, <2>3, LineRecorded
  <2>5. Recorded(Newest(s, maxSize), k, q) /\ Len(Newest(s, maxSize)) <= maxSize
    BY <1>1, <2>4, NewestRecorded
  <2> QED  BY <1>1, <2>2, <2>3, <2>5 DEF RollbackInv
<1>3. ASSUME NEW n \in Sizes, SetSize(n)  PROVE RollbackInv'
  <2>1. /\ maxSize' = n /\ recorded' = Newest(recorded, n)
        /\ gravity' = gravity /\ line' = line /\ pos' = pos /\ lackE' = lackE
    BY <1>3 DEF SetSize
  <2>2. n \in Nat
    BY RollbackAssumption
  <2>3. Recorded(Newest(recorded, n), line, pos) /\ Len(Newest(recorded, n)) <= n
    BY <1>1, <2>2, NewestRecorded
  <2> QED  BY <1>1, <2>1, <2>2, <2>3 DEF RollbackInv
<1>4. CASE FilamentOut
  <2>1. PICK e \in 0..pos.e : lackE' = e + EOffset
    BY <1>4 DEF FilamentOut
  <2>2. lackE' \in Nat
    <3>1. pos.e \in Int /\ EOffset \in Nat
      BY <1>1, RollbackAssumption DEF Recorded, Positions
    <3> QED  BY <2>1, <3>1
  <2>3. /\ recorded' = recorded /\ line' = line /\ pos' = pos
        /\ maxSize' = maxSize /\ gravity' = gravity
    BY <1>4 DEF FilamentOut
  <2> QED  BY <1>1, <2>2, <2>3 DEF RollbackInv
<1>5. CASE Restore
  <2>1. /\ recorded' = recorded /\ line' = line /\ pos' = pos
        /\ maxSize' = maxSize /\ gravity' = gravity /\ lackE' = NoRunout
    BY <1>5 DEF Restore
  <2> QED  BY <1>1, <2>1 DEF RollbackInv, NoRunout
<1>6. CASE UNCHANGED rollbackVars
  BY <1>1, <1>6 DEF RollbackInv, rollbackVars, NoRunout
<1> QED  BY <1>2, <1>3, <1>4, <1>5, <1>6 DEF RollbackNext

\* Only F108 takes what was kept at the runout.
LEMMA OnlyRestore ==
  ASSUME RollbackInv, [RollbackNext]_rollbackVars, lackE # NoRunout, lackE' = NoRunout
  PROVE  Restore /\ lackE \in Nat
<1>1. lackE \in Nat
  BY DEF RollbackInv
<1>2. ~FilamentOut
  <2> SUFFICES ASSUME FilamentOut  PROVE FALSE
    OBVIOUS
  <2>1. PICK e \in 0..pos.e : lackE' = e + EOffset
    BY DEF FilamentOut
  <2>2. pos.e \in Int /\ EOffset \in Nat
    BY RollbackAssumption DEF RollbackInv, Recorded, Positions
  <2>3. lackE' \in Nat
    BY <2>1, <2>2
  <2> QED  BY <2>3 DEF NoRunout
<1>3. ASSUME NEW m \in LineMoves, RecordLine(m)  PROVE FALSE
  BY <1>3 DEF RecordLine
<1>4. ASSUME NEW n \in Sizes, SetSize(n)  PROVE FALSE
  BY <1>4 DEF SetSize
<1>5. ~UNCHANGED rollbackVars
  BY DEF rollbackVars
<1> QED  BY <1>1, <1>2, <1>3, <1>4, <1>5 DEF RollbackNext

\* Without retractions every line ends where the ones before it ended, or later.
LEMMA EndsRise ==
  ASSUME NEW lines, NEW l, NEW p, Recorded(lines, l, p), ~Retracts(lines),
         NEW j \in 1..Len(lines), NEW i \in 1..j
  PROVE  lines[i].to.e <= lines[j].to.e
<1>1. PICK n \in Nat : n = Len(lines) /\ j \in 1..n /\ j \in Nat
  BY DEF Recorded
<1> DEFINE T == {k \in 1..j : lines[k].to.e <= lines[j].to.e}
<1>2. j \in T
  <2>1. lines[j].to.e \in Int
    BY LinesRise
  <2> QED  BY <1>1, <2>1
<1>3. ASSUME NEW k \in 1..j - 1, k + 1 \in T  PROVE k \in T
  <2>1. k \in 1..Len(lines) /\ k + 1 \in 1..Len(lines) /\ k \in 1..j
    BY <1>1
  <2>2. PICK h \in 1..Len(lines) : h = k + 1
    BY <2>1
  <2>3. lines[k].to.e = BeginsAt(lines, p, h) /\ lines[k].to.e \in Int
    BY <2>1, <2>2, LinesRise
  <2>4. /\ lines[h].from.e = BeginsAt(lines, p, h) /\ lines[h].from.e <= lines[h].to.e
        /\ lines[h].from.e \in Int /\ lines[h].to.e \in Int
    BY LinesRise
  <2>5. lines[j].to.e \in Int /\ lines[h].to.e <= lines[j].to.e
    BY <1>3, <2>2, LinesRise
  <2>6. lines[k].to.e <= lines[j].to.e
    BY <2>3, <2>4, <2>5
  <2> QED  BY <2>1, <2>6
<1> HIDE DEF T
<1>4. \A k \in 1..j : k \in T
  BY <1>1, <1>2, <1>3, Downward
<1> QED  BY <1>4 DEF T

LEMMA RestoreRight ==
  ASSUME RollbackInv, [RollbackNext]_rollbackVars
  PROVE  LackingReprinted /\ NothingTwice /\ GravityMadeUp
<1> SUFFICES ASSUME Restores  PROVE LackingReprinted /\ NothingTwice /\ GravityMadeUp
  BY DEF LackingReprinted, NothingTwice, GravityMadeUp
<1>1. Restore /\ lackE \in Nat /\ ~Retracts(recorded)
  BY OnlyRestore DEF Restores
<1>2. PICK r : r = resumeAt' /\ r = Located(recorded, lackE, gravity)
  BY <1>1 DEF Restore
<1>3. /\ Recorded(recorded, line, pos) /\ gravity \in Nat \X Nat
      /\ recorded \in Seq(RecordedLines) /\ line \in Nat /\ pos \in Positions
  BY DEF RollbackInv, Recorded
<1>4. PICK n \in Nat : n = Len(recorded) /\ DOMAIN recorded = 1..n
  BY <1>3
<1>5. /\ \A i \in 1..n :
            recorded[i].from.e < recorded[i].to.e /\ lackE < recorded[i].to.e
               => r \in 1..recorded[i].line
      /\ gravity[1] = 0 /\ r # 0 =>
            \E j \in 1..n : r = recorded[j].line /\ lackE <= recorded[j].to.e
      /\ NoneLacks(recorded, lackE, gravity) =>
            \/ \E j \in 1..n : r = recorded[j].line /\ gravity[2] <= pos.e - recorded[j].from.e
            \/ \A i \in 1..n :
                  recorded[i].from.e < recorded[i].to.e => r \in 1..recorded[i].line
  <2>1. PICK lack \in Nat : lack = lackE
    BY <1>1
  <2>2. PICK g \in Nat \X Nat : g = gravity
    BY <1>3
  <2>3. PICK lines, l, p : lines = recorded /\ l = line /\ p = pos
    OBVIOUS
  <2>4. Recorded(lines, l, p) /\ ~Retracts(lines) /\ r = Located(lines, lack, g)
    BY <1>1, <1>2, <1>3, <2>1, <2>2, <2>3
  <2>5. /\ \A i \in 1..Len(lines) :
              lines[i].from.e < lines[i].to.e /\ lack < lines[i].to.e
                 => r \in 1..lines[i].line
        /\ g[1] = 0 /\ r # 0 =>
              \E j \in 1..Len(lines) : r = lines[j].line /\ lack <= lines[j].to.e
        /\ NoneLacks(lines, lack, g) =>
              \/ \E j \in 1..Len(lines) : r = lines[j].line /\ g[2] <= p.e - lines[j].from.e
              \/ \A i \in 1..Len(lines) :
                    lines[i].from.e < lines[i].to.e => r \in 1..lines[i].line
    BY <2>4, LocatedFacts
  <2> QED  BY <1>4, <2>1, <2>2, <2>3, <2>5
<1>6. \A i \in 1..n :
         /\ recorded[i].from.e \in Int /\ recorded[i].to.e \in Int /\ recorded[i].line \in Nat
         /\ recorded[i].from.e <= recorded[i].to.e /\ recorded[i].line = line - n + i
  BY <1>1, <1>3, <1>4, LinesRise DEF Recorded
<1>7. LackingReprinted
  <2>1. ASSUME NEW i \in 1..n, recorded[i].to.e > lackE, recorded[i].to.e > recorded[i].from.e
        PROVE  r \in 1..recorded[i].line
    <3>1. recorded[i].from.e < recorded[i].to.e /\ lackE < recorded[i].to.e
      BY <1>1, <1>6, <2>1
    <3> QED  BY <1>5, <3>1
  <2> QED  BY <1>2, <1>4, <2>1 DEF LackingReprinted
<1> DEFINE full == {i \in 1..n : recorded[i].line >= r /\ recorded[i].to.e < lackE}
<1>8. MadeUp = IF full = {} THEN 0 ELSE recorded[Max(full)].to.e - recorded[Min(full)].from.e
  BY <1>2, <1>4 DEF MadeUp
<1>9. NothingTwice
  <2> SUFFICES ASSUME r # 0, gravity[1] = 0  PROVE MadeUp = 0
    BY <1>2 DEF NothingTwice, GravityMin
  <2>1. PICK j \in 1..n : r = recorded[j].line /\ lackE <= recorded[j].to.e
    BY <1>5
  <2>2. ASSUME NEW i \in 1..n, recorded[i].line >= r, recorded[i].to.e < lackE  PROVE FALSE
    <3>1. line - n + i >= line - n + j
      BY <1>6, <2>1, <2>2
    <3>2. j \in 1..i
      BY <1>3, <3>1
    <3>3. recorded[j].to.e <= recorded[i].to.e
      BY <1>1, <1>3, <1>4, <3>2, EndsRise
    <3>4. recorded[j].to.e \in Int /\ recorded[i].to.e \in Int
      BY <1>6
    <3> QED  BY <1>1, <2>1, <2>2, <3>3, <3>4
  <2>3. full = {}
    BY <2>2
  <2> HIDE DEF full
  <2> QED  BY <1>8, <2>3
<1>10. GravityMadeUp
  <2> SUFFICES ASSUME NotEmpty, 0 < gravity[1], gravity[1] <= gravity[2],
                      ~\E i \in 1..n : recorded[i].from.z # recorded[i].to.z
               PROVE  \/ MadeUp >= gravity[1]
                      \/ ~\E i \in 1..n :
                            /\ r = 0 \/ recorded[i].line < r
                            /\ recorded[i].from.e < recorded[i].to.e
    BY <1>2, <1>4 DEF GravityMadeUp, GravityMin, GravityTarget
  <2>1. \A i \in 1..n : recorded[i].to.e < lackE
    BY <1>4 DEF NotEmpty
  <2>2. NoneLacks(recorded, lackE, gravity)
    BY <1>4, <2>1 DEF NoneLacks
  <2>3. CASE \E j \in 1..n : r = recorded[j].line /\ gravity[2] <= pos.e - recorded[j].from.e
    <3>1. PICK j \in 1..n : r = recorded[j].line /\ gravity[2] <= pos.e - recorded[j].from.e
      BY <2>3
    <3>2. full = j..n
      <4>1. ASSUME NEW i \in 1..n  PROVE recorded[i].line >= r <=> j <= i
        <5>1. line - n + i >= line - n + j <=> j <= i
          BY <1>3
        <5> QED  BY <1>6, <3>1, <5>1
      <4>2. ASSUME NEW i \in 1..n  PROVE i \in full <=> i \in j..n
        BY <2>1, <4>1
      <4>3. full \subseteq 1..n /\ j..n \subseteq 1..n
        OBVIOUS
      <4> HIDE DEF full
      <4> QED  BY <4>2, <4>3
    <3> HIDE DEF full
    <3>3. Max(full) = n /\ Min(full) = j /\ full # {}
      <4>1. n \in full /\ j \in full /\ \A x \in full : x \in Nat /\ x <= n /\ j <= x
        BY <3>2
      <4>2. \A x \in full : (\A y \in full : x >= y) => x = n
        BY <4>1
      <4>3. \A x \in full : (\A y \in full : x <= y) => x = j
        BY <4>1
      <4>4. Max(full) = n
        <5>1. \A y \in full : n >= y
          BY <4>1
        <5> QED  BY <4>1, <4>2, <5>1 DEF Max
      <4>5. Min(full) = j
        <5>1. \A y \in full : j <= y
          BY <4>1
        <5> QED  BY <4>1, <4>3, <5>1 DEF Min
      <4> QED  BY <4>1, <4>4, <4>5
    <3>4. recorded[n].to.e = pos.e
      <4>1. n > 0
        BY <3>1
      <4>2. recorded[n].to = pos
        BY <1>3, <1>4, <4>1 DEF Recorded
      <4> QED  BY <4>2
    <3>5. MadeUp = pos.e - recorded[j].from.e
      BY <1>8, <3>3, <3>4
    <3>6. pos.e \in Int /\ recorded[j].from.e \in Int /\ gravity[1] \in Nat /\ gravity[2] \in Nat
      BY <1>3, <1>6 DEF Positions
    <3>7. MadeUp >= gravity[1]
      BY <3>1, <3>5, <3>6
    <3> QED  BY <3>7
  <2>4. CASE \A i \in 1..n : recorded[i].from.e < recorded[i].to.e => r \in 1..recorded[i].line
    <3>1. ASSUME NEW i \in 1..n, recorded[i].from.e < recorded[i].to.e
          PROVE  ~(r = 0 \/ recorded[i].line < r)
      <4>1. r \in 1..recorded[i].line /\ recorded[i].line \in Nat
        BY <1>6, <2>4, <3>1
      <4> QED  BY <4>1
    <3> QED  BY <3>1
  <2> QED  BY <1>5, <2>2, <2>3, <2>4
<1> QED  BY <1>7, <1>9, <1>10

LEMMA RollbackStart ==
  ASSUME RollbackInit
  PROVE  RollbackInv
<1>1. /\ gravity \in Nat \X Nat /\ recorded = << >> /\ maxSize \in Nat /\ line = 0
      /\ pos = [e |-> 0, z |-> 0] /\ lackE = NoRunout
  BY RollbackAssumption DEF RollbackInit
<1>2. << >> \in Seq(RecordedLines) /\ Len(<< >>) = 0 /\ 1..0 = {} /\ 1..0 - 1 = {}
  OBVIOUS
<1>3. [e |-> 0, z |-> 0] \in Positions
  BY DEF Positions
<1>4. Recorded(<< >>, 0, [e |-> 0, z |-> 0])
  BY <1>2, <1>3 DEF Recorded
<1> QED  BY <1>1, <1>2, <1>4 DEF RollbackInv

\* Whatever the lines do, however often the size of the record changes and
\* whenever filament runs out: the record holds the newest lines without a gap,
\* and a print goes on at a line from which all is printed again that was
\* extruded without filament, nothing else without gravity_min, and enough
\* with it.
THEOREM LackingIsPrintedAgain == RollbackSpec => PrintedAgainRight
<1>1. RollbackInit => RollbackInv
  BY RollbackStart
<1>2. RollbackInv /\ [RollbackNext]_rollbackVars => RollbackInv'
  BY RecordKept
<1>3. RollbackInv => Len(recorded) <= maxSize /\ RecordContiguous
  <2> SUFFICES ASSUME RollbackInv  PROVE Len(recorded) <= maxSize /\ RecordContiguous
    OBVIOUS
  <2>1. Len(recorded) <= maxSize /\ recorded \in Seq(RecordedLines)
    BY DEF RollbackInv, Recorded
  <2>2. DOMAIN recorded = 1..Len(recorded)
    BY <2>1
  <2>3. RecordContiguous
    BY <2>2 DEF RollbackInv, Recorded, RecordContiguous
  <2> QED  BY <2>1, <2>3
<1>4. RollbackInv /\ [RollbackNext]_rollbackVars
         => [LackingReprinted /\ NothingTwice /\ GravityMadeUp]_rollbackVars
  BY RestoreRight
<1> QED  BY <1>1, <1>2, <1>3, <1>4, PTL DEF RollbackSpec, PrintedAgainRight
=============================================================================
