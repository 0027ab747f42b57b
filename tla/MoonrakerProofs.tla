-------------------------- MODULE MoonrakerProofs ---------------------------
(* Proofs about JobQueue, KlippyConn and History. For any number of jobs   *)
(* and tasks at the lock no job is started twice and a queue that loads    *)
(* has a call of _pop_job, whatever the order of requests, timers and      *)
(* reports; the components of Moonraker hear the events of Klipper in      *)
(* order; and the history follows the prints through the restarts of       *)
(* either program.                                                         *)
EXTENDS JobQueue, KlippyConn, History, SequenceLemmas

Kinds == AllRequests \cup {"pop", "complete", "abort"}
Tasks == [kind : Kinds, arg : 0..MaxJobs]
Brings(t) == t.kind \in {"add", "reset"}

\* Types; the timers and the tasks that wait are never more than the model has
\* room for, so that a call of _pop_job always finds a number.
QueueTypes ==
    /\ jobs \in Seq(Jobs) /\ added \in 0..MaxJobs
    /\ qstate \in {"ready", "paused", "loading", "starting"}
    /\ timers \subseteq Timers /\ handle \in TimerIds \cup {0}
    /\ handle # 0 => \E tm \in timers : tm.id = handle
    /\ tasks \in Seq(Tasks)
    /\ at \in {"begin", "check", "transition", "start"}
    /\ printer \in {"standby", "printing", "paused", "complete", "aborted"}
    /\ seen \in {"standby", "printing", "paused", "complete", "aborted"}
    /\ starts \in [Jobs -> Nat] /\ held \in BOOLEAN

Fits(q, ts) == IsFiniteSet(ts) /\ Len(q) + Cardinality(ts) <= MaxTasks

\* Only a task that wants to start a print gives way with the lock, and what it
\* found there is still there.
LockKept ==
    /\ at # "begin" => /\ tasks # << >> /\ jobs # << >>
                       /\ Head(tasks).kind \in {"start", "pop"}
    /\ at \in {"transition", "start"} => Head(tasks).kind = "pop"
    /\ at = "start" => qstate # "loading"

HasPop(q) == \E i \in DOMAIN q : q[i].kind = "pop"

Distinct(s) == \A i, k \in DOMAIN s : s[i] = s[k] => i = k

\* The jobs in s are of the first n, once each, and not started.
Queued(s, n) == Distinct(s) /\ \A i \in DOMAIN s : s[i] \in 1..n /\ starts[s[i]] = 0

\* The jobs that the tasks in q bring are of the first n, new and not in s.
Bringing(q, s, n) ==
    /\ \A i \in DOMAIN q : Brings(q[i]) =>
          /\ q[i].arg \in 1..n /\ starts[q[i].arg] = 0
          /\ \A k \in DOMAIN s : s[k] # q[i].arg
    /\ \A i, k \in DOMAIN q :
          Brings(q[i]) /\ Brings(q[k]) /\ q[i].arg = q[k].arg => i = k

Once == \A j \in Jobs : starts[j] <= 1 /\ (j > added => starts[j] = 0)

QueueInv ==
    /\ QueueTypes /\ Fits(tasks, timers) /\ LockKept /\ LoadingArmed
    /\ Queued(jobs, added) /\ Bringing(tasks, jobs, added) /\ Once

-----------------------------------------------------------------------------
(* Lemmas about the helpers of the model.                                  *)

\* queued_jobs.pop leaves a part of the queue.
LEMMA PoppedFacts ==
  ASSUME NEW S, jobs \in Seq(S), NEW j, Distinct(jobs)
  PROVE  /\ Popped(j) \in Seq(S) /\ Distinct(Popped(j))
         /\ \A i \in DOMAIN Popped(j) : /\ \E k \in DOMAIN jobs : Popped(j)[i] = jobs[k]
                                        /\ Popped(j)[i] # j
<1>1. CASE ~Contains(jobs, j)
  BY <1>1 DEF Popped, Contains, Distinct
<1>2. CASE Contains(jobs, j)
  <2> DEFINE n == CHOOSE i \in DOMAIN jobs : jobs[i] = j
             p == SubSeq(jobs, 1, n - 1) \o SubSeq(jobs, n + 1, Len(jobs))
  <2>1. n \in 1..Len(jobs) /\ jobs[n] = j
    BY <1>2 DEF Contains
  <2>2. Popped(j) = p
    BY <1>2 DEF Popped, RemoveAt
  <2> HIDE DEF n
  <2>3. /\ p \in Seq(S) /\ Len(p) = Len(jobs) - 1
        /\ \A i \in 1..Len(p) : p[i] = IF i < n THEN jobs[i] ELSE jobs[i + 1]
    <3> DEFINE a == SubSeq(jobs, 1, n - 1)  b == SubSeq(jobs, n + 1, Len(jobs))
    <3>1. a \in Seq(S) /\ Len(a) = n - 1 /\ \A i \in 1..n - 1 : a[i] = jobs[i]
      BY <2>1
    <3>2. /\ b \in Seq(S) /\ Len(b) = Len(jobs) - n
          /\ \A i \in 1..Len(jobs) - n : b[i] = jobs[i + n]
      BY <2>1
    <3>3. p = a \o b
      OBVIOUS
    <3> HIDE DEF a, b, p
    <3>4. /\ p \in Seq(S) /\ Len(p) = Len(a) + Len(b)
          /\ \A i \in 1..Len(a) + Len(b) : p[i] = IF i <= Len(a) THEN a[i] ELSE b[i - Len(a)]
      BY <3>1, <3>2, <3>3, ConcatProperties
    <3>5. ASSUME NEW i \in 1..Len(p)  PROVE p[i] = IF i < n THEN jobs[i] ELSE jobs[i + 1]
      <4>1. CASE i < n
        BY <2>1, <3>1, <3>2, <3>4, <4>1
      <4>2. CASE ~(i < n)
        <5>1. i - (n - 1) \in 1..Len(jobs) - n /\ i - (n - 1) + n = i + 1
          BY <2>1, <3>1, <3>2, <3>4, <4>2
        <5>2. b[i - (n - 1)] = jobs[i + 1]
          BY <3>2, <5>1
        <5>3. p[i] = b[i - (n - 1)]
          <6>1. Len(a) = n - 1 /\ Len(b) = Len(jobs) - n /\ Len(jobs) \in Nat
            BY <3>1, <3>2
          <6>2. i \in 1..Len(a) + Len(b) /\ ~(i <= Len(a))
            BY <2>1, <3>4, <4>2, <6>1
          <6>3. p[i] = b[i - Len(a)]
            BY <3>4, <6>2
          <6> QED  BY <6>1, <6>3
        <5> QED  BY <4>2, <5>2, <5>3
      <4> QED  BY <4>1, <4>2
    <3> QED  BY <2>1, <3>1, <3>2, <3>4, <3>5
  <2> HIDE DEF p
  <2>4. /\ DOMAIN p = 1..Len(jobs) - 1 /\ Len(jobs) \in Nat
        /\ DOMAIN jobs = 1..Len(jobs)
    BY <2>3
  <2>5. \A i \in DOMAIN p : \E k \in DOMAIN jobs : p[i] = jobs[k] /\ p[i] # j
    BY <2>1, <2>3, <2>4 DEF Distinct
  <2>6. Distinct(p)
    BY <2>1, <2>3, <2>4 DEF Distinct
  <2> QED  BY <2>2, <2>3, <2>5, <2>6
<1> QED  BY <1>1, <1>2

\* There is a number for one more timer.
LEMMA FreeNumber ==
  ASSUME timers \subseteq Timers, IsFiniteSet(timers), Cardinality(timers) < MaxTasks
  PROVE  \E i \in TimerIds : \A tm \in timers : tm.id # i
<1> DEFINE f == [tm \in timers |-> tm.id]
<1> SUFFICES ASSUME \A i \in TimerIds : \E tm \in timers : tm.id = i  PROVE FALSE
  OBVIOUS
<1>1. f \in Surjection(timers, TimerIds)
  BY DEF Surjection, Timers, TimerIds
<1>2. Cardinality(TimerIds) = MaxTasks
  BY FS_Interval, QueueAssumption DEF TimerIds
<1>3. Cardinality(TimerIds) <= Cardinality(timers)
  BY <1>1, FS_Surjection
<1>4. Cardinality(timers) \in Nat
  BY FS_CardinalityType
<1> QED  BY <1>2, <1>3, <1>4, QueueAssumption

LEMMA FirstTaken ==
  ASSUME NEW S, NEW q \in Seq(S), q # << >>
  PROVE  /\ Tail(q) \in Seq(S) /\ Len(Tail(q)) = Len(q) - 1
         /\ 1 \in DOMAIN q /\ Head(q) = q[1] /\ Head(q) \in S
         /\ \A i \in DOMAIN Tail(q) : i + 1 \in DOMAIN q /\ i + 1 # 1 /\ Tail(q)[i] = q[i + 1]
         /\ \A i \in DOMAIN q : i # 1 => i - 1 \in DOMAIN Tail(q) /\ Tail(q)[i - 1] = q[i]
OBVIOUS

\* What the tasks behind the first one bring is not in a queue whose jobs were
\* there before or are those of the first.
LEMMA BehindBringing ==
  ASSUME NEW q \in Seq(Tasks), q # << >>, NEW s, NEW r, NEW n, Bringing(q, s, n),
         \A k \in DOMAIN r : \/ \E m \in DOMAIN s : r[k] = s[m]
                             \/ Brings(Head(q)) /\ r[k] = Head(q).arg
  PROVE  Bringing(Tail(q), r, n)
<1>1. /\ 1 \in DOMAIN q /\ Head(q) = q[1]
      /\ \A i \in DOMAIN Tail(q) : i + 1 \in DOMAIN q /\ i + 1 # 1 /\ Tail(q)[i] = q[i + 1]
  BY FirstTaken
<1>2. ASSUME NEW i \in DOMAIN Tail(q), Brings(Tail(q)[i])
      PROVE  /\ Tail(q)[i].arg \in 1..n /\ starts[Tail(q)[i].arg] = 0
             /\ \A k \in DOMAIN r : r[k] # Tail(q)[i].arg
  BY <1>1, <1>2 DEF Bringing
<1>3. ASSUME NEW i \in DOMAIN Tail(q), NEW k \in DOMAIN Tail(q), Brings(Tail(q)[i]),
             Brings(Tail(q)[k]), Tail(q)[i].arg = Tail(q)[k].arg
      PROVE  i = k
  <2>1. i + 1 = k + 1
    BY <1>1, <1>3 DEF Bringing
  <2>2. i \in Nat /\ k \in Nat
    BY FirstTaken
  <2> QED  BY <2>1, <2>2
<1> QED  BY <1>2, <1>3 DEF Bringing

\* A request that changes the queue leaves jobs that are there once, not started,
\* and not those that other requests bring.
LEMMA EditedFacts ==
  ASSUME NEW n \in 0..MaxJobs, jobs \in Seq(Jobs), Queued(jobs, n), NEW q \in Seq(Tasks),
         q # << >>, Bringing(q, jobs, n), starts \in [Jobs -> Nat],
         Head(q).kind \in {"add", "reset", "delete", "clear", "jump"}
  PROVE  /\ Edited(Head(q)) \in Seq(Jobs) /\ Queued(Edited(Head(q)), n)
         /\ Bringing(Tail(q), Edited(Head(q)), n)
<1> DEFINE t == Head(q)
<1>1. 1 \in DOMAIN q /\ t = q[1] /\ t \in Tasks
  BY FirstTaken
<1>2. Brings(t) => /\ t.arg \in Jobs /\ t.arg \in 1..n /\ starts[t.arg] = 0
                   /\ \A k \in DOMAIN jobs : jobs[k] # t.arg
  BY <1>1, QueueAssumption DEF Bringing, Jobs
<1>p. /\ Popped(t.arg) \in Seq(Jobs) /\ Queued(Popped(t.arg), n)
      /\ \A i \in DOMAIN Popped(t.arg) : /\ Popped(t.arg)[i] # t.arg
                                         /\ \E k \in DOMAIN jobs : Popped(t.arg)[i] = jobs[k]
  <2>1. Distinct(jobs)
    BY DEF Queued
  <2> QED  BY <2>1, PoppedFacts DEF Queued
<1> HIDE DEF t
<1> DEFINE From(e) == \A k \in DOMAIN e : \/ \E m \in DOMAIN jobs : e[k] = jobs[m]
                                          \/ Brings(t) /\ e[k] = t.arg
<1>3. /\ Edited(t) \in Seq(Jobs) /\ Queued(Edited(t), n)
      /\ From(Edited(t))
  <2>1. CASE t.kind = "add"
    <3>1. Edited(t) = Append(jobs, t.arg) /\ Brings(t)
      BY <2>1 DEF Edited, Brings
    <3>2. /\ Edited(t) \in Seq(Jobs) /\ Len(jobs) \in Nat
          /\ DOMAIN Edited(t) = 1..Len(jobs) + 1 /\ DOMAIN jobs = 1..Len(jobs)
          /\ \A i \in 1..Len(jobs) + 1 :
                Edited(t)[i] = IF i = Len(jobs) + 1 THEN t.arg ELSE jobs[i]
          /\ \A i \in 1..Len(jobs) + 1 : i = Len(jobs) + 1 \/ i \in 1..Len(jobs)
      BY <1>2, <3>1
    <3>3. Queued(Edited(t), n)
      BY <1>2, <3>1, <3>2 DEF Queued, Distinct
    <3>4. From(Edited(t))
      BY <3>1, <3>2
    <3> QED  BY <3>2, <3>3, <3>4
  <2>2. CASE t.kind = "reset"
    <3>1. Edited(t) = <<t.arg>> /\ Brings(t)
      BY <2>2 DEF Edited, Brings
    <3>2. Edited(t) \in Seq(Jobs) /\ DOMAIN Edited(t) = {1} /\ Edited(t)[1] = t.arg
      BY <1>2, <3>1
    <3>3. Queued(Edited(t), n)
      BY <1>2, <3>1, <3>2 DEF Queued, Distinct
    <3>4. From(Edited(t))
      BY <3>1, <3>2
    <3> QED  BY <3>2, <3>3, <3>4
  <2>3. CASE t.kind = "delete"
    <3>1. Edited(t) = Popped(t.arg)
      BY <2>3 DEF Edited
    <3> QED  BY <1>p, <3>1
  <2>4. CASE t.kind = "clear"
    <3>1. Edited(t) = << >>
      BY <2>4 DEF Edited
    <3> QED  BY <3>1 DEF Queued, Distinct
  <2>5. CASE t.kind = "jump" /\ ~Contains(jobs, t.arg)
    <3>1. Edited(t) = jobs
      BY <2>5 DEF Edited
    <3>2. From(jobs)
      OBVIOUS
    <3> HIDE DEF From
    <3> QED  BY <3>1, <3>2
  <2>6. CASE t.kind = "jump" /\ Contains(jobs, t.arg)
    <3> DEFINE p == Popped(t.arg)
    <3>1. Edited(t) = <<t.arg>> \o p
      BY <2>6 DEF Edited
    <3>2. PICK m \in DOMAIN jobs : t.arg = jobs[m]
      BY <2>6 DEF Contains
    <3>3. p \in Seq(Jobs) /\ t.arg \in Jobs /\ t.arg \in 1..n /\ starts[t.arg] = 0
      BY <1>p, <3>2 DEF Queued
    <3> HIDE DEF p
    <3>4. /\ Edited(t) \in Seq(Jobs) /\ Len(p) \in Nat
          /\ DOMAIN Edited(t) = 1..Len(p) + 1 /\ DOMAIN p = 1..Len(p)
          /\ \A i \in 1..Len(p) + 1 : Edited(t)[i] = IF i = 1 THEN t.arg ELSE p[i - 1]
      BY <3>1, <3>3
    <3>5. \A i \in DOMAIN Edited(t) : i # 1 => /\ i - 1 \in DOMAIN p
                                              /\ Edited(t)[i] = p[i - 1]
      <4>1. \A i \in 1..Len(p) + 1 : i # 1 => i - 1 \in 1..Len(p)
        BY <3>4
      <4> QED  BY <3>4, <4>1
    <3>6. Queued(Edited(t), n)
      <4>1. /\ \A i \in DOMAIN p : p[i] # t.arg /\ p[i] \in 1..n /\ starts[p[i]] = 0
            /\ \A i, k \in DOMAIN p : p[i] = p[k] => i = k
        BY <1>p DEF p, Queued, Distinct
      <4>2. \A i \in DOMAIN Edited(t) : Edited(t)[i] \in 1..n /\ starts[Edited(t)[i]] = 0
        <5> TAKE i \in DOMAIN Edited(t)
        <5>1. CASE i = 1
          BY <3>3, <3>4, <5>1
        <5>2. CASE i # 1
          <6>1. i - 1 \in DOMAIN p /\ Edited(t)[i] = p[i - 1]
            BY <3>5, <5>2
          <6> QED  BY <4>1, <6>1
        <5> QED  BY <5>1, <5>2
      <4>3. ASSUME NEW i \in DOMAIN Edited(t), NEW k \in DOMAIN Edited(t),
                   Edited(t)[i] = Edited(t)[k]
            PROVE  i = k
        <5>1. i \in Nat /\ k \in Nat
          BY <3>4
        <5>2. CASE i = 1 /\ k = 1
          BY <5>2
        <5>3. CASE i = 1 /\ k # 1
          <6>1. k - 1 \in DOMAIN p /\ p[k - 1] = t.arg
            BY <3>4, <3>5, <4>3, <5>3
          <6> QED  BY <4>1, <6>1
        <5>4. CASE i # 1 /\ k = 1
          <6>1. i - 1 \in DOMAIN p /\ p[i - 1] = t.arg
            BY <3>4, <3>5, <4>3, <5>4
          <6> QED  BY <4>1, <6>1
        <5>5. CASE i # 1 /\ k # 1
          <6>1. p[i - 1] = p[k - 1] /\ i - 1 \in DOMAIN p /\ k - 1 \in DOMAIN p
            BY <3>4, <3>5, <4>3, <5>5
          <6>2. i - 1 = k - 1
            BY <4>1, <6>1
          <6> QED  BY <5>1, <6>2
        <5> QED  BY <5>2, <5>3, <5>4, <5>5
      <4> QED  BY <4>2, <4>3 DEF Queued, Distinct
    <3>7. From(Edited(t))
      <4> TAKE k \in DOMAIN Edited(t)
      <4>1. CASE k = 1
        BY <3>2, <3>4, <4>1
      <4>2. CASE k # 1
        <5>1. k - 1 \in DOMAIN p /\ Edited(t)[k] = p[k - 1]
          BY <3>5, <4>2
        <5>2. \E m2 \in DOMAIN jobs : p[k - 1] = jobs[m2]
          BY <1>p, <5>1 DEF p
        <5> QED  BY <5>1, <5>2
      <4> QED  BY <4>1, <4>2
    <3> QED  BY <3>4, <3>6, <3>7
  <2> QED  BY <2>1, <2>2, <2>3, <2>4, <2>5, <2>6 DEF t
<1> QED  BY <1>3, BehindBringing DEF t

\* A call of _pop_job is scheduled: there is room for it, and a number.
LEMMA LoadFacts ==
  ASSUME NEW nt \in BOOLEAN, NEW q, Len(q) \in Nat, timers \subseteq Timers,
         IsFiniteSet(timers), Len(q) + 1 + Cardinality(timers) <= MaxTasks, Load(nt)
  PROVE  /\ timers' \subseteq Timers /\ Fits(q, timers') /\ timers' # {}
         /\ handle' \in TimerIds /\ \E tm \in timers' : tm.id = handle'
         /\ qstate' = "loading"
<1>1. Cardinality(timers) \in Nat
  BY FS_CardinalityType
<1>2. handle' \in TimerIds /\ \A tm \in timers : tm.id # handle'
  <2>1. \E i \in TimerIds : \A tm \in timers : tm.id # i
    BY <1>1, FreeNumber, QueueAssumption
  <2> QED  BY <2>1 DEF Load
<1> DEFINE new == [id |-> handle', transition |-> nt, due |-> FALSE]
<1>3. timers' = timers \cup {new} /\ new \in Timers /\ new.id = handle'
  BY <1>2 DEF Load, Timers
<1> HIDE DEF new
<1>4. IsFiniteSet(timers') /\ Cardinality(timers') <= Cardinality(timers) + 1
      /\ Cardinality(timers') \in Nat
  <2>1. /\ IsFiniteSet(timers \cup {new})
        /\ Cardinality(timers \cup {new}) =
              IF new \in timers THEN Cardinality(timers) ELSE Cardinality(timers) + 1
    BY FS_AddElement, Zenon
  <2> QED  BY <1>1, <1>3, <2>1
<1>5. Fits(q, timers')
  BY <1>1, <1>4, QueueAssumption DEF Fits
<1> QED  BY <1>2, <1>3, <1>5 DEF Load

-----------------------------------------------------------------------------
(* The invariant holds at first and is preserved.                          *)

\* At first there is nothing to load.
LEMMA QueueInitInv == Init => QueueInv
<1> SUFFICES ASSUME Init  PROVE QueueInv
  OBVIOUS
<1> USE QueueAssumption DEF Init
<1>1. QueueTypes
  <2>1. starts \in [Jobs -> Nat] /\ jobs \in Seq(Jobs) /\ tasks \in Seq(Tasks)
    OBVIOUS
  <2>2. added \in 0..MaxJobs /\ timers \subseteq Timers
    OBVIOUS
  <2> QED  BY <2>1, <2>2 DEF QueueTypes
<1>2. Fits(tasks, timers)
  BY FS_EmptySet DEF Fits
<1>3. LockKept /\ LoadingArmed
  BY DEF LockKept, LoadingArmed
<1>4. Queued(jobs, added) /\ Bringing(tasks, jobs, added) /\ Once
  BY DEF Queued, Distinct, Bringing, Once, Jobs
<1> QED  BY <1>1, <1>2, <1>3, <1>4 DEF QueueInv

\* The parts of the invariant that only say what the variables may be, after a
\* step that leaves the printer alone.
LEMMA TypesKept ==
  ASSUME QueueTypes, NEW q \in Seq(Tasks), tasks' = q, jobs' \in Seq(Jobs),
         added' \in 0..MaxJobs, qstate' \in {"ready", "paused", "loading", "starting"},
         \/ UNCHANGED <<timers, handle>>
         \/ /\ timers' \subseteq Timers /\ handle' \in TimerIds
            /\ \E tm \in timers' : tm.id = handle',
         at' \in {"begin", "check", "transition", "start"}, starts' = starts,
         printer' \in {"standby", "printing", "paused", "complete", "aborted"},
         seen' \in {"standby", "printing", "paused", "complete", "aborted"},
         held' \in BOOLEAN
  PROVE  QueueTypes'
<1>1. /\ timers' \subseteq Timers /\ handle' \in TimerIds \cup {0}
      /\ handle' # 0 => \E tm \in timers' : tm.id = handle'
  BY DEF QueueTypes
<1> QED  BY <1>1 DEF QueueTypes

\* What a task does when it gets the lock, for the tasks q of which it is the
\* first: the tasks at the lock, or the one that has just come.
LEMMA PerformInv ==
  ASSUME QueueTypes, Once', NEW n \in 0..MaxJobs, added' = n,
         NEW q \in Seq(Tasks), q # << >>, Fits(q, timers),
         Queued(jobs, n), Bringing(q, jobs, n),
         qstate = "loading" => timers # {} \/ HasPop(q),
         Perform(Head(q), Tail(q)), Head(q).kind = "pop" => NoLoad,
         starts' = starts,
         printer' \in {"standby", "printing", "paused", "complete", "aborted"},
         seen' \in {"standby", "printing", "paused", "complete", "aborted"},
         held' \in BOOLEAN
  PROVE  QueueInv'
<1> DEFINE t == Head(q)  rest == Tail(q)
<1>1. /\ 1 \in DOMAIN q /\ t = q[1] /\ t \in Tasks /\ rest \in Seq(Tasks)
      /\ Len(rest) = Len(q) - 1 /\ Len(q) \in Nat /\ Len(rest) \in Nat /\ q = <<t>> \o rest
      /\ \A i \in DOMAIN q : i # 1 => i - 1 \in DOMAIN rest /\ rest[i - 1] = q[i]
  BY FirstTaken
<1>2. IsFiniteSet(timers) /\ Cardinality(timers) \in Nat
      /\ Len(q) + Cardinality(timers) <= MaxTasks /\ MaxTasks \in Nat
  BY FS_CardinalityType, QueueAssumption DEF Fits
<1>3. Fits(rest, timers)
  BY <1>1, <1>2 DEF Fits
<1>4. HasPop(q) => t.kind = "pop" \/ HasPop(rest)
  BY <1>1 DEF HasPop
<1>5. Bringing(rest, jobs, n)
  BY BehindBringing
<1>6. Perform(t, rest) /\ (t.kind = "pop" => NoLoad)
  OBVIOUS
<1>7. /\ jobs \in Seq(Jobs) /\ qstate \in {"ready", "paused", "loading", "starting"}
      /\ timers \subseteq Timers /\ starts \in [Jobs -> Nat]
      /\ Idle \in {"ready", "paused"}
  BY DEF QueueTypes, Idle
<1>8. ASSUME tasks' = rest, at' = "begin", jobs' \in Seq(Jobs), Fits(rest, timers'),
             qstate' \in {"ready", "paused", "loading", "starting"},
             \/ UNCHANGED <<timers, handle>>
             \/ /\ timers' \subseteq Timers /\ handle' \in TimerIds
                /\ \E tm \in timers' : tm.id = handle',
             Queued(jobs', n), Bringing(rest, jobs', n),
             qstate' = "loading" => timers' # {} \/ HasPop(rest)
      PROVE  QueueInv'
  <2>1. QueueTypes'
    BY <1>1, <1>8, TypesKept
  <2>2. Fits(tasks, timers)' /\ LockKept'
    BY <1>8 DEF Fits, LockKept
  <2>3. LoadingArmed'
    BY <1>8 DEF LoadingArmed, HasPop
  <2>4. Queued(jobs, added)' /\ Bringing(tasks, jobs, added)'
    BY <1>8 DEF Queued, Distinct, Bringing
  <2> QED  BY <2>1, <2>2, <2>3, <2>4 DEF QueueInv
<1>9. ASSUME Await(t, rest, "check"), UNCHANGED <<jobs, qstate, timers, handle>>,
             jobs # << >>, t.kind \in {"start", "pop"}
      PROVE  QueueInv'
  <2>0. tasks' = q /\ at' = "check"
    BY <1>1, <1>9 DEF Await
  <2>1. QueueTypes'
    BY <1>7, <1>9, <2>0, TypesKept
  <2>2. Fits(tasks, timers)' /\ LockKept'
    BY <1>9, <2>0 DEF Fits, LockKept
  <2>3. LoadingArmed'
    BY <1>9, <2>0 DEF LoadingArmed, HasPop
  <2>4. Queued(jobs, added)' /\ Bringing(tasks, jobs, added)'
    BY <1>9, <2>0 DEF Queued, Distinct, Bringing
  <2> QED  BY <2>1, <2>2, <2>3, <2>4 DEF QueueInv
<1>10. CASE Edit(t, rest)
  <2>1. /\ jobs' = Edited(t) /\ tasks' = rest /\ at' = "begin" /\ t.kind # "pop"
        /\ UNCHANGED <<timers, handle, qstate>>
        /\ t.kind \in {"add", "reset", "delete", "clear", "jump"}
    BY <1>10 DEF Edit, Finish, NoLoad
  <2>2. jobs' \in Seq(Jobs) /\ Queued(jobs', n) /\ Bringing(rest, jobs', n)
    BY <1>7, <2>1, EditedFacts
  <2> HIDE DEF t, rest
  <2> QED  BY <1>3, <1>4, <1>7, <1>8, <2>1, <2>2
<1> HIDE DEF t, rest
<1>11. CASE Continue(t, rest)
  <2>1. jobs' = jobs /\ tasks' = rest /\ at' = "begin" /\ t.kind # "pop"
    BY <1>11 DEF Continue, Finish
  <2>2. CASE Load(t.kind = "complete")
    <3>1. /\ timers' \subseteq Timers /\ Fits(rest, timers') /\ timers' # {}
          /\ handle' \in TimerIds /\ \E tm \in timers' : tm.id = handle'
          /\ qstate' = "loading"
      <4>1. Len(rest) + 1 + Cardinality(timers) <= MaxTasks
        BY <1>1, <1>2
      <4>2. (t.kind = "complete") \in BOOLEAN
        OBVIOUS
      <4> QED  BY <1>1, <1>2, <1>7, <2>2, <4>1, <4>2, LoadFacts
    <3> QED  BY <1>5, <1>7, <1>8, <2>1, <3>1
  <2>3. CASE UNCHANGED <<timers, handle, qstate>>
    BY <1>3, <1>4, <1>5, <1>7, <1>8, <2>1, <2>3
  <2> QED  BY <1>11, <2>2, <2>3 DEF Continue, NoLoad
<1>12. CASE Stop(t, rest)
  <2>1. /\ jobs' = jobs /\ tasks' = rest /\ at' = "begin" /\ t.kind # "pop"
        /\ UNCHANGED <<timers, handle>> /\ qstate' \in {qstate, "paused", "ready"}
    BY <1>12 DEF Stop, Finish, NoLoad
  <2> QED  BY <1>3, <1>4, <1>5, <1>7, <1>8, <2>1
<1>13. CASE Start(t, rest)
  <2>1. UNCHANGED <<jobs, timers, handle>> /\ t.kind = "start"
    BY <1>13 DEF Start, NoLoad
  <2>2. CASE qstate # "loading" /\ jobs # << >>
    BY <1>9, <1>13, <2>1, <2>2 DEF Start
  <2>3. CASE ~(qstate # "loading" /\ jobs # << >>)
    <3>1. tasks' = rest /\ at' = "begin" /\ qstate' \in {qstate, "ready", "paused"}
      BY <1>7, <1>13, <2>3 DEF Start, Finish
    <3> QED  BY <1>3, <1>4, <1>5, <1>7, <1>8, <2>1, <3>1
  <2> QED  BY <2>2, <2>3
<1>14. CASE Pop(t, rest)
  <2>1. UNCHANGED <<jobs, timers, handle>> /\ t.kind = "pop"
    BY <1>6, <1>14 DEF Pop, NoLoad
  <2>2. CASE qstate # "paused" /\ jobs # << >>
    BY <1>9, <1>14, <2>1, <2>2 DEF Pop
  <2>3. CASE ~(qstate # "paused" /\ jobs # << >>)
    <3>1. tasks' = rest /\ at' = "begin" /\ qstate' \in {"ready", "paused"}
      BY <1>7, <1>14, <2>3 DEF Pop, Finish
    <3> QED  BY <1>3, <1>5, <1>7, <1>8, <2>1, <3>1
  <2> QED  BY <2>2, <2>3
<1> QED  BY <1>6, <1>10, <1>11, <1>12, <1>13, <1>14 DEF Perform

\* One more task waits for the lock; when it brings a job, that is the newest.
LEMMA AppendBringing ==
  ASSUME QueueTypes, Queued(jobs, added), Bringing(tasks, jobs, added), Once,
         NEW n \in 0..MaxJobs, n >= added, NEW t \in Tasks,
         Brings(t) => n = added + 1 /\ t.arg = n
  PROVE  /\ Append(tasks, t) \in Seq(Tasks) /\ Len(Append(tasks, t)) = Len(tasks) + 1
         /\ Len(tasks) \in Nat
         /\ Bringing(Append(tasks, t), jobs, n) /\ Queued(jobs, n)
         /\ HasPop(tasks) => HasPop(Append(tasks, t))
         /\ t.kind = "pop" => HasPop(Append(tasks, t))
         /\ tasks # << >> => Head(Append(tasks, t)) = Head(tasks)
<1> DEFINE q == Append(tasks, t)
<1>1. /\ q \in Seq(Tasks) /\ Len(q) = Len(tasks) + 1 /\ Len(tasks) \in Nat
      /\ DOMAIN q = 1..Len(tasks) + 1 /\ DOMAIN tasks = 1..Len(tasks)
      /\ \A i \in DOMAIN tasks : i \in DOMAIN q /\ q[i] = tasks[i]
      /\ q[Len(tasks) + 1] = t /\ Len(tasks) + 1 \in DOMAIN q
      /\ \A i \in DOMAIN q : i = Len(tasks) + 1 \/ i \in DOMAIN tasks
      /\ tasks # << >> => Head(q) = Head(tasks)
  BY DEF QueueTypes
<1> HIDE DEF q
<1>2. added \in Nat /\ n \in Nat /\ 1..added \subseteq 1..n /\ jobs \in Seq(Jobs)
  BY QueueAssumption DEF QueueTypes
<1>3. Brings(t) => /\ t.arg \in 1..n /\ t.arg \notin 1..added /\ starts[t.arg] = 0
  BY <1>2, QueueAssumption DEF Once, Jobs
<1>4. \A k \in DOMAIN jobs : jobs[k] \in 1..added
  BY DEF Queued
<1>5. \A i \in DOMAIN tasks : Brings(tasks[i]) => tasks[i].arg \in 1..added
  BY DEF Bringing
<1>6. Queued(jobs, n)
  BY <1>2 DEF Queued
<1>7. ASSUME NEW i \in DOMAIN q, Brings(q[i])
      PROVE  /\ q[i].arg \in 1..n /\ starts[q[i].arg] = 0
             /\ \A k \in DOMAIN jobs : jobs[k] # q[i].arg
  <2>1. CASE i = Len(tasks) + 1
    BY <1>1, <1>3, <1>4, <1>7, <2>1
  <2>2. CASE i \in DOMAIN tasks
    BY <1>1, <1>2, <1>7, <2>2 DEF Bringing
  <2> QED  BY <1>1, <2>1, <2>2
<1>8. ASSUME NEW i \in DOMAIN q, NEW k \in DOMAIN q, Brings(q[i]), Brings(q[k]),
             q[i].arg = q[k].arg
      PROVE  i = k
  <2>1. CASE i \in DOMAIN tasks /\ k \in DOMAIN tasks
    BY <1>1, <1>8, <2>1 DEF Bringing
  <2>2. CASE i \in DOMAIN tasks /\ k = Len(tasks) + 1
    BY <1>1, <1>3, <1>5, <1>8, <2>2
  <2>3. CASE k \in DOMAIN tasks /\ i = Len(tasks) + 1
    BY <1>1, <1>3, <1>5, <1>8, <2>3
  <2> QED  BY <1>1, <2>1, <2>2, <2>3
<1>9. Bringing(q, jobs, n)
  BY <1>7, <1>8 DEF Bringing
<1>10. (HasPop(tasks) \/ t.kind = "pop") => HasPop(q)
  BY <1>1 DEF HasPop
<1> QED  BY <1>1, <1>6, <1>9, <1>10 DEF q

\* A task arrives that is not a call of _pop_job.
LEMMA ArriveInv ==
  ASSUME QueueInv, NEW n \in 0..MaxJobs, n >= added, added' = n, NEW t \in Tasks,
         t.kind # "pop", Brings(t) => n = added + 1 /\ t.arg = n, Arrive(t),
         starts' = starts,
         printer' \in {"standby", "printing", "paused", "complete", "aborted"},
         seen' \in {"standby", "printing", "paused", "complete", "aborted"},
         held' \in BOOLEAN
  PROVE  QueueInv'
<1> USE DEF QueueInv
<1>1. /\ Bringing(Append(tasks, t), jobs, n) /\ Queued(jobs, n)
      /\ Append(tasks, t) \in Seq(Tasks) /\ Len(Append(tasks, t)) = Len(tasks) + 1
      /\ HasPop(tasks) => HasPop(Append(tasks, t)) /\ Len(tasks) \in Nat
      /\ tasks # << >> => Head(Append(tasks, t)) = Head(tasks)
  BY AppendBringing
<1>2. Fits(Append(tasks, t), timers)
  <2>1. Cardinality(timers) \in Nat /\ MaxTasks \in Nat
    BY FS_CardinalityType, QueueAssumption DEF Fits
  <2> QED  BY <1>1, <2>1 DEF Fits, Arrive, Room
<1>3. Once'
  BY QueueAssumption DEF Once, QueueTypes, Jobs
<1>4. qstate = "loading" => timers # {} \/ HasPop(tasks)
  BY DEF LoadingArmed, HasPop
<1>5. CASE tasks = << >>
  <2> DEFINE q == Append(tasks, t)
  <2>1. /\ q # << >> /\ Head(q) = t /\ Tail(q) = << >>
    BY <1>5
  <2>2. Perform(t, << >>)
    BY <1>5 DEF Arrive
  <2> HIDE DEF q
  <2>3. q \in Seq(Tasks) /\ Fits(q, timers) /\ Bringing(q, jobs, n) /\ (HasPop(tasks) => HasPop(q))
    BY <1>1, <1>2 DEF q
  <2> QED  BY <1>1, <1>3, <1>4, <2>1, <2>2, <2>3, PerformInv
<1>6. CASE tasks # << >>
  <2>1. /\ tasks' = Append(tasks, t)
        /\ UNCHANGED <<jobs, qstate, at, timers, handle>>
    BY <1>6 DEF Arrive, Wait, NoLoad
  <2>2. QueueTypes'
    BY <1>1, <2>1, TypesKept DEF QueueTypes
  <2>3. Fits(tasks, timers)' /\ LockKept'
    BY <1>1, <1>2, <1>6, <2>1 DEF Fits, LockKept, QueueTypes
  <2>4. LoadingArmed'
    BY <1>1, <1>4, <2>1 DEF LoadingArmed, HasPop
  <2>5. Queued(jobs, added)' /\ Bringing(tasks, jobs, added)'
    BY <1>1, <2>1 DEF Queued, Distinct, Bringing
  <2> QED  BY <1>3, <2>2, <2>3, <2>4, <2>5
<1> QED  BY <1>5, <1>6

\* The task with the lock gives it up, and the queue does not load or has a
\* call of _pop_job scheduled.
LEMMA ReleaseInv ==
  ASSUME QueueInv, tasks # << >>, tasks' = Tail(tasks), at' = "begin",
         UNCHANGED <<jobs, added, starts, held, printer, seen>>,
         \/ /\ qstate' \in {"ready", "paused"} /\ UNCHANGED <<timers, handle>>
         \/ Load(FALSE)
  PROVE  QueueInv'
<1> USE DEF QueueInv
<1>1. /\ Tail(tasks) \in Seq(Tasks) /\ Len(Tail(tasks)) = Len(tasks) - 1 /\ Len(tasks) \in Nat
  BY FirstTaken DEF QueueTypes
<1>2. Cardinality(timers) \in Nat /\ MaxTasks \in Nat
  BY FS_CardinalityType, QueueAssumption DEF Fits
<1>3. Bringing(Tail(tasks), jobs, added)
  BY BehindBringing DEF QueueTypes
<1>4. /\ Fits(Tail(tasks), timers') /\ qstate' \in {"ready", "paused", "loading"}
      /\ \/ UNCHANGED <<timers, handle>>
         \/ /\ timers' \subseteq Timers /\ handle' \in TimerIds
            /\ \E tm \in timers' : tm.id = handle'
      /\ qstate' = "loading" => timers' # {}
  <2>1. CASE qstate' \in {"ready", "paused"} /\ UNCHANGED <<timers, handle>>
    BY <1>1, <1>2, <2>1 DEF Fits
  <2>2. CASE Load(FALSE)
    <3>1. Len(Tail(tasks)) + 1 + Cardinality(timers) <= MaxTasks /\ Len(Tail(tasks)) \in Nat
      BY <1>1, <1>2 DEF Fits
    <3>2. timers \subseteq Timers /\ IsFiniteSet(timers)
      BY DEF QueueTypes, Fits
    <3> QED  BY <2>2, <3>1, <3>2, LoadFacts
  <2> QED  BY <2>1, <2>2
<1>5. QueueTypes'
  BY <1>1, <1>4, TypesKept DEF QueueTypes
<1>6. Fits(tasks, timers)' /\ LockKept' /\ LoadingArmed'
  BY <1>4 DEF Fits, LockKept, LoadingArmed
<1>7. Queued(jobs, added)' /\ Bringing(tasks, jobs, added)' /\ Once'
  BY <1>3 DEF Queued, Distinct, Bringing, Once
<1> QED  BY <1>5, <1>6, <1>7

\* The next task gets the lock.
LEMMA RunInv ==
  ASSUME QueueInv, Run
  PROVE  QueueInv'
<1> USE DEF QueueInv
<1>1. /\ tasks # << >> /\ tasks \in Seq(Tasks) /\ Perform(Head(tasks), Tail(tasks))
      /\ added' = added /\ added \in 0..MaxJobs /\ UNCHANGED <<starts, printer, seen>>
      /\ held' \in BOOLEAN
  BY DEF Run, PrinterSame, QueueTypes
<1>2. Head(tasks).kind = "pop" => NoLoad
  BY <1>1 DEF Perform, Edit, Continue, Stop, Start
<1>3. Once'
  BY <1>1 DEF Once
<1>4. qstate = "loading" => timers # {} \/ HasPop(tasks)
  BY DEF LoadingArmed, HasPop
<1> QED  BY <1>1, <1>2, <1>3, <1>4, PerformInv DEF QueueTypes

\* What happens to a task that waits for Klipper with the lock, until the print
\* has started.
LEMMA CheckedInv ==
  ASSUME QueueInv, StartChecked \/ PopChecked \/ TransitionDone \/ StartFails
  PROVE  QueueInv'
<1> USE DEF QueueInv
<1>0. UNCHANGED <<jobs, added, starts, held, printer, seen>> /\ tasks # << >> /\ at # "begin"
  BY DEF StartChecked, PopChecked, TransitionDone, StartFails, PrinterSame, Waits
<1>1. ASSUME tasks' = Tail(tasks), at' = "begin",
             \/ qstate' \in {"ready", "paused"} /\ UNCHANGED <<timers, handle>>
             \/ Load(FALSE)
      PROVE  QueueInv'
  BY <1>0, <1>1, ReleaseInv
<1>2. ASSUME Head(tasks).kind = "pop", UNCHANGED <<tasks, timers, handle>>,
             \/ at' = "transition" /\ qstate' = qstate
             \/ at' = "start" /\ qstate' = "starting"
      PROVE  QueueInv'
  <2>1. QueueTypes'
    BY <1>0, <1>2, TypesKept DEF QueueTypes
  <2>2. Fits(tasks, timers)' /\ LockKept' /\ LoadingArmed'
    BY <1>0, <1>2 DEF Fits, LockKept, LoadingArmed
  <2>3. Queued(jobs, added)' /\ Bringing(tasks, jobs, added)' /\ Once'
    BY <1>0, <1>2 DEF Queued, Distinct, Bringing, Once
  <2> QED  BY <2>1, <2>2, <2>3
<1>3. CASE StartChecked
  BY <1>1, <1>3 DEF StartChecked, Finish, NoLoad, Idle
<1>4. CASE PopChecked
  <2>1. Head(tasks).kind = "pop" /\ UNCHANGED <<timers, handle>>
    BY <1>4 DEF PopChecked, Waits, NoLoad
  <2>2. CASE /\ UNCHANGED tasks
             /\ IF Transition /\ Head(tasks).arg = 1
                THEN at' = "transition" /\ UNCHANGED qstate
                ELSE at' = "start" /\ qstate' = "starting"
    <3>1. CASE at' = "transition" /\ qstate' = qstate
      BY <1>2, <2>1, <2>2, <3>1
    <3>2. CASE at' = "start" /\ qstate' = "starting"
      BY <1>2, <2>1, <2>2, <3>2
    <3> QED  BY <2>2, <3>1, <3>2
  <2>3. CASE qstate' = Refused /\ Finish(Tail(tasks))
    BY <1>1, <2>1, <2>3 DEF Finish, Refused
  <2> QED  BY <1>4, <2>2, <2>3 DEF PopChecked
<1>5. CASE TransitionDone
  BY <1>1, <1>2, <1>5 DEF TransitionDone, Waits, Finish, NoLoad, Refused
<1>6. CASE StartFails
  BY <1>1, <1>6 DEF StartFails, Finish, NoLoad, Refused
<1> QED  BY <1>3, <1>4, <1>5, <1>6

\* The print has started: its job leaves the queue.
LEMMA StartedInv ==
  ASSUME QueueInv, Started
  PROVE  QueueInv'
<1> USE DEF QueueInv
<1>1. /\ tasks # << >> /\ at = "start" /\ printer' = "printing"
      /\ starts' = [starts EXCEPT ![Head(jobs)] = @ + 1]
      /\ jobs' = Tail(jobs) /\ tasks' = Tail(tasks) /\ at' = "begin"
      /\ qstate' \in {qstate, "ready", "paused"}
      /\ UNCHANGED <<timers, handle, seen, added, held>>
  BY DEF Started, Waits, AfterStart, Finish, NoLoad
<1>2. /\ jobs # << >> /\ qstate # "loading" /\ jobs \in Seq(Jobs) /\ tasks \in Seq(Tasks)
      /\ starts \in [Jobs -> Nat]
  BY <1>1 DEF LockKept, QueueTypes
<1> DEFINE j == Head(jobs)
<1>3. /\ Tail(jobs) \in Seq(Jobs) /\ 1 \in DOMAIN jobs /\ j = jobs[1] /\ j \in Jobs
      /\ \A i \in DOMAIN Tail(jobs) : i + 1 \in DOMAIN jobs /\ i + 1 # 1 /\ Tail(jobs)[i] = jobs[i + 1]
  BY <1>2, FirstTaken
<1>4. /\ Tail(tasks) \in Seq(Tasks) /\ Len(Tail(tasks)) = Len(tasks) - 1 /\ Len(tasks) \in Nat
  BY <1>1, <1>2, FirstTaken
<1> HIDE DEF j
<1>5. starts[j] = 0 /\ j \in 1..added
  BY <1>3 DEF Queued
<1>6. \A x \in Jobs : starts'[x] = IF x = j THEN 1 ELSE starts[x]
  BY <1>1, <1>2, <1>3, <1>5 DEF j
<1>7. QueueTypes'
  <2>1. starts' \in [Jobs -> Nat]
    BY <1>1, <1>2, <1>3 DEF j
  <2>2. jobs' \in Seq(Jobs) /\ tasks' \in Seq(Tasks)
    BY <1>1, <1>3, <1>4
  <2> QED  BY <1>1, <2>1, <2>2 DEF QueueTypes
<1>8. Fits(tasks, timers)'
  <2>1. Cardinality(timers) \in Nat /\ MaxTasks \in Nat
    BY FS_CardinalityType, QueueAssumption DEF Fits
  <2> QED  BY <1>1, <1>4, <2>1 DEF Fits
<1>9. LockKept' /\ LoadingArmed'
  BY <1>1, <1>2 DEF LockKept, LoadingArmed
<1>10. Queued(jobs, added)'
  <2>1. ASSUME NEW i \in DOMAIN Tail(jobs)
        PROVE  Tail(jobs)[i] \in 1..added /\ Tail(jobs)[i] # j /\ starts'[Tail(jobs)[i]] = 0
    <3>1. jobs[i + 1] \in 1..added /\ starts[jobs[i + 1]] = 0 /\ jobs[i + 1] \in Jobs
      BY <1>2, <1>3 DEF Queued
    <3>2. jobs[i + 1] # jobs[1]
      BY <1>3 DEF Queued, Distinct
    <3> QED  BY <1>3, <1>6, <3>1, <3>2
  <2>2. ASSUME NEW i \in DOMAIN Tail(jobs), NEW k \in DOMAIN Tail(jobs),
               Tail(jobs)[i] = Tail(jobs)[k]
        PROVE  i = k
    <3>1. i + 1 = k + 1
      BY <1>3, <2>2 DEF Queued, Distinct
    <3>2. i \in Nat /\ k \in Nat
      BY <1>3
    <3> QED  BY <3>1, <3>2
  <2> QED  BY <1>1, <2>1, <2>2 DEF Queued, Distinct
<1>11. Bringing(tasks, jobs, added)'
  <2>1. \A k \in DOMAIN Tail(jobs) : \E m \in DOMAIN jobs : Tail(jobs)[k] = jobs[m]
    BY <1>3
  <2>2. Bringing(Tail(tasks), Tail(jobs), added)
    BY <1>1, <1>2, <2>1, BehindBringing
  <2>3. Bringing(Tail(tasks), jobs, added)
    BY <1>1, <1>2, BehindBringing
  <2>4. ASSUME NEW i \in DOMAIN Tail(tasks), Brings(Tail(tasks)[i])
        PROVE  starts'[Tail(tasks)[i].arg] = 0
    <3>1. Tail(tasks)[i].arg # j /\ starts[Tail(tasks)[i].arg] = 0
      BY <1>3, <2>3, <2>4 DEF Bringing
    <3>2. Tail(tasks)[i].arg \in 1..added /\ 1..added \subseteq Jobs
      BY <2>3, <2>4, QueueAssumption DEF Bringing, QueueTypes, Jobs
    <3> QED  BY <1>6, <3>1, <3>2
  <2> QED  BY <1>1, <2>2, <2>4 DEF Bringing
<1>12. Once'
  <2>1. ASSUME NEW x \in Jobs  PROVE starts'[x] <= 1 /\ (x > added => starts'[x] = 0)
    <3>1. CASE x = j
      <4>1. ~(x > added)
        BY <1>5, <3>1, QueueAssumption DEF QueueTypes
      <4> QED  BY <1>6, <3>1, <4>1
    <3>2. CASE x # j
      BY <1>6, <3>2 DEF Once
    <3> QED  BY <3>1, <3>2
  <2> QED  BY <1>1, <2>1 DEF Once
<1> QED  BY <1>7, <1>8, <1>9, <1>10, <1>11, <1>12

\* The time of a timer comes, and _pop_job is called.
LEMMA TimerInv ==
  ASSUME QueueInv, NEW tm \in timers, TimerDue(tm) \/ PopCalled(tm)
  PROVE  QueueInv'
<1> USE DEF QueueInv
<1>1. /\ tm \in Timers /\ IsFiniteSet(timers) /\ Cardinality(timers) \in Nat /\ MaxTasks \in Nat
      /\ Len(tasks) \in Nat /\ Len(tasks) + Cardinality(timers) <= MaxTasks
  BY FS_CardinalityType, QueueAssumption DEF QueueTypes, Fits
<1>2. /\ IsFiniteSet(timers \ {tm}) /\ Cardinality(timers \ {tm}) = Cardinality(timers) - 1
  BY <1>1, FS_RemoveElement
<1>3. CASE TimerDue(tm)
  <2> DEFINE new == [tm EXCEPT !.due = TRUE]
  <2>1. /\ timers' = (timers \ {tm}) \cup {new} /\ new \in Timers /\ new.id = tm.id
        /\ UNCHANGED <<printer, seen, added, starts, jobs, qstate, handle, tasks, at, held>>
    BY <1>1, <1>3 DEF TimerDue, PrinterSame, Timers
  <2> HIDE DEF new
  <2>2. IsFiniteSet(timers') /\ Cardinality(timers') <= Cardinality(timers) /\ Cardinality(timers') \in Nat
    <3>1. /\ IsFiniteSet((timers \ {tm}) \cup {new})
          /\ Cardinality((timers \ {tm}) \cup {new}) =
                IF new \in timers \ {tm} THEN Cardinality(timers \ {tm})
                ELSE Cardinality(timers \ {tm}) + 1
      BY <1>2, FS_AddElement, Zenon
    <3>2. /\ Cardinality((timers \ {tm}) \cup {new}) <= Cardinality(timers)
          /\ Cardinality((timers \ {tm}) \cup {new}) \in Nat
      BY <1>1, <1>2, <3>1, FS_CardinalityType
    <3> QED  BY <2>1, <3>1, <3>2
  <2>3. timers' \subseteq Timers /\ (handle' # 0 => \E x \in timers' : x.id = handle')
    BY <2>1 DEF QueueTypes
  <2>4. QueueTypes'
    BY <2>1, <2>3 DEF QueueTypes
  <2>5. Fits(tasks, timers)'
    BY <1>1, <2>1, <2>2 DEF Fits
  <2>6. LockKept' /\ LoadingArmed'
    BY <2>1 DEF LockKept, LoadingArmed
  <2>7. Queued(jobs, added)' /\ Bringing(tasks, jobs, added)' /\ Once'
    BY <2>1 DEF Queued, Distinct, Bringing, Once
  <2> QED  BY <2>4, <2>5, <2>6, <2>7
<1>4. CASE PopCalled(tm)
  <2> DEFINE t == PopTask(tm)  q == Append(tasks, t)
  <2>1. /\ timers' = timers \ {tm} /\ handle' = 0
        /\ UNCHANGED <<printer, seen, added, starts, held>>
    BY <1>4 DEF PopCalled, PrinterSame, Forgotten
  <2>2. t.kind = "pop" /\ ~Brings(t)
    BY DEF PopTask, Task, Brings
  <2>3. t \in Tasks
    BY QueueAssumption DEF PopTask, Task, Tasks, Kinds
  <2> HIDE DEF t
  <2>4. /\ q \in Seq(Tasks) /\ Len(q) = Len(tasks) + 1 /\ HasPop(q)
        /\ Bringing(q, jobs, added) /\ (tasks # << >> => Head(q) = Head(tasks))
        /\ added \in 0..MaxJobs /\ added \in Nat
    BY <2>2, <2>3, AppendBringing, QueueAssumption DEF QueueTypes
  <2>5. Fits(tasks, timers \ {tm}) /\ Fits(q, timers \ {tm})
    BY <1>1, <1>2, <2>4 DEF Fits
  <2>6. tasks = << >> => Head(q) = t /\ q = <<t>>
    OBVIOUS
  <2> HIDE DEF q
  <2>7. CASE /\ tasks' = q /\ UNCHANGED <<jobs, qstate>>
             /\ \/ tasks # << >> /\ at' = at
                \/ tasks = << >> /\ at' = "check" /\ jobs # << >>
    <3>1. QueueTypes'
      BY <1>1, <2>1, <2>4, <2>7 DEF QueueTypes
    <3>2. Fits(tasks, timers)' /\ LoadingArmed'
      BY <2>1, <2>4, <2>5, <2>7 DEF Fits, LoadingArmed, HasPop
    <3>3. q # << >>
      BY <2>4 DEF HasPop
    <3>4. LockKept'
      BY <2>2, <2>4, <2>6, <2>7, <3>3 DEF LockKept
    <3>5. Queued(jobs, added)' /\ Bringing(tasks, jobs, added)' /\ Once'
      BY <2>1, <2>4, <2>7 DEF Queued, Distinct, Bringing, Once
    <3> QED  BY <3>1, <3>2, <3>4, <3>5
  <2>8. CASE /\ tasks = << >> /\ tasks' = << >> /\ at' = "begin" /\ jobs' = jobs
             /\ qstate' \in {"ready", "paused"}
    <3>1. QueueTypes'
      BY <1>1, <2>1, <2>8 DEF QueueTypes
    <3>2. Fits(tasks, timers)' /\ LoadingArmed' /\ LockKept'
      BY <2>1, <2>5, <2>8 DEF Fits, LoadingArmed, LockKept
    <3>3. Queued(jobs, added)' /\ Bringing(tasks, jobs, added)' /\ Once'
      BY <2>1, <2>8 DEF Queued, Distinct, Bringing, Once
    <3> QED  BY <3>1, <3>2, <3>3
  <2>9. CASE tasks = << >>
    <3>1. Pop(t, << >>)
      BY <1>4, <2>9 DEF PopCalled, t
    <3>2. CASE qstate # "paused" /\ jobs # << >>
      <4>1. tasks' = q /\ at' = "check" /\ UNCHANGED <<jobs, qstate>>
        BY <2>6, <2>9, <3>1, <3>2 DEF Pop, Await
      <4> QED  BY <2>7, <2>9, <3>2, <4>1
    <3>3. CASE ~(qstate # "paused" /\ jobs # << >>)
      BY <2>8, <2>9, <3>1, <3>3 DEF Pop, Finish, Idle
    <3> QED  BY <3>2, <3>3
  <2>10. CASE tasks # << >>
    <3>1. tasks' = q /\ UNCHANGED <<jobs, qstate, at>>
      BY <1>4, <2>10 DEF PopCalled, Wait, q, t
    <3> QED  BY <2>7, <2>10, <3>1
  <2> QED  BY <2>9, <2>10
<1> QED  BY <1>3, <1>4

\* pause_queue changes the state before it waits for the lock.
LEMMA PauseQueueInv ==
  ASSUME QueueInv, NEW k \in Requests, PauseQueue(k)
  PROVE  QueueInv'
<1> USE DEF QueueInv
<1> DEFINE t == Task(k, 0)  q == Append(tasks, t)
<1>1. /\ Room /\ timers' = {x \in timers : x.id # handle \/ x.due} /\ handle' = 0
      /\ UNCHANGED <<printer, seen, added, starts, jobs>>
  BY DEF PauseQueue, PrinterSame
<1>2. t \in Tasks /\ t.kind = k /\ k \in {"pause", "shutdown"} /\ ~Brings(t)
  BY QueueAssumption DEF Task, Tasks, Kinds, AllRequests, PauseQueue, Brings
<1> HIDE DEF t
<1>3. /\ q \in Seq(Tasks) /\ Len(q) = Len(tasks) + 1 /\ Len(tasks) \in Nat
      /\ Bringing(q, jobs, added) /\ (tasks # << >> => Head(q) = Head(tasks))
      /\ added \in 0..MaxJobs /\ added \in Nat
  BY <1>2, AppendBringing, QueueAssumption DEF QueueTypes
<1> HIDE DEF q
<1>4. /\ timers' \subseteq timers /\ timers' \subseteq Timers
      /\ IsFiniteSet(timers') /\ Cardinality(timers') <= Cardinality(timers)
      /\ Cardinality(timers') \in Nat /\ Cardinality(timers) \in Nat /\ MaxTasks \in Nat
  <2>1. timers' \in SUBSET timers /\ IsFiniteSet(timers)
    BY <1>1 DEF Fits
  <2> QED  BY <2>1, FS_Subset, FS_CardinalityType, QueueAssumption DEF QueueTypes
<1>5. Fits(tasks, timers') /\ Fits(q, timers')
  BY <1>1, <1>3, <1>4 DEF Fits, Room
<1>6. Queued(jobs, added)' /\ Once'
  BY <1>1 DEF Queued, Distinct, Once
<1>7. CASE tasks = << >>
  <2>1. UNCHANGED <<tasks, at>> /\ qstate' \in {"ready", "paused"} /\ held' \in BOOLEAN
    BY <1>7 DEF PauseQueue, PausedState, QueueTypes
  <2>2. QueueTypes'
    BY <1>1, <1>4, <2>1 DEF QueueTypes
  <2>3. Fits(tasks, timers)' /\ LockKept' /\ LoadingArmed'
    BY <1>1, <1>5, <2>1 DEF Fits, LockKept, LoadingArmed
  <2>4. Bringing(tasks, jobs, added)'
    BY <1>1, <2>1 DEF Bringing
  <2> QED  BY <1>6, <2>2, <2>3, <2>4
<1>8. CASE tasks # << >>
  <2>1. tasks' = q /\ UNCHANGED <<at, held>> /\ qstate' = "paused"
    BY <1>8 DEF PauseQueue, PausedState, q, t
  <2>2. QueueTypes'
    BY <1>1, <1>3, <1>4, <2>1 DEF QueueTypes
  <2>3. Fits(tasks, timers)' /\ LockKept' /\ LoadingArmed'
    <3>1. q # << >>
      BY <1>3
    <3> QED  BY <1>1, <1>3, <1>5, <1>8, <2>1, <3>1 DEF Fits, LockKept, LoadingArmed
  <2>4. Bringing(tasks, jobs, added)'
    BY <1>1, <1>3, <2>1 DEF Bringing
  <2> QED  BY <1>6, <2>2, <2>3, <2>4
<1> QED  BY <1>7, <1>8

\* Requests, Klipper and the printer.
LEMMA RequestInv ==
  ASSUME QueueInv,
         \/ \E k \in Requests : Request(k)
         \/ StartQueue \/ KlippyReady \/ StatusUpdate \/ Printer
  PROVE  QueueInv'
<1> USE DEF QueueInv
<1>0. /\ added \in 0..MaxJobs /\ added \in Nat /\ MaxJobs \in Nat
      /\ printer \in {"standby", "printing", "paused", "complete", "aborted"}
      /\ seen \in {"standby", "printing", "paused", "complete", "aborted"}
      /\ held \in BOOLEAN
  BY QueueAssumption DEF QueueTypes
<1>1. ASSUME UNCHANGED <<jobs, qstate, timers, handle, tasks, at, added, starts, held>>,
             printer' \in {"standby", "printing", "paused", "complete", "aborted"},
             seen' \in {"standby", "printing", "paused", "complete", "aborted"}
      PROVE  QueueInv'
  BY <1>1 DEF QueueTypes, Fits, LockKept, LoadingArmed, Queued, Distinct, Bringing, Once
<1>2. ASSUME NEW k \in Requests, Request(k)  PROVE QueueInv'
  <2>1. /\ k \in {"add", "reset", "delete", "clear", "jump"}
        /\ UNCHANGED <<printer, seen, starts, held>>
    BY <1>2 DEF Request
  <2>2. CASE k \in {"add", "reset"}
    <3>1. added < MaxJobs /\ added' = added + 1 /\ Arrive(Task(k, added + 1))
      BY <1>2, <2>2 DEF Request
    <3>2. /\ Task(k, added + 1) \in Tasks /\ Task(k, added + 1).kind # "pop"
          /\ Task(k, added + 1).arg = added + 1 /\ added + 1 \in 0..MaxJobs
          /\ added + 1 >= added
      BY <1>0, <2>2, <3>1 DEF Task, Tasks, Kinds, AllRequests
    <3> QED  BY <1>0, <2>1, <3>1, <3>2, ArriveInv
  <2>3. CASE k \notin {"add", "reset"}
    <3>1. PICK j \in 1..added : Arrive(Task(k, j)) /\ added' = added
      BY <1>2, <2>3 DEF Request
    <3>2. /\ Task(k, j) \in Tasks /\ Task(k, j).kind # "pop" /\ ~Brings(Task(k, j))
      BY <1>0, <2>1, <2>3 DEF Task, Tasks, Kinds, AllRequests, Brings
    <3> QED  BY <1>0, <2>1, <3>1, <3>2, ArriveInv
  <2> QED  BY <2>2, <2>3
<1>3. ASSUME NEW k \in Kinds, k \notin {"pop", "add", "reset"}, Arrive(Task(k, 0)),
             UNCHANGED <<added, starts>>, held' \in BOOLEAN,
             printer' \in {"standby", "printing", "paused", "complete", "aborted"},
             seen' \in {"standby", "printing", "paused", "complete", "aborted"}
      PROVE  QueueInv'
  <2>1. Task(k, 0) \in Tasks /\ Task(k, 0).kind # "pop" /\ ~Brings(Task(k, 0))
    BY <1>0, <1>3 DEF Task, Tasks, Brings
  <2> QED  BY <1>0, <1>3, <2>1, ArriveInv
<1>4. CASE StartQueue
  BY <1>0, <1>3, <1>4 DEF StartQueue, PrinterSame, Kinds, AllRequests
<1>5. CASE KlippyReady
  <2>1. CASE LoadOnStart
    BY <1>0, <1>3, <1>5, <2>1 DEF KlippyReady, Kinds, AllRequests
  <2>2. CASE ~LoadOnStart
    BY <1>0, <1>1, <1>5, <2>2 DEF KlippyReady
  <2> QED  BY <2>1, <2>2
<1>6. CASE StatusUpdate
  <2> DEFINE kind == CASE printer = "complete" /\ Automatic -> "complete"
                       [] printer = "aborted" -> "abort"
                       [] OTHER -> "none"
  <2>1. seen' = printer /\ UNCHANGED <<printer, added, starts, held>>
    BY <1>6 DEF StatusUpdate
  <2>2. CASE kind = "none"
    <3>1. UNCHANGED <<jobs, qstate, timers, handle, tasks, at>>
      BY <1>6, <2>2 DEF StatusUpdate
    <3> QED  BY <1>0, <1>1, <2>1, <3>1
  <2>3. CASE kind # "none"
    <3>1. Arrive(Task(kind, 0)) /\ kind \in {"complete", "abort"}
      BY <1>6, <2>3 DEF StatusUpdate
    <3> QED  BY <1>0, <1>3, <2>1, <3>1 DEF Kinds
  <2> QED  BY <2>2, <2>3
<1>7. CASE Printer
  BY <1>0, <1>1, <1>7 DEF Printer, CanPrint
<1> QED  BY <1>2, <1>4, <1>5, <1>6, <1>7

-----------------------------------------------------------------------------
(* The theorems.                                                           *)

\* Every step keeps the invariant.
LEMMA QueueNextInv == QueueInv /\ [Next]_vars => QueueInv'
<1> SUFFICES ASSUME QueueInv, [Next]_vars  PROVE QueueInv'
  OBVIOUS
<1>1. CASE Run
  BY <1>1, RunInv
<1>2. CASE StartChecked \/ PopChecked \/ TransitionDone \/ StartFails
  BY <1>2, CheckedInv
<1>3. CASE Started
  BY <1>3, StartedInv
<1>4. ASSUME NEW tm \in timers, TimerDue(tm) \/ PopCalled(tm)  PROVE QueueInv'
  BY <1>4, TimerInv
<1>5. CASE \/ \E k \in Requests : Request(k)
           \/ StartQueue \/ KlippyReady \/ StatusUpdate \/ Printer
  BY <1>5, RequestInv
<1>6. ASSUME NEW k \in Requests, PauseQueue(k)  PROVE QueueInv'
  BY <1>6, PauseQueueInv
<1>7. CASE UNCHANGED vars
  BY <1>7 DEF vars, QueueInv, QueueTypes, Fits, LockKept, LoadingArmed, Queued,
              Distinct, Bringing, Once
<1> QED  BY <1>1, <1>2, <1>3, <1>4, <1>5, <1>6, <1>7 DEF Next

\* However many tasks wait for the lock of the queue, whoever has it finds the
\* job it looked for, jobs under way to the queue are new, and a queue that is
\* loading has a call of _pop_job (job_queue.py:72-223).
THEOREM QueueInvariance == Spec => []QueueInv
  BY QueueInitInv, QueueNextInv, PTL DEF Spec

\* A queue that loads has a call of _pop_job under way or scheduled, and no job
\* is started twice (job_queue.py:72-223).
THEOREM QueueIsRight == Spec => []QueueRight
<1>1. QueueInv => QueueRight
  <2> SUFFICES ASSUME QueueInv  PROVE QueueRight
    OBVIOUS
  <2>1. TypeOK
    <3>1. jobs \in Seq(1..added)
      BY DEF QueueInv, QueueTypes, Queued
    <3>2. tasks \in Seq([kind : AllRequests \cup {"pop", "complete", "abort"},
                         arg : 0..MaxJobs])
      BY DEF QueueInv, QueueTypes, Tasks, Kinds
    <3>3. at # "begin" => tasks # << >>
      BY DEF QueueInv, LockKept
    <3> QED  BY <3>1, <3>2, <3>3 DEF TypeOK, QueueInv, QueueTypes
  <2>2. JobsOnce
    BY DEF JobsOnce, QueueInv, Queued, Distinct, Once
  <2> QED  BY <2>1, <2>2 DEF QueueRight, QueueInv
<1> QED  BY <1>1, QueueInvariance, PTL

-----------------------------------------------------------------------------
(* The connection to Klipper (KlippyConn).                                 *)

States == {"startup", "ready", "error", "shutdown"}
Messages == [is : {"reply", "update"}, state : States] \cup [is : {"eof"}, state : {""}]
Places == {"connect", "sleep", "info", "identifying", "endpoints", "informed", "subscribe",
           "remaining", "announced", "verify", "register", "readied", "done", "cancelled"}

ConnTypeOK ==
    /\ klippy \in States /\ linked \in BOOLEAN /\ subscribed \in BOOLEAN
    /\ sent \in Seq(Messages)
    /\ task \in [at : Places, reply : States \cup {""}]
    /\ started \in [initializing : BOOLEAN, done : BOOLEAN]
    /\ closing \in {"no", "closing"} /\ shutdowns \in Nat

\* Klipper, once in state a, may later be in state b.
Leads(a, b) ==
    a = b \/ a \in {"", "disconnected", "startup"} \/ (a = "ready" /\ b = "shutdown")

\* The task has asked for the subscription.
AsksAll == task.at \in {"subscribe", "remaining", "announced", "verify", "register", "readied",
                        "done", "cancelled"}

\* What Moonraker knows and what is on its way follow the states of Klipper in order.
KnownInOrder ==
    /\ linked => /\ Leads(connState, klippy) /\ Leads(task.reply, klippy)
                 /\ At("endpoints") => Leads(startupState, klippy)
                 /\ \A i \in DOMAIN sent : Leads(sent[i].state, klippy)
    /\ \A i \in DOMAIN sent : sent[i].is = "update" =>
           /\ AsksAll /\ Leads(connState, sent[i].state)
           /\ \A j \in 1 .. i - 1 : sent[j].is = "update" => Leads(sent[j].state, sent[i].state)
    /\ subscribed \/ asked = "subscribe" => AsksAll
    /\ At("connect") => ~linked /\ sent = << >> /\ asked = ""

\* The events that components have heard when the task is at a place.
HeardBy(p) ==
    CASE p = "connect" -> {"disconnect"}
      [] p \in {"sleep", "info"} -> {"disconnect", "identified"}
      [] p \in {"identifying", "endpoints", "informed", "subscribe", "remaining"} -> {"identified"}
      [] p \in {"announced", "verify", "register"} -> {"started"}
      [] p = "readied" -> {"ready"}
      [] p = "done" -> {"started", "ready", "shutdown"}
      [] OTHER -> {"disconnect", "identified", "started", "ready"}

HeardInv ==
    /\ heard \in HeardBy(task.at)
    /\ shutdowns = IF heard = "shutdown" THEN 1 ELSE 0
    /\ started.initializing <=> task.at \notin {"connect", "done"}
    /\ heard = "shutdown" => connState = "shutdown"
    /\ heard = "ready" /\ ~At("cancelled") => connState = "ready" \/ (At("readied") /\ connState = "shutdown")
    /\ At("cancelled") => closing = "closing"

ConnInv == ConnTypeOK /\ KnownInOrder /\ HeardInv

LEMMA EmptyDomain == DOMAIN << >> = {}
  BY EmptySeq

LEMMA ConnStart == ConnInit => ConnInv
<1> SUFFICES ASSUME ConnInit  PROVE ConnInv
  OBVIOUS
<1> USE DEF ConnInit
<1>1. ConnTypeOK
  <2>1. sent \in Seq(Messages)
    BY EmptySeq
  <2>2. task \in [at : Places, reply : States \cup {""}]
    BY DEF Places
  <2> QED  BY <2>1, <2>2 DEF ConnTypeOK, States
<1>2. KnownInOrder
  <2>1. DOMAIN sent = {}
    BY EmptyDomain
  <2>2. ~AsksAll
    BY DEF AsksAll
  <2> QED  BY <2>1 DEF KnownInOrder, At
<1>3. HeardInv
  BY DEF HeardInv, HeardBy, At
<1> QED  BY <1>1, <1>2, <1>3 DEF ConnInv

LEMMA Appended ==
  ASSUME NEW s \in Seq(Messages), NEW m \in Messages, NEW t, t = Append(s, m)
  PROVE  /\ t \in Seq(Messages) /\ DOMAIN t = 1 .. Len(s) + 1 /\ DOMAIN s = 1 .. Len(s)
         /\ \A i \in DOMAIN s : t[i] = s[i]
         /\ t[Len(s) + 1] = m /\ Len(s) \in Nat
  BY AppendProperties

LEMMA Dequeued ==
  ASSUME NEW s \in Seq(Messages), s # << >>, NEW t, t = Tail(s)
  PROVE  /\ t \in Seq(Messages) /\ Head(s) \in Messages
         /\ \A i \in DOMAIN t : i \in Nat /\ i + 1 \in DOMAIN s /\ t[i] = s[i + 1]
         /\ \A i \in DOMAIN t : \A j \in 1 .. i - 1 : j \in DOMAIN t /\ j + 1 \in 1 .. (i + 1) - 1
         /\ Head(s) = s[1] /\ 1 \in DOMAIN s
         /\ \A i \in DOMAIN t : 1 \in 1 .. (i + 1) - 1
  BY HeadTailProperties

\* Klipper changes its state, answers or is lost.
LEMMA KlippySide ==
  ASSUME ConnInv, (\E s \in {"ready", "error", "shutdown"} : Changes(s)) \/ Answers \/ Lost
  PROVE  ConnInv' /\ heard' = heard
<1> USE DEF ConnInv
<1>1. ASSUME NEW s \in {"ready", "error", "shutdown"}, Changes(s)
      PROVE  ConnInv' /\ heard' = heard
  <2>1. /\ klippy' = s /\ Leads(klippy, s) /\ UNCHANGED <<linked, subscribed, KlippyVars>>
        /\ s \in States
    BY <1>1 DEF Changes, Leads, States
  <2>2. \A a : Leads(a, klippy) => Leads(a, s)
    BY <2>1, <1>1 DEF Leads, Changes
  <2>3. CASE ~(linked /\ subscribed)
    <3>1. sent' = sent
      BY <1>1, <2>3 DEF Changes
    <3>2. ConnTypeOK'
      BY <2>1, <3>1 DEF ConnTypeOK, KlippyVars
    <3>3. KnownInOrder'
      BY <2>1, <2>2, <3>1 DEF KnownInOrder, KlippyVars, At, AsksAll
    <3> QED  BY <2>1, <3>2, <3>3 DEF HeardInv, KlippyVars, At
  <2>4. CASE linked /\ subscribed
    <3>1. PICK m \in Messages : /\ m = [is |-> "update", state |-> s]
                                /\ sent' = Append(sent, m)
      BY <1>1, <2>1, <2>4 DEF Changes, Messages
    <3>2. m.is = "update" /\ m.state = s
      BY <3>1
    <3>3. ConnTypeOK'
      <4>1. sent' \in Seq(Messages)
        BY <3>1, Appended DEF ConnTypeOK
      <4> QED  BY <2>1, <4>1 DEF ConnTypeOK, KlippyVars
    <3>4. /\ sent \in Seq(Messages) /\ DOMAIN sent' = 1 .. Len(sent) + 1
          /\ \A i \in DOMAIN sent : sent'[i] = sent[i] /\ i \in 1 .. Len(sent)
          /\ sent'[Len(sent) + 1] = m /\ Len(sent) \in Nat
      <4>1. sent \in Seq(Messages)
        BY DEF ConnTypeOK
      <4> QED  BY <3>1, <4>1, Appended
    <3>5. KnownInOrder'
      <4>1. /\ Leads(connState, s) /\ Leads(task.reply, s)
            /\ At("endpoints") => Leads(startupState, s)
            /\ \A i \in DOMAIN sent : Leads(sent[i].state, s)
        BY <2>2, <2>4 DEF KnownInOrder
      <4>2. AsksAll /\ ~At("connect")
        BY <2>4 DEF KnownInOrder, AsksAll, At
      <4>3. Leads(s, s)
        BY DEF Leads
      <4>4. \A i \in DOMAIN sent' : Leads(sent'[i].state, s)
        BY <3>2, <3>4, <4>1, <4>3
      <4>5. ASSUME NEW i \in DOMAIN sent', sent'[i].is = "update"
            PROVE  /\ Leads(connState, sent'[i].state)
                   /\ \A j \in 1 .. i - 1 :
                         sent'[j].is = "update" => Leads(sent'[j].state, sent'[i].state)
        <5>1. CASE i = Len(sent) + 1
          BY <3>2, <3>4, <4>1, <5>1
        <5>2. CASE i \in DOMAIN sent
          <6>1. \A j \in 1 .. i - 1 : j \in DOMAIN sent
            BY <3>4, <5>2
          <6> QED  BY <3>4, <4>5, <5>2, <6>1 DEF KnownInOrder
        <5> QED  BY <3>4, <5>1, <5>2
      <4> QED  BY <2>1, <4>1, <4>2, <4>4, <4>5 DEF KnownInOrder, KlippyVars, At, AsksAll
    <3> QED  BY <2>1, <3>3, <3>5 DEF HeardInv, KlippyVars, At
  <2> QED  BY <2>3, <2>4
<1>2. ASSUME NEW m \in Messages, m.is # "update", Leads(m.state, klippy) \/ ~linked',
             sent' = Append(sent, m), ~At("connect"),
             linked' => linked /\ klippy' = klippy,
             subscribed' \/ asked' = "subscribe" => subscribed \/ asked = "subscribe",
             UNCHANGED <<task, connState, startupState>>
      PROVE  KnownInOrder'
  <2>1. /\ sent \in Seq(Messages) /\ DOMAIN sent' = 1 .. Len(sent) + 1
        /\ \A i \in DOMAIN sent : sent'[i] = sent[i] /\ i \in 1 .. Len(sent)
        /\ sent'[Len(sent) + 1] = m /\ Len(sent) \in Nat
    <3>1. sent \in Seq(Messages)
      BY DEF ConnTypeOK
    <3> QED  BY <1>2, <3>1, Appended
  <2>2. linked' => \A i \in DOMAIN sent' : Leads(sent'[i].state, klippy')
    BY <1>2, <2>1 DEF KnownInOrder
  <2>3. ASSUME NEW i \in DOMAIN sent', sent'[i].is = "update"
        PROVE  /\ AsksAll /\ Leads(connState, sent'[i].state)
               /\ \A j \in 1 .. i - 1 :
                     sent'[j].is = "update" => Leads(sent'[j].state, sent'[i].state)
    <3>1. i \in DOMAIN sent
      BY <1>2, <2>1, <2>3
    <3>2. \A j \in 1 .. i - 1 : j \in DOMAIN sent
      BY <2>1, <3>1
    <3> QED  BY <2>1, <2>3, <3>1, <3>2 DEF KnownInOrder
  <2> QED  BY <1>2, <2>2, <2>3 DEF KnownInOrder, At, AsksAll
<1>3. CASE Answers
  <2>1. PICK m \in Messages : /\ m = [is |-> "reply", state |-> klippy]
                              /\ sent' = Append(sent, m)
    BY <1>3 DEF Answers, Messages, ConnTypeOK
  <2>2. m.is = "reply" /\ Leads(m.state, klippy)
    BY <2>1 DEF Leads
  <2>3. ConnTypeOK'
    <3>1. sent' \in Seq(Messages)
      BY <2>1, Appended DEF ConnTypeOK
    <3>2. subscribed' \in BOOLEAN /\ UNCHANGED <<klippy, linked, task, started, closing, shutdowns>>
      BY <1>3 DEF Answers, ConnTypeOK
    <3> QED  BY <3>1, <3>2 DEF ConnTypeOK
  <2>4. ~At("connect") /\ linked /\ linked' = linked /\ klippy' = klippy
        /\ UNCHANGED <<task, connState, startupState, started, closing, heard, shutdowns>>
        /\ (subscribed' \/ asked' = "subscribe" => subscribed \/ asked = "subscribe")
    BY <1>3 DEF Answers, KnownInOrder
  <2>5. KnownInOrder'
    BY <1>2, <2>1, <2>2, <2>4
  <2> QED  BY <2>3, <2>4, <2>5 DEF HeardInv, At
<1>4. CASE Lost
  <2>1. PICK m \in Messages : /\ m = [is |-> "eof", state |-> ""]
                              /\ sent' = Append(sent, m)
    BY <1>4 DEF Lost, Messages
  <2>2. m.is = "eof"
    BY <2>1
  <2>3. ConnTypeOK'
    <3>1. sent' \in Seq(Messages)
      BY <2>1, Appended DEF ConnTypeOK
    <3> QED  BY <1>4, <3>1 DEF Lost, ConnTypeOK, KlippyVars, States
  <2>4. ~linked' /\ ~subscribed' /\ UNCHANGED KlippyVars
    BY <1>4 DEF Lost
  <2>5. ~At("connect")
    BY <1>4 DEF Lost, KnownInOrder
  <2>6. KnownInOrder'
    BY <1>2, <2>1, <2>2, <2>4, <2>5 DEF KlippyVars
  <2> QED  BY <2>3, <2>4, <2>6 DEF HeardInv, At, KlippyVars
<1> QED  BY <1>1, <1>3, <1>4

\* The task keeps the order when it believes what Klipper has said.
LEMMA TaskOrder ==
  ASSUME ConnInv, UNCHANGED <<klippy, subscribed, sent>>,
         ~At("connect") => linked' = linked,
         Leads(connState', klippy) \/ ~linked', Leads(task'.reply, klippy) \/ ~linked',
         task'.at = "endpoints" => Leads(startupState', klippy) \/ ~linked',
         AsksAll => AsksAll' /\ connState' = connState,
         asked' # "subscribe" \/ asked' = asked \/ AsksAll', task'.at # "connect"
  PROVE  KnownInOrder'
<1> USE DEF ConnInv, KnownInOrder
<1>1. linked' => \A i \in DOMAIN sent' : Leads(sent'[i].state, klippy')
  <2>1. CASE At("connect")
    <3>1. DOMAIN sent' = {}
      BY <2>1, EmptyDomain
    <3> QED  BY <3>1
  <2>2. CASE ~At("connect")
    BY <2>2
  <2> QED  BY <2>1, <2>2
<1>2. ~(At("connect"))'
  BY DEF At
<1>3. (subscribed \/ asked = "subscribe" => AsksAll)'
  OBVIOUS
<1>4. \A i \in DOMAIN sent : sent[i].is = "update" => AsksAll
  OBVIOUS
<1>5. linked' => Leads(connState', klippy') /\ Leads(task'.reply, klippy')
  OBVIOUS
<1>6. linked' /\ (At("endpoints"))' => Leads(startupState', klippy')
  BY DEF At
<1> QED  BY <1>1, <1>2, <1>3, <1>4, <1>5, <1>6

LEMMA TaskSide ==
  ASSUME ConnInv, TaskStep
  PROVE  ConnInv' /\ EventsInOrder
<1> USE DEF ConnInv
<1>0. /\ \A p \in Places : [at |-> p, reply |-> ""] \in [at : Places, reply : States \cup {""}]
      /\ task \in [at : Places, reply : States \cup {""}]
  BY DEF ConnTypeOK
<1>1. \A b : Leads("", b) /\ Leads("startup", b)
  BY DEF Leads
<1>2. CASE Connect
  <2>1. task' = [at |-> "sleep", reply |-> ""]
    BY <1>2 DEF Connect, To
  <2>2. ConnTypeOK'
    BY <1>2, <1>0, <2>1 DEF Connect, ConnTypeOK, NoEvent, Places
  <2>3. KnownInOrder'
    BY <1>1, <1>2, <2>1, TaskOrder DEF Connect, KnownInOrder, AsksAll, At
  <2>4. HeardInv'
    BY <1>2, <2>1 DEF Connect, HeardInv, HeardBy, NoEvent, At
  <2> QED  BY <1>2, <2>2, <2>3, <2>4 DEF Connect, NoEvent, EventsInOrder
\* A step to a place further on without an event.
<1>3. ASSUME NEW p \in Places \ {"connect", "done", "cancelled", "endpoints", "readied"},
             task' = [at |-> p, reply |-> ""] \/ task' = [task EXCEPT !.at = p],
             UNCHANGED <<TaskVars, connState, closing, heard, shutdowns>>,
             started'.initializing, started' \in [initializing : BOOLEAN, done : BOOLEAN],
             heard \in HeardBy(p),
             AsksAll => AsksAll',
             asked' # "subscribe" \/ asked' = asked \/ AsksAll',
             ~At("connect")
      PROVE  ConnInv' /\ EventsInOrder
  <2>0. /\ [task EXCEPT !.at = p] \in [at : Places, reply : States \cup {""}]
        /\ [task EXCEPT !.at = p].at = p /\ [task EXCEPT !.at = p].reply = task.reply
    BY <1>0
  <2>1. task' \in [at : Places, reply : States \cup {""}] /\ task'.at = p
        /\ task'.reply \in {"", task.reply}
    <3>1. [at |-> p, reply |-> ""] \in [at : Places, reply : States \cup {""}]
      BY <1>0, <1>3
    <3>2. CASE task' = [at |-> p, reply |-> ""]
      BY <3>1, <3>2
    <3>3. CASE task' = [task EXCEPT !.at = p]
      BY <2>0, <3>3
    <3> QED  BY <1>3, <3>2, <3>3
  <2>2. ConnTypeOK'
    BY <1>3, <2>1 DEF ConnTypeOK, TaskVars
  <2>3. KnownInOrder'
    BY <1>1, <1>3, <2>1, TaskOrder DEF TaskVars, KnownInOrder
  <2>4. /\ heard # "ready" /\ heard # "shutdown" /\ heard' \in HeardBy(task'.at)
        /\ task'.at \notin {"connect", "done", "cancelled"}
    BY <1>3, <2>1 DEF HeardBy, Places
  <2>5. HeardInv'
    BY <1>3, <2>1, <2>4 DEF HeardInv, At
  <2> QED  BY <1>3, <2>2, <2>3, <2>5 DEF EventsInOrder
\* A step with an event.
<1>14. ASSUME NEW p \in Places \ {"connect", "done", "cancelled", "endpoints"},
              task' = [at |-> p, reply |-> ""] \/ task' = [task EXCEPT !.at = p],
              UNCHANGED <<TaskVars, asked, connState, closing, started>>,
              heard' \in HeardBy(p), heard' = "ready" => p = "readied" /\ connState = "ready",
              UNCHANGED shutdowns, heard # "shutdown", EventsInOrder,
              AsksAll => AsksAll', task.at \notin {"connect", "done"}
       PROVE  ConnInv' /\ EventsInOrder
  <2>0. /\ [task EXCEPT !.at = p] \in [at : Places, reply : States \cup {""}]
        /\ [task EXCEPT !.at = p].at = p /\ [task EXCEPT !.at = p].reply = task.reply
    BY <1>0
  <2>1. task' \in [at : Places, reply : States \cup {""}] /\ task'.at = p
        /\ task'.reply \in {"", task.reply}
    <3>1. [at |-> p, reply |-> ""] \in [at : Places, reply : States \cup {""}]
      BY <1>0, <1>14
    <3>2. CASE task' = [at |-> p, reply |-> ""]
      BY <3>1, <3>2
    <3>3. CASE task' = [task EXCEPT !.at = p]
      BY <2>0, <3>3
    <3> QED  BY <1>14, <3>2, <3>3
  <2>2. ConnTypeOK'
    BY <1>14, <2>1 DEF ConnTypeOK, TaskVars
  <2>3. KnownInOrder'
    BY <1>1, <1>14, <2>1, TaskOrder DEF TaskVars, KnownInOrder, At
  <2>4. /\ heard' # "shutdown" /\ heard' \in HeardBy(task'.at)
        /\ task'.at \notin {"connect", "done", "cancelled"}
    BY <1>14, <2>1 DEF HeardBy, Places
  <2>5. HeardInv'
    BY <1>14, <2>1, <2>4 DEF HeardInv, At
  <2> QED  BY <1>14, <2>2, <2>3, <2>5
\* The last step of the task.
<1>15. ASSUME Done, UNCHANGED <<TaskVars, asked, connState, closing>>,
              heard' \in {"started", "ready", "shutdown"}, EventsInOrder, shutdowns = 0,
              shutdowns' = IF heard' = "shutdown" THEN 1 ELSE 0,
              heard' = "shutdown" => connState = "shutdown",
              heard' = "ready" => connState = "ready", AsksAll
       PROVE  ConnInv' /\ EventsInOrder
  <2>1. task' = [at |-> "done", reply |-> ""] /\ started' = [initializing |-> FALSE, done |-> TRUE]
    BY <1>15 DEF Done, To
  <2>2. task' \in [at : Places, reply : States \cup {""}] /\ task'.at = "done" /\ task'.reply = ""
        /\ ~started'.initializing /\ started' \in [initializing : BOOLEAN, done : BOOLEAN]
    BY <1>0, <2>1 DEF Places
  <2>3. ConnTypeOK'
    BY <1>15, <2>2 DEF ConnTypeOK, TaskVars
  <2>4. KnownInOrder'
    BY <1>1, <1>15, <2>2, TaskOrder DEF TaskVars, KnownInOrder, At, AsksAll
  <2>5. HeardInv'
    BY <1>15, <2>2 DEF HeardInv, At, HeardBy
  <2> QED  BY <1>15, <2>3, <2>4, <2>5
<1>4. CASE AskInfo
  BY <1>3, <1>4 DEF AskInfo, Ask, To, At, NoEvent, HeardInv, ConnTypeOK, HeardBy, AsksAll, Places
<1>5. CASE Identify
  <2>1. /\ task.at = "info" /\ heard \in {"disconnect", "identified"} /\ shutdowns = 0
        /\ started.initializing /\ ~AsksAll
        /\ started \in [initializing : BOOLEAN, done : BOOLEAN]
        /\ UNCHANGED <<TaskVars, asked, connState, started, startupState, closing>>
    BY <1>5 DEF Identify, Replied, At, HeardInv, HeardBy, AsksAll, ConnTypeOK
  <2>2. CASE heard = "disconnect"
    <3>1. task' = [task EXCEPT !.at = "identifying"] /\ heard' = "identified" /\ shutdowns' = 0
      BY <1>5, <2>1, <2>2 DEF Identify, Event
    <3> QED  BY <1>14, <2>1, <2>2, <3>1 DEF HeardBy, EventsInOrder, Places
  <2>3. CASE heard # "disconnect"
    <3>1. task' = [task EXCEPT !.at = "informed"] /\ UNCHANGED <<heard, shutdowns>>
      BY <1>5, <2>3 DEF Identify, NoEvent
    <3> QED  BY <1>3, <2>1, <2>3, <3>1 DEF HeardBy, Places, At
  <2> QED  BY <2>2, <2>3
\* The task goes on with what Klipper said.
<1>16. ASSUME NEW s, s = task.reply \/ s = startupState, Leads(s, klippy) \/ ~linked,
              task.at \in {"informed", "endpoints"}, Informed(s)
       PROVE  ConnInv' /\ EventsInOrder
  <2>1. /\ connState' = s /\ startupState' = s
        /\ UNCHANGED <<TaskVars, started, closing, heard, shutdowns>>
        /\ ~AsksAll /\ heard = "identified" /\ started.initializing
    BY <1>16 DEF Informed, NoEvent, AsksAll, HeardInv, HeardBy
  <2>2. PICK p \in {"sleep", "subscribe"} : /\ task' = [at |-> p, reply |-> ""]
                                            /\ asked' = asked \/ p = "subscribe"
    BY <1>16 DEF Informed, Ask, To
  <2>3. task' \in [at : Places, reply : States \cup {""}] /\ task'.at = p /\ task'.reply = ""
    BY <1>0, <2>2 DEF Places
  <2>4. ConnTypeOK'
    BY <2>1, <2>3 DEF ConnTypeOK, TaskVars
  <2>5. KnownInOrder'
    BY <1>1, <1>16, <2>1, <2>2, <2>3, TaskOrder DEF TaskVars, At, AsksAll
  <2>6. HeardInv'
    BY <2>1, <2>3 DEF HeardInv, At, HeardBy
  <2> QED  BY <2>1, <2>4, <2>5, <2>6 DEF EventsInOrder
<1>6. CASE AskEndpoints
  <2>1. /\ task.at = "identifying" /\ heard = "identified" /\ started.initializing /\ ~AsksAll
        /\ asked' = "endpoints" /\ startupState' = task.reply
        /\ task' = [at |-> "endpoints", reply |-> ""]
        /\ UNCHANGED <<TaskVars, connState, started, closing, heard, shutdowns>>
    BY <1>6 DEF AskEndpoints, At, To, NoEvent, HeardInv, HeardBy, AsksAll
  <2>2. task' \in [at : Places, reply : States \cup {""}] /\ task'.at = "endpoints"
        /\ task'.reply = ""
    BY <1>0, <2>1 DEF Places
  <2>3. ConnTypeOK'
    BY <2>1, <2>2 DEF ConnTypeOK, TaskVars
  <2>4. (Leads(connState', klippy) /\ Leads(startupState', klippy)) \/ ~linked
    BY <2>1 DEF KnownInOrder
  <2>5. KnownInOrder'
    BY <1>1, <2>1, <2>2, <2>4, TaskOrder DEF TaskVars, At
  <2>6. HeardInv'
    BY <2>1, <2>2 DEF HeardInv, At, HeardBy
  <2> QED  BY <2>1, <2>3, <2>5, <2>6 DEF EventsInOrder
<1>7. CASE GoOn
  BY <1>7, <1>16 DEF GoOn, Replied, At, KnownInOrder
<1>8. CASE Subscribed
  BY <1>3, <1>8 DEF Subscribed, Ask, To, At, Replied, NoEvent, HeardInv, ConnTypeOK, HeardBy, AsksAll, Places
<1>9. CASE AnnounceStart
  <2>1. /\ task.at = "remaining" /\ heard = "identified" /\ shutdowns = 0 /\ AsksAll
        /\ task' = [at |-> "announced", reply |-> ""] /\ heard' = "started" /\ shutdowns' = 0
        /\ UNCHANGED <<TaskVars, asked, connState, started, closing>>
    BY <1>9 DEF AnnounceStart, Replied, At, To, Event, HeardInv, HeardBy, AsksAll
  <2>2. AsksAll'
    BY <2>1 DEF AsksAll
  <2> QED  BY <1>14, <2>1, <2>2 DEF HeardBy, EventsInOrder, Places
<1>10. CASE AfterStarted
  <2>1. /\ task.at = "announced" /\ heard = "started" /\ shutdowns = 0 /\ AsksAll
        /\ started.initializing /\ started \in [initializing : BOOLEAN, done : BOOLEAN]
        /\ UNCHANGED <<TaskVars, connState, startupState, closing>>
    BY <1>10 DEF AfterStarted, At, HeardInv, HeardBy, AsksAll, ConnTypeOK
  <2>2. CASE Ask("verify") /\ NoEvent /\ started' = [started EXCEPT !.done = TRUE]
    <3>1. /\ asked' = "verify" /\ task' = [at |-> "verify", reply |-> ""]
          /\ UNCHANGED <<heard, shutdowns>>
      BY <2>2 DEF Ask, To, NoEvent
    <3>2. started'.initializing /\ started' \in [initializing : BOOLEAN, done : BOOLEAN]
      BY <2>1, <2>2
    <3>3. AsksAll'
      BY <3>1 DEF AsksAll
    <3> QED  BY <1>3, <2>1, <3>1, <3>2, <3>3 DEF HeardBy, Places, At
  <2>3. CASE /\ connState # "ready" /\ Done /\ UNCHANGED asked
             /\ IF connState = "shutdown" /\ startupState # "shutdown"
                THEN Event("shutdown") ELSE NoEvent
    <3>1. \/ heard' = "shutdown" /\ shutdowns' = 1 /\ connState = "shutdown"
          \/ UNCHANGED <<heard, shutdowns>>
      BY <2>1, <2>3 DEF Event, NoEvent
    <3> QED  BY <1>15, <2>1, <2>3, <3>1 DEF EventsInOrder
  <2> QED  BY <1>10, <2>2, <2>3 DEF AfterStarted
<1>11. CASE Verified
  BY <1>3, <1>11 DEF Verified, Ask, To, At, Replied, NoEvent, HeardInv, ConnTypeOK, HeardBy, AsksAll, Places
<1>12. CASE AnnounceReady
  <2>1. /\ task.at = "register" /\ heard = "started" /\ shutdowns = 0 /\ AsksAll
        /\ UNCHANGED <<TaskVars, asked, connState, startupState, closing>>
    BY <1>12 DEF AnnounceReady, Replied, At, HeardInv, HeardBy, AsksAll
  <2>2. CASE connState = "ready" /\ Event("ready") /\ To("readied") /\ UNCHANGED started
    <3>1. heard' = "ready" /\ shutdowns' = 0 /\ task' = [at |-> "readied", reply |-> ""]
      BY <2>1, <2>2 DEF Event, To
    <3>2. AsksAll'
      BY <3>1 DEF AsksAll
    <3> QED  BY <1>14, <2>1, <2>2, <3>1, <3>2 DEF HeardBy, EventsInOrder, Places
  <2>3. CASE connState # "ready" /\ NoEvent /\ Done
    BY <1>15, <2>1, <2>3 DEF NoEvent, EventsInOrder
  <2> QED  BY <1>12, <2>2, <2>3 DEF AnnounceReady
<1>13. CASE Readied
  <2>1. /\ task.at = "readied" /\ heard = "ready" /\ shutdowns = 0 /\ AsksAll
        /\ connState \in {"ready", "shutdown"}
        /\ UNCHANGED <<TaskVars, asked, connState, startupState, closing>> /\ Done /\ Deferred
    BY <1>13 DEF Readied, At, HeardInv, HeardBy, AsksAll
  <2>2. \/ heard' = "shutdown" /\ shutdowns' = 1 /\ connState = "shutdown"
        \/ UNCHANGED <<heard, shutdowns>> /\ connState = "ready"
    BY <2>1 DEF Deferred, Event, NoEvent
  <2> QED  BY <1>15, <2>1, <2>2 DEF EventsInOrder
<1> QED  BY <1>2, <1>4, <1>5, <1>6, <1>7, <1>8, <1>9, <1>10, <1>11, <1>12, <1>13 DEF TaskStep

\* The reader takes a message; the order holds for the rest.
LEMMA ReaderOrder ==
  ASSUME ConnInv, sent # << >>, sent' = Tail(sent),
         UNCHANGED <<klippy, linked, asked, subscribed, startupState>>,
         \/ connState' = connState
         \/ Head(sent).is = "update" /\ connState' = Head(sent).state,
         task'.at = task.at \/ task'.at = "cancelled",
         task'.reply \in {"", task.reply, Head(sent).state}
  PROVE  KnownInOrder'
<1> USE DEF ConnInv, KnownInOrder
<1>1. /\ \A i \in DOMAIN sent' : i \in Nat /\ i + 1 \in DOMAIN sent /\ sent'[i] = sent[i + 1]
      /\ \A i \in DOMAIN sent' : \A j \in 1 .. i - 1 :
            j \in DOMAIN sent' /\ j + 1 \in 1 .. (i + 1) - 1
      /\ Head(sent) = sent[1] /\ 1 \in DOMAIN sent
      /\ \A i \in DOMAIN sent' : 1 \in 1 .. (i + 1) - 1
  <2>1. sent \in Seq(Messages)
    BY DEF ConnTypeOK
  <2> QED  BY <2>1, Dequeued
<1>2. linked' => Leads(connState', klippy') /\ Leads(task'.reply, klippy')
  <2>1. linked => Leads(Head(sent).state, klippy) /\ Leads("", klippy)
    BY <1>1 DEF Leads
  <2> QED  BY <2>1
<1>3. linked' /\ (At("endpoints"))' => Leads(startupState', klippy')
  BY DEF At
<1>4. linked' => \A i \in DOMAIN sent' : Leads(sent'[i].state, klippy')
  BY <1>1
<1>5. AsksAll => AsksAll'
  BY DEF AsksAll
<1>6. ASSUME NEW i \in DOMAIN sent', sent'[i].is = "update"
      PROVE  /\ AsksAll' /\ Leads(connState', sent'[i].state)
             /\ \A j \in 1 .. i - 1 :
                   sent'[j].is = "update" => Leads(sent'[j].state, sent'[i].state)
  <2>1. sent[i + 1].is = "update" /\ i + 1 \in DOMAIN sent
    BY <1>1, <1>6
  <2>2. Leads(connState', sent'[i].state)
    BY <1>1, <2>1
  <2>3. ASSUME NEW j \in 1 .. i - 1, sent'[j].is = "update"
        PROVE  Leads(sent'[j].state, sent'[i].state)
    <3>1. j \in DOMAIN sent' /\ j + 1 \in 1 .. (i + 1) - 1 /\ sent'[j] = sent[j + 1]
      BY <1>1
    <3> QED  BY <1>1, <2>1, <2>3, <3>1
  <2> QED  BY <1>5, <2>1, <2>2, <2>3
<1>7. ~(At("connect"))'
  BY DEF At
<1> QED  BY <1>2, <1>3, <1>4, <1>5, <1>6, <1>7

\* The reader, the writer and close().
LEMMA ReaderSide ==
  ASSUME ConnInv, Receive \/ WriteFails \/ Closed
  PROVE  ConnInv' /\ EventsInOrder
<1> USE DEF ConnInv
<1>0. /\ task \in [at : Places, reply : States \cup {""}] /\ task.at \in Places
      /\ task.reply \in States \cup {""} /\ sent \in Seq(Messages)
      /\ started \in [initializing : BOOLEAN, done : BOOLEAN]
  BY DEF ConnTypeOK
\* A task that is cancelled.
<1>1. ASSUME UNCHANGED <<heard, shutdowns, connState, started>>, Close, ~At("connect")
      PROVE  /\ HeardInv' /\ task' \in [at : Places, reply : States \cup {""}]
             /\ closing' \in {"no", "closing"} /\ EventsInOrder
             /\ task'.at \in {task.at, "cancelled"} /\ task'.reply \in {"", task.reply}
  <2>1. CASE At("done")
    BY <1>0, <1>1, <2>1 DEF Close, Cancelled, HeardInv, HeardBy, At, EventsInOrder
  <2>2. CASE ~At("done")
    <3>1. task' = [at |-> "cancelled", reply |-> ""] /\ closing' = "closing"
      BY <1>1, <2>2 DEF Close, Cancelled
    <3>2. task' \in [at : Places, reply : States \cup {""}] /\ task'.at = "cancelled"
          /\ task'.reply = ""
      BY <3>1 DEF Places
    <3>3. heard \in {"disconnect", "identified", "started", "ready"} /\ shutdowns = 0
      BY <1>0, <1>1, <2>2 DEF HeardInv, HeardBy, Places, At
    <3>4. started.initializing
      BY <1>1, <2>2 DEF HeardInv, At
    <3>5. HeardInv'
      BY <1>1, <3>1, <3>2, <3>3, <3>4 DEF HeardInv, HeardBy, At
    <3> QED  BY <1>1, <3>1, <3>2, <3>5 DEF EventsInOrder
  <2> QED  BY <2>1, <2>2
<1>2. CASE Receive
  <2>1. /\ sent # << >> /\ sent' = Tail(sent) /\ ~At("connect")
        /\ UNCHANGED <<klippy, linked, asked, subscribed, started, startupState>>
    BY <1>2 DEF Receive, KnownInOrder
  <2>2. /\ sent' \in Seq(Messages) /\ Head(sent) \in Messages
        /\ Head(sent) = sent[1] /\ 1 \in DOMAIN sent
    BY <1>0, <2>1, Dequeued
  <2>3. CASE Head(sent).is = "reply" /\ Reply(Head(sent).state)
    <3>1. task' = [task EXCEPT !.reply = Head(sent).state]
          /\ UNCHANGED <<heard, shutdowns, connState, closing>>
      BY <2>3 DEF Reply, NoEvent
    <3>2. Head(sent).state \in States
      BY <2>2, <2>3 DEF Messages
    <3>3. /\ task' \in [at : Places, reply : States \cup {""}]
          /\ task'.at = task.at /\ task'.reply = Head(sent).state
      BY <1>0, <3>1, <3>2
    <3>4. ConnTypeOK'
      BY <2>1, <2>2, <3>1, <3>3 DEF ConnTypeOK
    <3>5. KnownInOrder'
      BY <2>1, <3>1, <3>3, ReaderOrder
    <3>6. HeardInv'
      BY <2>1, <3>1, <3>3 DEF HeardInv, At
    <3> QED  BY <3>1, <3>4, <3>5, <3>6 DEF EventsInOrder
  <2>4. CASE Head(sent).is = "update" /\ WebhooksUpdate(Head(sent).state)
    <3> DEFINE s == Head(sent).state
    <3>1. connState' = s /\ UNCHANGED <<task, closing>>
          /\ IF Announced(s) THEN Event("shutdown") ELSE NoEvent
      BY <2>4 DEF WebhooksUpdate
    <3>2. Leads(connState, s)
      BY <2>2, <2>4 DEF KnownInOrder
    <3>3. KnownInOrder'
      BY <2>1, <2>4, <3>1, ReaderOrder
    <3>4. CASE Announced(s)
      <4>1. heard' = "shutdown" /\ shutdowns' = shutdowns + 1 /\ s = "shutdown"
            /\ ~started.initializing /\ connState # "shutdown"
        BY <3>1, <3>4 DEF Event, Announced
      <4>2. task.at = "done" /\ heard \in {"started", "ready"} /\ shutdowns = 0
        BY <2>1, <4>1 DEF HeardInv, HeardBy, At
      <4>5. shutdowns' = 1 /\ shutdowns' \in Nat
        BY <4>1, <4>2
      <4>3. ConnTypeOK'
        BY <2>1, <2>2, <3>1, <4>5 DEF ConnTypeOK
      <4>4. HeardInv'
        BY <2>1, <3>1, <4>1, <4>2, <4>5 DEF HeardInv, HeardBy, At
      <4> QED  BY <3>3, <4>1, <4>2, <4>3, <4>4 DEF EventsInOrder
    <3>5. CASE ~Announced(s)
      <4>1. UNCHANGED <<heard, shutdowns>>
        BY <3>1, <3>5 DEF NoEvent
      <4>2. ConnTypeOK'
        BY <2>1, <2>2, <3>1, <4>1 DEF ConnTypeOK
      <4>3. heard = "shutdown" => s = "shutdown"
        BY <3>2 DEF HeardInv, Leads
      <4>4. heard = "ready" /\ ~At("cancelled") => s = "ready" \/ (At("readied") /\ s = "shutdown")
        <5>1. CASE At("readied") \/ connState = "shutdown"
          BY <3>2, <5>1 DEF HeardInv, Leads
        <5>2. CASE ~At("readied") /\ connState # "shutdown"
          <6>1. SUFFICES ASSUME heard = "ready", ~At("cancelled"), s = "shutdown"
                         PROVE  FALSE
            BY <3>2, <5>2 DEF HeardInv, Leads
          <6>2. started.initializing
            BY <3>5, <5>2, <6>1 DEF Announced
          <6>3. task.at \notin {"connect", "done", "readied", "cancelled"}
            BY <5>2, <6>1, <6>2 DEF HeardInv, At
          <6> QED  BY <1>0, <6>1, <6>3 DEF HeardInv, HeardBy, Places
        <5> QED  BY <5>1, <5>2
      <4>5. HeardInv'
        BY <2>1, <3>1, <4>1, <4>3, <4>4 DEF HeardInv, At
      <4> QED  BY <3>3, <4>1, <4>2, <4>5 DEF EventsInOrder
    <3> QED  BY <3>4, <3>5
  <2>5. CASE /\ Head(sent).is = "eof" /\ NoEvent /\ UNCHANGED connState
             /\ IF closing = "no" THEN Close ELSE UNCHANGED <<closing, task>>
    <3>1. UNCHANGED <<heard, shutdowns, connState>>
      BY <2>5 DEF NoEvent
    <3>2. CASE Close
      <4>1. ConnTypeOK'
        BY <1>1, <2>1, <2>2, <3>1, <3>2 DEF ConnTypeOK
      <4>2. KnownInOrder'
        BY <1>1, <2>1, <3>1, <3>2, ReaderOrder
      <4> QED  BY <1>1, <2>1, <3>1, <3>2, <4>1, <4>2
    <3>3. CASE UNCHANGED <<closing, task>>
      <4>1. ConnTypeOK'
        BY <2>1, <2>2, <3>1, <3>3 DEF ConnTypeOK
      <4>2. KnownInOrder'
        BY <2>1, <3>1, <3>3, ReaderOrder
      <4> QED  BY <2>1, <3>1, <3>3, <4>1, <4>2 DEF HeardInv, At, EventsInOrder
    <3> QED  BY <2>5, <3>2, <3>3
  <2> QED  BY <1>2, <2>3, <2>4, <2>5 DEF Receive
<1>3. CASE WriteFails
  <2>1. /\ asked # "" /\ ~linked /\ Close /\ UNCHANGED <<heard, shutdowns>>
        /\ UNCHANGED <<klippy, linked, asked, sent, subscribed, connState, started, startupState>>
    BY <1>3 DEF WriteFails, NoEvent
  <2>2. ~At("connect")
    BY <2>1 DEF KnownInOrder
  <2>3. ConnTypeOK'
    BY <1>1, <2>1, <2>2 DEF ConnTypeOK
  <2>4. task'.at \in {task.at, "cancelled"}
    BY <1>1, <2>1, <2>2
  <2>5. AsksAll => AsksAll'
    BY <2>4 DEF AsksAll
  <2>6. KnownInOrder'
    BY <2>1, <2>2, <2>4, <2>5 DEF KnownInOrder, At
  <2> QED  BY <1>1, <2>1, <2>2, <2>3, <2>6
<1>4. CASE Closed
  <2>1. /\ ~linked' /\ linked' \in BOOLEAN /\ subscribed' = FALSE /\ asked' = "" /\ sent' = << >>
        /\ started' = [initializing |-> FALSE, done |-> FALSE] /\ closing' = "no"
        /\ heard' = "disconnect" /\ shutdowns' = 0
        /\ task' = [at |-> "connect", reply |-> ""] /\ klippy' = klippy
    BY <1>4 DEF Closed, To
  <2>2. /\ task' \in [at : Places, reply : States \cup {""}] /\ task'.at = "connect"
        /\ started' \in [initializing : BOOLEAN, done : BOOLEAN] /\ ~started'.initializing
    BY <2>1 DEF Places
  <2>3. sent' \in Seq(Messages) /\ DOMAIN sent' = {}
    BY <2>1, EmptySeq, EmptyDomain
  <2>4. ConnTypeOK'
    BY <2>1, <2>2, <2>3 DEF ConnTypeOK
  <2>5. KnownInOrder'
    BY <2>1, <2>2, <2>3 DEF KnownInOrder, At
  <2>6. HeardInv'
    BY <2>1, <2>2 DEF HeardInv, HeardBy, At
  <2> QED  BY <2>1, <2>4, <2>5, <2>6 DEF EventsInOrder
<1> QED  BY <1>2, <1>3, <1>4

\* Moonraker's components hear the events in order, each once, a shutdown not twice, and once
\* they were told that the printer is ready they are told that it no longer is
\* (klippy_connection.py:240-503): the part of ConnectionRight that needs no fairness.
THEOREM EventsAreRight ==
  ConnInit /\ [][ConnNext]_connVars =>
      [](ShutdownOnce /\ ReadyThenTold) /\ [][EventsInOrder]_connVars
<1>1. ConnInv => ShutdownOnce /\ ReadyThenTold
  <2> SUFFICES ASSUME ConnInv  PROVE ShutdownOnce /\ ReadyThenTold
    OBVIOUS
  <2>1. ShutdownOnce
    BY DEF ConnInv, HeardInv, ShutdownOnce
  <2>2. Quiet => ~At("cancelled") /\ ~At("readied")
    BY DEF ConnInv, HeardInv, Quiet, Initialized, At
  <2> QED  BY <2>1, <2>2 DEF ConnInv, HeardInv, ReadyThenTold
<1>2. ConnInv /\ [ConnNext]_connVars => ConnInv' /\ [EventsInOrder]_connVars
  <2> SUFFICES ASSUME ConnInv, [ConnNext]_connVars
               PROVE  ConnInv' /\ [EventsInOrder]_connVars
    OBVIOUS
  <2>1. CASE (\E s \in {"ready", "error", "shutdown"} : Changes(s)) \/ Answers \/ Lost
    BY <2>1, KlippySide DEF EventsInOrder
  <2>2. CASE TaskStep
    BY <2>2, TaskSide
  <2>3. CASE Receive \/ WriteFails \/ Closed
    BY <2>3, ReaderSide
  <2>4. CASE UNCHANGED connVars
    BY <2>4 DEF connVars, ConnInv, ConnTypeOK, KnownInOrder, HeardInv, AsksAll, At
  <2> QED  BY <2>1, <2>2, <2>3, <2>4 DEF ConnNext
<1> QED  BY <1>1, <1>2, ConnStart, PTL

-----------------------------------------------------------------------------
(* The history of jobs. First the store: the ids, the records and the job  *)
(* under way.                                                              *)

StoreTypes ==
    /\ nextJobId \in Nat /\ cachedIds \in Seq(Nat)
    /\ DOMAIN stored \subseteq Nat /\ IsFiniteSet(DOMAIN stored)
    /\ currentJob # NoJob => currentJob.id \in Nat
    /\ ~LockFree => listing \in [order : {"asc", "desc"}, count : Nat, jobs : Seq(Nat),
                                 ids : Seq(Nat)]

IdsInv ==
    torn = {} => IdsAsStored /\ (currentJob # NoJob => currentJob.id \in DOMAIN stored)

ListInv ==
    ~LockFree =>
        /\ listing.count = Len(listing.ids) /\ Len(listing.jobs) <= listing.count
        /\ listing.count <= Len(cachedIds)
        /\ ~shifted =>
             /\ \A i \in 1..listing.count : cachedIds[i] = listing.ids[i]
             /\ \A i \in 1..Len(listing.jobs) : listing.jobs[i] =
                   IF listing.order = "asc" THEN listing.ids[i]
                   ELSE listing.ids[listing.count + 1 - i]

StoreInv == StoreTypes /\ IdsInv /\ NoneLeftOver /\ ListInv

\* What the end of the job under way writes.
LEMMA FinishedFacts ==
  ASSUME NEW s
  PROVE  /\ currentJob = NoJob => Finished(s) = stored
         /\ currentJob # NoJob =>
              /\ DOMAIN Finished(s) = DOMAIN stored \cup {currentJob.id}
              /\ Finished(s)[currentJob.id] = [status |-> s, print |-> currentJob.print]
              /\ \A i \in DOMAIN stored : i # currentJob.id => Finished(s)[i] = stored[i]
BY DEF Finished, Inserted

\* The store is as good after the end of the job under way.
LEMMA FinishedIsRight ==
  ASSUME StoreTypes, NEW s, s # "in_progress"
  PROVE  /\ DOMAIN Finished(s) \subseteq Nat /\ IsFiniteSet(DOMAIN Finished(s))
         /\ IdsInv /\ torn = {} => DOMAIN Finished(s) = DOMAIN stored
         /\ NoneLeftOver =>
              \A id \in DOMAIN Finished(s) \ torn : Finished(s)[id].status # "in_progress"
<1>1. CASE currentJob = NoJob
  <2>1. Finished(s) = stored
    BY <1>1, FinishedFacts
  <2>2. NoneLeftOver => \A id \in DOMAIN stored \ torn : stored[id].status # "in_progress"
    BY <1>1 DEF NoneLeftOver
  <2> QED  BY <2>1, <2>2 DEF StoreTypes
<1>2. CASE currentJob # NoJob
  <2> DEFINE F == Finished(s)
  <2>1. /\ DOMAIN F = DOMAIN stored \cup {currentJob.id}
        /\ F[currentJob.id] = [status |-> s, print |-> currentJob.print]
        /\ \A i \in DOMAIN stored : i # currentJob.id => F[i] = stored[i]
    BY <1>2, FinishedFacts
  <2> HIDE DEF F
  <2>2. currentJob.id \in Nat
    BY <1>2 DEF StoreTypes
  <2>3. DOMAIN F \subseteq Nat /\ IsFiniteSet(DOMAIN F)
    <3>1. DOMAIN stored \subseteq Nat /\ IsFiniteSet(DOMAIN stored)
      BY DEF StoreTypes
    <3>2. IsFiniteSet(DOMAIN stored \cup {currentJob.id})
      BY <3>1, FS_AddElement
    <3> QED  BY <2>1, <2>2, <3>1, <3>2
  <2>4. IdsInv /\ torn = {} => DOMAIN F = DOMAIN stored
    BY <1>2, <2>1 DEF IdsInv
  <2>5. ASSUME NoneLeftOver, NEW id \in DOMAIN F \ torn  PROVE F[id].status # "in_progress"
    <3>1. CASE id = currentJob.id
      BY <2>1, <3>1
    <3>2. CASE id # currentJob.id
      <4>1. id \in DOMAIN stored \ torn /\ F[id] = stored[id]
        BY <2>1, <2>5, <3>2
      <4>2. stored[id].status # "in_progress"
        BY <2>5, <3>2, <4>1 DEF NoneLeftOver
      <4> QED  BY <4>1, <4>2
    <3> QED  BY <3>1, <3>2
  <2> QED  BY <2>3, <2>4, <2>5 DEF F
<1> QED  BY <1>1, <1>2

\* A step that leaves the store alone.
LEMMA StoreSame ==
  ASSUME StoreInv, UNCHANGED <<currentJob, storeVars, listing, shifted, torn>>
  PROVE  StoreInv'
<1> USE DEF storeVars
<1>1. StoreTypes'
  BY DEF StoreInv, StoreTypes, LockFree
<1>2. IdsInv'
  BY DEF StoreInv, IdsInv, IdsAsStored
<1>3. NoneLeftOver'
  BY DEF StoreInv, NoneLeftOver
<1>4. ListInv'
  BY DEF StoreInv, ListInv, LockFree
<1> QED  BY <1>1, <1>2, <1>3, <1>4 DEF StoreInv

\* The job under way is finished.
LEMMA StoreFinish ==
  ASSUME StoreInv, NEW s, s # "in_progress", FinishJob(s), UNCHANGED <<listing, torn>>
  PROVE  StoreInv'
<1> USE DEF StoreInv
<1>1. /\ stored' = Finished(s) /\ currentJob' = NoJob
      /\ nextJobId' = nextJobId /\ cachedIds' = cachedIds /\ shifted' = shifted
  BY DEF FinishJob
<1>2. /\ DOMAIN stored' \subseteq Nat /\ IsFiniteSet(DOMAIN stored')
      /\ torn = {} => DOMAIN stored' = DOMAIN stored
      /\ \A id \in DOMAIN stored' \ torn : stored'[id].status # "in_progress"
  BY <1>1, FinishedIsRight
<1>3. StoreTypes'
  BY <1>1, <1>2 DEF StoreTypes, LockFree
<1>4. IdsInv'
  BY <1>1, <1>2 DEF IdsInv, IdsAsStored
<1>5. NoneLeftOver'
  BY <1>1, <1>2 DEF NoneLeftOver
<1>6. ListInv'
  BY <1>1 DEF ListInv, LockFree
<1> QED  BY <1>3, <1>4, <1>5, <1>6

-----------------------------------------------------------------------------
(* Ids in order.                                                           *)

Increasing(s) == \A i, k \in DOMAIN s : i < k => s[i] < s[k]

\* A new id is put at the end.
LEMMA AppendInOrder ==
  ASSUME NEW s \in Seq(Nat), NEW x \in Nat, Increasing(s), \A y \in ToSet(s) : y < x
  PROVE  Increasing(Append(s, x)) /\ ToSet(Append(s, x)) = ToSet(s) \cup {x}
<1> DEFINE t == Append(s, x)
           n == Len(s)
<1>1. /\ n \in Nat /\ DOMAIN s = 1..n /\ DOMAIN t = 1..n + 1
      /\ \A k \in 1..n : t[k] = s[k]
      /\ t[n + 1] = x
  BY AppendFacts
<1>2. \A k \in 1..n : s[k] \in Nat /\ s[k] < x
  BY <1>1 DEF ToSet
<1> HIDE DEF t, n
<1>3. ASSUME NEW i \in 1..n + 1, NEW k \in 1..n + 1, i < k  PROVE t[i] < t[k]
  <2>1. i \in 1..n
    BY <1>1, <1>3
  <2>2. CASE k \in 1..n
    BY <1>1, <1>3, <2>1, <2>2 DEF Increasing
  <2>3. CASE k = n + 1
    BY <1>1, <1>2, <2>1, <2>3
  <2> QED  BY <1>1, <2>2, <2>3
<1>4. ToSet(t) \subseteq ToSet(s) \cup {x}
  <2> SUFFICES ASSUME NEW k \in 1..n + 1  PROVE t[k] \in ToSet(s) \cup {x}
    BY <1>1 DEF ToSet
  <2>1. k \in 1..n \/ k = n + 1
    BY <1>1
  <2> QED  BY <1>1, <2>1 DEF ToSet
<1>5. ToSet(s) \cup {x} \subseteq ToSet(t)
  <2>1. \A k \in 1..n : k \in 1..n + 1 /\ s[k] = t[k]
    BY <1>1
  <2>2. n + 1 \in 1..n + 1
    BY <1>1
  <2> QED  BY <1>1, <2>1, <2>2 DEF ToSet
<1>6. Increasing(t)
  BY <1>1, <1>3 DEF Increasing
<1> QED  BY <1>4, <1>5, <1>6 DEF t

\* An id is taken out of its place.
LEMMA RemoveInOrder ==
  ASSUME NEW s \in Seq(Nat), Increasing(s), NEW p \in DOMAIN s
  PROVE  /\ RemoveAt(s, p) \in Seq(Nat) /\ Increasing(RemoveAt(s, p))
         /\ ToSet(RemoveAt(s, p)) = ToSet(s) \ {s[p]}
<1> DEFINE t == RemoveAt(s, p)
           n == Len(s)
<1>1. n \in Nat /\ DOMAIN s = 1..n /\ p \in 1..n /\ \A k \in 1..n : s[k] \in Nat
  OBVIOUS
<1>2. /\ t \in Seq(Nat) /\ Len(t) = n - 1
      /\ \A k \in 1..n - 1 : t[k] = IF k < p THEN s[k] ELSE s[k + 1]
  BY RemovedFacts
<1> HIDE DEF t
<1>3. DOMAIN t = 1..n - 1
  BY <1>1, <1>2
<1> HIDE DEF n
<1>4. ASSUME NEW i \in 1..n - 1, NEW k \in 1..n - 1, i < k  PROVE t[i] < t[k]
  <2> DEFINE was(j) == IF j < p THEN j ELSE j + 1
  <2>1. was(i) \in 1..n /\ was(k) \in 1..n /\ was(i) < was(k)
    BY <1>1, <1>4
  <2>2. t[i] = s[was(i)] /\ t[k] = s[was(k)]
    BY <1>2
  <2> HIDE DEF was
  <2> QED  BY <1>1, <2>1, <2>2 DEF Increasing
<1>5. \A k \in 1..n : k # p => s[k] # s[p]
  <2> TAKE k \in 1..n
  <2>1. k < p => s[k] < s[p]
    BY <1>1 DEF Increasing
  <2>2. p < k => s[p] < s[k]
    BY <1>1 DEF Increasing
  <2> QED  BY <1>1, <2>1, <2>2
<1>6. ToSet(t) \subseteq ToSet(s) \ {s[p]}
  <2> SUFFICES ASSUME NEW k \in 1..n - 1  PROVE t[k] \in ToSet(s) \ {s[p]}
    BY <1>3 DEF ToSet
  <2>1. PICK l \in 1..n : l # p /\ l = IF k < p THEN k ELSE k + 1
    BY <1>1
  <2>2. t[k] = s[l]
    BY <1>2, <2>1
  <2> QED  BY <1>1, <1>5, <2>1, <2>2 DEF ToSet
<1>7. ToSet(s) \ {s[p]} \subseteq ToSet(t)
  <2> SUFFICES ASSUME NEW l \in 1..n, l # p  PROVE s[l] \in ToSet(t)
    BY <1>1 DEF ToSet
  <2>1. PICK k \in 1..n - 1 : l = IF k < p THEN k ELSE k + 1
    <3>1. CASE l < p
      BY <1>1, <3>1
    <3>2. CASE p < l
      <4>1. l - 1 \in 1..n - 1 /\ ~(l - 1 < p) /\ l = (l - 1) + 1
        BY <1>1, <3>2
      <4> QED  BY <4>1
    <3> QED  BY <1>1, <3>1, <3>2
  <2>2. t[k] = s[l]
    BY <1>2, <2>1
  <2> QED  BY <1>3, <2>2 DEF ToSet
<1>8. Increasing(t)
  BY <1>3, <1>4 DEF Increasing
<1> QED  BY <1>2, <1>6, <1>7, <1>8 DEF t

\* A job is added after the one under way was recorded.
LEMMA StoreAdd ==
  ASSUME StoreInv, NEW p, AddJob(p, Finished("cancelled")), UNCHANGED <<listing, torn>>
  PROVE  StoreInv'
<1> USE DEF StoreInv
<1> DEFINE R == Finished("cancelled")
           full == Len(cachedIds) >= MaxStored
           K == IF full THEN Without(R, cachedIds[1]) ELSE R
           c == IF full THEN Tail(cachedIds) ELSE cachedIds
<1>1. /\ currentJob' = [id |-> nextJobId, print |-> p]
      /\ stored' = Inserted(K, nextJobId, [status |-> "in_progress", print |-> p])
      /\ cachedIds' = Append(c, nextJobId) /\ nextJobId' = nextJobId + 1
      /\ shifted' = (shifted \/ (full /\ listing # NoListing))
  BY DEF AddJob
<1>2. /\ DOMAIN R \subseteq Nat /\ IsFiniteSet(DOMAIN R)
      /\ torn = {} => DOMAIN R = DOMAIN stored
      /\ \A id \in DOMAIN R \ torn : R[id].status # "in_progress"
  BY FinishedIsRight
<1> HIDE DEF R
<1>3. /\ DOMAIN K \subseteq DOMAIN R /\ \A id \in DOMAIN K : K[id] = R[id]
      /\ full => DOMAIN K = DOMAIN R \ {cachedIds[1]}
      /\ ~full => DOMAIN K = DOMAIN R
  BY DEF Without, Restrict
<1>4. /\ nextJobId \in Nat /\ cachedIds \in Seq(Nat) /\ Len(cachedIds) \in Nat
      /\ full => Len(cachedIds) >= 1
  BY HistoryAssumption DEF StoreTypes
<1>5. /\ c \in Seq(Nat) /\ Len(c) \in Nat
      /\ full => /\ Len(c) = Len(cachedIds) - 1
                 /\ \A k \in 1..Len(cachedIds) - 1 : c[k] = cachedIds[k + 1]
  <2>1. CASE full
    BY <1>4, <2>1, TailFacts
  <2>2. CASE ~full
    BY <1>4, <2>2
  <2> QED  BY <2>1, <2>2
<1> HIDE DEF K
<1>6. /\ cachedIds' \in Seq(Nat) /\ Len(cachedIds') = Len(c) + 1
      /\ \A k \in 1..Len(c) : cachedIds'[k] = c[k]
  BY <1>1, <1>4, <1>5, AppendFacts
<1>7. /\ DOMAIN stored' = DOMAIN K \cup {nextJobId}
      /\ stored'[nextJobId] = [status |-> "in_progress", print |-> p]
      /\ \A id \in DOMAIN K : id # nextJobId => stored'[id] = R[id]
  BY <1>1, <1>3 DEF Inserted
<1>8. currentJob' # NoJob /\ currentJob'.id = nextJobId
  BY <1>1, <1>4 DEF NoJob
<1>9. StoreTypes'
  <2>1. IsFiniteSet(DOMAIN K)
    BY <1>2, <1>3, FS_Subset
  <2>2. IsFiniteSet(DOMAIN K \cup {nextJobId})
    BY <2>1, FS_AddElement
  <2>3. nextJobId' \in Nat /\ DOMAIN stored' \subseteq Nat
    BY <1>1, <1>2, <1>3, <1>4, <1>7
  <2>4. (~LockFree => listing \in [order : {"asc", "desc"}, count : Nat, jobs : Seq(Nat),
                                   ids : Seq(Nat)])'
    BY DEF StoreTypes, LockFree
  <2> QED  BY <1>4, <1>6, <1>7, <1>8, <2>2, <2>3, <2>4 DEF StoreTypes
<1>10. NoneLeftOver'
  <2> SUFFICES ASSUME NEW id \in DOMAIN stored' \ torn
               PROVE  stored'[id].status = "in_progress" <=> id = nextJobId
    BY <1>8 DEF NoneLeftOver
  <2>1. CASE id = nextJobId
    BY <1>7, <2>1
  <2>2. CASE id # nextJobId
    BY <1>2, <1>3, <1>7, <2>2
  <2> QED  BY <2>1, <2>2
<1>11. IdsInv'
  <2> SUFFICES ASSUME torn = {}  PROVE IdsAsStored' /\ currentJob'.id \in DOMAIN stored'
    BY DEF IdsInv, IdsAsStored
  <2>1. /\ ToSet(cachedIds) = DOMAIN stored /\ Increasing(cachedIds)
        /\ \A id \in DOMAIN stored : id < nextJobId
    BY DEF IdsInv, IdsAsStored, Increasing
  <2>2. Increasing(c) /\ ToSet(c) = DOMAIN K
    <3>1. CASE full
      <4>1. c = RemoveAt(cachedIds, 1)
        BY <1>4, <3>1 DEF RemoveAt
      <4>2. 1 \in DOMAIN cachedIds
        BY <1>4, <3>1
      <4> QED  BY <1>2, <1>3, <1>4, <2>1, <3>1, <4>1, <4>2, RemoveInOrder
    <3>2. CASE ~full
      BY <1>2, <1>3, <2>1, <3>2
    <3> QED  BY <3>1, <3>2
  <2>3. \A y \in ToSet(c) : y < nextJobId
    BY <1>2, <1>3, <2>1, <2>2
  <2> HIDE DEF c
  <2>4. Increasing(cachedIds') /\ ToSet(cachedIds') = ToSet(c) \cup {nextJobId}
    BY <1>1, <1>4, <1>5, <2>2, <2>3, AppendInOrder
  <2>5. \A id \in DOMAIN stored' : id < nextJobId'
    BY <1>1, <1>2, <1>3, <1>4, <1>7, <2>2, <2>3
  <2> QED  BY <1>7, <1>8, <2>2, <2>4, <2>5 DEF IdsAsStored, Increasing
<1>12. ListInv'
  <2> SUFFICES ASSUME ~LockFree  PROVE ListInv'
    BY DEF ListInv, LockFree
  <2>1. Len(cachedIds) <= Len(cachedIds')
    BY <1>4, <1>5, <1>6
  <2>2. listing.count \in Nat /\ listing.count <= Len(cachedIds)
    BY DEF StoreTypes, ListInv
  <2>3. ASSUME ~shifted'  PROVE \A i \in 1..listing.count : cachedIds'[i] = cachedIds[i]
    <3>1. ~full
      BY <1>1, <2>3 DEF LockFree
    <3>2. c = cachedIds
      BY <3>1
    <3> HIDE DEF c, full
    <3>3. \A i \in 1..listing.count : i \in 1..Len(c)
      BY <1>4, <2>2, <3>2
    <3> QED  BY <1>6, <3>2, <3>3
  <2>4. shifted => shifted'
    BY <1>1
  <2>5. listing' = listing /\ Len(cachedIds') \in Nat
    BY <1>6
  <2>6. listing.count = Len(listing.ids) /\ Len(listing.jobs) <= listing.count
    BY DEF ListInv
  <2>7. listing.count <= Len(cachedIds')
    BY <1>4, <2>1, <2>2, <2>5
  <2>8. ~shifted' => /\ \A i \in 1..listing.count : cachedIds'[i] = listing.ids[i]
                     /\ \A i \in 1..Len(listing.jobs) :
                          listing.jobs[i] = IF listing.order = "asc" THEN listing.ids[i]
                                            ELSE listing.ids[listing.count + 1 - i]
    BY <2>3, <2>4 DEF ListInv
  <2> QED  BY <2>5, <2>6, <2>7, <2>8 DEF ListInv
<1> QED  BY <1>9, <1>10, <1>11, <1>12

\* Moonraker starts with the ids that the database has.
LEMMA StoreRestart ==
  ASSUME StoreInv, NEW dies \in BOOLEAN, ServerRestart(dies)
  PROVE  StoreInv'
<1> USE DEF StoreInv
<1> DEFINE records == IF dies THEN stored ELSE Finished("server_exit")
           ids == Sorted(DOMAIN records)
           N == Cardinality(DOMAIN records)
<1>1. /\ stored' = records /\ cachedIds' = ids
      /\ nextJobId' = IF ids = << >> THEN 0 ELSE Last(ids) + 1
      /\ currentJob' = NoJob /\ listing' = NoListing
      /\ torn' = IF dies /\ currentJob # NoJob THEN torn \cup {currentJob.id} ELSE torn
  BY DEF ServerRestart
<1>2. DOMAIN records \subseteq Nat /\ IsFiniteSet(DOMAIN records)
  <2>1. CASE dies
    BY <2>1 DEF StoreTypes
  <2>2. CASE ~dies
    BY <2>2, FinishedIsRight
  <2> QED  BY <2>1, <2>2
<1>3. \A id \in DOMAIN records \ torn' : records[id].status # "in_progress"
  <2>1. CASE dies
    <3> SUFFICES ASSUME NEW id \in DOMAIN stored \ torn'  PROVE stored[id].status # "in_progress"
      BY <2>1
    <3>1. id \notin torn /\ (currentJob # NoJob => currentJob.id # id)
      BY <1>1, <2>1
    <3> QED  BY <3>1 DEF NoneLeftOver
  <2>2. CASE ~dies
    <3>1. torn' = torn
      BY <1>1, <2>2
    <3> QED  BY <2>2, <3>1, FinishedIsRight
  <2> QED  BY <2>1, <2>2
<1> HIDE DEF records
<1>4. /\ ids \in Seq(DOMAIN records) /\ Len(ids) = N /\ N \in Nat
      /\ \A x \in DOMAIN records : \E k \in 1..N : ids[k] = x
      /\ \A k \in 1..N : ids[k] \in DOMAIN records
      /\ \A k, l \in 1..N : k < l => ids[k] < ids[l]
  BY <1>2, SortedFacts
<1> HIDE DEF ids, N
<1>5. ids \in Seq(Nat) /\ DOMAIN ids = 1..N
  BY <1>2, <1>4
<1>6. nextJobId' \in Nat /\ \A k \in 1..N : ids[k] < nextJobId'
  <2>1. CASE ids = << >>
    BY <1>1, <1>4, <2>1
  <2>2. CASE ids # << >>
    <3>1. N \in 1..N /\ Last(ids) = ids[N]
      BY <1>4, <1>5, <2>2, EmptySeq DEF Last
    <3>2. PICK z \in Nat : z = ids[N] /\ nextJobId' = z + 1
      BY <1>1, <1>2, <1>4, <2>2, <3>1
    <3>3. \A k \in 1..N : ids[k] \in Nat /\ (k = N \/ ids[k] < z)
      BY <1>2, <1>4, <3>1, <3>2
    <3> QED  BY <3>2, <3>3
  <2> QED  BY <2>1, <2>2
<1>7. StoreTypes'
  BY <1>1, <1>2, <1>5, <1>6 DEF StoreTypes, LockFree
<1>8. IdsInv'
  <2>1. ToSet(ids) = DOMAIN records
    BY <1>4, <1>5 DEF ToSet
  <2>2. \A id \in DOMAIN records : id < nextJobId'
    BY <1>4, <1>6
  <2> QED  BY <1>1, <1>4, <1>5, <2>1, <2>2 DEF IdsInv, IdsAsStored
<1>9. NoneLeftOver'
  BY <1>1, <1>3 DEF NoneLeftOver
<1>10. ListInv'
  BY <1>1 DEF ListInv, LockFree
<1> QED  BY <1>7, <1>8, <1>9, <1>10

\* A request deletes a job, or all of them.
LEMMA StoreDelete ==
  ASSUME StoreInv, \/ \E id \in DOMAIN stored : DeleteRequest(id)
                   \/ DeleteAllRequest
  PROVE  StoreInv'
<1> USE DEF StoreInv
<1>1. ASSUME NEW id \in DOMAIN stored, DeleteRequest(id)  PROVE StoreInv'
  <2>1. /\ LockFree /\ id \in ToSet(cachedIds)
        /\ stored' = Without(stored, id) /\ cachedIds' = RemoveAt(cachedIds, Place(id))
        /\ UNCHANGED <<currentJob, nextJobId, listing>>
        /\ torn \subseteq torn'
        /\ torn' = {} => torn = {} /\ (currentJob # NoJob => currentJob.id # id)
    BY <1>1 DEF DeleteRequest, TornBy
  <2>2. DOMAIN stored' = DOMAIN stored \ {id} /\ \A i \in DOMAIN stored' : stored'[i] = stored[i]
    BY <2>1 DEF Without, Restrict
  <2>3. cachedIds \in Seq(Nat)
    BY DEF StoreTypes
  <2>4. Place(id) \in DOMAIN cachedIds /\ cachedIds[Place(id)] = id
    BY <2>1 DEF Place, ToSet
  <2>5. cachedIds' \in Seq(Nat)
    BY <2>1, <2>3, <2>4, RemovedFacts
  <2>6. IdsInv'
    <3> SUFFICES ASSUME torn' = {}
                 PROVE  IdsAsStored' /\ (currentJob' # NoJob => currentJob'.id \in DOMAIN stored')
      BY DEF IdsInv
    <3>1. /\ ToSet(cachedIds) = DOMAIN stored /\ Increasing(cachedIds)
          /\ \A i \in DOMAIN stored : i < nextJobId
          /\ currentJob # NoJob => currentJob.id \in DOMAIN stored
      BY <2>1 DEF IdsInv, IdsAsStored, Increasing
    <3>2. PICK k \in DOMAIN cachedIds : k = Place(id)
      BY <2>4
    <3>3. Increasing(RemoveAt(cachedIds, k)) /\ ToSet(RemoveAt(cachedIds, k)) = DOMAIN stored \ {id}
      BY <2>3, <2>4, <3>1, <3>2, RemoveInOrder
    <3> QED  BY <2>1, <2>2, <3>1, <3>2, <3>3 DEF IdsAsStored, Increasing
  <2>7. StoreTypes'
    <3>1. IsFiniteSet(DOMAIN stored) /\ DOMAIN stored' \subseteq DOMAIN stored
      BY <2>2 DEF StoreTypes
    <3>2. IsFiniteSet(DOMAIN stored')
      BY <3>1, FS_Subset
    <3> QED  BY <2>1, <2>5, <3>1, <3>2 DEF StoreTypes, LockFree
  <2>8. NoneLeftOver'
    BY <2>1, <2>2 DEF NoneLeftOver
  <2>9. ListInv'
    BY <2>1 DEF ListInv, LockFree
  <2> QED  BY <2>6, <2>7, <2>8, <2>9
<1>2. ASSUME DeleteAllRequest  PROVE StoreInv'
  <2>1. /\ LockFree /\ stored' = << >> /\ cachedIds' = << >> /\ nextJobId' = 0
        /\ UNCHANGED <<currentJob, listing>>
        /\ torn' = {} => torn = {} /\ (currentJob # NoJob => currentJob.id \notin DOMAIN stored)
    BY <1>2 DEF DeleteAllRequest, TornBy
  <2>2. DOMAIN stored' = {} /\ cachedIds' \in Seq(Nat) /\ DOMAIN cachedIds' = {}
    BY <2>1
  <2>3. torn' = {} => currentJob = NoJob
    BY <2>1 DEF IdsInv
  <2>4. IsFiniteSet(DOMAIN stored')
    BY <2>2, FS_EmptySet
  <2>5. StoreTypes'
    BY <2>1, <2>2, <2>4 DEF StoreTypes, LockFree
  <2>6. IdsInv'
    BY <2>1, <2>2, <2>3 DEF IdsInv, IdsAsStored, ToSet
  <2>7. NoneLeftOver'
    BY <2>2 DEF NoneLeftOver
  <2>8. ListInv'
    BY <2>1 DEF ListInv, LockFree
  <2> QED  BY <2>5, <2>6, <2>7, <2>8
<1> QED  BY <1>1, <1>2

\* A list is asked for, read and sent.
LEMMA StoreList ==
  ASSUME StoreInv, \/ \E order \in {"asc", "desc"} : ListRequest(order)
                   \/ ListJob \/ ListReply
  PROVE  StoreInv'
<1> USE DEF StoreInv
<1>1. UNCHANGED <<currentJob, nextJobId, cachedIds, stored, torn>>
  BY DEF ListRequest, ListJob, ListReply, storeVars
<1>2. IdsInv' /\ NoneLeftOver'
  BY <1>1 DEF IdsInv, IdsAsStored, NoneLeftOver
<1>3. cachedIds \in Seq(Nat) /\ Len(cachedIds) \in Nat
  BY DEF StoreTypes
<1>4. ASSUME NEW order \in {"asc", "desc"}, ListRequest(order)
      PROVE  /\ listing' \in [order : {"asc", "desc"}, count : Nat, jobs : Seq(Nat), ids : Seq(Nat)]
             /\ ListInv'
  <2>1. listing' = [order |-> order, count |-> Len(cachedIds), jobs |-> << >>, ids |-> cachedIds]
    BY <1>4 DEF ListRequest
  <2>2. /\ listing'.count = Len(cachedIds) /\ listing'.ids = cachedIds
        /\ listing'.jobs = << >> /\ Len(listing'.jobs) = 0
    BY <2>1
  <2>3. ListInv'
    BY <1>1, <1>3, <2>2 DEF ListInv
  <2> QED  BY <1>3, <2>1, <2>3
<1>5. ASSUME ListJob
      PROVE  /\ listing' \in [order : {"asc", "desc"}, count : Nat, jobs : Seq(Nat), ids : Seq(Nat)]
             /\ ListInv'
  <2>1. /\ ~LockFree /\ Len(listing.jobs) < listing.count
        /\ listing \in [order : {"asc", "desc"}, count : Nat, jobs : Seq(Nat), ids : Seq(Nat)]
        /\ listing' = [listing EXCEPT !.jobs = Append(@, NextListed)]
        /\ shifted' = shifted
    BY <1>5 DEF ListJob, StoreTypes
  <2>2. PICK n \in Nat, i \in Nat, read \in Seq(Nat) :
             n = listing.count /\ i = Len(listing.jobs) /\ read = listing.jobs
    <3>1. listing.count \in Nat /\ listing.jobs \in Seq(Nat)
      BY <2>1
    <3>2. Len(listing.jobs) \in Nat
      BY <3>1
    <3> QED  BY <3>1, <3>2
  <2>3. n <= Len(cachedIds) /\ i < n /\ n = Len(listing.ids)
    BY <2>1, <2>2 DEF ListInv
  <2>4. PICK k \in 1..n : k = (IF listing.order = "asc" THEN 1 + i ELSE n - i)
    <3>1. 1 + i \in 1..n /\ n - i \in 1..n
      BY <2>3
    <3> QED  BY <3>1
  <2>5. NextListed = cachedIds[k]
    BY <2>2, <2>4 DEF NextListed
  <2>6. PICK x \in Nat : x = cachedIds[k]
    BY <1>3, <2>3
  <2>7. /\ Append(read, x) \in Seq(Nat) /\ Len(Append(read, x)) = i + 1
        /\ \A l \in 1..i : Append(read, x)[l] = read[l]
        /\ Append(read, x)[i + 1] = x
    BY <2>2, AppendFacts
  <2>8. /\ listing'.order = listing.order /\ listing'.count = n /\ listing'.ids = listing.ids
        /\ listing'.jobs = Append(read, x)
        /\ listing' \in [order : {"asc", "desc"}, count : Nat, jobs : Seq(Nat), ids : Seq(Nat)]
    BY <2>1, <2>2, <2>5, <2>6, <2>7
  <2>9. ASSUME ~shifted'
        PROVE  /\ \A l \in 1..n : cachedIds[l] = listing.ids[l]
               /\ \A l \in 1..i + 1 : Append(read, x)[l] =
                     IF listing.order = "asc" THEN listing.ids[l] ELSE listing.ids[n + 1 - l]
    <3>1. /\ \A l \in 1..n : cachedIds[l] = listing.ids[l]
          /\ \A l \in 1..i : read[l] =
                IF listing.order = "asc" THEN listing.ids[l] ELSE listing.ids[n + 1 - l]
      BY <2>1, <2>2, <2>9 DEF ListInv
    <3>2. x = IF listing.order = "asc" THEN listing.ids[i + 1] ELSE listing.ids[n + 1 - (i + 1)]
      <4>1. x = listing.ids[k]
        BY <2>6, <3>1
      <4>2. k = IF listing.order = "asc" THEN i + 1 ELSE n + 1 - (i + 1)
        BY <2>4
      <4> QED  BY <4>1, <4>2
    <3>3. ASSUME NEW l \in 1..i + 1
          PROVE  Append(read, x)[l] =
                    IF listing.order = "asc" THEN listing.ids[l] ELSE listing.ids[n + 1 - l]
      <4>1. l \in 1..i \/ l = i + 1
        BY <2>2
      <4> QED  BY <2>7, <3>1, <3>2, <4>1
    <3> QED  BY <3>1, <3>3
  <2>10. listing'.count <= Len(cachedIds') /\ Len(listing'.jobs) <= n /\ n = Len(listing'.ids)
    BY <1>1, <2>2, <2>3, <2>7, <2>8
  <2>11. ListInv'
    <3>1. ~shifted' =>
            /\ \A l \in 1..listing'.count : cachedIds'[l] = listing'.ids[l]
            /\ \A l \in 1..Len(listing'.jobs) : listing'.jobs[l] =
                  IF listing'.order = "asc" THEN listing'.ids[l]
                  ELSE listing'.ids[listing'.count + 1 - l]
      BY <1>1, <2>7, <2>8, <2>9
    <3> QED  BY <2>8, <2>10, <3>1 DEF ListInv
  <2> QED  BY <2>8, <2>11
<1>6. ASSUME ListReply  PROVE LockFree'
  BY <1>6 DEF ListReply, LockFree
<1>7. /\ ListInv'
      /\ ~LockFree' => listing' \in [order : {"asc", "desc"}, count : Nat, jobs : Seq(Nat),
                                     ids : Seq(Nat)]
  BY <1>4, <1>5, <1>6 DEF ListInv
<1> QED  BY <1>1, <1>2, <1>7 DEF StoreTypes

-----------------------------------------------------------------------------
(* The prints: what Klipper reports and what is recorded of it.            *)

Ends == {"complete", "cancelled", "error"}
JobStates == Ends \cup {"standby", "printing", "paused"}

PrintTypes ==
    /\ stats \in [state : JobStates, file : Files \cup {NoFile}, duration : Nat, print : Nat]
    /\ lastStats \in [state : JobStates \cup {"unknown"}, file : Files \cup {NoFile},
                      duration : Nat, print : Nat]
    /\ outcome \in Seq(Ends \cup {"none"})
    /\ {missed, restarted} \subseteq BOOLEAN

PrintsKnown ==
    /\ \A id \in DOMAIN stored : stored[id].print \in 1..Len(outcome)
    /\ currentJob # NoJob => currentJob.print \in 1..Len(outcome)
    /\ stats.print \in 0..Len(outcome) /\ lastStats.print \in 0..Len(outcome)
    /\ stats.print = 0 <=> stats.state = "standby"
    /\ stats.state \in Ends => outcome[stats.print] = stats.state
    /\ Running(stats) => outcome[stats.print] = "none"

SeenInOrder ==
    /\ stats.print # 0 /\ lastStats.print = stats.print =>
           /\ lastStats.duration = stats.duration /\ lastStats.file = stats.file
           /\ Running(stats) => Running(lastStats)
    /\ link = "none" => currentJob = NoJob
    /\ currentJob # NoJob =>
           /\ Running(lastStats) /\ lastStats.duration >= 1
           /\ lastStats.print # stats.print => stats.duration = 0
           /\ ~missed => currentJob.print = lastStats.print
           /\ ~missed /\ lastStats.print # stats.print /\ stats.print # 0 =>
                  lastStats.state # "printing" /\ stats.state = "printing"

RecordedOnce ==
    ~restarted =>
        /\ \A i, j \in DOMAIN stored : stored[i].print = stored[j].print => i = j
        /\ \A i \in DOMAIN stored : stored[i].print = stats.print => lastStats.print = stats.print
        /\ currentJob # NoJob =>
              /\ currentJob.print = stats.print => lastStats.print = stats.print
              /\ \A i \in DOMAIN stored : stored[i].print = currentJob.print => i = currentJob.id

PrintInv == PrintTypes /\ PrintsKnown /\ SeenInOrder /\ RecordedOnce /\ StatusTrue

\* A print begins.
LEMMA PrintBegins ==
  ASSUME PrintInv, NEW f \in Files \cup {NoFile}, Begin(f), UNCHANGED <<moonrakerVars, boundVars>>
  PROVE  PrintInv'
<1> USE DEF PrintInv
<1> DEFINE n == Len(outcome)
<1>1. /\ stats' = [state |-> "printing", file |-> f, duration |-> 0, print |-> n + 1]
      /\ outcome' = Append(outcome, "none")
      /\ missed' = (missed \/ lastStats.state = "printing")
      /\ UNCHANGED <<link, lastStats, currentJob, stored, restarted>>
  BY DEF Begin, moonrakerVars, storeVars, boundVars
<1>2. /\ stats'.state = "printing" /\ stats'.duration = 0 /\ stats'.print = n + 1
      /\ missed' \in BOOLEAN
  BY <1>1 DEF PrintTypes
<1>3. /\ n \in Nat /\ outcome' \in Seq(Ends \cup {"none"}) /\ Len(outcome') = n + 1
      /\ \A k \in 1..n : outcome'[k] = outcome[k]
      /\ outcome'[n + 1] = "none"
  BY <1>1, AppendFacts DEF PrintTypes
<1> HIDE DEF n
<1>4. PrintTypes'
  <2>1. stats' \in [state : JobStates, file : Files \cup {NoFile}, duration : Nat, print : Nat]
    BY <1>1, <1>3 DEF JobStates
  <2> QED  BY <1>1, <1>2, <1>3, <2>1 DEF PrintTypes
<1>5. /\ \A id \in DOMAIN stored : stored[id].print \in 1..n
      /\ currentJob # NoJob => currentJob.print \in 1..n
      /\ lastStats.print \in 0..n
  BY DEF PrintsKnown, n
<1>6. PrintsKnown'
  BY <1>1, <1>2, <1>3, <1>5 DEF PrintsKnown, Ends, Running
<1>7. SeenInOrder'
  <2>1. lastStats.print # n + 1 /\ n + 1 # 0
    BY <1>3, <1>5
  <2> QED  BY <1>1, <1>2, <2>1 DEF SeenInOrder, Running
<1>8. RecordedOnce'
  <2>1. /\ \A id \in DOMAIN stored : stored[id].print # n + 1
        /\ currentJob # NoJob => currentJob.print # n + 1
    BY <1>3, <1>5
  <2> QED  BY <1>1, <1>2, <2>1 DEF RecordedOnce
<1>9. StatusTrue'
  <2> SUFFICES ASSUME ~missed', NEW id \in DOMAIN stored
               PROVE  /\ stored[id].status = "completed" => outcome'[stored[id].print] = "complete"
                      /\ stored[id].status = "error" => outcome'[stored[id].print] = "error"
    BY <1>1 DEF StatusTrue
  <2>1. outcome'[stored[id].print] = outcome[stored[id].print]
    BY <1>3, <1>5
  <2>2. ~missed
    BY <1>1
  <2> QED  BY <2>1, <2>2 DEF StatusTrue
<1> QED  BY <1>4, <1>6, <1>7, <1>8, <1>9

\* A print that is under way is paused, resumed or ended.
LEMMA PrintGoesOn ==
  ASSUME PrintInv, NEW st, Running(stats), stats' = [stats EXCEPT !.state = st],
         \/ /\ st = "printing" /\ stats.state = "paused"
            /\ UNCHANGED <<outcome, missed>>
         \/ st = "paused" /\ missed' = (missed \/ StartUnseen) /\ outcome' = outcome
         \/ /\ st \in Ends /\ missed' = (missed \/ StartUnseen)
            /\ outcome' = [outcome EXCEPT ![stats.print] = st],
         UNCHANGED <<moonrakerVars, boundVars>>
  PROVE  PrintInv'
<1> USE DEF PrintInv
<1>1. /\ UNCHANGED <<link, lastStats, currentJob, stored, restarted>>
      /\ st \in {"printing", "paused"} \cup Ends /\ missed' \in BOOLEAN
  BY DEF moonrakerVars, storeVars, boundVars, PrintTypes
<1>2. /\ stats'.state = st /\ stats'.file = stats.file
      /\ stats'.duration = stats.duration /\ stats'.print = stats.print
      /\ stats' \in [state : JobStates, file : Files \cup {NoFile}, duration : Nat, print : Nat]
  BY <1>1 DEF PrintTypes, JobStates
<1>3. stats.print \in 1..Len(outcome) /\ outcome[stats.print] = "none" /\ Len(outcome) \in Nat
  <2>1. stats.print \in 0..Len(outcome) /\ stats.print # 0
    BY DEF PrintsKnown, Running
  <2> QED  BY <2>1 DEF PrintsKnown, PrintTypes
<1>4. /\ outcome' \in Seq(Ends \cup {"none"}) /\ Len(outcome') = Len(outcome)
      /\ \A k \in 1..Len(outcome) : k # stats.print => outcome'[k] = outcome[k]
      /\ st \in Ends => outcome'[stats.print] = st
      /\ st \notin Ends => outcome' = outcome
  BY <1>1, <1>3 DEF PrintTypes, Ends
<1>5. PrintTypes'
  BY <1>1, <1>2, <1>4 DEF PrintTypes
<1>6. PrintsKnown'
  <2>1. /\ st \in Ends => outcome'[stats'.print] = st
        /\ st \in {"printing", "paused"} => outcome'[stats'.print] = "none"
    BY <1>2, <1>3, <1>4 DEF Ends
  <2>2. stats'.print # 0 /\ stats'.state # "standby"
    BY <1>1, <1>2, <1>3 DEF Ends
  <2>3. /\ \A id \in DOMAIN stored' : stored'[id].print \in 1..Len(outcome')
        /\ currentJob' # NoJob => currentJob'.print \in 1..Len(outcome')
        /\ stats'.print \in 0..Len(outcome') /\ lastStats'.print \in 0..Len(outcome')
    BY <1>1, <1>2, <1>4 DEF PrintsKnown
  <2> QED  BY <1>2, <2>1, <2>2, <2>3 DEF PrintsKnown, Running
<1>7. SeenInOrder'
  <2>1. ~missed' /\ lastStats.print # stats.print =>
            ~missed /\ st = "printing" /\ stats.state # "printing"
    BY DEF StartUnseen
  <2>2. ~missed' => ~missed
    OBVIOUS
  <2>3. ~missed' /\ lastStats.print # stats.print => currentJob = NoJob
    BY <1>3, <2>1 DEF SeenInOrder
  <2>4. Running(stats)' => Running(stats)
    OBVIOUS
  <2>5. Running(lastStats)' <=> Running(lastStats)
    BY <1>1 DEF Running
  <2> QED  BY <1>1, <1>2, <2>2, <2>3, <2>4, <2>5 DEF SeenInOrder
<1>8. RecordedOnce'
  BY <1>1, <1>2 DEF RecordedOnce
<1>9. StatusTrue'
  <2> SUFFICES ASSUME ~missed', NEW id \in DOMAIN stored
               PROVE  /\ stored[id].status = "completed" => outcome'[stored[id].print] = "complete"
                      /\ stored[id].status = "error" => outcome'[stored[id].print] = "error"
    BY <1>1 DEF StatusTrue
  <2>1. /\ stored[id].status = "completed" => outcome[stored[id].print] = "complete"
        /\ stored[id].status = "error" => outcome[stored[id].print] = "error"
    BY DEF StatusTrue
  <2>2. stored[id].print \in 1..Len(outcome)
    BY DEF PrintsKnown
  <2> QED  BY <1>3, <1>4, <2>1, <2>2
<1> QED  BY <1>5, <1>6, <1>7, <1>8, <1>9

\* The steps of Klipper.
LEMMA PrintSteps ==
  ASSUME PrintInv, \/ \E f \in Files : PrintFile(f)
                   \/ NoteStart \/ NotePause
                   \/ \E state \in Ends : NoteFinish(state)
  PROVE  PrintInv'
<1>1. ASSUME NEW f \in Files, PrintFile(f)  PROVE PrintInv'
  BY <1>1, PrintBegins DEF PrintFile
<1>2. ASSUME NoteStart  PROVE PrintInv'
  <2>1. CASE stats.state = "error" /\ Begin(stats.file)
    <3>1. PICK f \in Files \cup {NoFile} : f = stats.file
      BY DEF PrintInv, PrintTypes
    <3> QED  BY <1>2, <2>1, <3>1, PrintBegins DEF NoteStart
  <2>2. CASE /\ stats.state = "paused" /\ stats' = [stats EXCEPT !.state = "printing"]
             /\ UNCHANGED <<outcome, missed>>
    <3>1. Running(stats) /\ UNCHANGED <<moonrakerVars, boundVars>>
      BY <1>2, <2>2 DEF NoteStart, Running
    <3> QED  BY <2>2, <3>1, PrintGoesOn
  <2> QED  BY <1>2, <2>1, <2>2 DEF NoteStart
<1>3. ASSUME NotePause  PROVE PrintInv'
  <2>1. Running(stats) /\ UNCHANGED <<moonrakerVars, boundVars>>
    BY <1>3 DEF NotePause, Running
  <2>2. /\ stats' = [stats EXCEPT !.state = "paused"]
        /\ missed' = (missed \/ StartUnseen) /\ outcome' = outcome
    BY <1>3 DEF NotePause
  <2> QED  BY <2>1, <2>2, PrintGoesOn
<1>4. ASSUME NEW st \in Ends, NoteFinish(st)  PROVE PrintInv'
  BY <1>4, PrintGoesOn DEF NoteFinish
<1> QED  BY <1>1, <1>2, <1>3, <1>4

\* What is reported of a print is reset.
LEMMA PrintReset ==
  ASSUME PrintInv, ResetFile
  PROVE  PrintInv'
<1> USE DEF PrintInv
<1>1. /\ stats' = Reset /\ stats.state # "printing"
      /\ UNCHANGED <<link, lastStats, currentJob, stored, outcome, missed, restarted>>
  BY DEF ResetFile, moonrakerVars, storeVars, boundVars
<1>2. /\ stats'.state = "standby" /\ stats'.print = 0 /\ stats'.duration = 0
      /\ stats' \in [state : JobStates, file : Files \cup {NoFile}, duration : Nat, print : Nat]
  BY <1>1 DEF Reset, JobStates
<1>3. PrintTypes'
  BY <1>1, <1>2 DEF PrintTypes
<1>4. PrintsKnown'
  <2>1. 0 \in 0..Len(outcome)
    BY DEF PrintTypes
  <2> QED  BY <1>1, <1>2, <2>1 DEF PrintsKnown, Running, Ends
<1>5. SeenInOrder'
  BY <1>1, <1>2 DEF SeenInOrder, Running
<1>6. RecordedOnce'
  <2>1. /\ \A id \in DOMAIN stored : stored[id].print # 0
        /\ currentJob # NoJob => currentJob.print # 0
    BY DEF PrintsKnown, PrintTypes
  <2> QED  BY <1>1, <1>2, <2>1 DEF RecordedOnce
<1>7. StatusTrue'
  BY <1>1 DEF StatusTrue
<1> QED  BY <1>3, <1>4, <1>5, <1>6, <1>7

\* What is recorded when the job under way ends.
LEMMA FinishedPrints ==
  ASSUME PrintInv, NEW s,
         ~missed /\ currentJob # NoJob =>
            /\ s = "completed" => outcome[currentJob.print] = "complete"
            /\ s = "error" => outcome[currentJob.print] = "error"
  PROVE  /\ \A id \in DOMAIN Finished(s) : Finished(s)[id].print \in 1..Len(outcome)
         /\ ~restarted =>
              /\ \A i, j \in DOMAIN Finished(s) :
                    Finished(s)[i].print = Finished(s)[j].print => i = j
              /\ \A i \in DOMAIN Finished(s) :
                    Finished(s)[i].print = stats.print => lastStats.print = stats.print
         /\ ~missed => \A id \in DOMAIN Finished(s) :
              /\ Finished(s)[id].status = "completed" =>
                    outcome[Finished(s)[id].print] = "complete"
              /\ Finished(s)[id].status = "error" => outcome[Finished(s)[id].print] = "error"
<1> USE DEF PrintInv
<1>1. CASE currentJob = NoJob
  <2>1. Finished(s) = stored
    BY <1>1, FinishedFacts
  <2> QED  BY <2>1 DEF PrintsKnown, RecordedOnce, StatusTrue
<1>2. CASE currentJob # NoJob
  <2> DEFINE F == Finished(s)  c == currentJob.id
  <2>1. /\ DOMAIN F = DOMAIN stored \cup {c}
        /\ F[c].status = s /\ F[c].print = currentJob.print
        /\ \A i \in DOMAIN stored : i # c => F[i] = stored[i]
    <3>1. F[c] = [status |-> s, print |-> currentJob.print]
      BY <1>2, FinishedFacts
    <3>2. DOMAIN F = DOMAIN stored \cup {c} /\ \A i \in DOMAIN stored : i # c => F[i] = stored[i]
      BY <1>2, FinishedFacts
    <3> HIDE DEF F
    <3> QED  BY <3>1, <3>2
  <2> HIDE DEF F
  <2>2. \A id \in DOMAIN F : F[id].print \in 1..Len(outcome)
    BY <1>2, <2>1 DEF PrintsKnown
  <2>3. ASSUME ~restarted
        PROVE  /\ \A i, j \in DOMAIN F : F[i].print = F[j].print => i = j
               /\ \A i \in DOMAIN F : F[i].print = stats.print => lastStats.print = stats.print
    <3>1. /\ \A i, j \in DOMAIN stored : stored[i].print = stored[j].print => i = j
          /\ \A i \in DOMAIN stored : stored[i].print = stats.print => lastStats.print = stats.print
          /\ currentJob.print = stats.print => lastStats.print = stats.print
          /\ \A i \in DOMAIN stored : stored[i].print = currentJob.print => i = c
      BY <1>2, <2>3 DEF RecordedOnce
    <3> HIDE DEF c
    <3> QED  BY <2>1, <3>1
  <2>4. ASSUME ~missed, NEW id \in DOMAIN F
        PROVE  /\ F[id].status = "completed" => outcome[F[id].print] = "complete"
               /\ F[id].status = "error" => outcome[F[id].print] = "error"
    <3>1. CASE id = c
      BY <1>2, <2>1, <2>4, <3>1
    <3>2. CASE id # c
      <4>1. id \in DOMAIN stored /\ F[id] = stored[id]
        BY <2>1, <3>2
      <4> QED  BY <2>4, <4>1 DEF StatusTrue
    <3> QED  BY <3>1, <3>2
  <2> QED  BY <2>2, <2>3, <2>4 DEF F
<1> QED  BY <1>1, <1>2

\* What a report of Klipper makes of the job under way.
LEMMA EventFacts ==
  ASSUME PrintInv, JobStateUpdate
  PROVE  \/ /\ AddJob(stats'.print, Finished("cancelled"))
            /\ stats'.state = "printing" /\ lastStats.print # stats.print
         \/ \E s \in {"completed", "cancelled", "error"} :
               /\ FinishJob(s)
               /\ s = "completed" => stats.state = "complete"
               /\ s = "error" => stats.state = "error"
         \/ /\ UNCHANGED <<currentJob, storeVars, shifted>>
            /\ currentJob # NoJob =>
                  /\ Running(stats)
                  /\ ~missed => currentJob.print = stats.print
<1> USE DEF PrintInv
<1> DEFINE prev == lastStats  new == stats'  event == JobEvent(prev, new)
<1>1. /\ new = [stats EXCEPT !.duration = IF Running(stats) THEN @ + 1 ELSE @]
      /\ HandleEvent(event, new)
  BY DEF JobStateUpdate
<1>2. /\ new.state = stats.state /\ new.file = stats.file /\ new.print = stats.print
      /\ Running(stats) => new.duration = stats.duration + 1
      /\ stats.duration \in Nat /\ prev.duration \in Nat /\ stats.state \in JobStates
  BY <1>1 DEF PrintTypes
<1>3. CASE new.state # prev.state /\ new.state = "printing" /\ ~CheckResumed(prev, new)
  <2>1. event = "started"
    BY <1>3 DEF JobEvent
  <2>2. AddJob(new.print, Finished("cancelled"))
    BY <1>1, <2>1 DEF HandleEvent
  <2>3. lastStats.print # stats.print
    <3> SUFFICES ASSUME lastStats.print = stats.print  PROVE FALSE
      OBVIOUS
    <3>1. Running(stats) /\ stats.print # 0
      BY <1>2, <1>3 DEF PrintsKnown, Running
    <3>2. prev.duration = stats.duration /\ prev.file = stats.file /\ Running(prev)
      BY <3>1 DEF SeenInOrder
    <3>3. prev.state = "paused" /\ prev.file = new.file
      BY <1>2, <1>3, <3>2 DEF Running
    <3>4. prev.duration < new.duration
      BY <1>2, <3>1, <3>2
    <3> QED  BY <1>3, <3>3, <3>4 DEF CheckResumed
  <2> QED  BY <1>3, <2>2, <2>3
<1>4. CASE new.state # prev.state /\ new.state = "printing" /\ CheckResumed(prev, new)
  <2>1. event = "resumed"
    BY <1>4 DEF JobEvent
  <2>2. UNCHANGED <<currentJob, storeVars, shifted>>
    BY <1>1, <2>1 DEF HandleEvent
  <2>3. Running(stats) /\ stats.print # 0 /\ stats.state = "printing"
    BY <1>2, <1>4 DEF PrintsKnown, Running
  <2>4. ASSUME currentJob # NoJob, ~missed  PROVE currentJob.print = stats.print
    <3>1. currentJob.print = lastStats.print /\ lastStats.duration >= 1
      BY <2>4 DEF SeenInOrder
    <3>2. CASE lastStats.print = stats.print
      BY <3>1, <3>2
    <3>3. CASE lastStats.print # stats.print
      <4>1. stats.duration = 0
        BY <2>4, <3>3 DEF SeenInOrder
      <4>2. prev.duration < 1
        BY <1>2, <1>4, <2>3, <4>1 DEF CheckResumed
      <4> QED  BY <1>2, <3>1, <4>2
    <3> QED  BY <3>2, <3>3
  <2> QED  BY <2>2, <2>3, <2>4
<1>5. CASE new.state = prev.state
  <2>1. event = "none"
    BY <1>5 DEF JobEvent
  <2>2. UNCHANGED <<currentJob, storeVars, shifted>>
    BY <1>1, <2>1 DEF HandleEvent
  <2>3. ASSUME currentJob # NoJob  PROVE Running(stats) /\ (~missed => currentJob.print = stats.print)
    <3>1. Running(stats)
      BY <1>2, <1>5, <2>3 DEF SeenInOrder, Running
    <3>2. stats.print # 0
      BY <3>1 DEF PrintsKnown, Running
    <3>3. ~missed => lastStats.print = stats.print
      BY <1>2, <1>5, <2>3, <3>2 DEF SeenInOrder
    <3> QED  BY <2>3, <3>1, <3>3 DEF SeenInOrder
  <2> QED  BY <2>2, <2>3
<1>6. CASE new.state # prev.state /\ new.state = "paused"
  <2>1. event = "paused"
    BY <1>6 DEF JobEvent
  <2>2. UNCHANGED <<currentJob, storeVars, shifted>>
    BY <1>1, <2>1 DEF HandleEvent
  <2>3. Running(stats) /\ stats.print # 0 /\ stats.state # "printing"
    BY <1>2, <1>6 DEF PrintsKnown, Running
  <2>4. ASSUME currentJob # NoJob, ~missed  PROVE currentJob.print = stats.print
    BY <2>3, <2>4 DEF SeenInOrder
  <2> QED  BY <2>2, <2>3, <2>4
<1>7. CASE new.state # prev.state /\ new.state \in {"complete", "cancelled", "error", "standby"}
  <2>1. event = new.state
    BY <1>7 DEF JobEvent
  <2>2. \/ new.state = "complete" /\ FinishJob("completed")
        \/ new.state = "error" /\ FinishJob("error")
        \/ FinishJob("cancelled")
    BY <1>1, <1>7, <2>1 DEF HandleEvent
  <2> QED  BY <1>2, <2>2
<1> QED  BY <1>2, <1>3, <1>4, <1>5, <1>6, <1>7 DEF JobStates, Ends

\* A report of Klipper.
LEMMA PrintReport ==
  ASSUME PrintInv, JobStateUpdate
  PROVE  PrintInv'
<1> USE DEF PrintInv
<1>1. /\ stats' = [stats EXCEPT !.duration = IF Running(stats) THEN @ + 1 ELSE @]
      /\ lastStats' = stats' /\ link # "none"
      /\ UNCHANGED <<link, outcome, missed, restarted>>
  BY DEF JobStateUpdate, boundVars
<1>2. /\ stats'.state = stats.state /\ stats'.file = stats.file /\ stats'.print = stats.print
      /\ stats'.duration \in Nat /\ (Running(stats) => stats'.duration >= 1)
      /\ lastStats'.state = stats.state /\ lastStats'.print = stats.print
      /\ lastStats'.duration = stats'.duration /\ lastStats'.file = stats'.file
  BY <1>1 DEF PrintTypes
<1>3. PrintTypes'
  <2>1. stats' \in [state : JobStates, file : Files \cup {NoFile}, duration : Nat, print : Nat]
    BY <1>1, <1>2 DEF PrintTypes
  <2>2. lastStats' \in [state : JobStates \cup {"unknown"}, file : Files \cup {NoFile},
                        duration : Nat, print : Nat]
    BY <1>1, <2>1
  <2> QED  BY <1>1, <2>1, <2>2 DEF PrintTypes
<1>4. /\ Running(stats)' <=> Running(stats)
      /\ Running(lastStats)' <=> Running(stats)
  BY <1>2 DEF Running
<1> DEFINE Known == /\ \A id \in DOMAIN stored' : stored'[id].print \in 1..Len(outcome)
                    /\ currentJob' # NoJob => currentJob'.print \in 1..Len(outcome)
           Seen == currentJob' # NoJob =>
                       Running(stats) /\ (~missed => currentJob'.print = stats.print)
           OneEach == ~restarted =>
                     /\ \A i, j \in DOMAIN stored' : stored'[i].print = stored'[j].print => i = j
                     /\ currentJob' # NoJob =>
                           \A i \in DOMAIN stored' :
                              stored'[i].print = currentJob'.print => i = currentJob'.id
           True == ~missed =>
                     \A id \in DOMAIN stored' :
                        /\ stored'[id].status = "completed" => outcome[stored'[id].print] = "complete"
                        /\ stored'[id].status = "error" => outcome[stored'[id].print] = "error"
<1>5. Known /\ Seen /\ OneEach /\ True
  <2>1. CASE /\ AddJob(stats'.print, Finished("cancelled"))
             /\ stats'.state = "printing" /\ lastStats.print # stats.print
    <3> DEFINE R == Finished("cancelled")
               n == nextJobId
               K == IF Len(cachedIds) >= MaxStored THEN Without(R, cachedIds[1]) ELSE R
    <3>1. /\ currentJob' = [id |-> n, print |-> stats'.print]
          /\ stored' = Inserted(K, n, [status |-> "in_progress", print |-> stats'.print])
      BY <2>1 DEF AddJob
    <3>2. /\ \A id \in DOMAIN R : R[id].print \in 1..Len(outcome)
          /\ ~restarted =>
               /\ \A i, j \in DOMAIN R : R[i].print = R[j].print => i = j
               /\ \A i \in DOMAIN R : R[i].print # stats.print
          /\ ~missed => \A id \in DOMAIN R :
               /\ R[id].status = "completed" => outcome[R[id].print] = "complete"
               /\ R[id].status = "error" => outcome[R[id].print] = "error"
      BY <2>1, FinishedPrints
    <3> HIDE DEF R
    <3>3. DOMAIN K \subseteq DOMAIN R /\ \A id \in DOMAIN K : K[id] = R[id]
      BY DEF Without, Restrict
    <3> HIDE DEF K, n
    <3>4. /\ n \in DOMAIN stored' /\ stored'[n].status = "in_progress"
          /\ stored'[n].print = stats.print
          /\ \A id \in DOMAIN stored' : id # n => id \in DOMAIN R /\ stored'[id] = R[id]
          /\ currentJob'.id = n /\ currentJob'.print = stats.print
      <4>1. DOMAIN stored' = DOMAIN K \cup {n}
        BY <3>1 DEF Inserted
      <4>2. \A id \in DOMAIN stored' :
               stored'[id] = IF id = n THEN [status |-> "in_progress", print |-> stats'.print]
                             ELSE K[id]
        BY <3>1 DEF Inserted
      <4> QED  BY <1>2, <3>1, <3>3, <4>1, <4>2
    <3>5. Running(stats) /\ stats.print \in 1..Len(outcome)
      <4>1. stats.print # 0 /\ stats.print \in 0..Len(outcome)
        BY <1>2, <2>1 DEF PrintsKnown
      <4> QED  BY <1>2, <2>1, <4>1 DEF Running
    <3>6. Known
      BY <3>2, <3>4, <3>5
    <3>7. Seen
      BY <3>4, <3>5
    <3>8. OneEach
      BY <3>2, <3>4
    <3>9. True
      BY <3>2, <3>4
    <3> QED  BY <3>6, <3>7, <3>8, <3>9
  <2>2. ASSUME NEW s \in {"completed", "cancelled", "error"}, FinishJob(s),
               s = "completed" => stats.state = "complete",
               s = "error" => stats.state = "error"
        PROVE  Known /\ Seen /\ OneEach /\ True
    <3>1. stored' = Finished(s) /\ currentJob' = NoJob
      BY <2>2 DEF FinishJob
    <3>2. ASSUME ~missed, currentJob # NoJob, stats.state \in Ends
          PROVE  outcome[currentJob.print] = stats.state
      <4>1. stats.print # 0 /\ stats.state # "printing" /\ outcome[stats.print] = stats.state
        BY <3>2 DEF PrintsKnown, Ends
      <4> QED  BY <3>2, <4>1 DEF SeenInOrder
    <3>3. ~missed /\ currentJob # NoJob =>
             /\ s = "completed" => outcome[currentJob.print] = "complete"
             /\ s = "error" => outcome[currentJob.print] = "error"
      BY <2>2, <3>2 DEF Ends
    <3> QED  BY <3>1, <3>3, FinishedPrints
  <2>3. CASE /\ UNCHANGED <<currentJob, storeVars, shifted>>
             /\ currentJob # NoJob =>
                   /\ Running(stats)
                   /\ ~missed => currentJob.print = stats.print
    <3>1. currentJob' = currentJob /\ stored' = stored
      BY <2>3 DEF storeVars
    <3>2. Known /\ True
      BY <3>1 DEF PrintsKnown, StatusTrue
    <3>3. Seen
      BY <2>3, <3>1
    <3>4. OneEach
      BY <3>1 DEF RecordedOnce
    <3> QED  BY <3>2, <3>3, <3>4
  <2> QED  BY <2>1, <2>2, <2>3, EventFacts
<1>6. PrintsKnown'
  <2>1. /\ stats.print \in 0..Len(outcome) /\ (stats.print = 0 <=> stats.state = "standby")
        /\ stats.state \in Ends => outcome[stats.print] = stats.state
        /\ Running(stats) => outcome[stats.print] = "none"
    BY DEF PrintsKnown
  <2> QED  BY <1>1, <1>2, <1>4, <1>5, <2>1 DEF PrintsKnown
<1>7. SeenInOrder'
  BY <1>1, <1>2, <1>4, <1>5 DEF SeenInOrder
<1>8. RecordedOnce'
  BY <1>1, <1>2, <1>5 DEF RecordedOnce
<1>9. StatusTrue'
  BY <1>1, <1>5 DEF StatusTrue
<1> QED  BY <1>3, <1>6, <1>7, <1>8, <1>9

\* Some of the records are deleted, or nothing of the prints changes.
LEMMA PrintFewer ==
  ASSUME PrintInv, UNCHANGED <<stats, link, lastStats, currentJob, outcome, missed, restarted>>,
         DOMAIN stored' \subseteq DOMAIN stored,
         \A id \in DOMAIN stored' : stored'[id] = stored[id]
  PROVE  PrintInv'
<1> USE DEF PrintInv
<1>1. PrintTypes'
  BY DEF PrintTypes
<1>2. PrintsKnown'
  BY DEF PrintsKnown, Running
<1>3. SeenInOrder'
  BY DEF SeenInOrder, Running
<1>4. RecordedOnce'
  BY DEF RecordedOnce
<1>5. StatusTrue'
  BY DEF StatusTrue
<1> QED  BY <1>1, <1>2, <1>3, <1>4, <1>5

\* Moonraker has connected to Klipper.
LEMMA PrintReady ==
  ASSUME PrintInv, HandleStarted
  PROVE  PrintInv'
<1> USE DEF PrintInv
<1>1. /\ link = "none" /\ link' = "ready" /\ lastStats' = stats
      /\ UNCHANGED <<stats, currentJob, stored, outcome, missed, restarted>>
      /\ currentJob = NoJob
  BY DEF HandleStarted, storeVars, boundVars, SeenInOrder
<1>2. PrintTypes'
  BY <1>1 DEF PrintTypes
<1>3. PrintsKnown'
  BY <1>1 DEF PrintsKnown, Running
<1>4. SeenInOrder'
  BY <1>1 DEF SeenInOrder, Running
<1>5. RecordedOnce'
  BY <1>1 DEF RecordedOnce
<1>6. StatusTrue'
  BY <1>1 DEF StatusTrue
<1> QED  BY <1>2, <1>3, <1>4, <1>5, <1>6

\* A shutdown, a lost connection or the end of either program ends the job under way.
LEMMA PrintIsCut ==
  ASSUME PrintInv, \/ HandleShutdown
                   \/ \E klipperEnds \in BOOLEAN : HandleDisconnect(klipperEnds)
                   \/ \E dies \in BOOLEAN : ServerRestart(dies)
  PROVE  PrintInv'
<1> USE DEF PrintInv
<1>1. /\ currentJob' = NoJob /\ missed' = missed
      /\ restarted' \in BOOLEAN /\ (restarted => restarted')
      /\ stored' = stored \/ \E s \in {"klippy_shutdown", "klippy_disconnect", "server_exit"} :
                                 stored' = Finished(s)
  <2>1. CASE HandleShutdown
    BY <2>1 DEF HandleShutdown, FinishJob, boundVars, PrintTypes
  <2>2. ASSUME NEW klipperEnds \in BOOLEAN, HandleDisconnect(klipperEnds)
        PROVE  /\ currentJob' = NoJob /\ missed' = missed /\ restarted'
               /\ stored' = Finished("klippy_disconnect")
    BY <2>2 DEF HandleDisconnect, FinishJob
  <2>3. ASSUME NEW dies \in BOOLEAN, ServerRestart(dies)
        PROVE  /\ currentJob' = NoJob /\ missed' = missed /\ restarted'
               /\ stored' = stored \/ stored' = Finished("server_exit")
    BY <2>3 DEF ServerRestart
  <2>4. restarted' => restarted' \in BOOLEAN
    <3>1. (\E klipperEnds \in BOOLEAN : HandleDisconnect(klipperEnds)) => restarted' = TRUE
      BY DEF HandleDisconnect
    <3>2. (\E dies \in BOOLEAN : ServerRestart(dies)) => restarted' = TRUE
      BY DEF ServerRestart
    <3>3. HandleShutdown => restarted' = restarted
      BY DEF HandleShutdown, boundVars
    <3> QED  BY <3>1, <3>2, <3>3 DEF PrintTypes
  <2> QED  BY <2>1, <2>2, <2>3, <2>4
<1>2. /\ lastStats' = lastStats \/ (lastStats' = NoStats /\ restarted' /\ stats' = stats)
      /\ stats' = stats \/ (stats' = Reset /\ restarted')
      /\ \/ outcome' = outcome /\ (stats' = stats \/ ~Running(stats) \/ stats' = Reset)
         \/ Running(stats) /\ outcome' = [outcome EXCEPT ![stats.print] = "error"] /\ stats' = Reset
      /\ ~restarted' => lastStats' = lastStats /\ stats' = stats
  BY DEF HandleShutdown, HandleDisconnect, ServerRestart, boundVars
<1>3. /\ Reset.state = "standby" /\ Reset.print = 0 /\ Reset.duration = 0
      /\ Reset \in [state : JobStates, file : Files \cup {NoFile}, duration : Nat, print : Nat]
      /\ NoStats.print = 0
      /\ NoStats \in [state : JobStates \cup {"unknown"}, file : Files \cup {NoFile},
                      duration : Nat, print : Nat]
  BY DEF Reset, NoStats, JobStates
<1>4. /\ outcome' \in Seq(Ends \cup {"none"}) /\ Len(outcome') = Len(outcome)
      /\ Len(outcome) \in Nat
      /\ \A k \in 1..Len(outcome) : outcome'[k] = outcome[k] \/ outcome[k] = "none"
      /\ stats' = stats => outcome' = outcome
  <2>1. outcome \in Seq(Ends \cup {"none"}) /\ Len(outcome) \in Nat
    BY DEF PrintTypes
  <2>2. CASE outcome' = outcome
    BY <2>1, <2>2
  <2>3. CASE Running(stats) /\ outcome' = [outcome EXCEPT ![stats.print] = "error"] /\ stats' = Reset
    <3>1. /\ outcome[stats.print] = "none" /\ stats.print # 0
          /\ stats.print \in 0..Len(outcome)
      BY <2>3 DEF PrintsKnown, Running
    <3>2. stats' # stats
      BY <1>3, <2>3, <3>1
    <3>3. outcome' \in Seq(Ends \cup {"none"}) /\ Len(outcome') = Len(outcome)
      <4>1. PICK n \in 1..Len(outcome) : n = stats.print
        BY <2>1, <3>1
      <4>2. "error" \in Ends \cup {"none"} /\ outcome' = [outcome EXCEPT ![n] = "error"]
        BY <2>3, <4>1 DEF Ends
      <4> HIDE DEF Ends
      <4> QED  BY <2>1, <4>1, <4>2
    <3>4. \A k \in 1..Len(outcome) : outcome'[k] = outcome[k] \/ outcome[k] = "none"
      BY <2>1, <2>3, <3>1
    <3> QED  BY <2>1, <3>2, <3>3, <3>4
  <2> QED  BY <1>2, <2>2, <2>3
<1>5. PrintTypes'
  <2>1. stats' \in [state : JobStates, file : Files \cup {NoFile}, duration : Nat, print : Nat]
    BY <1>2, <1>3 DEF PrintTypes
  <2>2. lastStats' \in [state : JobStates \cup {"unknown"}, file : Files \cup {NoFile},
                        duration : Nat, print : Nat]
    BY <1>2, <1>3 DEF PrintTypes
  <2> QED  BY <1>1, <1>4, <2>1, <2>2 DEF PrintTypes
<1> DEFINE Fit == /\ \A id \in DOMAIN stored' : stored'[id].print \in 1..Len(outcome)
                  /\ ~restarted =>
                       /\ \A i, j \in DOMAIN stored' : stored'[i].print = stored'[j].print => i = j
                       /\ \A i \in DOMAIN stored' : stored'[i].print = stats.print => lastStats.print = stats.print
                  /\ ~missed => \A id \in DOMAIN stored' :
                       /\ stored'[id].status = "completed" => outcome[stored'[id].print] = "complete"
                       /\ stored'[id].status = "error" => outcome[stored'[id].print] = "error"
<1>6. Fit
  <2>1. CASE stored' = stored
    BY <2>1 DEF PrintsKnown, RecordedOnce, StatusTrue
  <2>2. ASSUME NEW s \in {"klippy_shutdown", "klippy_disconnect", "server_exit"},
               stored' = Finished(s)
        PROVE  Fit
    <3>1. s # "completed" /\ s # "error"
      BY <2>2
    <3> QED  BY <2>2, <3>1, FinishedPrints
  <2> QED  BY <1>1, <2>1, <2>2
<1>7. PrintsKnown'
  <2>1. stats'.print \in 0..Len(outcome') /\ lastStats'.print \in 0..Len(outcome')
    BY <1>2, <1>3, <1>4 DEF PrintsKnown
  <2>2. /\ stats'.print = 0 <=> stats'.state = "standby"
        /\ stats'.state \in Ends => outcome'[stats'.print] = stats'.state
        /\ Running(stats)' => outcome'[stats'.print] = "none"
    <3>1. CASE stats' = stats
      BY <1>4, <3>1 DEF PrintsKnown, Running
    <3>2. CASE stats' = Reset
      BY <1>3, <3>2 DEF Running, Ends
    <3> QED  BY <1>2, <3>1, <3>2
  <2> QED  BY <1>1, <1>4, <1>6, <2>1, <2>2 DEF PrintsKnown
<1>8. SeenInOrder'
  <2> SUFFICES ASSUME stats'.print # 0, lastStats'.print = stats'.print
               PROVE  /\ lastStats'.duration = stats'.duration /\ lastStats'.file = stats'.file
                      /\ Running(stats)' => Running(lastStats)'
    BY <1>1 DEF SeenInOrder
  <2>1. stats' = stats /\ lastStats' = lastStats
    BY <1>2, <1>3
  <2> QED  BY <2>1 DEF SeenInOrder, Running
<1>9. RecordedOnce'
  BY <1>1, <1>2, <1>6 DEF RecordedOnce
<1>10. StatusTrue'
  <2> SUFFICES ASSUME ~missed, NEW id \in DOMAIN stored'
               PROVE  /\ stored'[id].status = "completed" => outcome'[stored'[id].print] = "complete"
                      /\ stored'[id].status = "error" => outcome'[stored'[id].print] = "error"
    BY <1>1 DEF StatusTrue
  <2>1. stored'[id].print \in 1..Len(outcome)
    BY <1>6
  <2> QED  BY <1>4, <1>6, <2>1
<1> QED  BY <1>5, <1>7, <1>8, <1>9, <1>10

-----------------------------------------------------------------------------
(* The theorems.                                                           *)

HistInv == StoreInv /\ PrintInv

LEMMA HistInit == HistoryInit => HistInv
<1> SUFFICES ASSUME HistoryInit  PROVE HistInv
  OBVIOUS
<1>1. /\ stats = Reset /\ link = "ready" /\ lastStats = Reset /\ currentJob = NoJob
      /\ nextJobId = 0 /\ cachedIds = << >> /\ stored = << >> /\ listing = NoListing
      /\ outcome = << >> /\ missed = FALSE /\ restarted = FALSE
  BY DEF HistoryInit
<1>2. DOMAIN stored = {} /\ DOMAIN cachedIds = {} /\ Len(outcome) = 0 /\ cachedIds \in Seq(Nat)
  BY <1>1
<1>3. IsFiniteSet(DOMAIN stored)
  BY <1>2, FS_EmptySet
<1>4. StoreInv
  BY <1>1, <1>2, <1>3
     DEF StoreInv, StoreTypes, IdsInv, IdsAsStored, ToSet, NoneLeftOver, ListInv, LockFree
<1>5. /\ stats.state = "standby" /\ stats.print = 0
      /\ stats \in [state : JobStates, file : Files \cup {NoFile}, duration : Nat, print : Nat]
  BY <1>1 DEF Reset, JobStates
<1>6. outcome \in Seq(Ends \cup {"none"}) /\ 0 \in 0..Len(outcome)
  BY <1>1, <1>2
<1>7. lastStats \in [state : JobStates \cup {"unknown"}, file : Files \cup {NoFile},
                     duration : Nat, print : Nat]
  BY <1>1, <1>5
<1>8. PrintTypes
  BY <1>1, <1>5, <1>6, <1>7 DEF PrintTypes
<1>9. PrintsKnown
  BY <1>1, <1>2, <1>5, <1>6 DEF PrintsKnown, Running, Ends
<1>10. SeenInOrder /\ RecordedOnce /\ StatusTrue
  BY <1>1, <1>2, <1>5 DEF SeenInOrder, RecordedOnce, StatusTrue, Running
<1> QED  BY <1>4, <1>8, <1>9, <1>10 DEF HistInv, PrintInv

LEMMA HistNext == HistInv /\ [HistoryNext]_historyVars => HistInv'
<1> SUFFICES ASSUME StoreInv, PrintInv, [HistoryNext]_historyVars  PROVE StoreInv' /\ PrintInv'
  BY DEF HistInv
<1>1. CASE \/ \E f \in Files : PrintFile(f)
           \/ NoteStart \/ NotePause
           \/ \E state \in Ends : NoteFinish(state)
  <2>1. UNCHANGED moonrakerVars
    BY <1>1 DEF PrintFile, NoteStart, NotePause, NoteFinish
  <2> QED  BY <1>1, <2>1, StoreSame, PrintSteps DEF moonrakerVars
<1>2. CASE ResetFile
  <2>1. UNCHANGED moonrakerVars
    BY <1>2 DEF ResetFile
  <2> QED  BY <1>2, <2>1, StoreSame, PrintReset DEF moonrakerVars
<1>3. CASE JobStateUpdate
  <2>1. UNCHANGED <<listing, torn>>
    BY <1>3 DEF JobStateUpdate
  <2>2. CASE AddJob(stats'.print, Finished("cancelled"))
    BY <1>3, <2>1, <2>2, StoreAdd, PrintReport
  <2>3. ASSUME NEW s \in {"completed", "cancelled", "error"}, FinishJob(s)
        PROVE  StoreInv'
    BY <2>1, <2>3, StoreFinish
  <2>4. CASE UNCHANGED <<currentJob, storeVars, shifted>>
    <3>1. UNCHANGED <<currentJob, storeVars, listing, shifted, torn>>
      BY <2>1, <2>4
    <3> QED  BY <1>3, <3>1, StoreSame, PrintReport
  <2> QED  BY <1>3, <2>2, <2>3, <2>4, EventFacts, PrintReport
<1>4. CASE HandleStarted
  <2>1. UNCHANGED <<currentJob, storeVars, listing, shifted, torn>>
    BY <1>4 DEF HandleStarted
  <2> QED  BY <1>4, <2>1, StoreSame, PrintReady
<1>5. CASE HandleShutdown
  <2>1. FinishJob("klippy_shutdown") /\ UNCHANGED <<listing, torn>>
    BY <1>5 DEF HandleShutdown
  <2> QED  BY <1>5, <2>1, StoreFinish, PrintIsCut
<1>6. ASSUME NEW klipperEnds \in BOOLEAN, HandleDisconnect(klipperEnds)
      PROVE  StoreInv' /\ PrintInv'
  <2>1. FinishJob("klippy_disconnect") /\ UNCHANGED <<listing, torn>>
    BY <1>6 DEF HandleDisconnect
  <2> QED  BY <1>6, <2>1, StoreFinish, PrintIsCut
<1>7. ASSUME NEW dies \in BOOLEAN, ServerRestart(dies)
      PROVE  StoreInv' /\ PrintInv'
  BY <1>7, StoreRestart, PrintIsCut
<1>8. CASE \/ \E id \in DOMAIN stored : DeleteRequest(id)
           \/ DeleteAllRequest
  <2>1. /\ UNCHANGED <<stats, link, lastStats, currentJob, outcome, missed, restarted>>
        /\ DOMAIN stored' \subseteq DOMAIN stored
        /\ \A id \in DOMAIN stored' : stored'[id] = stored[id]
    <3>1. CASE DeleteAllRequest
      BY <3>1 DEF DeleteAllRequest
    <3>2. ASSUME NEW id \in DOMAIN stored, DeleteRequest(id)  PROVE <2>1
      BY <3>2 DEF DeleteRequest, Without, Restrict
    <3> QED  BY <1>8, <3>1, <3>2
  <2> QED  BY <1>8, <2>1, StoreDelete, PrintFewer
<1>9. CASE \/ \E order \in {"asc", "desc"} : ListRequest(order)
           \/ ListJob \/ ListReply
  <2>1. UNCHANGED <<stats, link, lastStats, currentJob, stored, outcome, missed, restarted>>
    BY <1>9 DEF ListRequest, ListJob, ListReply, storeVars, boundVars
  <2> QED  BY <1>9, <2>1, StoreList, PrintFewer
<1>10. CASE UNCHANGED historyVars
  BY <1>10, StoreSame, PrintFewer DEF historyVars, storeVars
<1> QED  BY <1>1, <1>2, <1>3, <1>4, <1>5, <1>6, <1>7, <1>8, <1>9, <1>10 DEF HistoryNext, Ends

\* The ids are those of the records, no job is left in progress, each print has one
\* record and what is recorded of its end is true, after any steps of Klipper, of
\* Moonraker and of those who delete jobs (history.py:97-362).
THEOREM HistoryIsRight == HistorySpec => []HistoryRight
<1>1. HistInv => HistoryRight
  <2> SUFFICES ASSUME HistInv  PROVE HistoryRight
    OBVIOUS
  <2>1. IdsAsStored
    <3>1. torn = {} => IdsAsStored
      BY DEF HistInv, StoreInv, IdsInv
    <3> QED  BY <3>1 DEF IdsAsStored
  <2>2. NoneLeftOver /\ StatusTrue
    BY DEF HistInv, StoreInv, PrintInv
  <2>3. FollowsPrint
    BY DEF HistInv, PrintInv, SeenInOrder, FollowsPrint, Running
  <2>4. OneRecordEach
    BY DEF HistInv, PrintInv, SeenInOrder, RecordedOnce, OneRecordEach
  <2> QED  BY <2>1, <2>2, <2>3, <2>4 DEF HistoryRight
<1> QED  BY <1>1, HistInit, HistNext, PTL DEF HistorySpec

\* What has been read of a list is what there was when it was asked for, in its
\* order (history.py:112-169).
THEOREM ListIsComplete == HistorySpec => []ListComplete
<1>1. HistInv => ListComplete
  <2> SUFFICES ASSUME HistInv, ~LockFree, ~shifted  PROVE ListComplete
    BY DEF ListComplete
  <2> DEFINE all == IF listing.order = "asc" THEN listing.ids ELSE Reverse(listing.ids)
  <2>1. /\ listing.ids \in Seq(Nat) /\ listing.jobs \in Seq(Nat)
        /\ Len(listing.jobs) <= Len(listing.ids)
        /\ \A i \in 1..Len(listing.jobs) : listing.jobs[i] =
              IF listing.order = "asc" THEN listing.ids[i]
              ELSE listing.ids[Len(listing.ids) + 1 - i]
    BY DEF HistInv, StoreInv, StoreTypes, ListInv
  <2>2. PICK ids \in Seq(Nat), read \in Seq(Nat) : ids = listing.ids /\ read = listing.jobs
    BY <2>1
  <2>3. /\ all \in Seq(Nat) /\ Len(all) = Len(ids)
        /\ \A i \in 1..Len(ids) :
              all[i] = IF listing.order = "asc" THEN ids[i] ELSE ids[Len(ids) + 1 - i]
    <3>1. CASE listing.order = "asc"
      BY <2>2, <3>1
    <3>2. CASE listing.order # "asc"
      <4>1. all = [i \in 1..Len(ids) |-> ids[(Len(ids) - i) + 1]]
        BY <2>2, <3>2 DEF Reverse
      <4>2. \A i \in 1..Len(ids) : (Len(ids) - i) + 1 \in 1..Len(ids) /\ (Len(ids) - i) + 1 = Len(ids) + 1 - i
        OBVIOUS
      <4> HIDE DEF all
      <4> QED  BY <3>2, <4>1, <4>2
    <3> QED  BY <3>1, <3>2
  <2> HIDE DEF all
  <2>4. IsPrefix(read, all)
    <3>1. Len(read) <= Len(all) /\ \A i \in 1..Len(read) : read[i] = all[i]
      <4>1. Len(read) \in Nat /\ Len(ids) \in Nat
        OBVIOUS
      <4>2. Len(read) <= Len(ids)
        BY <2>1, <2>2
      <4>3. ASSUME NEW i \in 1..Len(read)  PROVE read[i] = all[i]
        <5>1. i \in 1..Len(ids)
          BY <4>1, <4>2
        <5>2. read[i] = IF listing.order = "asc" THEN ids[i] ELSE ids[Len(ids) + 1 - i]
          BY <2>1, <2>2
        <5> QED  BY <2>3, <5>1, <5>2
      <4> QED  BY <2>3, <4>2, <4>3
    <3>2. SubSeq(all, 1, Len(read)) = read /\ SubSeq(read, 1, Len(read)) = read
      BY <2>3, <3>1, SubSeqProperties, SeqEqual
    <3> QED  BY <3>1, <3>2 DEF IsPrefix
  <2> QED  BY <2>2, <2>4 DEF ListComplete, all
<1> QED  BY <1>1, HistInit, HistNext, PTL DEF HistorySpec
=============================================================================
