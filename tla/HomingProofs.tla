---------------------------- MODULE HomingProofs -----------------------------
(* Proofs about Homing, for any number of micro-controllers and any of its *)
(* times: what each hears of the others, why it has stopped, what home_wait *)
(* is told of it, and which samples the endstop has taken.                 *)
EXTENDS Homing, WellFoundedInduction, FiniteSetTheorems, SequenceTheorems, TLAPS

-----------------------------------------------------------------------------
(* What the micro-controllers hear of each other.                          *)

Reports == [name : {"state", "ack", "shutdown"}, can : BOOLEAN, reason : 0..4, clock : Nat]
Orders == [name : {"timeout", "trigger", "query", "disable"}, arg : Int]

\* The last time for which a micro-controller may be known to go on.
Limit(m) == IF can[m] THEN time ELSE stopped[m]

ListenTypes ==
    /\ time \in Nat /\ can \in [Mcus -> BOOLEAN] /\ reason \in [Mcus -> 0..4]
    /\ expire \in [Mcus -> Int] /\ stopped \in [Mcus -> Int] /\ status \in [Mcus -> Nat]
    /\ toHost \in [Mcus -> Seq(Reports)] /\ toMcu \in [Mcus -> Seq(Orders)]

StopsNoted ==
    \A m \in Mcus : /\ can[m] => stopped[m] = NoTime
                    /\ ~can[m] => stopped[m] \in 0..time

\* What the host has heard, or will hear, of a micro-controller that goes on.
HeardOf(m) ==
    /\ status[m] <= Limit(m)
    /\ \A i \in DOMAIN toHost[m] : toHost[m][i].can => toHost[m][i].clock <= Limit(m)

\* How long n may go on after the others.
Allowed(n, t) == \A m \in Mcus \ {n} : t <= Limit(m) + ExpireTicks

ListenInv ==
    /\ ListenTypes /\ StopsNoted
    /\ \A m \in Mcus : HeardOf(m)
    /\ \A n \in Mcus : \A i \in DOMAIN toMcu[n] :
          toMcu[n][i].name = "timeout" => Allowed(n, toMcu[n][i].arg)
    /\ \A n \in Mcus : can[n] => expire[n] >= time /\ Allowed(n, expire[n])

-----------------------------------------------------------------------------
(* What home_wait is told.                                                 *)

NoQuery(s) == \A i \in DOMAIN s : s[i].name # "query"
NoAck(s) == \A i \in DOMAIN s : s[i].name # "ack"
OneQuery(s) == \E i \in DOMAIN s : \A j \in DOMAIN s : s[j].name = "query" <=> j = i

\* The answer r is on its way, and taken before the acknowledgement is.
Answered(s, r, taken) ==
    \E i \in DOMAIN s : /\ \A j \in DOMAIN s : s[j].name = "ack" <=> j = i
                        /\ i = 1 => taken = r
                        /\ i > 1 => s[i - 1].name = "state" /\ s[i - 1].reason = r

\* A shutdown that is told before any acknowledgement.
ShutdownAhead(s) ==
    \E j \in DOMAIN s : s[j].name = "shutdown" /\ \A i \in 1..j : s[i].name # "ack"

\* Why others than the one with the endstop stop.
Order(n, c) ==
    c.name \in {"trigger", "query"} =>
        c.arg = HOST_REQUEST \/ (n = 1 /\ c.arg = PAST_END_TIME)
Reasons(n) == IF n = 1 THEN 0..4 ELSE {0, COMMS_TIMEOUT, HOST_REQUEST}

Known(m) == ~can[m] /\ results[m] = reason[m] /\ reason[m] # 0

AskTypes ==
    /\ phase \in {"drip", "wait", "stop", "done", "failed"}
    /\ asking \in Mcus /\ results \in [Mcus -> Int]

OrdersRight ==
    \A n \in Mcus : reason[n] \in Reasons(n) /\ \A i \in DOMAIN toMcu[n] : Order(n, toMcu[n][i])

AskInv ==
    /\ phase # "failed" =>
          \A m \in Mcus : ~can[m] /\ reason[m] = 0 => ShutdownAhead(toHost[m])
    /\ phase \in {"drip", "wait"} => \A m \in Mcus : NoQuery(toMcu[m]) /\ NoAck(toHost[m])
    /\ phase = "stop" =>
          /\ \A m \in Mcus \ {asking} : NoQuery(toMcu[m]) /\ NoAck(toHost[m])
          /\ \/ OneQuery(toMcu[asking]) /\ NoAck(toHost[asking])
             \/ /\ NoQuery(toMcu[asking]) /\ ~can[asking]
                /\ Answered(toHost[asking], reason[asking], lastParams)
          /\ \A m \in 1..asking - 1 : Known(m)
    /\ phase = "done" => \A m \in Mcus : Known(m)

-----------------------------------------------------------------------------
(* When the endstop was hit.                                               *)

SampleInv ==
    /\ time \in Nat
    /\ endstop \in [on : BOOLEAN, wake : Int, next : Int, count : Int]
    /\ run \in Seq(Int)
    /\ endstop.on => /\ endstop.count \in 1..SampleCount
                     /\ Len(run) = SampleCount - endstop.count
                     /\ run # << >> => endstop.next = run[1] + RestTicks
    /\ reason[1] = HIT => /\ ~endstop.on /\ Len(run) >= SampleCount
                          /\ endstop.next = run[1] + RestTicks

-----------------------------------------------------------------------------
(* Lemmas.                                                                 *)

LEMMA HomingNumbers ==
    /\ ExpireTicks \in Nat /\ ReportTicks \in Nat /\ RestTicks \in Nat /\ SampleCount \in Nat \ {0}
    /\ 1 \in Mcus /\ \A m \in Mcus : m \in Nat \ {0}
    /\ \A m \in Mcus : m + 1 \notin Mcus => \A n \in Mcus : n = m \/ n \in 1..m - 1
    /\ \A m \in Mcus : \A n \in 1..m - 1 : n \in Mcus
<1>1. Cardinality(Mcus) \in Nat /\ Mcus = 1..Cardinality(Mcus) /\ 1 \in Mcus
  BY HomingAssumption, FS_CardinalityType
<1> QED  BY <1>1, HomingAssumption

\* The least of a set of numbers.
LEMMA LeastOf ==
    ASSUME NEW S \in SUBSET Nat, S # {}
    PROVE  Min(S) \in S /\ \A n \in S : Min(S) <= n
<1> DEFINE R == {ss \in Nat \X Nat : ss[1] < ss[2]}
<1>1. IsWellFoundedOn(R, Nat)
  BY NatLessThanWellFounded DEF OpToRel
<1> HIDE DEF R
<1>2. PICK x \in S : \A y \in S : ~(<<y, x>> \in R)
  BY <1>1, WFMin
<1>3. ASSUME NEW y \in S  PROVE x <= y
  <2>1. ~(<<y, x>> \in R) /\ x \in Nat /\ y \in Nat
    BY <1>2
  <2> QED  BY <2>1 DEF R
<1> QED  BY <1>3 DEF Min

\* What is heard of the others is no more than is heard of any of them.
LEMMA HeardLeast ==
    ASSUME NEW st \in [Mcus -> Nat], NEW n \in Mcus
    PROVE  Heard(n, st) \in Nat /\ \A m \in Mcus \ {n} : Heard(n, st) <= st[m]
<1> DEFINE others == IF Mcus = {n} THEN Mcus ELSE Mcus \ {n}
           S == {st[m] : m \in others}
<1>1. S \in SUBSET Nat /\ S # {} /\ Heard(n, st) = Min(S)
  BY DEF Heard
<1>2. \A m \in Mcus \ {n} : st[m] \in S
  OBVIOUS
<1> HIDE DEF S
<1>3. Min(S) \in S /\ \A k \in S : Min(S) <= k
  BY <1>1, LeastOf
<1> QED  BY <1>1, <1>2, <1>3

\* A queue without its first.
LEMMA WithoutFirst ==
    ASSUME NEW T, NEW s \in Seq(T), s # << >>
    PROVE  /\ Tail(s) \in Seq(T) /\ Head(s) \in T /\ Head(s) = s[1] /\ 1 \in DOMAIN s
           /\ DOMAIN Tail(s) = 1..Len(s) - 1 /\ Len(s) \in Nat \ {0} /\ DOMAIN s = 1..Len(s)
           /\ \A i \in DOMAIN Tail(s) : i + 1 \in DOMAIN s /\ Tail(s)[i] = s[i + 1]
  OBVIOUS

\* A queue with one more.
LEMMA WithLast ==
    ASSUME NEW T, NEW s \in Seq(T), NEW e \in T
    PROVE  /\ Append(s, e) \in Seq(T) /\ Append(s, e)[Len(s) + 1] = e
           /\ DOMAIN Append(s, e) = 1..Len(s) + 1 /\ Len(s) \in Nat /\ DOMAIN s = 1..Len(s)
           /\ \A i \in DOMAIN s : Append(s, e)[i] = s[i]
  OBVIOUS

\* A queue of one or none.
LEMMA OneOrNone ==
    ASSUME NEW T, NEW e \in T
    PROVE  /\ <<e>> \in Seq(T) /\ << >> \in Seq(T)
           /\ \A j \in DOMAIN <<e>> : <<e>>[j] = e
           /\ \A j \in DOMAIN << >> : FALSE
  OBVIOUS

\* What holds of each of two queues holds of both behind one another.
LEMMA BehindOneAnother ==
    ASSUME NEW T, NEW s \in Seq(T), NEW r \in Seq(T)
    PROVE  /\ s \o r \in Seq(T)
           /\ \A i \in DOMAIN (s \o r) :
                 \/ i \in DOMAIN s /\ (s \o r)[i] = s[i]
                 \/ \E j \in DOMAIN r : i = Len(s) + j /\ (s \o r)[i] = r[j]
<1>1. s \o r \in Seq(T) /\ Len(s \o r) = Len(s) + Len(r) /\ Len(s) \in Nat /\ Len(r) \in Nat
  OBVIOUS
<1>2. ASSUME NEW i \in DOMAIN (s \o r)
      PROVE  \/ i \in DOMAIN s /\ (s \o r)[i] = s[i]
             \/ \E j \in DOMAIN r : i = Len(s) + j /\ (s \o r)[i] = r[j]
  <2>1. i \in 1..Len(s) + Len(r)
    BY <1>1
  <2>2. CASE i <= Len(s)
    BY <1>1, <2>1, <2>2
  <2>3. CASE i > Len(s)
    <3>1. i - Len(s) \in 1..Len(r) /\ i = Len(s) + (i - Len(s)) /\ (s \o r)[i] = r[i - Len(s)]
      BY <1>1, <2>1, <2>3
    <3> QED  BY <3>1
  <2> QED  BY <1>1, <2>1, <2>2, <2>3
<1> QED  BY <1>1, <1>2

-----------------------------------------------------------------------------
(* Nobody goes on for long without the others.                             *)

\* A step in which no time passes.
LEMMA ListenStep ==
    ASSUME ListenInv, ListenTypes', time' = time,
           \A m \in Mcus : can'[m] => can[m],
           \A m \in Mcus : stopped'[m] = IF can[m] /\ ~can'[m] THEN time ELSE stopped[m],
           \A m \in Mcus : status'[m] <= Limit(m),
           \A m \in Mcus : \A i \in DOMAIN toHost'[m] :
              toHost'[m][i].can => toHost'[m][i].clock <= Limit(m),
           \A n \in Mcus : \A i \in DOMAIN toMcu'[n] :
              toMcu'[n][i].name = "timeout" => Allowed(n, toMcu'[n][i].arg),
           \A n \in Mcus : can'[n] =>
              expire'[n] = expire[n] \/ (expire'[n] >= time /\ Allowed(n, expire'[n]))
    PROVE  ListenInv'
<1>1. \A m \in Mcus : Limit(m)' = Limit(m)
  BY DEF ListenInv, Limit, StopsNoted
<1>2. \A n \in Mcus, t \in Int : Allowed(n, t)' <=> Allowed(n, t)
  BY <1>1 DEF Allowed
<1>3. StopsNoted'
  <2>1. ASSUME NEW m \in Mcus  PROVE (can'[m] => stopped'[m] = NoTime) /\ (~can'[m] => stopped'[m] \in 0..time')
    <3>1. time \in Nat /\ (can[m] => stopped[m] = NoTime) /\ (~can[m] => stopped[m] \in 0..time)
      BY DEF ListenInv, ListenTypes, StopsNoted
    <3> QED  BY <3>1
  <2> QED  BY <2>1 DEF StopsNoted
<1>4. \A m \in Mcus : HeardOf(m)'
  BY <1>1 DEF HeardOf
<1>5. (\A n \in Mcus : \A i \in DOMAIN toMcu[n] :
          toMcu[n][i].name = "timeout" => Allowed(n, toMcu[n][i].arg))'
  BY <1>1 DEF Allowed
<1>6. ASSUME NEW n \in Mcus, can'[n]  PROVE expire'[n] >= time' /\ Allowed(n, expire[n])'
  <2>1. expire[n] >= time /\ Allowed(n, expire[n])
    BY <1>6 DEF ListenInv
  <2>2. expire'[n] >= time /\ Allowed(n, expire'[n])
    BY <1>6, <2>1
  <2>3. Allowed(n, expire[n])'
    BY <1>1, <2>2 DEF Allowed
  <2> QED  BY <2>2, <2>3
<1> QED  BY <1>3, <1>4, <1>5, <1>6 DEF ListenInv

\* What a micro-controller adds to its reports.
LEMMA ReportMore ==
    ASSUME ListenInv, NEW m \in Mcus, NEW r \in Seq(Reports),
           \A j \in DOMAIN r : r[j].can => r[j].clock <= Limit(m),
           toHost' = [toHost EXCEPT ![m] = @ \o r]
    PROVE  /\ toHost' \in [Mcus -> Seq(Reports)]
           /\ \A n \in Mcus : \A i \in DOMAIN toHost'[n] :
                 toHost'[n][i].can => toHost'[n][i].clock <= Limit(n)
<1>0. toHost \in [Mcus -> Seq(Reports)] /\ time \in Nat
  BY DEF ListenInv, ListenTypes
<1>1. toHost'[m] = toHost[m] \o r /\ \A n \in Mcus \ {m} : toHost'[n] = toHost[n]
  BY <1>0
<1>2. toHost[m] \o r \in Seq(Reports)
  BY <1>0, BehindOneAnother
<1>3. ASSUME NEW i \in DOMAIN (toHost[m] \o r), (toHost[m] \o r)[i].can
      PROVE  (toHost[m] \o r)[i].clock <= Limit(m)
  <2>1. CASE i \in DOMAIN toHost[m] /\ (toHost[m] \o r)[i] = toHost[m][i]
    BY <1>3, <2>1 DEF ListenInv, HeardOf
  <2>2. ASSUME NEW j \in DOMAIN r, (toHost[m] \o r)[i] = r[j]
        PROVE  (toHost[m] \o r)[i].clock <= Limit(m)
    <3>1. r[j].can
      BY <1>3, <2>2
    <3> QED  BY <2>2, <3>1
  <2> QED  BY <1>0, <2>1, <2>2, BehindOneAnother
<1>4. toHost' \in [Mcus -> Seq(Reports)]
  BY <1>0, <1>2
<1>5. ASSUME NEW n \in Mcus, NEW i \in DOMAIN toHost'[n], toHost'[n][i].can
      PROVE  toHost'[n][i].clock <= Limit(n)
  BY <1>1, <1>3, <1>5 DEF ListenInv, HeardOf
<1> QED  BY <1>4, <1>5

\* One more report.
LEMMA AppendBehind ==
    ASSUME NEW T, NEW s \in Seq(T), NEW e \in T
    PROVE  Append(s, e) = s \o <<e>> /\ <<e>> \in Seq(T)
  OBVIOUS

LEMMA ReportOne ==
    ASSUME ListenInv, NEW m \in Mcus, NEW e \in Reports, e.can => e.clock <= Limit(m),
           toHost' = [toHost EXCEPT ![m] = Append(@, e)]
    PROVE  /\ toHost' \in [Mcus -> Seq(Reports)]
           /\ \A n \in Mcus : \A i \in DOMAIN toHost'[n] :
                 toHost'[n][i].can => toHost'[n][i].clock <= Limit(n)
<1>1. toHost[m] \in Seq(Reports)
  BY DEF ListenInv, ListenTypes
<1>2. Append(toHost[m], e) = toHost[m] \o <<e>> /\ <<e>> \in Seq(Reports)
  BY <1>1, AppendBehind
<1> PICK r \in Seq(Reports) : r = <<e>>
  BY <1>2
<1>3. toHost' = [toHost EXCEPT ![m] = @ \o r]
  BY <1>2
<1>4. \A j \in DOMAIN r : r[j].can => r[j].clock <= Limit(m)
  <2>1. \A j \in DOMAIN r : r[j] = e
    OBVIOUS
  <2> QED  BY <2>1
<1> QED  BY <1>3, <1>4, ReportMore

\* A report, or an order, that is taken.
LEMMA ReportTaken ==
    ASSUME ListenInv, NEW m \in Mcus, toHost[m] # << >>,
           toHost' = [toHost EXCEPT ![m] = Tail(@)]
    PROVE  /\ toHost' \in [Mcus -> Seq(Reports)] /\ Head(toHost[m]) \in Reports
           /\ Head(toHost[m]).can => Head(toHost[m]).clock <= Limit(m)
           /\ \A n \in Mcus : \A i \in DOMAIN toHost'[n] :
                 toHost'[n][i].can => toHost'[n][i].clock <= Limit(n)
<1>1. toHost[m] \in Seq(Reports) /\ toHost \in [Mcus -> Seq(Reports)]
  BY DEF ListenInv, ListenTypes
<1>2. \A n \in Mcus : \A i \in DOMAIN toHost[n] : toHost[n][i].can => toHost[n][i].clock <= Limit(n)
  BY DEF ListenInv, HeardOf
<1>3. /\ toHost'[m] = Tail(toHost[m]) /\ \A n \in Mcus \ {m} : toHost'[n] = toHost[n]
      /\ toHost' \in [Mcus -> Seq(Reports)]
  BY <1>1, WithoutFirst
<1>4. Head(toHost[m]) \in Reports /\ (Head(toHost[m]).can => Head(toHost[m]).clock <= Limit(m))
  BY <1>1, <1>2, WithoutFirst
<1>5. ASSUME NEW n \in Mcus, NEW i \in DOMAIN toHost'[n], toHost'[n][i].can
      PROVE  toHost'[n][i].clock <= Limit(n)
  <2>1. CASE n = m
    <3>1. i + 1 \in DOMAIN toHost[m] /\ toHost'[m][i] = toHost[m][i + 1]
      BY <1>1, <1>3, <1>5, <2>1, WithoutFirst
    <3> QED  BY <1>2, <1>5, <2>1, <3>1
  <2> QED  BY <1>2, <1>3, <1>5, <2>1
<1> QED  BY <1>3, <1>4, <1>5

LEMMA OrderTaken ==
    ASSUME ListenInv, NEW m \in Mcus, toMcu[m] # << >>,
           toMcu' = [toMcu EXCEPT ![m] = Tail(@)]
    PROVE  /\ toMcu' \in [Mcus -> Seq(Orders)] /\ Head(toMcu[m]) \in Orders
           /\ Head(toMcu[m]).name = "timeout" => Allowed(m, Head(toMcu[m]).arg)
           /\ \A n \in Mcus : \A i \in DOMAIN toMcu'[n] :
                 toMcu'[n][i].name = "timeout" => Allowed(n, toMcu'[n][i].arg)
<1>1. toMcu[m] \in Seq(Orders) /\ toMcu \in [Mcus -> Seq(Orders)]
  BY DEF ListenInv, ListenTypes
<1>2. \A n \in Mcus : \A i \in DOMAIN toMcu[n] :
         toMcu[n][i].name = "timeout" => Allowed(n, toMcu[n][i].arg)
  BY DEF ListenInv
<1>3. /\ toMcu'[m] = Tail(toMcu[m]) /\ \A n \in Mcus \ {m} : toMcu'[n] = toMcu[n]
      /\ toMcu' \in [Mcus -> Seq(Orders)]
  BY <1>1, WithoutFirst
<1>4. Head(toMcu[m]) \in Orders /\ (Head(toMcu[m]).name = "timeout" => Allowed(m, Head(toMcu[m]).arg))
  BY <1>1, <1>2, WithoutFirst
<1>5. ASSUME NEW n \in Mcus, NEW i \in DOMAIN toMcu'[n], toMcu'[n][i].name = "timeout"
      PROVE  Allowed(n, toMcu'[n][i].arg)
  <2>1. CASE n = m
    <3>1. i + 1 \in DOMAIN toMcu[m] /\ toMcu'[m][i] = toMcu[m][i + 1]
      BY <1>1, <1>3, <1>5, <2>1, WithoutFirst
    <3> QED  BY <1>2, <1>5, <2>1, <3>1
  <2> QED  BY <1>2, <1>3, <1>5, <2>1
<1> QED  BY <1>3, <1>4, <1>5

\* One more order to m that says nothing of its timeout.
LEMMA OrderMore ==
    ASSUME ListenInv, NEW m \in Mcus, NEW r \in Seq(Orders),
           \A j \in DOMAIN r : r[j].name # "timeout",
           toMcu' = [toMcu EXCEPT ![m] = @ \o r]
    PROVE  /\ toMcu' \in [Mcus -> Seq(Orders)]
           /\ \A n \in Mcus : \A i \in DOMAIN toMcu'[n] :
                 toMcu'[n][i].name = "timeout" => Allowed(n, toMcu'[n][i].arg)
<1>1. toMcu[m] \in Seq(Orders) /\ toMcu \in [Mcus -> Seq(Orders)]
  BY DEF ListenInv, ListenTypes
<1>2. \A n \in Mcus : \A i \in DOMAIN toMcu[n] :
         toMcu[n][i].name = "timeout" => Allowed(n, toMcu[n][i].arg)
  BY DEF ListenInv
<1>3. /\ toMcu'[m] = toMcu[m] \o r /\ \A n \in Mcus \ {m} : toMcu'[n] = toMcu[n]
      /\ toMcu' \in [Mcus -> Seq(Orders)]
  BY <1>1, BehindOneAnother
<1>4. ASSUME NEW n \in Mcus, NEW i \in DOMAIN toMcu'[n], toMcu'[n][i].name = "timeout"
      PROVE  Allowed(n, toMcu'[n][i].arg)
  <2>1. CASE n = m
    <3>1. i \in DOMAIN toMcu[m] /\ toMcu'[m][i] = toMcu[m][i]
      BY <1>1, <1>3, <1>4, <2>1, BehindOneAnother
    <3> QED  BY <1>2, <1>4, <2>1, <3>1
  <2> QED  BY <1>2, <1>3, <1>4, <2>1
<1> QED  BY <1>3, <1>4

\* trsync_do_trigger.
LEMMA TriggerListens ==
    ASSUME ListenInv, NEW m \in Mcus, can[m], NEW r \in 0..4, NEW lost \in BOOLEAN,
           DoTrigger(m, r, lost)
    PROVE  /\ can' \in [Mcus -> BOOLEAN] /\ reason' \in [Mcus -> 0..4] /\ stopped' \in [Mcus -> Int]
           /\ toHost' \in [Mcus -> Seq(Reports)]
           /\ ~can'[m] /\ \A n \in Mcus : can'[n] => can[n] /\ n # m
           /\ \A n \in Mcus : stopped'[n] = IF can[n] /\ ~can'[n] THEN time ELSE stopped[n]
           /\ \A n \in Mcus : \A i \in DOMAIN toHost'[n] :
                 toHost'[n][i].can => toHost'[n][i].clock <= Limit(n)
<1>0. ListenTypes
  BY DEF ListenInv
<1>1. /\ can' = [can EXCEPT ![m] = FALSE] /\ reason' = [reason EXCEPT ![m] = r]
      /\ stopped' = [stopped EXCEPT ![m] = time]
  BY DEF DoTrigger
<1>2. can' \in [Mcus -> BOOLEAN] /\ reason' \in [Mcus -> 0..4] /\ stopped' \in [Mcus -> Int]
  BY <1>0, <1>1 DEF ListenTypes
<1>3. /\ ~can'[m] /\ \A n \in Mcus : can'[n] => can[n] /\ n # m
      /\ \A n \in Mcus \ {m} : can'[n] = can[n] /\ stopped'[n] = stopped[n]
      /\ stopped'[m] = time
  BY <1>0, <1>1 DEF ListenTypes
<1>4. \A n \in Mcus : stopped'[n] = IF can[n] /\ ~can'[n] THEN time ELSE stopped[n]
  BY <1>3
<1>5. CASE lost
  <2>1. toHost' = toHost
    BY <1>5 DEF DoTrigger
  <2> QED  BY <1>0, <1>2, <1>3, <1>4, <2>1 DEF ListenTypes, ListenInv, HeardOf
<1>6. CASE ~lost
  <2>1. State(FALSE, r) \in Reports /\ ~State(FALSE, r).can
    BY <1>0 DEF ListenTypes, State, Message, Reports
  <2>2. toHost' = [toHost EXCEPT ![m] = Append(@, State(FALSE, r))]
    BY <1>6 DEF DoTrigger
  <2> HIDE DEF State
  <2> QED  BY <1>2, <1>3, <1>4, <2>1, <2>2, ReportOne
<1> QED  BY <1>5, <1>6

\* What a step that leaves these alone keeps.
LEMMA ListenSame ==
    ASSUME ListenInv
    PROVE  /\ ListenTypes
           /\ \A m \in Mcus : status[m] <= Limit(m)
           /\ \A n \in Mcus : \A i \in DOMAIN toHost[n] :
                 toHost[n][i].can => toHost[n][i].clock <= Limit(n)
           /\ \A n \in Mcus : \A i \in DOMAIN toMcu[n] :
                 toMcu[n][i].name = "timeout" => Allowed(n, toMcu[n][i].arg)
  BY DEF ListenInv, HeardOf

LEMMA ExpireListens ==
    ASSUME ListenInv, NEW m \in Mcus, NEW lost \in BOOLEAN, Expire(m, lost)
    PROVE  ListenInv'
<1>0. ListenTypes
  BY DEF ListenInv
<1>1. /\ time' = time /\ status' = status /\ toMcu' = toMcu
      /\ expire' = [expire EXCEPT ![m] = NoTime]
  BY DEF Expire, tdVars
<1>2. expire' \in [Mcus -> Int] /\ \A n \in Mcus \ {m} : expire'[n] = expire[n]
  BY <1>0, <1>1 DEF ListenTypes, NoTime
<1>3. CASE can[m]
  <2>1. DoTrigger(m, COMMS_TIMEOUT, lost) /\ COMMS_TIMEOUT \in 0..4
    BY <1>3 DEF Expire, COMMS_TIMEOUT
  <2>2. /\ can' \in [Mcus -> BOOLEAN] /\ reason' \in [Mcus -> 0..4] /\ stopped' \in [Mcus -> Int]
        /\ toHost' \in [Mcus -> Seq(Reports)]
        /\ ~can'[m] /\ \A n \in Mcus : can'[n] => can[n] /\ n # m
        /\ \A n \in Mcus : stopped'[n] = IF can[n] /\ ~can'[n] THEN time ELSE stopped[n]
        /\ \A n \in Mcus : \A i \in DOMAIN toHost'[n] :
              toHost'[n][i].can => toHost'[n][i].clock <= Limit(n)
    BY <1>3, <2>1, TriggerListens
  <2>3. ListenTypes'
    BY <1>0, <1>1, <1>2, <2>2 DEF ListenTypes
  <2>4. \A n \in Mcus : can'[n] => expire'[n] = expire[n]
    BY <1>2, <2>2
  <2> QED  BY <1>1, <2>2, <2>3, <2>4, ListenSame, ListenStep
<1>4. CASE ~can[m]
  <2>1. UNCHANGED <<can, reason, stopped, toHost>>
    BY <1>4 DEF Expire
  <2>2. ListenTypes'
    BY <1>0, <1>1, <1>2, <2>1 DEF ListenTypes
  <2>3. \A n \in Mcus : can'[n] => expire'[n] = expire[n]
    BY <1>2, <1>4, <2>1
  <2>4. \A n \in Mcus : stopped'[n] = IF can[n] /\ ~can'[n] THEN time ELSE stopped[n]
    BY <2>1
  <2> QED  BY <1>1, <2>1, <2>2, <2>3, <2>4, ListenSame, ListenStep
<1> QED  BY <1>3, <1>4

LEMMA SendListens ==
    ASSUME ListenInv, NEW m \in Mcus, NEW lost \in BOOLEAN, SendReport(m, lost)
    PROVE  ListenInv'
<1>0. ListenTypes
  BY DEF ListenInv
<1>1. UNCHANGED <<time, can, reason, expire, stopped, status, toMcu>>
  BY DEF SendReport, tdVars
<1>2. /\ toHost' \in [Mcus -> Seq(Reports)]
      /\ \A n \in Mcus : \A i \in DOMAIN toHost'[n] :
            toHost'[n][i].can => toHost'[n][i].clock <= Limit(n)
  <2>1. CASE lost
    <3>1. toHost' = toHost
      BY <2>1 DEF SendReport
    <3> QED  BY <1>0, <3>1, ListenSame DEF ListenTypes
  <2>2. CASE ~lost
    <3> DEFINE e == State(can[m], reason[m])
    <3>1. can[m] \in BOOLEAN /\ reason[m] \in 0..4 /\ time \in Nat
      BY <1>0 DEF ListenTypes
    <3>2. e \in Reports /\ e.can = can[m] /\ e.clock = time
      BY <3>1 DEF State, Message, Reports
    <3>4. e.can => e.clock <= Limit(m)
      <4> SUFFICES ASSUME e.can  PROVE e.clock <= Limit(m)
        OBVIOUS
      <4>1. Limit(m) = time
        BY <3>2 DEF Limit
      <4> QED  BY <3>1, <3>2, <4>1
    <3>3. toHost' = [toHost EXCEPT ![m] = Append(@, e)]
      BY <2>2 DEF SendReport
    <3> HIDE DEF e
    <3> QED  BY <3>2, <3>3, <3>4, ReportOne
  <2> QED  BY <2>1, <2>2
<1>3. ListenTypes'
  BY <1>0, <1>1, <1>2 DEF ListenTypes
<1>4. \A n \in Mcus : stopped'[n] = IF can[n] /\ ~can'[n] THEN time ELSE stopped[n]
  BY <1>1
<1> QED  BY <1>1, <1>2, <1>3, <1>4, ListenSame, ListenStep

\* endstop_event: whatever is sampled, it stops 1 or nothing.
LEMMA SampleListens ==
    ASSUME ListenInv, NEW matches \in BOOLEAN, NEW lost \in BOOLEAN, SampleEndstop(matches, lost)
    PROVE  ListenInv'
<1>0. ListenTypes /\ 1 \in Mcus
  BY HomingNumbers DEF ListenInv
<1>1. UNCHANGED <<time, expire, status, toMcu>>
  BY DEF SampleEndstop, tdVars
<1>2. \/ UNCHANGED <<can, reason, stopped, toHost>>
      \/ can[1] /\ DoTrigger(1, HIT, lost)
  BY DEF SampleEndstop
<1>3. CASE UNCHANGED <<can, reason, stopped, toHost>>
  <2>1. ListenTypes'
    BY <1>0, <1>1, <1>3 DEF ListenTypes
  <2>2. \A n \in Mcus : stopped'[n] = IF can[n] /\ ~can'[n] THEN time ELSE stopped[n]
    BY <1>3
  <2> QED  BY <1>1, <1>3, <2>1, <2>2, ListenSame, ListenStep
<1>4. CASE can[1] /\ DoTrigger(1, HIT, lost)
  <2>1. /\ can' \in [Mcus -> BOOLEAN] /\ reason' \in [Mcus -> 0..4] /\ stopped' \in [Mcus -> Int]
        /\ toHost' \in [Mcus -> Seq(Reports)]
        /\ \A n \in Mcus : can'[n] => can[n]
        /\ \A n \in Mcus : stopped'[n] = IF can[n] /\ ~can'[n] THEN time ELSE stopped[n]
        /\ \A n \in Mcus : \A i \in DOMAIN toHost'[n] :
              toHost'[n][i].can => toHost'[n][i].clock <= Limit(n)
    BY <1>0, <1>4, HIT \in 0..4, TriggerListens DEF HIT
  <2>2. ListenTypes'
    BY <1>0, <1>1, <2>1 DEF ListenTypes
  <2> QED  BY <1>1, <2>1, <2>2, ListenSame, ListenStep
<1> QED  BY <1>2, <1>3, <1>4

LEMMA TimeoutListens ==
    ASSUME ListenInv, NEW m \in Mcus, TakeTimeout(m)
    PROVE  ListenInv'
<1>0. ListenTypes
  BY DEF ListenInv
<1>1. /\ UNCHANGED <<time, status>> /\ toMcu[m] # << >> /\ Head(toMcu[m]).name = "timeout"
      /\ toMcu' = [toMcu EXCEPT ![m] = Tail(@)]
  BY DEF TakeTimeout, tdVars
<1>2. /\ toMcu' \in [Mcus -> Seq(Orders)] /\ Head(toMcu[m]) \in Orders
      /\ Allowed(m, Head(toMcu[m]).arg)
      /\ \A n \in Mcus : \A i \in DOMAIN toMcu'[n] :
            toMcu'[n][i].name = "timeout" => Allowed(n, toMcu'[n][i].arg)
  BY <1>1, OrderTaken
<1> DEFINE t == Head(toMcu[m]).arg
<1>3. t \in Int
  BY <1>2 DEF Orders
<1>4. CASE ~can[m]
  <2>1. UNCHANGED <<can, reason, expire, stopped, toHost>>
    BY <1>4 DEF TakeTimeout, mcuVars
  <2>2. ListenTypes'
    BY <1>0, <1>1, <1>2, <2>1 DEF ListenTypes
  <2>3. \A n \in Mcus : stopped'[n] = IF can[n] /\ ~can'[n] THEN time ELSE stopped[n]
    BY <2>1
  <2> QED  BY <1>1, <1>2, <2>1, <2>2, <2>3, ListenSame, ListenStep
<1>5. CASE can[m] /\ t >= time
  <2>1. expire' = [expire EXCEPT ![m] = t] /\ UNCHANGED <<can, reason, stopped, toHost>>
    BY <1>5 DEF TakeTimeout
  <2>2. /\ expire' \in [Mcus -> Int] /\ expire'[m] = t
        /\ \A n \in Mcus \ {m} : expire'[n] = expire[n]
    BY <1>0, <1>3, <2>1 DEF ListenTypes
  <2>3. ListenTypes'
    BY <1>0, <1>1, <1>2, <2>1, <2>2 DEF ListenTypes
  <2>4. \A n \in Mcus : stopped'[n] = IF can[n] /\ ~can'[n] THEN time ELSE stopped[n]
    BY <2>1
  <2>5. \A n \in Mcus : expire'[n] = expire[n] \/ (expire'[n] >= time /\ Allowed(n, expire'[n]))
    BY <1>2, <1>5, <2>2
  <2> QED  BY <1>1, <1>2, <2>1, <2>3, <2>4, <2>5, ListenSame, ListenStep
<1>6. CASE can[m] /\ ~(t >= time)
  <2> DEFINE e == Message("shutdown", FALSE, 0)
  <2>1. /\ can' = [can EXCEPT ![m] = FALSE] /\ reason' = [reason EXCEPT ![m] = 0]
        /\ expire' = [expire EXCEPT ![m] = NoTime] /\ stopped' = [stopped EXCEPT ![m] = time]
        /\ toHost' = [toHost EXCEPT ![m] = Append(@, e)]
    BY <1>6 DEF TakeTimeout
  <2>2. e \in Reports /\ ~e.can
    BY <1>0 DEF Message, Reports, ListenTypes
  <2> HIDE DEF e
  <2>3. /\ toHost' \in [Mcus -> Seq(Reports)]
        /\ \A n \in Mcus : \A i \in DOMAIN toHost'[n] :
              toHost'[n][i].can => toHost'[n][i].clock <= Limit(n)
    BY <2>1, <2>2, ReportOne
  <2>4. /\ can' \in [Mcus -> BOOLEAN] /\ reason' \in [Mcus -> 0..4]
        /\ expire' \in [Mcus -> Int] /\ stopped' \in [Mcus -> Int]
    BY <1>0, <2>1 DEF ListenTypes, NoTime
  <2>5. /\ ~can'[m] /\ stopped'[m] = time
        /\ \A n \in Mcus \ {m} : can'[n] = can[n] /\ stopped'[n] = stopped[n] /\ expire'[n] = expire[n]
    BY <1>0, <2>1 DEF ListenTypes
  <2>6. ListenTypes'
    BY <1>0, <1>1, <1>2, <2>3, <2>4 DEF ListenTypes
  <2>7. \A n \in Mcus : stopped'[n] = IF can[n] /\ ~can'[n] THEN time ELSE stopped[n]
    BY <1>6, <2>5
  <2>8. \A n \in Mcus : (can'[n] => can[n]) /\ (can'[n] => expire'[n] = expire[n])
    BY <2>5
  <2> QED  BY <1>1, <1>2, <2>3, <2>6, <2>7, <2>8, ListenSame, ListenStep
<1> QED  BY <1>4, <1>5, <1>6

LEMMA QueryListens ==
    ASSUME ListenInv, NEW m \in Mcus, NEW lost \in BOOLEAN, TakeTrigger(m, lost),
           \A i \in DOMAIN toMcu[m] : Order(m, toMcu[m][i])
    PROVE  ListenInv'
<1> DEFINE c == Head(toMcu[m])
           r == IF can[m] THEN c.arg ELSE reason[m]
           reply == IF lost THEN << >> ELSE <<State(FALSE, r)>>
           ack == IF c.name = "query" THEN <<Message("ack", FALSE, r)>> ELSE << >>
<1>0. ListenTypes
  BY DEF ListenInv
<1>1. /\ UNCHANGED <<time, status>> /\ toMcu[m] # << >> /\ c.name \in {"trigger", "query"}
      /\ toMcu' = [toMcu EXCEPT ![m] = Tail(@)]
      /\ can' = [can EXCEPT ![m] = FALSE] /\ reason' = [reason EXCEPT ![m] = r]
      /\ stopped' = [stopped EXCEPT ![m] = IF can[m] THEN time ELSE @]
      /\ expire' = [expire EXCEPT ![m] = NoTime]
      /\ toHost' = [toHost EXCEPT ![m] = @ \o reply \o ack]
  BY DEF TakeTrigger, tdVars
<1>2. /\ toMcu' \in [Mcus -> Seq(Orders)] /\ c \in Orders
      /\ \A n \in Mcus : \A i \in DOMAIN toMcu'[n] :
            toMcu'[n][i].name = "timeout" => Allowed(n, toMcu'[n][i].arg)
  BY <1>1, OrderTaken
<1>3. r \in 0..4
  <2>1. reason[m] \in 0..4 /\ toMcu[m] \in Seq(Orders)
    BY <1>0 DEF ListenTypes
  <2>2. Order(m, c)
    BY <1>1, <2>1, WithoutFirst
  <2>3. c.arg = 3 \/ c.arg = 4
    BY <1>1, <2>2 DEF Order, HOST_REQUEST, PAST_END_TIME
  <2> QED  BY <2>1, <2>3
<1> HIDE DEF r
<1>4. /\ State(FALSE, r) \in Reports /\ ~State(FALSE, r).can
      /\ Message("ack", FALSE, r) \in Reports /\ ~Message("ack", FALSE, r).can
  BY <1>0, <1>3 DEF State, Message, Reports, ListenTypes
<1>5. /\ reply \o ack \in Seq(Reports) /\ toHost[m] \o reply \o ack = toHost[m] \o (reply \o ack)
      /\ \A j \in DOMAIN (reply \o ack) : ~(reply \o ack)[j].can
  <2>1. /\ reply \in Seq(Reports) /\ \A j \in DOMAIN reply : reply[j] = State(FALSE, r)
        /\ ack \in Seq(Reports) /\ \A j \in DOMAIN ack : ack[j] = Message("ack", FALSE, r)
    BY <1>4, OneOrNone
  <2>2. toHost[m] \in Seq(Reports)
    BY <1>0 DEF ListenTypes
  <2> HIDE DEF reply, ack
  <2>4. reply \in Seq(Reports) /\ ack \in Seq(Reports)
    BY <2>1
  <2>3. toHost[m] \o reply \o ack = toHost[m] \o (reply \o ack)
    <3>1. \A s \in Seq(Reports), t \in Seq(Reports), u \in Seq(Reports) : s \o t \o u = s \o (t \o u)
      BY ConcatAssociative
    <3> QED  BY <2>2, <2>4, <3>1
  <2>5. \A s \in Seq(Reports), t \in Seq(Reports) :
           /\ s \o t \in Seq(Reports)
           /\ \A i \in DOMAIN (s \o t) : \/ i \in DOMAIN s /\ (s \o t)[i] = s[i]
                                         \/ \E j \in DOMAIN t : (s \o t)[i] = t[j]
    BY BehindOneAnother
  <2>6. ASSUME NEW j \in DOMAIN (reply \o ack)  PROVE ~(reply \o ack)[j].can
    <3>1. CASE j \in DOMAIN reply /\ (reply \o ack)[j] = reply[j]
      BY <1>4, <2>1, <3>1
    <3>2. ASSUME NEW i \in DOMAIN ack, (reply \o ack)[j] = ack[i]  PROVE ~(reply \o ack)[j].can
      BY <1>4, <2>1, <3>2
    <3> QED  BY <2>4, <2>5, <3>1, <3>2
  <2> QED  BY <2>3, <2>4, <2>5, <2>6
<1> HIDE DEF reply, ack
<1>6. /\ toHost' \in [Mcus -> Seq(Reports)]
      /\ \A n \in Mcus : \A i \in DOMAIN toHost'[n] :
            toHost'[n][i].can => toHost'[n][i].clock <= Limit(n)
  <2>1. PICK q \in Seq(Reports) : q = reply \o ack
    BY <1>5
  <2>2. toHost' = [toHost EXCEPT ![m] = @ \o q]
    BY <1>1, <1>5, <2>1
  <2>3. \A j \in DOMAIN q : ~q[j].can
    BY <1>5, <2>1
  <2> QED  BY <2>2, <2>3, ReportMore
<1>7. /\ can' \in [Mcus -> BOOLEAN] /\ reason' \in [Mcus -> 0..4]
      /\ expire' \in [Mcus -> Int] /\ stopped' \in [Mcus -> Int]
  BY <1>0, <1>1, <1>3 DEF ListenTypes, NoTime
<1>8. /\ ~can'[m] /\ stopped'[m] = IF can[m] THEN time ELSE stopped[m]
      /\ \A n \in Mcus \ {m} : can'[n] = can[n] /\ stopped'[n] = stopped[n] /\ expire'[n] = expire[n]
  BY <1>0, <1>1 DEF ListenTypes
<1>9. ListenTypes'
  BY <1>0, <1>1, <1>2, <1>6, <1>7 DEF ListenTypes
<1>10. /\ \A n \in Mcus : stopped'[n] = IF can[n] /\ ~can'[n] THEN time ELSE stopped[n]
       /\ \A n \in Mcus : (can'[n] => can[n]) /\ (can'[n] => expire'[n] = expire[n])
  BY <1>8
<1> QED  BY <1>1, <1>2, <1>6, <1>9, <1>10, ListenSame, ListenStep

\* What handle_trsync_state and _handle_trsync_state send.
LEMMA DispatchOrders ==
    ASSUME NEW n \in Mcus, NEW msg \in Reports, NEW st \in [Mcus -> Nat],
           \A k \in Mcus : msg.can => st[k] <= Limit(k), ListenTypes
    PROVE  /\ Dispatched(n, msg, st) \in Seq(Orders)
           /\ \A j \in DOMAIN Dispatched(n, msg, st) :
                 LET c == Dispatched(n, msg, st)[j]
                 IN  /\ c.name = "trigger" => c.arg = HOST_REQUEST
                     /\ c.name \in {"trigger", "timeout"}
                     /\ c.name = "timeout" => Allowed(n, c.arg)
<1>1. CASE Dispatched(n, msg, st) = << >>
  BY <1>1
<1>2. CASE Dispatched(n, msg, st) = <<Command("trigger", HOST_REQUEST)>>
  <2>1. Command("trigger", HOST_REQUEST) \in Orders
    BY DEF Command, Orders, HOST_REQUEST
  <2>2. Command("trigger", HOST_REQUEST).name = "trigger" /\ Command("trigger", HOST_REQUEST).arg = HOST_REQUEST
    BY DEF Command
  <2> QED  BY <1>2, <2>1, <2>2
<1>3. CASE msg.can /\ Dispatched(n, msg, st) = <<Command("timeout", Heard(n, st) + ExpireTicks)>>
  <2> DEFINE t == Heard(n, st) + ExpireTicks
  <2>1. Heard(n, st) \in Nat /\ \A k \in Mcus \ {n} : Heard(n, st) <= st[k]
    BY HeardLeast
  <2>2. t \in Int /\ ExpireTicks \in Nat
    BY <2>1, HomingNumbers
  <2>3. ASSUME NEW k \in Mcus \ {n}  PROVE t <= Limit(k) + ExpireTicks
    <3>1. st[k] <= Limit(k) /\ st[k] \in Nat /\ Heard(n, st) <= st[k]
      BY <1>3, <2>1
    <3>2. Limit(k) \in Int
      BY DEF Limit, ListenTypes
    <3> QED  BY <2>1, <2>2, <3>1, <3>2
  <2>4. Allowed(n, t)
    BY <2>3 DEF Allowed
  <2> HIDE DEF t
  <2>5. Command("timeout", t) \in Orders
    BY <2>2 DEF Command, Orders
  <2>6. Command("timeout", t).name = "timeout" /\ Command("timeout", t).arg = t
    BY DEF Command
  <2>7. Dispatched(n, msg, st) = <<Command("timeout", t)>>
    BY <1>3 DEF t
  <2> QED  BY <2>4, <2>5, <2>6, <2>7
<1>4. \/ Dispatched(n, msg, st) = << >>
      \/ Dispatched(n, msg, st) = <<Command("trigger", HOST_REQUEST)>>
      \/ msg.can /\ Dispatched(n, msg, st) = <<Command("timeout", Heard(n, st) + ExpireTicks)>>
  BY Zenon DEF Dispatched
<1> QED  BY <1>1, <1>2, <1>3, <1>4

\* Every order after a report was handled is an old one or one of these.
LEMMA StateOrders ==
    ASSUME ListenInv, NEW m \in Mcus, HandleState(m)
    PROVE  /\ toMcu' \in [Mcus -> Seq(Orders)]
           /\ \A n \in Mcus : \A i \in DOMAIN toMcu'[n] :
                 \/ i \in DOMAIN toMcu[n] /\ toMcu'[n][i] = toMcu[n][i]
                 \/ LET c == toMcu'[n][i]
                    IN  /\ c.name \in {"trigger", "timeout"} /\ Order(n, c)
                        /\ c.name = "timeout" => Allowed(n, c.arg)
<1> DEFINE msg == Head(toHost[m])
           st == [status EXCEPT ![m] = msg.clock]
           past == m = 1 /\ msg.can /\ endClock # NoTime /\ msg.clock >= endClock
           pastEnd == IF past THEN <<Command("trigger", PAST_END_TIME)>> ELSE << >>
           sent(n) == Dispatched(n, msg, st)
           more(n) == IF n = 1 THEN pastEnd ELSE << >>
<1>0. ListenTypes /\ toHost[m] # << >>
  BY DEF ListenInv, HandleState
<1>1. toMcu' = [n \in Mcus |-> toMcu[n] \o sent(n) \o more(n)]
  BY DEF HandleState
<1>2. msg \in Reports /\ (msg.can => msg.clock <= Limit(m))
  <2>1. toHost[m] \in Seq(Reports) /\ HeardOf(m)
    BY <1>0 DEF ListenTypes, ListenInv
  <2> QED  BY <1>0, <2>1, WithoutFirst DEF HeardOf
<1>3. st \in [Mcus -> Nat] /\ \A k \in Mcus : msg.can => st[k] <= Limit(k)
  BY <1>0, <1>2 DEF ListenTypes, ListenInv, HeardOf, Reports
<1> HIDE DEF msg, st, past
<1>4. ASSUME NEW n \in Mcus
      PROVE  /\ toMcu'[n] \in Seq(Orders)
             /\ \A i \in DOMAIN toMcu'[n] :
                   \/ i \in DOMAIN toMcu[n] /\ toMcu'[n][i] = toMcu[n][i]
                   \/ LET c == toMcu'[n][i]
                      IN  /\ c.name \in {"trigger", "timeout"} /\ Order(n, c)
                          /\ c.name = "timeout" => Allowed(n, c.arg)
  <2> DEFINE New(c) == /\ c.name \in {"trigger", "timeout"} /\ Order(n, c)
                       /\ c.name = "timeout" => Allowed(n, c.arg)
  <2>1. sent(n) \in Seq(Orders) /\ \A j \in DOMAIN sent(n) : New(sent(n)[j])
    <3>1. /\ sent(n) \in Seq(Orders)
          /\ \A j \in DOMAIN sent(n) :
                LET c == sent(n)[j]
                IN  /\ c.name = "trigger" => c.arg = HOST_REQUEST
                    /\ c.name \in {"trigger", "timeout"}
                    /\ c.name = "timeout" => Allowed(n, c.arg)
      BY <1>0, <1>2, <1>3, DispatchOrders
    <3> QED  BY <3>1 DEF Order
  <2>2. more(n) \in Seq(Orders) /\ \A j \in DOMAIN more(n) : New(more(n)[j])
    <3> DEFINE c == Command("trigger", PAST_END_TIME)
    <3>1. c \in Orders /\ c.name = "trigger" /\ c.arg = PAST_END_TIME
      BY DEF Command, Orders, PAST_END_TIME
    <3> HIDE DEF c
    <3>2. CASE n = 1 /\ past
      <4>1. more(n) = <<c>>
        BY <3>2 DEF c
      <4>2. New(c)
        BY <3>1, <3>2 DEF Order
      <4> QED  BY <3>1, <4>1, <4>2
    <3>3. CASE ~(n = 1 /\ past)
      <4>1. more(n) = << >>
        BY <3>3
      <4> QED  BY <4>1
    <3> QED  BY <3>2, <3>3
  <2>3. toMcu[n] \in Seq(Orders) /\ toMcu'[n] = toMcu[n] \o sent(n) \o more(n)
    BY <1>0, <1>1 DEF ListenTypes
  <2> HIDE DEF sent, more, New
  <2>4. \A s \in Seq(Orders), t \in Seq(Orders) :
           /\ s \o t \in Seq(Orders)
           /\ \A i \in DOMAIN (s \o t) : \/ i \in DOMAIN s /\ (s \o t)[i] = s[i]
                                         \/ \E j \in DOMAIN t : (s \o t)[i] = t[j]
    BY BehindOneAnother
  <2>5. /\ toMcu[n] \o sent(n) \in Seq(Orders)
        /\ \A i \in DOMAIN (toMcu[n] \o sent(n)) :
              \/ i \in DOMAIN toMcu[n] /\ (toMcu[n] \o sent(n))[i] = toMcu[n][i]
              \/ New((toMcu[n] \o sent(n))[i])
    BY <2>1, <2>3, <2>4
  <2>6. /\ toMcu'[n] \in Seq(Orders)
        /\ \A i \in DOMAIN toMcu'[n] :
              \/ i \in DOMAIN (toMcu[n] \o sent(n)) /\ toMcu'[n][i] = (toMcu[n] \o sent(n))[i]
              \/ New(toMcu'[n][i])
    BY <2>2, <2>3, <2>4, <2>5
  <2>7. \A i \in DOMAIN toMcu'[n] :
           \/ i \in DOMAIN toMcu[n] /\ toMcu'[n][i] = toMcu[n][i]
           \/ New(toMcu'[n][i])
    BY <2>5, <2>6
  <2> QED  BY <2>6, <2>7 DEF New
<1>5. toMcu' \in [Mcus -> Seq(Orders)]
  BY <1>1, <1>4
<1> QED  BY <1>4, <1>5

LEMMA HandleListens ==
    ASSUME ListenInv, NEW m \in Mcus, HandleState(m)
    PROVE  ListenInv'
<1> DEFINE msg == Head(toHost[m])
           st == [status EXCEPT ![m] = msg.clock]
<1>0. ListenTypes
  BY DEF ListenInv
<1>1. /\ toHost[m] # << >> /\ toHost' = [toHost EXCEPT ![m] = Tail(@)]
      /\ UNCHANGED <<time, can, reason, expire, stopped>>
      /\ status' = status \/ (msg.can /\ status' = st)
  BY DEF HandleState, mcuVars
<1>2. /\ toHost' \in [Mcus -> Seq(Reports)] /\ msg \in Reports
      /\ msg.can => msg.clock <= Limit(m)
      /\ \A n \in Mcus : \A i \in DOMAIN toHost'[n] :
            toHost'[n][i].can => toHost'[n][i].clock <= Limit(n)
  BY <1>1, ReportTaken
<1>3. msg.can => st \in [Mcus -> Nat] /\ \A n \in Mcus : st[n] <= Limit(n)
  BY <1>0, <1>2 DEF ListenTypes, ListenInv, HeardOf, Reports
<1> HIDE DEF msg, st
<1>4. status' \in [Mcus -> Nat] /\ \A n \in Mcus : status'[n] <= Limit(n)
  <2>1. CASE status' = status
    BY <1>0, <2>1, ListenSame DEF ListenTypes
  <2>2. CASE msg.can /\ status' = st
    BY <1>3, <2>2
  <2> QED  BY <1>1, <2>1, <2>2
<1>5. /\ toMcu' \in [Mcus -> Seq(Orders)]
      /\ \A n \in Mcus : \A i \in DOMAIN toMcu'[n] :
            toMcu'[n][i].name = "timeout" => Allowed(n, toMcu'[n][i].arg)
  BY StateOrders, ListenSame
<1>6. ListenTypes'
  BY <1>0, <1>1, <1>2, <1>4, <1>5 DEF ListenTypes
<1>7. \A n \in Mcus : stopped'[n] = IF can[n] /\ ~can'[n] THEN time ELSE stopped[n]
  BY <1>1
<1> QED  BY <1>1, <1>2, <1>4, <1>5, <1>6, <1>7, ListenStep

\* home_wait takes reports and asks; what it asks says nothing of timeouts.
LEMMA WaitListens ==
    ASSUME ListenInv, UNCHANGED <<time, can, reason, expire, stopped, status>>,
           toHost' = toHost \/ \E m \in Mcus : toHost[m] # << >> /\ toHost' = [toHost EXCEPT ![m] = Tail(@)],
           \/ toMcu' = toMcu
           \/ \E m \in Mcus : toMcu[m] # << >> /\ toMcu' = [toMcu EXCEPT ![m] = Tail(@)]
           \/ \E m \in Mcus, r \in Seq(Orders) :
                 /\ \A j \in DOMAIN r : r[j].name # "timeout"
                 /\ toMcu' = [toMcu EXCEPT ![m] = @ \o r]
    PROVE  ListenInv'
<1>0. ListenTypes
  BY DEF ListenInv
<1>1. /\ toHost' \in [Mcus -> Seq(Reports)]
      /\ \A n \in Mcus : \A i \in DOMAIN toHost'[n] :
            toHost'[n][i].can => toHost'[n][i].clock <= Limit(n)
  <2>1. CASE toHost' = toHost
    BY <1>0, <2>1, ListenSame DEF ListenTypes
  <2>2. ASSUME NEW m \in Mcus, toHost[m] # << >>, toHost' = [toHost EXCEPT ![m] = Tail(@)]
        PROVE  /\ toHost' \in [Mcus -> Seq(Reports)]
               /\ \A n \in Mcus : \A i \in DOMAIN toHost'[n] :
                     toHost'[n][i].can => toHost'[n][i].clock <= Limit(n)
    BY <2>2, ReportTaken
  <2> QED  BY <2>1, <2>2
<1>2. /\ toMcu' \in [Mcus -> Seq(Orders)]
      /\ \A n \in Mcus : \A i \in DOMAIN toMcu'[n] :
            toMcu'[n][i].name = "timeout" => Allowed(n, toMcu'[n][i].arg)
  <2>1. CASE toMcu' = toMcu
    BY <1>0, <2>1, ListenSame DEF ListenTypes
  <2>2. ASSUME NEW m \in Mcus, toMcu[m] # << >>, toMcu' = [toMcu EXCEPT ![m] = Tail(@)]
        PROVE  /\ toMcu' \in [Mcus -> Seq(Orders)]
               /\ \A n \in Mcus : \A i \in DOMAIN toMcu'[n] :
                     toMcu'[n][i].name = "timeout" => Allowed(n, toMcu'[n][i].arg)
    BY <2>2, OrderTaken
  <2>3. ASSUME NEW m \in Mcus, NEW r \in Seq(Orders), \A j \in DOMAIN r : r[j].name # "timeout",
               toMcu' = [toMcu EXCEPT ![m] = @ \o r]
        PROVE  /\ toMcu' \in [Mcus -> Seq(Orders)]
               /\ \A n \in Mcus : \A i \in DOMAIN toMcu'[n] :
                     toMcu'[n][i].name = "timeout" => Allowed(n, toMcu'[n][i].arg)
    BY <2>3, OrderMore
  <2> QED  BY <2>1, <2>2, <2>3
<1>3. ListenTypes'
  BY <1>0, <1>1, <1>2 DEF ListenTypes
<1>4. \A n \in Mcus : stopped'[n] = IF can[n] /\ ~can'[n] THEN time ELSE stopped[n]
  OBVIOUS
<1> QED  BY <1>1, <1>2, <1>3, <1>4, ListenSame, ListenStep

\* No timer is passed by time.
LEMMA TickListens ==
    ASSUME ListenInv, Tick
    PROVE  ListenInv'
<1>0. /\ ListenTypes /\ StopsNoted /\ time \in Nat /\ time' = time + 1
      /\ UNCHANGED <<can, reason, expire, stopped, status, toHost, toMcu>>
      /\ \A m \in Mcus : expire[m] # time
  BY DEF ListenInv, ListenTypes, Tick, mcuVars, tdVars
<1>1. ASSUME NEW m \in Mcus  PROVE Limit(m) \in Int /\ Limit(m)' \in Int /\ Limit(m) <= Limit(m)'
  <2>1. CASE can[m]
    BY <1>0, <2>1 DEF Limit
  <2>2. CASE ~can[m]
    <3>1. Limit(m) = stopped[m] /\ Limit(m)' = stopped[m] /\ stopped[m] \in Int
      BY <1>0, <2>2 DEF Limit, ListenTypes
    <3> QED  BY <3>1
  <2> QED  BY <2>1, <2>2
<1>2. ASSUME NEW n \in Mcus, NEW t \in Int, Allowed(n, t)  PROVE Allowed(n, t)'
  <2>1. ASSUME NEW m \in Mcus \ {n}  PROVE t <= Limit(m)' + ExpireTicks
    <3>1. t <= Limit(m) + ExpireTicks /\ ExpireTicks \in Nat
      BY <1>2, HomingNumbers DEF Allowed
    <3>2. Limit(m) \in Int /\ Limit(m)' \in Int /\ Limit(m) <= Limit(m)'
      BY <1>1
    <3> HIDE DEF Limit
    <3> QED  BY <3>1, <3>2
  <2> QED  BY <2>1 DEF Allowed
<1>3. ListenTypes'
  BY <1>0 DEF ListenTypes
<1>4. StopsNoted'
  <2>1. ASSUME NEW m \in Mcus  PROVE (can'[m] => stopped'[m] = NoTime) /\ (~can'[m] => stopped'[m] \in 0..time')
    <3>1. (can[m] => stopped[m] = NoTime) /\ (~can[m] => stopped[m] \in 0..time)
      BY <1>0 DEF StopsNoted
    <3>2. 0..time \subseteq 0..time'
      BY <1>0
    <3> QED  BY <1>0, <3>1, <3>2
  <2> QED  BY <2>1 DEF StopsNoted
<1>5. ASSUME NEW m \in Mcus  PROVE HeardOf(m)'
  <2>1. status[m] \in Nat /\ toHost[m] \in Seq(Reports) /\ HeardOf(m)
    BY <1>0 DEF ListenTypes, ListenInv
  <2>2. status[m] <= Limit(m)'
    BY <1>1, <2>1 DEF HeardOf
  <2>3. ASSUME NEW i \in DOMAIN toHost[m], toHost[m][i].can  PROVE toHost[m][i].clock <= Limit(m)'
    <3>0. toHost[m][i] \in Reports
      BY <2>1
    <3>1. toHost[m][i].clock \in Nat
      BY <3>0 DEF Reports
    <3>2. toHost[m][i].clock <= Limit(m)
      BY <2>1, <2>3 DEF HeardOf
    <3> QED  BY <1>1, <3>1, <3>2
  <2> QED  BY <1>0, <2>2, <2>3 DEF HeardOf
<1>6. ASSUME NEW n \in Mcus, NEW i \in DOMAIN toMcu[n], toMcu[n][i].name = "timeout"
      PROVE  Allowed(n, toMcu[n][i].arg)'
  <2>1. toMcu[n] \in Seq(Orders) /\ Allowed(n, toMcu[n][i].arg)
    BY <1>0, <1>6 DEF ListenTypes, ListenInv
  <2>0. toMcu[n][i] \in Orders
    BY <1>6, <2>1
  <2>2. toMcu[n][i].arg \in Int
    BY <2>0 DEF Orders
  <2>3. PICK t \in Int : t = toMcu[n][i].arg
    BY <2>2
  <2>4. Allowed(n, t)'
    BY <1>2, <2>1, <2>3
  <2> QED  BY <1>0, <2>3, <2>4 DEF Allowed
<1>7. ASSUME NEW n \in Mcus, can[n]  PROVE expire[n] >= time' /\ Allowed(n, expire[n])'
  <2>1. expire[n] \in Int /\ expire[n] >= time /\ Allowed(n, expire[n])
    BY <1>0, <1>7 DEF ListenTypes, ListenInv
  <2>2. expire[n] >= time'
    BY <1>0, <2>1
  <2>3. PICK t \in Int : t = expire[n]
    BY <2>1
  <2>4. Allowed(n, t)'
    BY <1>2, <2>1, <2>3
  <2> QED  BY <1>0, <2>2, <2>3, <2>4 DEF Allowed
<1>8. (\A n \in Mcus : \A i \in DOMAIN toMcu[n] :
          toMcu[n][i].name = "timeout" => Allowed(n, toMcu[n][i].arg))'
  BY <1>0, <1>6
<1>9. (\A n \in Mcus : can[n] => expire[n] >= time /\ Allowed(n, expire[n]))'
  BY <1>0, <1>7
<1> QED  BY <1>3, <1>4, <1>5, <1>8, <1>9 DEF ListenInv

LEMMA WaitOverListens ==
    ASSUME ListenInv, WaitOver
    PROVE  ListenInv'
<1> DEFINE r == <<Command("disable", 0), Query>>
<1>1. r \in Seq(Orders) /\ \A j \in DOMAIN r : r[j].name # "timeout"
  <2>1. Command("disable", 0) \in Orders /\ Query \in Orders
    BY DEF Command, Query, Orders, HOST_REQUEST
  <2>2. Command("disable", 0).name # "timeout" /\ Query.name # "timeout"
    BY DEF Command, Query
  <2> QED  BY <2>1, <2>2
<1>2. UNCHANGED <<time, can, reason, expire, stopped, status>> /\ toHost' = toHost
  BY DEF WaitOver, mcuVars
<1>3. toMcu' = [toMcu EXCEPT ![1] = @ \o r] /\ 1 \in Mcus
  BY HomingNumbers DEF WaitOver
<1> HIDE DEF r
<1>4. \E m \in Mcus, q \in Seq(Orders) :
         (\A j \in DOMAIN q : q[j].name # "timeout") /\ toMcu' = [toMcu EXCEPT ![m] = @ \o q]
  BY <1>1, <1>3
<1> QED  BY <1>2, <1>4, WaitListens

LEMMA AckListens ==
    ASSUME ListenInv, NEW m \in Mcus, TakeAck(m)
    PROVE  ListenInv'
<1>1. UNCHANGED <<time, can, reason, expire, stopped, status>>
  BY DEF TakeAck, mcuVars, tdVars
<1>2. toHost[m] # << >> /\ toHost' = [toHost EXCEPT ![m] = Tail(@)]
  BY DEF TakeAck
<1>3. toMcu' = toMcu \/ \E n \in Mcus : toMcu' = [toMcu EXCEPT ![n] = Append(@, Query)]
  BY DEF TakeAck
<1>4. Query \in Orders /\ Query.name # "timeout"
  BY DEF Command, Query, Orders, HOST_REQUEST
<1>5. ASSUME NEW n \in Mcus, toMcu' = [toMcu EXCEPT ![n] = Append(@, Query)]
      PROVE  \E k \in Mcus, q \in Seq(Orders) :
         (\A j \in DOMAIN q : q[j].name # "timeout") /\ toMcu' = [toMcu EXCEPT ![k] = @ \o q]
  <2>1. toMcu[n] \in Seq(Orders)
    BY DEF ListenInv, ListenTypes
  <2>2. Append(toMcu[n], Query) = toMcu[n] \o <<Query>> /\ <<Query>> \in Seq(Orders)
    <3>1. \A s \in Seq(Orders), e \in Orders : Append(s, e) = s \o <<e>> /\ <<e>> \in Seq(Orders)
      BY AppendBehind
    <3> QED  BY <1>4, <2>1, <3>1
  <2>3. PICK q \in Seq(Orders) : q = <<Query>>
    BY <2>2
  <2>4. \A j \in DOMAIN q : q[j].name # "timeout"
    BY <1>4, <2>3
  <2>5. toMcu' = [toMcu EXCEPT ![n] = @ \o q]
    BY <1>5, <2>2, <2>3
  <2> QED  BY <2>4, <2>5
<1>6. \/ toMcu' = toMcu
      \/ \E k \in Mcus, q \in Seq(Orders) :
         (\A j \in DOMAIN q : q[j].name # "timeout") /\ toMcu' = [toMcu EXCEPT ![k] = @ \o q]
  BY <1>3, <1>5
<1> QED  BY <1>1, <1>2, <1>6, WaitListens

LEMMA NextListens ==
    ASSUME ListenInv, OrdersRight, HomingNext
    PROVE  ListenInv'
<1>1. CASE Tick
  BY <1>1, TickListens
<1>2. ASSUME NEW m \in Mcus, NEW lost \in BOOLEAN,
             Expire(m, lost) \/ SendReport(m, lost) \/ TakeTrigger(m, lost)
      PROVE  ListenInv'
  BY <1>2, ExpireListens, SendListens, QueryListens DEF OrdersRight
<1>3. ASSUME NEW matches \in BOOLEAN, NEW lost \in BOOLEAN, SampleEndstop(matches, lost)
      PROVE  ListenInv'
  BY <1>3, SampleListens
<1>4. ASSUME NEW m \in Mcus, TakeTimeout(m) \/ HandleState(m) \/ TakeAck(m)
      PROVE  ListenInv'
  BY <1>4, TimeoutListens, HandleListens, AckListens
<1>5. ASSUME NEW m \in Mcus, TakeReport(m) \/ TakeShutdown(m)
      PROVE  ListenInv'
  <2>1. /\ UNCHANGED <<time, can, reason, expire, stopped, status>> /\ toMcu' = toMcu
        /\ toHost[m] # << >> /\ toHost' = [toHost EXCEPT ![m] = Tail(@)]
    BY <1>5 DEF TakeReport, TakeShutdown, mcuVars, tdVars
  <2> QED  BY <2>1, WaitListens
<1>6. CASE TakeDisable
  <2>1. /\ UNCHANGED <<time, can, reason, expire, stopped, status>> /\ toHost' = toHost
        /\ toMcu[1] # << >> /\ toMcu' = [toMcu EXCEPT ![1] = Tail(@)] /\ 1 \in Mcus
    BY <1>6, HomingNumbers DEF TakeDisable, mcuVars, tdVars
  <2> QED  BY <2>1, WaitListens
<1>7. CASE MoveReturns
  <2>1. UNCHANGED <<time, can, reason, expire, stopped, status>> /\ toHost' = toHost /\ toMcu' = toMcu
    BY <1>7 DEF MoveReturns, mcuVars, tdVars
  <2> QED  BY <2>1, WaitListens
<1>8. CASE WaitOver
  BY <1>8, WaitOverListens
<1> QED  BY <1>1, <1>2, <1>3, <1>4, <1>5, <1>6, <1>7, <1>8 DEF HomingNext

LEMMA ListenInit ==
    ASSUME HomingInit
    PROVE  ListenInv /\ OrdersRight
<1>1. ExpireTicks \in Nat
  BY HomingNumbers
<1>2. ListenTypes
  <2>1. << >> \in Seq(Reports) /\ << >> \in Seq(Orders)
    OBVIOUS
  <2> QED  BY <1>1, <2>1 DEF HomingInit, ListenTypes, NoTime
<1>3. \A m \in Mcus : can[m] /\ stopped[m] = NoTime /\ status[m] = 0 /\ expire[m] = ExpireTicks
  BY DEF HomingInit
<1>4. \A m \in Mcus : DOMAIN toHost[m] = {} /\ DOMAIN toMcu[m] = {} /\ reason[m] = 0
  BY DEF HomingInit
<1>5. time = 0 /\ \A m \in Mcus : Limit(m) = 0
  BY <1>3 DEF HomingInit, Limit
<1>6. \A n \in Mcus : expire[n] >= time /\ Allowed(n, expire[n])
  BY <1>1, <1>3, <1>5 DEF Allowed
<1>7. StopsNoted /\ \A m \in Mcus : HeardOf(m)
  BY <1>3, <1>4, <1>5 DEF StopsNoted, HeardOf
<1>8. OrdersRight
  BY <1>4 DEF OrdersRight, Reasons
<1> QED  BY <1>2, <1>4, <1>6, <1>7, <1>8 DEF ListenInv

-----------------------------------------------------------------------------
(* Why a micro-controller stops.                                           *)

\* An order more or less.
LEMMA OrdersMore ==
    ASSUME ListenInv, OrdersRight, NEW m \in Mcus, NEW e \in Orders, Order(m, e),
           NEW s, s = Append(toMcu[m], e)
    PROVE  \A i \in DOMAIN s : Order(m, s[i])
<1>1. toMcu[m] \in Seq(Orders) /\ \A i \in DOMAIN toMcu[m] : Order(m, toMcu[m][i])
  BY DEF ListenInv, ListenTypes, OrdersRight
<1>2. /\ DOMAIN s = 1..Len(toMcu[m]) + 1 /\ Len(toMcu[m]) \in Nat /\ s[Len(toMcu[m]) + 1] = e
      /\ \A i \in DOMAIN toMcu[m] : s[i] = toMcu[m][i] /\ DOMAIN toMcu[m] = 1..Len(toMcu[m])
  BY <1>1, WithLast
<1>3. ASSUME NEW i \in DOMAIN s  PROVE Order(m, s[i])
  <2>1. CASE i = Len(toMcu[m]) + 1
    BY <1>2, <2>1
  <2>2. CASE i # Len(toMcu[m]) + 1
    <3>1. i \in DOMAIN toMcu[m]
      BY <1>1, <1>2, <2>2
    <3> QED  BY <1>1, <1>2, <3>1
  <2> QED  BY <2>1, <2>2
<1> QED  BY <1>3

LEMMA OrdersLess ==
    ASSUME ListenInv, OrdersRight, NEW m \in Mcus, toMcu[m] # << >>
    PROVE  /\ Order(m, Head(toMcu[m]))
           /\ \A i \in DOMAIN Tail(toMcu[m]) : Order(m, Tail(toMcu[m])[i])
<1>1. toMcu[m] \in Seq(Orders) /\ \A i \in DOMAIN toMcu[m] : Order(m, toMcu[m][i])
  BY DEF ListenInv, ListenTypes, OrdersRight
<1>2. /\ Head(toMcu[m]) = toMcu[m][1] /\ 1 \in DOMAIN toMcu[m]
      /\ \A i \in DOMAIN Tail(toMcu[m]) : i + 1 \in DOMAIN toMcu[m] /\ Tail(toMcu[m])[i] = toMcu[m][i + 1]
  BY <1>1, WithoutFirst
<1> QED  BY <1>1, <1>2

\* A step that stops m for the reason r, or nobody, and may take an order.
LEMMA OrdersStep ==
    ASSUME ListenInv, OrdersRight, NEW m \in Mcus,
           reason' = reason \/ \E r \in Reasons(m) : reason' = [reason EXCEPT ![m] = r],
           toMcu' = toMcu \/ (toMcu[m] # << >> /\ toMcu' = [toMcu EXCEPT ![m] = Tail(@)])
    PROVE  OrdersRight'
<1>0. reason \in [Mcus -> 0..4] /\ toMcu \in [Mcus -> Seq(Orders)]
  BY DEF ListenInv, ListenTypes
<1>1. ASSUME NEW n \in Mcus  PROVE reason'[n] \in Reasons(n)
  BY <1>0 DEF OrdersRight
<1>2. ASSUME NEW n \in Mcus, NEW i \in DOMAIN toMcu'[n]  PROVE Order(n, toMcu'[n][i])
  <2>1. CASE toMcu'[n] = toMcu[n]
    BY <2>1 DEF OrdersRight
  <2>2. CASE n = m /\ toMcu[m] # << >> /\ toMcu'[n] = Tail(toMcu[m])
    BY <2>2, OrdersLess
  <2> QED  BY <1>0, <2>1, <2>2
<1>3. \A n \in Mcus : Reasons(n)' = Reasons(n)
  BY DEF Reasons
<1>4. (\A n \in Mcus : \A i \in DOMAIN toMcu[n] : Order(n, toMcu[n][i]))'
  BY <1>2 DEF Order
<1>5. (\A n \in Mcus : reason[n] \in Reasons(n))'
  BY <1>1, <1>3
<1> QED  BY <1>4, <1>5 DEF OrdersRight

LEMMA TriggerReason ==
    ASSUME ListenInv, OrdersRight, NEW m \in Mcus, NEW lost, TakeTrigger(m, lost)
    PROVE  /\ \/ can[m] /\ reason'[m] \in {HOST_REQUEST, PAST_END_TIME} \cap Reasons(m)
              \/ ~can[m] /\ reason'[m] = reason[m]
           /\ reason'[m] \in Reasons(m)
           /\ reason' = [reason EXCEPT ![m] = reason'[m]]
<1> DEFINE c == Head(toMcu[m])
           r == IF can[m] THEN c.arg ELSE reason[m]
<1>1. toMcu[m] # << >> /\ c.name \in {"trigger", "query"} /\ reason' = [reason EXCEPT ![m] = r]
  BY DEF TakeTrigger
<1>2. reason \in [Mcus -> 0..4] /\ reason[m] \in Reasons(m)
  BY DEF ListenInv, ListenTypes, OrdersRight
<1>3. Order(m, c)
  BY <1>1, OrdersLess
<1>4. can[m] => r \in {HOST_REQUEST, PAST_END_TIME} \cap Reasons(m)
  BY <1>1, <1>3 DEF Order, Reasons, HOST_REQUEST, PAST_END_TIME
<1>5. ~can[m] => r = reason[m]
  OBVIOUS
<1> HIDE DEF r
<1>6. reason'[m] = r
  BY <1>1, <1>2
<1> QED  BY <1>1, <1>2, <1>4, <1>5, <1>6

LEMMA QueryIsOrder ==
    Query \in Orders /\ \A n \in Mcus : Order(n, Query)
BY DEF Query, Command, Orders, Order, HOST_REQUEST

LEMMA NextOrders ==
    ASSUME ListenInv, OrdersRight, HomingNext
    PROVE  OrdersRight'
<1>0. 1 \in Mcus /\ reason \in [Mcus -> 0..4] /\ toMcu \in [Mcus -> Seq(Orders)]
  BY HomingNumbers DEF ListenInv, ListenTypes
<1>1. \A n \in Mcus : COMMS_TIMEOUT \in Reasons(n) /\ 0 \in Reasons(n)
  BY DEF Reasons, COMMS_TIMEOUT
<1>2. ASSUME NEW m \in Mcus, NEW lost \in BOOLEAN, Expire(m, lost) \/ SendReport(m, lost)
      PROVE  OrdersRight'
  <2>1. toMcu' = toMcu /\ (reason' = reason \/ reason' = [reason EXCEPT ![m] = COMMS_TIMEOUT])
    BY <1>2 DEF Expire, SendReport, DoTrigger
  <2> QED  BY <1>1, <2>1, OrdersStep
<1>3. ASSUME NEW m \in Mcus, NEW lost \in BOOLEAN, TakeTrigger(m, lost)
      PROVE  OrdersRight'
  <2>1. reason'[m] \in Reasons(m) /\ reason' = [reason EXCEPT ![m] = reason'[m]]
    BY <1>3, TriggerReason
  <2>2. toMcu[m] # << >> /\ toMcu' = [toMcu EXCEPT ![m] = Tail(@)]
    BY <1>3 DEF TakeTrigger
  <2>3. PICK r \in Reasons(m) : r = reason'[m]
    BY <2>1
  <2> QED  BY <2>1, <2>2, <2>3, OrdersStep
<1>4. ASSUME NEW matches \in BOOLEAN, NEW lost \in BOOLEAN, SampleEndstop(matches, lost)
      PROVE  OrdersRight'
  <2>1. toMcu' = toMcu /\ (reason' = reason \/ reason' = [reason EXCEPT ![1] = HIT])
    BY <1>4 DEF SampleEndstop, DoTrigger
  <2>2. HIT \in Reasons(1)
    BY DEF Reasons, HIT
  <2> QED  BY <1>0, <2>1, <2>2, OrdersStep
<1>5. ASSUME NEW m \in Mcus, TakeTimeout(m)
      PROVE  OrdersRight'
  <2>1. /\ toMcu[m] # << >> /\ toMcu' = [toMcu EXCEPT ![m] = Tail(@)]
        /\ reason' = reason \/ reason' = [reason EXCEPT ![m] = 0]
    BY <1>5 DEF TakeTimeout, mcuVars
  <2> QED  BY <1>1, <2>1, OrdersStep
<1>6. ASSUME NEW m \in Mcus, HandleState(m)
      PROVE  OrdersRight'
  <2>1. reason' = reason
    BY <1>6 DEF HandleState, mcuVars
  <2>2. ASSUME NEW n \in Mcus, NEW i \in DOMAIN toMcu'[n]  PROVE Order(n, toMcu'[n][i])
    <3>1. \/ i \in DOMAIN toMcu[n] /\ toMcu'[n][i] = toMcu[n][i]
          \/ Order(n, toMcu'[n][i])
      BY <1>6, StateOrders
    <3> QED  BY <3>1 DEF OrdersRight
  <2>3. (\A n \in Mcus : \A i \in DOMAIN toMcu[n] : Order(n, toMcu[n][i]))'
    BY <2>2 DEF Order
  <2>4. (\A n \in Mcus : reason[n] \in Reasons(n))'
    BY <2>1 DEF OrdersRight, Reasons
  <2> QED  BY <2>3, <2>4 DEF OrdersRight
<1>7. ASSUME NEW m \in Mcus, toMcu' = [toMcu EXCEPT ![m] = Append(@, Query)], reason' = reason
      PROVE  OrdersRight'
  <2>1. PICK s : s = Append(toMcu[m], Query)
    OBVIOUS
  <2>2. \A i \in DOMAIN s : Order(m, s[i])
    BY <2>1, OrdersMore, QueryIsOrder
  <2>3. ASSUME NEW n \in Mcus, NEW i \in DOMAIN toMcu'[n]  PROVE Order(n, toMcu'[n][i])
    <3>1. toMcu'[n] = IF n = m THEN s ELSE toMcu[n]
      BY <1>0, <1>7, <2>1
    <3> QED  BY <2>2, <3>1 DEF OrdersRight
  <2>4. (\A n \in Mcus : \A i \in DOMAIN toMcu[n] : Order(n, toMcu[n][i]))'
    BY <2>3 DEF Order
  <2>5. (\A n \in Mcus : reason[n] \in Reasons(n))'
    BY <1>7 DEF OrdersRight, Reasons
  <2> QED  BY <2>4, <2>5 DEF OrdersRight
<1>8. CASE WaitOver
  <2> DEFINE d == Command("disable", 0)
             s == Append(toMcu[1], d)
             t == Append(s, Query)
  <2>1. toMcu' = [toMcu EXCEPT ![1] = @ \o <<d, Query>>] /\ reason' = reason
    BY <1>8 DEF WaitOver, mcuVars
  <2>2. d \in Orders /\ Order(1, d)
    BY DEF Command, Orders, Order
  <2> HIDE DEF d
  <2>3. \A i \in DOMAIN s : Order(1, s[i])
    BY <1>0, <2>2, OrdersMore
  <2>4. toMcu[1] \o <<d, Query>> = t /\ s \in Seq(Orders)
    BY <1>0, <2>2, QueryIsOrder
  <2> HIDE DEF s
  <2>5. \A i \in DOMAIN t : Order(1, t[i])
    <3>1. /\ DOMAIN t = 1..Len(s) + 1 /\ DOMAIN s = 1..Len(s) /\ t[Len(s) + 1] = Query
          /\ \A i \in DOMAIN s : t[i] = s[i]
      BY <2>4, QueryIsOrder, WithLast
    <3>2. \A i \in DOMAIN t : i = Len(s) + 1 \/ i \in DOMAIN s
      BY <2>4, <3>1
    <3> QED  BY <1>0, <2>3, <3>1, <3>2, QueryIsOrder
  <2>6. ASSUME NEW n \in Mcus, NEW i \in DOMAIN toMcu'[n]  PROVE Order(n, toMcu'[n][i])
    <3>1. toMcu'[n] = IF n = 1 THEN t ELSE toMcu[n]
      BY <1>0, <2>1, <2>4
    <3> HIDE DEF t
    <3> QED  BY <2>5, <3>1 DEF OrdersRight
  <2>7. (\A n \in Mcus : \A i \in DOMAIN toMcu[n] : Order(n, toMcu[n][i]))'
    BY <2>6 DEF Order
  <2>8. (\A n \in Mcus : reason[n] \in Reasons(n))'
    BY <2>1 DEF OrdersRight, Reasons
  <2> QED  BY <2>7, <2>8 DEF OrdersRight
<1>9. ASSUME NEW m \in Mcus, TakeAck(m)
      PROVE  OrdersRight'
  <2>1. /\ reason' = reason
        /\ toMcu' = toMcu \/ \E n \in Mcus : toMcu' = [toMcu EXCEPT ![n] = Append(@, Query)]
    BY <1>9 DEF TakeAck, mcuVars
  <2> QED  BY <1>0, <1>7, <2>1, OrdersStep
<1>10. ASSUME NEW m \in Mcus, TakeReport(m) \/ TakeShutdown(m)
       PROVE  OrdersRight'
  <2>1. reason' = reason /\ toMcu' = toMcu
    BY <1>10 DEF TakeReport, TakeShutdown, mcuVars
  <2> QED  BY <2>1, OrdersStep
<1>11. CASE TakeDisable
  <2>1. reason' = reason /\ toMcu[1] # << >> /\ toMcu' = [toMcu EXCEPT ![1] = Tail(@)]
    BY <1>11 DEF TakeDisable, mcuVars
  <2> QED  BY <1>0, <2>1, OrdersStep
<1>12. CASE Tick \/ MoveReturns
  <2>1. reason' = reason /\ toMcu' = toMcu
    BY <1>12 DEF Tick, MoveReturns, mcuVars
  <2> QED  BY <1>0, <2>1, OrdersStep
<1> QED  BY <1>2, <1>3, <1>4, <1>5, <1>6, <1>8, <1>9, <1>10, <1>11, <1>12 DEF HomingNext

-----------------------------------------------------------------------------
(* When the endstop was hit.                                               *)

\* A step that samples nothing: 1 does not stop by the endstop.
LEMMA NotSampled ==
    ASSUME SampleInv, ListenInv, time' \in Nat, run' = run,
           endstop' = endstop \/ endstop' = [endstop EXCEPT !.on = FALSE],
           reason'[1] = reason[1] \/ reason'[1] # HIT
    PROVE  SampleInv'
<1>1. /\ endstop' \in [on : BOOLEAN, wake : Int, next : Int, count : Int]
      /\ endstop'.next = endstop.next /\ endstop'.count = endstop.count
      /\ endstop'.on => endstop.on
  BY DEF SampleInv
<1>2. endstop.on => endstop.count \in 1..SampleCount /\ Len(run) = SampleCount - endstop.count
  BY DEF SampleInv
<1>3. endstop.on /\ run # << >> => endstop.next = run[1] + RestTicks
  BY DEF SampleInv
<1>4. reason[1] = HIT => ~endstop.on /\ Len(run) >= SampleCount /\ endstop.next = run[1] + RestTicks
  BY DEF SampleInv
<1>5. run \in Seq(Int)
  BY DEF SampleInv
<1> QED  BY <1>1, <1>2, <1>3, <1>4, <1>5 DEF SampleInv

LEMMA SampleSampled ==
    ASSUME SampleInv, ListenInv, NEW matches \in BOOLEAN, NEW lost \in BOOLEAN, SampleEndstop(matches, lost)
    PROVE  SampleInv'
<1> DEFINE next == IF endstop.count < SampleCount THEN endstop.next ELSE time + RestTicks
<1>0. /\ RestTicks \in Nat /\ SampleCount \in Nat \ {0} /\ 1 \in Mcus
      /\ reason \in [Mcus -> 0..4] /\ time \in Nat /\ time' = time /\ endstop.on
      /\ endstop \in [on : BOOLEAN, wake : Int, next : Int, count : Int]
      /\ run \in Seq(Int)
  BY HomingNumbers DEF ListenInv, ListenTypes, SampleEndstop, SampleInv
<1>1. /\ endstop.count \in 1..SampleCount /\ Len(run) = SampleCount - endstop.count
      /\ run # << >> => endstop.next = run[1] + RestTicks
      /\ reason[1] # HIT
  BY <1>0 DEF SampleInv
<1>2. next \in Int /\ run' = IF matches THEN Append(run, time) ELSE << >>
  BY <1>0 DEF SampleEndstop
<1>3. /\ Append(run, time) \in Seq(Int) /\ Len(Append(run, time)) = Len(run) + 1
      /\ next = Append(run, time)[1] + RestTicks
  <2>1. Append(run, time) \in Seq(Int) /\ Len(Append(run, time)) = Len(run) + 1 /\ Len(run) \in Nat
    BY <1>0
  <2>2. CASE endstop.count < SampleCount
    <3>1. Len(run) > 0
      BY <1>0, <1>1, <2>2
    <3>2. run # << >> /\ Append(run, time)[1] = run[1]
      BY <1>0, <3>1
    <3> QED  BY <1>1, <2>1, <2>2, <3>2
  <2>3. CASE ~(endstop.count < SampleCount)
    <3>1. Len(run) = 0
      BY <1>0, <1>1, <2>3
    <3>2. Append(run, time)[1] = time
      BY <1>0, <3>1
    <3> QED  BY <2>1, <2>3, <3>2
  <2> QED  BY <2>2, <2>3
<1> DEFINE s == Append(run, time)
<1> HIDE DEF s, next
<1>4. CASE ~matches
  <2>1. /\ endstop' = [endstop EXCEPT !.wake = next, !.next = next, !.count = SampleCount]
        /\ reason' = reason
    BY <1>4 DEF SampleEndstop, next
  <2>2. /\ endstop' \in [on : BOOLEAN, wake : Int, next : Int, count : Int]
        /\ endstop'.count = SampleCount
    <3>1. SampleCount \in Int
      BY <1>0
    <3>2. PICK k \in Int : k = SampleCount
      BY <3>1
    <3>3. endstop' = [endstop EXCEPT !.wake = next, !.next = next, !.count = k]
      BY <2>1, <3>2
    <3>4. /\ endstop' \in [on : BOOLEAN, wake : Int, next : Int, count : Int]
          /\ endstop'.count = k
      BY <1>0, <1>2, <3>3
    <3> QED  BY <3>2, <3>4
  <2>3. run' = << >> /\ run' \in Seq(Int) /\ Len(run') = 0
    BY <1>2, <1>4
  <2>4. endstop'.count \in 1..SampleCount /\ Len(run') = SampleCount - endstop'.count
    BY <1>0, <2>2, <2>3
  <2>5. reason'[1] # HIT
    BY <1>1, <2>1
  <2> QED  BY <1>0, <2>2, <2>3, <2>4, <2>5 DEF SampleInv
<1>5. CASE matches /\ LastSample(endstop.count)
  <2>1. endstop' = [endstop EXCEPT !.on = FALSE, !.next = next] /\ run' = s /\ endstop.count = 1
    BY <1>2, <1>5 DEF SampleEndstop, next, LastSample, s
  <2>2. /\ endstop' \in [on : BOOLEAN, wake : Int, next : Int, count : Int]
        /\ ~endstop'.on /\ endstop'.next = next
    BY <1>0, <1>2, <2>1
  <2>3. run' \in Seq(Int) /\ Len(run') >= SampleCount /\ next = run'[1] + RestTicks
    BY <1>0, <1>1, <1>3, <2>1 DEF s
  <2> QED  BY <1>0, <2>2, <2>3 DEF SampleInv
<1>6. CASE matches /\ ~LastSample(endstop.count)
  <2>1. /\ endstop' = [endstop EXCEPT !.wake = time + 1, !.next = next, !.count = @ - 1]
        /\ run' = s /\ reason' = reason /\ endstop.count # 1
    BY <1>2, <1>6 DEF SampleEndstop, next, LastSample, s
  <2>2. /\ endstop' \in [on : BOOLEAN, wake : Int, next : Int, count : Int]
        /\ endstop'.next = next /\ endstop'.count = endstop.count - 1
    <3>1. endstop.count - 1 \in Int /\ time + 1 \in Int
      BY <1>0, <1>1
    <3>2. PICK k \in Int, w \in Int : k = endstop.count - 1 /\ w = time + 1
      BY <3>1
    <3>3. endstop' = [endstop EXCEPT !.wake = w, !.next = next, !.count = k]
      BY <2>1, <3>2
    <3>4. /\ endstop' \in [on : BOOLEAN, wake : Int, next : Int, count : Int]
          /\ endstop'.next = next /\ endstop'.count = k
      BY <1>0, <1>2, <3>3
    <3> QED  BY <3>2, <3>4
  <2>3. run' \in Seq(Int) /\ Len(run') = Len(run) + 1 /\ next = run'[1] + RestTicks
    BY <1>3, <2>1 DEF s
  <2>4. endstop'.count \in 1..SampleCount /\ Len(run') = SampleCount - endstop'.count
    <3>1. SampleCount \in Nat /\ \A c \in 1..SampleCount : c # 1 => /\ c - 1 \in 1..SampleCount
                                    /\ (SampleCount - c) + 1 = SampleCount - (c - 1)
      BY <1>0
    <3>2. endstop.count \in 1..SampleCount /\ endstop.count # 1 /\ Len(run) = SampleCount - endstop.count
      BY <1>1, <2>1
    <3> QED  BY <2>2, <2>3, <3>1, <3>2
  <2>5. reason'[1] # HIT
    BY <1>1, <2>1
  <2> QED  BY <1>0, <2>2, <2>3, <2>4, <2>5 DEF SampleInv
<1> QED  BY <1>4, <1>5, <1>6

LEMMA NextSampled ==
    ASSUME SampleInv, ListenInv, ListenInv', OrdersRight, HomingNext
    PROVE  SampleInv'
<1>0. 1 \in Mcus /\ reason \in [Mcus -> 0..4] /\ time' \in Nat
  BY HomingNumbers DEF ListenInv, ListenTypes
<1>1. ASSUME NEW m \in Mcus, NEW lost \in BOOLEAN, Expire(m, lost) \/ SendReport(m, lost)
      PROVE  SampleInv'
  <2>1. run' = run /\ endstop' = endstop
    BY <1>1 DEF Expire, SendReport, endstopVars
  <2>2. reason' = reason \/ reason' = [reason EXCEPT ![m] = COMMS_TIMEOUT]
    BY <1>1 DEF Expire, SendReport, DoTrigger
  <2>3. reason'[1] = reason[1] \/ reason'[1] # HIT
    BY <1>0, <2>2 DEF HIT, COMMS_TIMEOUT
  <2> QED  BY <1>0, <2>1, <2>3, NotSampled
<1>2. ASSUME NEW m \in Mcus, NEW lost \in BOOLEAN, TakeTrigger(m, lost)
      PROVE  SampleInv'
  <2>1. run' = run /\ endstop' = endstop
    BY <1>2 DEF TakeTrigger, endstopVars
  <2>2. /\ reason'[m] \in {HOST_REQUEST, PAST_END_TIME} \/ reason'[m] = reason[m]
        /\ reason' = [reason EXCEPT ![m] = reason'[m]]
    BY <1>2, TriggerReason
  <2>3. reason'[1] = reason[1] \/ reason'[1] # HIT
    BY <1>0, <2>2 DEF HIT, HOST_REQUEST, PAST_END_TIME
  <2> QED  BY <1>0, <2>1, <2>3, NotSampled
<1>3. ASSUME NEW m \in Mcus, TakeTimeout(m)
      PROVE  SampleInv'
  <2>1. run' = run /\ endstop' = endstop
    BY <1>3 DEF TakeTimeout, endstopVars
  <2>2. reason' = reason \/ reason' = [reason EXCEPT ![m] = 0]
    BY <1>3 DEF TakeTimeout, mcuVars
  <2>3. reason'[1] = reason[1] \/ reason'[1] # HIT
    BY <1>0, <2>2 DEF HIT
  <2> QED  BY <1>0, <2>1, <2>3, NotSampled
<1>4. CASE TakeDisable
  <2>1. run' = run /\ endstop' = [endstop EXCEPT !.on = FALSE] /\ reason' = reason
    BY <1>4 DEF TakeDisable, mcuVars
  <2> QED  BY <1>0, <2>1, NotSampled
<1>5. ASSUME NEW m \in Mcus, HandleState(m) \/ TakeReport(m) \/ TakeAck(m) \/ TakeShutdown(m)
      PROVE  SampleInv'
  <2>1. run' = run /\ endstop' = endstop /\ reason' = reason
    BY <1>5 DEF HandleState, TakeReport, TakeAck, TakeShutdown, mcuVars, endstopVars
  <2> QED  BY <1>0, <2>1, NotSampled
<1>6. CASE Tick \/ MoveReturns \/ WaitOver
  <2>1. run' = run /\ endstop' = endstop /\ reason' = reason
    BY <1>6 DEF Tick, MoveReturns, WaitOver, mcuVars, endstopVars
  <2> QED  BY <1>0, <2>1, NotSampled
<1>7. ASSUME NEW matches \in BOOLEAN, NEW lost \in BOOLEAN, SampleEndstop(matches, lost)
      PROVE  SampleInv'
  BY <1>7, SampleSampled
<1> QED  BY <1>1, <1>2, <1>3, <1>4, <1>5, <1>6, <1>7 DEF HomingNext

LEMMA SampleInit ==
    ASSUME HomingInit
    PROVE  SampleInv
<1>1. SampleCount \in Nat \ {0} /\ 1 \in Mcus
  BY HomingNumbers
<1>2. endstop = [on |-> TRUE, wake |-> 0, next |-> 0, count |-> SampleCount] /\ run = << >> /\ time = 0
  BY DEF HomingInit
<1>3. reason[1] # HIT
  BY <1>1 DEF HomingInit, HIT
<1>4. run \in Seq(Int) /\ Len(run) = 0
  BY <1>2
<1> QED  BY <1>1, <1>2, <1>3, <1>4 DEF SampleInv

-----------------------------------------------------------------------------
(* What home_wait is told.                                                 *)

\* Reports that are no acknowledgement, behind the others.
LEMMA ToldMore ==
    ASSUME NEW s \in Seq(Reports), NEW t \in Seq(Reports), NoAck(t)
    PROVE  /\ NoAck(s) => NoAck(s \o t)
           /\ \A r, k : Answered(s, r, k) => Answered(s \o t, r, k)
           /\ ShutdownAhead(s) => ShutdownAhead(s \o t)
<1> DEFINE u == s \o t
<1>1. /\ Len(s) \in Nat /\ DOMAIN s = 1..Len(s)
      /\ \A i \in DOMAIN s : i \in DOMAIN u /\ u[i] = s[i]
  OBVIOUS
<1>2. \A i \in DOMAIN u : i \in DOMAIN s \/ u[i].name # "ack"
  <2>1. ASSUME NEW i \in DOMAIN u  PROVE i \in DOMAIN s \/ \E j \in DOMAIN t : u[i] = t[j]
    BY BehindOneAnother
  <2> QED  BY <2>1 DEF NoAck
<1> HIDE DEF u
<1>3. NoAck(s) => NoAck(u)
  BY <1>1, <1>2 DEF NoAck
<1>4. ASSUME NEW r, NEW k, Answered(s, r, k)  PROVE Answered(u, r, k)
  <2>1. PICK i \in DOMAIN s : /\ \A j \in DOMAIN s : s[j].name = "ack" <=> j = i
                              /\ i = 1 => k = r
                              /\ i > 1 => s[i - 1].name = "state" /\ s[i - 1].reason = r
    BY <1>4 DEF Answered
  <2>2. i \in DOMAIN u /\ \A j \in DOMAIN u : u[j].name = "ack" <=> j = i
    BY <1>1, <1>2, <2>1
  <2>3. i > 1 => u[i - 1].name = "state" /\ u[i - 1].reason = r
    <3>1. i > 1 => i - 1 \in DOMAIN s
      BY <1>1, <2>1
    <3> QED  BY <1>1, <2>1, <3>1
  <2> QED  BY <2>1, <2>2, <2>3 DEF Answered
<1>5. ASSUME ShutdownAhead(s)  PROVE ShutdownAhead(u)
  <2>1. PICK j \in DOMAIN s : s[j].name = "shutdown" /\ \A i \in 1..j : s[i].name # "ack"
    BY <1>5 DEF ShutdownAhead
  <2>2. \A i \in 1..j : i \in DOMAIN s
    BY <1>1, <2>1
  <2> QED  BY <1>1, <2>1, <2>2 DEF ShutdownAhead
<1> QED  BY <1>3, <1>4, <1>5 DEF u

\* A report of the state that is taken.
LEMMA ToldOne ==
    ASSUME NEW s \in Seq(Reports), s # << >>, Head(s).name = "state"
    PROVE  /\ NoAck(s) => NoAck(Tail(s))
           /\ \A r, k : Answered(s, r, k) => Answered(Tail(s), r, Head(s).reason)
           /\ ShutdownAhead(s) => ShutdownAhead(Tail(s))
<1> DEFINE u == Tail(s)
<1>1. /\ Head(s) = s[1] /\ Len(s) \in Nat \ {0} /\ DOMAIN s = 1..Len(s) /\ DOMAIN u = 1..Len(s) - 1
      /\ \A i \in DOMAIN u : i + 1 \in DOMAIN s /\ u[i] = s[i + 1]
  BY WithoutFirst
<1> HIDE DEF u
<1>2. NoAck(s) => NoAck(u)
  BY <1>1 DEF NoAck
<1>3. ASSUME NEW r, NEW k, Answered(s, r, k)  PROVE Answered(u, r, Head(s).reason)
  <2>1. PICK i \in DOMAIN s : /\ \A j \in DOMAIN s : s[j].name = "ack" <=> j = i
                              /\ i > 1 => s[i - 1].name = "state" /\ s[i - 1].reason = r
    BY <1>3 DEF Answered
  <2>2. i # 1
    BY <1>1, <2>1
  <2>3. i - 1 \in DOMAIN u /\ i > 1
    BY <1>1, <2>2
  <2>4. \A j \in DOMAIN u : u[j].name = "ack" <=> j = i - 1
    <3>1. \A j \in DOMAIN u : j + 1 = i <=> j = i - 1
      BY <1>1
    <3> QED  BY <1>1, <2>1, <3>1
  <2>5. i - 1 = 1 => Head(s).reason = r
    BY <1>1, <2>1, <2>3
  <2>6. i - 1 > 1 => u[i - 1 - 1].name = "state" /\ u[i - 1 - 1].reason = r
    <3>1. i - 1 > 1 => i - 1 - 1 \in DOMAIN u /\ i - 1 - 1 + 1 = i - 1
      BY <1>1, <2>3
    <3>2. i - 1 > 1 => u[i - 1 - 1] = s[i - 1]
      BY <1>1, <3>1
    <3> QED  BY <2>1, <2>3, <3>2
  <2> QED  BY <2>3, <2>4, <2>5, <2>6 DEF Answered
<1>4. ASSUME ShutdownAhead(s)  PROVE ShutdownAhead(u)
  <2>1. PICK j \in DOMAIN s : s[j].name = "shutdown" /\ \A i \in 1..j : s[i].name # "ack"
    BY <1>4 DEF ShutdownAhead
  <2>2. j # 1
    BY <1>1, <2>1
  <2>3. j - 1 \in DOMAIN u /\ j - 1 + 1 = j
    BY <1>1, <2>2
  <2>4. u[j - 1].name = "shutdown"
    BY <1>1, <2>1, <2>3
  <2>5. ASSUME NEW i \in 1..j - 1  PROVE u[i].name # "ack"
    <3>1. i \in DOMAIN u /\ i + 1 \in 1..j
      BY <1>1, <2>3
    <3> QED  BY <1>1, <2>1, <3>1
  <2> QED  BY <2>3, <2>4, <2>5 DEF ShutdownAhead
<1> QED  BY <1>2, <1>3, <1>4 DEF u

\* The acknowledgement that is taken.
LEMMA ToldAll ==
    ASSUME NEW s \in Seq(Reports), s # << >>, Head(s).name = "ack", NEW r, NEW k, Answered(s, r, k)
    PROVE  k = r /\ NoAck(Tail(s)) /\ ~ShutdownAhead(s)
<1>1. /\ Head(s) = s[1] /\ Len(s) \in Nat \ {0} /\ DOMAIN s = 1..Len(s) /\ DOMAIN Tail(s) = 1..Len(s) - 1
      /\ \A i \in DOMAIN Tail(s) : i + 1 \in DOMAIN s /\ Tail(s)[i] = s[i + 1]
  BY WithoutFirst
<1>2. PICK i \in DOMAIN s : /\ \A j \in DOMAIN s : s[j].name = "ack" <=> j = i
                            /\ i = 1 => k = r
  BY DEF Answered
<1>3. i = 1
  BY <1>1, <1>2
<1>4. NoAck(Tail(s))
  <2>1. \A j \in DOMAIN Tail(s) : j + 1 # 1
    BY <1>1
  <2> QED  BY <1>1, <1>2, <1>3, <2>1 DEF NoAck
<1>5. ~ShutdownAhead(s)
  <2>1. \A j \in DOMAIN s : 1 \in 1..j
    BY <1>1
  <2> QED  BY <1>1, <2>1 DEF ShutdownAhead
<1> QED  BY <1>2, <1>3, <1>4, <1>5

\* The answer to a query: the state, then the acknowledgement.
LEMMA ToldBoth ==
    ASSUME NEW s \in Seq(Reports), NEW e \in Reports, NEW a \in Reports, NoAck(s),
           e.name = "state", a.name = "ack", NEW k
    PROVE  Answered(s \o <<e, a>>, e.reason, k)
<1> DEFINE u == s \o <<e, a>>
           n == Len(s) + 2
<1>1. /\ Len(s) \in Nat /\ DOMAIN s = 1..Len(s) /\ DOMAIN u = 1..Len(s) + 2
      /\ \A i \in DOMAIN s : u[i] = s[i]
      /\ u[Len(s) + 1] = e /\ u[Len(s) + 2] = a
  OBVIOUS
<1> HIDE DEF u
<1>2. n \in DOMAIN u /\ n > 1 /\ n # 1 /\ n - 1 = Len(s) + 1
  BY <1>1
<1>3. ASSUME NEW j \in DOMAIN u  PROVE u[j].name = "ack" <=> j = n
  <2>1. j \in DOMAIN s \/ j = Len(s) + 1 \/ j = n
    BY <1>1
  <2>2. j \in DOMAIN s => j # n
    BY <1>1
  <2>3. Len(s) + 1 # n
    BY <1>1
  <2> QED  BY <1>1, <2>1, <2>2, <2>3 DEF NoAck
<1> HIDE DEF n
<1> QED  BY <1>1, <1>2, <1>3 DEF Answered, u, n

\* An order that is taken, and others behind it, which are no queries.
LEMMA AskedLess ==
    ASSUME NEW s \in Seq(Orders), s # << >>
    PROVE  /\ NoQuery(s) => NoQuery(Tail(s)) /\ Head(s).name # "query"
           /\ OneQuery(s) /\ Head(s).name # "query" => OneQuery(Tail(s))
           /\ OneQuery(s) /\ Head(s).name = "query" => NoQuery(Tail(s))
<1> DEFINE u == Tail(s)
<1>1. /\ Head(s) = s[1] /\ Len(s) \in Nat \ {0} /\ DOMAIN s = 1..Len(s) /\ DOMAIN u = 1..Len(s) - 1
      /\ 1 \in DOMAIN s /\ \A i \in DOMAIN u : i + 1 \in DOMAIN s /\ u[i] = s[i + 1] /\ i + 1 # 1
  BY WithoutFirst
<1> HIDE DEF u
<1>2. NoQuery(s) => NoQuery(u) /\ Head(s).name # "query"
  BY <1>1 DEF NoQuery
<1>3. ASSUME OneQuery(s), Head(s).name # "query"  PROVE OneQuery(u)
  <2>1. PICK i \in DOMAIN s : \A j \in DOMAIN s : s[j].name = "query" <=> j = i
    BY <1>3 DEF OneQuery
  <2>2. i # 1
    BY <1>1, <1>3, <2>1
  <2>3. i - 1 \in DOMAIN u /\ \A j \in DOMAIN u : j + 1 = i <=> j = i - 1
    BY <1>1, <2>2
  <2>4. \A j \in DOMAIN u : u[j].name = "query" <=> j + 1 = i
    BY <1>1, <2>1
  <2> QED  BY <2>3, <2>4 DEF OneQuery
<1>4. ASSUME OneQuery(s), Head(s).name = "query"  PROVE NoQuery(u)
  <2>1. PICK i \in DOMAIN s : \A j \in DOMAIN s : s[j].name = "query" <=> j = i
    BY <1>4 DEF OneQuery
  <2>2. i = 1
    BY <1>1, <1>4, <2>1
  <2> QED  BY <1>1, <2>1, <2>2 DEF NoQuery
<1> QED  BY <1>2, <1>3, <1>4 DEF u

LEMMA AskedMore ==
    ASSUME NEW s \in Seq(Orders), NEW e \in Orders
    PROVE  /\ NoQuery(s) /\ e.name # "query" => NoQuery(Append(s, e))
           /\ NoQuery(s) /\ e.name = "query" => OneQuery(Append(s, e))
<1> DEFINE u == Append(s, e)
<1>1. /\ u[Len(s) + 1] = e /\ DOMAIN u = 1..Len(s) + 1 /\ Len(s) \in Nat /\ DOMAIN s = 1..Len(s)
      /\ \A i \in DOMAIN s : u[i] = s[i]
  BY WithLast
<1> HIDE DEF u
<1>2. \A i \in DOMAIN u : i \in DOMAIN s \/ i = Len(s) + 1
  BY <1>1
<1>3. Len(s) + 1 \in DOMAIN u /\ Len(s) + 1 \notin DOMAIN s
  BY <1>1
<1>4. NoQuery(s) /\ e.name # "query" => NoQuery(u)
  BY <1>1, <1>2 DEF NoQuery
<1>5. NoQuery(s) /\ e.name = "query" => OneQuery(u)
  BY <1>1, <1>2, <1>3 DEF NoQuery, OneQuery
<1> QED  BY <1>4, <1>5 DEF u

-----------------------------------------------------------------------------
(* Home_wait is told why each has stopped.                                 *)

\* A step in which home_wait does not ask on.
LEMMA AskStep ==
    ASSUME AskInv, Going, phase' = phase, asking' = asking, results' = results,
           \A n \in Mcus : ~can[n] => ~can'[n] /\ reason'[n] = reason[n],
           \A n \in Mcus : NoAck(toHost[n]) => NoAck(toHost'[n]),
           \A n \in Mcus : NoQuery(toMcu[n]) => NoQuery(toMcu'[n]),
           phase = "stop" /\ OneQuery(toMcu[asking]) => OneQuery(toMcu'[asking]),
           phase = "stop" /\ Answered(toHost[asking], reason[asking], lastParams)
              => Answered(toHost'[asking], reason[asking], lastParams'),
           \A n \in Mcus : ShutdownAhead(toHost[n]) => ShutdownAhead(toHost'[n]),
           \A n \in Mcus : ~can'[n] /\ reason'[n] = 0 =>
              (~can[n] /\ reason[n] = 0) \/ ShutdownAhead(toHost'[n]),
           asking \in Mcus
    PROVE  AskInv'
<1>1. phase # "failed" /\ phase # "done"
  BY DEF Going
<1>2. (\A m \in Mcus : ~can[m] /\ reason[m] = 0 => ShutdownAhead(toHost[m]))'
  <2>1. \A m \in Mcus : ~can[m] /\ reason[m] = 0 => ShutdownAhead(toHost[m])
    BY <1>1 DEF AskInv
  <2>2. \A m \in Mcus : ~can'[m] /\ reason'[m] = 0 => ShutdownAhead(toHost'[m])
    BY <2>1
  <2> QED  BY <2>2 DEF ShutdownAhead
<1>3. \A n \in Mcus : /\ NoAck(toHost[n])' <=> NoAck(toHost'[n])
                      /\ NoQuery(toMcu[n])' <=> NoQuery(toMcu'[n])
  BY DEF NoAck, NoQuery
<1>4. CASE phase \in {"drip", "wait"}
  <2>1. \A m \in Mcus : NoQuery(toMcu[m]) /\ NoAck(toHost[m])
    BY <1>4 DEF AskInv
  <2>2. (\A m \in Mcus : NoQuery(toMcu[m]) /\ NoAck(toHost[m]))'
    BY <1>3, <2>1
  <2> QED  BY <1>1, <1>2, <1>4, <2>2 DEF AskInv
<1>5. CASE phase = "stop"
  <2>1. /\ \A m \in Mcus \ {asking} : NoQuery(toMcu[m]) /\ NoAck(toHost[m])
        /\ \A m \in 1..asking - 1 : Known(m)
        /\ \/ OneQuery(toMcu[asking]) /\ NoAck(toHost[asking])
           \/ /\ NoQuery(toMcu[asking]) /\ ~can[asking]
              /\ Answered(toHost[asking], reason[asking], lastParams)
    BY <1>5 DEF AskInv
  <2>2. (\A m \in Mcus \ {asking} : NoQuery(toMcu[m]) /\ NoAck(toHost[m]))'
    BY <1>3, <2>1
  <2>3. (\A m \in 1..asking - 1 : Known(m))'
    <3>1. \A m \in 1..asking - 1 : m \in Mcus
      BY HomingNumbers
    <3> QED  BY <2>1, <3>1 DEF Known
  <2>4. CASE OneQuery(toMcu[asking]) /\ NoAck(toHost[asking])
    <3>1. (OneQuery(toMcu[asking]) /\ NoAck(toHost[asking]))'
      BY <1>5, <2>4 DEF OneQuery, NoAck
    <3> QED  BY <1>1, <1>2, <1>5, <2>2, <2>3, <3>1 DEF AskInv
  <2>5. CASE /\ NoQuery(toMcu[asking]) /\ ~can[asking]
             /\ Answered(toHost[asking], reason[asking], lastParams)
    <3>1. NoQuery(toMcu'[asking]) /\ ~can'[asking] /\ Answered(toHost'[asking], reason'[asking], lastParams')
      BY <1>5, <2>5
    <3>2. (/\ NoQuery(toMcu[asking]) /\ ~can[asking]
           /\ Answered(toHost[asking], reason[asking], lastParams))'
      BY <3>1 DEF Answered, NoQuery
    <3> QED  BY <1>1, <1>2, <1>5, <2>2, <2>3, <3>2 DEF AskInv
  <2> QED  BY <2>1, <2>4, <2>5
<1> QED  BY <1>1, <1>4, <1>5 DEF AskInv

\* Nothing, or one report that is no acknowledgement, as what is told more.
LEMMA ToldNothing ==
    ASSUME NEW s \in Seq(Reports)
    PROVE  \E t \in Seq(Reports) : NoAck(t) /\ s = s \o t /\ t = << >>
<1>1. << >> \in Seq(Reports) /\ s = s \o << >>
  OBVIOUS
<1>2. NoAck(<< >>)
  BY DEF NoAck
<1> QED  BY <1>1, <1>2

LEMMA ToldThis ==
    ASSUME NEW s \in Seq(Reports), NEW e \in Reports, e.name # "ack"
    PROVE  \E t \in Seq(Reports) : NoAck(t) /\ Append(s, e) = s \o t
<1>1. <<e>> \in Seq(Reports) /\ Append(s, e) = s \o <<e>>
  BY AppendBehind
<1>2. \A j \in DOMAIN <<e>> : <<e>>[j] = e
  BY OneOrNone
<1>3. NoAck(<<e>>)
  BY <1>2 DEF NoAck
<1> QED  BY <1>1, <1>3

\* m tells more, and may take an order that is no query.
LEMMA TellStep ==
    ASSUME ListenInv, AskTypes, AskInv, Going, NEW m \in Mcus, NEW t \in Seq(Reports), NoAck(t),
           UNCHANGED <<phase, asking, results, lastParams>>,
           toHost' = [toHost EXCEPT ![m] = @ \o t],
           \/ toMcu' = toMcu
           \/ /\ toMcu[m] # << >> /\ Head(toMcu[m]).name # "query"
              /\ toMcu' = [toMcu EXCEPT ![m] = Tail(@)],
           \A n \in Mcus : n # m \/ ~can[n] => can'[n] = can[n] /\ reason'[n] = reason[n],
           \/ can'[m] = can[m] /\ reason'[m] = reason[m]
           \/ reason'[m] # 0
           \/ ShutdownAhead(toHost'[m])
    PROVE  AskInv'
<1>0. toHost \in [Mcus -> Seq(Reports)] /\ toMcu \in [Mcus -> Seq(Orders)] /\ can \in [Mcus -> BOOLEAN]
  BY DEF ListenInv, ListenTypes
<1>1. /\ toHost'[m] = toHost[m] \o t /\ toHost[m] \in Seq(Reports)
      /\ \A n \in Mcus \ {m} : toHost'[n] = toHost[n]
  BY <1>0
<1>2. ASSUME NEW n \in Mcus
      PROVE  /\ NoAck(toHost[n]) => NoAck(toHost'[n])
             /\ \A r, k : Answered(toHost[n], r, k) => Answered(toHost'[n], r, k)
             /\ ShutdownAhead(toHost[n]) => ShutdownAhead(toHost'[n])
  <2>1. CASE n = m
    <3>1. \A s \in Seq(Reports) :
             /\ NoAck(s) => NoAck(s \o t)
             /\ \A r, k : Answered(s, r, k) => Answered(s \o t, r, k)
             /\ ShutdownAhead(s) => ShutdownAhead(s \o t)
      BY ToldMore
    <3> QED  BY <1>1, <2>1, <3>1
  <2>2. CASE n # m
    BY <1>1, <2>2
  <2> QED  BY <2>1, <2>2
<1>3. ASSUME NEW n \in Mcus
      PROVE  /\ NoQuery(toMcu[n]) => NoQuery(toMcu'[n])
             /\ OneQuery(toMcu[n]) => OneQuery(toMcu'[n])
  <2>1. CASE toMcu'[n] = toMcu[n]
    BY <2>1
  <2>2. CASE toMcu[n] # << >> /\ Head(toMcu[n]).name # "query" /\ toMcu'[n] = Tail(toMcu[n])
    <3>1. toMcu[n] \in Seq(Orders)
      BY <1>0
    <3> QED  BY <2>2, <3>1, AskedLess
  <2> QED  BY <1>0, <2>1, <2>2
<1>4. asking \in Mcus
  BY DEF AskTypes
<1>5. ASSUME NEW n \in Mcus, ~can[n]  PROVE ~can'[n] /\ reason'[n] = reason[n]
  BY <1>5
<1>6. ASSUME NEW n \in Mcus, ~can'[n], reason'[n] = 0
      PROVE  (~can[n] /\ reason[n] = 0) \/ ShutdownAhead(toHost'[n])
  BY <1>6
<1> QED  BY <1>2, <1>3, <1>4, <1>5, <1>6, AskStep

\* Nothing is told, and no query taken.
LEMMA QuietStep ==
    ASSUME ListenInv, AskTypes, AskInv, Going, NEW m \in Mcus,
           UNCHANGED <<phase, asking, results, lastParams, can, reason, toHost>>,
           \/ toMcu' = toMcu
           \/ /\ toMcu[m] # << >> /\ Head(toMcu[m]).name # "query"
              /\ toMcu' = [toMcu EXCEPT ![m] = Tail(@)]
    PROVE  AskInv'
<1>1. toHost \in [Mcus -> Seq(Reports)]
  BY DEF ListenInv, ListenTypes
<1>2. PICK t \in Seq(Reports) : NoAck(t) /\ toHost[m] = toHost[m] \o t
  BY <1>1, ToldNothing
<1>3. toHost' = [toHost EXCEPT ![m] = @ \o t]
  BY <1>1, <1>2
<1> QED  BY <1>2, <1>3, TellStep

LEMMA TriggerTells ==
    ASSUME ListenInv, AskTypes, AskInv, Going, NEW m \in Mcus, can[m], NEW r \in {HIT, COMMS_TIMEOUT},
           NEW lost \in BOOLEAN, DoTrigger(m, r, lost), toMcu' = toMcu,
           UNCHANGED <<phase, asking, results, lastParams>>
    PROVE  AskInv'
<1>0. /\ toHost \in [Mcus -> Seq(Reports)] /\ time \in Nat
      /\ can \in [Mcus -> BOOLEAN] /\ reason \in [Mcus -> 0..4]
  BY DEF ListenInv, ListenTypes
<1>1. State(FALSE, r) \in Reports /\ State(FALSE, r).name = "state" /\ r # 0
  BY <1>0 DEF State, Message, Reports, HIT, COMMS_TIMEOUT
<1>2. PICK t \in Seq(Reports) : NoAck(t) /\ toHost' = [toHost EXCEPT ![m] = @ \o t]
  <2>1. CASE lost
    <3>1. toHost' = toHost
      BY <2>1 DEF DoTrigger
    <3>2. PICK t \in Seq(Reports) : NoAck(t) /\ toHost[m] = toHost[m] \o t
      BY <1>0, ToldNothing
    <3>3. toHost' = [toHost EXCEPT ![m] = @ \o t]
      BY <1>0, <3>1, <3>2
    <3> QED  BY <3>2, <3>3
  <2>2. CASE ~lost
    <3>1. PICK e \in Reports : e = State(FALSE, r)
      BY <1>1
    <3>2. e.name # "ack"
      BY <1>1, <3>1
    <3>3. PICK t \in Seq(Reports) : NoAck(t) /\ Append(toHost[m], e) = toHost[m] \o t
      BY <1>0, <3>2, ToldThis
    <3>4. toHost' = [toHost EXCEPT ![m] = @ \o t]
      <4>1. toHost' = [toHost EXCEPT ![m] = Append(@, e)]
        BY <2>2, <3>1 DEF DoTrigger
      <4> QED  BY <3>3, <4>1
    <3> QED  BY <3>3, <3>4
  <2> QED  BY <2>1, <2>2
<1>3. /\ \A n \in Mcus : n # m \/ ~can[n] => can'[n] = can[n] /\ reason'[n] = reason[n]
      /\ reason'[m] # 0
  BY <1>0, <1>1 DEF DoTrigger
<1> QED  BY <1>2, <1>3, TellStep

LEMMA SendTells ==
    ASSUME ListenInv, AskTypes, AskInv, Going, NEW m \in Mcus, NEW lost \in BOOLEAN, SendReport(m, lost)
    PROVE  AskInv'
<1>0. /\ toHost \in [Mcus -> Seq(Reports)] /\ time \in Nat
      /\ can \in [Mcus -> BOOLEAN] /\ reason \in [Mcus -> 0..4]
  BY DEF ListenInv, ListenTypes
<1>1. UNCHANGED <<phase, asking, results, lastParams, can, reason, toMcu>>
  BY DEF SendReport, homeVars
<1>2. CASE lost
  <2>1. toHost' = toHost
    BY <1>2 DEF SendReport
  <2> QED  BY <1>1, <2>1, QuietStep
<1>3. CASE ~lost
  <2>1. PICK e \in Reports : e = State(can[m], reason[m])
    BY <1>0 DEF State, Message, Reports
  <2>2. e.name = "state"
    BY <2>1 DEF State, Message
  <2>3. PICK t \in Seq(Reports) : NoAck(t) /\ Append(toHost[m], e) = toHost[m] \o t
    BY <1>0, <2>2, ToldThis
  <2>4. toHost' = [toHost EXCEPT ![m] = @ \o t]
    <3>1. toHost' = [toHost EXCEPT ![m] = Append(@, e)]
      BY <1>3, <2>1 DEF SendReport
    <3> QED  BY <2>3, <3>1
  <2> QED  BY <1>1, <2>3, <2>4, TellStep
<1> QED  BY <1>2, <1>3

LEMMA TimeoutTells ==
    ASSUME ListenInv, AskTypes, AskInv, Going, NEW m \in Mcus, TakeTimeout(m)
    PROVE  AskInv'
<1>0. /\ toHost \in [Mcus -> Seq(Reports)] /\ time \in Nat
      /\ can \in [Mcus -> BOOLEAN] /\ reason \in [Mcus -> 0..4]
  BY DEF ListenInv, ListenTypes
<1>1. /\ UNCHANGED <<phase, asking, results, lastParams>>
      /\ toMcu[m] # << >> /\ Head(toMcu[m]).name # "query" /\ toMcu' = [toMcu EXCEPT ![m] = Tail(@)]
  BY DEF TakeTimeout, homeVars
<1>2. CASE UNCHANGED <<can, reason, toHost>>
  BY <1>1, <1>2, QuietStep
<1>3. CASE /\ can[m] /\ can' = [can EXCEPT ![m] = FALSE] /\ reason' = [reason EXCEPT ![m] = 0]
           /\ toHost' = [toHost EXCEPT ![m] = Append(@, Message("shutdown", FALSE, 0))]
  <2>1. Message("shutdown", FALSE, 0) \in Reports
    BY <1>0 DEF Message, Reports
  <2>2. PICK e \in Reports : e = Message("shutdown", FALSE, 0) /\ e.name = "shutdown"
    BY <2>1 DEF Message
  <2>3. PICK t \in Seq(Reports) : NoAck(t) /\ Append(toHost[m], e) = toHost[m] \o t
    BY <1>0, <2>2, ToldThis
  <2>4. toHost' = [toHost EXCEPT ![m] = @ \o t] /\ toHost'[m] = Append(toHost[m], e)
    <3>1. toHost' = [toHost EXCEPT ![m] = Append(@, e)]
      BY <1>3, <2>2
    <3> QED  BY <1>0, <2>3, <3>1
  <2>6. NoAck(toHost[m])
    BY <1>3 DEF AskInv, Going, AskTypes
  <2>7. ShutdownAhead(toHost'[m])
    <3> DEFINE u == Append(toHost[m], e)
               n == Len(toHost[m]) + 1
    <3>1. /\ u[n] = e /\ DOMAIN u = 1..n /\ n \in Nat \ {0} /\ DOMAIN toHost[m] = 1..n - 1
          /\ \A i \in DOMAIN toHost[m] : u[i] = toHost[m][i]
      BY <1>0, WithLast
    <3> HIDE DEF u, n
    <3>2. n \in DOMAIN u /\ \A i \in 1..n : i = n \/ i \in DOMAIN toHost[m]
      BY <3>1
    <3>3. \A i \in 1..n : u[i].name # "ack"
      BY <2>2, <2>6, <3>1, <3>2 DEF NoAck
    <3>4. ShutdownAhead(u)
      BY <2>2, <3>1, <3>2, <3>3 DEF ShutdownAhead
    <3> QED  BY <2>4, <3>4 DEF u
  <2>8. \A n \in Mcus : n # m \/ ~can[n] => can'[n] = can[n] /\ reason'[n] = reason[n]
    BY <1>0, <1>3
  <2> QED  BY <1>1, <2>3, <2>4, <2>7, <2>8, TellStep
<1> QED  BY <1>2, <1>3 DEF TakeTimeout, mcuVars

LEMMA TwoBehind ==
    ASSUME NEW T, NEW s \in Seq(T), NEW e \in T, NEW a \in T
    PROVE  s \o <<e>> \o <<a>> = s \o <<e, a>>
<1> DEFINE l == s \o <<e>> \o <<a>>
           r == s \o <<e, a>>
<1>1. s \o <<e>> \in Seq(T) /\ l \in Seq(T) /\ r \in Seq(T) /\ Len(s) \in Nat
  OBVIOUS
<1>2. Len(l) = Len(s) + 2 /\ Len(r) = Len(s) + 2
  OBVIOUS
<1>3. ASSUME NEW i \in 1..Len(s)  PROVE l[i] = s[i] /\ r[i] = s[i]
  OBVIOUS
<1>4. l[Len(s) + 1] = e /\ l[Len(s) + 2] = a
  OBVIOUS
<1>5. r[Len(s) + 1] = e /\ r[Len(s) + 2] = a
  OBVIOUS
<1> HIDE DEF l, r
<1>6. ASSUME NEW i \in 1..Len(l)  PROVE l[i] = r[i]
  <2>1. i \in 1..Len(s) \/ i = Len(s) + 1 \/ i = Len(s) + 2
    BY <1>1, <1>2
  <2> QED  BY <1>3, <1>4, <1>5, <2>1
<1>7. l = r
  BY <1>1, <1>2, <1>6, SeqEqual
<1> QED  BY <1>7 DEF l, r

\* command_trsync_trigger: a query is answered.
LEMMA QueryTells ==
    ASSUME ListenInv, OrdersRight, AskTypes, AskInv, Going, Lossy = FALSE,
           NEW m \in Mcus, NEW lost \in BOOLEAN, TakeTrigger(m, lost)
    PROVE  AskInv'
<1> DEFINE c == Head(toMcu[m])
           r == IF can[m] THEN c.arg ELSE reason[m]
           reply == IF lost THEN << >> ELSE <<State(FALSE, r)>>
           ack == IF c.name = "query" THEN <<Message("ack", FALSE, r)>> ELSE << >>
<1>0. /\ toHost \in [Mcus -> Seq(Reports)] /\ toMcu \in [Mcus -> Seq(Orders)] /\ time \in Nat
      /\ can \in [Mcus -> BOOLEAN] /\ reason \in [Mcus -> 0..4]
  BY DEF ListenInv, ListenTypes
<1>1. /\ UNCHANGED <<phase, asking, results, lastParams>>
      /\ toMcu[m] # << >> /\ c.name \in {"trigger", "query"}
      /\ toMcu' = [toMcu EXCEPT ![m] = Tail(@)]
      /\ can' = [can EXCEPT ![m] = FALSE] /\ reason' = [reason EXCEPT ![m] = r]
      /\ toHost' = [toHost EXCEPT ![m] = @ \o reply \o ack]
      /\ lost => c.name = "trigger"
  BY DEF TakeTrigger, homeVars
<1>2. /\ \A n \in Mcus : n # m \/ ~can[n] => can'[n] = can[n] /\ reason'[n] = reason[n]
      /\ \A n \in Mcus \ {m} : toHost'[n] = toHost[n] /\ toMcu'[n] = toMcu[n]
      /\ ~can'[m] /\ reason'[m] = r /\ toMcu'[m] = Tail(toMcu[m])
  BY <1>0, <1>1
<1>3. can[m] => reason'[m] # 0
  BY TriggerReason DEF HOST_REQUEST, PAST_END_TIME
<1>4. r \in 0..4
  BY <1>0, <1>2, TriggerReason DEF Reasons, HOST_REQUEST, PAST_END_TIME, COMMS_TIMEOUT
<1> HIDE DEF c, r
<1>5. /\ State(FALSE, r) \in Reports /\ Message("ack", FALSE, r) \in Reports
      /\ State(FALSE, r).name = "state" /\ State(FALSE, r).reason = r
      /\ Message("ack", FALSE, r).name = "ack"
  BY <1>0, <1>4 DEF State, Message, Reports
<1>6. PICK e \in Reports, a \in Reports :
         e = State(FALSE, r) /\ a = Message("ack", FALSE, r) /\ e.name = "state"
           /\ e.reason = r /\ a.name = "ack"
  BY <1>5
<1>7. CASE c.name = "trigger"
  <2>1. ack = << >>
    BY <1>7
  <2>2. PICK t \in Seq(Reports) : NoAck(t) /\ toHost' = [toHost EXCEPT ![m] = @ \o t]
    <3>1. CASE lost
      <4>1. PICK t \in Seq(Reports) : NoAck(t) /\ toHost[m] = toHost[m] \o t /\ t = << >>
        BY <1>0, ToldNothing
      <4>2. toHost[m] \o reply \o ack = toHost[m] \o t
        BY <1>0, <2>1, <3>1, <4>1
      <4>3. toHost' = [toHost EXCEPT ![m] = @ \o t]
        BY <1>1, <4>2
      <4> QED  BY <4>1, <4>3
    <3>2. CASE ~lost
      <4>1. PICK t \in Seq(Reports) : NoAck(t) /\ Append(toHost[m], e) = toHost[m] \o t
        BY <1>0, <1>6, ToldThis
      <4>2. toHost[m] \o reply \o ack = Append(toHost[m], e)
        <5>1. reply = <<e>>
          BY <1>6, <3>2
        <5>2. \A s \in Seq(Reports) : s \o <<e>> \o << >> = Append(s, e)
          OBVIOUS
        <5> QED  BY <1>0, <2>1, <5>1, <5>2
      <4>3. toHost' = [toHost EXCEPT ![m] = @ \o t]
        BY <1>1, <4>1, <4>2
      <4> QED  BY <4>1, <4>3
    <3> QED  BY <3>1, <3>2
  <2>3. Head(toMcu[m]).name # "query"
    BY <1>7 DEF c
  <2> QED  BY <1>1, <1>2, <1>3, <2>2, <2>3, TellStep
<1>8. CASE c.name = "query"
  <2>1. toHost'[m] = toHost[m] \o <<e, a>>
    <3>1. reply = <<e>> /\ ack = <<a>>
      BY <1>1, <1>6, <1>8
    <3>2. \A s \in Seq(Reports) : s \o <<e>> \o <<a>> = s \o <<e, a>>
      BY TwoBehind
    <3>3. toHost'[m] = toHost[m] \o reply \o ack
      BY <1>0, <1>1
    <3> QED  BY <1>0, <3>1, <3>2, <3>3
  <2>2. ~NoQuery(toMcu[m])
    <3>1. toMcu[m] \in Seq(Orders) /\ Head(toMcu[m]).name = "query"
      BY <1>0, <1>8 DEF c
    <3> QED  BY <1>1, <3>1, AskedLess
  <2>3. phase = "stop" /\ m = asking
    BY <2>2 DEF AskInv, Going, AskTypes
  <2>4. OneQuery(toMcu[m]) /\ NoAck(toHost[m])
    BY <2>2, <2>3 DEF AskInv
  <2>5. NoQuery(toMcu'[m])
    <3>1. toMcu[m] \in Seq(Orders) /\ Head(toMcu[m]).name = "query"
      BY <1>0, <1>8 DEF c
    <3> QED  BY <1>1, <1>2, <2>4, <3>1, AskedLess
  <2>6. \A k : Answered(toHost'[m], r, k)
    <3>1. toHost[m] \in Seq(Reports)
      BY <1>0
    <3>2. \A k : Answered(toHost[m] \o <<e, a>>, e.reason, k)
      BY <1>6, <2>4, <3>1, ToldBoth
    <3> QED  BY <1>6, <2>1, <3>2
  <2>7. (/\ NoQuery(toMcu[asking]) /\ ~can[asking]
         /\ Answered(toHost[asking], reason[asking], lastParams))'
    <3>1. asking' = m
      BY <1>1, <2>3
    <3>2. NoQuery(toMcu'[asking']) /\ ~can'[asking'] /\ Answered(toHost'[asking'], reason'[asking'], lastParams')
      BY <1>2, <2>5, <2>6, <3>1
    <3> QED  BY <3>2 DEF NoQuery, Answered
  <2>8. (\A n \in Mcus \ {asking} : NoQuery(toMcu[n]) /\ NoAck(toHost[n]))'
    <3>1. \A n \in Mcus \ {m} : NoQuery(toMcu'[n]) /\ NoAck(toHost'[n])
      BY <1>2, <2>3 DEF AskInv
    <3> QED  BY <1>1, <2>3, <3>1 DEF NoQuery, NoAck
  <2>9. (\A n \in 1..asking - 1 : Known(n))'
    <3>1. \A n \in 1..asking - 1 : n \in Mcus /\ n # asking /\ Known(n)
      BY <2>3, HomingNumbers DEF AskInv
    <3>2. ASSUME NEW n \in 1..asking - 1
          PROVE ~can'[n] /\ results'[n] = reason'[n] /\ reason'[n] # 0
      BY <1>1, <1>2, <2>3, <3>1 DEF Known
    <3> QED  BY <1>1, <3>2 DEF Known
  <2>10. (\A n \in Mcus : ~can[n] /\ reason[n] = 0 => ShutdownAhead(toHost[n]))'
    <3>1. ASSUME NEW n \in Mcus, ~can'[n], reason'[n] = 0  PROVE ShutdownAhead(toHost'[n])
      <4>1. ~can[n] /\ reason[n] = 0
        BY <1>2, <1>3, <3>1
      <4>2. ShutdownAhead(toHost[n])
        BY <2>3, <4>1 DEF AskInv
      <4>3. CASE n # m
        BY <1>2, <4>2, <4>3
      <4>4. CASE n = m
        <5>1. toHost[m] \in Seq(Reports) /\ toHost'[m] = toHost[m] \o <<e, a>>
          BY <1>0, <2>1
        <5>2. ShutdownAhead(toHost[m] \o <<e, a>>)
          <6> PICK s \in Seq(Reports) : s = toHost[m]
            BY <5>1
          <6>1. PICK j \in DOMAIN s : s[j].name = "shutdown" /\ \A i \in 1..j : s[i].name # "ack"
            BY <4>2, <4>4 DEF ShutdownAhead
          <6>2. \A i \in 1..j : i \in DOMAIN s
            BY <6>1
          <6>3. \A i \in DOMAIN s : i \in DOMAIN (s \o <<e, a>>) /\ (s \o <<e, a>>)[i] = s[i]
            OBVIOUS
          <6> QED  BY <6>1, <6>2, <6>3 DEF ShutdownAhead
        <5> QED  BY <4>4, <5>1, <5>2
      <4> QED  BY <4>3, <4>4
    <3> QED  BY <3>1 DEF ShutdownAhead
  <2> QED  BY <1>1, <2>3, <2>7, <2>8, <2>9, <2>10 DEF AskInv
<1> QED  BY <1>1, <1>7, <1>8

\* A report is taken before the wait or during it.
LEMMA ReportTells ==
    ASSUME ListenInv, AskTypes, AskInv, Going, NEW m \in Mcus, HandleState(m) \/ TakeReport(m)
    PROVE  AskInv'
<1>0. toHost \in [Mcus -> Seq(Reports)] /\ toMcu \in [Mcus -> Seq(Orders)]
  BY DEF ListenInv, ListenTypes
<1>1. /\ UNCHANGED <<phase, asking, results, can, reason>>
      /\ toHost[m] # << >> /\ Head(toHost[m]).name = "state"
      /\ toHost' = [toHost EXCEPT ![m] = Tail(@)]
  BY DEF HandleState, TakeReport, mcuVars
<1>2. ASSUME NEW n \in Mcus
      PROVE  /\ NoAck(toHost[n]) => NoAck(toHost'[n])
             /\ ShutdownAhead(toHost[n]) => ShutdownAhead(toHost'[n])
  <2>1. CASE n = m
    <3>1. toHost[m] \in Seq(Reports) /\ toHost'[m] = Tail(toHost[m])
      BY <1>0, <1>1
    <3> QED  BY <1>1, <2>1, <3>1, ToldOne
  <2>2. CASE n # m
    BY <1>0, <1>1, <2>2
  <2> QED  BY <2>1, <2>2
<1>3. ASSUME NEW n \in Mcus, NoQuery(toMcu[n])  PROVE NoQuery(toMcu'[n])
  <2>1. CASE HandleState(m)
    <3>1. ASSUME NEW i \in DOMAIN toMcu'[n]  PROVE toMcu'[n][i].name # "query"
      <4>1. \/ i \in DOMAIN toMcu[n] /\ toMcu'[n][i] = toMcu[n][i]
            \/ toMcu'[n][i].name \in {"trigger", "timeout"}
        BY <2>1, StateOrders
      <4> QED  BY <1>3, <4>1 DEF NoQuery
    <3> QED  BY <3>1 DEF NoQuery
  <2>2. CASE TakeReport(m)
    BY <1>3, <2>2 DEF TakeReport
  <2> QED  BY <2>1, <2>2
<1>4. asking \in Mcus
  BY DEF AskTypes
<1>5. ASSUME phase = "stop"
      PROVE  /\ OneQuery(toMcu[asking]) => OneQuery(toMcu'[asking])
             /\ Answered(toHost[asking], reason[asking], lastParams)
                   => Answered(toHost'[asking], reason[asking], lastParams')
  <2>1. toMcu' = toMcu /\ lastParams' = IF m = asking THEN Head(toHost[m]).reason ELSE lastParams
    BY <1>5 DEF HandleState, TakeReport
  <2>2. CASE m = asking
    <3>1. toHost[m] \in Seq(Reports) /\ toHost'[m] = Tail(toHost[m])
      BY <1>0, <1>1
    <3>2. \A r, k : Answered(toHost[m], r, k) => Answered(Tail(toHost[m]), r, Head(toHost[m]).reason)
      BY <1>1, <3>1, ToldOne
    <3> QED  BY <2>1, <2>2, <3>1, <3>2
  <2>3. CASE m # asking
    <3>1. toHost'[asking] = toHost[asking]
      BY <1>0, <1>1, <1>4, <2>3
    <3> QED  BY <2>1, <2>3, <3>1
  <2> QED  BY <2>2, <2>3
<1> QED  BY <1>1, <1>2, <1>3, <1>4, <1>5, AskStep

\* An acknowledgement is taken: the next is asked, or none is left.
LEMMA AckTells ==
    ASSUME ListenInv, AskTypes, AskInv, Going, NEW m \in Mcus, TakeAck(m)
    PROVE  AskInv'
<1>0. /\ toHost \in [Mcus -> Seq(Reports)] /\ toMcu \in [Mcus -> Seq(Orders)]
      /\ reason \in [Mcus -> 0..4] /\ results \in [Mcus -> Int]
  BY DEF ListenInv, ListenTypes, AskTypes
<1>1. /\ phase = "stop" /\ UNCHANGED <<can, reason>>
      /\ toHost[m] # << >> /\ Head(toHost[m]).name = "ack"
      /\ toHost' = [toHost EXCEPT ![m] = Tail(@)]
  BY DEF TakeAck, mcuVars
<1>2. /\ toHost[m] \in Seq(Reports) /\ toHost'[m] = Tail(toHost[m])
      /\ \A n \in Mcus \ {m} : toHost'[n] = toHost[n]
  BY <1>0, <1>1
<1>3. ~NoAck(toHost[m])
  <2>1. 1 \in DOMAIN toHost[m] /\ Head(toHost[m]) = toHost[m][1]
    BY <1>1, <1>2, WithoutFirst
  <2> QED  BY <1>1, <2>1 DEF NoAck
<1>4. /\ m = asking /\ NoQuery(toMcu[m]) /\ ~can[m]
      /\ Answered(toHost[m], reason[m], lastParams)
  BY <1>1, <1>3 DEF AskInv
<1>5. lastParams = reason[m] /\ NoAck(Tail(toHost[m])) /\ ~ShutdownAhead(toHost[m])
  BY <1>1, <1>2, <1>4, ToldAll
<1>6. reason[m] # 0
  BY <1>1, <1>4, <1>5 DEF AskInv
<1>7. lastParams \in 0..4 /\ lastParams # NoTime
  BY <1>0, <1>5 DEF NoTime
<1>8. /\ results' = [results EXCEPT ![m] = lastParams]
      /\ IF m + 1 \in Mcus
         THEN /\ asking' = m + 1 /\ phase' = phase
              /\ toMcu' = [toMcu EXCEPT ![m + 1] = Append(@, Query)]
         ELSE phase' = "done" /\ UNCHANGED <<asking, toMcu>>
  BY <1>7 DEF TakeAck
<1>9. \A n \in Mcus : n = m \/ n \in 1..m - 1 => ~can'[n] /\ results'[n] = reason'[n] /\ reason'[n] # 0
  <2>1. \A n \in 1..m - 1 : n # m /\ Known(n) /\ n \in Mcus
    BY <1>1, <1>4, HomingNumbers DEF AskInv
  <2>2. results'[m] = reason[m] /\ \A n \in Mcus \ {m} : results'[n] = results[n]
    BY <1>0, <1>5, <1>8
  <2> QED  BY <1>1, <1>4, <1>6, <2>1, <2>2 DEF Known
<1>10. (\A n \in Mcus : ~can[n] /\ reason[n] = 0 => ShutdownAhead(toHost[n]))'
  <2>1. ASSUME NEW n \in Mcus, ~can'[n], reason'[n] = 0  PROVE ShutdownAhead(toHost'[n])
    BY <1>1, <1>2, <1>6, <2>1 DEF AskInv
  <2> QED  BY <2>1 DEF ShutdownAhead
<1>11. CASE m + 1 \in Mcus
  <2> DEFINE n == m + 1
  <2>1. n # m /\ \A k \in 1..n - 1 : k \in Mcus /\ (k = m \/ k \in 1..m - 1)
    BY <1>11, HomingNumbers
  <2>2. /\ asking' = n /\ phase' = "stop" /\ n \in Mcus
        /\ toMcu'[n] = Append(toMcu[n], Query) /\ \A k \in Mcus \ {n} : toMcu'[k] = toMcu[k]
    BY <1>0, <1>1, <1>8, <1>11
  <2> HIDE DEF n
  <2>3. OneQuery(toMcu'[n])
    <3>1. NoQuery(toMcu[n]) /\ toMcu[n] \in Seq(Orders)
      BY <1>0, <1>1, <1>4, <2>1, <2>2 DEF AskInv
    <3>2. Query.name = "query"
      BY DEF Query, Command
    <3>3. \A s \in Seq(Orders), e \in Orders : NoQuery(s) /\ e.name = "query" => OneQuery(Append(s, e))
      BY AskedMore
    <3> QED  BY <2>2, <3>1, <3>2, <3>3, QueryIsOrder
  <2>4. NoAck(toHost'[n])
    BY <1>1, <1>2, <1>4, <2>1, <2>2 DEF AskInv
  <2>5. ASSUME NEW k \in Mcus, k # n  PROVE NoQuery(toMcu'[k]) /\ NoAck(toHost'[k])
    <3>1. toMcu'[k] = toMcu[k]
      BY <2>2, <2>5
    <3>2. CASE k = m
      BY <1>2, <1>4, <1>5, <3>1, <3>2
    <3>3. CASE k # m
      BY <1>1, <1>2, <1>4, <3>1, <3>3 DEF AskInv
    <3> QED  BY <3>2, <3>3
  <2>6. (OneQuery(toMcu[asking]) /\ NoAck(toHost[asking]))'
    BY <2>2, <2>3, <2>4 DEF OneQuery, NoAck
  <2>7. (\A k \in Mcus \ {asking} : NoQuery(toMcu[k]) /\ NoAck(toHost[k]))'
    BY <2>2, <2>5 DEF NoQuery, NoAck
  <2>8. (\A k \in 1..asking - 1 : Known(k))'
    BY <1>9, <2>1, <2>2 DEF Known
  <2> QED  BY <1>10, <2>2, <2>6, <2>7, <2>8 DEF AskInv
<1>12. CASE m + 1 \notin Mcus
  <2>1. phase' = "done"
    BY <1>8, <1>12
  <2>2. \A n \in Mcus : n = m \/ n \in 1..m - 1
    BY <1>12, HomingNumbers
  <2>3. (\A n \in Mcus : Known(n))'
    BY <1>9, <2>2 DEF Known
  <2> QED  BY <1>10, <2>1, <2>3 DEF AskInv
<1> QED  BY <1>11, <1>12

\* home_wait begins to ask.
LEMMA WaitOverTells ==
    ASSUME ListenInv, AskTypes, AskInv, WaitOver
    PROVE  AskInv'
<1> DEFINE d == Command("disable", 0)
           s == Append(toMcu[1], d)
<1>0. toMcu \in [Mcus -> Seq(Orders)] /\ 1 \in Mcus
  BY HomingNumbers DEF ListenInv, ListenTypes
<1>1. /\ phase = "wait" /\ phase' = "stop" /\ asking' = 1
      /\ UNCHANGED <<can, reason, toHost>>
      /\ toMcu' = [toMcu EXCEPT ![1] = @ \o <<d, Query>>]
  BY DEF WaitOver, mcuVars
<1>2. \A n \in Mcus : NoQuery(toMcu[n]) /\ NoAck(toHost[n])
  BY <1>1 DEF AskInv
<1>3. \A n \in Mcus : ~can[n] /\ reason[n] = 0 => ShutdownAhead(toHost[n])
  BY <1>1 DEF AskInv
<1>4. d \in Orders /\ d.name # "query" /\ Query.name = "query"
  BY DEF Command, Orders, Query
<1> HIDE DEF d
<1>5. s \in Seq(Orders) /\ toMcu[1] \o <<d, Query>> = Append(s, Query)
  <2>1. toMcu[1] \in Seq(Orders)
    BY <1>0
  <2>2. \A q \in Seq(Orders), a \in Orders, b \in Orders : q \o <<a>> \o <<b>> = q \o <<a, b>>
    BY TwoBehind
  <2>3. \A q \in Seq(Orders), a \in Orders : Append(q, a) = q \o <<a>> /\ Append(q, a) \in Seq(Orders)
    BY AppendBehind, WithLast
  <2> QED  BY <1>4, <2>1, <2>2, <2>3, QueryIsOrder
<1> HIDE DEF s
<1>6. OneQuery(toMcu'[1])
  <2>1. NoQuery(s)
    BY <1>0, <1>2, <1>4, AskedMore DEF s
  <2>2. OneQuery(Append(s, Query))
    BY <1>4, <1>5, <2>1, QueryIsOrder, AskedMore
  <2> QED  BY <1>0, <1>1, <1>5, <2>2
<1>7. \A n \in Mcus \ {1} : toMcu'[n] = toMcu[n]
  BY <1>0, <1>1
<1>8. (OneQuery(toMcu[asking]) /\ NoAck(toHost[asking]))'
  BY <1>0, <1>1, <1>2, <1>6 DEF OneQuery, NoAck
<1>9. (\A n \in Mcus \ {asking} : NoQuery(toMcu[n]) /\ NoAck(toHost[n]))'
  BY <1>1, <1>2, <1>7 DEF NoQuery, NoAck
<1>10. (\A n \in 1..asking - 1 : Known(n))'
  BY <1>1
<1>11. (\A n \in Mcus : ~can[n] /\ reason[n] = 0 => ShutdownAhead(toHost[n]))'
  BY <1>1, <1>3 DEF ShutdownAhead
<1> QED  BY <1>1, <1>8, <1>9, <1>10, <1>11 DEF AskInv

LEMMA NextTypes ==
    ASSUME ListenInv, AskTypes, AskInv, HomingNext
    PROVE  AskTypes'
<1>1. \/ UNCHANGED <<phase, asking, results>>
      \/ WaitOver \/ MoveReturns
      \/ \E m \in Mcus : TakeAck(m) \/ TakeShutdown(m)
  <2> DEFINE Same == UNCHANGED <<phase, asking, results>>
  <2>1. Tick \/ TakeDisable => Same
    BY DEF Tick, TakeDisable, homeVars
  <2>2. \A m \in Mcus, lost \in BOOLEAN : Expire(m, lost) => Same
    BY DEF Expire, homeVars
  <2>3. \A m \in Mcus, lost \in BOOLEAN : SendReport(m, lost) => Same
    BY DEF SendReport, homeVars
  <2>4. \A m \in Mcus, lost \in BOOLEAN : TakeTrigger(m, lost) => Same
    BY DEF TakeTrigger, homeVars
  <2>5. \A matches, lost \in BOOLEAN : SampleEndstop(matches, lost) => Same
    BY DEF SampleEndstop, homeVars
  <2>6. \A m \in Mcus : TakeTimeout(m) => Same
    BY DEF TakeTimeout, homeVars
  <2>7. \A m \in Mcus : HandleState(m) \/ TakeReport(m) => Same
    BY DEF HandleState, TakeReport
  <2> HIDE DEF Same
  <2>8. Same \/ WaitOver \/ MoveReturns \/ \E m \in Mcus : TakeAck(m) \/ TakeShutdown(m)
    BY <2>1, <2>2, <2>3, <2>4, <2>5, <2>6, <2>7 DEF HomingNext
  <2> QED  BY <2>8 DEF Same
<1>2. CASE UNCHANGED <<phase, asking, results>>
  BY <1>2 DEF AskTypes
<1>3. CASE WaitOver \/ MoveReturns
  BY <1>3, HomingNumbers DEF AskTypes, WaitOver, MoveReturns
<1>4. ASSUME NEW m \in Mcus, TakeShutdown(m)  PROVE AskTypes'
  BY <1>4 DEF AskTypes, TakeShutdown
<1>5. ASSUME NEW m \in Mcus, TakeAck(m)  PROVE AskTypes'
  <2>1. /\ asking' = asking \/ (m + 1 \in Mcus /\ asking' = m + 1)
        /\ phase' \in {phase, "done"}
        /\ \/ results' = results
           \/ lastParams # NoTime /\ results' = [results EXCEPT ![m] = lastParams]
    BY <1>5 DEF TakeAck
  <2>2. lastParams \in Int
    <3>1. /\ phase = "stop" /\ toHost[m] # << >> /\ Head(toHost[m]).name = "ack"
          /\ toHost[m] \in Seq(Reports) /\ reason \in [Mcus -> 0..4]
      BY <1>5 DEF TakeAck, ListenInv, ListenTypes
    <3>2. 1 \in DOMAIN toHost[m] /\ Head(toHost[m]) = toHost[m][1]
      BY <3>1, WithoutFirst
    <3>3. ~NoAck(toHost[m])
      BY <3>1, <3>2 DEF NoAck
    <3>4. Answered(toHost[m], reason[m], lastParams)
      BY <3>1, <3>3 DEF AskInv
    <3>5. lastParams = reason[m]
      BY <3>1, <3>4, ToldAll
    <3> QED  BY <3>1, <3>5
  <2> QED  BY <2>1, <2>2 DEF AskTypes
<1> QED  BY <1>1, <1>2, <1>3, <1>4, <1>5

LEMMA NextTells ==
    ASSUME ListenInv, OrdersRight, AskTypes, AskInv, Lossy = FALSE, HomingNext
    PROVE  AskInv'
<1>0. Going /\ 1 \in Mcus
  BY HomingNumbers DEF HomingNext
<1>1. ASSUME NEW m \in Mcus, NEW lost \in BOOLEAN, Expire(m, lost)
      PROVE  AskInv'
  <2>1. UNCHANGED <<phase, asking, results, lastParams, toMcu>>
    BY <1>1 DEF Expire, homeVars
  <2>2. CASE can[m] /\ DoTrigger(m, COMMS_TIMEOUT, lost)
    BY <1>0, <2>1, <2>2, TriggerTells
  <2>3. CASE UNCHANGED <<can, reason, stopped, toHost>>
    BY <1>0, <2>1, <2>3, QuietStep
  <2> QED  BY <1>1, <2>2, <2>3 DEF Expire
<1>2. ASSUME NEW matches \in BOOLEAN, NEW lost \in BOOLEAN, SampleEndstop(matches, lost)
      PROVE  AskInv'
  <2>1. UNCHANGED <<phase, asking, results, lastParams, toMcu>>
    BY <1>2 DEF SampleEndstop, homeVars
  <2>2. CASE can[1] /\ DoTrigger(1, HIT, lost)
    BY <1>0, <2>1, <2>2, TriggerTells
  <2>3. CASE UNCHANGED <<can, reason, stopped, toHost>>
    BY <1>0, <2>1, <2>3, QuietStep
  <2> QED  BY <1>2, <2>2, <2>3 DEF SampleEndstop
<1>3. ASSUME NEW m \in Mcus, NEW lost \in BOOLEAN, SendReport(m, lost) \/ TakeTrigger(m, lost)
      PROVE  AskInv'
  BY <1>0, <1>3, SendTells, QueryTells
<1>4. ASSUME NEW m \in Mcus, TakeTimeout(m) \/ HandleState(m) \/ TakeReport(m) \/ TakeAck(m)
      PROVE  AskInv'
  BY <1>0, <1>4, TimeoutTells, ReportTells, AckTells
<1>5. ASSUME NEW m \in Mcus, TakeShutdown(m)
      PROVE  AskInv'
  <2>1. phase' = "failed"
    BY <1>5 DEF TakeShutdown
  <2> QED  BY <2>1 DEF AskInv
<1>6. CASE Tick
  <2>1. UNCHANGED <<phase, asking, results, lastParams, can, reason, toHost, toMcu>>
    BY <1>6 DEF Tick, homeVars, mcuVars
  <2> QED  BY <1>0, <2>1, QuietStep
<1>7. CASE TakeDisable
  <2>1. /\ UNCHANGED <<phase, asking, results, lastParams, can, reason, toHost>>
        /\ toMcu[1] # << >> /\ Head(toMcu[1]).name # "query" /\ toMcu' = [toMcu EXCEPT ![1] = Tail(@)]
    BY <1>7 DEF TakeDisable, homeVars, mcuVars
  <2> QED  BY <1>0, <2>1, QuietStep
<1>8. CASE MoveReturns
  <2>1. phase = "drip" /\ phase' = "wait" /\ UNCHANGED <<can, reason, toHost, toMcu>>
    BY <1>8 DEF MoveReturns, mcuVars
  <2>2. \A n \in Mcus : NoQuery(toMcu[n]) /\ NoAck(toHost[n])
    BY <2>1 DEF AskInv
  <2>3. \A n \in Mcus : ~can[n] /\ reason[n] = 0 => ShutdownAhead(toHost[n])
    BY <2>1 DEF AskInv
  <2>4. (\A n \in Mcus : NoQuery(toMcu[n]) /\ NoAck(toHost[n]))'
    BY <2>1, <2>2 DEF NoQuery, NoAck
  <2>5. (\A n \in Mcus : ~can[n] /\ reason[n] = 0 => ShutdownAhead(toHost[n]))'
    BY <2>1, <2>3 DEF ShutdownAhead
  <2> QED  BY <2>1, <2>4, <2>5 DEF AskInv
<1>9. CASE WaitOver
  BY <1>9, WaitOverTells
<1> QED  BY <1>1, <1>2, <1>3, <1>4, <1>5, <1>6, <1>7, <1>8, <1>9 DEF HomingNext

LEMMA AskInit ==
    ASSUME HomingInit
    PROVE  AskTypes /\ AskInv
<1>1. AskTypes
  BY HomingNumbers DEF HomingInit, AskTypes
<1>2. phase = "drip" /\ \A m \in Mcus : can[m] /\ DOMAIN toMcu[m] = {} /\ DOMAIN toHost[m] = {}
  BY DEF HomingInit
<1>3. \A m \in Mcus : NoQuery(toMcu[m]) /\ NoAck(toHost[m])
  BY <1>2 DEF NoQuery, NoAck
<1> QED  BY <1>1, <1>2, <1>3 DEF AskInv

-----------------------------------------------------------------------------
(* The theorems.                                                           *)

LEMMA OverrunFollows ==
    ASSUME ListenInv
    PROVE  OverrunBounded
<1>1. ASSUME NEW m \in Mcus, NEW n \in Mcus, stopped[m] # NoTime, stopped[n] = NoTime
      PROVE  time <= stopped[m] + ExpireTicks
  <2>1. /\ time \in Nat /\ ExpireTicks \in Nat /\ stopped \in [Mcus -> Int] /\ expire \in [Mcus -> Int]
        /\ can \in [Mcus -> BOOLEAN]
    BY HomingNumbers DEF ListenInv, ListenTypes
  <2>2. can[n] /\ ~can[m]
    <3>1. /\ can[m] => stopped[m] = NoTime
          /\ ~can[n] => stopped[n] \in 0..time
      BY DEF ListenInv, StopsNoted
    <3>2. NoTime \notin 0..time
      BY <2>1 DEF NoTime
    <3> QED  BY <1>1, <3>1, <3>2
  <2>3. expire[n] >= time /\ Allowed(n, expire[n]) /\ m # n
    BY <2>2 DEF ListenInv
  <2>4. Limit(m) = stopped[m]
    BY <2>2 DEF Limit
  <2>5. expire[n] <= stopped[m] + ExpireTicks
    BY <2>3, <2>4 DEF Allowed
  <2>6. expire[n] \in Int /\ stopped[m] \in Int
    BY <2>1
  <2> QED  BY <2>1, <2>3, <2>5, <2>6
<1> QED  BY <1>1 DEF OverrunBounded

LEMMA HomedFollows ==
    ASSUME ListenInv, OrdersRight, AskInv, SampleInv
    PROVE  HomedByEndstop /\ TriggerTimeRight
<1> SUFFICES ASSUME Homed
             PROVE  /\ \A m \in Mcus : ~can[m] /\ reason[m] = IF m = 1 THEN HIT ELSE HOST_REQUEST
                    /\ Len(run) >= SampleCount /\ TriggerTime = run[1]
  BY DEF HomedByEndstop, TriggerTimeRight
<1>1. \A m \in Mcus : Known(m)
  BY DEF AskInv, Homed
<1>2. reason[1] = HIT
  BY <1>1, HomingNumbers DEF Known, Homed
<1>3. ASSUME NEW m \in Mcus, m # 1  PROVE reason[m] = HOST_REQUEST
  <2>1. reason[m] \in {0, COMMS_TIMEOUT, HOST_REQUEST}
    BY <1>3 DEF OrdersRight, Reasons
  <2>2. reason[m] # 0 /\ reason[m] # COMMS_TIMEOUT
    BY <1>1 DEF Known, Homed, TimedOut
  <2> QED  BY <2>1, <2>2
<1>4. Len(run) >= SampleCount /\ endstop.next = run[1] + RestTicks
  BY <1>2 DEF SampleInv
<1>5. run[1] \in Int
  <2>1. run \in Seq(Int) /\ SampleCount \in Nat \ {0} /\ Len(run) \in Nat
    BY HomingNumbers DEF SampleInv
  <2>2. 1 \in 1..Len(run)
    BY <1>4, <2>1
  <2> QED  BY <2>1, <2>2
<1>6. TriggerTime = run[1]
  BY <1>4, <1>5, HomingNumbers DEF TriggerTime
<1> QED  BY <1>1, <1>2, <1>3, <1>4, <1>6 DEF Known

\* A stutter changes nothing of these.
LEMMA HomingStutters ==
    ASSUME UNCHANGED homingVars
    PROVE  /\ ListenInv => ListenInv'
           /\ OrdersRight => OrdersRight'
           /\ SampleInv => SampleInv'
           /\ AskTypes => AskTypes'
           /\ AskInv => AskInv'
<1>1. /\ UNCHANGED <<time, can, reason, expire, stopped, status, toHost, toMcu>>
      /\ UNCHANGED <<endstop, run, phase, asking, lastParams, results>>
  BY DEF homingVars, mcuVars, endstopVars, tdVars, homeVars
<1>2. ListenInv => ListenInv'
  BY <1>1 DEF ListenInv, ListenTypes, StopsNoted, HeardOf, Allowed, Limit
<1>3. OrdersRight => OrdersRight'
  BY <1>1 DEF OrdersRight, Reasons, Order
<1>4. SampleInv => SampleInv'
  BY <1>1 DEF SampleInv
<1>5. AskTypes => AskTypes'
  BY <1>1 DEF AskTypes
<1>6. AskInv => AskInv'
  BY <1>1 DEF AskInv, Known, NoQuery, NoAck, OneQuery, Answered, ShutdownAhead
<1> QED  BY <1>2, <1>3, <1>4, <1>5, <1>6

\* Whatever is late or lost, nobody goes on longer than the timeout after another has
\* stopped (trdispatch.c:81-119, trsync.c:49-54).
THEOREM OverrunIsBounded == HomingSpec => []OverrunBounded
<1>1. HomingInit => ListenInv /\ OrdersRight
  BY ListenInit
<1>2. ListenInv /\ OrdersRight /\ [HomingNext]_homingVars => ListenInv' /\ OrdersRight'
  BY NextListens, NextOrders, HomingStutters
<1>3. ListenInv => OverrunBounded
  BY OverrunFollows
<1> QED  BY <1>1, <1>2, <1>3, PTL DEF HomingSpec

\* A home that succeeds was the endstop's, and its time that of the first of the samples in
\* a row, when no reply is lost (endstop.c:28-64, trdispatch.c:81-119, mcu.py:117-222).
THEOREM HomingIsRight ==
    ASSUME Lossy = FALSE
    PROVE  HomingSpec => []HomingRight
<1> DEFINE Inv == ListenInv /\ OrdersRight /\ SampleInv /\ AskTypes /\ AskInv
<1>1. HomingInit => Inv
  BY ListenInit, SampleInit, AskInit
<1>2. Inv /\ [HomingNext]_homingVars => Inv'
  <2> SUFFICES ASSUME Inv, [HomingNext]_homingVars  PROVE Inv'
    OBVIOUS
  <2>1. CASE HomingNext
    <3>1. ListenInv' /\ OrdersRight'
      BY <2>1, NextListens, NextOrders
    <3>2. SampleInv'
      BY <2>1, <3>1, NextSampled
    <3>3. AskTypes' /\ AskInv'
      BY <2>1, NextTypes, NextTells
    <3> QED  BY <3>1, <3>2, <3>3
  <2>2. CASE UNCHANGED homingVars
    BY <2>2, HomingStutters
  <2> QED  BY <2>1, <2>2
<1>3. Inv => HomingRight
  BY OverrunFollows, HomedFollows DEF HomingRight
<1> QED  BY <1>1, <1>2, <1>3, PTL DEF HomingSpec
=============================================================================
