---------------------------- MODULE DeviceProofs ----------------------------
(* Proofs about the firmware and what the host does for it: heaters, their *)
(* check, buttons and the timers that everything in the firmware runs by.  *)
EXTENDS Heater, HeaterCheck, Buttons, Timers, SequenceLemmas

-----------------------------------------------------------------------------
(* Two queues one behind the other.                                        *)

LEMMA BehindBoth ==
  ASSUME NEW X, NEW q \in Seq(X), NEW s \in Seq(X), NEW e \in X
  PROVE  q \o Append(s, e) = Append(q \o s, e)
OBVIOUS

LEMMA HandOver ==
  ASSUME NEW X, NEW q \in Seq(X), NEW s \in Seq(X), s # << >>
  PROVE  Append(q, Head(s)) \o Tail(s) = q \o s /\ << >> \o s = s /\ <<Head(s)>> \o Tail(s) = s
OBVIOUS

LEMMA TakeFirst ==
  ASSUME NEW X, NEW q \in Seq(X), NEW s \in Seq(X), q # << >>
  PROVE  /\ Tail(q) \o s = Tail(q \o s) /\ q \o s # << >> /\ Head(q \o s) = Head(q)
         /\ (q \o s)[1] = q[1]
OBVIOUS

LEMMA TailIs ==
  ASSUME NEW X, NEW s \in Seq(X), s # << >>
  PROVE  /\ Tail(s) \in Seq(X) /\ Head(s) = s[1] /\ 1 \in DOMAIN s /\ s[1] \in X
         /\ Len(s) = Len(Tail(s)) + 1 /\ Len(s) \in Nat
         /\ \A i \in DOMAIN Tail(s) : i \in Nat /\ i + 1 \in DOMAIN s /\ Tail(s)[i] = s[i + 1]
         /\ Tail(s) # << >> => /\ 1 \in DOMAIN Tail(s) /\ 2 \in DOMAIN s /\ Tail(s)[1] = s[2]
                                /\ Len(Tail(s)) \in DOMAIN Tail(s) /\ s[2] \in X
         /\ Tail(s) = << >> => Len(s) = 1
<1> DEFINE r == Tail(s)
<1>1. /\ r \in Seq(X) /\ Head(s) = s[1] /\ 1 \in DOMAIN s /\ s[1] \in X
      /\ Len(s) = Len(r) + 1 /\ Len(s) \in Nat /\ Len(r) \in Nat
  OBVIOUS
<1>2. \A i \in DOMAIN r : i \in Nat /\ i + 1 \in DOMAIN s /\ r[i] = s[i + 1]
  OBVIOUS
<1> HIDE DEF r
<1>3. r # << >> => 1 \in DOMAIN r /\ Len(r) \in DOMAIN r
  BY <1>1
<1>4. r # << >> => 2 \in DOMAIN s /\ r[1] = s[2] /\ s[2] \in X
  <2>1. r # << >> => 1 + 1 \in DOMAIN s /\ r[1] = s[1 + 1]
    BY <1>2, <1>3
  <2>2. \A i \in DOMAIN s : s[i] \in X
    OBVIOUS
  <2> QED  BY <2>1, <2>2
<1>5. r = << >> => Len(s) = 1
  <2>1. r = << >> => Len(r) = 0
    OBVIOUS
  <2> QED  BY <1>1, <2>1
<1> QED  BY <1>1, <1>2, <1>3, <1>4, <1>5 DEF r

-----------------------------------------------------------------------------
(* The output of a heater (Heater).                                        *)

Sendings == [sent : Nat, min : Nat, at : Nat, power : Nat]

\* The commands that are not loaded yet, in the order in which they were sent.
Sent == pinQueue \o cable

HeaterTypes ==
    /\ reportTime \in Nat /\ targetTemp \in {0, 1} /\ lastPwm \in Nat /\ nextPwm \in Nat
    /\ lost \in Nat /\ minClock \in Nat /\ loadedAt \in Nat /\ zeroAt \in Nat /\ pin \in Nat
    /\ endTime \in Nat \cup {Unset} /\ pinTimer \in Nat \cup {Unset}
    /\ cable \in Seq(Sendings) /\ pinQueue \in Seq(Sendings)

\* The host sends at the latest with the first report that it has after nextPwm.
HostSends ==
    /\ lost <= MaxLost /\ (fresh => lost = 0)
    /\ minClock <= reportTime + PwmDelay /\ (fresh => minClock < reportTime + PwmDelay)
    /\ lastPwm # 0 => nextPwm = minClock + RefreshTime
    /\ alive /\ lastPwm # 0 /\ fresh => reportTime <= nextPwm + MaxLost
    /\ alive /\ lastPwm # 0 /\ ~fresh => reportTime < nextPwm + lost

\* When a target of 0 is sent.
OffSent ==
    targetTemp = 0 =>
        /\ zeroAt <= reportTime
        /\ minClock <= zeroAt + RefreshTime + 2 * PwmDelay + MaxLost
        /\ lastPwm # 0 => minClock <= zeroAt + PwmDelay

\* Commands in the order of their times, each soon enough after the one before; at
\* the time t none was missed.
InTime(s, t) ==
    \A i \in DOMAIN s :
        /\ s[i].at = s[i].sent + PwmDelay /\ s[i].min < s[i].at /\ t <= s[i].at
        /\ \A j \in DOMAIN s : i < j => s[i].at < s[j].at
        /\ i # 1 => s[i].min = s[i - 1].at
        /\ i # 1 /\ s[i - 1].power # 0 => s[i].sent <= s[i - 1].at + RefreshTime + MaxLost

\* They lead from what the pin has to what the host has sent last.
FromPin(s) ==
    /\ s # << >> => s[1].min <= loadedAt
    /\ s # << >> /\ pin # 0 => s[1].sent <= loadedAt + RefreshTime + MaxLost
    /\ s = << >> => pin = lastPwm /\ minClock = loadedAt
ToHost(s) == s # << >> => s[Len(s)].at = minClock /\ s[Len(s)].power = lastPwm

\* The timer of the pin, and how long a command is on its way.
PinTimed ==
    /\ endTime = pinTimer
    /\ pinQueue # << >> => pinTimer = pinQueue[1].at
    /\ pinQueue = << >> => pinTimer = IF pin # 0 THEN loadedAt + MaxDuration ELSE Unset
    /\ pin # 0 => reportTime <= pinTimer
    /\ \A i \in DOMAIN cable :
          reportTime <= cable[i].sent + CommandDelay \/ reportTime <= cable[i].min

HeaterInv ==
    /\ HeaterTypes /\ HostSends /\ OffSent
    /\ shutdown = "no" => InTime(Sent, reportTime) /\ FromPin(Sent) /\ ToHost(Sent) /\ PinTimed
    /\ shutdown # "no" => pin = 0 /\ pinTimer = Unset
    /\ alive => shutdown \in {"no", "out of range"}

\* One more command is sent.
LEMMA SendInTime ==
  ASSUME NEW s \in Seq(Sendings), NEW t \in Nat, NEW c \in Sendings, InTime(s, t), ToHost(s),
         minClock \in Nat, lastPwm \in Nat, s # << >> => c.min = minClock,
         c.at = c.sent + PwmDelay, c.min < c.at, t <= c.at, minClock < c.at,
         lastPwm # 0 => c.sent <= minClock + RefreshTime + MaxLost
  PROVE  InTime(Append(s, c), t)
<1> DEFINE a == Append(s, c)  n == Len(s)
<1>1. /\ n \in Nat /\ DOMAIN s = 1..n /\ DOMAIN a = 1..(n + 1) /\ a[n + 1] = c
      /\ \A i \in 1..n : a[i] = s[i] /\ s[i] \in Sendings
      /\ s # << >> <=> n # 0
  OBVIOUS
<1> HIDE DEF a, n
<1>2. n # 0 => s[n].at = minClock /\ s[n].power = lastPwm /\ c.min = minClock
  BY <1>1 DEF ToHost, n
<1>3. ASSUME NEW i \in 1..n  PROVE s[i].at <= minClock /\ s[i].at \in Nat
  <2>1. n \in DOMAIN s /\ i \in DOMAIN s /\ s[n].at = minClock /\ (i < n => s[i].at < s[n].at)
    BY <1>1, <1>2 DEF InTime
  <2>2. s[i].at \in Nat
    BY <1>1 DEF Sendings
  <2>3. i < n \/ i = n
    BY <1>1
  <2> QED  BY <2>1, <2>2, <2>3
<1>4. ASSUME NEW i \in DOMAIN a
      PROVE  /\ a[i].at = a[i].sent + PwmDelay /\ a[i].min < a[i].at /\ t <= a[i].at
             /\ \A j \in DOMAIN a : i < j => a[i].at < a[j].at
             /\ i # 1 => a[i].min = a[i - 1].at
             /\ i # 1 /\ a[i - 1].power # 0 => a[i].sent <= a[i - 1].at + RefreshTime + MaxLost
  <2>1. CASE i \in 1..n
    <3>1. i \in DOMAIN s /\ a[i] = s[i] /\ (i # 1 => i - 1 \in 1..n /\ a[i - 1] = s[i - 1])
      BY <1>1, <2>1
    <3>2. ASSUME NEW j \in DOMAIN a, i < j  PROVE a[i].at < a[j].at
      <4>1. CASE j \in 1..n
        BY <1>1, <2>1, <3>1, <3>2, <4>1 DEF InTime
      <4>2. CASE j = n + 1
        <5>1. a[j] = c /\ c.at \in Nat
          BY <1>1, <4>2 DEF Sendings
        <5> QED  BY <1>3, <2>1, <3>1, <5>1
      <4> QED  BY <1>1, <4>1, <4>2
    <3> QED  BY <3>1, <3>2 DEF InTime
  <2>2. CASE i = n + 1
    <3>1. a[i] = c /\ \A j \in DOMAIN a : ~(i < j)
      BY <1>1, <2>2
    <3>2. i # 1 => n # 0 /\ i - 1 = n /\ n \in 1..n /\ a[i - 1] = s[n]
      BY <1>1, <2>2
    <3> QED  BY <1>2, <3>1, <3>2
  <2> QED  BY <1>1, <2>1, <2>2
<1> QED  BY <1>4 DEF InTime, a

\* The first command is loaded.
LEMMA LoadInTime ==
  ASSUME NEW s \in Seq(Sendings), NEW t \in Nat, InTime(s, t), s # << >>
  PROVE  InTime(Tail(s), t)
<1> DEFINE r == Tail(s)
<1>1. r \in Seq(Sendings) /\ \A i \in DOMAIN r : i \in Nat /\ i # 0 /\ i + 1 \in DOMAIN s /\ r[i] = s[i + 1]
  OBVIOUS
<1>2. \A i \in DOMAIN r : i # 1 => i - 1 \in DOMAIN r
  OBVIOUS
<1> HIDE DEF r
<1>3. ASSUME NEW i \in DOMAIN r
      PROVE  /\ r[i].at = r[i].sent + PwmDelay /\ r[i].min < r[i].at /\ t <= r[i].at
             /\ \A j \in DOMAIN r : i < j => r[i].at < r[j].at
             /\ i # 1 => r[i].min = r[i - 1].at
             /\ i # 1 /\ r[i - 1].power # 0 => r[i].sent <= r[i - 1].at + RefreshTime + MaxLost
  <2>1. i + 1 \in DOMAIN s /\ i + 1 # 1 /\ (i + 1) - 1 = i /\ r[i] = s[i + 1]
    BY <1>1
  <2>2. i # 1 => r[i - 1] = s[i]
    <3>1. i # 1 => i - 1 \in DOMAIN r /\ (i - 1) + 1 = i
      BY <1>1, <1>2
    <3> QED  BY <1>1, <3>1
  <2>3. ASSUME NEW j \in DOMAIN r, i < j  PROVE r[i].at < r[j].at
    BY <1>1, <2>1, <2>3 DEF InTime
  <2> QED  BY <2>1, <2>2, <2>3 DEF InTime
<1> QED  BY <1>3 DEF InTime, r

\* Everything on its way is at the latest where the last command of the host is.
LEMMA SentBefore ==
  ASSUME HeaterTypes, InTime(Sent, reportTime), ToHost(Sent), Sent # << >>
  PROVE  reportTime <= minClock
<1>1. Sent \in Seq(Sendings)
  BY DEF HeaterTypes, Sent
<1>2. Len(Sent) \in DOMAIN Sent
  BY <1>1
<1> QED  BY <1>2 DEF InTime, ToHost

\* A steady part of the constants.
LEMMA HeaterNumbers ==
  /\ PwmDelay \in Nat /\ PwmDelay > 0 /\ RefreshTime \in Nat /\ MaxDuration \in Nat
  /\ CommandDelay \in Nat /\ MaxLost \in Nat /\ Unset = -1 /\ Significant \in Nat
  /\ Significant > 0 /\ Powers \subseteq Nat
  /\ CommandDelay <= PwmDelay /\ RefreshTime + MaxLost + PwmDelay <= MaxDuration
  /\ RefreshTime + MaxLost + CommandDelay < MaxDuration
BY HeaterAssumption DEF Unset

\* temperature_callback.
LEMMA CallbackKeeps ==
  ASSUME HeaterInv, NEW power \in Powers, Callback(power)
  PROVE  HeaterInv'
<1> USE DEF pinVars
<1>0. HeaterTypes /\ HostSends /\ OffSent
  BY DEF HeaterInv
<1>1. /\ alive /\ fresh /\ ~fresh'
      /\ UNCHANGED <<reportTime, alive, targetTemp, lost, pinQueue, pin, endTime, pinTimer,
                     loadedAt, invalid, shutdown, zeroAt>>
  BY DEF Callback
<1> DEFINE p == PowerFor(power)
<1>2. p \in Nat /\ (targetTemp = 0 => p = 0)
  BY HeaterNumbers DEF PowerFor
<1>3. CASE Suppressed(p)
  <2>1. UNCHANGED <<lastPwm, nextPwm, minClock, cable>>
    BY <1>3 DEF Callback, SetPwm, pwmVars
  <2>2. lastPwm # 0 => reportTime < nextPwm
    BY <1>3 DEF Suppressed
  <2>3. HostSends'
    BY <1>0, <1>1, <2>1, <2>2, HeaterNumbers DEF HostSends, HeaterTypes
  <2>4. /\ (HeaterTypes /\ OffSent)'
        /\ Sent' = Sent /\ UNCHANGED <<reportTime, minClock, lastPwm, pin, pinTimer, endTime,
                                       pinQueue, cable, loadedAt, shutdown, alive>>
    BY <1>0, <1>1, <2>1 DEF HeaterTypes, OffSent, Sent
  <2> QED  BY <2>3, <2>4 DEF HeaterInv, InTime, FromPin, ToHost, PinTimed
<1>4. CASE ~Suppressed(p)
  <2> DEFINE c == [sent |-> reportTime, min |-> minClock, at |-> reportTime + PwmDelay, power |-> p]
  <2>1. /\ lastPwm' = p /\ minClock' = reportTime + PwmDelay
        /\ nextPwm' = reportTime + PwmDelay + RefreshTime /\ cable' = Append(cable, c)
    BY <1>4 DEF Callback, SetPwm
  <2>2. /\ reportTime \in Nat /\ minClock \in Nat /\ lastPwm \in Nat /\ c \in Sendings
        /\ cable \in Seq(Sendings) /\ pinQueue \in Seq(Sendings) /\ Sent \in Seq(Sendings)
    BY <1>0, <1>2, HeaterNumbers DEF HeaterTypes, Sendings, Sent
  <2>3. /\ c.at = c.sent + PwmDelay /\ c.min = minClock /\ c.min < c.at /\ reportTime <= c.at
        /\ minClock < c.at /\ c.sent = reportTime /\ c.at = minClock' /\ c.power = lastPwm'
        /\ lastPwm # 0 => reportTime <= minClock + RefreshTime + MaxLost
    BY <1>0, <1>1, <2>1, <2>2, HeaterNumbers DEF HostSends
  <2> HIDE DEF c, p
  <2>4. Sent' = Append(Sent, c)
    BY <1>1, <2>1, <2>2, BehindBoth DEF Sent
  <2>5. HeaterTypes'
    BY <1>0, <1>1, <1>2, <2>1, <2>2, HeaterNumbers DEF HeaterTypes
  <2>6. HostSends'
    BY <1>0, <1>1, <2>1, <2>2, HeaterNumbers DEF HostSends
  <2>7. OffSent'
    <3>1. CASE targetTemp = 0 /\ lastPwm # 0
      <4>1. p = 0 /\ minClock <= zeroAt + PwmDelay /\ zeroAt <= reportTime /\ zeroAt \in Nat
        BY <1>0, <1>2, <3>1 DEF OffSent, HeaterTypes
      <4>2. reportTime <= zeroAt + PwmDelay + RefreshTime + MaxLost
        BY <2>2, <2>3, <3>1, <4>1, HeaterNumbers
      <4>3. minClock' <= zeroAt + RefreshTime + 2 * PwmDelay + MaxLost
        BY <2>1, <2>2, <4>1, <4>2, HeaterNumbers
      <4> QED  BY <1>1, <2>1, <4>1, <4>3 DEF OffSent
    <3>2. CASE targetTemp = 0 /\ lastPwm = 0
      <4>1. p = 0
        BY <1>2, <3>2
      <4>2. Suppressed(p)
        BY <3>2, <4>1, HeaterNumbers DEF Suppressed, Distance
      <4> QED  BY <1>4, <4>2
    <3>3. CASE targetTemp # 0
      BY <1>1, <3>3 DEF OffSent
    <3> QED  BY <3>1, <3>2, <3>3
  <2>8. ASSUME shutdown = "no"  PROVE (InTime(Sent, reportTime) /\ FromPin(Sent) /\ ToHost(Sent) /\ PinTimed)'
    <3>1. InTime(Sent, reportTime) /\ FromPin(Sent) /\ ToHost(Sent) /\ PinTimed
      BY <2>8 DEF HeaterInv
    <3>2. InTime(Sent', reportTime)
      BY <2>2, <2>3, <2>4, <3>1, SendInTime
    <3>3. InTime(Sent, reportTime)'
      BY <1>1, <3>2 DEF InTime
    <3>4. /\ Len(Sent') = Len(Sent) + 1 /\ Sent'[Len(Sent')] = c /\ Sent' # << >>
          /\ Sent # << >> => Sent'[1] = Sent[1]
          /\ Sent = << >> => Sent'[1] = c
      BY <2>2, <2>4
    <3>5. ToHost(Sent)'
      BY <2>3, <3>4 DEF ToHost
    <3>6. FromPin(Sent)'
      <4>1. CASE Sent # << >>
        BY <1>1, <3>1, <3>4, <4>1 DEF FromPin
      <4>2. CASE Sent = << >>
        <5>1. pin = lastPwm /\ minClock = loadedAt
          BY <3>1, <4>2 DEF FromPin
        <5> QED  BY <1>1, <2>2, <2>3, <3>4, <4>2, <5>1 DEF FromPin
      <4> QED  BY <4>1, <4>2
    <3>7. PinTimed'
      <4>1. ASSUME NEW i \in DOMAIN cable'
            PROVE  reportTime <= cable'[i].sent + CommandDelay \/ reportTime <= cable'[i].min
        <5>1. CASE i \in DOMAIN cable
          BY <2>1, <2>2, <3>1, <5>1 DEF PinTimed
        <5>2. CASE i \notin DOMAIN cable
          <6>1. cable'[i] = c
            BY <2>1, <2>2, <5>2
          <6> QED  BY <2>2, <2>3, <6>1, HeaterNumbers
        <5> QED  BY <5>1, <5>2
      <4> QED  BY <1>1, <3>1, <4>1 DEF PinTimed
    <3> QED  BY <3>3, <3>5, <3>6, <3>7
  <2> QED  BY <1>1, <2>5, <2>6, <2>7, <2>8 DEF HeaterInv
<1> QED  BY <1>3, <1>4

\* command_queue_digital_out.
LEMMA TakeKeeps ==
  ASSUME HeaterInv, TakeCommand
  PROVE  HeaterInv'
<1> USE DEF pwmVars, reportVars, pinVars
<1>0. HeaterTypes /\ HostSends /\ OffSent
  BY DEF HeaterInv
<1>1. /\ cable # << >> /\ cable' = Tail(cable)
      /\ UNCHANGED <<reportTime, alive, targetTemp, lastPwm, nextPwm, minClock, lost, fresh,
                     invalid, zeroAt>>
  BY DEF TakeCommand
<1> DEFINE c == Head(cable)
<1>2. /\ cable \in Seq(Sendings) /\ pinQueue \in Seq(Sendings) /\ Tail(cable) \in Seq(Sendings)
      /\ c \in Sendings /\ c = cable[1] /\ 1 \in DOMAIN cable
      /\ \A i \in DOMAIN Tail(cable) : i + 1 \in DOMAIN cable /\ Tail(cable)[i] = cable[i + 1]
  BY <1>0, <1>1 DEF HeaterTypes
<1> HIDE DEF c
<1>3. (HostSends /\ OffSent)'
  BY <1>0, <1>1 DEF HostSends, OffSent
<1>4. CASE shutdown # "no"
  <2>1. UNCHANGED <<pinVars, shutdown>>
    BY <1>4 DEF TakeCommand
  <2> QED  BY <1>0, <1>1, <1>2, <1>3, <1>4, <2>1 DEF HeaterInv, HeaterTypes
<1>5. CASE shutdown = "no"
  <2>1. InTime(Sent, reportTime) /\ FromPin(Sent) /\ ToHost(Sent) /\ PinTimed
    BY <1>5 DEF HeaterInv
  <2>2. ASSUME UNCHANGED <<pin, loadedAt, shutdown>>, Sent' = Sent, PinTimed', HeaterTypes'
        PROVE  HeaterInv'
    BY <1>1, <1>3, <1>5, <2>1, <2>2 DEF HeaterInv, InTime, FromPin, ToHost
  <2>3. \A i \in DOMAIN cable' :
           reportTime' <= cable'[i].sent + CommandDelay \/ reportTime' <= cable'[i].min
    BY <1>1, <1>2, <2>1 DEF PinTimed
  <2>4. CASE pinQueue # << >>
    <3>1. pinQueue' = Append(pinQueue, c) /\ UNCHANGED <<pin, endTime, pinTimer, loadedAt, shutdown>>
      BY <1>5, <2>4 DEF TakeCommand, c
    <3>2. Sent' = Sent
      BY <1>1, <1>2, <3>1, HandOver DEF Sent, c
    <3>3. pinQueue' # << >> /\ pinQueue'[1] = pinQueue[1] /\ pinQueue' \in Seq(Sendings)
      BY <1>2, <2>4, <3>1
    <3>4. PinTimed'
      BY <1>1, <2>1, <2>3, <2>4, <3>1, <3>3 DEF PinTimed
    <3>5. HeaterTypes'
      BY <1>0, <1>1, <1>2, <3>1, <3>3 DEF HeaterTypes
    <3> QED  BY <2>2, <3>1, <3>2, <3>4, <3>5
  <2>5. CASE pinQueue = << >>
    <3>1. Sent = cable /\ Sent # << >>
      BY <1>1, <1>2, <2>5, HandOver DEF Sent
    <3>2. /\ c.at = c.sent + PwmDelay /\ reportTime <= c.at
          /\ pin # 0 => c.sent <= loadedAt + RefreshTime + MaxLost
          /\ c.at \in Nat /\ c.sent \in Nat /\ loadedAt \in Nat /\ pin \in Nat /\ reportTime \in Nat
      BY <1>0, <1>2, <2>1, <3>1 DEF InTime, FromPin, HeaterTypes, Sendings
    <3>3. endTime = IF pin # 0 THEN loadedAt + MaxDuration ELSE Unset
      BY <2>1, <2>5 DEF PinTimed
    <3>4. ~(endTime # Unset /\ endTime < c.at)
      BY <3>2, <3>3, HeaterNumbers
    <3>5. ~(c.at < reportTime)
      BY <3>2
    <3>6. /\ pinQueue' = <<c>> /\ endTime' = c.at /\ pinTimer' = c.at
          /\ UNCHANGED <<pin, loadedAt, shutdown>>
      BY <1>5, <2>5, <3>4, <3>5 DEF TakeCommand, c
    <3>7. Sent' = Sent
      BY <1>1, <1>2, <3>1, <3>6, HandOver DEF Sent, c
    <3>8. pinQueue' # << >> /\ pinQueue'[1] = c /\ pinQueue' \in Seq(Sendings)
      BY <1>2, <3>6
    <3>9. PinTimed'
      BY <1>1, <2>3, <3>2, <3>6, <3>8 DEF PinTimed
    <3>10. HeaterTypes'
      BY <1>0, <1>1, <1>2, <3>2, <3>6, <3>8 DEF HeaterTypes
    <3> QED  BY <2>2, <3>6, <3>7, <3>9, <3>10
  <2> QED  BY <2>4, <2>5
<1> QED  BY <1>4, <1>5

\* digital_load_event.
LEMMA LoadKeeps ==
  ASSUME HeaterInv, LoadValue
  PROVE  HeaterInv'
<1> USE DEF pwmVars, reportVars
<1>0. HeaterTypes /\ HostSends /\ OffSent
  BY DEF HeaterInv
<1>1. /\ pinTimer = reportTime
      /\ UNCHANGED <<reportTime, alive, targetTemp, lastPwm, nextPwm, minClock, lost, fresh, cable,
                     invalid, zeroAt>>
  BY DEF LoadValue
<1>2. (HostSends /\ OffSent)' /\ reportTime \in Nat /\ loadedAt \in Nat /\ pinTimer # Unset
  BY <1>0, <1>1, HeaterNumbers DEF HostSends, OffSent, HeaterTypes
<1>3. shutdown = "no" /\ InTime(Sent, reportTime) /\ FromPin(Sent) /\ ToHost(Sent) /\ PinTimed
  BY <1>2 DEF HeaterInv
<1>4. CASE pinQueue = << >>
  <2>1. ShutDown("missed") /\ UNCHANGED loadedAt
    BY <1>4 DEF LoadValue
  <2>2. ~alive
    <3> SUFFICES ASSUME alive  PROVE FALSE
      OBVIOUS
    <3>1. pin # 0 /\ reportTime = loadedAt + MaxDuration
      BY <1>1, <1>2, <1>3, <1>4 DEF PinTimed
    <3>2. Sent = cable /\ cable \in Seq(Sendings)
      BY <1>0, <1>4 DEF Sent, HeaterTypes
    <3>3. CASE cable = << >>
      <4>1. lastPwm # 0 /\ minClock = loadedAt
        BY <1>3, <3>1, <3>2, <3>3 DEF FromPin
      <4>2. reportTime <= loadedAt + RefreshTime + MaxLost
        BY <1>0, <1>2, <4>1, HeaterNumbers DEF HostSends, HeaterTypes
      <4> QED  BY <1>2, <3>1, <4>2, HeaterNumbers
    <3>4. CASE cable # << >>
      <4>1. 1 \in DOMAIN cable /\ cable[1] \in Sendings
        BY <3>2, <3>4
      <4>2. reportTime <= cable[1].sent + CommandDelay \/ reportTime <= cable[1].min
        BY <1>3, <4>1 DEF PinTimed
      <4>3. cable[1].min <= loadedAt /\ cable[1].sent <= loadedAt + RefreshTime + MaxLost
        BY <1>3, <3>1, <3>2, <3>4 DEF FromPin
      <4> QED  BY <1>2, <3>1, <4>1, <4>2, <4>3, HeaterNumbers DEF Sendings
    <3> QED  BY <3>3, <3>4
  <2>3. HeaterTypes'
    <3>1. << >> \in Seq(Sendings) /\ 0 \in Nat
      OBVIOUS
    <3> QED  BY <1>0, <1>1, <2>1, <3>1 DEF HeaterTypes, ShutDown
  <2> QED  BY <1>1, <1>2, <2>1, <2>2, <2>3 DEF HeaterInv, ShutDown
<1>5. CASE pinQueue # << >>
  <2> DEFINE power == Head(pinQueue).power
             rest == Tail(pinQueue)
             next == IF rest = << >> THEN EndOf(power) ELSE Head(rest).at
  <2>1. /\ pinQueue \in Seq(Sendings) /\ cable \in Seq(Sendings) /\ rest \in Seq(Sendings)
        /\ Head(pinQueue) = pinQueue[1] /\ pinQueue[1] \in Sendings
        /\ rest # << >> => Head(rest) = rest[1] /\ rest[1] \in Sendings
    BY <1>0, <1>5 DEF HeaterTypes
  <2>2. /\ Sent \in Seq(Sendings) /\ Sent # << >> /\ Sent[1] = pinQueue[1]
        /\ rest \o cable = Tail(Sent)
    BY <1>5, <2>1, TakeFirst DEF Sent
  <2>3. pinQueue[1].at = reportTime /\ power = pinQueue[1].power /\ power \in Nat
    BY <1>1, <1>3, <1>5, <2>1 DEF PinTimed, Sendings
  <2>4. /\ Tail(Sent) \in Seq(Sendings)
        /\ \A i \in DOMAIN Tail(Sent) : i + 1 \in DOMAIN Sent /\ Tail(Sent)[i] = Sent[i + 1]
        /\ Tail(Sent) # << >> => 2 \in DOMAIN Sent /\ Tail(Sent)[1] = Sent[2] /\ Sent[2] \in Sendings
        /\ rest # << >> => Tail(Sent) # << >> /\ rest[1] = Tail(Sent)[1]
    <3>1. rest # << >> => rest \o cable # << >> /\ (rest \o cable)[1] = rest[1]
      BY <2>1, TakeFirst
    <3> QED  BY <2>2, <3>1, TailIs
  <2> HIDE DEF rest
  <2>5. Tail(Sent) # << >> =>
           /\ Sent[2].min = reportTime /\ Sent[2].at > reportTime
           /\ power # 0 => Sent[2].sent <= reportTime + RefreshTime + MaxLost
           /\ Sent[2].at = Sent[2].sent + PwmDelay
    <3> SUFFICES ASSUME Tail(Sent) # << >>
                 PROVE  /\ Sent[2].min = reportTime /\ Sent[2].at > reportTime
                        /\ power # 0 => Sent[2].sent <= reportTime + RefreshTime + MaxLost
                        /\ Sent[2].at = Sent[2].sent + PwmDelay
      OBVIOUS
    <3>1. 1 \in DOMAIN Sent /\ 2 \in DOMAIN Sent /\ 2 # 1 /\ 2 - 1 = 1 /\ 1 < 2
      BY <2>2, <2>4
    <3>2. Sent[2].min = Sent[1].at /\ Sent[1].at < Sent[2].at /\ Sent[2].at = Sent[2].sent + PwmDelay
          /\ (Sent[1].power # 0 => Sent[2].sent <= Sent[1].at + RefreshTime + MaxLost)
      BY <1>3, <3>1 DEF InTime
    <3> QED  BY <2>2, <2>3, <2>4, <3>2
  <2>6. rest # << >> => next = Sent[2].at /\ Sent[2].at \in Nat /\ (power # 0 => next <= EndOf(power))
    <3> SUFFICES ASSUME rest # << >>
                 PROVE  next = Sent[2].at /\ Sent[2].at \in Nat /\ (power # 0 => next <= EndOf(power))
      OBVIOUS
    <3>1. next = Sent[2].at /\ Sent[2].at \in Nat /\ Sent[2].sent \in Nat
      BY <2>1, <2>4 DEF Sendings
    <3>2. power # 0 => EndOf(power) = reportTime + MaxDuration
      BY DEF EndOf
    <3>3. /\ power # 0 => Sent[2].sent <= reportTime + RefreshTime + MaxLost
          /\ Sent[2].at = Sent[2].sent + PwmDelay
      BY <2>4, <2>5
    <3> HIDE DEF next, power
    <3> QED  BY <1>2, <3>1, <3>2, <3>3, HeaterNumbers
  <2>7. /\ pin' = power /\ pinQueue' = rest /\ loadedAt' = reportTime
        /\ endTime' = next /\ pinTimer' = next /\ UNCHANGED shutdown
    <3>1. ~(rest # << >> /\ EndOf(power) # Unset /\ EndOf(power) < next)
      BY <1>2, <2>3, <2>6, HeaterNumbers DEF EndOf
    <3> QED  BY <1>5, <3>1 DEF LoadValue, rest
  <2>8. Sent' = Tail(Sent)
    BY <1>1, <2>2, <2>7 DEF Sent
  <2>9. InTime(Sent, reportTime)'
    <3>1. InTime(Tail(Sent), reportTime)
      BY <1>2, <1>3, <2>2, LoadInTime
    <3> QED  BY <1>1, <2>8, <3>1 DEF InTime
  <2>10. ToHost(Sent)'
    <3>1. Tail(Sent) # << >> => Len(Tail(Sent)) \in DOMAIN Tail(Sent) /\ Len(Tail(Sent)) + 1 = Len(Sent)
      BY <2>2
    <3> QED  BY <1>1, <1>3, <2>2, <2>4, <2>8, <3>1 DEF ToHost
  <2>11. FromPin(Sent)'
    <3>1. CASE Tail(Sent) = << >>
      <4>1. Sent[Len(Sent)] = Sent[1]
        BY <2>2, <3>1, TailIs
      <4>2. minClock = reportTime /\ lastPwm = power
        BY <1>3, <2>2, <2>3, <4>1 DEF ToHost
      <4> QED  BY <1>1, <2>7, <2>8, <3>1, <4>2 DEF FromPin
    <3>2. CASE Tail(Sent) # << >>
      <4>1. Sent[2].min <= reportTime
        BY <1>2, <2>5, <3>2
      <4> QED  BY <1>1, <2>4, <2>5, <2>7, <2>8, <3>2, <4>1 DEF FromPin
    <3> QED  BY <3>1, <3>2
  <2>12. next \in Nat \cup {Unset} /\ (power # 0 => reportTime <= next)
    BY <1>2, <2>3, <2>5, <2>4, <2>6, HeaterNumbers DEF EndOf
  <2>13. PinTimed'
    <3>1. /\ rest # << >> => next = rest[1].at
          /\ rest = << >> => next = IF power # 0 THEN reportTime + MaxDuration ELSE Unset
      BY <2>1 DEF EndOf
    <3> HIDE DEF next
    <3> QED  BY <1>1, <1>3, <2>7, <2>12, <3>1 DEF PinTimed
  <2>14. HeaterTypes'
    BY <1>0, <1>1, <1>2, <2>1, <2>3, <2>7, <2>12 DEF HeaterTypes
  <2> QED  BY <1>1, <1>2, <1>3, <2>7, <2>9, <2>10, <2>11, <2>13, <2>14 DEF HeaterInv
<1> QED  BY <1>4, <1>5

\* Time passes to the next report.
LEMMA ReportKeeps ==
  ASSUME HeaterInv, NEW bad \in BOOLEAN, NEW isLost \in BOOLEAN, NextReport(bad, isLost)
  PROVE  HeaterInv'
<1> USE DEF pwmVars
<1>0. HeaterTypes /\ HostSends /\ OffSent
  BY DEF HeaterInv
<1>1. /\ reportTime' = reportTime + 1 /\ pinTimer # reportTime
      /\ \A i \in DOMAIN cable :
            reportTime < cable[i].sent + CommandDelay \/ reportTime < cable[i].min
      /\ alive => ~fresh
      /\ isLost => lost < MaxLost
      /\ lost' = (IF isLost THEN lost + 1 ELSE 0) /\ fresh' = ~isLost
      /\ UNCHANGED <<alive, targetTemp, lastPwm, nextPwm, minClock, cable, zeroAt>>
  BY DEF NextReport
<1>2. reportTime \in Nat /\ lost \in Nat /\ minClock \in Nat /\ nextPwm \in Nat /\ zeroAt \in Nat
  BY <1>0 DEF HeaterTypes
<1>3. HostSends'
  <2>1. /\ lost' <= MaxLost /\ (fresh' => lost' = 0) /\ lost' \in Nat
        /\ minClock <= reportTime' + PwmDelay /\ minClock < reportTime' + PwmDelay
        /\ lastPwm # 0 => nextPwm = minClock + RefreshTime
    <3>1. CASE isLost
      <4>1. lost' = lost + 1 /\ ~fresh' /\ lost < MaxLost
        BY <1>1, <3>1
      <4>2. lost' <= MaxLost /\ lost' \in Nat
        BY <1>2, <4>1, HeaterNumbers
      <4>3. /\ minClock <= reportTime' + PwmDelay /\ minClock < reportTime' + PwmDelay
            /\ lastPwm # 0 => nextPwm = minClock + RefreshTime
        BY <1>0, <1>1, <1>2, HeaterNumbers DEF HostSends
      <4> QED  BY <4>1, <4>2, <4>3
    <3>2. CASE ~isLost
      <4>1. lost' = 0
        BY <1>1, <3>2
      <4>2. /\ minClock <= reportTime' + PwmDelay /\ minClock < reportTime' + PwmDelay
            /\ lastPwm # 0 => nextPwm = minClock + RefreshTime
        BY <1>0, <1>1, <1>2, HeaterNumbers DEF HostSends
      <4> QED  BY <4>1, <4>2, HeaterNumbers
    <3> QED  BY <3>1, <3>2
  <2>2. ASSUME alive, lastPwm # 0  PROVE reportTime' <= nextPwm + lost
    <3>1. reportTime < nextPwm + lost
      BY <1>0, <1>1, <2>2 DEF HostSends
    <3> QED  BY <1>1, <1>2, <3>1
  <2>3. alive /\ lastPwm # 0 /\ fresh' => reportTime' <= nextPwm + MaxLost
    BY <1>0, <1>1, <1>2, <2>2, HeaterNumbers DEF HostSends
  <2>4. alive /\ lastPwm # 0 /\ ~fresh' => reportTime' < nextPwm + lost'
    <3> SUFFICES ASSUME alive, lastPwm # 0, ~fresh'  PROVE reportTime' < nextPwm + lost'
      OBVIOUS
    <3>1. lost' = lost + 1
      BY <1>1
    <3> QED  BY <1>1, <1>2, <2>2, <3>1
  <2> QED  BY <1>1, <2>1, <2>3, <2>4 DEF HostSends
<1>4. OffSent'
  BY <1>0, <1>1, <1>2 DEF OffSent
<1>5. CASE shutdown = "no" /\ Invalid(bad) >= RangeChecks
  <2>1. ShutDown("out of range") /\ UNCHANGED loadedAt
    BY <1>5 DEF NextReport
  <2>2. HeaterTypes'
    <3>1. << >> \in Seq(Sendings) /\ 0 \in Nat
      OBVIOUS
    <3>2. reportTime' \in Nat /\ lost' \in Nat
      BY <1>1, <1>2
    <3> QED  BY <1>0, <1>1, <2>1, <3>1, <3>2 DEF HeaterTypes, ShutDown
  <2> QED  BY <1>3, <1>4, <2>1, <2>2 DEF HeaterInv, ShutDown
<1>6. CASE ~(shutdown = "no" /\ Invalid(bad) >= RangeChecks)
  <2>1. UNCHANGED <<pinVars, shutdown>>
    BY <1>6 DEF NextReport
  <2>2. HeaterTypes'
    <3>1. reportTime' \in Nat /\ lost' \in Nat
      BY <1>1, <1>2
    <3> QED  BY <1>0, <1>1, <2>1, <3>1 DEF HeaterTypes, pinVars
  <2>3. CASE shutdown # "no"
    BY <1>1, <1>3, <1>4, <2>1, <2>2, <2>3 DEF HeaterInv, pinVars
  <2>4. CASE shutdown = "no"
    <3>1. InTime(Sent, reportTime) /\ FromPin(Sent) /\ ToHost(Sent) /\ PinTimed
      BY <2>4 DEF HeaterInv
    <3>2. Sent' = Sent /\ (FromPin(Sent) /\ ToHost(Sent))'
      BY <1>1, <2>1, <3>1 DEF Sent, FromPin, ToHost, pinVars
    <3>3. /\ cable \in Seq(Sendings) /\ pinQueue \in Seq(Sendings) /\ Sent \in Seq(Sendings)
          /\ pin \in Nat /\ pinTimer \in Nat \cup {Unset}
      BY <1>0 DEF HeaterTypes, Sent
    <3>4. \A i \in DOMAIN Sent : Sent[i].at >= reportTime + 1
      <4>1. CASE pinQueue # << >>
        <5>1. Sent[1] = pinQueue[1] /\ Sent # << >> /\ pinQueue[1].at = pinTimer
          BY <3>1, <3>3, <4>1, TakeFirst DEF Sent, PinTimed
        <5>2. 1 \in DOMAIN Sent /\ \A i \in DOMAIN Sent : Sent[i] \in Sendings /\ (i = 1 \/ 1 < i)
          BY <3>3, <5>1
        <5>3. Sent[1].at \in Nat /\ Sent[1].at >= reportTime /\ Sent[1].at # reportTime
          BY <1>1, <3>1, <5>1, <5>2 DEF InTime, Sendings
        <5>4. ASSUME NEW i \in DOMAIN Sent  PROVE Sent[i].at >= Sent[1].at /\ Sent[i].at \in Nat
          <6>1. Sent[i].at \in Nat /\ (i # 1 => Sent[1].at < Sent[i].at)
            BY <3>1, <5>2 DEF InTime, Sendings
          <6> QED  BY <5>3, <6>1
        <5> QED  BY <1>2, <5>3, <5>4
      <4>2. CASE pinQueue = << >>
        <5>1. Sent = cable
          BY <3>3, <4>2 DEF Sent
        <5>2. ASSUME NEW i \in DOMAIN Sent  PROVE Sent[i].at >= reportTime + 1
          <6>1. /\ Sent[i].at = Sent[i].sent + PwmDelay /\ Sent[i].min < Sent[i].at
                /\ reportTime < Sent[i].sent + CommandDelay \/ reportTime < Sent[i].min
            BY <1>1, <3>1, <5>1, <5>2 DEF InTime
          <6>2. Sent[i].sent \in Nat /\ Sent[i].min \in Nat /\ Sent[i].at \in Nat
            <7>1. Sent[i] \in Sendings
              BY <3>3, <5>2
            <7> QED  BY <7>1 DEF Sendings
          <6> QED  BY <1>2, <6>1, <6>2, HeaterNumbers
        <5> QED  BY <5>2
      <4> QED  BY <4>1, <4>2
    <3>5. InTime(Sent, reportTime)'
      BY <1>1, <1>2, <3>1, <3>2, <3>4 DEF InTime
    <3>6. PinTimed'
      <4>1. pin # 0 => reportTime + 1 <= pinTimer
        <5>1. pin # 0 => reportTime <= pinTimer /\ pinTimer # reportTime
          BY <1>1, <3>1 DEF PinTimed
        <5> QED  BY <1>2, <3>3, <5>1, HeaterNumbers
      <4>2. ASSUME NEW i \in DOMAIN cable
            PROVE  reportTime + 1 <= cable[i].sent + CommandDelay \/ reportTime + 1 <= cable[i].min
        <5>1. cable[i].sent \in Nat /\ cable[i].min \in Nat
          <6>1. cable[i] \in Sendings
            BY <3>3, <4>2
          <6> QED  BY <6>1 DEF Sendings
        <5> QED  BY <1>1, <1>2, <5>1, HeaterNumbers
      <4> QED  BY <1>1, <2>1, <3>1, <4>1, <4>2 DEF PinTimed, pinVars
    <3> QED  BY <1>1, <1>3, <1>4, <2>1, <2>2, <2>4, <3>2, <3>5, <3>6 DEF HeaterInv
  <2> QED  BY <2>3, <2>4
<1> QED  BY <1>5, <1>6

LEMMA HeaterNextInv == HeaterInv /\ [HeaterNext]_heaterVars => HeaterInv'
<1> SUFFICES ASSUME HeaterInv, [HeaterNext]_heaterVars  PROVE HeaterInv'
  OBVIOUS
<1> DEFINE Same == UNCHANGED <<reportTime, pwmVars, reportVars, cable, pinVars, shutdown>>
<1> USE DEF pwmVars, reportVars, pinVars
<1>1. ASSUME Same, alive' => alive
      PROVE  /\ HostSends'
             /\ shutdown' = "no" =>
                   (InTime(Sent, reportTime) /\ FromPin(Sent) /\ ToHost(Sent) /\ PinTimed)'
             /\ shutdown' # "no" => pin' = 0 /\ pinTimer' = Unset
             /\ alive' => shutdown' \in {"no", "out of range"}
  <2>1. Sent' = Sent
    BY <1>1 DEF Sent
  <2> QED  BY <1>1, <2>1 DEF HeaterInv, HostSends, InTime, FromPin, ToHost, PinTimed
<1>2. ASSUME NEW t \in {0, 1}, SetTarget(t)  PROVE HeaterInv'
  <2>1. Same /\ alive' = alive /\ targetTemp' = t /\ zeroAt' = IF t = 0 THEN reportTime ELSE zeroAt
    BY <1>2 DEF SetTarget
  <2>2. /\ reportTime \in Nat /\ minClock \in Nat /\ minClock <= reportTime + PwmDelay
        /\ zeroAt \in Nat
    BY DEF HeaterInv, HeaterTypes, HostSends
  <2>3. /\ minClock <= reportTime + RefreshTime + 2 * PwmDelay + MaxLost
        /\ reportTime <= reportTime
    BY <2>2, HeaterNumbers
  <2>4. OffSent'
    BY <2>1, <2>2, <2>3 DEF OffSent
  <2>5. HeaterTypes'
    BY <2>1, <2>2 DEF HeaterInv, HeaterTypes
  <2> QED  BY <1>1, <2>1, <2>4, <2>5 DEF HeaterInv
<1>3. CASE HostEnds \/ UNCHANGED heaterVars
  <2>1. Same /\ UNCHANGED <<targetTemp, zeroAt>> /\ (alive' => alive)
    BY <1>3 DEF HostEnds, heaterVars
  <2>2. (HeaterTypes /\ OffSent)'
    BY <2>1 DEF HeaterInv, HeaterTypes, OffSent
  <2> QED  BY <1>1, <2>1, <2>2 DEF HeaterInv
<1> QED  BY <1>2, <1>3, CallbackKeeps, TakeKeeps, LoadKeeps, ReportKeeps DEF HeaterNext

\* A heater is never left on, neither by the host nor without it, and the firmware
\* does not shut down for want of a value, however reports are lost and whatever the
\* control asks for (heaters.py:68-81, gpiocmds.c:57-173).
THEOREM HeaterIsSafe == HeaterSpec => []HeaterSafe
<1>1. HeaterInit => HeaterInv
  <2> SUFFICES ASSUME HeaterInit  PROVE HeaterInv
    OBVIOUS
  <2>1. Sent = << >> /\ << >> \in Seq(Sendings)
    BY DEF HeaterInit, Sent
  <2>2. HeaterTypes
    BY <2>1, HeaterNumbers DEF HeaterInit, HeaterTypes
  <2>3. HostSends /\ OffSent
    BY HeaterNumbers DEF HeaterInit, HostSends, OffSent
  <2>4. InTime(Sent, reportTime) /\ FromPin(Sent) /\ ToHost(Sent)
    BY <2>1 DEF HeaterInit, InTime, FromPin, ToHost
  <2>5. PinTimed
    BY DEF HeaterInit, PinTimed
  <2> QED  BY <2>2, <2>3, <2>4, <2>5 DEF HeaterInv, HeaterInit
<1>2. HeaterInv => HeaterSafe
  <2> SUFFICES ASSUME HeaterInv  PROVE HeaterSafe
    OBVIOUS
  <2>1. /\ reportTime \in Nat /\ minClock \in Nat /\ loadedAt \in Nat /\ zeroAt \in Nat /\ pin \in Nat
        /\ cable \in Seq(Sendings) /\ pinQueue \in Seq(Sendings) /\ Sent \in Seq(Sendings)
    <3>1. HeaterTypes
      BY DEF HeaterInv
    <3>2. cable \in Seq(Sendings) /\ pinQueue \in Seq(Sendings)
      BY <3>1 DEF HeaterTypes
    <3>3. pinQueue \o cable \in Seq(Sendings)
      BY <3>2
    <3> QED  BY <3>1, <3>2, <3>3 DEF HeaterTypes, Sent
  <2>2. ASSUME pin # 0
        PROVE  /\ shutdown = "no" /\ reportTime <= pinTimer
               /\ InTime(Sent, reportTime) /\ FromPin(Sent) /\ ToHost(Sent) /\ PinTimed
    BY <2>2 DEF HeaterInv, PinTimed
  <2>3. ASSUME pin # 0  PROVE reportTime <= loadedAt + MaxDuration
    <3>1. CASE pinQueue = << >>
      BY <2>2, <2>3, <3>1 DEF PinTimed
    <3>2. CASE pinQueue # << >>
      <4>1. Sent[1] = pinQueue[1] /\ Sent # << >> /\ 1 \in DOMAIN Sent /\ Sent[1] \in Sendings
        BY <2>1, <3>2, TakeFirst DEF Sent
      <4>2. /\ Sent[1].at = Sent[1].sent + PwmDelay /\ reportTime <= Sent[1].at
            /\ Sent[1].sent <= loadedAt + RefreshTime + MaxLost
        BY <2>2, <2>3, <4>1 DEF InTime, FromPin
      <4> QED  BY <2>1, <4>1, <4>2, HeaterNumbers DEF Sendings
    <3> QED  BY <3>1, <3>2
  <2>4. ASSUME targetTemp = 0, alive, pin # 0
        PROVE  reportTime <= zeroAt + RefreshTime + 2 * PwmDelay + MaxLost + 1
    <3>1. minClock <= zeroAt + RefreshTime + 2 * PwmDelay + MaxLost
      BY <2>4 DEF HeaterInv, OffSent
    <3>2. CASE Sent # << >>
      <4>1. reportTime <= minClock
        BY <2>2, <2>4, <3>2, SentBefore DEF HeaterInv
      <4> QED  BY <2>1, <3>1, <4>1, HeaterNumbers
    <3>3. CASE Sent = << >>
      <4>1. lastPwm # 0
        BY <2>2, <2>4, <3>3 DEF FromPin
      <4>2. minClock <= zeroAt + PwmDelay
        BY <2>4, <4>1 DEF HeaterInv, OffSent
      <4>3. nextPwm = minClock + RefreshTime /\ lost <= MaxLost /\ lost \in Nat
        BY <4>1 DEF HeaterInv, HostSends, HeaterTypes
      <4>4. nextPwm \in Nat
        BY DEF HeaterInv, HeaterTypes
      <4>5. reportTime <= nextPwm + MaxLost
        <5>1. CASE fresh
          BY <2>4, <4>1, <5>1 DEF HeaterInv, HostSends
        <5>2. CASE ~fresh
          <6>1. reportTime < nextPwm + lost
            BY <2>4, <4>1, <5>2 DEF HeaterInv, HostSends
          <6> QED  BY <2>1, <4>3, <4>4, <6>1, HeaterNumbers
        <5> QED  BY <5>1, <5>2
      <4> QED  BY <2>1, <4>2, <4>3, <4>4, <4>5, HeaterNumbers
    <3> QED  BY <3>2, <3>3
  <2>5. PinWatched /\ SentInTime
    BY <2>3 DEF PinWatched, SentInTime, HeaterInv
  <2>6. OffInTime
    <3> SUFFICES ASSUME targetTemp = 0, alive,
                        reportTime > zeroAt + RefreshTime + 2 * PwmDelay + MaxLost + 1
                 PROVE  pin = 0
      BY DEF OffInTime
    <3> QED  BY <2>1, <2>4, HeaterNumbers
  <2> QED  BY <2>5, <2>6 DEF HeaterSafe
<1> QED  BY <1>1, <1>2, HeaterNextInv, PTL DEF HeaterSpec

-----------------------------------------------------------------------------
(* The check of a heater (HeaterCheck).                                    *)

CheckTypes ==
    /\ heater \in {"good", "any"}
    /\ temp \in Nat /\ target \in Nat /\ lastTarget \in Nat /\ goalTemp \in Int
    /\ error \in Nat /\ error <= MaxError /\ goalIn \in Int /\ lag \in Nat /\ stuck \in Nat

\* While the heater is stuck the error grows, and the time for its goal runs out.
StuckInv ==
    /\ stuck > 0 => target = lastTarget
    /\ stuck <= error \/ error = MaxError
    /\ ~faulted => stuck <= CheckGainTime + 1 \/ stuck <= MaxError
    /\ ~faulted /\ approaching =>
          goalIn >= 1 /\ stuck + goalIn <= CheckGainTime + 1 /\ temp < goalTemp

LEMMA CheckNumbers ==
  /\ Hysteresis \in Nat /\ MaxError \in Nat /\ MaxTemp \in Nat /\ MaxLag \in Nat
  /\ Targets \subseteq Nat /\ HeatingGain \in Nat /\ HeatingGain >= 1
  /\ CheckGainTime \in Nat /\ CheckGainTime >= 1
BY CheckAssumption

\* The error of a heater that is below its target.
LEMMA ErrorGrows ==
  ASSUME CheckTypes, NEW t \in Nat, ~Near(t)
  PROVE  /\ ErrorOf(t) \in Nat /\ ErrorOf(t) <= MaxError
         /\ ErrorOf(t) >= error + 1 \/ ErrorOf(t) = MaxError
         /\ ErrorOf(t) <= error + (target - Hysteresis - t)
BY CheckNumbers DEF CheckTypes, Near, Least, ErrorOf

\* What a check does, whatever it finds.
LEMMA CheckFacts ==
  ASSUME CheckTypes, NEW t \in 0..MaxTemp, Check(t)
  PROVE  /\ ~faulted /\ MayBe(t) /\ temp' = t /\ lastTarget' = target /\ t \in Nat
         /\ UNCHANGED <<heater, target>>
         /\ lag' \in Nat /\ (lag = 0 => lag' = 0) /\ (lag > 0 => lag' = lag - 1)
         /\ stuck' = IF ~Near(t) /\ t <= temp THEN stuck + 1 ELSE 0
         /\ stuck' \in Nat /\ CheckTypes'
<1>1. /\ ~faulted /\ MayBe(t) /\ temp' = t /\ lastTarget' = target /\ t \in Nat
      /\ UNCHANGED <<heater, target>> /\ lag' = Most(lag - 1, 0)
      /\ stuck' = IF ~Near(t) /\ t <= temp THEN stuck + 1 ELSE 0
  BY CheckNumbers DEF Check
<1>2. lag' \in Nat /\ (lag = 0 => lag' = 0) /\ (lag > 0 => lag' = lag - 1) /\ stuck' \in Nat
  BY <1>1 DEF CheckTypes, Most
<1>3. error' \in Nat /\ error' <= MaxError
  <2>1. error' \in {0, error} \/ (~Near(t) /\ error' = ErrorOf(t))
    BY DEF Check, NearTarget, BeginsApproach, FallsBehind, ReachesGoal, Approaches
  <2> QED  BY <1>1, <2>1, ErrorGrows, CheckNumbers DEF CheckTypes
<1>4. goalTemp' \in Int /\ goalIn' \in Int
  <2>1. /\ goalTemp' \in {goalTemp, t + HeatingGain, Goal(t)}
        /\ goalIn' \in {goalIn, CheckGainTime, goalIn - 1}
    BY DEF Check, NearTarget, BeginsApproach, FallsBehind, ReachesGoal, Approaches, NewGoal
  <2>2. Goal(t) \in Int
    BY <1>1, CheckNumbers DEF CheckTypes, Goal, Least
  <2> QED  BY <1>1, <2>1, <2>2, CheckNumbers DEF CheckTypes
<1> QED  BY <1>1, <1>2, <1>3, <1>4 DEF CheckTypes

\* The goal is above the temperature.
LEMMA GoalAbove ==
  ASSUME CheckTypes, NEW t \in Nat, t < goalTemp
  PROVE  t < Goal(t) /\ Goal(t) <= goalTemp /\ (starting => Goal(t) <= t + HeatingGain)
BY CheckNumbers DEF CheckTypes, Goal, Least

LEMMA StuckCheck ==
  ASSUME CheckTypes, StuckInv, NEW t \in 0..MaxTemp, Check(t)
  PROVE  StuckInv'
<1>1. /\ ~faulted /\ temp' = t /\ lastTarget' = target /\ t \in Nat /\ target' = target
      /\ stuck' = IF ~Near(t) /\ t <= temp THEN stuck + 1 ELSE 0
      /\ stuck' \in Nat
  BY CheckFacts
<1>2. /\ stuck \in Nat /\ error \in Nat /\ goalIn \in Int /\ goalTemp \in Int /\ temp \in Nat
  BY DEF CheckTypes
<1>3. CASE NearTarget(t)
  <2>1. stuck' = 0 /\ ~approaching' /\ (error' = 0 \/ error' = error)
    BY <1>1, <1>3 DEF NearTarget
  <2>2. error' \in Nat
    BY <1>2, <2>1
  <2> QED  BY <1>1, <2>1, <2>2, CheckNumbers DEF StuckInv
<1>4. ~Near(t) => /\ ErrorOf(t) \in Nat /\ ErrorOf(t) <= MaxError
                  /\ ErrorOf(t) >= error + 1 \/ ErrorOf(t) = MaxError
  BY <1>1, ErrorGrows
<1>5. ~Near(t) => stuck' <= stuck + 1 /\ (stuck' <= ErrorOf(t) \/ ErrorOf(t) = MaxError)
  BY <1>1, <1>2, <1>4, CheckNumbers DEF StuckInv
<1>6. CASE BeginsApproach(t)
  <2>1. /\ goalTemp' = t + HeatingGain /\ goalIn' = CheckGainTime /\ error' = ErrorOf(t)
        /\ ~Near(t) /\ target # lastTarget
    BY <1>6 DEF BeginsApproach, NewGoal
  <2>2. stuck' <= 1
    BY <1>1, <1>2, <2>1 DEF StuckInv
  <2>3. stuck' <= CheckGainTime + 1 /\ stuck' + goalIn' <= CheckGainTime + 1 /\ goalIn' >= 1
    BY <1>1, <2>1, <2>2, CheckNumbers
  <2>4. temp' < goalTemp'
    BY <1>1, <2>1, CheckNumbers
  <2> QED  BY <1>1, <1>5, <2>1, <2>3, <2>4 DEF StuckInv
<1>7. CASE FallsBehind(t)
  <2>1. error' = ErrorOf(t) /\ ~approaching' /\ ~Near(t) /\ target = lastTarget
    BY <1>7 DEF FallsBehind
  <2>2. ~faulted' => ErrorOf(t) < MaxError
    <3>1. ErrorOf(t) >= MaxError => faulted'
      BY <1>7 DEF FallsBehind, Over
    <3> QED  BY <1>4, <2>1, <3>1, CheckNumbers
  <2>3. ~faulted' => stuck' <= MaxError
    BY <1>1, <1>4, <1>5, <2>1, <2>2, CheckNumbers
  <2> QED  BY <1>1, <1>5, <2>1, <2>3 DEF StuckInv
<1>8. CASE ReachesGoal(t)
  <2>1. /\ goalTemp' = t + HeatingGain /\ goalIn' = CheckGainTime /\ error' = 0
        /\ approaching /\ t >= goalTemp
    BY <1>8 DEF ReachesGoal, NewGoal
  <2>2. stuck' = 0
    BY <1>1, <1>2, <2>1 DEF StuckInv
  <2>3. temp' < goalTemp' /\ goalIn' >= 1 /\ stuck' + goalIn' <= CheckGainTime + 1
    BY <1>1, <2>1, <2>2, CheckNumbers
  <2> QED  BY <1>1, <2>1, <2>2, <2>3, CheckNumbers DEF StuckInv
<1>9. CASE Approaches(t)
  <2>1. /\ error' = ErrorOf(t) /\ goalIn' = goalIn - 1 /\ ~Near(t) /\ approaching /\ t < goalTemp
        /\ goalTemp' = (IF goalIn > 1 THEN Goal(t) ELSE goalTemp)
    BY <1>9 DEF Approaches
  <2>2. approaching' => goalIn > 1
    BY <1>9 DEF Approaches
  <2>3. goalIn >= 1 /\ stuck + goalIn <= CheckGainTime + 1
    BY <1>1, <2>1 DEF StuckInv
  <2>4. stuck' + goalIn' <= CheckGainTime + 1 /\ stuck' <= CheckGainTime + 1
    BY <1>1, <1>2, <1>5, <2>1, <2>3, CheckNumbers
  <2>5. goalIn > 1 => goalIn' >= 1 /\ temp' < goalTemp'
    BY <1>1, <1>2, <2>1, GoalAbove
  <2>6. target' = lastTarget'
    BY <1>1
  <2> QED  BY <1>1, <1>5, <2>1, <2>2, <2>4, <2>5, <2>6 DEF StuckInv
<1> QED  BY <1>3, <1>6, <1>7, <1>8, <1>9 DEF Check

\* A change of the target.
LEMMA TargetFacts ==
  ASSUME CheckTypes, NewTarget
  PROVE  /\ CheckTypes' /\ stuck' = 0 /\ lag' \in {lag, MaxLag}
         /\ lag' # lag => lag' = MaxLag /\ temp >= lastTarget
         /\ UNCHANGED <<heater, temp, approaching, starting, lastTarget, goalTemp, error, goalIn,
                        faulted>>
<1>1. /\ stuck' = 0 /\ lag' \in {lag, MaxLag} /\ (lag' # lag => lag' = MaxLag /\ temp >= lastTarget)
      /\ UNCHANGED <<heater, temp, approaching, starting, lastTarget, goalTemp, error, goalIn,
                     faulted>>
      /\ target' \in Nat /\ lag' \in Nat
  BY CheckNumbers DEF NewTarget, CheckTypes
<1> QED  BY <1>1 DEF CheckTypes

\* A heater that stays below its target and does not rise is found, for any
\* hysteresis, gain and times of the configuration (verify_heater.py:50-88).
THEOREM StuckHeaterIsFound == CheckSpec => []StuckIsFound
<1> DEFINE Inv == CheckTypes /\ StuckInv
<1>1. CheckInit => Inv
  BY CheckNumbers DEF CheckInit, CheckTypes, StuckInv
<1>2. Inv /\ [CheckNext]_checkVars => Inv'
  <2> SUFFICES ASSUME Inv, [CheckNext]_checkVars  PROVE Inv'
    OBVIOUS
  <2>1. ASSUME NEW t \in 0..MaxTemp, Check(t)  PROVE Inv'
    BY <2>1, CheckFacts, StuckCheck
  <2>2. CASE NewTarget
    <3>1. /\ CheckTypes' /\ stuck' = 0
          /\ UNCHANGED <<temp, approaching, lastTarget, goalTemp, error, goalIn, faulted>>
      BY <2>2, TargetFacts
    <3>2. stuck \in Nat /\ goalIn \in Int /\ error \in Nat
      BY DEF CheckTypes
    <3>3. ~faulted /\ approaching => 0 + goalIn <= CheckGainTime + 1
      BY <3>2, CheckNumbers DEF StuckInv
    <3> QED  BY <3>1, <3>2, <3>3, CheckNumbers DEF StuckInv
  <2>3. CASE UNCHANGED checkVars
    BY <2>3 DEF checkVars, CheckTypes, StuckInv
  <2> QED  BY <2>1, <2>2, <2>3 DEF CheckNext
<1>3. Inv => StuckIsFound
  BY CheckNumbers DEF CheckTypes, StuckInv, StuckIsFound, Most
<1> QED  BY <1>1, <1>2, <1>3, PTL DEF CheckSpec

\* The largest error, twice, that a good heater d below its hysteresis can gather
\* yet when it may lag for n checks: it falls to d + n and then rises.
Quad(d, n) == 4 * (d * n) + 2 * (n * n) + d * d - d

LEMMA QuadFalls ==
  ASSUME NEW d \in Int, NEW n \in Int
  PROVE  Quad(d, n) = 2 * (d + 1) + Quad(d + 1, n - 1)
BY DEF Quad

LEMMA QuadRises ==
  ASSUME NEW d \in Int
  PROVE  Quad(d, 0) = 2 * (d - 1) + Quad(d - 1, 0)
BY DEF Quad

LEMMA QuadGrows ==
  ASSUME NEW d \in Nat, NEW n \in Nat, NEW e \in Nat, e <= d
  PROVE  2 * e + Quad(e, n) <= 2 * d + Quad(d, n)
BY DEF Quad

LEMMA QuadNat ==
  ASSUME NEW d \in Nat, NEW n \in Nat
  PROVE  Quad(d, n) >= 0 /\ Quad(d, n) \in Int
BY DEF Quad

\* A heater that has just begun: how cold it may yet become before its goal.
StartInv ==
    /\ goalTemp <= temp + HeatingGain
    /\ lag > 0 => lag + HeatingGain <= goalIn
    /\ lag > 0 => lag <= MaxLag - 1 - (temp - goalTemp + HeatingGain)
    /\ lag = 0 => goalTemp - temp <= goalIn

\* One that has reached a goal.
RiseInv ==
    /\ lag > 0 => lag <= MaxLag - HeatingGain - 1
    /\ 2 * lag + goalTemp - temp <= goalIn

\* One that is maintained.
KeepInv ==
    /\ temp >= lastTarget - Hysteresis => error = 0
    /\ temp < lastTarget - Hysteresis =>
          2 * error + Quad(lastTarget - Hysteresis - temp, lag) < 2 * MaxError

GoodInv ==
    heater = "good" =>
        /\ ~faulted /\ lag <= MaxLag
        /\ approaching => temp < lastTarget
        /\ approaching /\ starting => StartInv
        /\ approaching /\ ~starting => RiseInv
        /\ ~approaching /\ temp <= lastTarget + Hysteresis => KeepInv

LEMMA LagNumbers ==
  /\ HeatingGain <= CheckGainTime /\ MaxLag + HeatingGain <= CheckGainTime + 1
  /\ 2 * MaxLag <= CheckGainTime + HeatingGain + 2
BY LagAssumption

LEMMA LagSquare == \A n \in 0..MaxLag : 2 * (n * n) < 2 * MaxError
<1> SUFFICES ASSUME NEW n \in 0..MaxLag  PROVE n * n <= MaxLag * MaxLag
  BY CheckNumbers, LagAssumption
<1> QED  BY CheckNumbers

\* How a good heater goes on from below its hysteresis to below it.
LEMMA GoodFollows ==
  ASSUME CheckTypes, heater = "good", NEW t \in 0..MaxTemp, Check(t), ~Near(t)
  PROVE  /\ t < target - Hysteresis /\ temp' = t /\ lastTarget' = target /\ t \in Nat
         /\ temp - 1 <= t /\ t <= temp + 1
         /\ lag > 0 => lag' = lag - 1
         /\ lag = 0 => lag' = 0 /\ t = temp + 1
<1>1. /\ MayBe(t) /\ temp' = t /\ lastTarget' = target /\ t \in Nat
      /\ (lag = 0 => lag' = 0) /\ (lag > 0 => lag' = lag - 1)
  BY CheckFacts
<1>2. t < target - Hysteresis
  BY <1>1, CheckNumbers DEF Near, CheckTypes
<1>3. Follows(t)
  BY <1>1 DEF MayBe
<1>4. CASE lag > 0
  BY <1>1, <1>2, <1>3, <1>4 DEF Follows, CheckTypes
<1>5. CASE lag = 0
  BY <1>1, <1>2, <1>3, <1>5, CheckNumbers DEF Follows, CheckTypes
<1> QED  BY <1>4, <1>5 DEF CheckTypes

LEMMA GoodCheck ==
  ASSUME CheckTypes, GoodInv, heater = "good", NEW t \in 0..MaxTemp, Check(t)
  PROVE  GoodInv'
<1>0. ~faulted /\ heater' = "good"
  BY CheckFacts
<1>1. temp' = t /\ lastTarget' = target /\ t \in Nat
  BY CheckFacts
<1>2. /\ lag \in Nat /\ error \in Nat /\ goalIn \in Int /\ goalTemp \in Int /\ temp \in Nat
      /\ target \in Nat /\ lastTarget \in Nat
  BY DEF CheckTypes
<1>3. PICK n \in Nat : /\ lag' = n /\ (lag = 0 => n = 0) /\ (lag > 0 => n = lag - 1)
  BY CheckFacts
<1>4. lag <= MaxLag /\ n <= MaxLag /\ (n > 0 => n <= MaxLag - 1)
  <2>1. lag <= MaxLag
    BY DEF GoodInv
  <2> QED  BY <1>2, <1>3, <2>1, CheckNumbers
<1>5. ~Near(t) => /\ t < target - Hysteresis /\ temp - 1 <= t /\ t <= temp + 1
                  /\ lag = 0 => t = temp + 1
  BY GoodFollows
<1>6. ~Near(t) => temp' < lastTarget'
  BY <1>1, <1>2, <1>5, CheckNumbers
<1>7. MaxLag \in Nat /\ HeatingGain \in Nat /\ CheckGainTime \in Nat /\ HeatingGain >= 1
  BY CheckNumbers
<1>8. lag' <= MaxLag
  BY <1>3, <1>4
<1>a. CASE NearTarget(t)
  <2>1. ~approaching' /\ ~faulted' /\ (t <= target + Hysteresis => error' = 0)
    BY <1>0, <1>a DEF NearTarget
  <2>2. t >= target - Hysteresis
    BY <1>1, <1>2, <1>a, CheckNumbers DEF NearTarget, Near
  <2>3. temp' <= lastTarget' + Hysteresis => KeepInv'
    BY <1>1, <1>2, <2>1, <2>2, CheckNumbers DEF KeepInv
  <2> QED  BY <1>8, <2>1, <2>3 DEF GoodInv
<1>b. CASE BeginsApproach(t)
  <2>1. goalTemp' = t + HeatingGain /\ goalIn' = CheckGainTime
    BY <1>b DEF BeginsApproach, NewGoal
  <2>2. approaching' /\ starting' /\ ~faulted' /\ ~Near(t)
    BY <1>0, <1>b DEF BeginsApproach
  <2>3. n > 0 => n + HeatingGain <= CheckGainTime
    BY <1>4, <1>7, LagNumbers
  <2>4. /\ t + HeatingGain - t <= CheckGainTime
        /\ n > 0 => n <= MaxLag - 1 - (t - (t + HeatingGain) + HeatingGain)
    BY <1>1, <1>4, <1>7, LagNumbers
  <2>5. StartInv'
    BY <1>1, <1>3, <1>7, <2>1, <2>3, <2>4 DEF StartInv
  <2> QED  BY <1>6, <1>8, <2>2, <2>5 DEF GoodInv
<1>c. CASE FallsBehind(t)
  <2> DEFINE d == target - Hysteresis - temp
             e == target - Hysteresis - t
  <2>1. error' = ErrorOf(t) /\ target = lastTarget /\ ~Near(t) /\ ~approaching /\ ~approaching'
    BY <1>c DEF FallsBehind
  <2>2. /\ e \in Nat /\ d \in Nat /\ e >= 1 /\ e <= d + 1
        /\ lag = 0 => e = d - 1
    BY <1>1, <1>2, <1>5, <2>1, CheckNumbers
  <2>3. KeepInv
    <3>1. temp <= lastTarget + Hysteresis
      BY <1>2, <2>1, <2>2, CheckNumbers
    <3> QED  BY <2>1, <3>1 DEF GoodInv
  <2>4. (d = 0 => error = 0) /\ (d > 0 => 2 * error + Quad(d, lag) < 2 * MaxError)
    BY <1>2, <2>1, <2>3, CheckNumbers DEF KeepInv
  <2>5. lastTarget' - Hysteresis - temp' = e
    BY <1>1
  <2>6. temp' < lastTarget' - Hysteresis /\ ~(temp' >= lastTarget' - Hysteresis)
    BY <1>1, <1>2, <1>5, <2>1, CheckNumbers
  <2>7. ErrorOf(t) = Least(MaxError, error + e)
    BY <1>1, <1>2, CheckNumbers DEF ErrorOf
  <2> HIDE DEF d, e
  <2>8. MaxError \in Nat
    BY CheckNumbers
  <2>9. 2 * error + Quad(d, lag) < 2 * MaxError
    <3>1. CASE d = 0
      <4>1. Quad(0, lag) = 2 * (lag * lag)
        BY <1>2 DEF Quad
      <4>2. Quad(d, lag) < 2 * MaxError
        BY <1>2, <1>4, <3>1, <4>1, LagSquare, CheckNumbers
      <4>3. error = 0 /\ Quad(d, lag) \in Int
        BY <1>2, <2>2, <2>4, <3>1, QuadNat
      <4> QED  BY <2>8, <4>2, <4>3
    <3> QED  BY <2>2, <2>4, <3>1
  <2>10. /\ 2 * e + Quad(e, n) <= Quad(d, lag)
         /\ Quad(e, n) >= 0 /\ Quad(e, n) \in Int /\ Quad(d, lag) \in Int
    <3>1. CASE lag > 0
      <4>1. Quad(d, lag) = 2 * (d + 1) + Quad(d + 1, n)
        <5>1. Quad(d, lag) = 2 * (d + 1) + Quad(d + 1, lag - 1)
          BY <1>2, <2>2, QuadFalls
        <5> QED  BY <1>3, <3>1, <5>1
      <4>2. 2 * e + Quad(e, n) <= 2 * (d + 1) + Quad(d + 1, n)
        <5>1. d + 1 \in Nat
          BY <2>2
        <5> QED  BY <2>2, <5>1, QuadGrows
      <4>3. Quad(e, n) >= 0 /\ Quad(e, n) \in Int /\ Quad(d, lag) \in Int
        BY <1>2, <2>2, QuadNat
      <4> QED  BY <4>1, <4>2, <4>3
    <3>2. CASE lag = 0
      <4>1. Quad(d, 0) = 2 * (d - 1) + Quad(d - 1, 0) /\ n = 0 /\ e = d - 1
        BY <1>3, <2>2, <3>2, QuadRises
      <4>2. Quad(e, 0) >= 0 /\ Quad(e, 0) \in Int /\ Quad(d, 0) \in Int
        BY <2>2, QuadNat
      <4> QED  BY <2>2, <3>2, <4>1, <4>2
    <3> QED  BY <1>2, <3>1, <3>2
  <2>11. error + e < MaxError /\ 2 * (error + e) + Quad(e, n) < 2 * MaxError
    BY <1>2, <2>2, <2>8, <2>9, <2>10
  <2>12. ErrorOf(t) = error + e
    BY <1>2, <2>2, <2>7, <2>8, <2>11 DEF Least
  <2>13. ~faulted'
    <3>1. ~(ErrorOf(t) >= MaxError)
      BY <1>2, <2>2, <2>8, <2>11, <2>12
    <3> QED  BY <1>c, <3>1 DEF FallsBehind, Over
  <2>14. KeepInv'
    BY <1>3, <2>1, <2>5, <2>6, <2>11, <2>12, Zenon DEF KeepInv
  <2> QED  BY <1>8, <2>1, <2>13, <2>14 DEF GoodInv
<1>d. CASE ReachesGoal(t)
  <2>1. goalTemp' = t + HeatingGain /\ goalIn' = CheckGainTime /\ t >= goalTemp
    BY <1>d DEF ReachesGoal, NewGoal
  <2>2. approaching /\ approaching' /\ ~starting' /\ ~faulted' /\ ~Near(t)
    BY <1>0, <1>d DEF ReachesGoal
  <2>3. lag > 0 => lag <= MaxLag - HeatingGain
    <3>1. CASE starting
      <4>1. StartInv
        BY <2>2, <3>1 DEF GoodInv
      <4>2. t <= temp + 1
        BY <1>5, <2>2
      <4> QED  BY <1>1, <1>2, <1>7, <2>1, <4>1, <4>2 DEF StartInv
    <3>2. CASE ~starting
      <4>1. RiseInv
        BY <2>2, <3>2 DEF GoodInv
      <4> QED  BY <1>2, <1>7, <4>1 DEF RiseInv
    <3> QED  BY <3>1, <3>2
  <2>4. n > 0 => n <= MaxLag - HeatingGain - 1
    BY <1>2, <1>3, <1>7, <2>3
  <2>5. 2 * n + (t + HeatingGain) - t <= CheckGainTime
    BY <1>1, <1>7, <2>4, LagNumbers
  <2>6. RiseInv'
    BY <1>1, <1>3, <1>7, <2>1, <2>4, <2>5 DEF RiseInv
  <2> QED  BY <1>6, <1>8, <2>2, <2>6 DEF GoodInv
<1>e. CASE Approaches(t)
  <2>1. goalIn' = goalIn - 1 /\ t < goalTemp
    BY <1>e DEF Approaches
  <2>2. approaching /\ ~faulted' /\ ~Near(t) /\ UNCHANGED starting /\ (goalIn > 1 => approaching')
    BY <1>0, <1>e DEF Approaches
  <2>3. goalTemp' = IF goalIn > 1 THEN Goal(t) ELSE goalTemp
    BY <1>e DEF Approaches
  <2>4. temp - 1 <= t /\ t <= temp + 1 /\ (lag = 0 => t = temp + 1)
    BY <1>5, <2>2
  <2>5. CASE starting
    <3>1. StartInv
      BY <2>2, <2>5 DEF GoodInv
    <3>2. goalIn > 1
      BY <1>1, <1>2, <1>7, <2>1, <2>4, <3>1 DEF StartInv
    <3>3. PICK g \in Int : /\ goalTemp' = g /\ g <= t + HeatingGain /\ g <= goalTemp
                           /\ g = goalTemp \/ g = t + HeatingGain
      <4>1. goalTemp' = Least(goalTemp, t + HeatingGain)
        BY <2>3, <2>5, <3>2 DEF Goal
      <4> QED  BY <1>1, <1>2, <1>7, <4>1 DEF Least
    <3>4. n > 0 => n + HeatingGain <= goalIn - 1
      BY <1>2, <1>3, <1>7, <3>1 DEF StartInv
    <3>5. n > 0 => n <= MaxLag - 1 - (t - g + HeatingGain)
      <4>1. CASE g = goalTemp
        BY <1>1, <1>2, <1>3, <1>7, <2>4, <3>1, <4>1 DEF StartInv
      <4>2. CASE g = t + HeatingGain
        BY <1>1, <1>4, <1>7, <4>2
      <4> QED  BY <3>3, <4>1, <4>2
    <3>6. n = 0 => g - t <= goalIn - 1
      <4>1. CASE lag = 0
        BY <1>1, <1>2, <2>4, <3>1, <3>3, <4>1 DEF StartInv
      <4>2. CASE lag > 0
        BY <1>1, <1>2, <1>3, <1>7, <3>1, <3>3, <4>2 DEF StartInv
      <4> QED  BY <1>2, <4>1, <4>2
    <3>7. StartInv'
      BY <1>1, <1>3, <2>1, <3>3, <3>4, <3>5, <3>6 DEF StartInv
    <3> QED  BY <1>6, <1>8, <2>2, <2>5, <3>2, <3>7 DEF GoodInv
  <2>6. CASE ~starting
    <3>1. RiseInv
      BY <2>2, <2>6 DEF GoodInv
    <3>2. goalIn > 1
      BY <1>1, <1>2, <1>7, <2>1, <2>4, <3>1 DEF RiseInv
    <3>3. goalTemp' = goalTemp
      BY <2>3, <2>6, <3>2 DEF Goal
    <3>4. n > 0 => n <= MaxLag - HeatingGain - 1
      BY <1>2, <1>3, <1>7, <3>1 DEF RiseInv
    <3>5. 2 * n + goalTemp - t <= goalIn - 1
      BY <1>1, <1>2, <1>3, <2>4, <3>1 DEF RiseInv
    <3>6. RiseInv'
      BY <1>1, <1>3, <2>1, <3>3, <3>4, <3>5 DEF RiseInv
    <3> QED  BY <1>6, <1>8, <2>2, <2>6, <3>2, <3>6 DEF GoodInv
  <2> QED  BY <2>5, <2>6
<1> QED  BY <1>a, <1>b, <1>c, <1>d, <1>e DEF Check

\* A good heater is never faulted, whatever target is set and when, if it lags as
\* LagAssumption allows; with StuckHeaterIsFound, the verdict of the check is right
\* (verify_heater.py:50-88).
THEOREM CheckIsRight == CheckSpec => []VerdictRight
<1> DEFINE Inv == CheckTypes /\ GoodInv
<1>1. CheckInit => Inv
  <2> SUFFICES ASSUME CheckInit  PROVE Inv
    OBVIOUS
  <2>1. /\ temp = 0 /\ target = 0 /\ lastTarget = 0 /\ goalTemp = 0 /\ error = 0 /\ goalIn = 0
        /\ lag = 0 /\ stuck = 0 /\ heater \in {"good", "any"} /\ ~approaching /\ ~faulted
    BY DEF CheckInit
  <2> QED  BY <2>1, CheckNumbers DEF CheckTypes, GoodInv, KeepInv
<1>2. Inv /\ [CheckNext]_checkVars => Inv'
  <2> SUFFICES ASSUME Inv, [CheckNext]_checkVars  PROVE Inv'
    OBVIOUS
  <2>1. ASSUME NEW t \in 0..MaxTemp, Check(t)  PROVE Inv'
    <3>1. CheckTypes' /\ heater' = heater
      BY <2>1, CheckFacts
    <3> QED  BY <2>1, <3>1, GoodCheck DEF GoodInv
  <2>2. CASE NewTarget
    <3>1. /\ CheckTypes' /\ (lag' = lag \/ (lag' = MaxLag /\ temp >= lastTarget))
          /\ UNCHANGED <<heater, temp, approaching, starting, lastTarget, goalTemp, error, goalIn,
                         faulted>>
      BY <2>2, TargetFacts
    <3>2. temp \in Nat /\ lastTarget \in Nat
      BY DEF CheckTypes
    <3>3. CASE lag' = lag
      BY <3>1, <3>3 DEF GoodInv, StartInv, RiseInv, KeepInv
    <3>4. CASE lag' = MaxLag /\ temp >= lastTarget
      <4>1. ~(temp < lastTarget) /\ ~(temp < lastTarget - Hysteresis) /\ lag' <= MaxLag
        BY <3>2, <3>4, CheckNumbers
      <4> QED  BY <3>1, <4>1 DEF GoodInv, KeepInv
    <3> QED  BY <3>1, <3>3, <3>4
  <2>3. CASE UNCHANGED checkVars
    BY <2>3 DEF checkVars, CheckTypes, GoodInv, StartInv, RiseInv, KeepInv
  <2> QED  BY <2>1, <2>2, <2>3 DEF CheckNext
<1>3. Inv => GoodIsNotFaulted
  BY DEF GoodInv, GoodIsNotFaulted
<1>4. StuckIsFound /\ GoodIsNotFaulted <=> VerdictRight
  BY DEF VerdictRight
<1> QED  BY <1>1, <1>2, <1>3, <1>4, StuckHeaterIsFound, PTL DEF CheckSpec

-----------------------------------------------------------------------------
(* Buttons (Buttons).                                                      *)

Messages == [count : Nat, state : Seq(Nat)]

ButtonTypes ==
    /\ made \in Nat /\ reports \in Seq(Nat) /\ ackCount \in Nat /\ messages \in Seq(Messages)
    /\ acks \in Seq(Nat) /\ hostCount \in Nat /\ calls \in Seq(Nat) /\ handled \in Nat
    /\ overflow \in BOOLEAN

LEMMA ButtonNumbers ==
  MaxReports \in Nat /\ CountMod \in Nat /\ CountMod > 0 /\ 2 * MaxReports < CountMod
BY ButtonConstants

\* The acknowledgements q lead from the count a to the count h.
Sums(q, a, h) ==
    \E s \in [0..Len(q) -> Nat] :
       /\ s[0] = a /\ s[Len(q)] = h
       /\ \A i \in 0..Len(q) : s[i] <= h
       /\ \A i \in 1..Len(q) : s[i] = s[i - 1] + q[i]

LEMMA SumsEmpty == ASSUME NEW a \in Nat  PROVE Sums(<< >>, a, a)
<1> DEFINE r == [i \in 0..0 |-> a]
<1>1. Len(<< >>) = 0
  OBVIOUS
<1>2. r \in [0..0 -> Nat] /\ r[0] = a /\ (\A i \in 0..0 : r[i] <= a)
      /\ (\A i \in 1..0 : r[i] = r[i - 1] + << >>[i])
  OBVIOUS
<1> HIDE DEF r
<1> QED  BY <1>1, <1>2 DEF Sums

LEMMA SumsAppend ==
  ASSUME NEW q \in Seq(Nat), NEW a \in Nat, NEW h \in Nat, NEW n \in Nat, Sums(q, a, h)
  PROVE  Sums(Append(q, n), a, h + n)
<1>1. PICK s \in [0..Len(q) -> Nat] :
         /\ s[0] = a /\ s[Len(q)] = h
         /\ \A i \in 0..Len(q) : s[i] <= h
         /\ \A i \in 1..Len(q) : s[i] = s[i - 1] + q[i]
  BY DEF Sums
<1> DEFINE r == [i \in 0..(Len(q) + 1) |-> IF i = Len(q) + 1 THEN h + n ELSE s[i]]
<1>2. Len(q) \in Nat /\ Len(Append(q, n)) = Len(q) + 1
  OBVIOUS
<1>3. r \in [0..Len(Append(q, n)) -> Nat]
  BY <1>2
<1>4. r[0] = a /\ r[Len(q) + 1] = h + n
  BY <1>1, <1>2
<1>5. ASSUME NEW i \in 0..(Len(q) + 1)  PROVE r[i] <= h + n
  <2>1. CASE i = Len(q) + 1
    BY <2>1
  <2>2. CASE i # Len(q) + 1
    <3>1. i \in 0..Len(q) /\ r[i] = s[i] /\ s[i] \in Nat
      BY <1>2, <2>2
    <3> QED  BY <1>1, <3>1
  <2> QED  BY <2>1, <2>2
<1>6. ASSUME NEW i \in 1..(Len(q) + 1)  PROVE r[i] = r[i - 1] + Append(q, n)[i]
  <2>1. CASE i = Len(q) + 1
    BY <1>1, <1>2, <2>1
  <2>2. CASE i # Len(q) + 1
    <3>1. i \in 1..Len(q) /\ i - 1 \in 0..Len(q) /\ i \in 0..Len(q) /\ i - 1 # Len(q) + 1
      BY <1>2, <2>2
    <3>2. r[i] = s[i] /\ r[i - 1] = s[i - 1] /\ Append(q, n)[i] = q[i]
      BY <1>2, <2>2, <3>1
    <3> QED  BY <1>1, <3>1, <3>2
  <2> QED  BY <2>1, <2>2
<1> HIDE DEF r
<1> QED  BY <1>2, <1>3, <1>4, <1>5, <1>6 DEF Sums

LEMMA SumsTail ==
  ASSUME NEW q \in Seq(Nat), NEW a \in Nat, NEW h \in Nat, q # << >>, Sums(q, a, h)
  PROVE  Sums(Tail(q), a + Head(q), h) /\ a + Head(q) <= h
<1>1. PICK s \in [0..Len(q) -> Nat] :
         /\ s[0] = a /\ s[Len(q)] = h
         /\ \A i \in 0..Len(q) : s[i] <= h
         /\ \A i \in 1..Len(q) : s[i] = s[i - 1] + q[i]
  BY DEF Sums
<1> DEFINE r == [i \in 0..(Len(q) - 1) |-> s[i + 1]]
<1>2. Len(q) \in Nat /\ Len(q) >= 1 /\ Len(Tail(q)) = Len(q) - 1 /\ Head(q) = q[1]
  OBVIOUS
<1>3. s[1] = a + Head(q) /\ s[1] <= h
  BY <1>1, <1>2
<1>4. r \in [0..Len(Tail(q)) -> Nat]
  BY <1>2
<1>5. r[0] = a + Head(q) /\ r[Len(q) - 1] = h
  BY <1>1, <1>2, <1>3
<1>6. ASSUME NEW i \in 0..(Len(q) - 1)  PROVE r[i] <= h
  <2>1. i + 1 \in 0..Len(q)
    BY <1>2
  <2> QED  BY <1>1, <2>1
<1>7. ASSUME NEW i \in 1..(Len(q) - 1)  PROVE r[i] = r[i - 1] + Tail(q)[i]
  <2>1. i + 1 \in 1..Len(q) /\ i - 1 \in 0..(Len(q) - 1) /\ i \in 0..(Len(q) - 1)
    BY <1>2
  <2>2. Tail(q)[i] = q[i + 1] /\ (i - 1) + 1 = i /\ (i + 1) - 1 = i
    BY <1>2, <2>1
  <2>3. r[i] = s[i + 1] /\ r[i - 1] = s[i]
    BY <2>1, <2>2
  <2> QED  BY <1>1, <2>1, <2>2, <2>3
<1> HIDE DEF r
<1> QED  BY <1>2, <1>3, <1>4, <1>5, <1>6, <1>7 DEF Sums

\* The messages q were sent when the count was at most a, the host has had nothing
\* that comes after any of them, and n changes are stored; without an overflow (o) a
\* message holds the changes that follow its count.
Underway(q, b, a, h, n, o, i) ==
    /\ q[i].count = b[i] % CountMod /\ b[i] <= a /\ Len(q[i].state) <= MaxReports
    /\ h <= b[i] + Len(q[i].state) /\ b[i] + Len(q[i].state) <= n
    /\ ~o => \A k \in 1..Len(q[i].state) : q[i].state[k] = b[i] + k

Ascends(q, b) ==
    \A i, j \in 1..Len(q) : j <= i => b[j] + Len(q[j].state) <= b[i] + Len(q[i].state)

OnTheWay(q, a, h, n, o) ==
    \E b \in [1..Len(q) -> Nat] :
       Ascends(q, b) /\ \A i \in 1..Len(q) : Underway(q, b, a, h, n, o, i)

LEMMA EmptyOnTheWay == ASSUME NEW a, NEW h, NEW n, NEW o  PROVE OnTheWay(<< >>, a, h, n, o)
<1> DEFINE b == [i \in 1..0 |-> 0]
<1>1. Len(<< >>) = 0 /\ b \in [1..0 -> Nat]
  OBVIOUS
<1>2. \A i : i \notin 1..0
  OBVIOUS
<1> HIDE DEF b
<1> QED  BY <1>1, <1>2 DEF OnTheWay, Ascends

LEMMA LaterOnTheWay ==
  ASSUME NEW q \in Seq(Messages), NEW a \in Nat, NEW h \in Nat, NEW n \in Nat, NEW o,
         NEW a2 \in Nat, NEW n2 \in Nat, NEW o2,
         OnTheWay(q, a, h, n, o), a <= a2, n <= n2, o => o2
  PROVE  OnTheWay(q, a2, h, n2, o2)
<1>1. PICK b \in [1..Len(q) -> Nat] :
         Ascends(q, b) /\ \A i \in 1..Len(q) : Underway(q, b, a, h, n, o, i)
  BY DEF OnTheWay
<1>2. ASSUME NEW i \in 1..Len(q)  PROVE Underway(q, b, a2, h, n2, o2, i)
  <2>1. q[i] \in Messages
    OBVIOUS
  <2>2. Len(q[i].state) \in Nat /\ b[i] \in Nat
    BY <2>1 DEF Messages
  <2>3. b[i] <= a2 /\ b[i] + Len(q[i].state) <= n2
    BY <1>1, <2>2 DEF Underway
  <2>4. ~o2 => \A k \in 1..Len(q[i].state) : q[i].state[k] = b[i] + k
    BY <1>1 DEF Underway
  <2> QED  BY <1>1, <2>3, <2>4 DEF Underway
<1> QED  BY <1>1, <1>2 DEF OnTheWay

LEMMA StillOnTheWay ==
  ASSUME NEW q \in Seq(Messages), NEW a \in Nat, NEW h \in Nat, NEW n \in Nat, NEW o,
         NEW a2 \in Nat, NEW n2 \in Nat, OnTheWay(q, a, h, n, o), a <= a2, n <= n2
  PROVE  OnTheWay(q, a2, h, n2, o)
BY LaterOnTheWay

LEMMA MoreOnTheWay ==
  ASSUME NEW q \in Seq(Messages), NEW a \in Nat, NEW h \in Nat, NEW n \in Nat, NEW o,
         NEW m \in Messages, OnTheWay(q, a, h, n, o), m.count = a % CountMod,
         Len(m.state) <= MaxReports, a + Len(m.state) = n, h <= n,
         ~o => \A k \in 1..Len(m.state) : m.state[k] = a + k
  PROVE  OnTheWay(Append(q, m), a, h, n, o)
<1>1. PICK b \in [1..Len(q) -> Nat] :
         Ascends(q, b) /\ \A i \in 1..Len(q) : Underway(q, b, a, h, n, o, i)
  BY DEF OnTheWay
<1> DEFINE q2 == Append(q, m)
           b2 == [i \in 1..(Len(q) + 1) |-> IF i = Len(q) + 1 THEN a ELSE b[i]]
<1>2. Len(q) \in Nat /\ Len(q2) = Len(q) + 1 /\ b2 \in [1..Len(q2) -> Nat]
  <2>1. Len(q) \in Nat /\ Len(q2) = Len(q) + 1
    OBVIOUS
  <2>2. ASSUME NEW i \in 1..(Len(q) + 1)
        PROVE  (IF i = Len(q) + 1 THEN a ELSE b[i]) \in Nat
    BY <2>1
  <2> HIDE DEF q2
  <2>3. b2 \in [1..(Len(q) + 1) -> Nat]
    BY <2>2, Zenon
  <2> QED  BY <2>1, <2>3, Zenon
<1>3. b2[Len(q) + 1] = a /\ q2[Len(q) + 1] = m
  BY <1>2
<1>4. ASSUME NEW i \in 1..Len(q)  PROVE b2[i] = b[i] /\ q2[i] = q[i] /\ i # Len(q) + 1
  BY <1>2
<1>5. Len(m.state) \in Nat
  BY DEF Messages
<1> HIDE DEF b2, q2
<1>6. Underway(q2, b2, a, h, n, o, Len(q) + 1)
  BY <1>3, <1>5 DEF Underway
<1>7. ASSUME NEW i \in 1..Len(q)  PROVE Underway(q2, b2, a, h, n, o, i)
  <2>1. Underway(q, b, a, h, n, o, i) /\ b2[i] = b[i] /\ q2[i] = q[i]
    BY <1>1, <1>4
  <2>2. ~o => \A k \in 1..Len(q2[i].state) : q2[i].state[k] = b2[i] + k
    BY <2>1, Zenon DEF Underway
  <2> QED  BY <2>1, <2>2, Zenon DEF Underway
<1>8. ASSUME NEW i \in 1..Len(q2), NEW j \in 1..Len(q2), j <= i
      PROVE  b2[j] + Len(q2[j].state) <= b2[i] + Len(q2[i].state)
  <2>1. CASE i = Len(q) + 1
    <3>1. CASE j = Len(q) + 1
      BY <1>3, <1>5, <2>1, <3>1
    <3>2. CASE j # Len(q) + 1
      <4>1. j \in 1..Len(q)
        BY <1>2, <3>2
      <4>2. b[j] + Len(q[j].state) <= n
        BY <1>1, <4>1 DEF Underway
      <4> QED  BY <1>3, <1>4, <2>1, <4>1, <4>2
    <3> QED  BY <3>1, <3>2
  <2>2. CASE i # Len(q) + 1
    <3>1. i \in 1..Len(q) /\ j \in 1..Len(q)
      BY <1>2, <1>8, <2>2
    <3> QED  BY <1>1, <1>4, <1>8, <3>1 DEF Ascends
  <2> QED  BY <2>1, <2>2
<1>9. \A i \in 1..Len(q2) : i \in 1..Len(q) \/ i = Len(q) + 1
  BY <1>2
<1> QED  BY <1>2, <1>6, <1>7, <1>8, <1>9 DEF OnTheWay, Ascends, q2

LEMMA LessOnTheWay ==
  ASSUME NEW q \in Seq(Messages), NEW a \in Nat, NEW h \in Nat, NEW n \in Nat, NEW o,
         q # << >>, OnTheWay(q, a, h, n, o)
  PROVE  \E c \in Nat :
            /\ Head(q).count = c % CountMod /\ c <= a /\ Len(Head(q).state) <= MaxReports
            /\ h <= c + Len(Head(q).state) /\ c + Len(Head(q).state) <= n
            /\ ~o => \A k \in 1..Len(Head(q).state) : Head(q).state[k] = c + k
            /\ OnTheWay(Tail(q), a, c + Len(Head(q).state), n, o)
<1>1. PICK b \in [1..Len(q) -> Nat] :
         Ascends(q, b) /\ \A i \in 1..Len(q) : Underway(q, b, a, h, n, o, i)
  BY DEF OnTheWay
<1> DEFINE b2 == [i \in 1..(Len(q) - 1) |-> b[i + 1]]
           e == b[1] + Len(Head(q).state)
<1>2. /\ Len(q) \in Nat /\ Len(q) >= 1 /\ Len(Tail(q)) = Len(q) - 1 /\ Head(q) = q[1]
      /\ b2 \in [1..Len(Tail(q)) -> Nat] /\ 1 \in 1..Len(q) /\ b[1] \in Nat
  OBVIOUS
<1>3. ASSUME NEW i \in 1..Len(Tail(q))
      PROVE  /\ i + 1 \in 1..Len(q) /\ b2[i] = b[i + 1] /\ Tail(q)[i] = q[i + 1]
             /\ q[i + 1] \in Messages /\ b[i + 1] \in Nat
  <2>1. i + 1 \in 1..Len(q) /\ b2[i] = b[i + 1] /\ Tail(q)[i] = q[i + 1]
    BY <1>2
  <2> QED  BY <2>1
<1> HIDE DEF b2
<1>4. Ascends(Tail(q), b2)
  <2> SUFFICES ASSUME NEW i \in 1..Len(Tail(q)), NEW j \in 1..Len(Tail(q)), j <= i
               PROVE  b2[j] + Len(Tail(q)[j].state) <= b2[i] + Len(Tail(q)[i].state)
    BY DEF Ascends
  <2>1. j + 1 <= i + 1
    BY <1>2
  <2> QED  BY <1>1, <1>3, <2>1 DEF Ascends
<1>5. ASSUME NEW i \in 1..Len(Tail(q))  PROVE Underway(Tail(q), b2, a, e, n, o, i)
  <2>1. 1 <= i + 1 /\ i + 1 \in 1..Len(q)
    BY <1>3
  <2>2. e <= b[i + 1] + Len(q[i + 1].state)
    BY <1>1, <1>2, <2>1 DEF Ascends
  <2>3. Underway(q, b, a, h, n, o, i + 1)
    BY <1>1, <2>1
  <2> HIDE DEF e
  <2> QED  BY <1>3, <2>2, <2>3 DEF Underway
<1>6. OnTheWay(Tail(q), a, e, n, o)
  BY <1>2, <1>4, <1>5 DEF OnTheWay
<1>7. Underway(q, b, a, h, n, o, 1)
  BY <1>1, <1>2
<1> QED  BY <1>2, <1>6, <1>7 DEF Underway

\* What the firmware has stored and the host has counted.
Counted ==
    /\ Len(reports) <= MaxReports /\ ackCount + Len(reports) <= made
    /\ ackCount <= hostCount /\ hostCount <= ackCount + Len(reports)
    /\ Sums(acks, ackCount, hostCount)
    /\ OnTheWay(messages, ackCount, hostCount, ackCount + Len(reports), overflow)

\* The changes themselves.
InPlace ==
    ~overflow =>
        /\ ackCount + Len(reports) = made
        /\ \A k \in 1..Len(reports) : reports[k] = ackCount + k
        /\ handled + Len(calls) = hostCount
        /\ \A k \in 1..Len(calls) : calls[k] = handled + k

ButtonInv == ButtonTypes /\ Counted /\ InPlace

LEMMA ButtonFacts ==
  ASSUME ButtonInv
  PROVE  /\ made \in Nat /\ reports \in Seq(Nat) /\ ackCount \in Nat /\ messages \in Seq(Messages)
         /\ acks \in Seq(Nat) /\ hostCount \in Nat /\ calls \in Seq(Nat) /\ handled \in Nat
         /\ overflow \in BOOLEAN /\ Len(reports) \in Nat /\ Len(calls) \in Nat
         /\ ackCount + Len(reports) \in Nat
BY DEF ButtonInv, ButtonTypes

LEMMA SampleKeeps ==
  ASSUME ButtonInv, NEW level \in {0, 1}, SamplePin(level)
  PROVE  ButtonInv'
<1>1. UNCHANGED <<ackCount, messages, acks, hostCount, calls, handled>>
  BY DEF SamplePin, hostVars
<1>2. CASE UNCHANGED <<made, reports, overflow>>
  BY <1>1, <1>2 DEF ButtonInv, ButtonTypes, Counted, InPlace
<1>3. CASE made' = made + 1 /\ overflow' = TRUE /\ reports' = reports
  <2>1. ButtonTypes'
    BY <1>1, <1>3, ButtonFacts DEF ButtonTypes
  <2>2. OnTheWay(messages, ackCount, hostCount, ackCount + Len(reports), TRUE)
    <3>1. OnTheWay(messages, ackCount, hostCount, ackCount + Len(reports), overflow)
      BY DEF ButtonInv, Counted
    <3>2. TRUE \in BOOLEAN /\ ackCount <= ackCount /\ ackCount + Len(reports) <= ackCount + Len(reports)
      BY ButtonFacts
    <3> QED  BY <3>1, <3>2, ButtonFacts, LaterOnTheWay
  <2>3. ackCount + Len(reports) <= made + 1
    BY ButtonFacts DEF ButtonInv, Counted
  <2>4. Counted'
    BY <1>1, <1>3, <2>2, <2>3 DEF ButtonInv, Counted
  <2>5. InPlace'
    BY <1>3 DEF InPlace
  <2> QED  BY <2>1, <2>4, <2>5 DEF ButtonInv
<1>4. CASE /\ made' = made + 1 /\ Len(reports) < MaxReports
           /\ reports' = Append(reports, made + 1) /\ UNCHANGED overflow
  <2>1. ButtonTypes'
    BY <1>1, <1>4, ButtonFacts DEF ButtonTypes
  <2>2. Len(Append(reports, made + 1)) = Len(reports) + 1
    BY ButtonFacts
  <2>3. OnTheWay(messages, ackCount, hostCount, ackCount + (Len(reports) + 1), overflow)
    <3>1. ackCount + (Len(reports) + 1) \in Nat
      BY ButtonFacts
    <3>2. ackCount <= ackCount /\ ackCount + Len(reports) <= ackCount + (Len(reports) + 1)
      BY ButtonFacts
    <3>3. OnTheWay(messages, ackCount, hostCount, ackCount + Len(reports), overflow)
      BY DEF ButtonInv, Counted
    <3> QED  BY <3>1, <3>2, <3>3, ButtonFacts, StillOnTheWay
  <2>4. /\ Len(reports) + 1 <= MaxReports /\ ackCount + (Len(reports) + 1) <= made + 1
        /\ ackCount <= hostCount /\ hostCount <= ackCount + (Len(reports) + 1)
    BY <1>4, ButtonFacts, ButtonNumbers DEF ButtonInv, Counted
  <2>5. Counted'
    BY <1>1, <1>4, <2>2, <2>3, <2>4 DEF ButtonInv, Counted
  <2>6. InPlace'
    <3> SUFFICES ASSUME ~overflow  PROVE InPlace'
      BY <1>4 DEF InPlace
    <3>1. /\ ackCount + Len(reports) = made
          /\ \A k \in 1..Len(reports) : reports[k] = ackCount + k
      BY DEF ButtonInv, InPlace
    <3>2. ackCount + (Len(reports) + 1) = made + 1
      BY <3>1, ButtonFacts
    <3>3. ASSUME NEW k \in 1..(Len(reports) + 1)  PROVE Append(reports, made + 1)[k] = ackCount + k
      <4>1. CASE k = Len(reports) + 1
        BY <3>2, <4>1, ButtonFacts
      <4>2. CASE k # Len(reports) + 1
        <5>1. k \in 1..Len(reports)
          BY <4>2, ButtonFacts
        <5>2. Append(reports, made + 1)[k] = reports[k]
          BY <5>1, ButtonFacts
        <5> QED  BY <3>1, <5>1, <5>2
      <4> QED  BY <4>1, <4>2
    <3> QED  BY <1>1, <1>4, <2>2, <3>2, <3>3 DEF ButtonInv, InPlace
  <2> QED  BY <2>1, <2>5, <2>6 DEF ButtonInv
<1> QED  BY <1>2, <1>3, <1>4 DEF SamplePin

LEMMA ReportKeepsCounts ==
  ASSUME ButtonInv, NEW gone \in BOOLEAN, Report(gone)
  PROVE  ButtonInv'
<1> DEFINE m == [count |-> (ackCount % CountMod), state |-> reports]
<1>1. /\ UNCHANGED <<made, overflow, reports, ackCount, acks, hostCount, calls, handled>>
      /\ messages' = messages \/ messages' = Append(messages, m)
  BY DEF Report, firmwareVars, hostVars
<1>2. CASE messages' = messages
  BY <1>1, <1>2 DEF ButtonInv, ButtonTypes, Counted, InPlace
<1>3. CASE messages' = Append(messages, m)
  <2>1. m \in Messages /\ m.count = ackCount % CountMod /\ m.state = reports
    BY ButtonFacts, ButtonNumbers DEF Messages
  <2> HIDE DEF m
  <2>2. /\ Len(m.state) <= MaxReports /\ ackCount + Len(m.state) = ackCount + Len(reports)
        /\ hostCount <= ackCount + Len(reports)
        /\ ~overflow => \A k \in 1..Len(m.state) : m.state[k] = ackCount + k
    BY <2>1 DEF ButtonInv, Counted, InPlace
  <2>3. OnTheWay(Append(messages, m), ackCount, hostCount, ackCount + Len(reports), overflow)
    BY <2>1, <2>2, ButtonFacts, MoreOnTheWay DEF ButtonInv, Counted
  <2>4. Counted'
    BY <1>1, <1>3, <2>3 DEF ButtonInv, Counted
  <2>5. ButtonTypes'
    BY <1>1, <1>3, <2>1, ButtonFacts DEF ButtonTypes
  <2>6. InPlace'
    BY <1>1 DEF ButtonInv, InPlace
  <2> QED  BY <2>4, <2>5, <2>6 DEF ButtonInv
<1> QED  BY <1>1, <1>2, <1>3

LEMMA RestIs ==
  ASSUME NEW r \in Seq(Nat), NEW n \in Nat, n <= Len(r)
  PROVE  /\ SubSeq(r, n + 1, Len(r)) \in Seq(Nat) /\ Len(SubSeq(r, n + 1, Len(r))) = Len(r) - n
         /\ \A k \in 1..(Len(r) - n) : SubSeq(r, n + 1, Len(r))[k] = r[n + k]
OBVIOUS

LEMMA AckKeeps ==
  ASSUME ButtonInv, TakeButtonsAck
  PROVE  ButtonInv'
<1> DEFINE n == Head(acks)
           r == SubSeq(reports, n + 1, Len(reports))
<1>1. /\ acks # << >> /\ acks' = Tail(acks) /\ ackCount' = ackCount + n /\ reports' = r
      /\ UNCHANGED <<made, overflow, messages, hostCount, calls, handled>>
  BY DEF TakeButtonsAck, Rest, firmwareVars, hostVars
<1>2. n \in Nat /\ Tail(acks) \in Seq(Nat)
  BY <1>1, ButtonFacts, TailIs
<1>3. Sums(Tail(acks), ackCount + n, hostCount) /\ ackCount + n <= hostCount
  BY <1>1, ButtonFacts, SumsTail DEF ButtonInv, Counted
<1>4. n <= Len(reports)
  <2>1. ackCount + n <= ackCount + Len(reports)
    <3>1. hostCount <= ackCount + Len(reports)
      BY DEF ButtonInv, Counted
    <3> HIDE DEF n
    <3> QED  BY <1>2, <1>3, <3>1, ButtonFacts
  <2> HIDE DEF n
  <2> QED  BY <1>2, <2>1, ButtonFacts
<1>5. /\ r \in Seq(Nat) /\ Len(r) = Len(reports) - n
      /\ \A k \in 1..(Len(reports) - n) : r[k] = reports[n + k]
  BY <1>2, <1>4, ButtonFacts, RestIs
<1> HIDE DEF n, r
<1>6. ackCount + n + Len(r) = ackCount + Len(reports) /\ ackCount + n \in Nat
  BY <1>2, <1>5, ButtonFacts
<1>7. ButtonTypes'
  BY <1>1, <1>2, <1>5, <1>6, ButtonFacts DEF ButtonTypes
<1>8. OnTheWay(messages, ackCount + n, hostCount, ackCount + n + Len(r), overflow)
  <2>1. ackCount <= ackCount + n /\ ackCount + Len(reports) <= ackCount + Len(reports)
    BY <1>2, ButtonFacts
  <2>2. OnTheWay(messages, ackCount, hostCount, ackCount + Len(reports), overflow)
    BY DEF ButtonInv, Counted
  <2>3. OnTheWay(messages, ackCount + n, hostCount, ackCount + Len(reports), overflow)
    BY <1>6, <2>1, <2>2, ButtonFacts, StillOnTheWay
  <2> QED  BY <1>6, <2>3
<1>9. Counted'
  <2>1. Len(r) <= MaxReports
    <3>1. Len(reports) <= MaxReports
      BY DEF ButtonInv, Counted
    <3> QED  BY <1>2, <1>5, <3>1, ButtonFacts, ButtonNumbers
  <2>2. /\ ackCount + n + Len(r) <= made /\ hostCount <= ackCount + n + Len(r)
    BY <1>6 DEF ButtonInv, Counted
  <2> QED  BY <1>1, <1>3, <1>8, <2>1, <2>2 DEF Counted
<1>10. InPlace'
  <2> SUFFICES ASSUME ~overflow  PROVE InPlace'
    BY <1>1 DEF InPlace
  <2>1. ASSUME NEW k \in 1..Len(r)  PROVE r[k] = ackCount + n + k
    <3>1. n + k \in 1..Len(reports) /\ k \in 1..(Len(reports) - n)
      BY <1>2, <1>4, <1>5, ButtonFacts
    <3>2. reports[n + k] = ackCount + (n + k)
      BY <3>1 DEF ButtonInv, InPlace
    <3> QED  BY <1>2, <1>5, <3>1, <3>2, ButtonFacts
  <2>2. ackCount + n + Len(r) = made
    BY <1>6 DEF ButtonInv, InPlace
  <2> QED  BY <1>1, <2>1, <2>2 DEF ButtonInv, InPlace
<1> QED  BY <1>7, <1>9, <1>10 DEF ButtonInv

LEMMA ExpandsRight ==
  ASSUME hostCount \in Nat, NEW c \in Nat, c <= hostCount, hostCount - c <= MaxReports
  PROVE  Expanded(c % CountMod) = c
<1>1. MaxReports \in Nat /\ CountMod \in Nat /\ CountMod > 0 /\ 2 * MaxReports < CountMod
  BY ButtonNumbers
<1>2. PICK q \in Int : c = CountMod * q + (c % CountMod)
  <2>1. c = CountMod * (c \div CountMod) + (c % CountMod) /\ c \div CountMod \in Int
    BY <1>1
  <2> QED  BY <2>1
<1> DEFINE x == hostCount - c
           d == (hostCount - (c % CountMod)) % CountMod
<1>3. x \in 0..(CountMod - 1) /\ 2 * x < CountMod
  BY <1>1
<1>4. hostCount - (c % CountMod) = x + CountMod * q
  <2>1. c % CountMod \in Int
    BY <1>1
  <2> QED  BY <1>1, <1>2, <2>1
<1>5. (x + CountMod * q) % CountMod = x
  <2> HIDE DEF x
  <2> QED  BY <1>1, <1>3
<1>6. d = x
  BY <1>4, <1>5
<1>7. Expanded(c % CountMod) = hostCount - (IF 2 * d >= CountMod THEN d - CountMod ELSE d)
  BY DEF Expanded
<1> HIDE DEF d
<1> QED  BY <1>1, <1>3, <1>6, <1>7

LEMMA LastOf ==
  ASSUME NEW r \in Seq(Nat), NEW n \in Nat, n <= Len(r)
  PROVE  /\ SubSeq(r, Len(r) - n + 1, Len(r)) \in Seq(Nat)
         /\ Len(SubSeq(r, Len(r) - n + 1, Len(r))) = n
         /\ \A k \in 1..n : SubSeq(r, Len(r) - n + 1, Len(r))[k] = r[Len(r) - n + k]
OBVIOUS

LEMMA Follow ==
  ASSUME NEW q \in Seq(Nat), NEW t \in Seq(Nat)
  PROVE  /\ q \o t \in Seq(Nat) /\ Len(q \o t) = Len(q) + Len(t)
         /\ \A k \in 1..Len(q) : (q \o t)[k] = q[k]
         /\ \A k \in 1..Len(t) : (q \o t)[Len(q) + k] = t[k]
OBVIOUS

\* The events of q are numbered from the one after f.
From(q, f) == \A k \in 1..Len(q) : q[k] = f + k

\* What follows the calls that wait is handled after them.
LEMMA CallsGrow ==
  ASSUME NEW q \in Seq(Nat), NEW r \in Seq(Nat), NEW n \in Nat, n <= Len(r), NEW f \in Nat, NEW c \in Nat,
         From(q, f), From(r, c), f + Len(q) = c + Len(r) - n
  PROVE  /\ f + Len(q \o SubSeq(r, Len(r) - n + 1, Len(r))) = c + Len(r)
         /\ From(q \o SubSeq(r, Len(r) - n + 1, Len(r)), f)
<1> PICK s : s = q \o SubSeq(r, Len(r) - n + 1, Len(r))
  OBVIOUS
<1>0. (\A k \in 1..Len(q) : q[k] = f + k) /\ (\A k \in 1..Len(r) : r[k] = c + k)
  BY DEF From
<1> DEFINE t == SubSeq(r, Len(r) - n + 1, Len(r))
<1>1. Len(r) \in Nat /\ Len(q) \in Nat /\ Len(r) - n \in Nat
  OBVIOUS
<1>2. /\ t \in Seq(Nat) /\ Len(t) = n /\ \A k \in 1..n : t[k] = r[Len(r) - n + k]
  BY LastOf
<1>3. /\ s \in Seq(Nat) /\ Len(s) = Len(q) + n
      /\ \A k \in 1..Len(q) : s[k] = q[k]
      /\ \A k \in 1..n : s[Len(q) + k] = t[k]
  <2>1. s = q \o t
    OBVIOUS
  <2> HIDE DEF t
  <2>2. /\ q \o t \in Seq(Nat) /\ Len(q \o t) = Len(q) + n
        /\ \A k \in 1..Len(q) : (q \o t)[k] = q[k]
        /\ \A k \in 1..n : (q \o t)[Len(q) + k] = t[k]
    BY <1>2, Follow
  <2> QED  BY <2>1, <2>2
<1> HIDE DEF t
<1>4. f + Len(s) = c + Len(r)
  <2>1. f + (Len(q) + n) = c + Len(r)
    BY <1>1
  <2> QED  BY <1>3, <2>1, Zenon
<1>5. ASSUME NEW k \in 1..Len(s)  PROVE s[k] = f + k
  <2>1. CASE k <= Len(q)
    <3>1. k \in 1..Len(q)
      BY <1>1, <1>3, <2>1
    <3> QED  BY <1>0, <1>3, <3>1
  <2>2. CASE k > Len(q)
    <3>1. PICK j \in 1..n : k = Len(q) + j
      <4>1. k - Len(q) \in 1..n /\ k = Len(q) + (k - Len(q))
        BY <1>1, <1>3, <2>2
      <4> QED  BY <4>1
    <3>2. Len(r) - n + j \in 1..Len(r)
      BY <1>1
    <3>3. s[k] = r[Len(r) - n + j]
      BY <1>2, <1>3, <3>1
    <3>4. r[Len(r) - n + j] = c + (Len(r) - n + j)
      BY <1>0, <3>2
    <3>5. c + (Len(r) - n + j) = f + Len(q) + j
      <4>1. \A x \in Nat, y \in Nat : f + y = c + x - n => c + (x - n + j) = f + y + j
        OBVIOUS
      <4> QED  BY <1>1, <4>1
    <3>6. f + Len(q) + j = f + k
      BY <1>1, <3>1
    <3>7. s[k] = c + (Len(r) - n + j)
      BY <3>3, <3>4, Zenon
    <3>8. s[k] = f + Len(q) + j
      BY <3>7, <3>5, Zenon
    <3> QED  BY <3>8, <3>6, Zenon
  <2>3. k <= Len(q) \/ k > Len(q)
    BY <1>1
  <2> QED  BY <2>1, <2>2, <2>3, Zenon
<1> QED  BY <1>4, <1>5 DEF From

LEMMA MessageKeeps ==
  ASSUME ButtonInv, TakeMessage
  PROVE  ButtonInv'
<1> DEFINE m == Head(messages)
           n == Unseen(m)
<1>1. /\ messages # << >> /\ messages' = Tail(messages)
      /\ UNCHANGED <<made, overflow, reports, ackCount, handled>>
      /\ \/ n <= 0 /\ UNCHANGED <<acks, hostCount, calls>>
         \/ /\ ~(n <= 0) /\ acks' = Append(acks, n) /\ hostCount' = hostCount + n
            /\ calls' = calls \o SubSeq(m.state, Len(m.state) - n + 1, Len(m.state))
  BY DEF TakeMessage, firmwareVars
<1>2. m \in Messages /\ Tail(messages) \in Seq(Messages)
  BY <1>1, ButtonFacts, TailIs
<1>3. m.state \in Seq(Nat) /\ Len(m.state) \in Nat
  BY <1>2 DEF Messages
<1>4. OnTheWay(messages, ackCount, hostCount, ackCount + Len(reports), overflow)
  BY DEF ButtonInv, Counted
<1>5. PICK c \in Nat :
         /\ m.count = c % CountMod /\ c <= ackCount /\ Len(m.state) <= MaxReports
         /\ hostCount <= c + Len(m.state) /\ c + Len(m.state) <= ackCount + Len(reports)
         /\ ~overflow => \A k \in 1..Len(m.state) : m.state[k] = c + k
         /\ OnTheWay(Tail(messages), ackCount, c + Len(m.state), ackCount + Len(reports), overflow)
  BY <1>1, <1>4, ButtonFacts, LessOnTheWay
<1> HIDE DEF m
<1>6. n = c + Len(m.state) - hostCount
  <2>1. c <= hostCount
    <3>1. ackCount <= hostCount
      BY DEF ButtonInv, Counted
    <3> QED  BY <1>5, <3>1, ButtonFacts
  <2>2. hostCount - c <= MaxReports
    BY <1>3, <1>5, ButtonFacts, ButtonNumbers
  <2>3. Expanded(m.count) = c
    BY <1>5, <2>1, <2>2, ButtonFacts, ExpandsRight
  <2> QED  BY <2>3 DEF Unseen
<1> HIDE DEF n
<1>7. n \in Nat /\ n <= Len(m.state) /\ hostCount + n = c + Len(m.state)
  <2>1. ackCount <= hostCount
    BY DEF ButtonInv, Counted
  <2>2. c <= ackCount /\ hostCount <= c + Len(m.state)
    BY <1>5
  <2>3. ackCount \in Nat /\ hostCount \in Nat
    BY ButtonFacts
  <2> QED  BY <1>3, <1>6, <2>1, <2>2, <2>3
<1>8. OnTheWay(Tail(messages), ackCount, hostCount + n, ackCount + Len(reports), overflow)
  BY <1>5, <1>7
<1>9. CASE n <= 0 /\ UNCHANGED <<acks, hostCount, calls>>
  <2>1. hostCount + n = hostCount
    BY <1>7, <1>9, ButtonFacts
  <2>2. ButtonTypes'
    BY <1>1, <1>2, <1>9, ButtonFacts DEF ButtonTypes
  <2>3. Counted'
    BY <1>1, <1>8, <1>9, <2>1 DEF ButtonInv, Counted
  <2>4. InPlace'
    BY <1>1, <1>9 DEF ButtonInv, InPlace
  <2> QED  BY <2>2, <2>3, <2>4 DEF ButtonInv
<1>10. CASE /\ acks' = Append(acks, n) /\ hostCount' = hostCount + n
            /\ calls' = calls \o SubSeq(m.state, Len(m.state) - n + 1, Len(m.state))
  <2> DEFINE s == calls \o SubSeq(m.state, Len(m.state) - n + 1, Len(m.state))
  <2>1. s \in Seq(Nat)
    <3>1. Len(m.state) - n \in Nat /\ Len(m.state) - n <= Len(m.state)
      BY <1>3, <1>7
    <3>2. SubSeq(m.state, Len(m.state) - n + 1, Len(m.state)) \in Seq(Nat)
      BY <1>3, <3>1, RestIs
    <3> QED  BY <3>2, ButtonFacts
  <2>2. Append(acks, n) \in Seq(Nat) /\ hostCount + n \in Nat
    BY <1>7, ButtonFacts
  <2>3. ButtonTypes'
    BY <1>1, <1>2, <1>10, <2>1, <2>2, ButtonFacts DEF ButtonTypes
  <2>4. Sums(Append(acks, n), ackCount, hostCount + n)
    <3>1. Sums(acks, ackCount, hostCount)
      BY DEF ButtonInv, Counted
    <3> QED  BY <1>7, <3>1, ButtonFacts, SumsAppend
  <2>5. ackCount <= hostCount + n /\ hostCount + n <= ackCount + Len(reports)
    <3>1. ackCount <= hostCount
      BY DEF ButtonInv, Counted
    <3> QED  BY <1>5, <1>7, <3>1, ButtonFacts
  <2>6. Counted'
    BY <1>1, <1>8, <1>10, <2>4, <2>5 DEF ButtonInv, Counted
  <2>7. InPlace'
    <3> SUFFICES ASSUME ~overflow  PROVE InPlace'
      BY <1>1 DEF InPlace
    <3>1. /\ handled + Len(calls) = hostCount /\ \A k \in 1..Len(calls) : calls[k] = handled + k
          /\ ackCount + Len(reports) = made /\ \A k \in 1..Len(reports) : reports[k] = ackCount + k
      BY DEF ButtonInv, InPlace
    <3>2. /\ \A k \in 1..Len(m.state) : m.state[k] = c + k
          /\ handled + Len(calls) = c + Len(m.state) - n
      <4>1. hostCount = c + Len(m.state) - n
        <5>1. hostCount \in Nat
          BY ButtonFacts
        <5> QED  BY <1>3, <1>7, <5>1
      <4> QED  BY <1>5, <3>1, <4>1
    <3>3. handled + Len(s) = c + Len(m.state) /\ \A k \in 1..Len(s) : s[k] = handled + k
      <4>1. calls \in Seq(Nat) /\ handled \in Nat
        BY ButtonFacts
      <4>2. From(calls, handled) /\ From(m.state, c)
        BY <3>1, <3>2 DEF From
      <4>3. n \in Nat /\ n <= Len(m.state) /\ m.state \in Seq(Nat)
        BY <1>3, <1>7
      <4>4. handled + Len(calls) = c + Len(m.state) - n
        BY <3>2
      <4>5. handled + Len(s) = c + Len(m.state) /\ From(s, handled)
        BY <1>5, <4>1, <4>2, <4>3, <4>4, CallsGrow, Zenon
      <4> QED  BY <4>5 DEF From
    <3> HIDE DEF s
    <3>4. handled + Len(s) = hostCount + n
      BY <1>7, <3>3
    <3> QED  BY <1>1, <1>10, <3>1, <3>3, <3>4 DEF InPlace, s
  <2> QED  BY <2>3, <2>6, <2>7 DEF ButtonInv
<1> QED  BY <1>1, <1>9, <1>10

LEMMA HandleKeeps ==
  ASSUME ButtonInv, Handle
  PROVE  ButtonInv'
<1>1. /\ calls # << >> /\ calls' = Tail(calls) /\ handled' = Head(calls)
      /\ UNCHANGED <<made, overflow, reports, ackCount, messages, acks, hostCount>>
  BY DEF Handle, firmwareVars
<1>2. /\ Tail(calls) \in Seq(Nat) /\ Head(calls) \in Nat /\ Head(calls) = calls[1]
      /\ Len(calls) = Len(Tail(calls)) + 1 /\ Len(Tail(calls)) \in Nat
      /\ \A k \in 1..Len(Tail(calls)) : k + 1 \in 1..Len(calls) /\ Tail(calls)[k] = calls[k + 1]
  BY <1>1, ButtonFacts
<1>3. ButtonTypes'
  BY <1>1, <1>2, ButtonFacts DEF ButtonTypes
<1>4. Counted'
  BY <1>1 DEF ButtonInv, Counted
<1>5. InPlace'
  <2> SUFFICES ASSUME ~overflow  PROVE InPlace'
    BY <1>1 DEF InPlace
  <2>1. /\ handled + Len(calls) = hostCount /\ \A k \in 1..Len(calls) : calls[k] = handled + k
    BY DEF ButtonInv, InPlace
  <2>2. Head(calls) = handled + 1
    BY <1>2, <2>1, ButtonFacts
  <2>3. Head(calls) + Len(Tail(calls)) = hostCount
    BY <1>2, <2>1, <2>2, ButtonFacts
  <2>4. ASSUME NEW k \in 1..Len(Tail(calls))  PROVE Tail(calls)[k] = Head(calls) + k
    <3>1. Tail(calls)[k] = handled + (k + 1)
      BY <1>2, <2>1
    <3> QED  BY <2>2, <3>1, ButtonFacts
  <2> QED  BY <1>1, <2>3, <2>4 DEF ButtonInv, InPlace
<1> QED  BY <1>3, <1>4, <1>5 DEF ButtonInv

\* The host takes exactly the changes that the firmware stored, in order and once, for
\* any size of the buffer, any number of lost messages and a count that wraps as long as
\* the buffer is less than half of its range (buttons.c:42-162, buttons.py:57-83).
THEOREM ButtonsAreTaken == ButtonSpec => []ChangesTaken
<1>1. ButtonInit => ButtonInv
  <2> SUFFICES ASSUME ButtonInit  PROVE ButtonInv
    OBVIOUS
  <2>1. /\ made = 0 /\ reports = << >> /\ ackCount = 0 /\ messages = << >> /\ acks = << >>
        /\ hostCount = 0 /\ calls = << >> /\ handled = 0 /\ overflow = FALSE
    BY DEF ButtonInit
  <2>2. ButtonTypes
    <3>1. << >> \in Seq(Nat) /\ << >> \in Seq(Messages) /\ FALSE \in BOOLEAN
      OBVIOUS
    <3> QED  BY <2>1, <3>1 DEF ButtonTypes
  <2>3. Sums(acks, ackCount, hostCount)
    BY <2>1, SumsEmpty
  <2>4. OnTheWay(messages, ackCount, hostCount, ackCount + Len(reports), overflow)
    BY <2>1, EmptyOnTheWay
  <2>5. Len(reports) = 0 /\ Len(calls) = 0
    BY <2>1
  <2>6. Counted
    BY <2>1, <2>3, <2>4, <2>5, ButtonNumbers DEF Counted
  <2>7. InPlace
    BY <2>1, <2>5 DEF InPlace
  <2> QED  BY <2>2, <2>6, <2>7 DEF ButtonInv
<1>2. ButtonInv /\ [ButtonNext]_buttonVars => ButtonInv'
  <2> SUFFICES ASSUME ButtonInv, [ButtonNext]_buttonVars  PROVE ButtonInv'
    OBVIOUS
  <2>1. CASE UNCHANGED buttonVars
    BY <2>1 DEF buttonVars, ButtonInv, ButtonTypes, Counted, InPlace
  <2> QED  BY <2>1, SampleKeeps, ReportKeepsCounts, AckKeeps, MessageKeeps, HandleKeeps DEF ButtonNext
<1>3. ButtonInv => ChangesTaken
  <2> SUFFICES ASSUME ButtonInv  PROVE ChangesTaken
    OBVIOUS
  <2>1. DOMAIN calls = 1..Len(calls) /\ DOMAIN reports = 1..Len(reports)
    BY ButtonFacts
  <2>2. HandledInOrder
    BY <2>1 DEF ButtonInv, Counted, InPlace, HandledInOrder
  <2>3. NothingDroppedUnseen
    <3> SUFFICES ASSUME ~overflow  PROVE reports = [i \in 1..(made - ackCount) |-> ackCount + i]
      BY DEF NothingDroppedUnseen
    <3>1. Len(reports) = made - ackCount
      BY ButtonFacts DEF ButtonInv, InPlace
    <3>2. \A k \in 1..Len(reports) : reports[k] = ackCount + k
      BY DEF ButtonInv, InPlace
    <3> QED  BY <2>1, <3>1, <3>2, ButtonFacts
  <2>4. LevelKnown
    <3> SUFFICES ASSUME reports = << >>, acks = << >>, calls = << >>, ~overflow
                 PROVE  handled = made
      BY DEF LevelKnown, pressed
    <3>1. Len(reports) = 0 /\ Len(calls) = 0 /\ Len(acks) = 0
      OBVIOUS
    <3>2. ackCount = made /\ handled = hostCount
      BY <3>1, ButtonFacts DEF ButtonInv, InPlace
    <3>3. ackCount = hostCount
      BY <3>1 DEF ButtonInv, Counted, Sums
    <3> QED  BY <3>2, <3>3
  <2> QED  BY <2>2, <2>3, <2>4 DEF ChangesTaken
<1> QED  BY <1>1, <1>2, <1>3, PTL DEF ButtonSpec

-----------------------------------------------------------------------------
(* The timers of the firmware. First clocks that wrap.                     *)

LEMMA ModIs ==
  ASSUME NEW m \in Nat \ {0}, NEW a \in Int, NEW k \in Int, NEW r \in 0..m - 1, a = m * k + r
  PROVE  a % m = r
<1>1. PICK q \in Int, s \in 0..m - 1 : a = m * q + s /\ s = a % m
  OBVIOUS
<1>2. CASE q >= k + 1
  <2>1. m * q >= m * (k + 1)
    BY <1>2
  <2>2. m * (k + 1) = m * k + m
    OBVIOUS
  <2> QED  BY <1>1, <2>1, <2>2
<1>3. CASE k >= q + 1
  <2>1. m * k >= m * (q + 1)
    BY <1>3
  <2>2. m * (q + 1) = m * q + m
    OBVIOUS
  <2> QED  BY <1>1, <2>1, <2>2
<1>4. CASE q = k
  <2>1. m * q = m * k /\ m * k \in Int
    BY <1>4
  <2> QED  BY <1>1, <2>1
<1> QED  BY <1>2, <1>3, <1>4

LEMMA WrapFacts ==
  /\ Wrap \in Nat \ {0} /\ Half \in Nat /\ Wrap = 2 * Half
  /\ Ahead \in Nat /\ Period \in Nat \ {0} /\ Latency \in Nat /\ Defer \in Nat
  /\ TooLate \in Nat \ {0} /\ Ahead + Period + Latency + 2 * (TooLate + Defer) < Half
  /\ Clocks = 0..Wrap - 1 /\ Half > 3
BY TimersAssumption DEF Half, Clocks

LEMMA WrapIs ==
  ASSUME NEW a \in Int
  PROVE  a \in -Wrap..2 * Wrap - 1 =>
            a % Wrap = IF a < 0 THEN a + Wrap ELSE IF a >= Wrap THEN a - Wrap ELSE a
<1>1. a \in 0..Wrap - 1 => a = Wrap * 0 + a
  BY WrapFacts
<1>2. -Wrap <= a /\ a < 0 => a + Wrap \in 0..Wrap - 1 /\ a = Wrap * (-1) + (a + Wrap)
  BY WrapFacts
<1>3. Wrap <= a /\ a < 2 * Wrap => a - Wrap \in 0..Wrap - 1 /\ a = Wrap * 1 + (a - Wrap)
  BY WrapFacts
<1>4. ASSUME a \in 0..Wrap - 1  PROVE a % Wrap = a
  BY <1>1, <1>4, WrapFacts, ModIs
<1>5. ASSUME -Wrap <= a, a < 0  PROVE a % Wrap = a + Wrap
  <2>1. PICK r \in 0..Wrap - 1 : r = a + Wrap /\ a = Wrap * (-1) + r
    BY <1>2, <1>5
  <2> QED  BY <2>1, WrapFacts, ModIs
<1>6. ASSUME Wrap <= a, a < 2 * Wrap  PROVE a % Wrap = a - Wrap
  <2>1. PICK r \in 0..Wrap - 1 : r = a - Wrap /\ a = Wrap * 1 + r
    BY <1>3, <1>6
  <2> QED  BY <2>1, WrapFacts, ModIs
<1> QED  BY <1>4, <1>5, <1>6, WrapFacts

\* How far the clock c is ahead of the time now.
OffAt(c, now) ==
    LET d == c - now IN IF d >= Half THEN d - Wrap ELSE IF d < -Half THEN d + Wrap ELSE d

LEMMA OffRange ==
  ASSUME NEW c \in Clocks, NEW now \in Clocks
  PROVE  OffAt(c, now) \in -Half..Half - 1
BY WrapFacts DEF OffAt

LEMMA OffNow ==
  ASSUME NEW now \in Clocks
  PROVE  OffAt(now, now) = 0
BY WrapFacts DEF OffAt

LEMMA BeforeIs ==
  ASSUME NEW c \in Clocks, NEW d \in Clocks, NEW now \in Clocks,
         OffAt(c, now) - OffAt(d, now) \in -Half..Half - 1
  PROVE  Before(c, d) <=> OffAt(c, now) < OffAt(d, now)
<1>1. c - d \in -Wrap..Wrap - 1 /\ c - d \in Int
  BY WrapFacts
<1>2. (c - d) % Wrap = IF c - d < 0 THEN c - d + Wrap ELSE c - d
  <2>1. PICK a \in -Wrap..2 * Wrap - 1 : a = c - d /\ a \in Int
    BY <1>1, WrapFacts
  <2>2. a % Wrap = IF a < 0 THEN a + Wrap ELSE IF a >= Wrap THEN a - Wrap ELSE a
    BY <2>1, WrapIs
  <2>3. a < Wrap
    BY <1>1, <2>1, WrapFacts
  <2> QED  BY <2>1, <2>2, <2>3, WrapFacts
<1>3. Before(c, d) <=> (IF c - d < 0 THEN c - d + Wrap ELSE c - d) >= Half
  BY <1>2 DEF Before
<1> QED  BY <1>3, WrapFacts DEF OffAt

LEMMA AfterIs ==
  ASSUME NEW c \in Clocks, NEW k \in -Half..Half, NEW now \in Clocks
  PROVE  /\ After(c, k) \in Clocks
         /\ OffAt(c, now) + k \in -Half..Half - 1 => OffAt(After(c, k), now) = OffAt(c, now) + k
<1>1. c + k \in -Wrap..2 * Wrap - 1 /\ c + k \in Int
  BY WrapFacts
<1>2. After(c, k) = IF c + k < 0 THEN c + k + Wrap ELSE IF c + k >= Wrap THEN c + k - Wrap ELSE c + k
  <2>1. PICK a \in -Wrap..2 * Wrap - 1 : a = c + k /\ a \in Int
    BY <1>1
  <2>2. a % Wrap = IF a < 0 THEN a + Wrap ELSE IF a >= Wrap THEN a - Wrap ELSE a
    BY <2>1, WrapIs
  <2>3. After(c, k) = a % Wrap
    BY <2>1 DEF After
  <2>4. After(c, k) = IF a < 0 THEN a + Wrap ELSE IF a >= Wrap THEN a - Wrap ELSE a
    BY <2>2, <2>3
  <2> QED  BY <2>1, <2>4, WrapFacts
<1>3. After(c, k) \in Clocks
  BY <1>1, <1>2, WrapFacts
<1>4. OffAt(c, now) + k \in -Half..Half - 1 => OffAt(After(c, k), now) = OffAt(c, now) + k
  BY <1>1, <1>2, <1>3, WrapFacts DEF OffAt
<1> QED  BY <1>3, <1>4

LEMMA NowPasses ==
  ASSUME NEW c \in Clocks, NEW now \in Clocks, OffAt(c, now) > -Half
  PROVE  After(now, 1) \in Clocks /\ OffAt(c, After(now, 1)) = OffAt(c, now) - 1
<1>1. After(now, 1) = IF now + 1 >= Wrap THEN now + 1 - Wrap ELSE now + 1
  <2>1. PICK a \in -Wrap..2 * Wrap - 1 : a = now + 1 /\ a \in Int
    BY WrapFacts
  <2>2. a % Wrap = IF a < 0 THEN a + Wrap ELSE IF a >= Wrap THEN a - Wrap ELSE a
    BY <2>1, WrapIs
  <2>3. After(now, 1) = a % Wrap /\ ~(a < 0)
    BY <2>1, WrapFacts DEF After
  <2>4. After(now, 1) = IF a >= Wrap THEN a - Wrap ELSE a
    BY <2>2, <2>3
  <2> QED  BY <2>1, <2>4, WrapFacts
<1>2. After(now, 1) \in Clocks
  BY <1>1, WrapFacts
<1> QED  BY <1>1, <1>2, WrapFacts DEF OffAt

\* The sentinel is before nothing that is before the periodic timer, and after all else.
LEMMA SentinelIs ==
  ASSUME NEW c \in Clocks, NEW p \in Clocks, NEW now \in Clocks,
         OffAt(c, now) - OffAt(p, now) \in -Half + 1..Half - 1
  PROVE  Before(c, After(p, Half)) <=> OffAt(p, now) <= OffAt(c, now)
<1>1. After(p, Half) = IF p + Half >= Wrap THEN p - Half ELSE p + Half
  <2>1. PICK a \in -Wrap..2 * Wrap - 1 : a = p + Half /\ a \in Int
    BY WrapFacts
  <2>2. a % Wrap = IF a < 0 THEN a + Wrap ELSE IF a >= Wrap THEN a - Wrap ELSE a
    BY <2>1, WrapIs
  <2>3. ~(a < 0) /\ a - Wrap = p - Half
    BY <2>1, WrapFacts
  <2>4. After(p, Half) = a % Wrap
    BY <2>1 DEF After
  <2> QED  BY <2>1, <2>2, <2>3, <2>4
<1>2. PICK s \in Clocks : s = After(p, Half)
  <2>1. After(p, Half) \in Clocks
    BY <1>1, WrapFacts
  <2> QED  BY <2>1
<1>3. c - s \in -Wrap..Wrap - 1 /\ c - s \in Int
  BY WrapFacts
<1>4. (c - s) % Wrap = IF c - s < 0 THEN c - s + Wrap ELSE c - s
  <2>1. PICK a \in -Wrap..2 * Wrap - 1 : a = c - s /\ a \in Int
    BY <1>3, WrapFacts
  <2>2. a % Wrap = IF a < 0 THEN a + Wrap ELSE IF a >= Wrap THEN a - Wrap ELSE a
    BY <2>1, WrapIs
  <2>3. a < Wrap
    BY <1>3, <2>1, WrapFacts
  <2> QED  BY <2>1, <2>2, <2>3, WrapFacts
<1>5. Before(c, s) <=> (IF c - s < 0 THEN c - s + Wrap ELSE c - s) >= Half
  BY <1>4 DEF Before
<1> QED  BY <1>1, <1>2, <1>5, WrapFacts DEF OffAt

-----------------------------------------------------------------------------
(* Lists of timers in the order of time.                                   *)

\* How late the head may be, and how far ahead any timer.
Overdue == Latency + TooLate + Defer
Latest == IF Ahead > Period THEN Ahead ELSE Period

LEMMA RangeFits ==
  /\ Overdue \in Nat \ {0} /\ Latest \in Nat \ {0}
  /\ Ahead <= Latest /\ Period <= Latest
  /\ Latest + TooLate + Defer + Overdue < Half
  /\ \A x, y \in -Overdue..Latest : x - y \in -Half + 1..Half - 1
<1>1. /\ Overdue \in Nat \ {0} /\ Latest \in Nat \ {0} /\ Ahead <= Latest /\ Period <= Latest
      /\ Latest + TooLate + Defer + Overdue < Half
  BY WrapFacts DEF Overdue, Latest
<1> QED  BY <1>1, WrapFacts

Linked(s) ==
    /\ s \in Seq(Nodes) /\ Len(s) >= 1 /\ s[Len(s)] = "sentinel"
    /\ \A i, j \in 1..Len(s) : s[i] = s[j] => i = j

TimesOrdered(s, times, now) ==
    /\ \A i \in 1..Len(s) - 1 : OffAt(times[s[i]], now) \in -Overdue..Latest
    /\ \A i, j \in 1..Len(s) - 1 :
          i <= j => OffAt(times[s[i]], now) <= OffAt(times[s[j]], now)

\* What remains of a list is one, when the sentinel remains: the places m.
PartOf(r, m, s) ==
    /\ r \in Seq(Nodes) /\ m \in Seq(1..Len(s)) /\ Len(r) >= 1 /\ Len(m) = Len(r)
    /\ \A k \in 1..Len(m) : m[k] \in 1..Len(s) /\ r[k] = s[m[k]]
    /\ \A k, l \in 1..Len(m) : k < l => m[k] < m[l]
    /\ m[Len(m)] = Len(s)

Agree(later, times, r) == \A k \in 1..Len(r) - 1 : later[r[k]] = times[r[k]]

LEMMA PartInTime ==
  ASSUME NEW s, NEW times, NEW now, Linked(s), TimesOrdered(s, times, now),
         NEW r, NEW m, PartOf(r, m, s), NEW later, Agree(later, times, r)
  PROVE  Linked(r) /\ TimesOrdered(r, later, now)
<1> USE DEF PartOf, Agree
<1>1. Len(s) \in Nat /\ Len(r) \in Nat /\ Len(r) >= 1
  BY DEF Linked
<1>2. Linked(r)
  <2>1. r[Len(r)] = "sentinel"
    BY <1>1 DEF Linked
  <2>2. ASSUME NEW i \in 1..Len(r), NEW j \in 1..Len(r), r[i] = r[j]  PROVE i = j
    <3>1. m[i] = m[j] /\ m[i] \in 1..Len(s)
      BY <2>2 DEF Linked
    <3>2. ~(i < j) /\ ~(j < i)
      BY <1>1, <3>1
    <3> QED  BY <1>1, <3>2
  <2> QED  BY <1>1, <2>1, <2>2 DEF Linked
<1>3. \A k \in 1..Len(r) - 1 : m[k] \in 1..Len(s) - 1
  <2> TAKE k \in 1..Len(r) - 1
  <2>1. k \in 1..Len(m) /\ Len(m) \in 1..Len(m) /\ k < Len(m)
    BY <1>1
  <2>2. m[k] < m[Len(m)] /\ m[k] \in 1..Len(s)
    BY <2>1
  <2> QED  BY <1>1, <2>2
<1>4. \A k \in 1..Len(r) - 1 : later[r[k]] = times[s[m[k]]]
  <2> TAKE k \in 1..Len(r) - 1
  <2>1. k \in 1..Len(m)
    BY <1>1
  <2>2. r[k] = s[m[k]]
    BY <2>1
  <2>3. later[r[k]] = times[r[k]]
    OBVIOUS
  <2> QED  BY <2>2, <2>3
<1>5. ASSUME NEW i \in 1..Len(r) - 1, NEW j \in 1..Len(r) - 1, i <= j
      PROVE  m[i] <= m[j]
  <2>1. i \in 1..Len(m) /\ j \in 1..Len(m)
    BY <1>1
  <2>2. i = j \/ i < j
    BY <1>1, <1>5
  <2>3. m[i] \in Int /\ m[j] \in Int
    BY <1>1, <2>1
  <2> QED  BY <2>1, <2>2, <2>3
<1>6. TimesOrdered(r, later, now)
  BY <1>3, <1>4, <1>5 DEF TimesOrdered
<1> QED  BY <1>2, <1>6

\* insert_timer finds a timer that is later, the sentinel if no other is.
LEMMA LaterIsListed ==
  ASSUME NEW s, NEW times \in [Nodes -> Clocks], NEW now \in Clocks,
         Linked(s), TimesOrdered(s, times, now),
         times["sentinel"] = After(times["periodic"], Half),
         NEW q \in 1..Len(s), s[q] = "periodic",
         NEW p \in 0..Len(s) - 1, NEW w \in Clocks, OffAt(w, now) \in -Overdue..Latest,
         p > 0 => OffAt(times[s[p]], now) <= OffAt(w, now)
  PROVE  \E i \in p + 1..Len(s) : Before(w, times[s[i]])
<1> DEFINE o(i) == OffAt(times[s[i]], now)
           v == OffAt(w, now)
<1>1. Len(s) \in Nat /\ \A i \in 1..Len(s) : s[i] \in Nodes /\ times[s[i]] \in Clocks
  BY DEF Linked
<1>2. q \in 1..Len(s) - 1
  BY <1>1 DEF Linked
<1>3. o(q) \in -Overdue..Latest
  BY <1>2 DEF TimesOrdered
<1>4. Before(w, times[s[q]]) <=> v < o(q)
  <2>1. PICK c \in Clocks : c = times[s[q]]
    BY <1>1
  <2>2. OffAt(w, now) - OffAt(c, now) \in -Half..Half - 1
    BY <1>3, <2>1, RangeFits, WrapFacts
  <2> QED  BY <2>1, <2>2, BeforeIs
<1>5. Before(w, times["sentinel"]) <=> o(q) <= v
  <2>1. PICK c \in Clocks : c = times["periodic"]
    BY <1>1
  <2>2. OffAt(w, now) - OffAt(c, now) \in -Half + 1..Half - 1
    BY <1>3, <2>1, RangeFits
  <2> QED  BY <2>1, <2>2, SentinelIs
<1>6. Len(s) \in p + 1..Len(s) /\ s[Len(s)] = "sentinel"
  BY <1>1 DEF Linked
<1>7. CASE o(q) <= v
  BY <1>5, <1>6, <1>7
<1>8. CASE v < o(q)
  <2>1. ~(q <= p)
    <3> SUFFICES ASSUME q <= p  PROVE FALSE
      OBVIOUS
    <3>1. p \in 1..Len(s) - 1 /\ o(p) <= v
      BY <1>1
    <3>2. o(q) <= o(p) /\ o(p) \in -Overdue..Latest
      BY <1>2, <3>1 DEF TimesOrdered
    <3> HIDE DEF o, v
    <3> QED  BY <1>3, <1>8, <3>1, <3>2, RangeFits, OffRange DEF v
  <2>2. q \in p + 1..Len(s)
    BY <1>1, <2>1
  <2> QED  BY <1>4, <1>8, <2>2
<1>9. v \in Int /\ o(q) \in Int
  BY <1>3, RangeFits
<1> HIDE DEF o, v
<1> QED  BY <1>7, <1>8, <1>9

\* The timer t, which is due at w, can be put into the list s behind place p.
Insertable(s, p, t, w, times, now) ==
    /\ times \in [Nodes -> Clocks] /\ now \in Clocks
    /\ Linked(s) /\ TimesOrdered(s, times, now)
    /\ p \in 0..Len(s) - 1 /\ w \in Clocks /\ OffAt(w, now) \in -Overdue..Latest
    /\ p > 0 => OffAt(times[s[p]], now) <= OffAt(w, now)
    /\ \E i \in p + 1..Len(s) : Before(w, times[s[i]])
    /\ t \in Nodes \ {"sentinel", "deleted"} /\ \A i \in 1..Len(s) : s[i] # t

\* What insert_timer makes of a list.
LEMMA InsertedInTime ==
  ASSUME NEW s, NEW p, NEW t, NEW w, NEW times, NEW now, Insertable(s, p, t, w, times, now)
  PROVE  \E at \in p + 1..Len(s) :
            /\ Inserted(s, p, t, w, times) = InsertAt(s, at, t)
            /\ Before(w, times[s[at]])
            /\ Linked(InsertAt(s, at, t))
            /\ \A later : /\ later[t] = w
                          /\ \A i \in 1..Len(s) - 1 : later[s[i]] = times[s[i]]
                          => TimesOrdered(InsertAt(s, at, t), later, now)
<1> DEFINE o(i) == OffAt(times[s[i]], now)
           v == OffAt(w, now)
           behind == {i \in p + 1..Len(s) : Before(w, times[s[i]])}
           at == CHOOSE i \in behind : \A j \in behind : i <= j
           r == InsertAt(s, at, t)
           n == Len(s)
<1> USE DEF Insertable
<1>1. s \in Seq(Nodes) /\ n \in Nat /\ \A i \in 1..n : s[i] \in Nodes /\ times[s[i]] \in Clocks
  BY DEF Linked
<1>2. at \in behind /\ \A j \in behind : at <= j
  <2>1. behind \subseteq Nat /\ behind # {}
    BY <1>1
  <2> HIDE DEF behind
  <2>2. \E i \in behind : \A j \in behind : i <= j
    BY <2>1, LeastNat
  <2> QED  BY <2>2
<1>3. Inserted(s, p, t, w, times) = r
  BY DEF Inserted
<1> HIDE DEF at, r
<1>4. /\ at \in p + 1..n /\ Before(w, times[s[at]])
      /\ \A j \in p + 1..n : Before(w, times[s[j]]) => at <= j
  BY <1>2
<1>5. \A i \in 1..n - 1 : o(i) \in -Overdue..Latest /\ o(i) \in Int /\ v \in Int
  BY RangeFits DEF TimesOrdered
<1>6. \A i, j \in 1..n - 1 : i <= j => o(i) <= o(j)
  BY DEF TimesOrdered
<1>7. ASSUME NEW i \in 1..n - 1  PROVE Before(w, times[s[i]]) <=> v < o(i)
  <2>1. PICK c \in Clocks : c = times[s[i]]
    BY <1>1
  <2>2. OffAt(c, now) \in -Overdue..Latest
    BY <1>5, <2>1
  <2>3. OffAt(w, now) - OffAt(c, now) \in -Half..Half - 1
    <3>1. PICK x \in -Overdue..Latest, y \in -Overdue..Latest :
             x = OffAt(w, now) /\ y = OffAt(c, now)
      BY <2>2
    <3>2. x - y \in -Half + 1..Half - 1
      BY RangeFits
    <3> QED  BY <3>1, <3>2, WrapFacts
  <2> QED  BY <2>1, <2>3, BeforeIs
<1> HIDE DEF behind, o, v
<1>8. ASSUME NEW i \in 1..n - 1, i < at  PROVE o(i) <= v
  <2>1. CASE i <= p
    <3>1. p > 0 /\ p \in 1..n - 1
      BY <1>1, <2>1
    <3>2. o(p) <= v /\ o(i) <= o(p)
      BY <1>6, <2>1, <3>1 DEF o, v
    <3> QED  BY <1>5, <3>1, <3>2
  <2>2. CASE ~(i <= p)
    <3>1. i \in p + 1..n /\ ~(at <= i)
      BY <1>1, <1>4, <1>8, <2>2
    <3>2. ~(v < o(i))
      BY <1>4, <1>7, <3>1
    <3> QED  BY <1>5, <3>2
  <2> QED  BY <2>1, <2>2
<1>9. ASSUME NEW i \in 1..n - 1, at <= i  PROVE v <= o(i)
  <2>1. at \in 1..n - 1
    BY <1>1, <1>4, <1>9
  <2>2. v < o(at) /\ o(at) <= o(i)
    BY <1>4, <1>6, <1>7, <1>9, <2>1
  <2> QED  BY <1>5, <2>1, <2>2
<1>10. /\ r \in Seq(Nodes) /\ Len(r) = n + 1
       /\ \A k \in 1..at - 1 : r[k] = s[k]
       /\ r[at] = t
       /\ \A k \in at + 1..n + 1 : r[k] = s[k - 1]
  <2>1. at \in 1..n + 1
    BY <1>1, <1>4
  <2>2. PICK a \in 1..Len(s) + 1 : a = at
    BY <2>1 DEF n
  <2> HIDE DEF n
  <2>3. /\ InsertAt(s, a, t) \in Seq(Nodes) /\ Len(InsertAt(s, a, t)) = Len(s) + 1
        /\ \A k \in 1..a - 1 : InsertAt(s, a, t)[k] = s[k]
        /\ InsertAt(s, a, t)[a] = t
        /\ \A k \in a + 1..Len(s) + 1 : InsertAt(s, a, t)[k] = s[k - 1]
    BY <1>1, InsertedFacts
  <2> QED  BY <2>2, <2>3 DEF r, n
<1> DEFINE from(k) == IF k < at THEN k ELSE k - 1
<1>11. at \in 1..n /\ at \in Int
  BY <1>1, <1>4
<1>12. \A k \in 1..n + 1 : k # at => r[k] = s[from(k)] /\ from(k) \in 1..n
  <2> TAKE k \in 1..n + 1
  <2>1. CASE k < at
    <3>1. k \in 1..at - 1 /\ k \in 1..n
      BY <1>11, <1>1, <2>1
    <3> QED  BY <1>10, <2>1, <3>1
  <2>2. CASE k > at
    <3>1. k \in at + 1..n + 1 /\ ~(k < at) /\ k - 1 \in 1..n
      BY <1>11, <1>1, <2>2
    <3> QED  BY <1>10, <3>1
  <2> QED  BY <1>1, <1>11, <2>1, <2>2
<1>13. Linked(r)
  <2>1. r[n + 1] = "sentinel"
    <3>1. n + 1 \in at + 1..n + 1 /\ n + 1 - 1 = n
      BY <1>1, <1>11
    <3> QED  BY <1>10, <3>1 DEF Linked
  <2>2. ASSUME NEW i \in 1..n + 1, NEW j \in 1..n + 1, r[i] = r[j]  PROVE i = j
    <3>1. CASE i = at \/ j = at
      <4>1. \A k \in 1..n + 1 : k # at => r[k] # t
        BY <1>12
      <4> QED  BY <1>10, <2>2, <3>1, <4>1
    <3>2. CASE i # at /\ j # at
      <4>1. from(i) = from(j)
        BY <1>12, <2>2, <3>2 DEF Linked
      <4> QED  BY <1>11, <3>2, <4>1
    <3> QED  BY <3>1, <3>2
  <2> QED  BY <1>1, <1>10, <2>1, <2>2 DEF Linked
<1>14. ASSUME NEW later, later[t] = w, \A i \in 1..n - 1 : later[s[i]] = times[s[i]]
       PROVE  TimesOrdered(r, later, now)
  <2> DEFINE x(k) == OffAt(later[r[k]], now)
  <2>1. x(at) = v
    BY <1>10, <1>14 DEF v
  <2>2. \A k \in 1..n : k # at => from(k) \in 1..n - 1
    BY <1>1, <1>11
  <2>3. \A k \in 1..n : k # at => x(k) = o(from(k))
    <3> TAKE k \in 1..n
    <3>1. k \in 1..n + 1
      BY <1>1
    <3>2. k # at => from(k) \in 1..n - 1 /\ r[k] = s[from(k)]
      BY <1>12, <2>2, <3>1
    <3> HIDE DEF from
    <3> QED  BY <1>14, <3>2 DEF o
  <2> HIDE DEF x
  <2>4. v \in -Overdue..Latest /\ v \in Int
    BY RangeFits DEF v
  <2>5. \A k \in 1..n : x(k) \in -Overdue..Latest
    <3> TAKE k \in 1..n
    <3>1. CASE k = at
      BY <2>1, <2>4, <3>1
    <3>2. CASE k # at
      <4> HIDE DEF from
      <4> QED  BY <1>5, <2>2, <2>3, <3>2
    <3> QED  BY <3>1, <3>2
  <2>6. ASSUME NEW i \in 1..n, NEW j \in 1..n, i <= j  PROVE x(i) <= x(j)
    <3>1. CASE i = j
      <4>1. x(i) \in Int
        BY <2>5, RangeFits
      <4> QED  BY <3>1, <4>1
    <3>2. CASE i # at /\ j # at
      <4>1. from(i) <= from(j)
        BY <1>11, <2>6, <3>2
      <4> HIDE DEF from
      <4> QED  BY <1>6, <2>2, <2>3, <3>2, <4>1
    <3>3. CASE i # at /\ j = at
      <4>1. from(i) = i /\ i < at
        BY <1>11, <2>6, <3>3
      <4>2. i \in 1..n - 1
        BY <1>11, <1>1, <4>1
      <4> HIDE DEF from
      <4> QED  BY <1>8, <2>1, <2>3, <3>3, <4>1, <4>2
    <3>4. CASE i = at /\ j # at
      <4>1. from(j) = j - 1 /\ at <= j - 1
        BY <1>11, <2>6, <3>4
      <4>2. j - 1 \in 1..n - 1
        BY <1>11, <1>1, <4>1
      <4>3. x(j) = o(j - 1)
        BY <2>3, <3>4, <4>1
      <4> HIDE DEF from
      <4> QED  BY <1>9, <2>1, <3>4, <4>1, <4>2, <4>3
    <3> QED  BY <3>1, <3>2, <3>3, <3>4
  <2>7. Len(r) - 1 = n
    BY <1>1, <1>10
  <2> QED  BY <2>5, <2>6, <2>7 DEF TimesOrdered, x
<1> QED  BY <1>3, <1>4, <1>13, <1>14 DEF r, n

-----------------------------------------------------------------------------
(* The inductive invariant of the timers.                                  *)

\* A list of timers with their times and the place of the last insertion.
Listing(s, times, last, now) ==
    /\ times \in [Nodes -> Clocks] /\ last \in Users \cup {"periodic"}
    /\ Linked(s) /\ TimesOrdered(s, times, now)
    /\ \E i \in 1..Len(s) : s[i] = "periodic"
    /\ \E i \in 1..Len(s) : s[i] = last
    /\ \A i \in 2..Len(s) : s[i] # "deleted"
    /\ times["sentinel"] = After(times["periodic"], Half)

\* The hardware is set to a for the head, which is due at w or the stand-in.
Armed(a, w, standIn, now) ==
    /\ a \in Clocks
    /\ OffAt(a, now) \in -Overdue..Latest + TooLate + Defer
    /\ OffAt(a, now) <= OffAt(w, now) + TooLate + Defer
    /\ standIn \/ OffAt(w, now) <= OffAt(a, now)

TimerInv ==
    /\ ticks \in Clocks
    /\ Listing(timerList, wake, lastInsert, ticks)
    /\ Armed(alarm, wake[timerList[1]], timerList[1] = "deleted", ticks)

LEMMA NodeFacts ==
  /\ "periodic" \in Nodes /\ "sentinel" \in Nodes /\ "deleted" \in Nodes
  /\ Users \subseteq Nodes /\ {"periodic", "sentinel", "deleted"} \cap Users = {}
BY TimersAssumption DEF Nodes

LEMMA ListingFacts ==
  ASSUME NEW s, NEW times, NEW last, NEW now \in Clocks, Listing(s, times, last, now)
  PROVE  /\ s \in Seq(Nodes) /\ Len(s) \in Nat /\ Len(s) >= 2 /\ Head(s) = s[1]
         /\ \A i \in 1..Len(s) : s[i] \in Nodes /\ times[s[i]] \in Clocks
         /\ \A i \in 1..Len(s) - 1 : s[i] # "sentinel"
         /\ s[Len(s)] = "sentinel"
         /\ \A i, j \in 1..Len(s) : s[i] = s[j] => i = j
         /\ \A i \in 1..Len(s) - 1 :
               /\ OffAt(times[s[i]], now) \in -Overdue..Latest
               /\ OffAt(times[s[i]], now) \in Int
               /\ OffAt(times[s[1]], now) <= OffAt(times[s[i]], now)
         /\ \E q \in 1..Len(s) - 1 : s[q] = "periodic"
         /\ \E q \in 1..Len(s) - 1 : s[q] = last
         /\ times["periodic"] \in Clocks /\ OffAt(times["periodic"], now) \in -Overdue..Latest
<1>1. /\ s \in Seq(Nodes) /\ Len(s) \in Nat /\ Len(s) >= 1 /\ s[Len(s)] = "sentinel"
      /\ \A i, j \in 1..Len(s) : s[i] = s[j] => i = j
      /\ \A i \in 1..Len(s) : s[i] \in Nodes /\ times[s[i]] \in Clocks
  BY DEF Listing, Linked
<1>2. PICK q \in 1..Len(s) : s[q] = "periodic"
  BY DEF Listing
<1>3. PICK l \in 1..Len(s) : s[l] = last
  BY DEF Listing
<1>4. last # "sentinel"
  BY NodeFacts DEF Listing
<1>5. q # Len(s) /\ l # Len(s)
  BY <1>1, <1>2, <1>3, <1>4
<1>6. q \in 1..Len(s) - 1 /\ l \in 1..Len(s) - 1 /\ Len(s) >= 2
  BY <1>1, <1>5
<1>7. \A i \in 1..Len(s) - 1 : s[i] # "sentinel"
  <2> TAKE i \in 1..Len(s) - 1
  <2>1. i \in 1..Len(s) /\ Len(s) \in 1..Len(s) /\ i # Len(s)
    BY <1>1
  <2> QED  BY <1>1, <2>1
<1>8. \A i \in 1..Len(s) - 1 :
         /\ OffAt(times[s[i]], now) \in -Overdue..Latest
         /\ OffAt(times[s[i]], now) \in Int
         /\ OffAt(times[s[1]], now) <= OffAt(times[s[i]], now)
  <2> TAKE i \in 1..Len(s) - 1
  <2>1. OffAt(times[s[i]], now) \in -Overdue..Latest
    BY DEF Listing, TimesOrdered
  <2>2. 1 \in 1..Len(s) - 1 /\ 1 <= i
    BY <1>1, <1>6
  <2>3. OffAt(times[s[1]], now) <= OffAt(times[s[i]], now)
    BY <2>2 DEF Listing, TimesOrdered
  <2>4. OffAt(times[s[i]], now) \in Int
    BY <2>1, RangeFits
  <2> QED  BY <2>1, <2>3, <2>4
<1>9. Head(s) = s[1]
  BY <1>1
<1>10. times["periodic"] \in Clocks /\ OffAt(times["periodic"], now) \in -Overdue..Latest
  BY <1>1, <1>2, <1>6, <1>8
<1> QED  BY <1>1, <1>2, <1>3, <1>6, <1>7, <1>8, <1>9, <1>10

LEMMA DueIs ==
  ASSUME NEW c \in Clocks, ticks \in Clocks, OffAt(c, ticks) \in -Half + 1..Half - 1
  PROVE  Due(c) <=> OffAt(c, ticks) <= 0
<1>1. OffAt(ticks, ticks) = 0
  BY OffNow
<1>2. OffAt(ticks, ticks) - OffAt(c, ticks) \in -Half..Half - 1
  BY <1>1, WrapFacts
<1>3. Before(ticks, c) <=> OffAt(ticks, ticks) < OffAt(c, ticks)
  BY <1>2, BeforeIs
<1> QED  BY <1>1, <1>3, WrapFacts DEF Due

LEMMA SetAlarmFacts ==
  ASSUME ticks \in Clocks, NEW next \in Clocks, OffAt(next, ticks) \in -Overdue..Latest,
         SetAlarm(next)
  PROVE  Armed(alarm', next, FALSE, ticks)
<1> DEFINE o == OffAt(next, ticks)
<1>1. o \in Int /\ o >= -Overdue /\ o <= Latest
  BY RangeFits
<1>2. CASE alarm' = next
  <2>1. OffAt(alarm', ticks) = o
    BY <1>2
  <2> HIDE DEF o
  <2>2. /\ o \in -Overdue..Latest + TooLate + Defer
        /\ o <= o + TooLate + Defer /\ o <= o
    BY <1>1, RangeFits, WrapFacts
  <2> QED  BY <1>2, <2>1, <2>2 DEF Armed, o
<1>3. CASE /\ Due(next) /\ ~Before(After(next, TooLate), ticks)
           /\ alarm' = After(ticks, Defer)
  <2>1. o <= 0
    BY <1>1, <1>3, DueIs, RangeFits, WrapFacts
  <2>2. o + TooLate >= 0
    <3>1. TooLate \in -Half..Half /\ o + TooLate \in -Half..Half - 1
      BY <1>1, <2>1, RangeFits, WrapFacts
    <3>2. PICK k \in -Half..Half : k = TooLate
      BY <3>1
    <3>3. After(next, k) \in Clocks /\ OffAt(After(next, k), ticks) = o + k
      BY <3>1, <3>2, AfterIs
    <3>4. PICK c \in Clocks : c = After(next, k)
      BY <3>3
    <3>5. OffAt(ticks, ticks) = 0
      BY OffNow
    <3>6. OffAt(c, ticks) - OffAt(ticks, ticks) \in -Half..Half - 1
      BY <3>1, <3>2, <3>3, <3>4, <3>5
    <3>7. ~(OffAt(c, ticks) < OffAt(ticks, ticks))
      BY <1>3, <3>2, <3>4, <3>6, BeforeIs
    <3> QED  BY <1>1, <3>1, <3>2, <3>3, <3>4, <3>5, <3>7
  <2>3. alarm' \in Clocks /\ OffAt(alarm', ticks) = Defer
    <3>1. OffAt(ticks, ticks) = 0
      BY OffNow
    <3>2. PICK k \in -Half..Half : k = Defer
      BY WrapFacts
    <3>3. OffAt(ticks, ticks) + k \in -Half..Half - 1 /\ OffAt(ticks, ticks) + k = k
      BY <3>1, <3>2, WrapFacts
    <3>4. After(ticks, k) \in Clocks /\ OffAt(After(ticks, k), ticks) = OffAt(ticks, ticks) + k
      BY <3>3, AfterIs
    <3> QED  BY <1>3, <3>2, <3>3, <3>4
  <2> HIDE DEF o
  <2>4. /\ Defer \in -Overdue..Latest + TooLate + Defer
        /\ Defer <= o + TooLate + Defer /\ o <= Defer
    BY <1>1, <2>1, <2>2, RangeFits, WrapFacts
  <2> QED  BY <2>3, <2>4 DEF Armed, o
<1> QED  BY <1>2, <1>3 DEF SetAlarm

LEMMA KickFacts ==
  ASSUME ticks \in Clocks, NEW w, NEW standIn, Armed(alarm, w, standIn, ticks),
         OffAt(w, ticks) \in -Overdue..Latest, Kick
  PROVE  /\ alarm' \in Clocks /\ OffAt(alarm', ticks) \in -Overdue..0
         /\ OffAt(alarm', ticks) <= OffAt(w, ticks) + TooLate + Defer
<1>1. OffAt(alarm, ticks) \in -Half + 1..Half - 1
  BY RangeFits, WrapFacts DEF Armed
<1>2. Due(alarm) <=> OffAt(alarm, ticks) <= 0
  BY <1>1, DueIs DEF Armed
<1>3. CASE Due(alarm)
  <2>1. alarm' = alarm
    BY <1>3 DEF Kick
  <2> QED  BY <1>2, <1>3, <2>1, RangeFits, WrapFacts DEF Armed
<1>4. CASE ~Due(alarm)
  <2>1. alarm' = ticks /\ OffAt(alarm', ticks) = 0
    BY <1>4, OffNow DEF Kick
  <2> QED  BY <1>2, <1>4, <2>1, RangeFits, WrapFacts DEF Armed
<1> QED  BY <1>3, <1>4

LEMMA WantedFacts ==
  ASSUME ticks \in Clocks, NEW w \in WantedTimes
  PROVE  /\ w \in Clocks /\ OffAt(w, ticks) \in -1..Ahead /\ OffAt(w, ticks) \in -Overdue..Latest
<1>1. PICK d \in -1..Ahead : w = After(ticks, d)
  BY DEF WantedTimes
<1>2. d \in -Half..Half /\ d \in -Half..Half - 1
  BY WrapFacts
<1>3. OffAt(ticks, ticks) = 0
  BY OffNow
<1>4. OffAt(ticks, ticks) + d = d /\ OffAt(ticks, ticks) + d \in -Half..Half - 1
  BY <1>2, <1>3
<1>5. After(ticks, d) \in Clocks /\ OffAt(After(ticks, d), ticks) = OffAt(ticks, ticks) + d
  BY <1>2, <1>4, AfterIs
<1>6. d \in -Overdue..Latest
  BY RangeFits, WrapFacts
<1> QED  BY <1>1, <1>4, <1>5, <1>6

\* A list without its head.
LEMMA TailInTime ==
  ASSUME NEW s, NEW times, NEW now, Linked(s), TimesOrdered(s, times, now), Len(s) >= 2,
         NEW later, \A i \in 2..Len(s) - 1 : later[s[i]] = times[s[i]]
  PROVE  /\ Linked(Tail(s)) /\ TimesOrdered(Tail(s), later, now) /\ Len(Tail(s)) = Len(s) - 1
         /\ \A k \in 1..Len(s) - 1 : Tail(s)[k] = s[k + 1]
<1>1. /\ Tail(s) \in Seq(Nodes) /\ Len(Tail(s)) = Len(s) - 1 /\ Len(s) \in Nat
      /\ \A k \in 1..Len(s) - 1 : Tail(s)[k] = s[k + 1]
  BY TailFacts DEF Linked
<1>2. PICK m \in Seq(1..Len(s)) :
         Len(m) = Len(s) - 1 /\ \A k \in 1..Len(s) - 1 : m[k] = k + 1
  <2> DEFINE next == [k \in 1..Len(s) - 1 |-> k + 1]
  <2>1. /\ next \in Seq(1..Len(s)) /\ Len(next) = Len(s) - 1
        /\ \A k \in 1..Len(s) - 1 : next[k] = k + 1
    BY <1>1
  <2> HIDE DEF next
  <2> QED  BY <2>1
<1>3. /\ \A k \in 1..Len(m) : m[k] \in 1..Len(s) /\ Tail(s)[k] = s[m[k]]
      /\ \A k, l \in 1..Len(m) : k < l => m[k] < m[l]
      /\ m[Len(m)] = Len(s)
  BY <1>1, <1>2
<1>4. \A k \in 1..Len(Tail(s)) - 1 : later[Tail(s)[k]] = times[Tail(s)[k]]
  <2> TAKE k \in 1..Len(Tail(s)) - 1
  <2>1. k + 1 \in 2..Len(s) - 1 /\ k \in 1..Len(s) - 1
    BY <1>1
  <2>2. Tail(s)[k] = s[k + 1]
    BY <1>1, <2>1
  <2>3. later[s[k + 1]] = times[s[k + 1]]
    BY <2>1
  <2> QED  BY <2>2, <2>3
<1>5. PICK r \in Seq(Nodes) : r = Tail(s)
  BY <1>1
<1>6. /\ Len(r) >= 1 /\ Len(m) = Len(r) /\ m \in Seq(1..Len(s))
      /\ \A k \in 1..Len(m) : m[k] \in 1..Len(s) /\ r[k] = s[m[k]]
      /\ \A k \in 1..Len(r) - 1 : later[r[k]] = times[r[k]]
  BY <1>1, <1>2, <1>3, <1>4, <1>5
<1>7. PartOf(r, m, s) /\ Agree(later, times, r)
  BY <1>3, <1>5, <1>6 DEF PartOf, Agree
<1>8. Linked(r) /\ TimesOrdered(r, later, now)
  BY <1>7, PartInTime
<1> QED  BY <1>1, <1>5, <1>8

\* Timers that are not in T keep their times.
TimesKept(later, times, s, T) ==
    \A i \in 1..Len(s) - 1 : s[i] \notin T => later[s[i]] = times[s[i]]

\* A list without some of its timers.
LEMMA RemainingInTime ==
  ASSUME NEW s, NEW times, NEW now, Linked(s), TimesOrdered(s, times, now),
         NEW T, "sentinel" \notin T, NEW later, TimesKept(later, times, s, T)
  PROVE  /\ Linked(Remaining(s, T)) /\ TimesOrdered(Remaining(s, T), later, now)
         /\ \A i \in 1..Len(s) : s[i] \notin T =>
               \E k \in 1..Len(Remaining(s, T)) : Remaining(s, T)[k] = s[i] /\ k <= i
         /\ \A k \in 1..Len(Remaining(s, T)) :
               \E i \in 1..Len(s) : i >= k /\ s[i] = Remaining(s, T)[k] /\ s[i] \notin T
         /\ s[1] \notin T => Remaining(s, T)[1] = s[1]
<1> USE DEF TimesKept
<1>1. s \in Seq(Nodes) /\ Len(s) \in Nat /\ Len(s) >= 1 /\ s[Len(s)] = "sentinel"
  BY DEF Linked
<1>2. /\ Remaining(s, T) \in Seq(Nodes)
      /\ \E m \in Seq(1..Len(s)) :
           /\ Len(m) = Len(Remaining(s, T))
           /\ \A k \in 1..Len(m) : /\ m[k] \in 1..Len(s) /\ s[m[k]] \notin T
                                   /\ Remaining(s, T)[k] = s[m[k]]
           /\ \A k, l \in 1..Len(m) : k < l => m[k] < m[l]
           /\ \A i \in 1..Len(s) : s[i] \notin T => \E k \in 1..Len(m) : m[k] = i
  <2>1. s \in Seq(Nodes)
    BY <1>1
  <2> QED  BY <2>1, RemainingFacts
<1>3. PICK r \in Seq(Nodes) : r = Remaining(s, T)
  BY <1>2
<1>4. PICK m \in Seq(1..Len(s)) :
        /\ Len(m) = Len(r)
        /\ \A k \in 1..Len(m) : m[k] \in 1..Len(s) /\ s[m[k]] \notin T /\ r[k] = s[m[k]]
        /\ \A k, l \in 1..Len(m) : k < l => m[k] < m[l]
        /\ \A i \in 1..Len(s) : s[i] \notin T => \E k \in 1..Len(m) : m[k] = i
  BY <1>2, <1>3
<1>5. Len(m) \in Nat /\ Len(m) >= 1 /\ m[Len(m)] = Len(s)
  <2>1. Len(m) \in Nat
    OBVIOUS
  <2>2. PICK k \in 1..Len(m) : m[k] = Len(s)
    <3>1. Len(s) \in 1..Len(s) /\ s[Len(s)] \notin T
      BY <1>1
    <3> QED  BY <1>4, <3>1
  <2>3. Len(m) >= 1 /\ Len(m) \in 1..Len(m)
    BY <2>1, <2>2
  <2>4. m[Len(m)] \in 1..Len(s) /\ (k < Len(m) => m[k] < m[Len(m)])
    BY <1>4, <2>3
  <2> QED  BY <1>1, <2>1, <2>2, <2>3, <2>4
<1>6. \A k \in 1..Len(r) - 1 : later[r[k]] = times[r[k]]
  <2> TAKE k \in 1..Len(r) - 1
  <2>1. k \in 1..Len(m) /\ Len(m) \in 1..Len(m) /\ k < Len(m)
    BY <1>4, <1>5
  <2>2. m[k] \in 1..Len(s) /\ m[k] < Len(s) /\ s[m[k]] \notin T /\ r[k] = s[m[k]]
    BY <1>4, <1>5, <2>1
  <2>3. PICK i \in 1..Len(s) - 1 : i = m[k]
    BY <1>1, <2>2
  <2>4. s[i] \notin T /\ r[k] = s[i]
    BY <2>2, <2>3
  <2>5. later[s[i]] = times[s[i]]
    BY <2>4
  <2> QED  BY <2>4, <2>5
<1>7. Linked(r) /\ TimesOrdered(r, later, now)
  <2>1. /\ Len(r) >= 1 /\ Len(m) = Len(r)
        /\ \A k \in 1..Len(m) : m[k] \in 1..Len(s) /\ r[k] = s[m[k]]
        /\ \A k, l \in 1..Len(m) : k < l => m[k] < m[l]
    BY <1>4, <1>5
  <2>2. PartOf(r, m, s) /\ Agree(later, times, r)
    BY <1>5, <1>6, <2>1 DEF PartOf, Agree
  <2> QED  BY <2>2, PartInTime
<1>8. \A k \in 1..Len(m) : m[k] >= k
  <2> DEFINE early == {k \in 1..Len(m) : m[k] < k}
  <2>1. early = {}
    <3> SUFFICES ASSUME early # {}  PROVE FALSE
      OBVIOUS
    <3>1. early \subseteq Nat
      BY <1>5
    <3> HIDE DEF early
    <3>2. PICK k \in early : \A l \in early : k <= l
      BY <3>1, LeastNat
    <3>3. k \in 1..Len(m) /\ m[k] < k /\ m[k] \in 1..Len(s)
      BY <1>4, <3>2 DEF early
    <3>4. k - 1 \in 1..Len(m) /\ k - 1 < k
      BY <1>5, <3>3
    <3>5. m[k - 1] < m[k] /\ m[k - 1] \in 1..Len(s)
      BY <1>4, <3>3, <3>4
    <3>6. k - 1 \in early
      BY <3>3, <3>4, <3>5 DEF early
    <3> QED  BY <3>2, <3>3, <3>6
  <2>2. ASSUME NEW k \in 1..Len(m)  PROVE m[k] >= k
    <3>1. k \notin early
      BY <2>1
    <3>2. m[k] \in 1..Len(s)
      BY <1>4
    <3>3. ~(m[k] < k) /\ m[k] \in Int /\ k \in Int
      BY <1>1, <1>5, <3>1, <3>2
    <3> QED  BY <3>3
  <2> QED  BY <2>2
<1>9. \A i \in 1..Len(s) : s[i] \notin T => \E k \in 1..Len(r) : r[k] = s[i] /\ k <= i
  <2> TAKE i \in 1..Len(s)
  <2> HAVE s[i] \notin T
  <2>1. PICK k \in 1..Len(m) : m[k] = i
    BY <1>4
  <2> QED  BY <1>4, <1>8, <2>1
<1>10. \A k \in 1..Len(r) : \E i \in 1..Len(s) : i >= k /\ s[i] = r[k] /\ s[i] \notin T
  BY <1>4, <1>8
<1>11. s[1] \notin T => r[1] = s[1]
  <2> HAVE s[1] \notin T
  <2>1. 1 \in 1..Len(s)
    BY <1>1
  <2>2. PICK k \in 1..Len(r) : r[k] = s[1] /\ k <= 1
    BY <1>9, <2>1
  <2>3. k = 1
    BY <2>2
  <2> QED  BY <2>2, <2>3
<1> QED  BY <1>3, <1>7, <1>9, <1>10, <1>11

-----------------------------------------------------------------------------
(* Every action on the timers keeps it.                                    *)

LEMMA ResetSafe ==
  ASSUME TimerInv, ResetTimers
  PROVE  TimerInv'
<1>1. /\ timerList \in Seq(Nodes) /\ Len(timerList) >= 2
      /\ wake["periodic"] \in Clocks /\ OffAt(wake["periodic"], ticks) \in -Overdue..Latest
      /\ OffAt(wake[timerList[1]], ticks) \in -Overdue..Latest
      /\ OffAt(wake[timerList[1]], ticks) <= OffAt(wake["periodic"], ticks)
  <2>1. PICK q \in 1..Len(timerList) - 1 : timerList[q] = "periodic"
    BY ListingFacts DEF TimerInv
  <2>2. 1 \in 1..Len(timerList) - 1
    BY ListingFacts DEF TimerInv
  <2> QED  BY <2>1, <2>2, ListingFacts DEF TimerInv
<1>2. PICK r \in Seq(Nodes) : r = <<"deleted", "periodic", "sentinel">>
  <2>1. PICK d \in Nodes, p \in Nodes, e \in Nodes :
           d = "deleted" /\ p = "periodic" /\ e = "sentinel"
    BY NodeFacts
  <2>2. <<d, p, e>> \in Seq(Nodes)
    OBVIOUS
  <2> QED  BY <2>1, <2>2
<1>3. Len(r) = 3 /\ r[1] = "deleted" /\ r[2] = "periodic" /\ r[3] = "sentinel"
  BY <1>2
<1>4. timerList' = r /\ lastInsert' = "periodic" /\ ticks' = ticks /\ Kick
  BY <1>2 DEF ResetTimers
<1>5. PICK later \in [Nodes -> Clocks] :
        /\ wake' = later /\ later["deleted"] = wake["periodic"]
        /\ later["periodic"] = wake["periodic"] /\ later["sentinel"] = wake["sentinel"]
  <2>1. 0 \in Clocks /\ wake \in [Nodes -> Clocks]
    BY WrapFacts DEF TimerInv, Listing
  <2> DEFINE new == [t \in Nodes |-> CASE t \in Users -> 0
                                       [] t = "deleted" -> wake["periodic"]
                                       [] OTHER -> wake[t]]
  <2>2. new \in [Nodes -> Clocks]
    <3> SUFFICES ASSUME NEW t \in Nodes
                 PROVE (CASE t \in Users -> 0 [] t = "deleted" -> wake["periodic"]
                          [] OTHER -> wake[t]) \in Clocks
      OBVIOUS
    <3>1. t \notin {"deleted"} \cup Users => wake[t] \in Clocks
      BY <2>1
    <3>2. CASE t \in Users
      BY <2>1, <3>2, NodeFacts
    <3>3. CASE t = "deleted"
      BY <1>1, <3>3, NodeFacts
    <3>4. CASE t \notin Users /\ t # "deleted"
      BY <3>1, <3>4
    <3> QED  BY <3>2, <3>3, <3>4
  <2>3. /\ new["deleted"] = wake["periodic"]
        /\ new["periodic"] = wake["periodic"] /\ new["sentinel"] = wake["sentinel"]
    BY NodeFacts
  <2>4. wake' = new
    BY DEF ResetTimers
  <2> HIDE DEF new
  <2> QED  BY <2>2, <2>3, <2>4
<1>6. Linked(r) /\ TimesOrdered(r, later, ticks)
  <2>1. Linked(r)
    BY <1>3 DEF Linked
  <2>2. \A i \in 1..Len(r) - 1 : later[r[i]] = wake["periodic"]
    BY <1>3, <1>5
  <2>3. OffAt(wake["periodic"], ticks) \in Int
    BY <1>1, RangeFits
  <2>4. TimesOrdered(r, later, ticks)
    BY <1>1, <2>2, <2>3 DEF TimesOrdered
  <2> QED  BY <2>1, <2>4
<1>7. Listing(r, later, "periodic", ticks)
  <2>1. \E i \in 1..Len(r) : r[i] = "periodic"
    BY <1>3
  <2>2. \A i \in 2..Len(r) : r[i] # "deleted"
    BY <1>3
  <2>3. later["sentinel"] = After(later["periodic"], Half)
    BY <1>5 DEF TimerInv, Listing
  <2> QED  BY <1>6, <2>1, <2>2, <2>3 DEF Listing
<1>8. /\ alarm' \in Clocks /\ OffAt(alarm', ticks) \in -Overdue..0
      /\ OffAt(alarm', ticks) <= OffAt(wake[timerList[1]], ticks) + TooLate + Defer
  BY <1>1, <1>4, KickFacts DEF TimerInv
<1>9. Armed(alarm', later[r[1]], r[1] = "deleted", ticks)
  <2>1. later[r[1]] = wake["periodic"]
    BY <1>3, <1>5
  <2>2. OffAt(alarm', ticks) \in -Overdue..Latest + TooLate + Defer
    <3>1. Overdue \in Nat /\ Latest + TooLate + Defer \in Nat
      BY RangeFits, WrapFacts
    <3>2. PICK v \in -Overdue..0 : OffAt(alarm', ticks) = v
      BY <1>8
    <3>3. v \in -Overdue..Latest + TooLate + Defer
      BY <3>1
    <3> QED  BY <3>2, <3>3
  <2>3. OffAt(alarm', ticks) <= OffAt(wake["periodic"], ticks) + TooLate + Defer
    BY <1>1, <1>8, RangeFits, WrapFacts
  <2> QED  BY <1>3, <1>8, <2>1, <2>2, <2>3 DEF Armed
<1> QED  BY <1>4, <1>5, <1>7, <1>9 DEF TimerInv

LEMMA NotActive ==
  ASSUME NEW t \in Users, t \notin Active, timerList \in Seq(Nodes)
  PROVE  \A i \in 1..Len(timerList) : timerList[i] # t
<1>1. \A i \in DOMAIN timerList : timerList[i] \in ToSet(timerList)
  BY DEF ToSet
<1> QED  BY <1>1 DEF Active

LEMMA AddFirstSafe ==
  ASSUME TimerInv, NEW t \in Users, NEW w \in WantedTimes, AddFirst(t, w)
  PROVE  TimerInv'
<1>1. CASE Before(w, ticks)
  BY <1>1, ResetSafe DEF AddFirst
<1>2. CASE ~Before(w, ticks)
  <2> DEFINE s == timerList
             n == Len(timerList)
             o(i) == OffAt(wake[timerList[i]], ticks)
             v == OffAt(w, ticks)
             rest == IF HeadTimer = "deleted" THEN Tail(timerList) ELSE timerList
             c == IF HeadTimer = "deleted" THEN 1 ELSE 2
  <2>1. /\ s \in Seq(Nodes) /\ n \in Nat /\ n >= 2 /\ HeadTimer = s[1]
        /\ \A i \in 1..n : s[i] \in Nodes /\ wake[s[i]] \in Clocks
        /\ s[n] = "sentinel"
        /\ \A i, j \in 1..n : s[i] = s[j] => i = j
        /\ \A i \in 1..n - 1 : o(i) \in -Overdue..Latest /\ o(i) \in Int /\ o(1) <= o(i)
        /\ \E q \in 1..n - 1 : s[q] = "periodic"
        /\ \E q \in 1..n - 1 : s[q] = lastInsert
    BY ListingFacts DEF TimerInv, HeadTimer
  <2>2. /\ w \in Clocks /\ v \in -Overdue..Latest /\ v \in Int
    BY WantedFacts, RangeFits DEF TimerInv
  <2>3. v < o(1) /\ v >= 0
    <3>1. Before(w, wake[s[1]]) /\ ~Before(w, ticks)
      BY <1>2, <2>1 DEF AddFirst
    <3>2. PICK a \in Clocks : a = wake[s[1]]
      BY <2>1
    <3>3. 1 \in 1..n - 1
      BY <2>1
    <3>4. OffAt(a, ticks) \in -Overdue..Latest
      BY <2>1, <3>2, <3>3
    <3>5. OffAt(w, ticks) - OffAt(a, ticks) \in -Half..Half - 1
      BY <2>2, <3>4, RangeFits, WrapFacts
    <3>6. OffAt(w, ticks) < OffAt(a, ticks)
      BY <2>2, <3>1, <3>2, <3>5, BeforeIs DEF TimerInv
    <3>7. OffAt(ticks, ticks) = 0 /\ ticks \in Clocks
      BY OffNow DEF TimerInv
    <3>8. OffAt(w, ticks) - OffAt(ticks, ticks) \in -Half..Half - 1
      BY <2>2, <3>7, OffRange
    <3>9. ~(OffAt(w, ticks) < OffAt(ticks, ticks))
      BY <2>2, <3>1, <3>7, <3>8, BeforeIs
    <3> QED  BY <2>2, <3>2, <3>6, <3>7, <3>9
  <2>4. \A i \in 1..n : s[i] # t
    BY <2>1, NotActive DEF AddFirst
  <2>5. \A i \in 2..n : s[i] # "deleted"
    BY DEF TimerInv, Listing
  <2>6. /\ c \in {1, 2} /\ (c = 1 <=> s[1] = "deleted")
        /\ rest \in Seq(Nodes) /\ Len(rest) = n + c - 2
        /\ \A k \in 1..n + c - 2 : rest[k] = s[k + 2 - c]
    <3>1. /\ Tail(s) \in Seq(Nodes) /\ Len(Tail(s)) = n - 1
          /\ \A k \in 1..n - 1 : Tail(s)[k] = s[k + 1]
      BY <2>1, TailFacts
    <3>2. CASE HeadTimer = "deleted"
      BY <2>1, <3>1, <3>2
    <3>3. CASE HeadTimer # "deleted"
      BY <2>1, <3>3
    <3> QED  BY <3>2, <3>3
  <2> HIDE DEF rest, c
  <2>7. PICK r \in Seq(Nodes) :
          /\ r = <<"deleted", t>> \o rest /\ Len(r) = n + c
          /\ r[1] = "deleted" /\ r[2] = t
          /\ \A k \in 3..n + c : r[k] = s[k - c]
    <3>1. PICK d \in Seq(Nodes) : d = <<"deleted", t>> /\ Len(d) = 2 /\ d[1] = "deleted" /\ d[2] = t
      <4>1. PICK e \in Nodes, u \in Nodes : e = "deleted" /\ u = t
        BY NodeFacts
      <4>2. <<e, u>> \in Seq(Nodes) /\ Len(<<e, u>>) = 2 /\ <<e, u>>[1] = e /\ <<e, u>>[2] = u
        OBVIOUS
      <4> QED  BY <4>1, <4>2
    <3>2. /\ d \o rest \in Seq(Nodes) /\ Len(d \o rest) = Len(d) + Len(rest)
          /\ \A k \in 1..Len(d) + Len(rest) :
                (d \o rest)[k] = IF k <= Len(d) THEN d[k] ELSE rest[k - Len(d)]
      BY <2>6, <3>1, ConcatProperties
    <3>3. Len(d) + Len(rest) = n + c /\ 1 \in 1..n + c /\ 2 \in 1..n + c
      BY <2>1, <2>6, <3>1
    <3>4. (d \o rest)[1] = "deleted" /\ (d \o rest)[2] = t
      BY <3>1, <3>2, <3>3
    <3>5. ASSUME NEW k \in 3..n + c  PROVE (d \o rest)[k] = s[k - c]
      <4>1. k \in 1..n + c /\ ~(k <= 2) /\ k - 2 \in 1..n + c - 2 /\ k - 2 + 2 - c = k - c
        BY <2>1, <2>6
      <4> QED  BY <2>6, <3>1, <3>2, <3>3, <4>1
    <3> QED  BY <3>1, <3>2, <3>3, <3>4, <3>5
  <2>8. timerList' = r /\ lastInsert' = lastInsert /\ ticks' = ticks /\ Kick
    BY <1>2, <2>7 DEF AddFirst, rest
  <2>9. PICK later \in [Nodes -> Clocks] :
          /\ wake' = later /\ later["deleted"] = w /\ later[t] = w
          /\ \A u \in Nodes \ {"deleted", t} : later[u] = wake[u]
    <3> DEFINE new == [wake EXCEPT ![t] = w, !["deleted"] = w]
    <3>1. wake \in [Nodes -> Clocks] /\ t \in Nodes /\ "deleted" \in Nodes /\ t # "deleted"
      BY NodeFacts DEF TimerInv, Listing
    <3>2. new \in [Nodes -> Clocks]
      BY <2>2, <3>1
    <3>3. /\ new["deleted"] = w /\ new[t] = w
          /\ \A u \in Nodes \ {"deleted", t} : new[u] = wake[u]
      BY <3>1
    <3>4. wake' = new
      BY <1>2 DEF AddFirst
    <3> HIDE DEF new
    <3> QED  BY <3>2, <3>3, <3>4
  <2>10. \A k \in 3..n + c : k - c \in 1..n /\ s[k - c] \notin {"deleted", t}
    <3> TAKE k \in 3..n + c
    <3>1. k - c \in 1..n /\ (c = 1 => k - c \in 2..n)
      BY <2>1, <2>6
    <3>2. s[k - c] # t
      BY <2>4, <3>1
    <3>3. s[k - c] # "deleted"
      <4>1. CASE k - c \in 2..n
        BY <2>5, <4>1
      <4>2. CASE k - c \notin 2..n
        <5>1. c = 2 /\ k - c = 1
          BY <2>1, <2>6, <3>1, <4>2
        <5> QED  BY <2>6, <5>1
      <4> QED  BY <4>1, <4>2
    <3> QED  BY <3>1, <3>2, <3>3
  <2>11. Linked(r)
    <3>1. r[n + c] = "sentinel" /\ n + c >= 3
      <4>1. n + c >= 3
        BY <2>1, <2>6
      <4>2. PICK k \in 3..n + c : k = n + c /\ k - c = n
        BY <2>1, <2>6, <4>1
      <4> QED  BY <2>1, <2>7, <4>1, <4>2
    <3>2. ASSUME NEW i \in 1..n + c, NEW j \in 1..n + c, r[i] = r[j]  PROVE i = j
      <4>1. n + c \in Int /\ t # "deleted"
        BY <2>1, <2>6, NodeFacts
      <4>2. CASE i \in 3..n + c /\ j \in 3..n + c
        <5>1. i - c = j - c
          BY <2>1, <2>7, <2>10, <3>2, <4>2
        <5> QED  BY <2>6, <5>1
      <4>3. CASE i \in {1, 2} /\ j \in {1, 2}
        BY <2>7, <3>2, <4>1, <4>3
      <4>4. CASE i \in {1, 2} /\ j \in 3..n + c
        BY <2>7, <2>10, <3>2, <4>4
      <4>5. CASE i \in 3..n + c /\ j \in {1, 2}
        BY <2>7, <2>10, <3>2, <4>5
      <4> QED  BY <4>1, <4>2, <4>3, <4>4, <4>5
    <3> QED  BY <2>7, <3>1, <3>2 DEF Linked
  <2>12. TimesOrdered(r, later, ticks)
    <3> DEFINE x(k) == OffAt(later[r[k]], ticks)
    <3>1. x(1) = v /\ x(2) = v
      BY <2>7, <2>9
    <3>2. \A k \in 3..n + c - 1 : k - c \in 1..n - 1 /\ x(k) = o(k - c)
      <4> TAKE k \in 3..n + c - 1
      <4>1. k \in 3..n + c /\ k - c \in 1..n - 1 /\ k - c \in 1..n
        BY <2>1, <2>6
      <4>2. s[k - c] \in Nodes \ {"deleted", t} /\ r[k] = s[k - c]
        BY <2>1, <2>7, <2>10, <4>1
      <4> QED  BY <2>9, <4>1, <4>2
    <3> HIDE DEF x
    <3>3. \A i, j \in 1..n - 1 : i <= j => o(i) <= o(j)
      BY DEF TimerInv, Listing, TimesOrdered
    <3> HIDE DEF o, v
    <3>4. \A k \in 1..n + c - 1 : k \in {1, 2} \/ k \in 3..n + c - 1
      BY <2>1, <2>6
    <3>5. \A k \in 1..n + c - 1 : x(k) \in -Overdue..Latest /\ x(k) \in Int /\ v <= x(k)
      <4> TAKE k \in 1..n + c - 1
      <4>1. CASE k \in {1, 2}
        BY <2>2, <3>1, <4>1
      <4>2. CASE k \in 3..n + c - 1
        <5>1. PICK i \in 1..n - 1 : i = k - c /\ x(k) = o(i)
          BY <3>2, <4>2
        <5>2. o(i) \in -Overdue..Latest /\ o(i) \in Int /\ o(1) <= o(i)
          BY <2>1
        <5>3. o(1) \in Int
          BY <2>1, <5>1
        <5> QED  BY <2>2, <2>3, <5>1, <5>2, <5>3
      <4> QED  BY <3>4, <4>1, <4>2
    <3>6. ASSUME NEW i \in 1..n + c - 1, NEW j \in 1..n + c - 1, i <= j  PROVE x(i) <= x(j)
      <4>1. CASE i \in {1, 2}
        BY <3>1, <3>5, <4>1
      <4>2. CASE i \in 3..n + c - 1
        <5>1. j \in 3..n + c - 1
          BY <2>1, <2>6, <3>6, <4>2
        <5>2. i - c <= j - c
          BY <2>6, <3>6
        <5> QED  BY <3>2, <3>3, <4>2, <5>1, <5>2
      <4> QED  BY <3>4, <4>1, <4>2
    <3>7. Len(r) - 1 = n + c - 1
      BY <2>1, <2>6, <2>7
    <3> QED  BY <3>5, <3>6, <3>7 DEF TimesOrdered, x
  <2>13. Listing(r, later, lastInsert, ticks)
    <3>1. ASSUME NEW u \in {"periodic", lastInsert}  PROVE \E i \in 1..Len(r) : r[i] = u
      <4>1. PICK q \in 1..n - 1 : s[q] = u
        BY <2>1, <3>1
      <4>2. u # "deleted"
        BY NodeFacts DEF TimerInv, Listing
      <4>3. q + c \in 3..n + c \/ (q = 1 /\ c = 1)
        BY <2>1, <2>6
      <4>4. ~(q = 1 /\ c = 1)
        BY <2>6, <4>1, <4>2
      <4>5. PICK k \in 3..n + c : k = q + c /\ k - c = q
        BY <2>1, <2>6, <4>3, <4>4
      <4>6. k \in 1..Len(r)
        BY <2>1, <2>6, <2>7, <4>5
      <4>7. r[k] = s[q]
        BY <2>7, <4>5
      <4> QED  BY <4>1, <4>6, <4>7
    <3>2. \A i \in 2..Len(r) : r[i] # "deleted"
      <4> TAKE i \in 2..Len(r)
      <4>1. i = 2 \/ i \in 3..n + c
        BY <2>1, <2>6, <2>7
      <4>2. t # "deleted"
        BY NodeFacts
      <4> QED  BY <2>7, <2>10, <4>1, <4>2
    <3>3. later["sentinel"] = After(later["periodic"], Half)
      <4>1. {"sentinel", "periodic"} \subseteq Nodes \ {"deleted", t}
        BY NodeFacts
      <4>2. wake["sentinel"] = After(wake["periodic"], Half)
        BY DEF TimerInv, Listing
      <4> QED  BY <2>9, <4>1, <4>2
    <3>4. lastInsert \in Users \cup {"periodic"}
      BY DEF TimerInv, Listing
    <3> QED  BY <2>9, <2>11, <2>12, <3>1, <3>2, <3>3, <3>4 DEF Listing
  <2>14. alarm' \in Clocks /\ OffAt(alarm', ticks) \in -Overdue..0
    <3>1. OffAt(wake[s[1]], ticks) \in -Overdue..Latest
      BY <2>1
    <3> QED  BY <2>8, <3>1, KickFacts DEF TimerInv
  <2>15. Armed(alarm', later[r[1]], r[1] = "deleted", ticks)
    <3>1. OffAt(alarm', ticks) \in -Overdue..Latest + TooLate + Defer
      BY <2>14, RangeFits, WrapFacts
    <3>2. OffAt(alarm', ticks) <= v + TooLate + Defer
      BY <2>2, <2>3, <2>14, RangeFits, WrapFacts
    <3> QED  BY <2>7, <2>9, <2>14, <3>1, <3>2 DEF Armed
  <2>16. ticks \in Clocks
    BY DEF TimerInv
  <2> QED  BY <2>8, <2>9, <2>13, <2>15, <2>16 DEF TimerInv
<1> QED  BY <1>1, <1>2

\* The times and the last insertion after that.
Rewoken(s, t, w, times, later, last) ==
    /\ later \in [Nodes -> Clocks] /\ later[t] = w
    /\ \A i \in 1..Len(s) - 1 : later[s[i]] = times[s[i]]
    /\ later["sentinel"] = After(later["periodic"], Half)
    /\ last \in Users \cup {"periodic"}
    /\ \A u \in {"periodic", last} : u = t \/ \E i \in 1..Len(s) : s[i] = u

\* A list with a timer put into it behind its head.
LEMMA InsertedListing ==
  ASSUME NEW s, NEW p, NEW t, NEW w, NEW times, NEW now, Insertable(s, p, t, w, times, now),
         ~Before(w, times[s[1]]), \A i \in 2..Len(s) : s[i] # "deleted",
         NEW later, NEW last, Rewoken(s, t, w, times, later, last)
  PROVE  /\ Listing(Inserted(s, p, t, w, times), later, last, now)
         /\ Inserted(s, p, t, w, times)[1] = s[1]
<1>1. s \in Seq(Nodes) /\ Len(s) \in Nat /\ p \in 0..Len(s) - 1 /\ t \in Nodes
  BY DEF Linked, Insertable
<1>2. PICK at \in p + 1..Len(s) :
        /\ Inserted(s, p, t, w, times) = InsertAt(s, at, t)
        /\ Before(w, times[s[at]])
        /\ Linked(InsertAt(s, at, t))
        /\ \A new : /\ new[t] = w
                    /\ \A i \in 1..Len(s) - 1 : new[s[i]] = times[s[i]]
                    => TimesOrdered(InsertAt(s, at, t), new, now)
  BY InsertedInTime
<1>3. at # 1 /\ at \in 2..Len(s) /\ at \in 1..Len(s) + 1
  BY <1>1, <1>2
<1>4. PICK r \in Seq(Nodes) :
        /\ r = InsertAt(s, at, t) /\ Len(r) = Len(s) + 1
        /\ \A k \in 1..at - 1 : r[k] = s[k]
        /\ r[at] = t
        /\ \A k \in at + 1..Len(s) + 1 : r[k] = s[k - 1]
  <2>1. PICK a \in 1..Len(s) + 1 : a = at
    BY <1>3
  <2>2. /\ InsertAt(s, a, t) \in Seq(Nodes) /\ Len(InsertAt(s, a, t)) = Len(s) + 1
        /\ \A k \in 1..a - 1 : InsertAt(s, a, t)[k] = s[k]
        /\ InsertAt(s, a, t)[a] = t
        /\ \A k \in a + 1..Len(s) + 1 : InsertAt(s, a, t)[k] = s[k - 1]
    BY <1>1, InsertedFacts
  <2> QED  BY <2>1, <2>2
<1>5. Linked(r) /\ TimesOrdered(r, later, now)
  BY <1>2, <1>4 DEF Rewoken
<1>6. r[1] = s[1]
  BY <1>1, <1>3, <1>4
<1>7. ASSUME NEW u \in {"periodic", last}  PROVE \E k \in 1..Len(r) : r[k] = u
  <2>1. CASE u = t
    BY <1>1, <1>3, <1>4, <2>1
  <2>2. CASE \E i \in 1..Len(s) : s[i] = u
    <3>1. PICK i \in 1..Len(s) : s[i] = u
      BY <2>2
    <3>2. CASE i < at
      <4>1. i \in 1..at - 1 /\ i \in 1..Len(r)
        BY <1>1, <1>3, <1>4, <3>2
      <4> QED  BY <1>4, <3>1, <4>1
    <3>3. CASE ~(i < at)
      <4>1. PICK k \in at + 1..Len(s) + 1 : k - 1 = i
        BY <1>1, <1>3, <3>3
      <4>2. k \in 1..Len(r)
        BY <1>1, <1>3, <1>4, <4>1
      <4> QED  BY <1>4, <3>1, <4>1, <4>2
    <3> QED  BY <3>2, <3>3
  <2> QED  BY <1>7, <2>1, <2>2 DEF Rewoken
<1>8. \A k \in 2..Len(r) : r[k] # "deleted"
  <2> TAKE k \in 2..Len(r)
  <2>1. CASE k < at
    <3>1. k \in 1..at - 1 /\ k \in 2..Len(s)
      BY <1>1, <1>3, <1>4, <2>1
    <3> QED  BY <1>4, <3>1
  <2>2. CASE k = at
    BY <1>4, <2>2 DEF Insertable
  <2>3. CASE k > at
    <3>1. k \in at + 1..Len(s) + 1 /\ k - 1 \in 2..Len(s)
      BY <1>1, <1>3, <1>4, <2>3
    <3> QED  BY <1>4, <3>1
  <2> QED  BY <1>3, <2>1, <2>2, <2>3
<1>9. Listing(r, later, last, now)
  BY <1>5, <1>7, <1>8 DEF Listing, Rewoken
<1> QED  BY <1>2, <1>4, <1>6, <1>9

LEMMA AddLaterSafe ==
  ASSUME TimerInv, NEW t \in Users, NEW w \in WantedTimes, AddLater(t, w)
  PROVE  TimerInv'
<1>1. PICK s \in Seq(Nodes), times \in [Nodes -> Clocks], now \in Clocks :
         s = timerList /\ times = wake /\ now = ticks
  BY ListingFacts DEF TimerInv, Listing
<1>2. Listing(s, times, lastInsert, now) /\ Linked(s) /\ TimesOrdered(s, times, now)
  BY <1>1 DEF TimerInv, Listing
<1>3. /\ Len(s) \in Nat /\ Len(s) >= 2 /\ HeadTimer = s[1]
      /\ \A i \in 1..Len(s) : s[i] \in Nodes /\ times[s[i]] \in Clocks
      /\ OffAt(times[s[1]], now) \in -Overdue..Latest
  <2>1. 1 \in 1..Len(s) - 1
    BY <1>2, ListingFacts
  <2> QED  BY <1>1, <1>2, <2>1, ListingFacts DEF HeadTimer
<1>4. w \in Clocks /\ OffAt(w, now) \in -Overdue..Latest
  BY <1>1, WantedFacts
<1>5. ~Before(w, times[s[1]])
  BY <1>1, <1>3 DEF AddLater
<1>6. OffAt(times[s[1]], now) <= OffAt(w, now)
  <2>1. PICK c \in Clocks : c = times[s[1]]
    BY <1>3
  <2>2. OffAt(w, now) - OffAt(c, now) \in -Half..Half - 1
    <3>1. PICK x \in -Overdue..Latest, y \in -Overdue..Latest :
             x = OffAt(w, now) /\ y = OffAt(c, now)
      BY <1>3, <1>4, <2>1
    <3>2. x - y \in -Half + 1..Half - 1
      BY RangeFits
    <3> QED  BY <3>1, <3>2, WrapFacts
  <2>3. ~(OffAt(w, now) < OffAt(c, now))
    BY <1>4, <1>5, <2>1, <2>2, BeforeIs
  <2> QED  BY <1>3, <1>4, <2>1, <2>3, RangeFits
<1>7. \A i \in 1..Len(s) : s[i] # t
  BY <1>1, NotActive DEF AddLater
<1>8. PICK q \in 1..Len(s) : s[q] = "periodic"
  BY <1>2 DEF Listing
<1>9. times["sentinel"] = After(times["periodic"], Half)
  BY <1>2 DEF Listing
<1>10. PICK p \in 0..Len(s) - 1 : p = 1
  BY <1>3
<1>11. \E i \in p + 1..Len(s) : Before(w, times[s[i]])
  BY <1>2, <1>4, <1>6, <1>8, <1>9, <1>10, LaterIsListed
<1>12. PICK later \in [Nodes -> Clocks] :
         later = wake' /\ later[t] = w /\ \A u \in Nodes \ {t} : later[u] = times[u]
  <2> DEFINE new == [times EXCEPT ![t] = w]
  <2>1. new \in [Nodes -> Clocks] /\ new[t] = w /\ \A u \in Nodes \ {t} : new[u] = times[u]
    BY <1>4, NodeFacts
  <2>2. wake' = new
    BY <1>1 DEF AddLater
  <2> HIDE DEF new
  <2> QED  BY <2>1, <2>2
<1>13. \A i \in 1..Len(s) : later[s[i]] = times[s[i]]
  BY <1>3, <1>7, <1>12
<1>14. later["sentinel"] = After(later["periodic"], Half)
  <2>1. {"sentinel", "periodic"} \subseteq Nodes \ {t}
    BY NodeFacts
  <2> QED  BY <1>9, <1>12, <2>1
<1>15. /\ lastInsert \in Users \cup {"periodic"} /\ \A i \in 2..Len(s) : s[i] # "deleted"
       /\ \A u \in {"periodic", lastInsert} : \E i \in 1..Len(s) : s[i] = u
  BY <1>2 DEF Listing
<1>16. Insertable(s, p, t, w, times, now)
  <2>1. p > 0 => OffAt(times[s[p]], now) <= OffAt(w, now)
    BY <1>6, <1>10
  <2>2. t \in Nodes \ {"sentinel", "deleted"}
    BY NodeFacts
  <2> QED  BY <1>2, <1>4, <1>7, <1>11, <2>1, <2>2 DEF Insertable
<1>17. Rewoken(s, t, w, times, later, lastInsert)
  <2>1. \A i \in 1..Len(s) - 1 : later[s[i]] = times[s[i]]
    BY <1>3, <1>13
  <2> QED  BY <1>12, <1>14, <1>15, <2>1 DEF Rewoken
<1>18. PICK r : r = Inserted(s, p, t, w, times)
  OBVIOUS
<1>19. Listing(r, later, lastInsert, now) /\ r[1] = s[1]
  BY <1>5, <1>15, <1>16, <1>17, <1>18, InsertedListing
<1>20. timerList' = r /\ lastInsert' = lastInsert /\ ticks' = now /\ alarm' = alarm
  BY <1>1, <1>10, <1>18 DEF AddLater
<1>21. Armed(alarm, later[r[1]], r[1] = "deleted", now)
  <2>1. 1 \in 1..Len(s)
    BY <1>3
  <2>2. later[r[1]] = times[s[1]]
    BY <1>13, <1>19, <2>1
  <2> QED  BY <1>1, <1>19, <2>2 DEF TimerInv
<1> QED  BY <1>12, <1>19, <1>20, <1>21 DEF TimerInv

\* A list without some timers, of which "periodic" is none.
LEMMA RemainingListing ==
  ASSUME NEW s, NEW times, NEW last, NEW now \in Clocks, Listing(s, times, last, now),
         NEW T, "sentinel" \notin T, "periodic" \notin T,
         NEW later \in [Nodes -> Clocks],
         \A u \in Nodes : u \notin T => later[u] = times[u] \/ \A i \in 1..Len(s) : s[i] # u,
         later["sentinel"] = times["sentinel"]
  PROVE  /\ Listing(Remaining(s, T), later, "periodic", now)
         /\ \A i \in 1..Len(s) : s[i] \notin T =>
               \E k \in 1..Len(Remaining(s, T)) : Remaining(s, T)[k] = s[i]
         /\ s[1] \notin T => Remaining(s, T)[1] = s[1]
<1>1. /\ Linked(s) /\ TimesOrdered(s, times, now) /\ Len(s) \in Nat
      /\ \A i \in 1..Len(s) : s[i] \in Nodes
      /\ \A i \in 2..Len(s) : s[i] # "deleted"
  BY ListingFacts DEF Listing
<1>2. \A i \in 1..Len(s) : s[i] \notin T => later[s[i]] = times[s[i]]
  BY <1>1
<1>3. TimesKept(later, times, s, T)
  <2> SUFFICES ASSUME NEW i \in 1..Len(s) - 1
               PROVE  s[i] \notin T => later[s[i]] = times[s[i]]
    BY DEF TimesKept
  <2>1. i \in 1..Len(s)
    BY <1>1
  <2> QED  BY <1>2, <2>1
<1>4. /\ Linked(Remaining(s, T)) /\ TimesOrdered(Remaining(s, T), later, now)
      /\ \A i \in 1..Len(s) : s[i] \notin T =>
            \E k \in 1..Len(Remaining(s, T)) : Remaining(s, T)[k] = s[i] /\ k <= i
      /\ \A k \in 1..Len(Remaining(s, T)) :
            \E i \in 1..Len(s) : i >= k /\ s[i] = Remaining(s, T)[k] /\ s[i] \notin T
      /\ s[1] \notin T => Remaining(s, T)[1] = s[1]
  BY <1>1, <1>3, RemainingInTime
<1>5. PICK r : r = Remaining(s, T)
  OBVIOUS
<1>6. PICK q \in 1..Len(s) : s[q] = "periodic"
  BY DEF Listing
<1>7. \E k \in 1..Len(r) : r[k] = "periodic"
  <2>1. s[q] \notin T
    BY <1>6
  <2>2. PICK k \in 1..Len(r) : r[k] = s[q] /\ k <= q
    BY <1>4, <1>5, <2>1
  <2> QED  BY <1>6, <2>2
<1>8. \A k \in 2..Len(r) : r[k] # "deleted"
  <2> TAKE k \in 2..Len(r)
  <2>1. k \in 1..Len(r) /\ k >= 2
    BY <1>4, <1>5 DEF Linked
  <2>2. PICK i \in 1..Len(s) : i >= k /\ s[i] = r[k]
    BY <1>4, <1>5, <2>1
  <2>3. i \in 2..Len(s)
    BY <1>1, <2>1, <2>2
  <2> QED  BY <1>1, <2>2, <2>3
<1>9. later["sentinel"] = After(later["periodic"], Half)
  <2>1. later["periodic"] = times["periodic"]
    BY <1>2, <1>6
  <2> QED  BY <2>1 DEF Listing
<1>10. Listing(r, later, "periodic", now)
  BY <1>4, <1>5, <1>7, <1>8, <1>9 DEF Listing
<1> QED  BY <1>4, <1>5, <1>10

LEMMA OtherInsert ==
  ASSUME NEW s, NEW times, NEW last, NEW now, Listing(s, times, last, now),
         NEW new \in Users \cup {"periodic"}, \E i \in 1..Len(s) : s[i] = new
  PROVE  Listing(s, times, new, now)
BY DEF Listing

LEMMA DeleteSafe ==
  ASSUME TimerInv, NEW t \in Users, Delete(t)
  PROVE  TimerInv'
<1>1. PICK s \in Seq(Nodes), times \in [Nodes -> Clocks], now \in Clocks :
         s = timerList /\ times = wake /\ now = ticks
  BY ListingFacts DEF TimerInv, Listing
<1>2. Listing(s, times, lastInsert, now) /\ Linked(s) /\ TimesOrdered(s, times, now)
  BY <1>1 DEF TimerInv, Listing
<1>3. /\ Len(s) \in Nat /\ Len(s) >= 2 /\ Head(s) = s[1]
      /\ \A i \in 1..Len(s) : s[i] \in Nodes
      /\ \A i, j \in 1..Len(s) : s[i] = s[j] => i = j
      /\ \A i \in 2..Len(s) : s[i] # "deleted"
      /\ s[Len(s)] = "sentinel"
  BY <1>2, ListingFacts DEF Listing
<1>4. t \notin {"sentinel", "periodic", "deleted"} /\ t \in Nodes /\ "deleted" \in Nodes
  BY NodeFacts
<1>5. PICK last \in Users \cup {"periodic"} :
         last = lastInsert' /\ last # t /\ \E i \in 1..Len(s) : s[i] = last
  <2>1. lastInsert' = IF lastInsert = t THEN "periodic" ELSE lastInsert
    BY DEF Delete, KeptInsert
  <2>2. /\ lastInsert \in Users \cup {"periodic"} /\ \E i \in 1..Len(s) : s[i] = "periodic"
        /\ \E i \in 1..Len(s) : s[i] = lastInsert
    BY <1>2 DEF Listing
  <2> QED  BY <1>4, <2>1, <2>2
<1>6. PICK later \in [Nodes -> Clocks] :
         /\ later = wake' /\ \A u \in Nodes \ {t, "deleted"} : later[u] = times[u]
         /\ s[1] = t => later["deleted"] = times[t]
         /\ s[1] # t => later["deleted"] = times["deleted"]
  <2>1. 0 \in Clocks
    BY WrapFacts
  <2>2. PICK d \in Clocks : d = IF Head(s) = t THEN times[t] ELSE times["deleted"]
    BY <1>4
  <2> DEFINE new == [times EXCEPT ![t] = 0, !["deleted"] = d]
  <2>3. /\ new \in [Nodes -> Clocks] /\ new["deleted"] = d
        /\ \A u \in Nodes \ {t, "deleted"} : new[u] = times[u]
    BY <1>4, <2>1
  <2>4. wake' = new
    BY <1>1, <1>4, <2>2 DEF Delete, StoppedTimes
  <2> HIDE DEF new
  <2> QED  BY <1>3, <2>2, <2>3, <2>4
<1>7. /\ timerList' = Without(t, s) /\ ticks' = now /\ alarm' = alarm
  BY <1>1 DEF Delete
<1>8. later["sentinel"] = times["sentinel"] /\ later["periodic"] = times["periodic"]
  <2>1. {"sentinel", "periodic"} \subseteq Nodes \ {t, "deleted"}
    BY <1>4, NodeFacts
  <2> QED  BY <1>6, <2>1
<1>9. CASE s[1] = t
  <2>1. PICK r \in Seq(Nodes) :
          /\ r = Without(t, s) /\ Len(r) = Len(s) /\ r[1] = "deleted"
          /\ \A k \in 2..Len(s) : r[k] = s[k]
    <3>1. PICK d \in Seq(Nodes) : d = <<"deleted">> /\ Len(d) = 1 /\ d[1] = "deleted"
      <4>1. PICK e \in Nodes : e = "deleted"
        BY <1>4
      <4>2. <<e>> \in Seq(Nodes) /\ Len(<<e>>) = 1 /\ <<e>>[1] = e
        OBVIOUS
      <4> QED  BY <4>1, <4>2
    <3>2. /\ Tail(s) \in Seq(Nodes) /\ Len(Tail(s)) = Len(s) - 1
          /\ \A k \in 1..Len(s) - 1 : Tail(s)[k] = s[k + 1]
      BY <1>3, TailFacts
    <3>3. /\ d \o Tail(s) \in Seq(Nodes) /\ Len(d \o Tail(s)) = Len(d) + Len(Tail(s))
          /\ \A k \in 1..Len(d) + Len(Tail(s)) :
                (d \o Tail(s))[k] = IF k <= Len(d) THEN d[k] ELSE Tail(s)[k - Len(d)]
      BY <3>1, <3>2, ConcatProperties
    <3>4. Len(d) + Len(Tail(s)) = Len(s) /\ 1 \in 1..Len(s)
      BY <1>3, <3>1, <3>2
    <3>5. ASSUME NEW k \in 2..Len(s)  PROVE (d \o Tail(s))[k] = s[k]
      <4>1. k \in 1..Len(s) /\ ~(k <= 1)
        BY <1>3
      <4>2. PICK j \in 1..Len(s) - 1 : j = k - 1 /\ j + 1 = k
        BY <1>3
      <4> QED  BY <3>1, <3>2, <3>3, <3>4, <4>1, <4>2
    <3>6. Without(t, s) = d \o Tail(s)
      BY <1>3, <1>9, <3>1 DEF Without
    <3> QED  BY <3>1, <3>3, <3>4, <3>5, <3>6
  <2>2. \A k \in 2..Len(s) : s[k] # t /\ later[s[k]] = times[s[k]]
    <3> TAKE k \in 2..Len(s)
    <3>1. k \in 1..Len(s) /\ 1 \in 1..Len(s) /\ k # 1
      BY <1>3
    <3>2. s[k] # t /\ s[k] # "deleted" /\ s[k] \in Nodes
      BY <1>3, <1>9, <3>1
    <3> QED  BY <1>6, <3>2
  <2>3. \A k \in 1..Len(s) : k = 1 \/ k \in 2..Len(s)
    BY <1>3
  <2>4. Linked(r)
    <3>1. r[Len(r)] = "sentinel"
      <4>1. Len(s) \in 2..Len(s)
        BY <1>3
      <4> QED  BY <1>3, <2>1, <4>1
    <3>2. ASSUME NEW i \in 1..Len(r), NEW j \in 1..Len(r), r[i] = r[j]  PROVE i = j
      <4>1. \A k \in 2..Len(s) : r[k] # "deleted"
        BY <1>3, <2>1
      <4>2. CASE i = 1 \/ j = 1
        BY <2>1, <2>3, <3>2, <4>1, <4>2
      <4>3. CASE i # 1 /\ j # 1
        <5>1. s[i] = s[j]
          BY <2>1, <2>3, <3>2, <4>3
        <5> QED  BY <1>3, <2>1, <5>1
      <4> QED  BY <4>2, <4>3
    <3> QED  BY <1>3, <2>1, <3>1, <3>2 DEF Linked
  <2>5. \A k \in 1..Len(s) : later[r[k]] = times[s[k]]
    <3> TAKE k \in 1..Len(s)
    <3>1. CASE k = 1
      BY <1>6, <1>9, <2>1, <3>1
    <3>2. CASE k \in 2..Len(s)
      BY <2>1, <2>2, <3>2
    <3> QED  BY <2>3, <3>1, <3>2
  <2>6. TimesOrdered(r, later, now)
    <3>1. \A k \in 1..Len(s) - 1 : k \in 1..Len(s)
      BY <1>3
    <3> QED  BY <1>2, <2>1, <2>5, <3>1 DEF TimesOrdered
  <2>7. ASSUME NEW u \in {"periodic", last}  PROVE \E k \in 1..Len(r) : r[k] = u
    <3>1. PICK i \in 1..Len(s) : s[i] = u
      BY <1>2, <1>5, <2>7 DEF Listing
    <3>2. i # 1
      BY <1>4, <1>5, <1>9, <2>7, <3>1
    <3> QED  BY <2>1, <2>3, <3>1, <3>2
  <2>8. \A k \in 2..Len(r) : r[k] # "deleted"
    BY <1>3, <2>1
  <2>9. later["sentinel"] = After(later["periodic"], Half)
    BY <1>2, <1>8 DEF Listing
  <2>10. Listing(r, later, last, now)
    BY <2>4, <2>6, <2>7, <2>8, <2>9 DEF Listing
  <2>11. Armed(alarm, later[r[1]], r[1] = "deleted", now)
    <3>1. later[r[1]] = times[s[1]]
      BY <1>3, <2>5
    <3> QED  BY <1>1, <2>1, <3>1 DEF TimerInv, Armed
  <2> QED  BY <1>5, <1>6, <1>7, <2>1, <2>10, <2>11 DEF TimerInv
<1>10. CASE s[1] # t
  <2>1. PICK r : r = Remaining(s, {t}) /\ r = Without(t, s)
    BY <1>3, <1>10 DEF Without
  <2>2. \A u \in Nodes : u \notin {t} => later[u] = times[u]
    BY <1>6, <1>10
  <2>3. PICK T : T = {t} /\ "sentinel" \notin T /\ "periodic" \notin T /\ s[1] \notin T
    <3>1. "sentinel" # t /\ "periodic" # t
      BY <1>4
    <3>2. "sentinel" \notin {t} /\ "periodic" \notin {t} /\ s[1] \notin {t}
      BY <1>10, <3>1
    <3> QED  BY <3>2
  <2>4. /\ Listing(Remaining(s, T), later, "periodic", now)
        /\ \A i \in 1..Len(s) : s[i] \notin T =>
              \E k \in 1..Len(Remaining(s, T)) : Remaining(s, T)[k] = s[i]
        /\ s[1] \notin T => Remaining(s, T)[1] = s[1]
    <3>1. \A u \in Nodes : u \notin T => later[u] = times[u] \/ \A i \in 1..Len(s) : s[i] # u
      BY <2>2, <2>3
    <3> QED  BY <1>2, <1>8, <2>3, <3>1, RemainingListing
  <2>5. PICK i \in 1..Len(s) : s[i] = last
    BY <1>5
  <2>6. \E k \in 1..Len(r) : r[k] = last
    BY <1>5, <2>1, <2>3, <2>4, <2>5
  <2>7. Listing(r, later, last, now)
    BY <2>1, <2>3, <2>4, <2>6, OtherInsert
  <2>8. r[1] = s[1] /\ later[r[1]] = times[s[1]]
    <3>1. 1 \in 1..Len(s)
      BY <1>3
    <3> QED  BY <1>3, <1>10, <2>1, <2>2, <2>3, <2>4, <3>1
  <2>9. Armed(alarm, later[r[1]], r[1] = "deleted", now)
    BY <1>1, <2>8 DEF TimerInv
  <2> QED  BY <1>5, <1>6, <1>7, <2>1, <2>7, <2>9 DEF TimerInv
<1> QED  BY <1>9, <1>10

\* A list without its head, which is not "periodic".
LEMMA TailListing ==
  ASSUME NEW s, NEW times, NEW last, NEW now \in Clocks, Listing(s, times, last, now),
         s[1] # "periodic"
  PROVE  /\ Listing(Tail(s), times, "periodic", now) /\ Len(Tail(s)) = Len(s) - 1
         /\ \A k \in 1..Len(s) - 1 : /\ Tail(s)[k] = s[k + 1] /\ Tail(s)[k] # s[1]
                                     /\ Tail(s)[k] # "deleted"
<1>1. /\ Linked(s) /\ TimesOrdered(s, times, now) /\ Len(s) \in Nat /\ Len(s) >= 2
      /\ \A i, j \in 1..Len(s) : s[i] = s[j] => i = j
      /\ \A i \in 2..Len(s) : s[i] # "deleted"
  BY ListingFacts DEF Listing
<1>2. /\ Linked(Tail(s)) /\ TimesOrdered(Tail(s), times, now) /\ Len(Tail(s)) = Len(s) - 1
      /\ \A k \in 1..Len(s) - 1 : Tail(s)[k] = s[k + 1]
  BY <1>1, TailInTime
<1>3. ASSUME NEW k \in 1..Len(s) - 1
      PROVE  Tail(s)[k] # s[1] /\ Tail(s)[k] # "deleted"
  <2>1. k + 1 \in 2..Len(s) /\ k + 1 \in 1..Len(s) /\ 1 \in 1..Len(s) /\ k + 1 # 1
    BY <1>1
  <2> QED  BY <1>1, <1>2, <2>1
<1>4. \E k \in 1..Len(Tail(s)) : Tail(s)[k] = "periodic"
  <2>1. PICK q \in 1..Len(s) : s[q] = "periodic"
    BY DEF Listing
  <2>2. q # 1
    BY <2>1
  <2>3. PICK k \in 1..Len(s) - 1 : k + 1 = q
    BY <1>1, <2>2
  <2> QED  BY <1>2, <2>1, <2>3
<1>5. \A k \in 2..Len(Tail(s)) : Tail(s)[k] # "deleted"
  <2> TAKE k \in 2..Len(Tail(s))
  <2>1. k \in 1..Len(s) - 1
    BY <1>1, <1>2
  <2> QED  BY <1>3, <2>1
<1>6. times \in [Nodes -> Clocks] /\ times["sentinel"] = After(times["periodic"], Half)
  BY DEF Listing
<1>7. Listing(Tail(s), times, "periodic", now)
  BY <1>2, <1>4, <1>5, <1>6 DEF Listing
<1> QED  BY <1>2, <1>3, <1>7

LEMMA DispatchDoneSafe ==
  ASSUME TimerInv, DispatchDone
  PROVE  TimerInv'
<1>1. PICK s \in Seq(Nodes), times \in [Nodes -> Clocks], now \in Clocks, h \in Nodes :
         s = timerList /\ times = wake /\ now = ticks /\ h = s[1]
  BY ListingFacts DEF TimerInv, Listing
<1>2. Listing(s, times, lastInsert, now) /\ Len(s) \in Nat /\ Len(s) >= 2 /\ HeadTimer = h
  BY <1>1, ListingFacts DEF TimerInv, HeadTimer
<1>3. h \in Users \cup {"deleted"} /\ h # "periodic" /\ h # "sentinel"
  BY <1>2, NodeFacts DEF DispatchDone
<1>4. PICK stopped \in SUBSET (Active \ {h}) :
        /\ timerList' = Remaining(Tail(s), stopped)
        /\ wake' = [u \in Nodes |-> IF u \in stopped \cup {h} THEN 0 ELSE times[u]]
        /\ lastInsert' = IF KeptInsert(stopped) = h THEN Head(Remaining(Tail(s), stopped))
                                                    ELSE KeptInsert(stopped)
        /\ SetAlarm(times[Head(Remaining(Tail(s), stopped))])
  BY <1>1, <1>2 DEF DispatchDone
<1>5. PICK later \in [Nodes -> Clocks] :
         /\ later = wake' /\ \A u \in Nodes : u \notin stopped /\ u # h => later[u] = times[u]
  <2>1. 0 \in Clocks
    BY WrapFacts
  <2> DEFINE new == [u \in Nodes |-> IF u \in stopped \cup {h} THEN 0 ELSE times[u]]
  <2>2. new \in [Nodes -> Clocks]
    BY <2>1
  <2>3. \A u \in Nodes : u \notin stopped /\ u # h => new[u] = times[u]
    OBVIOUS
  <2>4. wake' = new
    BY <1>4
  <2> HIDE DEF new
  <2> QED  BY <2>2, <2>3, <2>4
<1>6. "sentinel" \notin stopped /\ "periodic" \notin stopped /\ h \notin stopped
  BY NodeFacts DEF Active
<1>7. PICK t \in Seq(Nodes) :
        /\ t = Tail(s) /\ Listing(t, times, "periodic", now) /\ Len(t) = Len(s) - 1
        /\ \A k \in 1..Len(s) - 1 : t[k] = s[k + 1] /\ t[k] # h /\ t[k] # "deleted"
  <2>1. /\ Listing(Tail(s), times, "periodic", now) /\ Len(Tail(s)) = Len(s) - 1
        /\ \A k \in 1..Len(s) - 1 : /\ Tail(s)[k] = s[k + 1] /\ Tail(s)[k] # s[1]
                                    /\ Tail(s)[k] # "deleted"
    BY <1>1, <1>2, <1>3, TailListing
  <2>2. Tail(s) \in Seq(Nodes)
    BY <2>1 DEF Listing, Linked
  <2> QED  BY <1>1, <2>1, <2>2
<1>8. \A i \in 1..Len(t) : t[i] # h /\ t[i] # "deleted"
  BY <1>7
<1>9. PICK r : r = Remaining(t, stopped)
  OBVIOUS
<1>10. /\ Listing(r, later, "periodic", now)
       /\ \A i \in 1..Len(t) : t[i] \notin stopped => \E k \in 1..Len(r) : r[k] = t[i]
  <2>1. \A u \in Nodes : u \notin stopped => later[u] = times[u] \/ \A i \in 1..Len(t) : t[i] # u
    BY <1>5, <1>8
  <2>2. later["sentinel"] = times["sentinel"]
    BY <1>3, <1>5, <1>6, NodeFacts
  <2>3. Listing(t, times, "periodic", now)
    BY <1>7
  <2>4. /\ Listing(Remaining(t, stopped), later, "periodic", now)
        /\ \A i \in 1..Len(t) : t[i] \notin stopped =>
              \E k \in 1..Len(Remaining(t, stopped)) : Remaining(t, stopped)[k] = t[i]
        /\ t[1] \notin stopped => Remaining(t, stopped)[1] = t[1]
    BY <1>6, <2>1, <2>2, <2>3, RemainingListing
  <2> QED  BY <1>9, <2>4
<1>11. /\ Len(r) \in Nat /\ Len(r) >= 2 /\ r \in Seq(Nodes) /\ Head(r) = r[1]
       /\ r[1] # "sentinel" /\ r[1] \in Nodes
       /\ later[r[1]] \in Clocks /\ OffAt(later[r[1]], now) \in -Overdue..Latest
  <2>1. 1 \in 1..Len(r) - 1 /\ 1 \in 1..Len(r)
    BY <1>10, ListingFacts
  <2> QED  BY <1>10, <2>1, ListingFacts
<1>12. \E i \in 1..Len(t) : t[i] = r[1] /\ t[i] \notin stopped
  <2>1. Linked(t) /\ TimesOrdered(t, times, now)
    BY <1>7 DEF Listing
  <2>2. TimesKept(times, times, t, stopped)
    BY DEF TimesKept
  <2>3. \A k \in 1..Len(Remaining(t, stopped)) : \E i \in 1..Len(t) :
           i >= k /\ t[i] = Remaining(t, stopped)[k] /\ t[i] \notin stopped
    BY <1>6, <2>1, <2>2, RemainingInTime
  <2>4. 1 \in 1..Len(r)
    BY <1>11
  <2> QED  BY <1>9, <2>3, <2>4
<1>13. /\ r[1] # "deleted" /\ r[1] # h /\ r[1] \notin stopped
       /\ later[r[1]] = times[r[1]]
  <2>1. r[1] # "deleted" /\ r[1] # h /\ r[1] \notin stopped
    BY <1>8, <1>12
  <2> QED  BY <1>5, <1>11, <2>1
<1>14. PICK last \in Users \cup {"periodic"} :
          last = lastInsert' /\ \E k \in 1..Len(r) : r[k] = last
  <2>1. CASE KeptInsert(stopped) = h
    <3>1. lastInsert' = r[1]
      BY <1>4, <1>7, <1>9, <1>11, <2>1
    <3>2. r[1] \in Users \cup {"periodic"}
      BY <1>11, <1>13 DEF Nodes
    <3>3. 1 \in 1..Len(r)
      BY <1>11
    <3> QED  BY <3>1, <3>2, <3>3
  <2>2. CASE KeptInsert(stopped) # h
    <3>1. PICK l : l = KeptInsert(stopped) /\ lastInsert' = l /\ l # h
      BY <1>4, <2>2
    <3>2. l = "periodic" \/ (l = lastInsert /\ lastInsert \notin stopped)
      BY <3>1 DEF KeptInsert
    <3>3. CASE l = "periodic"
      BY <1>10, <3>1, <3>3 DEF Listing
    <3>4. CASE l = lastInsert /\ lastInsert \notin stopped
      <4>1. PICK i \in 1..Len(s) : s[i] = l
        BY <1>2, <3>4 DEF Listing
      <4>2. i # 1
        BY <1>1, <3>1, <4>1
      <4>3. PICK k \in 1..Len(s) - 1 : k + 1 = i
        BY <1>2, <4>2
      <4>4. t[k] = l /\ k \in 1..Len(t)
        BY <1>7, <4>1, <4>3
      <4>5. t[k] \notin stopped
        BY <3>4, <4>4
      <4>6. \E j \in 1..Len(r) : r[j] = l
        BY <1>10, <4>4, <4>5
      <4>7. l \in Users \cup {"periodic"}
        BY <1>2, <3>4 DEF Listing
      <4> QED  BY <3>1, <4>6, <4>7
    <3> QED  BY <3>2, <3>3, <3>4
  <2> QED  BY <2>1, <2>2
<1>15. Listing(r, later, last, now)
  BY <1>10, <1>14, OtherInsert
<1>16. Armed(alarm', later[r[1]], r[1] = "deleted", now)
  <2>1. SetAlarm(later[r[1]])
    BY <1>4, <1>7, <1>9, <1>11, <1>13
  <2>2. Armed(alarm', later[r[1]], FALSE, now)
    BY <1>1, <1>11, <2>1, SetAlarmFacts
  <2> QED  BY <2>2 DEF Armed
<1>17. timerList' = r /\ ticks' = now
  BY <1>1, <1>4, <1>7, <1>9 DEF DispatchDone
<1> QED  BY <1>5, <1>14, <1>15, <1>16, <1>17 DEF TimerInv

LEMMA RescheduleSafe ==
  ASSUME TimerInv, NEW w \in Clocks, OffAt(w, ticks) \in -Overdue..Latest,
         NEW times \in [Nodes -> Clocks], Reschedule(w, times),
         HeadTimer \in Users \cup {"periodic"},
         \A u \in Nodes \ {"sentinel"} : times[u] = wake[u],
         times["sentinel"] =
            After(IF HeadTimer = "periodic" THEN w ELSE wake["periodic"], Half)
  PROVE  TimerInv'
<1>1. PICK s \in Seq(Nodes), now \in Clocks, h \in Users \cup {"periodic"} :
         s = timerList /\ now = ticks /\ h = HeadTimer
  BY ListingFacts DEF TimerInv
<1>2. Listing(s, wake, lastInsert, now) /\ Linked(s) /\ TimesOrdered(s, wake, now)
  BY <1>1 DEF TimerInv, Listing
<1>3. /\ Len(s) \in Nat /\ Len(s) >= 2 /\ h = s[1]
      /\ \A i \in 1..Len(s) : s[i] \in Nodes
      /\ \A i, j \in 1..Len(s) : s[i] = s[j] => i = j
      /\ \A i \in 1..Len(s) - 1 : s[i] # "sentinel"
      /\ s[Len(s)] = "sentinel"
      /\ \A i \in 2..Len(s) : s[i] # "deleted"
      /\ \E q \in 1..Len(s) - 1 : s[q] = "periodic"
      /\ \E q \in 1..Len(s) - 1 : s[q] = lastInsert
  <2>1. \A i \in 2..Len(s) : s[i] # "deleted"
    BY <1>2 DEF Listing
  <2>2. h = Head(s)
    BY <1>1 DEF HeadTimer
  <2>3. /\ Len(s) \in Nat /\ Len(s) >= 2 /\ Head(s) = s[1]
        /\ \A i \in 1..Len(s) : s[i] \in Nodes
        /\ \A i, j \in 1..Len(s) : s[i] = s[j] => i = j
        /\ \A i \in 1..Len(s) - 1 : s[i] # "sentinel"
        /\ s[Len(s)] = "sentinel"
    BY <1>2, ListingFacts
  <2>4. /\ \E q \in 1..Len(s) - 1 : s[q] = "periodic"
        /\ \E q \in 1..Len(s) - 1 : s[q] = lastInsert
    BY <1>2, ListingFacts
  <2> QED  BY <2>1, <2>2, <2>3, <2>4
<1>4. h \in Nodes \ {"sentinel", "deleted"}
  BY NodeFacts
<1>5. PICK r \in Seq(Nodes) :
        /\ r = Tail(s) /\ Linked(r) /\ TimesOrdered(r, times, now) /\ Len(r) = Len(s) - 1
        /\ \A k \in 1..Len(s) - 1 : r[k] = s[k + 1]
  <2>1. \A i \in 2..Len(s) - 1 : times[s[i]] = wake[s[i]]
    <3> TAKE i \in 2..Len(s) - 1
    <3>1. i \in 1..Len(s) - 1 /\ i \in 1..Len(s)
      BY <1>3
    <3>2. s[i] \in Nodes \ {"sentinel"}
      BY <1>3, <3>1
    <3> QED  BY <3>2
  <2>2. /\ Linked(Tail(s)) /\ TimesOrdered(Tail(s), times, now) /\ Len(Tail(s)) = Len(s) - 1
        /\ \A k \in 1..Len(s) - 1 : Tail(s)[k] = s[k + 1]
    BY <1>2, <1>3, <2>1, TailInTime
  <2>3. Tail(s) \in Seq(Nodes)
    BY <2>2 DEF Linked
  <2> QED  BY <2>2, <2>3
<1>6. /\ Len(r) \in Nat /\ Len(r) >= 1 /\ Head(r) = r[1] /\ r[Len(r)] = "sentinel"
      /\ \A i \in 1..Len(r) : r[i] \in Nodes /\ times[r[i]] \in Clocks
  BY <1>3, <1>5 DEF Linked
<1>7. \A i \in 1..Len(r) : r[i] # h /\ r[i] # "deleted"
  <2> TAKE i \in 1..Len(r)
  <2>1. i \in 1..Len(s) - 1 /\ i + 1 \in 2..Len(s) /\ i + 1 \in 1..Len(s) /\ 1 \in 1..Len(s)
    BY <1>3, <1>5
  <2>2. s[i + 1] # s[1]
    BY <1>3, <2>1
  <2> QED  BY <1>3, <1>5, <2>1, <2>2
<1>8. ASSUME NEW u \in {"periodic", lastInsert}, u # h
      PROVE  \E i \in 1..Len(r) - 1 : r[i] = u
  <2>1. PICK q \in 1..Len(s) - 1 : s[q] = u
    BY <1>3, <1>8
  <2>2. q # 1
    BY <1>3, <1>8, <2>1
  <2>3. PICK i \in 1..Len(r) - 1 : i + 1 = q
    BY <1>3, <1>5, <2>2
  <2>4. i \in 1..Len(s) - 1
    BY <1>3, <1>5
  <2> QED  BY <1>5, <2>1, <2>3, <2>4
<1>9. PICK v \in -Overdue..Latest : v = OffAt(w, now) /\ v \in Int
  BY <1>1, RangeFits
<1>10. \A i \in 1..Len(r) - 1 : OffAt(times[r[i]], now) \in -Overdue..Latest
  BY <1>5 DEF TimesOrdered
<1>11. ASSUME NEW i \in 1..Len(r) - 1
       PROVE  Before(w, times[r[i]]) <=> v < OffAt(times[r[i]], now)
  <2>1. i \in 1..Len(r)
    BY <1>6
  <2>2. PICK c \in Clocks : c = times[r[i]]
    BY <1>6, <2>1
  <2>3. PICK y \in -Overdue..Latest : y = OffAt(c, now)
    BY <1>10, <2>2
  <2>4. v - y \in -Half + 1..Half - 1
    BY RangeFits
  <2>5. OffAt(w, now) - OffAt(c, now) \in -Half..Half - 1
    BY <1>9, <2>3, <2>4, WrapFacts
  <2>6. Before(w, c) <=> OffAt(w, now) < OffAt(c, now)
    BY <2>5, BeforeIs
  <2> QED  BY <1>9, <2>2, <2>6
\* The periodic timer is before the sentinel, which it moves along.
<1>12. h = "periodic" => Before(w, times["sentinel"])
  <2> HAVE h = "periodic"
  <2>1. times["sentinel"] = After(w, Half)
    BY <1>1
  <2>2. OffAt(w, now) - OffAt(w, now) \in -Half + 1..Half - 1 /\ OffAt(w, now) <= OffAt(w, now)
    BY <1>9, WrapFacts
  <2>3. Before(w, After(w, Half)) <=> OffAt(w, now) <= OffAt(w, now)
    BY <2>2, SentinelIs
  <2> QED  BY <2>1, <2>2, <2>3
<1>13. PICK later \in [Nodes -> Clocks] :
         later = wake' /\ later[h] = w /\ \A u \in Nodes \ {h} : later[u] = times[u]
  <2> DEFINE new == [times EXCEPT ![h] = w]
  <2>1. new \in [Nodes -> Clocks] /\ new[h] = w /\ \A u \in Nodes \ {h} : new[u] = times[u]
    BY <1>4
  <2>2. wake' = new
    BY <1>1 DEF Reschedule
  <2> HIDE DEF new
  <2> QED  BY <2>1, <2>2
<1>14. later["sentinel"] = After(later["periodic"], Half)
  <2>1. later["sentinel"] = times["sentinel"]
    BY <1>4, <1>13, NodeFacts
  <2>2. CASE h = "periodic"
    BY <1>1, <1>13, <2>1, <2>2
  <2>3. CASE h # "periodic"
    <3>1. "periodic" \in Nodes \ {h} /\ "periodic" \in Nodes \ {"sentinel"}
      BY <2>3, NodeFacts
    <3>2. later["periodic"] = wake["periodic"]
      BY <1>13, <3>1
    <3> QED  BY <1>1, <2>1, <2>3, <3>2
  <2> QED  BY <2>2, <2>3
<1>15. \A i \in 1..Len(r) : later[r[i]] = times[r[i]]
  BY <1>6, <1>7, <1>13
<1>16. ticks' = now
  BY <1>1 DEF Reschedule
<1>17. CASE Before(w, times[r[1]])
  <2>1. timerList' = s /\ lastInsert' = lastInsert /\ SetAlarm(w)
    BY <1>1, <1>5, <1>6, <1>17 DEF Reschedule
  <2> DEFINE x(k) == OffAt(later[s[k]], now)
  <2>2. x(1) = v
    BY <1>3, <1>9, <1>13
  <2>3. \A k \in 2..Len(s) - 1 : k - 1 \in 1..Len(r) - 1 /\ x(k) = OffAt(times[r[k - 1]], now)
    <3> TAKE k \in 2..Len(s) - 1
    <3>1. PICK i \in 1..Len(r) - 1 : i = k - 1 /\ i + 1 = k
      BY <1>3, <1>5
    <3>2. i \in 1..Len(s) - 1 /\ i \in 1..Len(r)
      BY <1>3, <1>5
    <3>3. s[k] = r[i]
      BY <1>5, <3>1, <3>2
    <3>4. x(k) = OffAt(times[r[i]], now)
      BY <1>15, <3>2, <3>3
    <3> QED  BY <3>1, <3>4
  <2> HIDE DEF x
  <2>4. \A i, j \in 1..Len(r) - 1 : i <= j => OffAt(times[r[i]], now) <= OffAt(times[r[j]], now)
    BY <1>5 DEF TimesOrdered
  <2>5. \A k \in 1..Len(s) - 1 : k = 1 \/ k \in 2..Len(s) - 1
    BY <1>3
  <2>6. ASSUME NEW k \in 2..Len(s) - 1
        PROVE  x(k) \in -Overdue..Latest /\ x(k) \in Int /\ v <= x(k)
    <3>1. PICK i \in 1..Len(r) - 1 : i = k - 1 /\ x(k) = OffAt(times[r[i]], now)
      BY <2>3
    <3>2. 1 \in 1..Len(r) - 1 /\ 1 <= i
      BY <1>6, <3>1
    <3>3. PICK y \in -Overdue..Latest : y = OffAt(times[r[1]], now) /\ y \in Int
      BY <1>10, <3>2, RangeFits
    <3>4. v < y
      BY <1>11, <1>17, <3>2, <3>3
    <3>5. y <= x(k)
      BY <2>4, <3>1, <3>2, <3>3
    <3>6. x(k) \in -Overdue..Latest /\ x(k) \in Int
      BY <1>10, <3>1, RangeFits
    <3> QED  BY <1>9, <3>3, <3>4, <3>5, <3>6
  <2>7. TimesOrdered(s, later, now)
    <3>1. \A k \in 1..Len(s) - 1 : x(k) \in -Overdue..Latest
      BY <2>2, <2>5, <2>6
    <3>2. ASSUME NEW i \in 1..Len(s) - 1, NEW j \in 1..Len(s) - 1, i <= j
          PROVE  x(i) <= x(j)
      <4>1. CASE i = 1 /\ j = 1
        BY <1>9, <2>2, <4>1
      <4>2. CASE i = 1 /\ j \in 2..Len(s) - 1
        BY <2>2, <2>6, <4>2
      <4>3. CASE i \in 2..Len(s) - 1
        <5>1. j \in 2..Len(s) - 1 /\ i - 1 <= j - 1
          BY <3>2, <4>3
        <5> QED  BY <2>3, <2>4, <4>3, <5>1
      <4> QED  BY <2>5, <4>1, <4>2, <4>3
    <3> QED  BY <3>1, <3>2 DEF TimesOrdered, x
  <2>8. Listing(s, later, lastInsert, now)
    BY <1>2, <1>14, <2>7 DEF Listing
  <2>9. Armed(alarm', later[s[1]], s[1] = "deleted", now)
    <3>1. Armed(alarm', w, FALSE, now)
      BY <1>1, <2>1, SetAlarmFacts
    <3>2. later[s[1]] = w
      BY <1>3, <1>13
    <3> QED  BY <3>1, <3>2 DEF Armed
  <2> QED  BY <1>13, <1>16, <2>1, <2>8, <2>9 DEF TimerInv
<1>18. CASE ~Before(w, times[r[1]])
  <2> DEFINE from == IF lastInsert = h THEN 0
                     ELSE IF Before(w, times[lastInsert]) THEN 1 ELSE Place(r, lastInsert)
  <2>1. /\ timerList' = Inserted(r, from, h, w, times) /\ lastInsert' = h
        /\ SetAlarm(times[r[1]])
    BY <1>1, <1>5, <1>6, <1>18 DEF Reschedule
  <2>2. Len(r) >= 2
    <3>1. CASE h = "periodic"
      <4>1. r[1] # "sentinel"
        BY <1>12, <1>18, <3>1
      <4> QED  BY <1>6, <4>1
    <3>2. CASE h # "periodic"
      <4>1. PICK i \in 1..Len(r) - 1 : r[i] = "periodic"
        BY <1>8, <3>2
      <4> QED  BY <1>6, <4>1
    <3> QED  BY <3>1, <3>2
  <2>3. 1 \in 1..Len(r) - 1 /\ 1 \in 1..Len(r)
    BY <1>6, <2>2
  <2>4. OffAt(times[r[1]], now) \in -Overdue..Latest /\ OffAt(times[r[1]], now) <= v
    <3>1. PICK y \in -Overdue..Latest : y = OffAt(times[r[1]], now) /\ y \in Int
      BY <1>10, <2>3, RangeFits
    <3>2. ~(v < y)
      BY <1>11, <1>18, <2>3, <3>1
    <3> QED  BY <1>9, <3>1, <3>2
  <2>5. PICK p \in 0..Len(r) - 1 :
          p = from /\ (p > 0 => OffAt(times[r[p]], now) <= OffAt(w, now))
    <3>1. CASE lastInsert = h
      <4>1. from = 0 /\ 0 \in 0..Len(r) - 1
        BY <1>6, <3>1
      <4> QED  BY <4>1
    <3>2. CASE lastInsert # h /\ Before(w, times[lastInsert])
      <4>1. from = 1 /\ 1 \in 0..Len(r) - 1
        BY <2>3, <3>2
      <4> QED  BY <1>9, <2>4, <4>1
    <3>3. CASE lastInsert # h /\ ~Before(w, times[lastInsert])
      <4>1. PICK k : k = Place(r, lastInsert) /\ from = k
        BY <3>3
      <4>2. PICK i \in 1..Len(r) - 1 : r[i] = lastInsert
        BY <1>8, <3>3
      <4>3. i \in DOMAIN r /\ DOMAIN r = 1..Len(r)
        BY <1>6
      <4>4. k \in DOMAIN r /\ r[k] = lastInsert
        BY <4>1, <4>2, <4>3 DEF Place
      <4>5. k = i
        <5>1. \A j, l \in 1..Len(r) : r[j] = r[l] => j = l
          BY <1>5 DEF Linked
        <5>2. k \in 1..Len(r) /\ i \in 1..Len(r) /\ r[k] = r[i]
          BY <4>2, <4>3, <4>4
        <5> QED  BY <5>1, <5>2
      <4>6. ~(v < OffAt(times[r[i]], now)) /\ OffAt(times[r[i]], now) \in -Overdue..Latest
        BY <1>10, <1>11, <3>3, <4>2
      <4>7. OffAt(times[r[i]], now) <= v
        BY <1>9, <4>6, RangeFits
      <4>8. i \in 0..Len(r) - 1
        BY <1>6
      <4> QED  BY <1>9, <4>1, <4>5, <4>7, <4>8
    <3> QED  BY <3>1, <3>2, <3>3
  <2> HIDE DEF from
  <2>6. \E i \in p + 1..Len(r) : Before(w, times[r[i]])
    <3>1. CASE h = "periodic"
      <4>1. Len(r) \in p + 1..Len(r)
        BY <1>6
      <4> QED  BY <1>6, <1>12, <3>1, <4>1
    <3>2. CASE h # "periodic"
      <4>1. PICK i \in 1..Len(r) - 1 : r[i] = "periodic"
        BY <1>8, <3>2
      <4>2. PICK q \in 1..Len(r) : r[q] = "periodic"
        BY <1>6, <4>1
      <4>3. times["sentinel"] = After(times["periodic"], Half)
        <5>1. times["periodic"] = wake["periodic"]
          BY NodeFacts
        <5> QED  BY <1>1, <3>2, <5>1
      <4>4. OffAt(w, now) \in -Overdue..Latest
        BY <1>9
      <4>5. /\ Linked(r) /\ TimesOrdered(r, times, now)
            /\ p > 0 => OffAt(times[r[p]], now) <= OffAt(w, now)
        BY <1>5, <2>5
      <4> QED  BY <4>2, <4>3, <4>4, <4>5, LaterIsListed
    <3> QED  BY <3>1, <3>2
  <2>7. Insertable(r, p, h, w, times, now)
    BY <1>4, <1>5, <1>7, <1>9, <2>5, <2>6 DEF Insertable
  <2>8. Rewoken(r, h, w, times, later, h)
    <3>1. \A i \in 1..Len(r) - 1 : later[r[i]] = times[r[i]]
      BY <1>6, <1>15
    <3>2. ASSUME NEW u \in {"periodic", h}  PROVE u = h \/ \E i \in 1..Len(r) : r[i] = u
      <4>1. CASE u = h
        BY <4>1
      <4>2. CASE u # h
        <5>1. PICK i \in 1..Len(r) - 1 : r[i] = u
          BY <1>8, <3>2, <4>2
        <5>2. i \in 1..Len(r)
          BY <1>6
        <5> QED  BY <5>1, <5>2
      <4> QED  BY <4>1, <4>2
    <3> QED  BY <1>13, <1>14, <3>1, <3>2 DEF Rewoken
  <2>9. \A i \in 2..Len(r) : r[i] # "deleted"
    BY <1>6, <1>7
  <2>10. PICK l : l = Inserted(r, p, h, w, times)
    OBVIOUS
  <2>11. Listing(l, later, h, now) /\ l[1] = r[1]
    BY <1>18, <2>7, <2>8, <2>9, <2>10, InsertedListing
  <2>12. timerList' = l
    BY <2>1, <2>5, <2>10
  <2>13. Armed(alarm', later[l[1]], l[1] = "deleted", now)
    <3>1. PICK c \in Clocks : c = times[r[1]]
      BY <1>6, <2>3
    <3>2. Armed(alarm', c, FALSE, now)
      BY <1>1, <2>1, <2>4, <3>1, SetAlarmFacts
    <3>3. later[l[1]] = c
      BY <1>15, <2>3, <2>11, <3>1
    <3> QED  BY <3>2, <3>3 DEF Armed
  <2> QED  BY <1>13, <1>16, <2>1, <2>11, <2>12, <2>13 DEF TimerInv
<1> QED  BY <1>17, <1>18

LEMMA DispatchAgainSafe ==
  ASSUME TimerInv, DispatchAgain
  PROVE  TimerInv'
<1>1. PICK w \in WantedTimes : Reschedule(w, wake)
  BY DEF DispatchAgain
<1>2. w \in Clocks /\ OffAt(w, ticks) \in -Overdue..Latest
  BY WantedFacts DEF TimerInv
<1>3. HeadTimer \in Users \cup {"periodic"} /\ HeadTimer # "periodic"
  BY NodeFacts DEF DispatchAgain
<1>4. wake \in [Nodes -> Clocks] /\ wake["sentinel"] = After(wake["periodic"], Half)
  BY DEF TimerInv, Listing
<1>5. PICK times \in [Nodes -> Clocks] : times = wake
  BY <1>4
<1>6. times["sentinel"] = After(IF HeadTimer = "periodic" THEN w ELSE wake["periodic"], Half)
  BY <1>3, <1>4, <1>5
<1>7. Reschedule(w, times) /\ \A u \in Nodes \ {"sentinel"} : times[u] = wake[u]
  BY <1>1, <1>5
<1> QED  BY <1>2, <1>3, <1>6, <1>7, RescheduleSafe

LEMMA DispatchPeriodicSafe ==
  ASSUME TimerInv, DispatchPeriodic
  PROVE  TimerInv'
<1>1. PICK w : w = After(wake["periodic"], Period)
  OBVIOUS
<1>2. PICK times : times = [wake EXCEPT !["sentinel"] = After(w, Half)]
  OBVIOUS
<1>3. Reschedule(w, times) /\ HeadTimer = "periodic"
  BY <1>1, <1>2 DEF DispatchPeriodic
<1>4. /\ ticks \in Clocks /\ wake["periodic"] \in Clocks
      /\ OffAt(wake["periodic"], ticks) \in -Overdue..Latest
      /\ HeadTimer = timerList[1]
  BY ListingFacts DEF TimerInv, HeadTimer
<1>5. PICK o \in -Overdue..Latest : o = OffAt(wake["periodic"], ticks)
  BY <1>4
<1>6. o <= 0
  <2>1. OffAt(alarm, ticks) <= 0
    <3>1. OffAt(alarm, ticks) \in -Half + 1..Half - 1 /\ alarm \in Clocks
      BY RangeFits, WrapFacts DEF TimerInv, Armed
    <3> QED  BY <1>4, <3>1, DueIs DEF DispatchPeriodic
  <2>2. o <= OffAt(alarm, ticks)
    BY <1>3, <1>4, <1>5 DEF TimerInv, Armed
  <2>3. OffAt(alarm, ticks) \in Int
    BY RangeFits, WrapFacts DEF TimerInv, Armed
  <2> QED  BY <2>1, <2>2, <2>3, RangeFits
<1>7. w \in Clocks /\ OffAt(w, ticks) \in -Overdue..Latest
  <2>1. PICK k \in -Half..Half : k = Period
    BY WrapFacts
  <2>2. o + k \in -Half..Half - 1 /\ o + k \in -Overdue..Latest
    BY <1>6, <2>1, RangeFits, WrapFacts
  <2>3. PICK c \in Clocks : c = wake["periodic"]
    BY <1>4
  <2>4. OffAt(c, ticks) + k \in -Half..Half - 1 /\ OffAt(c, ticks) + k = o + k
    BY <1>5, <2>2, <2>3
  <2>5. After(c, k) \in Clocks /\ OffAt(After(c, k), ticks) = OffAt(c, ticks) + k
    BY <1>4, <2>4, AfterIs
  <2> QED  BY <1>1, <2>1, <2>2, <2>3, <2>4, <2>5
<1>8. times \in [Nodes -> Clocks] /\ times["sentinel"] = After(w, Half)
  <2>1. wake \in [Nodes -> Clocks] /\ "sentinel" \in Nodes
    BY NodeFacts DEF TimerInv, Listing
  <2>2. After(w, Half) \in Clocks
    <3>1. Half \in -Half..Half
      BY WrapFacts
    <3> QED  BY <1>4, <1>7, <3>1, AfterIs
  <2> QED  BY <1>2, <2>1, <2>2
<1>9. \A u \in Nodes \ {"sentinel"} : times[u] = wake[u]
  BY <1>2 DEF TimerInv, Listing
<1>10. /\ HeadTimer \in Users \cup {"periodic"}
       /\ times["sentinel"] =
             After(IF HeadTimer = "periodic" THEN w ELSE wake["periodic"], Half)
  BY <1>3, <1>8
<1> QED  BY <1>3, <1>7, <1>8, <1>9, <1>10, RescheduleSafe

LEMMA TickSafe ==
  ASSUME TimerInv, TimerTick
  PROVE  TimerInv'
<1>1. PICK s \in Seq(Nodes), times \in [Nodes -> Clocks], now \in Clocks, a \in Clocks :
         s = timerList /\ times = wake /\ now = ticks /\ a = alarm
  BY ListingFacts DEF TimerInv, Listing, Armed
<1>2. PICK next \in Clocks : next = ticks'
  <2>1. now > -1 /\ 1 \in -Half..Half
    BY WrapFacts
  <2>2. After(now, 1) \in Clocks
    BY <2>1, AfterIs
  <2> QED  BY <1>1, <2>2 DEF TimerTick
<1>3. /\ Listing(s, times, lastInsert, now) /\ Linked(s) /\ TimesOrdered(s, times, now)
      /\ Armed(a, times[s[1]], s[1] = "deleted", now)
  BY <1>1 DEF TimerInv, Listing
<1>4. /\ Len(s) \in Nat /\ Len(s) >= 2
      /\ \A i \in 1..Len(s) : s[i] \in Nodes /\ times[s[i]] \in Clocks
      /\ \A i \in 1..Len(s) - 1 :
            /\ OffAt(times[s[i]], now) \in -Overdue..Latest
            /\ OffAt(times[s[i]], now) \in Int
            /\ OffAt(times[s[1]], now) <= OffAt(times[s[i]], now)
  BY <1>3, ListingFacts
<1>5. PICK m \in Int : m = OffAt(a, now)
  BY <1>3, RangeFits, WrapFacts DEF Armed
<1>6. /\ m >= -Overdue /\ m <= Latest + TooLate + Defer
      /\ m <= OffAt(times[s[1]], now) + TooLate + Defer
      /\ s[1] = "deleted" \/ OffAt(times[s[1]], now) <= m
  BY <1>3, <1>5, RangeFits, WrapFacts DEF Armed
\* The interrupt is not held up for longer than Latency.
<1>7. m + Latency > 0
  <2>1. PICK k \in -Half..Half : k = Latency
    BY WrapFacts
  <2>2. m + k \in -Half + 1..Half - 1
    BY <1>6, <2>1, RangeFits, WrapFacts DEF Overdue
  <2>3. OffAt(a, now) + k \in -Half..Half - 1 /\ OffAt(a, now) + k = m + k
    BY <1>5, <2>2, WrapFacts
  <2>4. After(a, k) \in Clocks /\ OffAt(After(a, k), now) = OffAt(a, now) + k
    BY <2>3, AfterIs
  <2>5. PICK c \in Clocks : c = After(a, k)
    BY <2>4
  <2>6. OffAt(now, now) = 0 /\ OffAt(c, now) = m + k
    BY <2>3, <2>4, <2>5, OffNow
  <2>7. OffAt(now, now) - OffAt(c, now) \in -Half..Half - 1
    BY <2>2, <2>6, WrapFacts
  <2>8. Before(now, c) <=> OffAt(now, now) < OffAt(c, now)
    BY <2>7, BeforeIs
  <2>9. Before(now, c)
    BY <1>1, <2>1, <2>5 DEF TimerTick
  <2> QED  BY <2>1, <2>6, <2>8, <2>9
<1>8. next = After(now, 1)
  BY <1>1, <1>2 DEF TimerTick
<1>9. ASSUME NEW c \in Clocks, OffAt(c, now) > -Half
      PROVE  OffAt(c, next) = OffAt(c, now) - 1
  BY <1>8, <1>9, NowPasses
<1>10. ASSUME NEW i \in 1..Len(s) - 1
       PROVE  /\ OffAt(times[s[i]], next) = OffAt(times[s[i]], now) - 1
              /\ OffAt(times[s[i]], next) \in -Overdue..Latest
              /\ OffAt(times[s[i]], next) \in Int
  <2>1. i \in 1..Len(s) /\ 1 \in 1..Len(s) - 1
    BY <1>4
  <2>2. PICK c \in Clocks : c = times[s[i]]
    BY <1>4, <2>1
  <2>3. PICK o \in -Overdue..Latest : o = OffAt(c, now) /\ o \in Int
    BY <1>4, <2>2
  <2>4. OffAt(c, next) = o - 1
    BY <1>9, <2>3, RangeFits, WrapFacts
  <2>5. PICK b \in Int : b = OffAt(times[s[1]], now)
    BY <1>4, <2>1
  <2>6. b <= o /\ m <= b + TooLate + Defer
    BY <1>4, <1>6, <2>2, <2>3, <2>5
  <2>7. o - 1 >= -Overdue
    BY <1>7, <2>3, <2>5, <2>6, WrapFacts DEF Overdue
  <2>8. o - 1 \in -Overdue..Latest
    BY <2>3, <2>7, RangeFits
  <2> QED  BY <2>2, <2>3, <2>4, <2>8
<1>11. TimesOrdered(s, times, next)
  <2>1. ASSUME NEW i \in 1..Len(s) - 1, NEW j \in 1..Len(s) - 1, i <= j
        PROVE  OffAt(times[s[i]], next) <= OffAt(times[s[j]], next)
    <3>1. OffAt(times[s[i]], now) <= OffAt(times[s[j]], now)
      BY <1>3, <2>1 DEF TimesOrdered
    <3>2. OffAt(times[s[i]], now) \in Int /\ OffAt(times[s[j]], now) \in Int
      BY <1>4
    <3> QED  BY <1>10, <3>1, <3>2
  <2> QED  BY <1>10, <2>1 DEF TimesOrdered
<1>12. Listing(s, times, lastInsert, next)
  BY <1>3, <1>11 DEF Listing
<1>13. Armed(a, times[s[1]], s[1] = "deleted", next)
  <2>1. OffAt(a, next) = m - 1
    BY <1>5, <1>6, <1>9, RangeFits, WrapFacts
  <2>2. 1 \in 1..Len(s) - 1
    BY <1>4
  <2>3. PICK b \in Int : b = OffAt(times[s[1]], now) /\ OffAt(times[s[1]], next) = b - 1
    BY <1>4, <1>10, <2>2
  <2>4. m - 1 \in -Overdue..Latest + TooLate + Defer
    BY <1>6, <1>7, RangeFits, WrapFacts DEF Overdue
  <2>5. m - 1 <= b - 1 + TooLate + Defer
    BY <1>6, <2>3, WrapFacts
  <2>6. b <= m => b - 1 <= m - 1
    OBVIOUS
  <2>7. s[1] = "deleted" \/ b <= m
    BY <1>6, <2>3
  <2>8. s[1] = "deleted" \/ OffAt(times[s[1]], next) <= OffAt(a, next)
    BY <2>1, <2>3, <2>6, <2>7
  <2> QED  BY <2>1, <2>3, <2>4, <2>5, <2>8 DEF Armed
<1>14. timerList' = s /\ wake' = times /\ lastInsert' = lastInsert /\ alarm' = a
  BY <1>1 DEF TimerTick
<1> QED  BY <1>2, <1>12, <1>13, <1>14 DEF TimerInv

LEMMA TimerInitSafe ==
  ASSUME TimerInit
  PROVE  TimerInv
<1>1. PICK s \in Seq(Nodes) : s = <<"periodic", "sentinel">>
  <2>1. PICK p \in Nodes, e \in Nodes : p = "periodic" /\ e = "sentinel"
    BY NodeFacts
  <2>2. <<p, e>> \in Seq(Nodes)
    OBVIOUS
  <2> QED  BY <2>1, <2>2
<1>2. Len(s) = 2 /\ s[1] = "periodic" /\ s[2] = "sentinel"
  BY <1>1
<1>3. 0 \in Clocks /\ Half \in Clocks
  BY WrapFacts
<1>4. PICK times \in [Nodes -> Clocks] :
         times = wake /\ times["periodic"] = 0 /\ times["sentinel"] = Half
  <2>1. wake = [t \in Nodes |-> IF t = "sentinel" THEN Half ELSE 0]
    BY DEF TimerInit
  <2> QED  BY <1>3, <2>1, NodeFacts
<1>5. PICK now \in Clocks : now = 0 /\ ticks = now /\ alarm = now
  BY <1>3 DEF TimerInit
<1>6. OffAt(now, now) = 0 /\ 0 \in -Overdue..Latest /\ 0 \in -Overdue..Latest + TooLate + Defer
  BY OffNow, RangeFits, WrapFacts
<1>7. TimesOrdered(s, times, now)
  <2>1. \A i \in 1..Len(s) - 1 : OffAt(times[s[i]], now) = 0
    BY <1>2, <1>4, <1>5, <1>6
  <2> QED  BY <1>6, <2>1 DEF TimesOrdered
<1>8. times["sentinel"] = After(times["periodic"], Half)
  <2>1. PICK k \in Nat : k = Half /\ Wrap \in Nat \ {0} /\ k < Wrap
    BY WrapFacts
  <2>2. PICK a \in -Wrap..2 * Wrap - 1 : a = 0 + k /\ a \in Int /\ ~(a < 0) /\ ~(a >= Wrap)
    BY <2>1
  <2>3. a % Wrap = IF a < 0 THEN a + Wrap ELSE IF a >= Wrap THEN a - Wrap ELSE a
    BY <2>2, WrapIs
  <2>4. a % Wrap = k
    BY <2>1, <2>2, <2>3
  <2>5. After(0, k) = k
    BY <2>2, <2>4 DEF After
  <2> QED  BY <1>4, <2>1, <2>5
<1>9. Linked(s)
  BY <1>2 DEF Linked
<1>10. Listing(s, times, "periodic", now)
  <2>1. \E i \in 1..Len(s) : s[i] = "periodic"
    BY <1>2
  <2>2. \A i \in 2..Len(s) : s[i] # "deleted"
    BY <1>2
  <2> QED  BY <1>7, <1>8, <1>9, <2>1, <2>2 DEF Listing
<1>11. Armed(now, times[s[1]], s[1] = "deleted", now)
  <2>1. times[s[1]] = now
    BY <1>2, <1>4, <1>5
  <2>2. PICK z \in Int : z = OffAt(now, now) /\ z = 0
    BY <1>6
  <2>3. z <= z + TooLate + Defer /\ z <= z
    BY <2>2, WrapFacts
  <2> QED  BY <1>6, <2>1, <2>2, <2>3 DEF Armed
<1> QED  BY <1>1, <1>4, <1>5, <1>10, <1>11 DEF TimerInit, TimerInv

\* What the invariant says of the property.
LEMMA TimerInvImplies ==
  ASSUME TimerInv
  PROVE  TimersRight
<1>1. PICK s \in Seq(Nodes), times \in [Nodes -> Clocks], now \in Clocks, a \in Clocks :
         s = timerList /\ times = wake /\ now = ticks /\ a = alarm
  BY ListingFacts DEF TimerInv, Listing, Armed
<1>2. /\ Listing(s, times, lastInsert, now) /\ TimesOrdered(s, times, now)
      /\ Armed(a, times[s[1]], s[1] = "deleted", now)
  BY <1>1 DEF TimerInv, Listing
<1>3. /\ Len(s) \in Nat /\ Len(s) >= 2 /\ HeadTimer = s[1]
      /\ \A i \in 1..Len(s) : s[i] \in Nodes /\ times[s[i]] \in Clocks
      /\ \A i \in 1..Len(s) - 1 : s[i] # "sentinel"
      /\ s[Len(s)] = "sentinel"
      /\ \A i, j \in 1..Len(s) : s[i] = s[j] => i = j
      /\ \A i \in 1..Len(s) - 1 : OffAt(times[s[i]], now) \in -Overdue..Latest
  <2>1. HeadTimer = Head(s)
    BY <1>1 DEF HeadTimer
  <2> QED  BY <1>2, <2>1, ListingFacts
<1>4. 1 \in 1..Len(s) - 1 /\ 1 \in 1..Len(s)
  BY <1>3
<1>5. PICK w \in Clocks, o \in -Overdue..Latest :
         w = times[s[1]] /\ o = OffAt(w, now) /\ o \in Int
  BY <1>3, <1>4, RangeFits
<1>6. PICK m \in Int :
        /\ m = OffAt(a, now) /\ m >= -Overdue /\ m <= Latest + TooLate + Defer
        /\ m <= o + TooLate + Defer /\ (s[1] = "deleted" \/ o <= m)
  BY <1>2, <1>5, RangeFits, WrapFacts DEF Armed
<1>7. ListOrdered
  <2>1. ASSUME NEW i \in 1..Len(s) - 2  PROVE ~Before(times[s[i + 1]], times[s[i]])
    <3>1. i \in 1..Len(s) - 1 /\ i + 1 \in 1..Len(s) - 1 /\ i <= i + 1
          /\ i \in 1..Len(s) /\ i + 1 \in 1..Len(s)
      BY <1>3
    <3>2. PICK c \in Clocks, d \in Clocks : c = times[s[i + 1]] /\ d = times[s[i]]
      BY <1>3, <3>1
    <3>3. PICK x \in -Overdue..Latest, y \in -Overdue..Latest :
             x = OffAt(c, now) /\ y = OffAt(d, now) /\ x \in Int /\ y \in Int
      BY <1>3, <3>1, <3>2, RangeFits
    <3>4. y <= x
      BY <1>2, <3>1, <3>2, <3>3 DEF TimesOrdered
    <3>5. x - y \in -Half + 1..Half - 1
      BY RangeFits
    <3>6. OffAt(c, now) - OffAt(d, now) \in -Half..Half - 1
      BY <3>3, <3>5, WrapFacts
    <3>7. Before(c, d) <=> OffAt(c, now) < OffAt(d, now)
      BY <3>6, BeforeIs
    <3> QED  BY <3>2, <3>3, <3>4, <3>7
  <2>2. DOMAIN s = 1..Len(s)
    BY <1>3
  <2>3. Last(s) = "sentinel"
    BY <1>3 DEF Last
  <2>4. ASSUME NEW u, \E i \in 1..Len(s) : s[i] = u  PROVE u \in ToSet(s)
    BY <2>2, <2>4 DEF ToSet
  <2>5. "periodic" \in ToSet(s) /\ lastInsert \in ToSet(s)
    BY <1>2, <2>4 DEF Listing
  <2>6. HeadTimer # "sentinel"
    BY <1>3, <1>4
  <2> QED  BY <1>1, <1>3, <2>1, <2>2, <2>3, <2>5, <2>6 DEF ListOrdered
<1>8. NeverEarly
  <2>1. Due(a) <=> m <= 0
    <3>1. OffAt(a, ticks) \in -Half + 1..Half - 1
      BY <1>1, <1>6, RangeFits, WrapFacts
    <3> QED  BY <1>1, <1>6, <3>1, DueIs
  <2>2. Due(w) <=> o <= 0
    <3>1. OffAt(w, ticks) \in -Half + 1..Half - 1
      BY <1>1, <1>5, RangeFits, WrapFacts
    <3> QED  BY <1>1, <1>5, <3>1, DueIs
  <2>3. o <= m /\ m <= 0 => o <= 0
    OBVIOUS
  <2> QED  BY <1>1, <1>3, <1>5, <1>6, <2>1, <2>2, <2>3 DEF NeverEarly
<1>9. NeverMissed
  <2>1. PICK k \in -Half..Half : k = TooLate + Defer /\ k >= 0
    BY WrapFacts
  <2>2. o + k \in -Half..Half - 1 /\ o + k - m \in -Half..Half - 1 /\ m <= o + k
    <3>1. PICK l \in Int, v \in Int, h \in Int : 
             l = Latest /\ v = Overdue /\ h = Half /\ v > 0 /\ l > 0
      BY RangeFits, WrapFacts
    <3>2. m >= -v /\ m <= o + k
      BY <1>6, <2>1, <3>1, WrapFacts
    <3>3. o >= -v /\ o <= l
      BY <3>1
    <3>4. l + k + v < h
      BY <2>1, <3>1, RangeFits, WrapFacts
    <3>5. o \in Int /\ m \in Int /\ k \in Int
      BY <1>5, <1>6, <2>1, <3>1
    <3>6. o + k \in -h..h - 1 /\ o + k - m \in -h..h - 1
      <4>1. k >= 0 /\ l > 0 /\ v > 0 /\ l \in Int /\ v \in Int /\ h \in Int
        BY <2>1, <3>1
      <4>2. -h <= o + k /\ o + k <= h - 1
        BY <3>3, <3>4, <3>5, <4>1
      <4>3. -h <= o + k - m /\ o + k - m <= h - 1
        BY <3>2, <3>3, <3>4, <3>5, <4>1
      <4> QED  BY <3>5, <4>1, <4>2, <4>3
    <3> QED  BY <3>1, <3>2, <3>6
  <2>3. OffAt(w, now) + k \in -Half..Half - 1 /\ OffAt(w, now) + k = o + k
    BY <1>5, <2>2
  <2>4. After(w, k) \in Clocks /\ OffAt(After(w, k), now) = OffAt(w, now) + k
    BY <2>3, AfterIs
  <2>5. PICK c \in Clocks : c = After(w, k) /\ OffAt(c, now) = o + k
    BY <2>3, <2>4
  <2>6. OffAt(c, now) - OffAt(a, now) \in -Half..Half - 1
    BY <1>6, <2>2, <2>5
  <2>7. Before(c, a) <=> OffAt(c, now) < OffAt(a, now)
    BY <2>6, BeforeIs
  <2>8. ~(o + k < m)
    BY <2>1, <2>2
  <2>9. ~Before(c, a)
    BY <1>6, <2>5, <2>7, <2>8
  <2> QED  BY <1>1, <1>3, <1>5, <2>1, <2>5, <2>9 DEF NeverMissed
<1> QED  BY <1>7, <1>8, <1>9 DEF TimersRight

\* Timers run in order, none too early and none too late, however they are added,
\* deleted and rescheduled while the clock wraps (sched.c:62-232): the list, the
\* interrupt and the stand-in of a head that was deleted.
THEOREM TimersAreRight == TimerSpec => []TimersRight
<1>1. TimerInit => TimerInv
  BY TimerInitSafe
<1>2. TimerInv /\ [TimerNext]_timerVars => TimerInv'
  <2> SUFFICES ASSUME TimerInv, [TimerNext]_timerVars  PROVE TimerInv'
    OBVIOUS
  <2>1. CASE \E t \in Users, w \in WantedTimes : AddFirst(t, w)
    BY <2>1, AddFirstSafe
  <2>2. CASE \E t \in Users, w \in WantedTimes : AddLater(t, w)
    BY <2>2, AddLaterSafe
  <2>3. CASE \E t \in Users : Delete(t)
    BY <2>3, DeleteSafe
  <2>4. CASE DispatchDone
    BY <2>4, DispatchDoneSafe
  <2>5. CASE DispatchAgain
    BY <2>5, DispatchAgainSafe
  <2>6. CASE DispatchPeriodic
    BY <2>6, DispatchPeriodicSafe
  <2>7. CASE ShutdownTimers
    BY <2>7, ResetSafe DEF ShutdownTimers
  <2>8. CASE TimerTick
    BY <2>8, TickSafe
  <2>9. CASE UNCHANGED timerVars
    <3>1. /\ timerList' = timerList /\ wake' = wake /\ lastInsert' = lastInsert
          /\ ticks' = ticks /\ alarm' = alarm
      BY <2>9 DEF timerVars
    <3> QED  BY <3>1 DEF TimerInv
  <2> QED  BY <2>1, <2>2, <2>3, <2>4, <2>5, <2>6, <2>7, <2>8, <2>9 DEF TimerNext
<1>3. TimerInv => TimersRight
  BY TimerInvImplies
<1> QED  BY <1>1, <1>2, <1>3, PTL DEF TimerSpec
=============================================================================
