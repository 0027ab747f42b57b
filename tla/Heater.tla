------------------------------- MODULE Heater --------------------------------
(***************************************************************************)
(* The output of a heater: klippy/extras/heaters.py sends new values of    *)
(* its pin only when they matter or when the last one runs out; the        *)
(* firmware (src/gpiocmds.c) applies each at its time and shuts down when  *)
(* a heater is on and no new value comes.  It shuts down, too, when the    *)
(* temperature is out of range for some samples (src/adccmds.c).           *)
(*                                                                         *)
(* Time is in reports of the temperature.  A power is a number, and two    *)
(* powers differ when they are Significant apart.  Which power the control *)
(* asks for is left open.                                                  *)
(***************************************************************************)
EXTENDS Integers, Sequences

CONSTANTS
    Powers,             \* what the control asks for, with 0
    Significant,        \* 0.05 in set_pwm
    PwmDelay,           \* pwm_delay
    RefreshTime,        \* 0.75 * MAX_HEAT_TIME
    MaxDuration,        \* MAX_HEAT_TIME, max_duration of the pin
    RangeChecks,        \* RANGE_CHECK_COUNT
    CommandDelay,       \* how late a command may be
    MaxLost,            \* how many reports in a row may be lost
    LastReport          \* bound of the model: time

\* MAX_HEAT_TIME leaves room for reports that are lost and for the way of a command.
ASSUME HeaterAssumption ==
    /\ Powers \subseteq Nat /\ Significant \in Nat \ {0} /\ PwmDelay \in Nat \ {0}
    /\ {RefreshTime, MaxDuration, RangeChecks, CommandDelay, MaxLost, LastReport} \subseteq Nat
    /\ CommandDelay <= PwmDelay
    /\ RefreshTime + MaxLost + PwmDelay <= MaxDuration
    /\ RefreshTime + MaxLost + CommandDelay < MaxDuration

Unset == -1

VARIABLES
    reportTime,
    alive,              \* the host runs
    targetTemp,         \* 0 or 1: it is to heat
    lastPwm, nextPwm,   \* last_pwm_value and next_pwm_time
    lost, fresh,        \* reports lost in a row; one is there for the host
    cable,              \* commands queue_digital_out on their way
    minClock,           \* _last_clock of MCU_pwm
    pinQueue,           \* mq of digital_out_s
    pin, endTime, pinTimer, \* of digital_out_s; Unset without DF_CHECK_END, timer
    invalid,            \* invalid_count of analog_in
    shutdown,           \* why the firmware is shut down, "no" otherwise
    loadedAt, zeroAt    \* history: the last load; since when the target is 0

pinVars == <<pinQueue, pin, endTime, pinTimer, loadedAt>>
pwmVars == <<lastPwm, nextPwm, minClock>>
reportVars == <<lost, fresh>>
heaterVars == <<reportTime, alive, targetTemp, pwmVars, reportVars, cable, pinVars, invalid,
                shutdown, zeroAt>>

HeaterInit ==
    /\ reportTime = 0 /\ alive = TRUE /\ targetTemp = 0 /\ lastPwm = 0 /\ nextPwm = 0
    /\ lost = 0 /\ fresh = FALSE /\ cable = << >> /\ minClock = 0
    /\ pinQueue = << >> /\ pin = 0 /\ endTime = Unset /\ pinTimer = Unset
    /\ invalid = 0 /\ shutdown = "no" /\ loadedAt = 0 /\ zeroAt = 0

Distance(a, b) == IF a >= b THEN a - b ELSE b - a

-----------------------------------------------------------------------------
(* The host.                                                               *)

\* Heater.set_temp and alter_target.
SetTarget(t) ==
    /\ alive /\ t # targetTemp /\ targetTemp' = t
    /\ zeroAt' = IF t = 0 THEN reportTime ELSE zeroAt
    /\ UNCHANGED <<reportTime, alive, pwmVars, reportVars, cable, pinVars, invalid, shutdown>>

\* Mutant of Suppressed: a value that has not changed is never sent again.
NoRefresh(power) == Distance(power, lastPwm) < Significant

Suppressed(power) ==
    /\ reportTime < nextPwm \/ lastPwm = 0
    /\ Distance(power, lastPwm) < Significant

\* set_pwm: nothing while the target is 0.
PowerFor(power) == IF targetTemp = 0 THEN 0 ELSE power

\* read_time is the reportTime.
SetPwm(power) ==
    IF Suppressed(PowerFor(power)) THEN UNCHANGED <<pwmVars, cable>>
    ELSE /\ lastPwm' = PowerFor(power)
         /\ nextPwm' = reportTime + PwmDelay + RefreshTime
         /\ minClock' = reportTime + PwmDelay
         /\ cable' = Append(cable, [sent |-> reportTime, min |-> minClock,
                                    at |-> reportTime + PwmDelay, power |-> PowerFor(power)])

\* temperature_callback, in the thread of the host that has the report.
Callback(power) ==
    /\ alive /\ fresh /\ fresh' = FALSE /\ SetPwm(power)
    /\ UNCHANGED <<reportTime, alive, targetTemp, lost, pinVars, invalid, shutdown, zeroAt>>

\* The host ends, or no longer comes to its work.
HostEnds ==
    /\ alive /\ alive' = FALSE
    /\ UNCHANGED <<reportTime, targetTemp, pwmVars, reportVars, cable, pinVars, invalid, shutdown,
                   zeroAt>>

-----------------------------------------------------------------------------
(* The firmware.                                                           *)

\* digital_out_shutdown.
ShutDown(why) ==
    /\ shutdown' = why /\ pin' = 0 /\ pinQueue' = << >> /\ endTime' = Unset
    /\ pinTimer' = Unset

\* command_queue_digital_out.
TakeCommand ==
    LET c == Head(cable)
    IN  /\ cable # << >> /\ reportTime >= c.min /\ cable' = Tail(cable)
        /\ IF shutdown # "no" THEN UNCHANGED <<pinVars, shutdown>>
           ELSE IF pinQueue # << >>
           THEN pinQueue' = Append(pinQueue, c)
                /\ UNCHANGED <<pin, endTime, pinTimer, loadedAt, shutdown>>
           ELSE IF endTime # Unset /\ endTime < c.at
           THEN ShutDown("max_duration") /\ UNCHANGED loadedAt
           ELSE IF c.at < reportTime
           THEN ShutDown("too close") /\ UNCHANGED loadedAt
           ELSE /\ pinQueue' = <<c>> /\ endTime' = c.at /\ pinTimer' = c.at
                /\ UNCHANGED <<pin, loadedAt, shutdown>>
        /\ UNCHANGED <<reportTime, alive, targetTemp, pwmVars, reportVars, invalid, zeroAt>>

\* Until when a value may stay.
EndOf(power) == IF power = 0 THEN Unset ELSE reportTime + MaxDuration

\* digital_load_event.
LoadValue ==
    /\ pinTimer = reportTime
    /\ IF pinQueue = << >> THEN ShutDown("missed") /\ UNCHANGED loadedAt
       ELSE LET power == Head(pinQueue).power
                rest == Tail(pinQueue)
                next == IF rest = << >> THEN EndOf(power) ELSE Head(rest).at
            IN  IF rest # << >> /\ EndOf(power) # Unset /\ EndOf(power) < next
                THEN ShutDown("max_duration") /\ UNCHANGED loadedAt
                ELSE /\ pin' = power /\ pinQueue' = rest /\ loadedAt' = reportTime
                     /\ endTime' = next /\ pinTimer' = next /\ UNCHANGED shutdown
    /\ UNCHANGED <<reportTime, alive, targetTemp, pwmVars, reportVars, cable, invalid, zeroAt>>

\* invalid_count after a sample.
Invalid(bad) == IF bad THEN invalid + 1 ELSE 0

\* Time passes to the next sample of the temperature: analog_in_event, and its
\* report, which may be lost.
NextReport(bad, isLost) ==
    /\ reportTime < LastReport /\ reportTime' = reportTime + 1
    /\ pinTimer # reportTime
    /\ \A i \in DOMAIN cable :
          reportTime < cable[i].sent + CommandDelay \/ reportTime < cable[i].min
    /\ IF shutdown = "no" /\ Invalid(bad) >= RangeChecks
       THEN ShutDown("out of range") /\ invalid' = 0 /\ UNCHANGED loadedAt
       ELSE /\ invalid' = IF shutdown = "no" THEN Invalid(bad) ELSE 0
            /\ UNCHANGED <<pinVars, shutdown>>
    /\ alive => ~fresh
    /\ isLost => lost < MaxLost
    /\ lost' = (IF isLost THEN lost + 1 ELSE 0) /\ fresh' = ~isLost
    /\ UNCHANGED <<alive, targetTemp, pwmVars, cable, zeroAt>>

HeaterNext ==
    \/ \E t \in {0, 1} : SetTarget(t)
    \/ \E power \in Powers : Callback(power)
    \/ HostEnds \/ TakeCommand \/ LoadValue
    \/ \E bad, isLost \in BOOLEAN : NextReport(bad, isLost)

HeaterSpec == HeaterInit /\ [][HeaterNext]_heaterVars

-----------------------------------------------------------------------------
(* Properties.                                                             *)

\* A heater is never on for longer than max_duration after the last value was
\* loaded, whatever has become of the host (gpiocmds.c:57-114, 145-173).
PinWatched == pin # 0 => reportTime <= loadedAt + MaxDuration

\* As long as the host runs it sends values in time: the firmware does not shut
\* down for want of one, or because one is late or too far away, although
\* reports are lost and values that hardly differ are not sent
\* (heaters.py:68-81, gpiocmds.c:57-114, 145-173).
SentInTime == alive => shutdown \in {"no", "out of range"}

\* A heater that is to be off is off soon, even where the change is too small to
\* be sent at once (heaters.py:68-81).
OffInTime ==
    targetTemp = 0 /\ alive
       /\ reportTime > zeroAt + RefreshTime + 2 * PwmDelay + MaxLost + 1 => pin = 0

\* A heater is never left on: not by the host, not without it, and the firmware does not
\* shut down for want of a value (heaters.py:68-81, gpiocmds.c:57-173).
HeaterSafe == PinWatched /\ SentInTime /\ OffInTime
=============================================================================
