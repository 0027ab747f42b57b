----------------------------- MODULE HeaterCheck -----------------------------
(***************************************************************************)
(* klippy/extras/verify_heater.py: once a second it looks at the           *)
(* temperature of a heater and its target, and shuts the printer down when *)
(* the heater does not heat.                                               *)
(*                                                                         *)
(* Temperatures are whole numbers.  A heater is "good", one that may lag   *)
(* when it was off and then comes nearer with each check, or does anything *)
(* ("any").                                                                *)
(***************************************************************************)
EXTENDS Integers

CONSTANTS
    Hysteresis, MaxError, HeatingGain,      \* of HeaterCheck
    CheckGainTime,                          \* in checks
    Targets, MaxTemp,
    MaxLag              \* checks that a good heater that was off may lag

\* The bounds of the configuration.
ASSUME CheckAssumption ==
    /\ {Hysteresis, MaxError, MaxTemp, MaxLag} \subseteq Nat /\ Targets \subseteq Nat
    /\ {HeatingGain, CheckGainTime} \subseteq Nat \ {0}

\* How long a heater may lag that is called good; with the values of
\* verify_heater.py (120, 2, 20) at most 10 checks.
ASSUME LagAssumption ==
    /\ MaxLag * MaxLag < MaxError
    /\ HeatingGain <= CheckGainTime /\ MaxLag + HeatingGain <= CheckGainTime + 1
    /\ 2 * MaxLag <= CheckGainTime + HeatingGain + 2

VARIABLES
    heater,             \* "good" or "any"
    temp, target,
    approaching, starting,  \* approaching_target, starting_approach
    lastTarget, goalTemp, error, \* error as far as max_error
    goalIn,             \* checks until goal_systime
    faulted,            \* heater_fault has shut down
    lag,                \* checks for which a good heater may yet lag
    stuck               \* history: checks with the heater below and not rising

checkVars == <<heater, temp, target, approaching, starting, lastTarget, goalTemp, error,
               goalIn, faulted, lag, stuck>>

CheckInit ==
    /\ heater \in {"good", "any"}
    /\ temp = 0 /\ target = 0 /\ approaching = FALSE /\ starting = FALSE
    /\ lastTarget = 0 /\ goalTemp = 0 /\ error = 0 /\ goalIn = 0 /\ faulted = FALSE
    /\ lag = 0 /\ stuck = 0

Least(a, b) == IF a < b THEN a ELSE b
Most(a, b) == IF a > b THEN a ELSE b

NewTarget ==
    /\ ~faulted /\ target' \in Targets \ {target} /\ stuck' = 0
    /\ lag' = IF temp >= target /\ temp >= lastTarget THEN MaxLag ELSE lag
    /\ UNCHANGED <<heater, temp, approaching, starting, lastTarget, goalTemp, error, goalIn,
                   faulted>>

\* What the temperature may be at the next check.
Follows(t) ==
    IF lag > 0 THEN t \in {temp, temp - 1, temp + 1}
    ELSE IF temp < target THEN t = temp + 1
    ELSE IF temp > target THEN t = temp - 1
    ELSE t = temp

MayBe(t) == t \in 0..MaxTemp /\ (heater = "good" => Follows(t))

Near(t) == t >= target - Hysteresis \/ target = 0

\* Mutant of Goal: the goal of the beginning stays.
SameGoal(t) == goalTemp

\* The goal while a heater that has just begun may still become colder.
Goal(t) == IF starting THEN Least(goalTemp, t + HeatingGain) ELSE goalTemp

Over(err) == err >= MaxError

ErrorOf(t) == Least(MaxError, error + target - Hysteresis - t)

NewGoal(t) == goalTemp' = t + HeatingGain /\ goalIn' = CheckGainTime

\* The branches of check_event.
NearTarget(t) ==
    /\ Near(t)
    /\ approaching' = FALSE /\ starting' = FALSE
    /\ error' = IF t <= target + Hysteresis THEN 0 ELSE error
    /\ UNCHANGED <<goalTemp, goalIn, faulted>>

BeginsApproach(t) ==
    /\ ~Near(t) /\ ~approaching /\ target # lastTarget
    /\ approaching' = TRUE /\ starting' = TRUE /\ NewGoal(t) /\ error' = ErrorOf(t)
    /\ UNCHANGED faulted

FallsBehind(t) ==
    /\ ~Near(t) /\ ~approaching /\ target = lastTarget
    /\ faulted' = Over(ErrorOf(t)) /\ error' = ErrorOf(t)
    /\ UNCHANGED <<approaching, starting, goalTemp, goalIn>>

ReachesGoal(t) ==
    /\ ~Near(t) /\ approaching /\ t >= goalTemp
    /\ starting' = FALSE /\ NewGoal(t) /\ error' = 0
    /\ UNCHANGED <<approaching, faulted>>

Approaches(t) ==
    /\ ~Near(t) /\ approaching /\ t < goalTemp
    /\ error' = ErrorOf(t) /\ goalIn' = goalIn - 1
    /\ approaching' = (goalIn > 1)
    /\ goalTemp' = IF goalIn > 1 THEN Goal(t) ELSE goalTemp
    /\ UNCHANGED <<starting, faulted>>

\* check_event.
Check(t) ==
    /\ ~faulted /\ MayBe(t) /\ temp' = t /\ lastTarget' = target /\ lag' = Most(lag - 1, 0)
    /\ stuck' = IF ~Near(t) /\ t <= temp THEN stuck + 1 ELSE 0
    /\ NearTarget(t) \/ BeginsApproach(t) \/ FallsBehind(t) \/ ReachesGoal(t) \/ Approaches(t)
    /\ UNCHANGED <<heater, target>>

CheckNext == NewTarget \/ \E t \in 0..MaxTemp : Check(t)

CheckSpec == CheckInit /\ [][CheckNext]_checkVars

-----------------------------------------------------------------------------
(* Properties.                                                             *)

\* A heater that stays below its target and does not rise is found, in the time
\* of the check and of the error that is let pass (verify_heater.py:50-88).
StuckIsFound == stuck > Most(CheckGainTime + 1, MaxError) => faulted

\* A good heater is never faulted, whatever is asked of it and when
\* (verify_heater.py:50-88).
GoodIsNotFaulted == heater = "good" => ~faulted

\* The check of a heater tells a bad one from a good one (verify_heater.py:50-88).
VerdictRight == StuckIsFound /\ GoodIsNotFaulted
=============================================================================
