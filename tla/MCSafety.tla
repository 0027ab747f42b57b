------------------------------ MODULE MCSafety ------------------------------
(***************************************************************************)
(* Safety of the components of klippy and Moonraker that stand alone, for  *)
(* TLC: a behaviour is one of the component that "part" names, and the     *)
(* others stay as they are.                                                *)
(***************************************************************************)
EXTENDS Rollback, Reactor, LookAhead, WorkMode, GcodeMove, Subscriptions,
        JobQueue, Timers, StepQueue, ExcludeObject

VARIABLE part           \* the component that runs

Parts == {"rollback", "reactor", "lookahead", "workmode", "gcodemove", "subscriptions",
          "queue", "timers", "steps", "exclude"}

SafetyInit ==
    /\ part \in Parts
    /\ RollbackInit /\ ReactorInit /\ LookAheadInit /\ ModeInit /\ GcodeInit /\ SubInit
    /\ Init /\ TimerInit /\ StepInit /\ ExcludeInit
    /\ part # "rollback" => gravity = CHOOSE g \in Gravities : TRUE
    /\ part # "workmode" => asked.f = CHOOSE f \in Feeds : TRUE

\* The components other than p stay as they are.
OnlyPart(p) ==
    /\ part = p /\ UNCHANGED part
    /\ p # "rollback" => UNCHANGED rollbackVars
    /\ p # "reactor" => UNCHANGED reactorVars
    /\ p # "lookahead" => UNCHANGED lookAheadVars
    /\ p # "workmode" => UNCHANGED modeVars
    /\ p # "gcodemove" => UNCHANGED gcodeVars
    /\ p # "subscriptions" => UNCHANGED subVars
    /\ p # "queue" => UNCHANGED vars
    /\ p # "timers" => UNCHANGED timerVars
    /\ p # "steps" => UNCHANGED stepVars
    /\ p # "exclude" => UNCHANGED excludeVars

SafetyNext ==
    \/ OnlyPart("rollback") /\ RollbackNext
    \/ OnlyPart("reactor") /\ ReactorNext
    \/ OnlyPart("lookahead") /\ LookAheadNext
    \/ OnlyPart("workmode") /\ ModeNext
    \/ OnlyPart("gcodemove") /\ GcodeNext
    \/ OnlyPart("subscriptions") /\ SubNext
    \/ OnlyPart("queue") /\ Next
    \/ OnlyPart("timers") /\ TimerNext
    \/ OnlyPart("steps") /\ StepNext
    \/ OnlyPart("exclude") /\ ExcludeNext

safetyVars == <<part, rollbackVars, reactorVars, lookAheadVars, modeVars, gcodeVars,
                subVars, vars, timerVars, stepVars, excludeVars>>

SafetySpec == SafetyInit /\ [][SafetyNext]_safetyVars

-----------------------------------------------------------------------------
(* Values of constants.                                                    *)

\* Lines that extrude, move or do both.
Lines == {<<2, 0>>, <<1, 0>>, <<0, 1>>, <<-1, -1>>}
\* The second motor is an extruder that goes forward.
ForwardAndBack == <<{0, 1}, {1}>>
\* One object is high, the other has one layer.
Heights == <<4, 1>>
TwoGravities == {<<0, 0>>, <<2, 3>>}

SilentLimits == [velocity |-> 2, accel |-> 2, corner |-> 1, decel |-> 2]
ConfiguredLimits == [velocity |-> 3, accel |-> 3, corner |-> 1, decel |-> 2]
=============================================================================
