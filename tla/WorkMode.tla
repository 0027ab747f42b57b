------------------------------ MODULE WorkMode ------------------------------
(***************************************************************************)
(* The work mode of the printer (printer_workmode.py), the velocity limits *)
(* it shares with SET_VELOCITY_LIMIT and M204 (toolhead.py), and the speed *)
(* of moves, which it shares with F, M220 and saved states                 *)
(* (gcode_move.py).  Commands hold the mutex of gcode, and so does the     *)
(* pause in switch_to_silent: one runs after the other.  Fans and currents *)
(* are left out, but setting a current may fail and end the switch.        *)
(***************************************************************************)
EXTENDS Integers

CONSTANTS
    Silent,                 \* the silent_* limits of the configuration
    Configured,             \* limits of section printer
    Values,                 \* limits in commands
    Feeds, Pace,            \* F of moves; pace_speed
    Factors, FullFactor, SilentFactor,  \* M220 of users, S100 and S66
    MaxChanges              \* bound of the model: commands that change something

Kinds == {"velocity", "accel", "corner", "decel"}
NoLimit == 99999999

ASSUME ModeAssumption ==
    /\ {Silent, Configured} \subseteq [Kinds -> 0..NoLimit] /\ Values \subseteq 0..NoLimit
    /\ Feeds \subseteq Nat \ {0} /\ Pace \in Nat
    /\ Factors \cup {FullFactor, SilentFactor} \subseteq Nat \ {0} /\ MaxChanges \in Nat

VARIABLES
    workMode,       \* work_mode
    limits,         \* max_velocity, max_accel, square_corner_velocity and
                    \* requested_accel_to_decel of ToolHead
    normal, limit,  \* normal_* and limit_* of ToolHead
    chopper,        \* drivers that were last set to their silent threshold
    feed,           \* speed, speed_factor and pre_speed of GCodeMove
    savedSpeeds,    \* speed in saved_states, with the history of the save
    asked,          \* history: F of the last move that had one or that was restored,
                    \* and whether the speed has lost it since
    changes

modeVars == <<workMode, limits, normal, limit, chopper, feed, savedSpeeds, asked, changes>>
Drivers == {"a", "b", "c"}
Unlimited == [k \in Kinds |-> NoLimit]

ModeInit ==
    /\ workMode = 0 /\ limits = Configured /\ normal = Configured
    /\ limit = Unlimited /\ chopper = {} /\ savedSpeeds = {} /\ changes = 0
    /\ \E f \in Feeds :
          /\ feed = [speed |-> f * FullFactor, factor |-> FullFactor, pre |-> -1]
          /\ asked = [f |-> f, stale |-> FALSE]

Change == changes < MaxChanges /\ changes' = changes + 1
Lesser(a, b) == IF a < b THEN a ELSE b

\* _calc_junction_deviation: max_accel_to_decel.
Decel == Lesser(limits.decel, limits.accel)

-----------------------------------------------------------------------------
(* Speeds.                                                                 *)

\* Mutant of Factored: only the factor is set.
FactorOnly(v) == [feed EXCEPT !.factor = v]

Factored(v) == [feed EXCEPT !.speed = (@ \div feed.factor) * v, !.factor = v]

\* cmd_M220.  It scales a speed that was slowed down, not the one that comes back.
Override(v) ==
    /\ feed' = Factored(v)
    /\ asked' = [asked EXCEPT !.stale = @ \/ (feed.pre > 0 /\ v # feed.factor)]

\* Mutant of WithF: the speed before a travel move is kept.
KeepsPre(f) == [feed EXCEPT !.speed = f * feed.factor]

WithF(f) == [feed EXCEPT !.speed = f * feed.factor, !.pre = -1]

\* What cmd_G1 does to the speed after F.
Paced(s, extrudes) ==
    IF ~extrudes /\ workMode = 3
    THEN IF s.speed > Pace THEN [s EXCEPT !.pre = s.speed, !.speed = Pace] ELSE s
    ELSE IF s.pre > 0 THEN [s EXCEPT !.speed = s.pre, !.pre = -1] ELSE s

\* cmd_G1.
Travel == feed' = Paced(feed, FALSE) /\ UNCHANGED <<savedSpeeds, asked, changes>>
Extrude == feed' = Paced(feed, TRUE) /\ UNCHANGED <<savedSpeeds, asked, changes>>
MoveWithF(f, extrudes) ==
    /\ Change /\ feed' = Paced(WithF(f), extrudes)
    /\ asked' = [f |-> f, stale |-> FALSE]
    /\ UNCHANGED savedSpeeds

\* cmd_SAVE_GCODE_STATE, under any name.  What it saves may have been slowed down.
SaveSpeed ==
    /\ Change /\ UNCHANGED <<feed, asked>>
    /\ savedSpeeds' = savedSpeeds \cup
          {[speed |-> feed.speed, factor |-> feed.factor, f |-> asked.f,
            stale |-> asked.stale \/ feed.pre > 0]}

\* cmd_RESTORE_GCODE_STATE.  It gives back the speed but neither the factor that
\* speed was computed with nor pre_speed: the speed is that of the saved F only if
\* the factor is the same and no other speed comes back after a slow travel.
RestoreSpeed(s) ==
    /\ feed' = [feed EXCEPT !.speed = s.speed]
    /\ asked' = [f |-> s.f, stale |-> s.stale \/ s.factor # feed.factor
                                             \/ (feed.pre > 0 /\ feed.pre # s.speed)]
    /\ UNCHANGED <<savedSpeeds, changes>>

GoMoves ==
    /\ UNCHANGED <<workMode, limits, normal, limit, chopper>>
    /\ \/ Travel
       \/ Extrude
       \/ \E f \in Feeds, extrudes \in BOOLEAN : MoveWithF(f, extrudes)
       \/ Change /\ UNCHANGED savedSpeeds /\ \E v \in Factors : Override(v)
       \/ SaveSpeed
       \/ \E s \in savedSpeeds : RestoreSpeed(s)

-----------------------------------------------------------------------------
(* Limits.                                                                 *)

Allowed(k, v) == v <= limit[k]

\* cmd_SET_VELOCITY_LIMIT.
SetVelocityLimit(k, v) ==
    /\ normal' = [normal EXCEPT ![k] = v]
    /\ limits' = IF Allowed(k, v) THEN [limits EXCEPT ![k] = v] ELSE limits

\* cmd_M204.
SetAccel(v) == limits' = [limits EXCEPT !.accel = v] /\ UNCHANGED normal

SetLimits ==
    /\ Change /\ UNCHANGED <<workMode, limit, chopper, feed, savedSpeeds, asked>>
    /\ \/ \E k \in Kinds, v \in Values : SetVelocityLimit(k, v)
       \/ \E v \in Values : SetAccel(v)

\* Mutant of Given: what was in use before goes on.
StillLimited(l) == [k \in Kinds |-> Lesser(limits[k], l[k])]

\* set_velocity_limitx; requested_accel_to_decel is not touched.
Given(l) ==
    [k \in Kinds |-> IF k = "decel" THEN limits.decel ELSE Lesser(normal[k], l[k])]

\* Callers of set_velocity_limitx pass the limit of deceleration where it takes
\* the one of corners, and the other way round.
Passed(l) == [l EXCEPT !.corner = l.decel, !.decel = l.corner]

LimitAll(l) == limit' = Passed(l) /\ limits' = Given(Passed(l)) /\ UNCHANGED normal

-----------------------------------------------------------------------------
(* PRINTER_WORKMODE.                                                       *)

\* Drivers that set_stealthchop reaches: the one of stepper_c is looked up as
\* that of stepper_a.
Reached == {"a", "b"}

\* switch_to_silent, or its start if a current cannot be set.
SwitchToSilent ==
    /\ Override(SilentFactor) /\ LimitAll(Silent) /\ chopper' = chopper \cup Reached
    /\ workMode' \in {workMode, 3}

\* switch_to_normal; it sets the limits last.
SwitchToNormal ==
    /\ chopper' = chopper \ Reached
    /\ \/ Override(FullFactor) /\ LimitAll(Unlimited) /\ workMode' = 0
       \/ UNCHANGED <<workMode, limits, normal, limit, feed, asked>>

\* switch_to_violent and switch_to_sports.
SwitchToOther(m) ==
    /\ workMode' = m
    /\ UNCHANGED <<limits, normal, limit, chopper, feed, asked>>

SwitchMode ==
    /\ Change /\ UNCHANGED savedSpeeds
    /\ \/ workMode # 3 /\ SwitchToSilent
       \/ workMode # 0 /\ SwitchToNormal
       \/ \E m \in {1, 2} \ {workMode} : SwitchToOther(m)

ModeNext == GoMoves \/ SetLimits \/ SwitchMode

ModeSpec == ModeInit /\ [][ModeNext]_modeVars

-----------------------------------------------------------------------------
(* Properties.                                                             *)

\* The velocity never exceeds what the mode allows, whatever was asked for, and
\* without a limit it is what was asked for last, also while the printer was in
\* another mode (toolhead.py:594-663).
WithinMode == limits.velocity <= limit.velocity /\ limits.velocity <= normal.velocity
AsAskedLast == limit = Unlimited => limits.velocity = normal.velocity

\* A move that extrudes is as fast as the last F, given or restored, and the factor
\* say, although travel moves before it were slowed down (gcode_move.py:276-291,
\* :387).  M220 between a slow travel and the next move that extrudes loses the F;
\* RESTORE_GCODE_STATE does with another factor or pre_speed than when it was saved,
\* or a speed saved after a slow travel.  Until the next F nothing is said then.
FeedRight ==
    Extrude /\ ~asked.stale => feed'.speed = asked.f * feed.factor

\* Whatever mode the printer works in or has worked in, it is as fast as was
\* asked for and as the mode allows (toolhead.py:594-663, gcode_move.py:276-291).
SpeedAsAsked == [](WithinMode /\ AsAskedLast) /\ [][FeedRight]_modeVars

\* In the silent mode corners are taken no faster than silent_square_corner_velocity.
SilentCorners == workMode = 3 => limits.corner <= Silent.corner

\* All drivers of the arms are in the same mode.
DriversAgree == chopper \in {{}, Drivers}
=============================================================================
