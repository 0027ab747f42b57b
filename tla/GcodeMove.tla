----------------------------- MODULE GcodeMove ------------------------------
(***************************************************************************)
(* Coordinates of gcode (gcode_move.py), for the axis where mistakes add   *)
(* up: the extruder, whose position is changed by G1, G92, M82, M83, G90,  *)
(* G91, M221, offsets, saved states and errors.  The other axes have no    *)
(* factor; speeds are in WorkMode.                                         *)
(***************************************************************************)
EXTENDS Integers

CONSTANTS
    Places,             \* coordinates and distances in commands
    Flows,              \* factors of M221
    MaxCommands         \* bound of the model

ASSUME GcodeAssumption == Places \subseteq Int /\ Flows \subseteq Nat \ {0} /\ MaxCommands \in Nat

VARIABLES
    absolute,           \* absolute_coord, absolute_extrude
    base, last,         \* base_position[3], last_position[3]
    homing,             \* homing_position[3]
    flow,               \* extrude_factor
    state,              \* saved_states["default"], or None
    extruder,           \* position of the toolhead
    program,            \* history: where the program is by its own account,
    extruded,           \* history: what it has asked for in all,
    remembered,         \* history: and program when the state was saved
    commands

gcodeVars == <<absolute, base, last, homing, flow, state, extruder,
               program, extruded, remembered, commands>>

None == [none |-> TRUE]

GcodeInit ==
    /\ absolute = [coord |-> TRUE, extrude |-> TRUE]
    /\ base = 0 /\ last = 0 /\ homing = 0 /\ flow = 1 /\ state = None
    /\ extruder = 0 /\ program = 0 /\ extruded = 0 /\ remembered = 0 /\ commands = 0

\* Mutant of IsAbsolute: G91 says nothing of the extruder.
ExtrudeOnly == absolute.extrude

IsAbsolute == absolute.coord /\ absolute.extrude

\* What cmd_G1 makes of E.
Moved(v) == IF IsAbsolute THEN v * flow + base ELSE last + v * flow

\* cmd_G1: the move is done, or refused; then the error brings last_position back.
MoveTo(v) ==
    /\ \/ /\ last' = Moved(v) /\ extruder' = Moved(v)
          /\ program' = IF absolute.coord /\ absolute.extrude THEN v ELSE program + v
          /\ extruded' = extruded + (program' - program) * flow
       \/ last' = extruder /\ UNCHANGED <<extruder, program, extruded>>
    /\ UNCHANGED <<absolute, base, homing, flow, state, remembered>>

\* cmd_M82, cmd_M83, cmd_G90, cmd_G91.
SetMode ==
    /\ \E m \in {"coord", "extrude"}, b \in BOOLEAN : absolute' = [absolute EXCEPT ![m] = b]
    /\ UNCHANGED <<base, last, homing, flow, state, extruder, program, extruded, remembered>>

Origin(v) == last - v * flow

\* cmd_G92, with E and without any axis.
SetPosition(v) ==
    /\ base' = Origin(v) /\ program' = v
    /\ UNCHANGED <<absolute, last, homing, flow, state, extruder, extruded, remembered>>

\* Mutant of Rebased: base_position is left alone.
SameBase(f) == base

Rebased(f) == last - ((last - base) \div flow) * f

\* cmd_M221.
SetFlow(f) ==
    /\ base' = Rebased(f) /\ flow' = f
    /\ UNCHANGED <<absolute, last, homing, state, extruder, program, extruded, remembered>>

\* cmd_SET_GCODE_OFFSET, without MOVE: the program's coordinates are shifted.
SetOffset(v) ==
    /\ (v - homing) % flow = 0
    /\ base' = base + v - homing /\ homing' = v
    /\ program' = program - (v - homing) \div flow
    /\ UNCHANGED <<absolute, last, flow, state, extruder, extruded, remembered>>

\* cmd_SAVE_GCODE_STATE.
SaveState ==
    /\ state' = [absolute |-> absolute, base |-> base, last |-> last,
                 homing |-> homing, flow |-> flow]
    /\ remembered' = program
    /\ UNCHANGED <<absolute, base, last, homing, flow, extruder, program, extruded>>

\* Mutant of RestoredBase: what was extruded since is not made up for.
SavedBase == state.base

RestoredBase == state.base + last - state.last

\* cmd_RESTORE_GCODE_STATE; MOVE=1 moves the other axes.
RestoreState ==
    /\ state # None
    /\ absolute' = state.absolute /\ homing' = state.homing /\ flow' = state.flow
    /\ base' = RestoredBase /\ program' = remembered
    /\ UNCHANGED <<last, state, extruder, extruded, remembered>>

\* _handle_activate_extruder.
ActivateExtruder ==
    /\ last' = extruder /\ flow' = 1 /\ base' = extruder /\ program' = 0
    /\ UNCHANGED <<absolute, homing, state, extruder, extruded, remembered>>

GcodeNext ==
    /\ commands < MaxCommands /\ commands' = commands + 1
    /\ \/ \E v \in Places : MoveTo(v) \/ SetPosition(v) \/ SetOffset(v)
       \/ \E f \in Flows : SetFlow(f)
       \/ SetMode \/ SaveState \/ RestoreState \/ ActivateExtruder

GcodeSpec == GcodeInit /\ [][GcodeNext]_gcodeVars

-----------------------------------------------------------------------------
(* Properties.                                                             *)

\* The host and the program agree where the extruder is, after any sequence of
\* commands: also when a pause has extruded and changed modes, origin and factor
\* between a saved state and its return (gcode_move.py:315-400).
PositionAgreed == last - base = program * flow

\* What is extruded is what the program asked for, times the factors that held
\* when it did: nothing is lost or made up for twice (gcode_move.py:212-275).
ExtrudedAsAsked == extruder = extruded /\ last = extruder

\* The program, the host and the extruder agree after any sequence of commands
\* (gcode_move.py:212-400).
ExtruderAgreed == PositionAgreed /\ ExtrudedAsAsked
=============================================================================
