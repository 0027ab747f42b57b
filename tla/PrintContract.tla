--------------------------- MODULE PrintContract ---------------------------
(***************************************************************************)
(* What a print from the virtual SD card promises to whoever watches       *)
(* print_stats (Moonraker, the touch screen), with no worker, no gcode     *)
(* mutex, no read buffer and no macros: the lines of the loaded file are   *)
(* executed one after the other while the state is "printing", and in no   *)
(* other state; a print is "complete" when its last line was executed; a   *)
(* print that was cancelled, failed or finished goes on only when it is    *)
(* started again.                                                          *)
(***************************************************************************)
EXTENDS Integers

CONSTANT FileLen    \* lines of a file

VARIABLES
    state,      \* print_stats.state
    reached     \* lines of the loaded file that were executed or skipped by
                \* the position the print was recovered from

pvars == <<state, reached>>

PInit == state = "standby" /\ reached = 0

\* A file is selected, or the selection is cleared.
Select ==
    /\ state # "printing"
    /\ state' = "standby"
    /\ reached' \in 0..FileLen

Begin ==
    /\ state # "printing"
    /\ state' = "printing"
    /\ UNCHANGED reached

\* A line may be the command that pauses or cancels the print.
Line ==
    /\ state = "printing"
    /\ reached' = reached + 1
    /\ state' \in {"printing", "cancelled"}

Leave(from, to) ==
    /\ state \in from
    /\ state' = to
    /\ UNCHANGED reached

Pause  == Leave({"printing"}, "paused")
Fail   == Leave({"printing"}, "error")
Cancel == Leave({"printing", "paused"}, "cancelled")
Finish == reached = FileLen /\ Leave({"printing"}, "complete")

PNext == Select \/ Begin \/ Line \/ Pause \/ Fail \/ Cancel \/ Finish

PSpec == PInit /\ [][PNext]_pvars
=============================================================================
