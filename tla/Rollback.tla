------------------------------ MODULE Rollback ------------------------------
(***************************************************************************)
(* Where a print resumes after a runout (extras/locate_printing_gcode.py): *)
(* virtual_sdcard records the last lines it executed; when filament runs   *)
(* out at the switch, EOffset before the extruder, the position of the     *)
(* extruder is kept, and F108 goes back in the record to the line where    *)
(* the extruder has run empty.                                             *)
(*                                                                         *)
(* A line is what it does to the extruder (e) and to the height (z); lines *)
(* are numbered in the order they are executed, in place of offsets.       *)
(***************************************************************************)
EXTENDS Integers, Sequences, SequencesExt

CONSTANTS
    EOffset,            \* e_offset
    Gravities,          \* pairs of gravity_min and gravity_target
    RecordSize,         \* queue_size
    LineMoves,          \* what a line may do: pairs of changes of e and z
    Sizes,              \* sizes that F109 sets
    MaxLines            \* bound of the model: lines of the file

\* Lengths are not negative.
ASSUME RollbackAssumption ==
    /\ EOffset \in Nat /\ RecordSize \in Nat /\ Sizes \subseteq Nat
    /\ Gravities \subseteq Nat \X Nat /\ LineMoves \subseteq Int \X Int
    /\ MaxLines \in Nat

VARIABLES
    gravity,            \* gravity_min and gravity_target, as F109 set them
    recorded,           \* queue
    maxSize,            \* max_size
    line,               \* lines executed
    pos,                \* last_position of gcode_move: e and z
    lackE,              \* posELack that save_runing_info determines, or NoRunout
    resumeAt            \* the line that F108 found, or 0

rollbackVars == <<gravity, recorded, maxSize, line, pos, lackE, resumeAt>>

NoRunout == -100            \* no saved state
GravityMin == gravity[1]
GravityTarget == gravity[2]

RollbackInit ==
    /\ gravity \in Gravities
    /\ recorded = << >> /\ maxSize = RecordSize
    /\ line = 0 /\ pos = [e |-> 0, z |-> 0]
    /\ lackE = NoRunout /\ resumeAt = 0

\* The last n elements of a sequence.
Newest(s, n) == SubSeq(s, Len(s) - (IF n < Len(s) THEN n ELSE Len(s)) + 1, Len(s))

\* record_gcode_begin and record_gcode_end around a line.
RecordLine(m) ==
    /\ line < MaxLines /\ line' = line + 1
    /\ pos' = [e |-> pos.e + m[1], z |-> pos.z + m[2]]
    /\ recorded' = Newest(Append(recorded, [line |-> line', from |-> pos, to |-> pos']),
                          maxSize)
    /\ UNCHANGED <<gravity, maxSize, lackE, resumeAt>>

\* F109 S=n.
SetSize(n) ==
    /\ n # maxSize /\ maxSize' = n
    /\ recorded' = Newest(recorded, n)
    /\ UNCHANGED <<gravity, line, pos, lackE, resumeAt>>

\* save_runing_info: the extruder has not yet done all that was queued.
FilamentOut ==
    /\ \E e \in 0..pos.e : lackE' = e + EOffset
    /\ UNCHANGED <<gravity, recorded, maxSize, line, pos, resumeAt>>

-----------------------------------------------------------------------------
(* F108: set_resume_pos.                                                   *)

Begun == [found |-> 0, stop |-> FALSE, rolled |-> FALSE, extra |-> 0,
          goOn |-> TRUE, locked |-> FALSE, height |-> 0]

\* RollbackCheckZChange.is_break: going back must not run into the model.
Collides(s, l) ==
    LET dz == l.to.z - l.from.z
    IN  /\ dz # 0
        /\ \/ dz < 0 /\ s.locked /\ l.to.z < s.height
           \/ dz > 0 /\ l.from.z < s.height
           \/ l.to.e # l.from.e

\* The height is locked at the first line that extrudes on a level.
ZChecked(s, l) ==
    LET lock == l.to.z = l.from.z /\ l.to.e > l.from.e /\ ~s.locked
    IN  [s EXCEPT !.goOn = @ /\ ~Collides(s, l),
                  !.locked = @ \/ lock,
                  !.height = IF lock THEN l.to.z ELSE @]

Stopped(s)  == [s EXCEPT !.stop = TRUE]
Found(s, l) == [s EXCEPT !.found = l.line]
Kept(s, l)  == IF l.to.e > l.from.e
               THEN [Found(s, l) EXCEPT !.rolled = TRUE] ELSE s

\* check_rollback.
MoreWanted(extra, g) == extra < g[2]
TooMuch(extra, g) == extra >= g[2] /\ extra < g[1]

\* A line at whose end there is filament.
Supplied(s, l, g) ==
    LET t == [s EXCEPT !.extra = @ + l.to.e - l.from.e]
    IN  IF ~s.goOn \/ g[1] = 0 THEN Stopped(s)
        ELSE IF TooMuch(t.extra, g) THEN Stopped(t)
        ELSE IF MoreWanted(t.extra, g) \/ t.rolled THEN Kept(t, l)
        ELSE Stopped([Found(t, l) EXCEPT !.rolled = TRUE])

\* Mutant of EmptyWithin: the line after the one that runs empty is taken.
EmptyBefore(l, lack) == lack <= l.from.e + 1

EmptyWithin(l, lack) == lack >= l.from.e

\* A line at whose end the extruder is empty: it ran empty within it, or
\* before it.
Lacking(s, l, lack) ==
    IF EmptyWithin(l, lack) THEN Stopped(Found(s, l))
    ELSE IF l.to.e < lack - EOffset THEN Stopped(s)
    ELSE Kept(s, l)

FilamentAt(l, lack) == lack > l.to.e

Searched(s, l, lack, g) ==
    IF s.stop THEN s
    ELSE IF FilamentAt(l, lack) THEN Supplied(ZChecked(s, l), l, g)
    ELSE Lacking(ZChecked(s, l), l, lack)

\* From the newest line to the oldest one.
Located(lines, lack, g) ==
    LET n == Len(lines)
        after[i \in 1..n + 1] == IF i = n + 1 THEN Begun
                                 ELSE Searched(after[i + 1], lines[i], lack, g)
    IN  after[1].found

\* F108: the file goes on at the line that was found, if one was.
Restore ==
    /\ lackE # NoRunout /\ lackE' = NoRunout
    /\ resumeAt' = Located(recorded, lackE, gravity)
    /\ UNCHANGED <<gravity, recorded, maxSize, line, pos>>

RollbackNext ==
    \/ \E m \in LineMoves : RecordLine(m)
    \/ \E n \in Sizes : SetSize(n)
    \/ FilamentOut \/ Restore

RollbackSpec == RollbackInit /\ [][RollbackNext]_rollbackVars

-----------------------------------------------------------------------------
(* Properties.                                                             *)

Retracts(lines) == \E i \in DOMAIN lines : lines[i].to.e < lines[i].from.e

\* What is printed again: from the line that was found on.
Reprinted(lines, n) == SelectSeq(lines, LAMBDA l : l.line >= n)

Restores == lackE # NoRunout /\ lackE' = NoRunout /\ ~Retracts(recorded)

\* Every line that the record holds and that extruded when there was no filament
\* is printed again, when nothing was retracted
\* (locate_printing_gcode.py:248-309).
LackingReprinted ==
    Restores =>
        \A i \in DOMAIN recorded :
           recorded[i].to.e > lackE /\ recorded[i].to.e > recorded[i].from.e
              => resumeAt' \in 1..recorded[i].line

\* The length of full lines that are printed again.
MadeUp ==
    LET full == {i \in DOMAIN recorded :
                    recorded[i].line >= resumeAt' /\ recorded[i].to.e < lackE}
    IN  IF full = {} THEN 0
        ELSE recorded[Max(full)].to.e - recorded[Min(full)].from.e

\* Without gravity_min no line that had filament to its end is printed again
\* (locate_printing_gcode.py:262-286).
NothingTwice ==
    Restores /\ resumeAt' # 0 /\ GravityMin = 0 => MadeUp = 0

\* No line that is recorded reaches the place where filament ran out.
NotEmpty == \A i \in DOMAIN recorded : recorded[i].to.e < lackE

\* Before the extruder is empty at least gravity_min is printed again, unless
\* the record ends or the height changes (locate_printing_gcode.py:196,
\* 268-286).
GravityMadeUp ==
    Restores /\ NotEmpty /\ 0 < GravityMin /\ GravityMin <= GravityTarget
        => \/ MadeUp >= GravityMin
           \/ \E i \in DOMAIN recorded : recorded[i].from.z # recorded[i].to.z
           \/ ~\E i \in DOMAIN recorded :
                 /\ resumeAt' = 0 \/ recorded[i].line < resumeAt'
                 /\ recorded[i].from.e < recorded[i].to.e

\* It is no more than gravity_target, unless what follows the line that was
\* found is less than gravity_min (locate_printing_gcode.py:196-199).
GravityWithinTarget ==
    [][Restores /\ NotEmpty /\ 0 < GravityMin /\ resumeAt' # 0 =>
          \/ MadeUp <= GravityTarget
          \/ pos.e - Reprinted(recorded, resumeAt')[1].to.e < GravityMin]_rollbackVars

\* The record holds the newest lines without a gap, as many as fit, also
\* after its size was changed (locate_printing_gcode.py:104-134, 187-192).
RecordContiguous ==
    \A i \in DOMAIN recorded : recorded[i].line = line - Len(recorded) + i

\* What is printed again after the filament ran out: the record is whole, all
\* that was extruded without filament is printed again, nothing else without
\* gravity_min, and with it enough (locate_printing_gcode.py:104-309).
PrintedAgainRight ==
    /\ [](Len(recorded) <= maxSize /\ RecordContiguous)
    /\ [][LackingReprinted /\ NothingTwice /\ GravityMadeUp]_rollbackVars
=============================================================================
