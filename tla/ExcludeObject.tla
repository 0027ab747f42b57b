---------------------------- MODULE ExcludeObject ---------------------------
(***************************************************************************)
(* Objects that are left out of a print (exclude_object.py).  Once one is  *)
(* excluded a transform stands between the moves of the file and the       *)
(* toolhead: it swallows the moves of excluded objects, and afterwards     *)
(* brings the toolhead to where the file is, the retraction of the         *)
(* filament included.                                                      *)
(*                                                                         *)
(* Positions are one axis and the extruder.  The file is what a slicer     *)
(* makes: layer by layer each object that is so high, with travel to it,   *)
(* extrusion only when the filament is not retracted, and no place is      *)
(* drawn over twice: a move goes to a place that is new.                   *)
(***************************************************************************)
EXTENDS Integers

CONSTANTS
    PrintObjects, NoObject,      \* numbers of the objects; no object
    Height,                 \* layers of each object
    InitialMoves,           \* initial_extrusion_moves of a new transform
    StartDiff,              \* OBJECT_START_DIFF
    \* bounds of the model: filament, places, requests of the user
    MaxExtruded, MaxPlaces, MaxExcludes

ASSUME ExcludeAssumption ==
    /\ PrintObjects \subseteq Nat /\ NoObject \notin PrintObjects
    /\ Height \in [PrintObjects -> Nat]
    /\ {InitialMoves, StartDiff} \subseteq Nat \ {0, 1}    \* 5 and 3
    /\ {MaxExtruded, MaxPlaces, MaxExcludes} \subseteq Nat

VARIABLES
    \* the file
    layer, toPrint,         \* the layer, and its objects that are to come
    retracted,              \* by how much the file has retracted the filament
    arrived, drawn,         \* the file has travelled to the object; and extruded there
    \* exclude_object.py
    currentObject, excludedObjects,
    isExcluded,             \* is_excluded_object
    transform,              \* next_transform is set
    inRegion,               \* in_excluded_region
    offset, extruderAdj,
    lastPosition, lastExtruded, lastExcluded, maxExtruded, maxExcluded,
    initialMoves,
    endCount,               \* object_end_count
    over,                   \* 'exclude_object over' was raised
    \* the toolhead
    tool,
    \* history variables
    pressed,                \* how far the filament was ever pushed
    printed,               \* filament of the moves that went to the toolhead
    leftOut,                \* the object was excluded when it was started
    peaked,                 \* an extrusion was swallowed since the region was entered
    givenBack,              \* un-excluded, and not started again
    excludes

fileVars == <<layer, toPrint, retracted, arrived, drawn>>
commandVars == <<currentObject, excludedObjects, isExcluded, endCount, over, leftOut, givenBack,
                 excludes>>
moveVars == <<transform, inRegion, offset, extruderAdj, lastPosition, lastExtruded,
              lastExcluded, maxExtruded, maxExcluded, initialMoves, tool, pressed, printed,
              peaked>>
excludeVars == <<fileVars, commandVars, moveVars>>

Larger(a, b) == IF a > b THEN a ELSE b
Zero == [x |-> 0, e |-> 0]
OfLayer(n) == {o \in PrintObjects : Height[o] >= n}

ExcludeInit ==
    /\ layer = 1 /\ toPrint = OfLayer(1) /\ retracted = 0 /\ arrived = FALSE /\ drawn = FALSE
    /\ currentObject = NoObject /\ excludedObjects = {} /\ isExcluded = FALSE
    /\ transform = FALSE /\ inRegion = FALSE /\ offset = Zero /\ extruderAdj = 0
    /\ lastPosition = Zero /\ lastExtruded = Zero /\ lastExcluded = Zero
    /\ maxExtruded = 0 /\ maxExcluded = 0 /\ initialMoves = 0
    /\ endCount = [o \in PrintObjects |-> 0] /\ over = FALSE
    /\ tool = Zero /\ pressed = 0 /\ printed = 0 /\ leftOut = FALSE /\ excludes = 0
    /\ peaked = FALSE /\ givenBack = {}

-----------------------------------------------------------------------------
(* Moves.                                                                  *)

\* _test_in_excluded_region_for_move.
Swallowed == isExcluded /\ initialMoves = 0

MovesTool(target) ==
    /\ tool' = target /\ pressed' = Larger(pressed, target.e)

\* The first move away brings the toolhead to where the file is, and the retraction
\* with it unless the extruder has moved before.
MovesAway(new) == offset.x # 0 /\ new.x # lastExcluded.x
ExtruderMoves(new, adj) == adj # 0 /\ new.e # lastExcluded.e
Adjusts(new, adj) == MovesAway(new) \/ ExtruderMoves(new, adj)

NormalMove(new, adj) ==
    LET comes == Adjusts(new, adj)
        off   == [x |-> IF MovesAway(new) THEN 0 ELSE offset.x,
                  e |-> IF comes THEN offset.e + adj ELSE offset.e]
    IN  /\ initialMoves' = IF initialMoves > 0 /\ lastPosition.e # new.e
                           THEN initialMoves - 1 ELSE initialMoves
        /\ lastExtruded' = new /\ maxExtruded' = Larger(maxExtruded, new.e)
        /\ offset' = off /\ extruderAdj' = IF comes THEN 0 ELSE adj
        /\ MovesTool([x |-> new.x - off.x, e |-> new.e - off.e])
        /\ UNCHANGED <<lastExcluded, maxExcluded>>

\* The retraction of the excluded object less that of the one printed before.
OfExcluded == maxExcluded - lastExcluded.e
Adjustment == OfExcluded - (maxExtruded - lastExtruded.e)

IgnoreMove(new) ==
    /\ offset' = [x |-> new.x - lastExtruded.x, e |-> offset.e + new.e - lastPosition.e]
    /\ lastExcluded' = new /\ maxExcluded' = Larger(maxExcluded, new.e)
    /\ UNCHANGED <<tool, pressed, extruderAdj, lastExtruded, maxExtruded, initialMoves>>

Move(new) ==
    /\ lastPosition' = new
    /\ \/ /\ ~transform /\ MovesTool(new)
          /\ UNCHANGED <<inRegion, offset, extruderAdj, lastExtruded, lastExcluded, maxExtruded,
                         maxExcluded, initialMoves>>
       \/ transform /\ Swallowed /\ inRegion' = TRUE /\ IgnoreMove(new)
       \/ /\ transform /\ ~Swallowed /\ inRegion' = FALSE
          /\ NormalMove(new, IF inRegion THEN Adjustment ELSE extruderAdj)
    /\ peaked' = (inRegion' /\ (peaked \/ (new.e > lastPosition.e /\ new.x # lastPosition.x)))
    /\ UNCHANGED transform

-----------------------------------------------------------------------------
(* Commands.                                                               *)

\* _register_transform.
Register ==
    IF transform THEN UNCHANGED moveVars
    ELSE /\ transform' = TRUE /\ offset' = Zero
         /\ maxExtruded' = 0 /\ maxExcluded' = 0 /\ extruderAdj' = 0
         /\ initialMoves' = InitialMoves
         /\ lastExtruded' = lastPosition /\ lastExcluded' = lastPosition
         /\ UNCHANGED <<inRegion, lastPosition, tool, pressed, printed, peaked>>

\* EXCLUDE_OBJECT, while the object is printed or not, and with RESET.
Exclude(o) ==
    /\ ~over /\ o \notin excludedObjects /\ excludes < MaxExcludes
    /\ excludedObjects' = excludedObjects \cup {o} /\ excludes' = excludes + 1 /\ Register
    /\ UNCHANGED <<fileVars, currentObject, isExcluded, endCount, over, leftOut, givenBack>>

Unexclude(o) ==
    /\ ~over /\ o \in excludedObjects /\ excludes < MaxExcludes
    /\ excludedObjects' = excludedObjects \ {o} /\ excludes' = excludes + 1
    /\ givenBack' = givenBack \cup {o}
    /\ UNCHANGED <<fileVars, moveVars, currentObject, isExcluded, endCount, over, leftOut>>

\* EXCLUDE_OBJECT_START.
ObjectStart(o) ==
    /\ ~over /\ currentObject = NoObject /\ o \in toPrint
    /\ currentObject' = o /\ isExcluded' = (o \in excludedObjects)
    /\ leftOut' = (o \in excludedObjects) /\ givenBack' = givenBack \ {o}
    /\ UNCHANGED <<fileVars, moveVars, excludedObjects, endCount, over, excludes>>

Counted(o) == IF Swallowed THEN [endCount EXCEPT ![o] = @ + 1] ELSE [p \in PrintObjects |-> 0]

ObjectEnd ==
    LET o == currentObject
    IN  /\ ~over /\ o # NoObject /\ drawn /\ (inRegion => peaked)
        /\ currentObject' = NoObject /\ arrived' = FALSE /\ drawn' = FALSE
        /\ toPrint' = toPrint \ {o}
        /\ endCount' = Counted(o) /\ over' = (\E p \in PrintObjects : endCount'[p] > StartDiff)
        /\ UNCHANGED <<layer, retracted, moveVars, excludedObjects, isExcluded, leftOut, givenBack,
                       excludes>>

-----------------------------------------------------------------------------
(* The lines of the file.                                                  *)

NextLayer ==
    /\ ~over /\ toPrint = {} /\ OfLayer(layer + 1) # {}
    /\ layer' = layer + 1 /\ toPrint' = OfLayer(layer + 1)
    /\ UNCHANGED <<retracted, arrived, drawn, commandVars, moveVars>>

\* TravelTo and retraction to an object come after its start.
Here == currentObject # NoObject

TravelTo ==
    /\ ~over /\ Here /\ ~arrived
    /\ lastPosition.x < MaxPlaces /\ Move([lastPosition EXCEPT !.x = @ + 1])
    /\ arrived' = TRUE
    /\ UNCHANGED <<layer, toPrint, retracted, drawn, commandVars, printed>>

Retract ==
    /\ ~over /\ Here /\ lastPosition.e > 0 /\ retracted = 0 /\ retracted' = 1
    /\ Move([lastPosition EXCEPT !.e = @ - 1])
    /\ UNCHANGED <<layer, toPrint, arrived, drawn, commandVars, printed>>

Unretract ==
    /\ ~over /\ Here /\ retracted = 1 /\ retracted' = 0
    /\ Move([lastPosition EXCEPT !.e = @ + 1])
    /\ UNCHANGED <<layer, toPrint, arrived, drawn, commandVars, printed>>

ExtrudeTo ==
    /\ ~over /\ currentObject # NoObject /\ arrived /\ retracted = 0
    /\ lastPosition.e < MaxExtruded /\ lastPosition.x < MaxPlaces
    /\ Move([x |-> lastPosition.x + 1, e |-> lastPosition.e + 1])
    /\ printed' = IF tool' = tool THEN printed ELSE printed + 1
    /\ drawn' = TRUE
    /\ UNCHANGED <<layer, toPrint, retracted, arrived, commandVars>>

ExcludeNext ==
    \/ \E o \in PrintObjects : Exclude(o) \/ Unexclude(o) \/ ObjectStart(o)
    \/ ObjectEnd \/ NextLayer \/ TravelTo \/ Retract \/ Unretract \/ ExtrudeTo

ExcludeSpec == ExcludeInit /\ [][ExcludeNext]_excludeVars

-----------------------------------------------------------------------------
(* Properties.                                                             *)

Extrudes == lastPosition'.e > lastPosition.e /\ lastPosition'.x # lastPosition.x

\* An object that is not excluded is printed as the file says, from where to where and
\* with all of its filament, whatever was swallowed before (exclude_object.py:114-155).
PrintedInPlace ==
    Extrudes /\ ~leftOut =>
        /\ tool.x = lastPosition.x /\ tool'.x = lastPosition'.x
        /\ tool'.e - tool.e = lastPosition'.e - lastPosition.e

\* The filament is retracted by as much as the file says when an object is printed:
\* neither a gap at its beginning nor a blob anywhere (exclude_object.py:170-178).
PressureRight ==
    /\ pressed = printed
    /\ ~inRegion /\ extruderAdj = 0 /\ (offset.x = 0 \/ lastPosition.x # lastExcluded.x)
          => pressed - tool.e = retracted

\* 'exclude_object over' ends a print only when no object is left that is to be
\* printed, in files that print layer by layer (exclude_object.py:239-252).
OverWhenDone ==
    over => \A o \in PrintObjects \ (excludedObjects \cup givenBack) : Height[o] < layer

\* Objects are excluded without a trace in the others: those are printed in place and with
\* the right pressure, and until all of them are done (exclude_object.py:114-252).
OthersPrinted ==
    [](PressureRight /\ OverWhenDone) /\ [][PrintedInPlace]_excludeVars
=============================================================================
