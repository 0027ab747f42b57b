------------------------------- MODULE Runout -------------------------------
(***************************************************************************)
(* The filament sensor with RunoutDebounceHelper                           *)
(* (extras/filament_switch_sensor.py), as printer.cfg sets it up: a        *)
(* runout_gcode, no gcode of the other kinds, no pause_on_runout.          *)
(*                                                                         *)
(* The reactor runs the button handler, the commands and the callbacks one *)
(* after the other; a gcode script gives way while it runs.  Debouncing is *)
(* a thread of the operating system that goes between any two accesses of  *)
(* the reactor.  When the printer prints is external (idle_timeout).       *)
(***************************************************************************)
EXTENDS Integers, Sequences, FiniteSets

CONSTANTS
    DebounceCount,      \* DEBOUNCE_COUNT
    Debouncers,         \* bound of the model: threads that exist at a time
    MaxCallbacks        \* bound of the model: callbacks and running events

ASSUME RunoutAssumption == DebounceCount \in Nat /\ IsFiniteSet(Debouncers)

VARIABLES
    filament,           \* filament_present
    enabled,            \* sensor_enabled
    minEvent,           \* min_event_systime: "never", "later" or "past"
    printing,           \* idle_timeout says "Printing"
    callbacks,          \* callbacks of the reactor, in order
    handlers,           \* runout events whose gcode is running: "debounced"
                        \* or "direct", past RunoutDebounceHelper
    thread,             \* where each debounce thread is
    looks,              \* debounce_count
    switched,           \* history: SET_FILAMENT_SENSOR was used
    collided            \* history: a thread found the lock taken

runoutVars == <<filament, enabled, minEvent, printing, callbacks,
                handlers, thread, looks, switched, collided>>

\* _handle_ready has come: events count after two seconds.
RunoutInit ==
    /\ filament = FALSE /\ enabled = TRUE /\ minEvent = "later"
    /\ printing = FALSE
    /\ callbacks = << >> /\ handlers = << >>
    /\ thread = [d \in Debouncers |-> "none"] /\ looks = 0
    /\ switched = FALSE /\ collided = FALSE

ThreadsSame == UNCHANGED <<thread, looks, collided>>

-----------------------------------------------------------------------------
(* The reactor.                                                            *)

\* min_event_systime passes.
TimePasses ==
    /\ minEvent = "later" /\ minEvent' = "past"
    /\ ThreadsSame
    /\ UNCHANGED <<filament, enabled, printing, callbacks, handlers,
                   switched>>

Disarmed == "never"

Outstanding == Len(callbacks) + Len(handlers)

\* What note_filament_present does about filament that is there or not: how is
\* "check" in RunoutDebounceHelper, and "direct" in RunoutHelper.
Note(present, how) ==
    IF minEvent = "past" /\ enabled' /\ ~present /\ printing
    THEN minEvent' = Disarmed /\ callbacks' = Append(callbacks, how)
    ELSE UNCHANGED <<minEvent, callbacks>>

\* The switch changes.
Button ==
    /\ filament' = ~filament
    /\ UNCHANGED enabled /\ Note(filament', "check")
    /\ ThreadsSame
    /\ UNCHANGED <<printing, handlers, switched>>

\* SET_FILAMENT_SENSOR: the command calls RunoutHelper, which looks at the
\* sensor anew when it is switched on and does not debounce.
SetSensor(on) ==
    /\ Outstanding < MaxCallbacks
    /\ enabled' = on /\ switched' = TRUE
    /\ IF on THEN Note(filament, "direct")
             ELSE callbacks' = Append(callbacks, "off") /\ UNCHANGED minEvent
    /\ ThreadsSame
    /\ UNCHANGED <<filament, printing, handlers>>

\* A callback is called: _switch_off_handler (_exec_gcode without a
\* template), _runout_check_thread, or _runout_event_handler.
Callback ==
    /\ callbacks # << >> /\ callbacks' = Tail(callbacks)
    /\ CASE Head(callbacks) = "off" ->
              minEvent' = "later" /\ UNCHANGED <<handlers, thread>>
         [] Head(callbacks) = "check" ->
              /\ \E d \in Debouncers :
                    thread[d] = "none" /\ thread' = [thread EXCEPT ![d] = "start"]
              /\ UNCHANGED <<handlers, minEvent>>
         [] OTHER ->
              /\ handlers' = Append(handlers, Head(callbacks))
              /\ UNCHANGED <<minEvent, thread>>
    /\ UNCHANGED <<filament, enabled, printing, looks, switched,
                   collided>>

\* Mutant of EventOver: the sensor is not armed again.
NeverAgain == minEvent

EventOver == "later"

\* The runout_gcode of one event is done, or has failed.
HandlerEnds(i) ==
    /\ i \in DOMAIN handlers
    /\ handlers' = SubSeq(handlers, 1, i - 1)
                       \o SubSeq(handlers, i + 1, Len(handlers))
    /\ minEvent' = EventOver
    /\ ThreadsSame
    /\ UNCHANGED <<filament, enabled, printing, callbacks,
                   switched>>

\* idle_timeout, which follows the moves.
PrintingChanges ==
    /\ printing' = ~printing
    /\ ThreadsSame
    /\ UNCHANGED <<filament, enabled, minEvent, callbacks, handlers,
                   switched>>

-----------------------------------------------------------------------------
(* thread_debounce.                                                        *)

HasLock == {d \in Debouncers : thread[d] \notin {"none", "start"}}

Moves(d, from, to) == thread[d] = from /\ thread' = [thread EXCEPT ![d] = to]

ReactorSame == UNCHANGED <<filament, enabled, printing, handlers,
                           switched>>

\* lock.acquire(blocking=False).
Acquire(d) ==
    /\ Moves(d, "start", IF HasLock = {} THEN "look" ELSE "none")
    /\ collided' = (collided \/ HasLock # {})
    /\ ReactorSame /\ UNCHANGED <<minEvent, callbacks, looks>>

Enough == looks >= DebounceCount

Reported == Append(callbacks, "debounced")

\* Filament is there after all, or was seen missing often enough, or once
\* more.
Look(d) ==
    /\ thread[d] = "look"
    /\ \/ filament /\ Moves(d, "look", "mistake")
          /\ UNCHANGED <<looks, callbacks>>
       \/ /\ ~filament /\ Enough /\ callbacks' = Reported
          /\ Moves(d, "look", "leave") /\ UNCHANGED looks
       \/ /\ ~filament /\ ~Enough
          /\ looks' = looks + 1
          /\ Moves(d, "look", "sleep") /\ UNCHANGED callbacks
    /\ ReactorSame /\ UNCHANGED <<minEvent, collided>>

Mistake(d) ==
    /\ Moves(d, "mistake", "leave")
    /\ minEvent' = EventOver
    /\ ReactorSame /\ UNCHANGED <<callbacks, looks, collided>>

Wakes(d) ==
    /\ Moves(d, "sleep", "look")
    /\ ReactorSame /\ UNCHANGED <<minEvent, callbacks, looks, collided>>

Cleared == 0

\* The count is cleared and the lock released.
Leave(d) ==
    /\ Moves(d, "leave", "none")
    /\ looks' = Cleared
    /\ ReactorSame /\ UNCHANGED <<minEvent, callbacks, collided>>

Debounce(d) ==
    Acquire(d) \/ Look(d) \/ Mistake(d) \/ Wakes(d) \/ Leave(d)

RunoutNext ==
    \/ TimePasses \/ Button \/ PrintingChanges \/ Callback
    \/ \E i \in DOMAIN handlers : HandlerEnds(i)
    \/ \E on \in BOOLEAN : SetSensor(on)
    \/ \E d \in Debouncers : Debounce(d)

RunoutSpec == RunoutInit /\ [][RunoutNext]_runoutVars

-----------------------------------------------------------------------------
(* Properties.                                                             *)

\* Every variable has its type.
RunoutTypeOK ==
    /\ {filament, enabled, printing, switched, collided} \subseteq BOOLEAN
    /\ minEvent \in {"never", "later", "past"}
    /\ callbacks \in Seq({"off", "check", "direct", "debounced"})
    /\ handlers \in Seq({"direct", "debounced"})
    /\ thread \in [Debouncers -> {"none", "start", "look", "mistake", "sleep",
                                  "leave"}]
    /\ looks \in 0..DebounceCount

\* A debounce thread starts to count at 0: what another one has counted is
\* cleared before it gives the lock back (filament_switch_sensor.py:181-212).
CountsFromZero ==
    looks > 0 => HasLock # {}

\* Runouts that are being debounced or handled.
Events ==
    Cardinality({i \in DOMAIN callbacks : callbacks[i] # "off"}) + Len(handlers)
        + Cardinality({d \in Debouncers :
                          thread[d] \in {"start", "look", "mistake", "sleep"}})

\* Unless SET_FILAMENT_SENSOR is used, one runout is handled at a time, and no
\* other is taken up meanwhile (filament_switch_sensor.py:83, 250).
OneRunout == ~switched => Events <= 1 /\ (Events = 1 => minEvent = "never")

\* A runout that was taken up ends in its gcode, or filament was there after
\* all, unless its thread found the lock taken
\* (filament_switch_sensor.py:181-214).
RunoutHandled ==
    (\E i \in DOMAIN callbacks : callbacks[i] = "check")
        ~> (handlers # << >> \/ filament \/ collided)

\* The sensor is armed again in the end, unless a thread found the lock taken
\* (filament_switch_sensor.py:76, 192).
ArmedAgain == minEvent = "never" ~> (minEvent # "never" \/ collided)

\* A runout is handled once, and the next one is noticed
\* (filament_switch_sensor.py:54-252).
RunoutsHandled ==
    /\ [](RunoutTypeOK /\ CountsFromZero /\ OneRunout)
    /\ RunoutHandled /\ ArmedAgain

\* The same, whatever the threads do.
AlwaysArmedAgain == minEvent = "never" ~> minEvent # "never"
=============================================================================
