----------------------------- MODULE PrintTime ------------------------------
(***************************************************************************)
(* The time of the toolhead (toolhead.py) and the idle timeout that        *)
(* watches it (idle_timeout.py): moves wait in the look-ahead queue until  *)
(* a flush gives them a print time; the greenlet that holds the mutex of   *)
(* gcode pauses while too much is buffered; the flush timer ends a pause   *)
(* in the input; the idle timer tells printing from ready and idle.  What  *)
(* it does when idle is a script, which the configuration of the printer   *)
(* makes empty (printer.cfg:392-397): it turns nothing off.                *)
(*                                                                         *)
(* Times are relative to the estimated print time of the micro-controller, *)
(* in ticks.  The delays of step generation, all shorter than a tick, and  *)
(* the shutdown of the printer are left out; LookAhead has the queue.      *)
(***************************************************************************)
EXTENDS Integers

CONSTANTS
    Low, High, Lead,        \* buffer_time_low, buffer_time_high, buffer_time_start
    ReadyAfter, IdleAfter,  \* READY_TIMEOUT, idle_timeout
    Second,                 \* ticks of a second
    Late,                   \* ticks that the reactor may be late for a timer
    Lengths,                \* how long moves and dwells take
    MaxAhead                \* bound of the model: length of the look-ahead queue

NEVER == 99             \* reactor.NEVER
Always == -99           \* need_check_stall = -1.

\* The timers are served before what is buffered runs out, and no time that is
\* reached is as late as NEVER.
ASSUME PrintTimeAssumption ==
    /\ {Low, High, Lead, IdleAfter, Late, MaxAhead} \subseteq Nat
    /\ {ReadyAfter, Second} \subseteq Nat \ {0}
    /\ Late < Low /\ Low <= High /\ Late <= Lead
    /\ Lengths \subseteq Nat \ {0} /\ Lengths # {}
    /\ \A n \in Lengths : {High, Lead} \subseteq 0 .. NEVER - 2 - MaxAhead - n
    /\ IdleAfter < -Always

VARIABLES
    host,               \* state of ToolHead and IdleTimeout
    worker              \* the greenlet that has the mutex of gcode

printTimeVars == <<host, worker>>

FreeWorker == [at |-> "free", left |-> 0]

PrintTimeInit ==
    /\ host = [buffer |-> -IdleAfter,       \* print_time - estimated print time
               state |-> "Flushed",         \* special_queuing_state
               ahead |-> 0,                 \* length of move_queue
               flushIn |-> NEVER,           \* flush_timer
               stallAt |-> Always,          \* need_check_stall
               idle |-> "Idle", idleIn |-> NEVER]
    /\ worker = FreeWorker

Larger(a, b) == IF a > b THEN a ELSE b
Smaller(a, b) == IF a < b THEN a ELSE b

-----------------------------------------------------------------------------
(* ToolHead.                                                               *)

\* Mutant of Synced: the timer of the timeout is not started again.
SyncedOnly(h) == [h EXCEPT !.idle = "Printing"]

\* handle_sync_print_time; its arguments are swapped by send_event.
Synced(h) ==
    IF h.idle = "Printing" THEN h
    ELSE [h EXCEPT !.idle = "Printing",
                   !.idleIn = Larger(0, ReadyAfter - h.buffer)]

\* _calc_print_time.  Where print_time was just put there the clock has gone on since,
\* if by less than a tick.
CalcPrintTime(h) ==
    IF Lead >= h.buffer THEN Synced([h EXCEPT !.buffer = Lead]) ELSE h

Resume(h) == [h EXCEPT !.state = "Main", !.stallAt = Always, !.flushIn = 0]

\* _process_moves, with n ticks of moves; the main state of the code is "".
Process(h, n) ==
    LET r == IF h.state \in {"Flushed", "Priming"} THEN Resume(h) ELSE h
        c == IF h.state = "Main" THEN r ELSE CalcPrintTime(r)
    IN  [c EXCEPT !.buffer = @ + n, !.ahead = @ - n]

\* MoveQueue.flush.
FlushQueue(h) == IF h.ahead = 0 THEN h ELSE Process(h, h.ahead)

\* flush_step_generation.
FlushSteps(h) ==
    [FlushQueue(h) EXCEPT !.state = "Flushed", !.stallAt = Always, !.flushIn = NEVER]

FlushLookahead(h) == IF h.state = "Main" THEN FlushQueue(h) ELSE FlushSteps(h)

LastMoveTime(h) ==
    LET f == FlushLookahead(h) IN IF f.state = "Main" THEN f ELSE CalcPrintTime(f)

\* _check_stall, up to its loop.
Primed(h) ==
    IF h.state = "Main" THEN h
    ELSE [h EXCEPT !.state = "Priming", !.stallAt = Always, !.flushIn = 1]

\* What _check_stall does when it leaves the loop.
CheckDeferred(h) == [h EXCEPT !.stallAt = IF h.state = "Main" THEN High + 1 ELSE @]

Stalls(h) == h.buffer > High

\* _check_stall, to the pause or to the end.
CheckStall(h) ==
    IF Stalls(h)
    THEN host' = h /\ worker' = [at |-> "stall", left |-> 0]
    ELSE host' = CheckDeferred(h) /\ worker' = FreeWorker

\* move, with what a lazy flush takes from the queue.
Move(n, lazy) ==
    /\ worker = FreeWorker /\ host.ahead + n <= MaxAhead
    /\ LET q == [host EXCEPT !.ahead = @ + n]
           h == IF lazy = 0 THEN q ELSE Process(q, lazy)
       IN  IF h.buffer > h.stallAt THEN CheckStall(Primed(h))
           ELSE host' = h /\ UNCHANGED worker

\* dwell (G4).
Dwell(n) ==
    /\ worker = FreeWorker
    /\ LET h == LastMoveTime(host) IN CheckStall(Primed([h EXCEPT !.buffer = @ + n]))

\* PrinterHeaters.set_temperature: register_lookahead_callback (M104).
Heat ==
    /\ worker = FreeWorker /\ UNCHANGED worker
    /\ host' = IF host.ahead = 0 THEN LastMoveTime(host) ELSE host

\* wait_moves (M400), to its loop.
WaitMoves ==
    /\ worker = FreeWorker
    /\ host' = FlushLookahead(host) /\ worker' = [at |-> "wait", left |-> 0]

\* drip_move (homing): the dwell, then the loop of _check_stall.
DripMove(n) ==
    /\ worker = FreeWorker
    /\ host' = Primed(LastMoveTime(host)) /\ worker' = [at |-> "stall", left |-> n]

\* The state of drip_move after its dwell.
Dripping(h) ==
    [FlushQueue(h) EXCEPT !.state = "Drip", !.stallAt = NEVER, !.flushIn = NEVER]

StallEnds ==
    /\ worker.at = "stall" /\ ~Stalls(host)
    /\ \/ worker.left = 0 /\ host' = CheckDeferred(host) /\ worker' = FreeWorker
       \/ /\ worker.left > 0 /\ worker' = [worker EXCEPT !.at = "drip"]
          /\ host' = CalcPrintTime(Dripping(CheckDeferred(host)))
       \/ \* the move is refused
          /\ worker.left > 0 /\ worker' = FreeWorker
          /\ host' = FlushSteps(Dripping(CheckDeferred(host)))

StillMoving == host.state = "Main" \/ host.buffer >= 0

\* The loop of wait_moves ends.
WaitEnds ==
    /\ worker.at = "wait" /\ ~StillMoving
    /\ worker' = FreeWorker /\ UNCHANGED host

\* _update_drip_move_time: one segment, a tick long.
DripSegment ==
    /\ worker.at = "drip" /\ worker.left > 0 /\ host.buffer <= 1
    /\ worker' = [worker EXCEPT !.left = @ - 1]
    /\ host' = [host EXCEPT !.buffer = @ + 1]

\* The move is at its end or drip_completion is complete.
DripEnds ==
    /\ worker.at = "drip" /\ worker' = FreeWorker
    /\ host' = FlushSteps(host)

-----------------------------------------------------------------------------
(* Timers.                                                                 *)

Again == host.buffer - Low

\* _flush_handler.
FlushHandler ==
    /\ host.flushIn <= 0 /\ UNCHANGED worker
    /\ host' = IF host.buffer > Low THEN [host EXCEPT !.flushIn = Again]
               ELSE FlushSteps(host)

Sleep(t) == host' = [host EXCEPT !.idleIn = t] /\ UNCHANGED worker

\* transition_idle_state, around a script that does nothing and cannot fail.
GoIdle ==
    LET h == LastMoveTime([host EXCEPT !.idle = "Printing"])
    IN  host' = [h EXCEPT !.idle = "Idle", !.idleIn = NEVER] /\ UNCHANGED worker

GcodeBusy == worker # FreeWorker

Busy == host.ahead > 0 \/ -host.buffer < Second

\* timeout_handler in state "Ready": check_idle_timeout.
CheckIdle ==
    /\ host.idleIn <= 0 /\ host.idle = "Ready"
    /\ \/ Busy /\ Sleep(IdleAfter)
       \/ ~Busy /\ -host.buffer < IdleAfter /\ Sleep(IdleAfter + host.buffer)
       \/ ~Busy /\ -host.buffer >= IdleAfter /\ GcodeBusy /\ Sleep(Second)
       \/ ~Busy /\ -host.buffer >= IdleAfter /\ ~GcodeBusy /\ GoIdle

\* timeout_handler in the other states.
CheckReady ==
    LET buffer == Smaller(2 * Second, host.buffer)
    IN  /\ host.idleIn <= 0 /\ host.idle # "Ready"
        /\ \/ host.ahead > 0 /\ Sleep(ReadyAfter + Larger(0, buffer))
           \/ host.ahead = 0 /\ buffer > -ReadyAfter /\ Sleep(ReadyAfter + buffer)
           \/ host.ahead = 0 /\ buffer <= -ReadyAfter /\ GcodeBusy /\ Sleep(ReadyAfter)
           \/ /\ host.ahead = 0 /\ buffer <= -ReadyAfter /\ ~GcodeBusy
              /\ host' = [host EXCEPT !.idle = "Ready", !.idleIn = IdleAfter]
              /\ UNCHANGED worker

Aged(t) == IF t \in {NEVER, Always} THEN t ELSE t - 1

\* Time passes; no timer is later than Late.
Tick ==
    /\ host.flushIn > -Late /\ host.idleIn > -Late
    /\ host' = [host EXCEPT !.buffer = Larger(-IdleAfter, @ - 1),
                            !.flushIn = Aged(@), !.idleIn = Aged(@),
                            !.stallAt = IF Aged(@) < -IdleAfter THEN Always ELSE Aged(@)]
    /\ UNCHANGED worker

Command ==
    \/ \E n \in Lengths, lazy \in 0..host.ahead : Move(n, lazy)
    \/ \E n \in Lengths : Dwell(n)
    \/ \E n \in Lengths : DripMove(n)
    \/ Heat
    \/ WaitMoves

PrintTimeNext ==
    \/ Command \/ StallEnds \/ WaitEnds \/ DripSegment \/ DripEnds
    \/ FlushHandler \/ CheckIdle \/ CheckReady \/ Tick

-----------------------------------------------------------------------------
(* Properties.                                                             *)

\* Every variable has its type, and no more moves wait than the queue holds.
PrintTimeTypeOK ==
    /\ host.state \in {"Flushed", "Priming", "Main", "Drip"}
    /\ host.buffer >= -IdleAfter /\ host.ahead \in 0..MaxAhead
    /\ worker.at \in {"free", "stall", "wait", "drip"}

\* Steps are never generated for a time that has passed: while the toolhead is
\* in its main state there is something in the buffer (toolhead.py:344-351,
\* 423-437).
BufferNotEmpty == host.state = "Main" => host.buffer > 0

\* However many moves come, what is buffered is bounded: by what one flush and
\* one dwell add to it (toolhead.py:395-422).
BufferBounded == \E n \in Lengths : host.buffer <= Larger(High + 1, Lead) + MaxAhead + n

\* Moves that are queued run although no further command comes: the flush timer
\* is started whenever something waits (toolhead.py:395-437).
MovesRun == []<><<Command>>_printTimeVars \/ []<>(host.ahead = 0)

\* M400 and homing come to an end (toolhead.py:472-523).
WorkerFree == worker # FreeWorker ~> worker = FreeWorker

\* M400 returns when the toolhead stands still (toolhead.py:472-479).
WaitsForAll == WaitEnds => host.ahead = 0 /\ host.buffer < 0

\* Whoever asks whether the printer prints is told so while moves are executed: the
\* filament sensors (filament_switch_sensor.py:97, :237) and G1 (gcode_move.py:229,
\* :250) do nothing in the states "Ready" and "Idle" (idle_timeout.py:57-107,
\* toolhead.py:334-343).
MovesArePrinting == host.state \in {"Main", "Drip"} => host.idle = "Printing"

\* When no command comes any more the state is "Idle" in the end, and stays so
\* (idle_timeout.py:44-107).
GoesIdle == []<><<Command>>_printTimeVars \/ <>[](host.idle = "Idle")

\* The toolhead neither runs dry nor far ahead, all that is queued runs, and the printer
\* is printing while it does and idle in the end (toolhead.py:344-523,
\* idle_timeout.py:44-107).
PrintTimeRight ==
    /\ [](PrintTimeTypeOK /\ BufferNotEmpty /\ BufferBounded /\ MovesArePrinting)
    /\ [][WaitsForAll]_printTimeVars
    /\ MovesRun /\ WorkerFree /\ GoesIdle
=============================================================================
