------------------------------- MODULE Homing --------------------------------
(***************************************************************************)
(* A homing move over several micro-controllers: the one with the endstop  *)
(* (1) stops its own steppers, and the host (klippy/mcu.py, MCU_endstop and *)
(* MCU_trsync; chelper/trdispatch.c) passes the stop on to the others.     *)
(* Each stops by itself (src/trsync.c) when it has not heard in time that  *)
(* the others go on.                                                       *)
(*                                                                         *)
(* A behaviour begins when each micro-controller has had trsync_start and  *)
(* its first timeout.  All clocks agree.  A command arrives late but in    *)
(* order (LinkContract); a report may be lost, a reply when Lossy.  The    *)
(* two threads of the host that see a report are one step.                 *)
(***************************************************************************)
EXTENDS Integers, Sequences, FiniteSetsExt

CONSTANTS
    Mcus,               \* 1 has the endstop
    ExpireTicks, ReportTicks, MinExtend,    \* of MCU_trsync.start
    RestTicks, SampleCount,                 \* of the endstop; samples are 1 apart
    MoveEnd,            \* home_end_time
    Lossy,              \* a reply to trsync_trigger may be lost
    LastTick,           \* bound of the model: time
    MaxLine             \* bound of the model: messages on a line

\* The micro-controllers are numbered from the one with the endstop.
ASSUME HomingAssumption ==
    /\ IsFiniteSet(Mcus) /\ Mcus = 1..Cardinality(Mcus) /\ 1 \in Mcus
    /\ {ExpireTicks, ReportTicks, MinExtend, RestTicks, MoveEnd, LastTick, MaxLine} \subseteq Nat
    /\ SampleCount \in Nat \ {0} /\ Lossy \in BOOLEAN

NoTime == -1
HIT == 1
COMMS_TIMEOUT == 2
HOST_REQUEST == 3
PAST_END_TIME == 4

VARIABLES
    time,
    can, reason,        \* TSF_CAN_TRIGGER and trigger_reason of each trsync
    expire, reportAt,   \* expire_time and report_time, NoTime if not added
    endstop,            \* timer and counters of the endstop
    toHost, toMcu,      \* what is on its way to and from the host
    td,                 \* is_active and can_trigger of trdispatch
    status, expireClock,\* last_status_clock and expire_clock of trdispatch_mcu
    triggered,          \* _trigger_completion
    endClock,           \* _home_end_clock, NoTime if None
    phase,              \* where home_wait is
    asking,             \* the trsync that it stops
    lastParams,         \* last_params of the query
    results,            \* what stop() returned
    stopped, run        \* history: when steppers stopped; matching samples

mcuVars == <<can, reason, expire, reportAt, stopped>>
endstopVars == <<endstop, run>>
tdVars == <<td, status, expireClock>>
homeVars == <<triggered, endClock, phase, asking, lastParams, results>>
homingVars == <<time, mcuVars, endstopVars, toHost, toMcu, tdVars, homeVars>>

HomingInit ==
    /\ time = 0
    /\ can = [m \in Mcus |-> TRUE] /\ reason = [m \in Mcus |-> 0]
    /\ expire = [m \in Mcus |-> ExpireTicks] /\ reportAt = [m \in Mcus |-> 0]
    /\ endstop = [on |-> TRUE, wake |-> 0, next |-> 0, count |-> SampleCount]
    /\ toHost = [m \in Mcus |-> << >>] /\ toMcu = [m \in Mcus |-> << >>]
    /\ td = [active |-> TRUE, can |-> TRUE]
    /\ status = [m \in Mcus |-> 0] /\ expireClock = [m \in Mcus |-> ExpireTicks]
    /\ triggered = FALSE /\ endClock = NoTime /\ phase = "drip" /\ asking = 1
    /\ lastParams = NoTime /\ results = [m \in Mcus |-> 0]
    /\ stopped = [m \in Mcus |-> NoTime] /\ run = << >>

Message(name, c, r) == [name |-> name, can |-> c, reason |-> r, clock |-> time]
State(c, r) == Message("state", c, r)

-----------------------------------------------------------------------------
(* The micro-controllers.                                                  *)

\* trsync_do_trigger; the report it leads to may be lost.
DoTrigger(m, r, lost) ==
    /\ can' = [can EXCEPT ![m] = FALSE] /\ reason' = [reason EXCEPT ![m] = r]
    /\ stopped' = [stopped EXCEPT ![m] = time]
    /\ lost \/ Len(toHost[m]) < MaxLine
    /\ toHost' = IF lost THEN toHost ELSE [toHost EXCEPT ![m] = Append(@, State(FALSE, r))]

\* trsync_expire_event.
Expire(m, lost) ==
    /\ expire[m] = time /\ expire' = [expire EXCEPT ![m] = NoTime]
    /\ IF can[m] THEN DoTrigger(m, COMMS_TIMEOUT, lost)
       ELSE UNCHANGED <<can, reason, stopped, toHost>>
    /\ UNCHANGED <<time, reportAt, endstopVars, toMcu, tdVars, homeVars>>

\* trsync_report_event and trsync_task.
SendReport(m, lost) ==
    /\ reportAt[m] = time /\ reportAt' = [reportAt EXCEPT ![m] = time + ReportTicks]
    /\ lost \/ Len(toHost[m]) < MaxLine
    /\ toHost' = IF lost THEN toHost ELSE [toHost EXCEPT ![m] = Append(@, State(can[m], reason[m]))]
    /\ UNCHANGED <<time, can, reason, expire, stopped, endstopVars, toMcu, tdVars, homeVars>>

\* The sample that ends the run of those that match.
LastSample(count) == count = 1

\* endstop_event and endstop_oversample_event: a match is sampled again and again.
SampleEndstop(matches, lost) ==
    LET oversampling == endstop.count < SampleCount
        next == IF oversampling THEN endstop.next ELSE time + RestTicks
    IN  /\ endstop.on /\ endstop.wake = time
        /\ run' = IF matches THEN Append(run, time) ELSE << >>
        /\ IF ~matches
           THEN /\ endstop' = [endstop EXCEPT !.wake = next, !.next = next,
                                              !.count = SampleCount]
                /\ UNCHANGED <<can, reason, stopped, toHost>>
           ELSE IF LastSample(endstop.count)
           THEN /\ endstop' = [endstop EXCEPT !.on = FALSE, !.next = next]
                /\ IF can[1] THEN DoTrigger(1, HIT, lost)
                   ELSE UNCHANGED <<can, reason, stopped, toHost>>
           ELSE /\ endstop' = [endstop EXCEPT !.wake = time + 1, !.next = next,
                                              !.count = @ - 1]
                /\ UNCHANGED <<can, reason, stopped, toHost>>
        /\ UNCHANGED <<time, expire, reportAt, toMcu, tdVars, homeVars>>

\* command_trsync_set_timeout; a timer in the past shuts the micro-controller
\* down (sched_add_timer).
TakeTimeout(m) ==
    /\ toMcu[m] # << >> /\ Head(toMcu[m]).name = "timeout"
    /\ toMcu' = [toMcu EXCEPT ![m] = Tail(@)]
    /\ IF ~can[m] THEN UNCHANGED <<mcuVars, toHost>>
       ELSE IF Head(toMcu[m]).arg >= time
       THEN /\ expire' = [expire EXCEPT ![m] = Head(toMcu[m]).arg]
            /\ UNCHANGED <<can, reason, reportAt, stopped, toHost>>
       ELSE /\ can' = [can EXCEPT ![m] = FALSE] /\ reason' = [reason EXCEPT ![m] = 0]
            /\ expire' = [expire EXCEPT ![m] = NoTime]
            /\ reportAt' = [reportAt EXCEPT ![m] = NoTime]
            /\ stopped' = [stopped EXCEPT ![m] = time]
            /\ toHost' = [toHost EXCEPT ![m] = Append(@, Message("shutdown", FALSE, 0))]
    /\ UNCHANGED <<time, endstopVars, tdVars, homeVars>>

\* command_trsync_trigger: from the dispatch, at the end of the move, or as a
\* query, which is acknowledged.
TakeTrigger(m, lost) ==
    LET c == Head(toMcu[m])
        r == IF can[m] THEN c.arg ELSE reason[m]
        reply == IF lost THEN << >> ELSE <<State(FALSE, r)>>
        ack == IF c.name = "query" THEN <<Message("ack", FALSE, r)>> ELSE << >>
    IN  /\ toMcu[m] # << >> /\ c.name \in {"trigger", "query"}
        /\ toMcu' = [toMcu EXCEPT ![m] = Tail(@)]
        /\ lost => c.name = "trigger" \/ Lossy
        /\ can' = [can EXCEPT ![m] = FALSE]
        /\ reason' = [reason EXCEPT ![m] = r]
        /\ stopped' = [stopped EXCEPT ![m] = IF can[m] THEN time ELSE @]
        /\ expire' = [expire EXCEPT ![m] = NoTime]
        /\ reportAt' = [reportAt EXCEPT ![m] = NoTime]
        /\ toHost' = [toHost EXCEPT ![m] = @ \o reply \o ack]
        /\ UNCHANGED <<time, endstopVars, tdVars, homeVars>>

\* command_endstop_home with a sample_count of 0.
TakeDisable ==
    /\ toMcu[1] # << >> /\ Head(toMcu[1]).name = "disable"
    /\ toMcu' = [toMcu EXCEPT ![1] = Tail(@)] /\ endstop' = [endstop EXCEPT !.on = FALSE]
    /\ UNCHANGED <<time, mcuVars, run, toHost, tdVars, homeVars>>

-----------------------------------------------------------------------------
(* The host.                                                               *)

Command(name, arg) == [name |-> name, arg |-> arg]

\* Mutant of Heard: what the micro-controller said itself counts.
HeardSelf(m, st) == Max({st[n] : n \in Mcus})

\* The time until which all the others are known to go on; a lone one itself.
Heard(m, st) ==
    LET others == IF Mcus = {m} THEN Mcus ELSE Mcus \ {m}
    IN  Min({st[n] : n \in others})

\* The others, or the lone one, that must hear more.
Extended(st) == {n \in Mcus : Heard(n, st) + ExpireTicks - expireClock[n] >= MinExtend}

\* What handle_trsync_state of trdispatch.c sends to n for a message of m.
Dispatched(n, msg, st) ==
    IF ~td.active \/ ~td.can THEN << >>
    ELSE IF ~msg.can THEN <<Command("trigger", HOST_REQUEST)>>
    ELSE IF n \in Extended(st) THEN <<Command("timeout", Heard(n, st) + ExpireTicks)>>
    ELSE << >>

\* handle_trsync_state, then _handle_trsync_state: the first that has stopped
\* completes the wait, and a report from after the end of the move stops 1.
HandleState(m) ==
    LET msg == Head(toHost[m])
        st == [status EXCEPT ![m] = msg.clock]
        past == m = 1 /\ msg.can /\ endClock # NoTime /\ msg.clock >= endClock
        pastEnd == IF past THEN <<Command("trigger", PAST_END_TIME)>> ELSE << >>
        extends == td.active /\ td.can /\ msg.can
    IN  /\ toHost[m] # << >> /\ msg.name = "state" /\ phase \in {"drip", "wait"}
        /\ toHost' = [toHost EXCEPT ![m] = Tail(@)]
        /\ toMcu' = [n \in Mcus |-> toMcu[n] \o Dispatched(n, msg, st)
                                           \o IF n = 1 THEN pastEnd ELSE << >>]
        /\ td' = [td EXCEPT !.can = @ /\ (msg.can \/ ~td.active)]
        /\ status' = IF extends THEN st ELSE status
        /\ expireClock' = [n \in Mcus |-> IF extends /\ n \in Extended(st)
                             THEN Heard(n, st) + ExpireTicks ELSE expireClock[n]]
        /\ triggered' = (triggered \/ ~msg.can)
        /\ endClock' = IF past THEN NoTime ELSE endClock
        /\ UNCHANGED <<time, mcuVars, endstopVars, phase, asking, lastParams, results>>

\* drip_move returns; home_wait.
MoveReturns ==
    /\ phase = "drip" /\ phase' = "wait" /\ endClock' = MoveEnd
    /\ UNCHANGED <<time, mcuVars, endstopVars, toHost, toMcu, tdVars, triggered, asking,
                   lastParams, results>>

Query == Command("query", HOST_REQUEST)

\* home_wait goes on: it disables the endstop and stops the first trsync.
WaitOver ==
    /\ phase = "wait" /\ triggered /\ phase' = "stop" /\ asking' = 1
    /\ td' = [td EXCEPT !.active = FALSE]
    /\ toMcu' = [toMcu EXCEPT ![1] = @ \o <<Command("disable", 0), Query>>]
    /\ UNCHANGED <<time, mcuVars, endstopVars, toHost, status, expireClock, triggered, endClock,
                   lastParams, results>>

\* While a trsync is stopped its reports go to the query, the last one counts.
TakeReport(m) ==
    /\ toHost[m] # << >> /\ Head(toHost[m]).name = "state" /\ phase = "stop"
    /\ toHost' = [toHost EXCEPT ![m] = Tail(@)]
    /\ lastParams' = IF m = asking THEN Head(toHost[m]).reason ELSE lastParams
    /\ UNCHANGED <<time, mcuVars, endstopVars, toMcu, tdVars, triggered, endClock, phase,
                   asking, results>>

\* get_response: without a reply the query is sent again.
TakeAck(m) ==
    /\ toHost[m] # << >> /\ Head(toHost[m]).name = "ack" /\ phase = "stop"
    /\ toHost' = [toHost EXCEPT ![m] = Tail(@)]
    /\ IF lastParams = NoTime
       THEN toMcu' = [toMcu EXCEPT ![m] = Append(@, Query)]
            /\ UNCHANGED <<phase, asking, lastParams, results>>
       ELSE /\ results' = [results EXCEPT ![m] = lastParams] /\ lastParams' = NoTime
            /\ IF m + 1 \in Mcus
               THEN /\ asking' = m + 1 /\ UNCHANGED phase
                    /\ toMcu' = [toMcu EXCEPT ![m + 1] = Append(@, Query)]
               ELSE phase' = "done" /\ UNCHANGED <<asking, toMcu>>
    /\ UNCHANGED <<time, mcuVars, endstopVars, tdVars, triggered, endClock>>

\* A micro-controller has shut down: klippy shuts down, and the model ends.
TakeShutdown(m) ==
    /\ toHost[m] # << >> /\ Head(toHost[m]).name = "shutdown" /\ phase # "failed"
    /\ toHost' = [toHost EXCEPT ![m] = Tail(@)]
    /\ phase' = "failed" /\ triggered' = TRUE
    /\ UNCHANGED <<time, mcuVars, endstopVars, toMcu, tdVars, endClock, asking, lastParams, results>>

-----------------------------------------------------------------------------

\* Time does not pass a timer.
Tick ==
    /\ time < LastTick /\ time' = time + 1
    /\ \A m \in Mcus : expire[m] # time /\ reportAt[m] # time
    /\ ~(endstop.on /\ endstop.wake = time)
    /\ UNCHANGED <<mcuVars, endstopVars, toHost, toMcu, tdVars, homeVars>>

\* No time is left in the model for what is due.
Going == phase \notin {"done", "failed"}

HomingNext ==
    /\ Going
    /\ \/ Tick
       \/ \E m \in Mcus, lost \in BOOLEAN :
             Expire(m, lost) \/ SendReport(m, lost) \/ TakeTrigger(m, lost)
       \/ \E matches, lost \in BOOLEAN : SampleEndstop(matches, lost)
       \/ \E m \in Mcus :
             \/ TakeTimeout(m) \/ HandleState(m) \/ TakeReport(m) \/ TakeAck(m)
             \/ TakeShutdown(m)
       \/ TakeDisable \/ MoveReturns \/ WaitOver

HomingSpec == HomingInit /\ [][HomingNext]_homingVars

-----------------------------------------------------------------------------
(* What home_wait returns.                                                 *)

TimedOut == \E m \in Mcus : results[m] = COMMS_TIMEOUT

Homed == phase = "done" /\ ~TimedOut /\ results[1] = HIT

TriggerTime == endstop.next - RestTicks

-----------------------------------------------------------------------------
(* Properties.                                                             *)

\* After one has stopped, the others go on for no more than the timeout,
\* whatever is late or lost (trdispatch.c:81-119, trsync.c:49-54).
OverrunBounded ==
    \A m, n \in Mcus : stopped[m] # NoTime /\ stopped[n] = NoTime
                          => time <= stopped[m] + ExpireTicks

\* A home that succeeds was stopped by the endstop, and none of the others
\* stopped by itself (mcu.py:117-127, 204-217).
HomedByEndstop ==
    Homed => \A m \in Mcus : ~can[m] /\ reason[m] = IF m = 1 THEN HIT ELSE HOST_REQUEST

\* The time that is returned is that of the first of SampleCount samples in a
\* row that matched (endstop.c:28-64, mcu.py:218-222).
TriggerTimeRight == Homed => Len(run) >= SampleCount /\ TriggerTime = run[1]

\* A homing move stops all micro-controllers together, succeeds only by the endstop and
\* returns when that was (endstop.c:28-64, trdispatch.c:81-119, mcu.py:117-222).
HomingRight == OverrunBounded /\ HomedByEndstop /\ TriggerTimeRight
=============================================================================
