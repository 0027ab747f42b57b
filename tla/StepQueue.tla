------------------------------ MODULE StepQueue ------------------------------
(***************************************************************************)
(* Steps on their way from the host to the motors: stepcompress.c packs    *)
(* them into moves and steppersync_flush sends those in order, each when   *)
(* the micro-controller has room for it (basecmd.c); stepper.c runs them   *)
(* and stops when an endstop triggers.  The host has absolute clocks, the  *)
(* micro-controller those modulo McuWrap.                                  *)
(***************************************************************************)
EXTENDS Integers, Sequences, FiniteSets, SequencesExt, FiniteSetsExt

CONSTANTS
    Motors,             \* the steppers, numbered in the order of sc_list
    QueueSize,          \* moves that the micro-controller can hold
    McuWrap,            \* number of values of its clock (2^32)
    PosWrap,            \* number of values of a position (2^32)
    DiffMax,            \* CLOCK_DIFF_MAX
    Filter,             \* SDS_FILTER_TIME
    ReqDelta,           \* MIN_REQTIME_DELTA
    Lead,               \* how far ahead of the clock steps are generated
    BatchTime,          \* MOVE_BATCH_TIME
    Directions,         \* the directions in which a motor goes
    FlushDelay,         \* move_flush_time
    StartClock,         \* the clock when the printer is ready
    MaxMade, MaxClock

ASSUME StepQueueAssumption ==
    /\ {QueueSize, McuWrap, PosWrap, DiffMax, Filter, ReqDelta, Lead,
        BatchTime} \subseteq Nat
    /\ Motors = 1..Max(Motors) /\ QueueSize > 0
    /\ McuWrap % 2 = 0 /\ PosWrap % 4 = 0 /\ DiffMax + Lead + BatchTime < McuWrap \div 2
    /\ ReqDelta + FlushDelay < Lead
    /\ Directions \in [Motors -> SUBSET {0, 1}]
    /\ StartClock \in Nat /\ MaxMade < PosWrap \div 4

VARIABLES
    host,               \* struct stepcompress of each motor
    moveClocks,         \* move_clocks: when the moves become free
    generated,          \* last_flush_time: up to where steps were generated
    moveClock,          \* up to where they were flushed
    sent,               \* messages of the steppersync's command queue, in order
    mcu,                \* struct stepper of each motor
    motor,              \* where each motor really is
    now,                \* the clock
    stopped,            \* between a trigger and note_homing_end
    failed,             \* why the micro-controller shut down, or ""
    askedSteps,         \* the steps a motor has to take: clock and direction
    made                \* number of steps and homing moves so far

stepVars == <<host, moveClocks, generated, moveClock, sent, mcu, motor, now, stopped,
              failed,
              askedSteps, made>>

NoMove == [interval |-> 0, count |-> 0, rev |-> FALSE]

-----------------------------------------------------------------------------
(* The host: packing steps into moves.                                     *)

Put(s, msg) == [s EXCEPT !.msgs = Append(@, msg)]

\* add_move
AddStepMove(s, first, interval, count) ==
    LET far == count = 1 /\ first >= s.last + DiffMax
        msg == [kind |-> "step", arg |-> <<interval, count>>, min |-> s.last,
                req |-> IF far THEN first ELSE s.last]
    IN  [Put(s, msg) EXCEPT !.last = first + interval * (count - 1),
                            !.pos = @ + (IF s.sdir = 1 THEN count ELSE -count)]

\* compress_bisect_add: how many steps have the same distance as the first
RunLength(s) ==
    LET interval == s.queue[1] - s.last
    IN  Max({n \in DOMAIN s.queue : \A k \in 1..n : s.queue[k] = s.last + k * interval})

\* queue_flush
RECURSIVE QueueFlush(_, _)
QueueFlush(s, clock) ==
    IF s.queue = <<>> \/ s.last >= clock THEN s
    ELSE LET interval == s.queue[1] - s.last
             n == RunLength(s)
         IN  QueueFlush([AddStepMove(s, s.last + interval, interval, n)
                            EXCEPT !.queue = SubSeq(@, n + 1, Len(@))], clock)

Forever == MaxClock + Lead + BatchTime + DiffMax + McuWrap

\* Mutation: the direction changes before the steps in the queue are packed.
TurnsEarly(s) ==
    IF s.sdir = s.nextDir THEN s
    ELSE [Put(s, [kind |-> "dir", arg |-> <<s.nextDir, 0>>, min |-> 0, req |-> s.last])
            EXCEPT !.sdir = s.nextDir]

\* set_next_step_dir
SetNextStepDir(s) ==
    IF s.sdir = s.nextDir THEN s
    ELSE LET f == QueueFlush(s, Forever)
         IN  [Put(f, [kind |-> "dir", arg |-> <<s.nextDir, 0>>, min |-> 0, req |-> f.last])
                EXCEPT !.sdir = s.nextDir]

\* queue_append, queue_append_far, stepcompress_flush_far: the pending step is final.
QueueAppend(s) ==
    LET clock == s.pending
        d == [SetNextStepDir(s) EXCEPT !.pending = 0]
        f == QueueFlush(d, clock - DiffMax + 1)
    IN  IF clock < d.last + DiffMax THEN [d EXCEPT !.queue = Append(@, clock)]
        ELSE IF clock >= f.last + DiffMax THEN AddStepMove(f, clock, clock - f.last, 1)
        ELSE [f EXCEPT !.queue = Append(@, clock)]

\* stepcompress_commit
Commit(s) == IF s.pending # 0 THEN QueueAppend(s) ELSE s

\* stepcompress_append: a step back that follows too soon takes both steps away.
RollsBack(s, clock, dir) ==
    s.pending # 0 /\ dir # s.nextDir /\ clock - s.pending < Filter
StepAppend(s, clock, dir) ==
    IF RollsBack(s, clock, dir) THEN [s EXCEPT !.pending = 0, !.nextDir = dir]
    ELSE [Commit(s) EXCEPT !.pending = clock, !.nextDir = dir]

\* stepcompress_flush
FlushedSteps(s, clock) == QueueFlush(IF clock >= s.pending THEN Commit(s) ELSE s, clock)

\* stepcompress_reset and the reset_step_clock of note_homing_end
HomingReset(s, pos) ==
    [Put(FlushedSteps(s, Forever), [kind |-> "reset", arg |-> <<0, 0>>, min |-> 0,
                                                                req |-> 0])
        EXCEPT !.last = 0, !.sdir = -1, !.pos = pos]

-----------------------------------------------------------------------------
(* The host: sending moves when there is room for them.                    *)

\* heap_replace: the earliest clock of the heap makes way for another one.
RECURSIVE SiftDown(_, _, _)
SiftDown(h, pos, clock) ==
    LET Child(n) == IF n <= QueueSize THEN h[n] ELSE Forever
        one == Child(2 * pos)
        two == Child(2 * pos + 1)
    IN  IF clock <= one /\ clock <= two THEN [h EXCEPT ![pos] = clock]
        ELSE IF one < two THEN SiftDown([h EXCEPT ![pos] = one], 2 * pos, clock)
        ELSE SiftDown([h EXCEPT ![pos] = two], 2 * pos + 1, clock)
HeapReplace(h, clock) == SiftDown(h, 1, clock)

\* The motor with the message that is required first.
NextMotor(h) ==
    LET waiting == {i \in Motors : h[i].msgs # <<>>}
        Req(i) == Head(h[i].msgs).req
        first == {i \in waiting : \A j \in waiting : Req(i) <= Req(j)}
    IN  Min(first)

\* serialqueue_send_batch: no clock may be more than half a turn ahead.
SendTime(msg, avail) == [msg EXCEPT !.min = Max({avail, msg.req - McuWrap \div 2})]

\* steppersync_flush after the motors were flushed
RECURSIVE Batch(_, _, _, _)
Batch(h, heap, out, clock) ==
    IF \A i \in Motors : h[i].msgs = <<>> THEN <<h, heap, out>>
    ELSE LET i == NextMotor(h)
             msg == Head(h[i].msgs)
         IN  IF msg.min # 0 /\ msg.req > clock THEN <<h, heap, out>>
             ELSE Batch([h EXCEPT ![i].msgs = Tail(@)],
                        IF msg.min # 0 THEN HeapReplace(heap, msg.min) ELSE heap,
                        Append(out, [motor |-> i, msg |-> SendTime(msg, heap[1])]),
                        clock)

-----------------------------------------------------------------------------
(* The micro-controller.                                                   *)

Bias == PosWrap \div 4

\* stepper_get_position: the top bit says that the position is kept negated.
GetPosition(s) ==
    LET p == (s.position - s.count) % PosWrap
    IN  IF p >= PosWrap \div 2 THEN (-p) % PosWrap ELSE p

\* What the host makes of it: the answer is the signed difference to the bias.
Reported(s) == GetPosition(s) - Bias

Held == FoldSet(LAMBDA i, n : n + Len(mcu[i].moves), 0, Motors)

\* stepper_load_next
LoadNext(s) ==
    IF s.moves = <<>> THEN [s EXCEPT !.count = 0]
    ELSE LET m == Head(s.moves)
         IN  [s EXCEPT !.moves = Tail(@), !.interval = m.interval, !.count = m.count,
                       !.time = (@ + m.interval) % McuWrap,
                       !.position = ((IF m.rev THEN -@ ELSE @) + m.count) % PosWrap,
                       !.dirPin = IF m.rev THEN 1 - @ ELSE @]

TooClose(s) == (s.time - now) % McuWrap >= McuWrap \div 2

\* command_queue_step
QueueStep(i, interval, count) ==
    LET s == mcu[i]
        m == [interval |-> interval % McuWrap, count |-> count,
              rev |-> s.lastDir # s.nextDir]
        pushed == [s EXCEPT !.moves = Append(@, m), !.lastDir = s.nextDir]
        loaded == LoadNext(pushed)
    IN  IF Held = QueueSize THEN failed' = "Move queue overflow" /\ UNCHANGED mcu
        ELSE IF s.count > 0 THEN mcu' = [mcu EXCEPT ![i] = pushed] /\ UNCHANGED failed
        ELSE IF s.needReset THEN UNCHANGED <<mcu, failed>>
        ELSE /\ mcu' = [mcu EXCEPT ![i] = loaded]
             /\ failed' = IF TooClose(loaded) THEN "Timer too close" ELSE failed

\* command_set_next_step_dir
SetDir(i, dir) == mcu' = [mcu EXCEPT ![i].nextDir = dir] /\ UNCHANGED failed

\* command_reset_step_clock
ResetStepClock(i) ==
    IF mcu[i].count > 0 THEN failed' = "Can't reset time" /\ UNCHANGED mcu
    ELSE /\ mcu' = [mcu EXCEPT ![i].time = 0, ![i].needReset = FALSE]
         /\ UNCHANGED failed

\* stepper_stop
StoppedMotor(s) == [s EXCEPT !.moves = <<>>, !.count = 0, !.time = 0, !.lastDir = 0,
                        !.nextDir = 0, !.dirPin = 0, !.needReset = TRUE,
                        !.position = (-GetPosition(s)) % PosWrap]

-----------------------------------------------------------------------------
StepInit ==
    /\ host = [i \in Motors |-> [last |-> 0, sdir |-> -1, queue |-> <<>>, pending |-> 0,
                                 nextDir |-> 0, msgs |-> <<>>, pos |-> 0]]
    /\ moveClocks = [k \in 1..QueueSize |-> 0]
    /\ generated = 0
    /\ moveClock = 0
    /\ sent = <<>>
    /\ mcu = [i \in Motors |-> [moves |-> <<>>, interval |-> 0, count |-> 0, time |-> 0,
                                position |-> (-Bias) % PosWrap, lastDir |-> 0,
                                nextDir |-> 0, dirPin |-> 0, needReset |-> FALSE]]
    /\ motor = [i \in Motors |-> 0]
    /\ now = StartClock
    /\ stopped = FALSE
    /\ failed = ""
    /\ askedSteps = [i \in Motors |-> <<>>]
    /\ made = 0

\* itersolve_generate_steps for the motor s with the steps in q still to take: steps are
\* pairs of clock and direction; the motor may go well past each, which commits it.
RECURSIVE Generated(_, _, _, _)
Generated(s, q, steps, keep) ==
    IF steps = {} THEN <<s, q>>
    ELSE LET st == CHOOSE x \in steps : \A y \in steps : x[1] <= y[1]
             a == StepAppend(s, st[1], st[2])
             left == IF RollsBack(s, st[1], st[2]) THEN Front(q) ELSE Append(q, st)
         IN  Generated(IF keep THEN Commit(a) ELSE a, left, steps \ {st}, keep)

\* What the motors may be made to do in a batch: ticks after its start, and directions
Plans ==
    {plan \in [Motors -> SUBSET ((0..BatchTime - 1) \X (0..1))] :
        \A i \in Motors : /\ \A x, y \in plan[i] : x[1] = y[1] => x = y
                          /\ \A x \in plan[i] : x[2] \in Directions[i]}
Count(plan) == FoldSet(LAMBDA i, n : n + Cardinality(plan[i]), 0, Motors)

Unsent(i) == host[i].pending # 0 \/ host[i].queue # <<>> \/ host[i].msgs # <<>>

\* _update_move_time of the toolhead with steps: they are generated for one more batch
\* and flushed up to an earlier time.  Without steps the toolhead stops (it raises
\* last_kin_flush_time) and all that was generated is flushed.
UpdateMoveTime(plan) ==
    LET n == Count(plan)
        from == Max({generated + 1, now + Lead})
        to == from + BatchTime - 1
        clock == IF n = 0 THEN to ELSE to - FlushDelay
    IN
    /\ failed = ""
    /\ made + n <= MaxMade /\ to <= now + Lead + BatchTime
    /\ n = 0 => \E i \in Motors : Unsent(i)
    /\ \E keep \in IF n = 0 THEN {FALSE} ELSE BOOLEAN :
          LET new == [i \in Motors |->
                        Generated(host[i], IF stopped THEN <<>> ELSE askedSteps[i],
                                  {<<from + x[1], x[2]>> : x \in plan[i]}, keep)]
              b == Batch([i \in Motors |-> FlushedSteps(new[i][1], clock)],
                         moveClocks, <<>>, clock)
          IN  /\ host' = b[1] /\ moveClocks' = b[2] /\ sent' = sent \o b[3]
              /\ askedSteps' = IF stopped THEN askedSteps ELSE [i \in Motors |-> new[i][2]]
    /\ made' = made + n
    /\ moveClock' = clock /\ generated' = to
    /\ UNCHANGED <<mcu, motor, now, stopped, failed>>

StepDue(i) == mcu[i].count > 0 /\ mcu[i].time = now % McuWrap

\* The next message arrives; interrupts come before commands.
Deliver ==
    /\ failed = "" /\ sent # <<>>
    /\ \A i \in Motors : ~StepDue(i)
    /\ LET msg == Head(sent).msg
           i == Head(sent).motor
       IN  /\ now >= msg.min
           /\ CASE msg.kind = "step" -> QueueStep(i, msg.arg[1], msg.arg[2])
                [] msg.kind = "dir" -> SetDir(i, msg.arg[1])
                [] msg.kind = "reset" -> ResetStepClock(i)
    /\ sent' = Tail(sent)
    /\ UNCHANGED <<host, moveClocks, generated, moveClock, motor, now, stopped,
                   askedSteps, made>>

\* stepper_event: one step
TakeStep(i) ==
    /\ failed = "" /\ StepDue(i)
    /\ mcu' = [mcu EXCEPT ![i] =
          IF @.count > 1 THEN [@ EXCEPT !.count = @ - 1,
                                        !.time = (@ + mcu[i].interval) % McuWrap]
                         ELSE LoadNext(@)]
    /\ motor' = [motor EXCEPT ![i] = @ + (IF mcu[i].dirPin = 1 THEN 1 ELSE -1)]
    /\ askedSteps' = [askedSteps EXCEPT ![i] = IF @ = <<>> THEN @ ELSE Tail(@)]
    /\ UNCHANGED <<host, moveClocks, generated, moveClock, sent, now, stopped, failed,
                   made>>

\* trsync stops the motors at an endstop while one of them moves.
Trigger ==
    /\ failed = "" /\ ~stopped /\ made < MaxMade /\ (\E i \in Motors : mcu[i].count > 0)
    /\ mcu' = [i \in Motors |-> StoppedMotor(mcu[i])]
    /\ stopped' = TRUE
    /\ askedSteps' = [i \in Motors |-> <<>>]
    /\ made' = made + 1
    /\ UNCHANGED <<host, moveClocks, generated, moveClock, sent, motor, now, failed>>

\* note_homing_end with the query for the position
NoteHomingEnd ==
    /\ failed = "" /\ stopped
    /\ host' = [i \in Motors |-> HomingReset(host[i], Reported(mcu[i]))]
    /\ stopped' = FALSE
    /\ UNCHANGED <<moveClocks, generated, moveClock, sent, mcu, motor, now, failed,
                   askedSteps, made>>

\* The toolhead flushes ahead of time, messages that may be sent are sent in time, and
\* steps are taken at their clock.
StepTick ==
    /\ failed = "" /\ now < MaxClock
    /\ \A i \in Motors : Unsent(i) => moveClock > now + ReqDelta
    /\ \A i \in Motors : ~StepDue(i)
    /\ sent # <<>> => Head(sent).msg.min > now \/ Head(sent).msg.req > now + ReqDelta
    /\ now' = now + 1
    /\ UNCHANGED <<host, moveClocks, generated, moveClock, sent, mcu, motor, stopped,
                   failed, askedSteps, made>>

StepNext ==
    \/ \E plan \in Plans : UpdateMoveTime(plan)
    \/ \E i \in Motors : TakeStep(i)
    \/ Deliver \/ Trigger \/ NoteHomingEnd \/ StepTick

-----------------------------------------------------------------------------
\* No move comes when the micro-controller has no room for it.
MovesFit == failed # "Move queue overflow"

\* Every move comes before its first step is due, and a clock is only set at rest.
MovesInTime == failed \notin {"Timer too close", "Can't reset time"}

\* A motor takes the steps it is asked for, each at its clock and in its direction.
StepsAsAsked ==
    \A i \in Motors : motor'[i] # motor[i] =>
        /\ askedSteps[i] # <<>>
        /\ Head(askedSteps[i]) = <<now, IF motor'[i] > motor[i] THEN 1 ELSE 0>>

\* The micro-controller knows where its motors are, in the middle of a move and after
\* a stop as well.
PositionRight == \A i \in Motors : Reported(mcu[i]) = motor[i]

\* When all is done the host knows it too.
HostAgrees ==
    \A i \in Motors :
        /\ ~stopped /\ sent = <<>> /\ mcu[i].count = 0
        /\ host[i].msgs = <<>> /\ host[i].queue = <<>>
        => host[i].pos = motor[i]

\* The motors go where the host sends them: every move arrives in time and fits, every
\* step is the one that was asked for, and both sides know the position.
MotionRight ==
    /\ [](MovesFit /\ MovesInTime /\ PositionRight /\ HostAgrees)
    /\ [][StepsAsAsked]_stepVars
=============================================================================
