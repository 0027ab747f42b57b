----------------------------- MODULE LookAhead ------------------------------
(***************************************************************************)
(* Look-ahead of the toolhead (toolhead.py): moves are queued, and the     *)
(* speeds at which they start, cruise and end are decided when the queue   *)
(* is flushed, lazily for as many moves as cannot change any more, or all  *)
(* of them.                                                                *)
(*                                                                         *)
(* Speeds are squared, as in the code.  A move is what may change in it    *)
(* (delta, and smooth for the smoothed pass), its cruise limit, and the    *)
(* limit of the junction before it, which stands for the angles and the    *)
(* extruder.  Numbers are even and a lazy flush may come with any move.    *)
(***************************************************************************)
EXTENDS Integers, Sequences, SequencesExt

CONSTANTS
    Deltas, Smooths,                \* what moves are made of
    Cruises, Junctions,
    MaxMoves                        \* bound of the model: moves of a print

\* A move of no length never comes here; smoothed or not, its speed may change.
ASSUME LookAheadAssumption ==
    /\ Deltas \cup Smooths \subseteq Nat \ {0}
    /\ Cruises \cup Junctions \subseteq Nat

VARIABLES
    moveQueue,          \* queue of MoveQueue
    moves,              \* how many moves were queued ever
    planned             \* history: junctions of the moves that were flushed

lookAheadVars == <<moveQueue, moves, planned>>

LookAheadInit == moveQueue = << >> /\ moves = 0 /\ planned = << >>

MinOf(a, b) == IF a < b THEN a ELSE b

\* Mutant of MaxStart: a junction may be taken faster than the move before it
\* can reach.
ReachIgnored(p, m) == MinOf(m.junction, MinOf(m.cruise, p.cruise))

\* calc_junction, after the limits of geometry and extruder.
MaxStart(p, m) == MinOf(MinOf(m.junction, p.maxStart + p.delta),
                        MinOf(m.cruise, p.cruise))

Joined(p, m) ==
    [m EXCEPT !.maxStart = MaxStart(p, m),
              !.maxSmoothed = MinOf(MaxStart(p, m), p.maxSmoothed + p.smooth)]

-----------------------------------------------------------------------------
(* flush, from the last move to the first.                                 *)

FinalSpeed == 0

FlushStart(n, lazy) ==
    [end |-> FinalSpeed, smoothed |-> 0, peak |-> 0, delayed |-> << >>,
     count |-> n, updating |-> lazy, plan |-> [i \in 1..n |-> << >>]]

\* mc_v2 of a move whose calculation was delayed until the peak is known: they
\* are gone through from the last that was delayed.
Carried(delayed, k, peak) ==
    Min({peak} \cup {delayed[j].start : j \in k..Len(delayed)})

WithDelayed(plan, delayed, peak) ==
    [i \in DOMAIN plan |->
        IF \E k \in DOMAIN delayed : delayed[k].move = i
        THEN LET k == CHOOSE k \in DOMAIN delayed : delayed[k].move = i
                 c == Carried(delayed, k, peak)
             IN  <<MinOf(delayed[k].start, c), c, MinOf(delayed[k].end, c)>>
        ELSE plan[i]]

\* Mutant of Delayed: the move is delayed after next_end_v2 is its own start.
DelayedAfter(i, start, end) == [move |-> i, start |-> start, end |-> start]

Delayed(i, start, end) == [move |-> i, start |-> start, end |-> end]

Settled(i) == i - 1

\* One move of the traversal; counts are of moves before it, so flush_count = i
\* of the code is i - 1 here.
FlushStep(q, s, i) ==
    LET m == q[i]
        reachable == s.end + m.delta
        start == MinOf(m.maxStart, reachable)
        reachableSmoothed == s.smoothed + m.smooth
        smoothed == MinOf(m.maxSmoothed, reachableSmoothed)
        accelerates == smoothed < reachableSmoothed
        turns == accelerates /\
                    (smoothed + m.smooth > s.smoothed \/ s.delayed # << >>)
        found == turns /\ s.updating /\ s.peak > 0
        count == IF found THEN Settled(i) ELSE s.count
        updating == s.updating /\ ~found
        peak == IF turns THEN MinOf(m.cruise, (smoothed + reachableSmoothed) \div 2)
                ELSE s.peak
        flushed == ~updating /\ i <= count
        plan1 == IF turns /\ flushed THEN WithDelayed(s.plan, s.delayed, peak) ELSE s.plan
        cruise == MinOf((start + reachable) \div 2, MinOf(m.cruise, peak))
    IN  [end |-> start, smoothed |-> smoothed, peak |-> peak,
         count |-> count, updating |-> updating,
         delayed |-> IF ~accelerates
                     THEN Append(s.delayed, Delayed(i, start, s.end))
                     ELSE IF turns THEN << >> ELSE s.delayed,
         plan |-> IF accelerates /\ flushed
                  THEN [plan1 EXCEPT ![i] =
                           <<MinOf(start, cruise), cruise, MinOf(s.end, cruise)>>]
                  ELSE plan1]

Flushed(q, lazy) ==
    LET n == Len(q)
        after[i \in 1..n + 1] == IF i = n + 1 THEN FlushStart(n, lazy)
                                 ELSE FlushStep(q, after[i + 1], i)
    IN  after[1]

\* What flush leaves in the queue and hands on to the toolhead.
Flush(q, lazy) ==
    LET s == Flushed(q, lazy)
        n == IF s.updating THEN 0 ELSE s.count
    IN  /\ moveQueue' = SubSeq(q, n + 1, Len(q))
        /\ planned' = planned \o
               [i \in 1..n |-> [move |-> q[i], junction |-> s.plan[i]]]

\* add_move.
AddMove(d, s, c, j) ==
    /\ moves < MaxMoves /\ moves' = moves + 1
    /\ LET m == [delta |-> d, smooth |-> MinOf(s, d), cruise |-> c, junction |-> j,
                 maxStart |-> 0, maxSmoothed |-> 0]
           q == Append(moveQueue, IF moveQueue = << >> THEN m
                                  ELSE Joined(Last(moveQueue), m))
       IN  \/ moveQueue' = q /\ UNCHANGED planned
           \/ Len(q) > 1 /\ Flush(q, TRUE)

FlushAll == moveQueue # << >> /\ Flush(moveQueue, FALSE) /\ UNCHANGED moves

LookAheadNext ==
    \/ \E d \in Deltas, s \in Smooths, c \in Cruises, j \in Junctions :
          AddMove(d, s, c, j)
    \/ FlushAll

LookAheadSpec == LookAheadInit /\ [][LookAheadNext]_lookAheadVars

-----------------------------------------------------------------------------
(* Properties.                                                             *)

\* Every move that was flushed has its speeds: none is still delayed
\* (toolhead.py:126-177).
AllPlanned == \A i \in DOMAIN planned : planned[i].junction # << >>

\* A move starts as fast as the one before it ends, also across two flushes
\* (toolhead.py:126-186).
SpeedContinuous ==
    \A i \in DOMAIN planned :
       planned[i].junction[1] = IF i = 1 THEN 0 ELSE planned[i - 1].junction[3]

\* When the queue is empty the toolhead comes to a stop (toolhead.py:131-135).
Stops == moveQueue = << >> /\ planned # << >> => Last(planned).junction[3] = 0

\* What a move accelerates and decelerates fits into its length, and it is
\* never faster than it may be, nor is its junction (toolhead.py:61-106).
WithinLimits ==
    \A i \in DOMAIN planned :
       LET m == planned[i].move
           v == planned[i].junction
       IN  /\ v[1] \in 0..v[2] /\ v[3] \in 0..v[2]
           /\ v[2] <= m.cruise /\ v[1] <= m.junction
           /\ (v[2] - v[1]) + (v[2] - v[3]) <= m.delta

\* The speeds that the look-ahead queue plans are those of a motion that is
\* possible and ends at rest (toolhead.py:61-186).
PlanPossible == AllPlanned /\ SpeedContinuous /\ Stops /\ WithinLimits
=============================================================================
