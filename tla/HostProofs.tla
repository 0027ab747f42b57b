----------------------------- MODULE HostProofs -----------------------------
(* Proofs about components of the host that stand alone.                   *)
EXTENDS GcodeMove, WorkMode, Subscriptions, ExcludeObject, LookAhead, SequenceLemmas

-----------------------------------------------------------------------------
(* Coordinates of the extruder (GcodeMove).                                *)

Modes == [coord : BOOLEAN, extrude : BOOLEAN]

\* A saved state agrees with the program as the present one does.
GcodeInv ==
    /\ absolute \in Modes
    /\ base \in Int /\ last \in Int /\ homing \in Int /\ extruder \in Int
    /\ program \in Int /\ extruded \in Int /\ remembered \in Int
    /\ flow \in Nat \ {0} /\ commands \in Nat
    /\ PositionAgreed /\ ExtrudedAsAsked
    /\ \/ state = None
       \/ /\ state \in [absolute : Modes, base : Int, last : Int,
                        homing : Int, flow : Nat \ {0}]
          /\ state.last - state.base = remembered * state.flow

LEMMA DivOfProduct ==
  ASSUME NEW p \in Int, NEW f \in Nat \ {0}
  PROVE  (p * f) \div f = p
OBVIOUS

LEMMA DivExact ==
  ASSUME NEW d \in Int, NEW f \in Nat \ {0}, d % f = 0
  PROVE  d \div f \in Int /\ (d \div f) * f = d
OBVIOUS

LEMMA Distributes ==
  ASSUME NEW a \in Int, NEW b \in Int, NEW f \in Int
  PROVE  (a - b) * f = a * f - b * f /\ (a + b) * f = a * f + b * f
OBVIOUS

\* The step of one command.
LEMMA GcodeStep ==
  ASSUME GcodeInv,
         \/ \E v \in Places : MoveTo(v) \/ SetPosition(v) \/ SetOffset(v)
         \/ \E f \in Flows : SetFlow(f)
         \/ SetMode \/ SaveState \/ RestoreState \/ ActivateExtruder,
         commands' = commands + 1
  PROVE  GcodeInv'
<1> USE GcodeAssumption DEF GcodeInv, PositionAgreed, ExtrudedAsAsked, Modes
<1> DEFINE Saved == \/ state = None
                    \/ /\ state \in [absolute : Modes, base : Int,
                                     last : Int, homing : Int, flow : Nat \ {0}]
                       /\ state.last - state.base = remembered * state.flow
<1>0. commands' \in Nat
  OBVIOUS
<1>1. ASSUME UNCHANGED <<state, remembered>>  PROVE Saved'
  BY <1>1
<1>2. ASSUME NEW v \in Places, MoveTo(v)  PROVE GcodeInv'
  <2>1. UNCHANGED <<absolute, base, homing, flow, state, remembered>>
    BY <1>2 DEF MoveTo
  <2>2. CASE last' = extruder /\ UNCHANGED <<extruder, program, extruded>>
    BY <1>0, <1>1, <2>1, <2>2
  <2>3. CASE /\ last' = Moved(v) /\ extruder' = Moved(v)
             /\ program' = IF absolute.coord /\ absolute.extrude THEN v ELSE program + v
             /\ extruded' = extruded + (program' - program) * flow
    <3>1. program' \in Int /\ v \in Int /\ flow \in Int
      <4>1. program' \in {v, program + v}
        BY <2>3
      <4> QED  BY <4>1
    <3>2. (program' - program) * flow = program' * flow - program * flow
      BY <3>1, Distributes
    <3>3. last' = base + program' * flow
      <4>1. CASE IsAbsolute
        BY <2>3, <3>1, <4>1 DEF Moved, IsAbsolute
      <4>2. CASE ~IsAbsolute
        <5>1. program' = program + v /\ last' = last + v * flow
          BY <2>3, <4>2 DEF Moved, IsAbsolute
        <5>2. (program + v) * flow = program * flow + v * flow
          BY <3>1, Distributes
        <5> QED  BY <3>1, <5>1, <5>2
      <4> QED  BY <4>1, <4>2
    <3>4. last' \in Int /\ extruded' = last' /\ last' - base = program' * flow
      BY <2>3, <3>1, <3>2, <3>3
    <3> QED  BY <1>0, <1>1, <2>1, <2>3, <3>1, <3>4
  <2> QED  BY <1>2, <2>2, <2>3 DEF MoveTo
<1>3. ASSUME NEW v \in Places, SetPosition(v)  PROVE GcodeInv'
  <2>1. base' = last - v * flow /\ program' = v
    BY <1>3 DEF SetPosition, Origin
  <2>2. last - base' = v * flow /\ base' \in Int /\ v \in Int
    BY <2>1
  <2> QED  BY <1>0, <1>1, <1>3, <2>1, <2>2 DEF SetPosition
<1>4. ASSUME NEW v \in Places, SetOffset(v)  PROVE GcodeInv'
  <2> DEFINE d == v - homing  q == d \div flow
  <2>1. d \in Int /\ q \in Int /\ q * flow = d
    <3>1. d \in Int /\ flow \in Nat \ {0} /\ d % flow = 0
      BY <1>4 DEF SetOffset
    <3> QED  BY <3>1, DivExact
  <2>2. base' = base + d /\ program' = program - q
    BY <1>4 DEF SetOffset
  <2> HIDE DEF d, q
  <2>3. (program - q) * flow = program * flow - q * flow
    BY <2>1, Distributes
  <2>4. last - base' = program' * flow /\ base' \in Int /\ program' \in Int
    BY <2>1, <2>2, <2>3
  <2> QED  BY <1>0, <1>1, <1>4, <2>4 DEF SetOffset
<1>5. ASSUME NEW f \in Flows, SetFlow(f)  PROVE GcodeInv'
  <2>1. (last - base) \div flow = program
    BY DivOfProduct
  <2>2. base' = last - program * f /\ flow' = f
    BY <1>5, <2>1 DEF SetFlow, Rebased
  <2>3. last - base' = program * f /\ base' \in Int /\ f \in Nat \ {0}
    BY <2>2
  <2> QED  BY <1>0, <1>1, <1>5, <2>2, <2>3 DEF SetFlow
<1>6. CASE SetMode
  BY <1>0, <1>1, <1>6 DEF SetMode
<1>7. CASE SaveState
  <2>1. state' \in [absolute : Modes, base : Int, last : Int,
                    homing : Int, flow : Nat \ {0}]
    BY <1>7 DEF SaveState
  <2>2. state'.last = last /\ state'.base = base /\ state'.flow = flow /\ remembered' = program
    BY <1>7 DEF SaveState
  <2> QED  BY <1>0, <1>7, <2>1, <2>2 DEF SaveState
<1>8. CASE RestoreState
  <2>1. /\ state.last - state.base = remembered * state.flow
        /\ state.last \in Int /\ state.base \in Int /\ state.homing \in Int
        /\ state.flow \in Nat \ {0} /\ state.absolute \in Modes
    BY <1>8 DEF RestoreState
  <2>2. base' = state.base + last - state.last /\ flow' = state.flow /\ program' = remembered
    BY <1>8 DEF RestoreState, RestoredBase
  <2>3. last - base' = remembered * state.flow /\ base' \in Int
    BY <2>1, <2>2
  <2> QED  BY <1>0, <1>1, <1>8, <2>1, <2>2, <2>3 DEF RestoreState
<1>9. CASE ActivateExtruder
  BY <1>0, <1>1, <1>9 DEF ActivateExtruder
<1> QED  BY <1>2, <1>3, <1>4, <1>5, <1>6, <1>7, <1>8, <1>9

\* The program, the host and the extruder agree after any sequence of moves,
\* origins, factors, offsets, saved states and errors, whatever their numbers
\* (gcode_move.py:212-400).
THEOREM ExtruderAgrees == GcodeSpec => []ExtruderAgreed
<1>1. GcodeInit => GcodeInv
  BY 0 = 0 * 1 DEF GcodeInit, GcodeInv, PositionAgreed, ExtrudedAsAsked, Modes
<1>2. GcodeInv /\ [GcodeNext]_gcodeVars => GcodeInv'
  <2>1. GcodeInv /\ UNCHANGED gcodeVars => GcodeInv'
    BY DEF gcodeVars, GcodeInv, PositionAgreed, ExtrudedAsAsked
  <2> QED  BY <2>1, GcodeStep DEF GcodeNext
<1>3. GcodeInv => ExtruderAgreed
  BY DEF GcodeInv, ExtruderAgreed
<1> QED  BY <1>1, <1>2, <1>3, PTL DEF GcodeSpec

-----------------------------------------------------------------------------
(* Work modes (WorkMode).                                                  *)

Limits == [Kinds -> 0..NoLimit]

Speeds == [speed : Nat, factor : Nat \ {0}, pre : Nat \cup {-1}]

\* While a travel move is slowed down, the speed g of other moves is kept; a restored
\* speed may be g again before pre_speed comes back.
Kept(s, g) ==
    IF s.pre > 0 THEN s.pre = g /\ (s.speed <= Pace \/ s.speed = g) ELSE s.speed = g

FeedInv ==
    /\ feed \in Speeds
    /\ asked \in [f : Nat \ {0}, stale : BOOLEAN]
    /\ ~asked.stale => Kept(feed, asked.f * feed.factor)

\* A saved state that has not lost its F.
SavedRight(s) ==
    /\ s.speed \in Nat /\ s.factor \in Nat \ {0} /\ s.f \in Nat \ {0} /\ s.stale \in BOOLEAN
    /\ ~s.stale => s.speed = s.f * s.factor

SavedInv == \A s \in savedSpeeds : SavedRight(s)

LimitInv ==
    /\ limits \in Limits /\ normal \in Limits /\ limit \in Limits
    /\ WithinMode /\ AsAskedLast

\* The end of G1 keeps the speed.
LEMMA PacedKeeps ==
  ASSUME NEW s \in Speeds, NEW g \in Nat, NEW extrudes \in BOOLEAN
  PROVE  /\ Paced(s, extrudes) \in Speeds /\ Paced(s, extrudes).factor = s.factor
         /\ Kept(s, g) => Kept(Paced(s, extrudes), g)
         /\ Kept(s, g) /\ extrudes => Paced(s, extrudes).speed = g
<1>0. Pace \in Nat
  BY ModeAssumption
<1>1. s.speed \in Nat /\ s.factor \in Nat \ {0} /\ s.pre \in Nat \cup {-1}
  BY DEF Speeds
<1> DEFINE slowed == [s EXCEPT !.pre = s.speed, !.speed = Pace]
           again == [s EXCEPT !.speed = s.pre, !.pre = -1]
<1>2. /\ slowed.pre = s.speed /\ slowed.speed = Pace /\ slowed.factor = s.factor
      /\ again.pre = -1 /\ again.speed = s.pre /\ again.factor = s.factor
      /\ slowed \in Speeds
  BY <1>0, <1>1 DEF Speeds
<1>3. CASE ~extrudes /\ workMode = 3 /\ s.speed > Pace
  <2>1. Paced(s, extrudes) = slowed
    BY <1>3 DEF Paced
  <2> HIDE DEF slowed
  <2>2. Kept(s, g) => Kept(slowed, g)
    BY <1>0, <1>1, <1>2, <1>3 DEF Kept
  <2> QED  BY <1>2, <1>3, <2>1, <2>2
<1>4. CASE ~(~extrudes /\ workMode = 3) /\ s.pre > 0
  <2>1. Paced(s, extrudes) = again
    BY <1>4, Zenon DEF Paced
  <2>2. again \in Speeds
    <3>1. s.pre \in Nat /\ -1 \in Nat \cup {-1}
      BY <1>1, <1>4
    <3> QED  BY <3>1, Zenon DEF Speeds
  <2> HIDE DEF again
  <2>3. Kept(s, g) => Kept(again, g) /\ again.speed = g
    BY <1>1, <1>2, <1>4 DEF Kept
  <2> QED  BY <1>2, <2>1, <2>2, <2>3
<1>5. CASE /\ ~(~extrudes /\ workMode = 3 /\ s.speed > Pace)
           /\ ~(~(~extrudes /\ workMode = 3) /\ s.pre > 0)
  <2>1. Paced(s, extrudes) = s
    BY <1>5, Zenon DEF Paced
  <2>2. Kept(s, g) /\ extrudes => s.speed = g
    BY <1>5 DEF Kept
  <2> QED  BY <2>1, <2>2
<1> QED  BY <1>3, <1>4, <1>5

\* M220 keeps it as well, unless a move was slowed down meanwhile.
LEMMA FactorKeeps ==
  ASSUME FeedInv, NEW v \in Nat \ {0}, Override(v)
  PROVE  FeedInv'
<1>1. PICK f \in Nat \ {0} : f = asked.f
  BY DEF FeedInv
<1>2. PICK h \in Nat \ {0} : h = feed.factor
  BY DEF FeedInv, Speeds
<1>3. PICK w \in Nat : w = feed.speed
  BY DEF FeedInv, Speeds
<1>4. PICK p \in Nat \cup {-1} : p = feed.pre
  BY DEF FeedInv, Speeds
<1> DEFINE new == (w \div h) * v
<1>5. new \in Nat
  <2>1. w \div h \in Nat
    OBVIOUS
  <2> QED  BY <2>1
<1> HIDE DEF new
<1>6. feed' = [speed |-> new, factor |-> v, pre |-> p]
  BY <1>2, <1>3, <1>4 DEF Override, Factored, FeedInv, Speeds, new
<1>7. feed' \in Speeds
  BY <1>5, <1>6 DEF Speeds
<1>8. asked' = [f |-> f, stale |-> asked.stale \/ (p > 0 /\ v # h)]
  BY <1>1, <1>2, <1>4 DEF Override, FeedInv
<1>9. asked' \in [f : Nat \ {0}, stale : BOOLEAN]
  BY <1>8 DEF FeedInv
<1>10. ASSUME ~asked'.stale  PROVE Kept(feed', f * v)
  <2>1. ~asked.stale /\ ~(p > 0 /\ v # h)
    BY <1>8, <1>10
  <2>2. Kept(feed, f * h)
    BY <1>1, <1>2, <2>1 DEF FeedInv
  <2>3. CASE p > 0
    <3>1. v = h /\ p = f * h /\ (w <= Pace \/ w = f * h)
      BY <1>3, <1>4, <2>1, <2>2, <2>3 DEF Kept
    <3>2. new <= w
      BY <3>1 DEF new
    <3>3. CASE w <= Pace
      <4>1. new <= Pace
        BY <1>5, <3>2, <3>3, ModeAssumption
      <4> QED  BY <1>6, <2>3, <3>1, <4>1 DEF Kept
    <3>4. CASE w = f * h
      <4>1. (f * h) \div h = f
        BY DivOfProduct
      <4>2. new = f * v
        BY <3>4, <4>1, Zenon DEF new
      <4> QED  BY <1>6, <2>3, <3>1, <4>2 DEF Kept
    <3> QED  BY <3>1, <3>3, <3>4
  <2>4. CASE ~(p > 0)
    <3>1. w = f * h
      BY <1>3, <1>4, <2>2, <2>4 DEF Kept
    <3>2. (f * h) \div h = f
      BY DivOfProduct
    <3>3. new = f * v
      BY <3>1, <3>2, Zenon DEF new
    <3> QED  BY <1>6, <2>4, <3>3 DEF Kept
  <2> QED  BY <2>3, <2>4
<1>11. asked'.f = f /\ feed'.factor = v
  BY <1>6, <1>8
<1> QED  BY <1>7, <1>9, <1>10, <1>11, Zenon DEF FeedInv

\* G1 with and without F.
LEMMA MoveKeeps ==
  ASSUME FeedInv, NEW extrudes \in BOOLEAN
  PROVE  /\ feed' = Paced(feed, extrudes) /\ UNCHANGED asked => FeedInv'
         /\ \A f \in Feeds : MoveWithF(f, extrudes) => FeedInv'
<1>1. feed \in Speeds /\ asked \in [f : Nat \ {0}, stale : BOOLEAN]
  BY DEF FeedInv
<1>2. ASSUME feed' = Paced(feed, extrudes), UNCHANGED asked  PROVE FeedInv'
  <2> DEFINE g == asked.f * feed.factor
  <2>1. g \in Nat
    BY <1>1 DEF Speeds
  <2>2. feed' \in Speeds /\ feed'.factor = feed.factor /\ (Kept(feed, g) => Kept(feed', g))
    BY <1>1, <1>2, <2>1, PacedKeeps
  <2>3. ~asked.stale => Kept(feed, g)
    BY DEF FeedInv
  <2> QED  BY <1>1, <1>2, <2>2, <2>3, Zenon DEF FeedInv
<1>3. ASSUME NEW f \in Feeds, MoveWithF(f, extrudes)  PROVE FeedInv'
  <2>1. f \in Nat \ {0}
    BY ModeAssumption
  <2> DEFINE g == f * feed.factor
             s == WithF(f)
  <2>2. g \in Nat
    BY <1>1, <2>1 DEF Speeds
  <2>3. s \in Speeds /\ s.factor = feed.factor /\ s.speed = g /\ s.pre = -1
    BY <1>1, <2>2 DEF WithF, Speeds
  <2> HIDE DEF s
  <2>4. Kept(s, g)
    BY <2>3 DEF Kept
  <2>5. feed' = Paced(s, extrudes) /\ asked' = [f |-> f, stale |-> FALSE]
    BY <1>3 DEF MoveWithF, s
  <2>6. feed' \in Speeds /\ feed'.factor = feed.factor /\ Kept(feed', g)
    BY <2>2, <2>3, <2>4, <2>5, PacedKeeps
  <2>7. asked' \in [f : Nat \ {0}, stale : BOOLEAN] /\ asked'.f = f
    BY <2>1, <2>5
  <2> QED  BY <2>6, <2>7, Zenon DEF FeedInv
<1> QED  BY <1>2, <1>3

\* SAVE_GCODE_STATE.
LEMMA SaveKeeps ==
  ASSUME FeedInv, SavedInv, SaveSpeed
  PROVE  SavedInv'
<1> DEFINE new == [speed |-> feed.speed, factor |-> feed.factor, f |-> asked.f,
                   stale |-> asked.stale \/ feed.pre > 0]
<1>1. savedSpeeds' = savedSpeeds \cup {new}
  BY DEF SaveSpeed
<1>2. /\ feed \in Speeds /\ asked \in [f : Nat \ {0}, stale : BOOLEAN]
      /\ ~asked.stale => Kept(feed, asked.f * feed.factor)
  BY DEF FeedInv
<1>3. /\ new.speed = feed.speed /\ new.factor = feed.factor /\ new.f = asked.f
      /\ new.stale = (asked.stale \/ feed.pre > 0)
  OBVIOUS
<1> HIDE DEF new
<1>4. feed.speed \in Nat /\ feed.factor \in Nat \ {0} /\ asked.f \in Nat \ {0}
  BY <1>2 DEF Speeds
<1>5. new.stale \in BOOLEAN
  BY <1>3, Zenon
<1>6. ASSUME ~new.stale  PROVE new.speed = new.f * new.factor
  <2>1. ~asked.stale /\ ~(feed.pre > 0)
    BY <1>3, <1>6, Zenon
  <2>2. Kept(feed, asked.f * feed.factor)
    BY <1>2, <2>1, Zenon
  <2>3. feed.speed = asked.f * feed.factor
    BY <2>1, <2>2, Zenon DEF Kept
  <2> QED  BY <1>3, <2>3, Zenon
<1>7. SavedRight(new)
  BY <1>3, <1>4, <1>5, <1>6, Zenon DEF SavedRight
<1> QED  BY <1>1, <1>7, Zenon DEF SavedInv

\* RESTORE_GCODE_STATE.
LEMMA RestoreKeeps ==
  ASSUME FeedInv, NEW s, SavedRight(s), RestoreSpeed(s)
  PROVE  FeedInv'
<1>1. PICK h \in Nat \ {0} : h = feed.factor
  BY DEF FeedInv, Speeds
<1>2. PICK p \in Nat \cup {-1} : p = feed.pre
  BY DEF FeedInv, Speeds
<1>3. PICK w \in Nat : w = s.speed
  BY DEF SavedRight
<1>4. PICK f \in Nat \ {0} : f = s.f
  BY DEF SavedRight
<1>5. PICK k \in Nat \ {0} : k = s.factor
  BY DEF SavedRight
<1>6. s.stale \in BOOLEAN /\ (~s.stale => w = f * k)
  BY <1>3, <1>4, <1>5 DEF SavedRight
<1>7. feed' = [speed |-> w, factor |-> h, pre |-> p]
  BY <1>1, <1>2, <1>3 DEF RestoreSpeed, FeedInv, Speeds
<1>8. asked' = [f |-> f, stale |-> s.stale \/ k # h \/ (p > 0 /\ p # w)]
  BY <1>1, <1>2, <1>3, <1>4, <1>5 DEF RestoreSpeed
<1>9. feed' \in Speeds /\ feed'.factor = h /\ feed'.speed = w /\ feed'.pre = p
  BY <1>7 DEF Speeds
<1>10. asked' \in [f : Nat \ {0}, stale : BOOLEAN] /\ asked'.f = f
  BY <1>8
<1>11. ASSUME ~asked'.stale  PROVE Kept(feed', f * h)
  <2>1. ~s.stale /\ k = h /\ ~(p > 0 /\ p # w)
    BY <1>8, <1>11
  <2>2. w = f * h
    BY <1>6, <2>1
  <2> QED  BY <1>9, <2>1, <2>2 DEF Kept
<1> QED  BY <1>9, <1>10, <1>11, Zenon DEF FeedInv

LEMMA UnlimitedAllowed == NoLimit \in Nat /\ Unlimited \in Limits
<1>1. NoLimit \in Nat
  BY DEF NoLimit
<1> QED  BY <1>1 DEF Unlimited, Limits

\* Commands of the user that set limits.
LEMMA SetLimitKeeps ==
  ASSUME LimitInv, NEW k \in Kinds, NEW v \in Values, UNCHANGED limit
  PROVE  (SetVelocityLimit(k, v) \/ SetAccel(v)) => LimitInv'
<1>0. v \in 0..NoLimit
  BY ModeAssumption
<1>1. limits \in Limits /\ normal \in Limits /\ limit \in Limits
  BY DEF LimitInv
<1>2. WithinMode /\ AsAskedLast
  BY DEF LimitInv
<1>3. ASSUME SetVelocityLimit(k, v)  PROVE LimitInv'
  <2>1. normal' = [normal EXCEPT ![k] = v]
    BY <1>3 DEF SetVelocityLimit
  <2>2. limits' = IF v <= limit[k] THEN [limits EXCEPT ![k] = v] ELSE limits
    BY <1>3 DEF SetVelocityLimit, Allowed
  <2>3. limits' \in Limits /\ normal' \in Limits
    BY <1>0, <1>1, <2>1, <2>2 DEF Limits
  <2>4. CASE k = "velocity"
    <3>1. normal'.velocity = v /\ limits'.velocity = IF v <= limit.velocity THEN v ELSE limits.velocity
      BY <1>1, <2>1, <2>2, <2>4 DEF Limits, Kinds
    <3>2. WithinMode'
      BY <1>0, <1>1, <1>2, <3>1 DEF WithinMode, Limits, Kinds
    <3>3. limit = Unlimited => v <= limit.velocity
      BY <1>0 DEF Unlimited, Kinds
    <3>4. AsAskedLast'
      BY <3>1, <3>3 DEF AsAskedLast
    <3> QED  BY <1>1, <2>3, <3>2, <3>4 DEF LimitInv
  <2>5. CASE k # "velocity"
    <3>1. normal'.velocity = normal.velocity /\ limits'.velocity = limits.velocity
      BY <1>1, <2>1, <2>2, <2>5 DEF Limits, Kinds
    <3>2. WithinMode' /\ AsAskedLast'
      BY <1>2, <3>1 DEF WithinMode, AsAskedLast
    <3> QED  BY <1>1, <2>3, <3>2 DEF LimitInv
  <2> QED  BY <2>4, <2>5
<1>4. ASSUME SetAccel(v)  PROVE LimitInv'
  <2>1. limits' = [limits EXCEPT !["accel"] = v] /\ normal' = normal
    BY <1>4 DEF SetAccel
  <2>2. limits' \in Limits
    BY <1>0, <1>1, <2>1 DEF Limits
  <2>3. limits'.velocity = limits.velocity
    BY <1>1, <2>1 DEF Limits, Kinds
  <2>4. WithinMode' /\ AsAskedLast'
    BY <1>2, <2>1, <2>3 DEF WithinMode, AsAskedLast
  <2> QED  BY <1>1, <2>1, <2>2, <2>4 DEF LimitInv
<1> QED  BY <1>3, <1>4

\* A mode that gives its limits l.
LEMMA LimitAllKeeps ==
  ASSUME LimitInv, NEW l \in Limits, LimitAll(l)
  PROVE  LimitInv'
<1>1. limits \in Limits /\ normal \in Limits /\ limit \in Limits
  BY DEF LimitInv
<1> DEFINE p == Passed(l)
<1>2. p \in Limits /\ p.velocity = l.velocity
  BY DEF Passed, Limits, Kinds
<1>3. limit' = p /\ normal' = normal /\ limits' = Given(p)
  BY DEF LimitAll
<1> HIDE DEF p
<1>4. limits' \in Limits
  <2>1. \A k \in Kinds : Lesser(normal[k], p[k]) \in 0..NoLimit /\ limits.decel \in 0..NoLimit
    BY <1>1, <1>2 DEF Lesser, Limits, Kinds
  <2> QED  BY <1>3, <2>1 DEF Given, Limits
<1>5. limits'.velocity = Lesser(normal.velocity, p.velocity)
  BY <1>3 DEF Given, Kinds
<1>6. normal.velocity \in 0..NoLimit /\ p.velocity \in 0..NoLimit
  BY <1>1, <1>2 DEF Limits, Kinds
<1>7. WithinMode'
  BY <1>3, <1>5, <1>6 DEF WithinMode, Lesser
<1>8. AsAskedLast'
  <2>1. p = Unlimited => p.velocity = NoLimit
    BY DEF Unlimited, Kinds
  <2>2. p.velocity = NoLimit => Lesser(normal.velocity, p.velocity) = normal.velocity
    <3>1. \A a \in Int, b \in Int : a <= b => Lesser(a, b) = a
      BY DEF Lesser
    <3>2. \A x \in 0..NoLimit : x <= NoLimit /\ x \in Int /\ NoLimit \in Int
      BY UnlimitedAllowed
    <3> QED  BY <1>6, <3>1, <3>2, Zenon
  <2> QED  BY <1>3, <1>5, <2>1, <2>2 DEF AsAskedLast
<1> QED  BY <1>1, <1>2, <1>3, <1>4, <1>7, <1>8 DEF LimitInv

LEMMA LimitsStay ==
  ASSUME LimitInv, UNCHANGED <<limits, normal, limit>>
  PROVE  LimitInv'
BY DEF LimitInv, WithinMode, AsAskedLast

LEMMA FeedStays ==
  ASSUME FeedInv, UNCHANGED <<feed, asked>>
  PROVE  FeedInv'
BY DEF FeedInv

LEMMA ModeStep ==
  ASSUME FeedInv, LimitInv, SavedInv, ModeNext
  PROVE  FeedInv' /\ LimitInv' /\ SavedInv'
<1>0. UNCHANGED savedSpeeds => SavedInv'
  BY DEF SavedInv
<1>1. CASE GoMoves
  <2>1. LimitInv'
    BY <1>1, LimitsStay DEF GoMoves
  <2>2. CASE Travel \/ Extrude
    BY <1>0, <2>1, <2>2, MoveKeeps DEF Travel, Extrude
  <2>3. CASE \E f \in Feeds, extrudes \in BOOLEAN : MoveWithF(f, extrudes)
    <3>1. UNCHANGED savedSpeeds
      BY <2>3 DEF MoveWithF
    <3> QED  BY <1>0, <2>1, <2>3, <3>1, MoveKeeps
  <2>4. CASE UNCHANGED savedSpeeds /\ \E v \in Factors : Override(v)
    <3>1. PICK v \in Factors : Override(v)
      BY <2>4
    <3>2. v \in Nat \ {0}
      BY ModeAssumption
    <3> QED  BY <1>0, <2>1, <2>4, <3>1, <3>2, FactorKeeps
  <2>5. CASE SaveSpeed
    <3>1. UNCHANGED <<feed, asked>>
      BY <2>5 DEF SaveSpeed
    <3> QED  BY <2>1, <2>5, <3>1, FeedStays, SaveKeeps
  <2>6. CASE \E s \in savedSpeeds : RestoreSpeed(s)
    <3>1. PICK s \in savedSpeeds : RestoreSpeed(s)
      BY <2>6
    <3>2. SavedRight(s) /\ UNCHANGED savedSpeeds
      BY <3>1 DEF SavedInv, RestoreSpeed
    <3> QED  BY <1>0, <2>1, <3>1, <3>2, RestoreKeeps
  <2> QED  BY <1>1, <2>2, <2>3, <2>4, <2>5, <2>6 DEF GoMoves
<1>2. CASE SetLimits
  <2>1. FeedInv' /\ SavedInv'
    BY <1>0, <1>2, FeedStays DEF SetLimits
  <2>2. UNCHANGED limit
    BY <1>2 DEF SetLimits
  <2>3. CASE \E k \in Kinds, v \in Values : SetVelocityLimit(k, v)
    BY <2>1, <2>2, <2>3, SetLimitKeeps
  <2>4. CASE \E v \in Values : SetAccel(v)
    <3>1. "accel" \in Kinds
      BY DEF Kinds
    <3> QED  BY <2>1, <2>2, <2>4, <3>1, SetLimitKeeps
  <2> QED  BY <1>2, <2>3, <2>4 DEF SetLimits
<1>3. CASE SwitchMode
  <2>0. SavedInv'
    BY <1>0, <1>3 DEF SwitchMode
  <2>1. CASE SwitchToSilent
    <3>1. Silent \in Limits /\ SilentFactor \in Nat \ {0}
      BY ModeAssumption DEF Limits
    <3>2. Override(SilentFactor) /\ LimitAll(Silent)
      BY <2>1 DEF SwitchToSilent
    <3> QED  BY <2>0, <3>1, <3>2, FactorKeeps, LimitAllKeeps
  <2>2. CASE SwitchToNormal
    <3>1. Unlimited \in Limits /\ FullFactor \in Nat \ {0}
      BY ModeAssumption, UnlimitedAllowed
    <3>2. CASE Override(FullFactor) /\ LimitAll(Unlimited)
      BY <2>0, <3>1, <3>2, FactorKeeps, LimitAllKeeps
    <3>3. CASE UNCHANGED <<limits, normal, limit, feed, asked>>
      BY <2>0, <3>3, FeedStays, LimitsStay
    <3> QED  BY <2>2, <3>2, <3>3 DEF SwitchToNormal
  <2>3. CASE \E m \in {1, 2} : SwitchToOther(m)
    BY <2>0, <2>3, FeedStays, LimitsStay DEF SwitchToOther
  <2> QED  BY <1>3, <2>1, <2>2, <2>3 DEF SwitchMode
<1> QED  BY <1>1, <1>2, <1>3 DEF ModeNext

\* In every mode the velocity is the lesser of what was asked for and of what the mode
\* allows, and a move that extrudes has the speed of the last F, given or restored,
\* although travel moves before it were slowed down, unless M220 or
\* RESTORE_GCODE_STATE has lost that F, for any limits, speeds, factors and saved
\* states (toolhead.py:594-663, gcode_move.py:276-291, :332-388).
THEOREM SpeedIsAsAsked == ModeSpec => SpeedAsAsked
<1>1. ModeInit => FeedInv /\ LimitInv /\ SavedInv
  <2> SUFFICES ASSUME ModeInit  PROVE FeedInv /\ LimitInv /\ SavedInv
    OBVIOUS
  <2>0. SavedInv
    BY DEF ModeInit, SavedInv
  <2>1. Configured \in Limits /\ Unlimited \in Limits
    BY ModeAssumption, UnlimitedAllowed DEF Limits
  <2>2. LimitInv
    <3>1. limits = Configured /\ normal = Configured /\ limit = Unlimited
      BY DEF ModeInit
    <3>2. Configured.velocity \in 0..NoLimit /\ Unlimited.velocity = NoLimit
      BY <2>1 DEF Limits, Unlimited, Kinds
    <3>3. WithinMode /\ AsAskedLast
      BY <3>1, <3>2 DEF WithinMode, AsAskedLast
    <3> QED  BY <2>1, <3>1, <3>3 DEF LimitInv
  <2>3. PICK f \in Feeds : /\ feed = [speed |-> f * FullFactor, factor |-> FullFactor, pre |-> -1]
                           /\ asked = [f |-> f, stale |-> FALSE]
    BY DEF ModeInit
  <2>4. f \in Nat \ {0} /\ FullFactor \in Nat \ {0}
    BY ModeAssumption
  <2>5. f * FullFactor \in Nat
    BY <2>4
  <2>6. feed \in Speeds /\ asked \in [f : Nat \ {0}, stale : BOOLEAN]
    BY <2>3, <2>4, <2>5 DEF Speeds
  <2>7. Kept(feed, asked.f * feed.factor)
    BY <2>3 DEF Kept
  <2> QED  BY <2>0, <2>2, <2>6, <2>7 DEF FeedInv
<1>2. /\ FeedInv /\ LimitInv /\ SavedInv /\ [ModeNext]_modeVars
      => (FeedInv /\ LimitInv /\ SavedInv)'
  <2>1. UNCHANGED modeVars /\ SavedInv => SavedInv'
    BY DEF modeVars, SavedInv
  <2> QED  BY <2>1, ModeStep, FeedStays, LimitsStay DEF modeVars
<1>3. LimitInv => WithinMode /\ AsAskedLast
  BY DEF LimitInv
<1>4. FeedInv => FeedRight
  <2> SUFFICES ASSUME FeedInv, Extrude, ~asked.stale
               PROVE  feed'.speed = asked.f * feed.factor
    BY DEF FeedRight
  <2>1. feed \in Speeds /\ asked.f * feed.factor \in Nat /\ Kept(feed, asked.f * feed.factor)
    BY DEF FeedInv, Speeds
  <2>2. feed' = Paced(feed, TRUE)
    BY DEF Extrude
  <2> QED  BY <2>1, <2>2, PacedKeeps
<1> QED  BY <1>1, <1>2, <1>3, <1>4, PTL DEF ModeSpec, SpeedAsAsked

-----------------------------------------------------------------------------
(* Subscriptions (Subscriptions).                                          *)

Statuses == [Objects -> Nat]
Messages == [is : {"update", "reply"}, status : Statuses]

SubTypes ==
    /\ value \in [Objects -> Nat \ {0}] /\ lastQuery \in Statuses
    /\ client \subseteq Objects /\ pending \subseteq Objects
    /\ answer \in Seq(Statuses) /\ down \in Seq(SUBSET Objects) /\ up \in Seq(Messages)
    /\ subs \in [Listeners -> SUBSET Objects] /\ wants \in [Listeners -> SUBSET Objects]
    /\ locked \in Listeners \cup {NoListener} /\ cache \in Statuses
    /\ inbox \in Seq(Messages) /\ late \in Seq(Messages) /\ reply \in Seq(Statuses)
    /\ view \in [Listeners -> Statuses]

\* Messages s end with the value n of object o, or do not mention it.
EndsWith(s, o, n) ==
    n # 0 /\ \E i \in 1..Len(s) : /\ s[i].status[o] = n
                                  /\ \A j \in i + 1..Len(s) : s[j].status[o] = 0
NotIn(s, o) == \A i \in 1..Len(s) : s[i].status[o] = 0

\* What the cache will have of object o when all that was read has been run is n,
\* unless an update has run before its turn.
InHand(o, n) ==
    IF reply = << >>
    THEN EndsWith(inbox, o, n) \/ (NotIn(inbox, o) /\ (cache[o] = n \/ o \in outdated))
    ELSE EndsWith(late, o, n) \/ (NotIn(late, o) /\ (reply[1][o] = n \/ o \in passed))

\* Of an object that Klipper sends the last value on its way is that of the last query.
StreamRight ==
    \A o \in client : /\ lastQuery[o] # 0
                      /\ \/ EndsWith(up, o, lastQuery[o])
                         \/ NotIn(up, o) /\ InHand(o, lastQuery[o])

\* What listeners were told is in the cache.
ViewsCached == \A l \in Listeners : \A o \in subs[l] : cache[o] # 0 /\ view[l][o] = cache[o]

\* A request under way asks for all that is wanted, and a reply has it.
NoReply(s) == \A i \in 1..Len(s) : s[i].is = "update"
OneReply(s, objects) ==
    \E i \in 1..Len(s) : /\ s[i].is = "reply" /\ Mentions(s[i].status) = objects
                         /\ \A j \in 1..Len(s) : j # i => s[j].is = "update"
Needed == Wanted \cup wants[locked]

NoRequest == /\ locked = NoListener /\ down = << >> /\ pending = {} /\ answer = << >>
             /\ reply = << >> /\ NoReply(up) /\ Wanted \subseteq client
Asked == /\ locked # NoListener /\ wants[locked] # {} /\ Len(down) = 1 /\ Needed \subseteq down[1]
         /\ pending = {} /\ answer = << >> /\ reply = << >> /\ NoReply(up)
Taken == /\ locked # NoListener /\ wants[locked] # {} /\ down = << >> /\ client = {}
         /\ Needed \subseteq pending /\ answer = << >> /\ reply = << >> /\ NoReply(up)
Answered == /\ locked # NoListener /\ wants[locked] # {} /\ down = << >> /\ client = {}
            /\ pending = {} /\ Len(answer) = 1 /\ Needed \subseteq Mentions(answer[1])
            /\ \A o \in Mentions(answer[1]) : answer[1][o] = lastQuery[o]
            /\ reply = << >> /\ NoReply(up)
Replied == /\ locked # NoListener /\ wants[locked] # {} /\ down = << >> /\ pending = {}
           /\ answer = << >> /\ Needed \subseteq client
           /\ \/ reply = << >> /\ OneReply(up, client)
              \/ Len(reply) = 1 /\ Mentions(reply[1]) = client /\ NoReply(up)

InTurn == reply = << >> => late = << >>

SubInv == /\ SubTypes /\ StreamRight /\ ViewsCached /\ InTurn
          /\ NoRequest \/ Asked \/ Taken \/ Answered \/ Replied

\* A message more, and a message less.
LEMMA AppendEnds ==
  ASSUME NEW s \in Seq(Messages), NEW m \in Messages, NEW o \in Objects
  PROVE  /\ m.status[o] # 0 => EndsWith(Append(s, m), o, m.status[o])
         /\ m.status[o] = 0 => \A n \in Nat : EndsWith(s, o, n) => EndsWith(Append(s, m), o, n)
         /\ m.status[o] = 0 /\ NotIn(s, o) => NotIn(Append(s, m), o)
<1> DEFINE t == Append(s, m)
<1>1. /\ Len(t) = Len(s) + 1 /\ Len(s) \in Nat /\ t[Len(s) + 1] = m
      /\ \A i \in 1..Len(s) : t[i] = s[i]
  OBVIOUS
<1> HIDE DEF t
<1>2. ASSUME m.status[o] # 0  PROVE EndsWith(t, o, m.status[o])
  <2>1. Len(s) + 1 \in 1..Len(t) /\ \A j \in Len(s) + 1 + 1..Len(t) : t[j].status[o] = 0
    BY <1>1
  <2> QED  BY <1>1, <1>2, <2>1 DEF EndsWith
<1>3. ASSUME m.status[o] = 0, NEW n \in Nat, EndsWith(s, o, n)  PROVE EndsWith(t, o, n)
  <2>1. PICK i \in 1..Len(s) : s[i].status[o] = n /\ \A j \in i + 1..Len(s) : s[j].status[o] = 0
    BY <1>3 DEF EndsWith
  <2>2. i \in 1..Len(t) /\ t[i].status[o] = n
    BY <1>1, <2>1
  <2>3. ASSUME NEW j \in i + 1..Len(t)  PROVE t[j].status[o] = 0
    <3>1. CASE j = Len(s) + 1
      BY <1>1, <1>3, <3>1
    <3>2. CASE j # Len(s) + 1
      <4>1. j \in i + 1..Len(s) /\ j \in 1..Len(s)
        BY <1>1, <3>2
      <4> QED  BY <1>1, <2>1, <4>1
    <3> QED  BY <3>1, <3>2
  <2> QED  BY <1>3, <2>2, <2>3 DEF EndsWith
<1>4. ASSUME m.status[o] = 0, NotIn(s, o)  PROVE NotIn(t, o)
  <2> SUFFICES ASSUME NEW j \in 1..Len(t)  PROVE t[j].status[o] = 0
    BY DEF NotIn
  <2>1. j = Len(s) + 1 \/ j \in 1..Len(s)
    BY <1>1
  <2> QED  BY <1>1, <1>4, <2>1 DEF NotIn
<1> QED  BY <1>2, <1>3, <1>4 DEF t

LEMMA TailEnds ==
  ASSUME NEW s \in Seq(Messages), s # << >>, NEW o \in Objects, NEW n \in Nat
  PROVE  /\ NotIn(s, o) => NotIn(Tail(s), o) /\ Head(s).status[o] = 0
         /\ EndsWith(s, o, n) => \/ EndsWith(Tail(s), o, n)
                                 \/ NotIn(Tail(s), o) /\ Head(s).status[o] = n /\ n # 0
<1> DEFINE t == Tail(s)
<1>1. /\ Len(t) = Len(s) - 1 /\ Len(s) \in Nat /\ Len(s) > 0 /\ Head(s) = s[1]
      /\ \A i \in 1..Len(t) : t[i] = s[i + 1]
  OBVIOUS
<1> HIDE DEF t
<1>2. ASSUME NotIn(s, o)  PROVE NotIn(t, o) /\ Head(s).status[o] = 0
  <2>1. 1 \in 1..Len(s) /\ \A i \in 1..Len(t) : i + 1 \in 1..Len(s)
    BY <1>1
  <2> QED  BY <1>1, <1>2, <2>1 DEF NotIn
<1>3. ASSUME EndsWith(s, o, n)
      PROVE  EndsWith(t, o, n) \/ (NotIn(t, o) /\ Head(s).status[o] = n /\ n # 0)
  <2>1. PICK i \in 1..Len(s) : s[i].status[o] = n /\ \A j \in i + 1..Len(s) : s[j].status[o] = 0
    BY <1>3 DEF EndsWith
  <2>2. n # 0
    BY <1>3 DEF EndsWith
  <2>3. CASE i = 1
    <3>1. \A j \in 1..Len(t) : j + 1 \in i + 1..Len(s)
      BY <1>1, <2>3
    <3> QED  BY <1>1, <2>1, <2>2, <2>3, <3>1 DEF NotIn
  <2>4. CASE i # 1
    <3>1. i - 1 \in 1..Len(t) /\ (i - 1) + 1 = i
      BY <1>1, <2>4
    <3>2. t[i - 1].status[o] = n
      BY <1>1, <2>1, <3>1
    <3>3. ASSUME NEW j \in (i - 1) + 1..Len(t)  PROVE t[j].status[o] = 0
      <4>1. j \in 1..Len(t) /\ j + 1 \in i + 1..Len(s)
        BY <1>1, <3>1
      <4> QED  BY <1>1, <2>1, <4>1
    <3> QED  BY <2>2, <3>1, <3>2, <3>3 DEF EndsWith
  <2> QED  BY <2>3, <2>4
<1> QED  BY <1>2, <1>3, Zenon DEF t

\* The same for replies.
LEMMA AppendReplies ==
  ASSUME NEW s \in Seq(Messages), NEW m \in Messages, NEW c
  PROVE  /\ m.is = "update" /\ NoReply(s) => NoReply(Append(s, m))
         /\ m.is = "update" /\ OneReply(s, c) => OneReply(Append(s, m), c)
         /\ m.is = "reply" /\ Mentions(m.status) = c /\ NoReply(s) => OneReply(Append(s, m), c)
<1> DEFINE t == Append(s, m)
<1>1. /\ Len(t) = Len(s) + 1 /\ Len(s) \in Nat /\ t[Len(s) + 1] = m
      /\ \A i \in 1..Len(s) : t[i] = s[i]
  OBVIOUS
<1>2. 1..Len(t) = 1..Len(s) \cup {Len(s) + 1}
  BY <1>1
<1> HIDE DEF t
<1>3. m.is = "update" /\ NoReply(s) => NoReply(t)
  BY <1>1, <1>2, Zenon DEF NoReply
<1>4. ASSUME m.is = "update", OneReply(s, c)  PROVE OneReply(t, c)
  <2>1. PICK i \in 1..Len(s) : /\ s[i].is = "reply" /\ Mentions(s[i].status) = c
                               /\ \A j \in 1..Len(s) : j # i => s[j].is = "update"
    BY <1>4 DEF OneReply
  <2>2. i \in 1..Len(t) /\ t[i] = s[i]
    BY <1>1, <1>2
  <2>3. \A j \in 1..Len(t) : j # i => t[j].is = "update"
    BY <1>1, <1>2, <1>4, <2>1, Zenon
  <2> QED  BY <2>1, <2>2, <2>3, Zenon DEF OneReply
<1>5. ASSUME m.is = "reply", Mentions(m.status) = c, NoReply(s)  PROVE OneReply(t, c)
  <2>1. Len(s) + 1 \in 1..Len(t)
    BY <1>1
  <2>2. \A j \in 1..Len(t) : j # Len(s) + 1 => t[j].is = "update"
    BY <1>1, <1>2, <1>5, Zenon DEF NoReply
  <2> QED  BY <1>1, <1>5, <2>1, <2>2, Zenon DEF OneReply
<1> QED  BY <1>3, <1>4, <1>5 DEF t

LEMMA TailReplies ==
  ASSUME NEW s \in Seq(Messages), s # << >>, NEW c
  PROVE  /\ NoReply(s) => NoReply(Tail(s)) /\ Head(s).is = "update"
         /\ OneReply(s, c) /\ Head(s).is = "reply" => NoReply(Tail(s)) /\ Mentions(Head(s).status) = c
         /\ OneReply(s, c) /\ Head(s).is = "update" => OneReply(Tail(s), c)
<1> DEFINE t == Tail(s)
<1>1. /\ Len(t) = Len(s) - 1 /\ Len(s) \in Nat /\ Len(s) > 0 /\ Head(s) = s[1]
      /\ \A i \in 1..Len(t) : t[i] = s[i + 1]
  OBVIOUS
<1>2. 1 \in 1..Len(s) /\ \A i \in 1..Len(t) : i + 1 \in 1..Len(s) /\ i + 1 # 1
  BY <1>1
<1> HIDE DEF t
<1>3. NoReply(s) => NoReply(t) /\ Head(s).is = "update"
  BY <1>1, <1>2, Zenon DEF NoReply
<1>4. ASSUME OneReply(s, c), Head(s).is = "reply"  PROVE NoReply(t) /\ Mentions(Head(s).status) = c
  <2>1. PICK i \in 1..Len(s) : /\ s[i].is = "reply" /\ Mentions(s[i].status) = c
                               /\ \A j \in 1..Len(s) : j # i => s[j].is = "update"
    BY <1>4 DEF OneReply
  <2>2. i = 1
    <3>1. "reply" # "update"
      OBVIOUS
    <3> QED  BY <1>1, <1>2, <1>4, <2>1, <3>1, Zenon
  <2> QED  BY <1>1, <1>2, <2>1, <2>2, Zenon DEF NoReply
<1>5. ASSUME OneReply(s, c), Head(s).is = "update"  PROVE OneReply(t, c)
  <2>1. PICK i \in 1..Len(s) : /\ s[i].is = "reply" /\ Mentions(s[i].status) = c
                               /\ \A j \in 1..Len(s) : j # i => s[j].is = "update"
    BY <1>5 DEF OneReply
  <2>2. i # 1
    <3>1. "reply" # "update"
      OBVIOUS
    <3> QED  BY <1>1, <1>5, <2>1, <3>1, Zenon
  <2>3. i - 1 \in 1..Len(t) /\ (i - 1) + 1 = i
    BY <1>1, <2>2
  <2>4. t[i - 1] = s[i]
    BY <1>1, <2>3
  <2>5. ASSUME NEW j \in 1..Len(t), j # i - 1  PROVE t[j].is = "update"
    <3>1. j + 1 \in 1..Len(s) /\ j + 1 # i
      BY <1>1, <1>2, <2>5
    <3> QED  BY <1>1, <2>1, <3>1, Zenon
  <2> QED  BY <2>1, <2>3, <2>4, <2>5, Zenon DEF OneReply
<1> QED  BY <1>3, <1>4, <1>5 DEF t

\* The value of an object is what Klipper sends of it.
LEMMA OnlyIsStatus ==
  ASSUME SubTypes, NEW objects \in SUBSET Objects
  PROVE  Only(objects) \in Statuses /\ Mentions(Only(objects)) = objects
<1>1. \A o \in Objects : value[o] \in Nat \ {0}
  BY DEF SubTypes
<1>2. \A o \in Objects : Only(objects)[o] = IF o \in objects THEN value[o] ELSE 0
  BY DEF Only
<1>3. Only(objects) \in Statuses
  BY <1>1 DEF Only, Statuses
<1>4. \A o \in Objects : Only(objects)[o] # 0 <=> o \in objects
  BY <1>1, <1>2
<1> QED  BY <1>3, <1>4, Zenon DEF Mentions

LEMMA MessageOf ==
  ASSUME NEW s \in Statuses
  PROVE  /\ [is |-> "update", status |-> s] \in Messages
         /\ [is |-> "reply", status |-> s] \in Messages
BY DEF Messages

LEMMA OneMessage ==
  ASSUME NEW S, NEW s \in Seq(S), Len(s) = 1
  PROVE  Tail(s) = << >> /\ Head(s) = s[1] /\ s[1] \in S /\ << >> \in Seq(S)
<1>1. Head(s) = s[1] /\ s[1] \in S /\ << >> \in Seq(S)
  OBVIOUS
<1>2. Tail(s) \in Seq(S) /\ Len(Tail(s)) = 0
  OBVIOUS
<1>3. Tail(s) = << >>
  BY <1>2, EmptySeq
<1> QED  BY <1>1, <1>3

LEMMA Single ==
  ASSUME NEW S, NEW x \in S
  PROVE  <<x>> \in Seq(S) /\ Len(<<x>>) = 1 /\ <<x>>[1] = x /\ <<x>> # << >>
<1>1. <<x>> \in Seq(S) /\ Len(<<x>>) = 1 /\ <<x>>[1] = x
  OBVIOUS
<1>2. <<x>> # << >>
  BY <1>1, EmptySeq
<1> QED  BY <1>1, <1>2

LEMMA TakeRequestKeeps ==
  ASSUME SubInv, TakeRequest
  PROVE  SubInv'
<1>1. /\ down # << >> /\ down' = Tail(down) /\ pending' = Head(down) /\ client' = {}
      /\ UNCHANGED <<value, lastQuery, answer, up, subs, wants, locked, cache, view, inbox, reply, late, passed, outdated>>
  BY DEF TakeRequest, moonrakerVars, readVars
<1>2. Asked
  BY <1>1 DEF SubInv, NoRequest, Taken, Answered, Replied
<1>3. down \in Seq(SUBSET Objects) /\ Len(down) = 1
  BY <1>2 DEF SubInv, SubTypes, Asked
<1>4. Tail(down) = << >> /\ Head(down) = down[1] /\ down[1] \in SUBSET Objects /\ << >> \in Seq(SUBSET Objects)
  BY <1>3, OneMessage
<1>5. SubTypes'
  BY <1>1, <1>4 DEF SubInv, SubTypes
<1>6. StreamRight'
  BY <1>1 DEF StreamRight
<1>7. ViewsCached' /\ InTurn'
  BY <1>1 DEF SubInv, ViewsCached, InTurn
<1>8. Taken'
  BY <1>1, <1>2, <1>4 DEF Asked, Taken, Needed, Wanted, NoReply
<1> QED  BY <1>5, <1>6, <1>7, <1>8 DEF SubInv

LEMMA SendAnswerKeeps ==
  ASSUME SubInv, SendAnswer
  PROVE  SubInv'
<1> DEFINE m == [is |-> "reply", status |-> answer[1]]
<1>1. /\ answer # << >> /\ answer' = << >> /\ up' = Append(up, m)
      /\ client' = Mentions(answer[1])
      /\ UNCHANGED <<value, lastQuery, pending, down, subs, wants, locked, cache, view, inbox, reply, late, passed, outdated>>
  BY DEF SendAnswer, moonrakerVars, readVars, Mentions
<1>2. Answered
  BY <1>1 DEF SubInv, NoRequest, Asked, Taken, Replied
<1>3. answer[1] \in Statuses /\ up \in Seq(Messages)
  <2>1. answer \in Seq(Statuses) /\ Len(answer) = 1 /\ up \in Seq(Messages)
    BY <1>2 DEF SubInv, SubTypes, Answered
  <2> QED  BY <2>1
<1>4. m \in Messages /\ m.status = answer[1] /\ m.is = "reply"
  BY <1>3, MessageOf
<1> HIDE DEF m
<1>5. SubTypes'
  <2>1. up' \in Seq(Messages)
    BY <1>1, <1>3, <1>4
  <2>2. client' \subseteq Objects /\ answer' \in Seq(Statuses)
    BY <1>1 DEF Mentions
  <2> QED  BY <1>1, <2>1, <2>2 DEF SubInv, SubTypes
<1>6. StreamRight'
  <2> SUFFICES ASSUME NEW o \in client'
               PROVE  lastQuery[o] # 0 /\ EndsWith(up', o, lastQuery[o])
    BY <1>1 DEF StreamRight
  <2>1. o \in Mentions(answer[1]) /\ o \in Objects /\ answer[1][o] # 0
    BY <1>1 DEF Mentions
  <2>2. answer[1][o] = lastQuery[o]
    BY <1>2, <2>1 DEF Answered
  <2> QED  BY <1>1, <1>3, <1>4, <2>1, <2>2, AppendEnds
<1>7. ViewsCached' /\ InTurn'
  BY <1>1 DEF SubInv, ViewsCached, InTurn
<1>8. OneReply(up', client')
  BY <1>1, <1>2, <1>3, <1>4, AppendReplies DEF Answered
<1>9. Replied'
  BY <1>1, <1>2, <1>8 DEF Answered, Replied, Needed, Wanted
<1> QED  BY <1>5, <1>6, <1>7, <1>9 DEF SubInv

LEMMA ObjectChangesKeeps ==
  ASSUME SubInv, NEW o \in Objects, ObjectChanges(o)
  PROVE  SubInv'
<1>1. /\ value' = [value EXCEPT ![o] = @ + 1]
      /\ UNCHANGED <<lastQuery, client, pending, answer, down, up,
                     subs, wants, locked, cache, view, inbox, reply, late, passed, outdated>>
  BY DEF ObjectChanges, moonrakerVars, readVars
<1>2. value' \in [Objects -> Nat \ {0}]
  <2>1. value \in [Objects -> Nat \ {0}]
    BY DEF SubInv, SubTypes
  <2> QED  BY <1>1, <2>1
<1>3. SubTypes'
  BY <1>1, <1>2 DEF SubInv, SubTypes
<1>4. StreamRight' /\ ViewsCached' /\ InTurn'
  BY <1>1 DEF SubInv, StreamRight, ViewsCached, InTurn, InHand
<1>5. (NoRequest \/ Asked \/ Taken \/ Answered \/ Replied)'
  BY <1>1 DEF SubInv, NoRequest, Asked, Taken, Answered, Replied, Needed, Wanted
<1> QED  BY <1>3, <1>4, <1>5 DEF SubInv

\* A query of what clients have: changes are sent.
LEMMA SampleForClient ==
  ASSUME SubInv, Sample, pending = {}
  PROVE  SubInv'
<1> DEFINE changed == {o \in client : Changed(o)}
           m == [is |-> "update", status |-> Only(changed)]
<1>1. /\ answer = << >> /\ client # {} /\ lastQuery' = Only(client)
      /\ up' = (IF changed = {} THEN up ELSE Append(up, m))
      /\ pending' = {} /\ answer' = << >>
      /\ UNCHANGED <<value, client, down, subs, wants, locked, cache, view, inbox, reply, late, passed, outdated>>
  <2>1. client \cup pending = client
    OBVIOUS
  <2> QED  BY <2>1 DEF Sample, moonrakerVars, readVars
<1>2. SubTypes /\ up \in Seq(Messages) /\ client \subseteq Objects /\ changed \subseteq Objects
  BY DEF SubInv, SubTypes
<1>3. Only(client) \in Statuses /\ Mentions(Only(client)) = client
  BY <1>2, OnlyIsStatus
<1>4. Only(changed) \in Statuses /\ Mentions(Only(changed)) = changed
  BY <1>2, OnlyIsStatus
<1>5. m \in Messages /\ m.is = "update" /\ m.status = Only(changed)
  BY <1>4, MessageOf
<1>6. SubTypes'
  <2>1. up' \in Seq(Messages)
    BY <1>1, <1>2, <1>5
  <2>2. /\ lastQuery' \in Statuses /\ answer' \in Seq(Statuses) /\ pending' \subseteq Objects
    BY <1>1, <1>3
  <2> QED  BY <1>1, <1>2, <2>1, <2>2 DEF SubTypes
<1>7. StreamRight'
  <2> SUFFICES ASSUME NEW o \in client
               PROVE  /\ lastQuery'[o] # 0
                      /\ \/ EndsWith(up', o, lastQuery'[o])
                         \/ NotIn(up', o) /\ InHand(o, lastQuery'[o])
    BY <1>1 DEF StreamRight, InHand
  <2>1. o \in Objects /\ Only(client)[o] = value[o] /\ value[o] # 0 /\ lastQuery[o] \in Nat
    BY <1>2 DEF Only, SubTypes, Statuses
  <2>2. lastQuery'[o] = value[o]
    BY <1>1, <2>1
  <2>3. EndsWith(up, o, lastQuery[o]) \/ (NotIn(up, o) /\ InHand(o, lastQuery[o]))
    BY DEF SubInv, StreamRight
  <2>4. CASE o \in changed
    <3>1. changed # {} /\ Only(changed)[o] = value[o]
      BY <2>1, <2>4 DEF Only
    <3>2. up' = Append(up, m)
      BY <1>1, <3>1
    <3>3. m.status[o] = value[o]
      BY <1>5, <3>1
    <3> HIDE DEF m, changed
    <3>4. EndsWith(Append(up, m), o, m.status[o])
      BY <1>2, <1>5, <2>1, <3>3, AppendEnds
    <3> QED  BY <2>1, <2>2, <3>2, <3>3, <3>4
  <2>5. CASE o \notin changed
    <3>1. value[o] = lastQuery[o]
      BY <2>5 DEF Changed
    <3>2. m.status[o] = 0
      BY <1>5, <2>1, <2>5 DEF Only
    <3>3. up' = up \/ up' = Append(up, m)
      BY <1>1
    <3> HIDE DEF m, changed
    <3>4. EndsWith(up', o, lastQuery[o]) \/ (NotIn(up', o) /\ InHand(o, lastQuery[o]))
      BY <1>2, <1>5, <2>1, <2>3, <3>2, <3>3, AppendEnds
    <3> QED  BY <2>1, <2>2, <3>1, <3>4
  <2> QED  BY <2>4, <2>5
<1>8. ViewsCached' /\ InTurn'
  BY <1>1 DEF SubInv, ViewsCached, InTurn
<1>9. /\ NoReply(up) => NoReply(up')
      /\ OneReply(up, client) => OneReply(up', client)
  <2>1. up' = up \/ up' = Append(up, m)
    BY <1>1
  <2> HIDE DEF m
  <2> QED  BY <1>2, <1>5, <2>1, AppendReplies
<1>10. (NoRequest \/ Asked \/ Taken \/ Answered \/ Replied)'
  <2>1. NoRequest \/ Asked \/ Replied
    <3>1. NoRequest \/ Asked \/ Taken \/ Answered \/ Replied
      BY DEF SubInv
    <3> QED  BY <1>1, <3>1 DEF Taken, Answered
  <2>2. NoRequest => NoRequest'
    BY <1>1, <1>9 DEF NoRequest, Wanted
  <2>3. Asked => Asked'
    BY <1>1, <1>9 DEF Asked, Needed, Wanted
  <2>4. Replied => Replied'
    BY <1>1, <1>9 DEF Replied, Needed, Wanted
  <2> QED  BY <2>1, <2>2, <2>3, <2>4
<1> QED  BY <1>6, <1>7, <1>8, <1>10 DEF SubInv

\* A query for a request.
LEMMA SampleForRequest ==
  ASSUME SubInv, Sample, pending # {}
  PROVE  SubInv'
<1>1. Taken
  BY DEF SubInv, NoRequest, Asked, Answered, Replied
<1>2. client = {}
  BY <1>1 DEF Taken
<1>3. /\ lastQuery' = Only(pending) /\ up' = up /\ pending' = {} /\ answer' = <<Only(pending)>>
      /\ UNCHANGED <<value, client, down, subs, wants, locked, cache, view, inbox, reply, late, passed, outdated>>
  <2>1. client \cup pending = pending /\ {o \in client : Changed(o)} = {}
    BY <1>2
  <2> QED  BY <2>1 DEF Sample, moonrakerVars, readVars
<1>4. SubTypes /\ pending \subseteq Objects
  BY DEF SubInv, SubTypes
<1>5. Only(pending) \in Statuses /\ Mentions(Only(pending)) = pending
  BY <1>4, OnlyIsStatus
<1>6. Len(answer') = 1 /\ answer'[1] = Only(pending) /\ answer' \in Seq(Statuses)
  BY <1>3, <1>5
<1>7. SubTypes'
  BY <1>3, <1>4, <1>5, <1>6 DEF SubTypes
<1>8. StreamRight' /\ ViewsCached' /\ InTurn'
  BY <1>2, <1>3 DEF SubInv, StreamRight, ViewsCached, InTurn
<1>9. Answered'
  BY <1>1, <1>2, <1>3, <1>5, <1>6 DEF Taken, Answered, Needed, Wanted, NoReply
<1> QED  BY <1>7, <1>8, <1>9 DEF SubInv

\* Reading a message puts it in hand.
LEMMA ReadStreamKeeps ==
  ASSUME SubInv, ReadStream
  PROVE  SubInv'
<1> DEFINE h == Head(up)
<1>1. /\ up # << >> /\ up' = Tail(up)
      /\ \/ h.is = "reply" /\ reply' = <<h.status>> /\ inbox' = inbox /\ late' = late
         \/ /\ h.is = "update" /\ reply = << >>
            /\ inbox' = Append(inbox, h) /\ reply' = reply /\ late' = late
         \/ /\ h.is = "update" /\ reply # << >>
            /\ late' = Append(late, h) /\ reply' = reply /\ inbox' = inbox
      /\ UNCHANGED <<value, lastQuery, client, pending, answer, down,
                     subs, wants, locked, cache, view, passed, outdated>>
  BY DEF ReadStream, klipperVars
<1>2. SubTypes /\ up \in Seq(Messages) /\ inbox \in Seq(Messages) /\ late \in Seq(Messages) /\ InTurn
  BY DEF SubInv, SubTypes
<1>3. h \in Messages /\ h.status \in Statuses /\ Tail(up) \in Seq(Messages)
  <2>1. h \in Messages /\ Tail(up) \in Seq(Messages)
    BY <1>1, <1>2, HeadTailProperties
  <2> QED  BY <2>1 DEF Messages
<1>4. /\ h.is = "reply" => NoReply(Tail(up)) /\ Mentions(h.status) = client /\ reply = << >>
      /\ h.is = "update" /\ NoReply(up) => NoReply(Tail(up))
      /\ h.is = "update" /\ OneReply(up, client) => OneReply(Tail(up), client)
      /\ h.is \in {"update", "reply"}
  <2>1. h.is \in {"update", "reply"} /\ "update" # "reply"
    BY <1>3 DEF Messages
  <2>2. NoReply(up) => h.is = "update"
    BY <1>1, <1>2, TailReplies
  <2>3. NoReply(up) \/ (OneReply(up, client) /\ reply = << >>)
    BY DEF SubInv, NoRequest, Asked, Taken, Answered, Replied
  <2> QED  BY <1>1, <1>2, <2>1, <2>2, <2>3, TailReplies
<1> HIDE DEF h
<1>5. /\ h.is = "reply" => reply' # << >> /\ Len(reply') = 1 /\ reply'[1] = h.status
      /\ reply' \in Seq(Statuses)
  <2>1. reply \in Seq(Statuses)
    BY <1>2 DEF SubTypes
  <2>2. <<h.status>> \in Seq(Statuses) /\ Len(<<h.status>>) = 1 /\ <<h.status>>[1] = h.status /\ <<h.status>> # << >>
    BY <1>3, Single
  <2> QED  BY <1>1, <1>4, <2>1, <2>2
<1>6. SubTypes'
  <2>1. Append(inbox, h) \in Seq(Messages) /\ Append(late, h) \in Seq(Messages)
    BY <1>2, <1>3
  <2>2. inbox' \in {inbox, Append(inbox, h)} /\ late' \in {late, Append(late, h)}
    BY <1>1
  <2>3. inbox' \in Seq(Messages) /\ late' \in Seq(Messages)
    BY <1>2, <2>1, <2>2
  <2> QED  BY <1>1, <1>2, <1>3, <1>5, <2>3 DEF SubTypes
<1>7. ASSUME NEW o \in client, NEW n \in Nat
      PROVE  /\ h.status[o] # 0 /\ h.status[o] = n => InHand(o, n)'
             /\ h.status[o] = 0 /\ InHand(o, n) => InHand(o, n)'
  <2>1. o \in Objects
    BY <1>2 DEF SubTypes
  <2>2. CASE h.is = "reply"
    <3>1. h.status[o] # 0 /\ late = << >>
      BY <1>2, <1>4, <2>2 DEF InTurn, Mentions
    <3>2. NotIn(late', o)
      <4>1. late' = << >>
        BY <1>1, <1>4, <2>2, <3>1
      <4>2. Len(<< >>) = 0 /\ 1..0 = {}
        OBVIOUS
      <4> QED  BY <4>1, <4>2 DEF NotIn
    <3> QED  BY <1>5, <2>2, <3>1, <3>2 DEF InHand
  <2>3. CASE h.is = "update" /\ reply = << >>
    <3>1. inbox' = Append(inbox, h) /\ reply' = << >> /\ cache' = cache /\ outdated' = outdated
      BY <1>1, <2>3
    <3>2. /\ h.status[o] # 0 => EndsWith(inbox', o, h.status[o])
          /\ h.status[o] = 0 /\ EndsWith(inbox, o, n) => EndsWith(inbox', o, n)
          /\ h.status[o] = 0 /\ NotIn(inbox, o) => NotIn(inbox', o)
      BY <1>2, <1>3, <2>1, <3>1, AppendEnds
    <3> QED  BY <2>3, <3>1, <3>2 DEF InHand
  <2>4. CASE h.is = "update" /\ reply # << >>
    <3>1. late' = Append(late, h) /\ reply' = reply /\ passed' = passed
      BY <1>1, <2>4
    <3>2. /\ h.status[o] # 0 => EndsWith(late', o, h.status[o])
          /\ h.status[o] = 0 /\ EndsWith(late, o, n) => EndsWith(late', o, n)
          /\ h.status[o] = 0 /\ NotIn(late, o) => NotIn(late', o)
      BY <1>2, <1>3, <2>1, <3>1, AppendEnds
    <3> QED  BY <2>4, <3>1, <3>2 DEF InHand
  <2> QED  BY <1>4, <2>2, <2>3, <2>4
<1>8. StreamRight'
  <2> SUFFICES ASSUME NEW o \in client
               PROVE  /\ lastQuery[o] # 0
                      /\ \/ EndsWith(up', o, lastQuery[o])
                         \/ NotIn(up', o) /\ InHand(o, lastQuery[o])'
    BY <1>1 DEF StreamRight
  <2>1. o \in Objects /\ lastQuery[o] \in Nat
    BY <1>2 DEF SubTypes, Statuses
  <2>2. /\ lastQuery[o] # 0
        /\ EndsWith(up, o, lastQuery[o]) \/ (NotIn(up, o) /\ InHand(o, lastQuery[o]))
    BY DEF SubInv, StreamRight
  <2>3. CASE EndsWith(up, o, lastQuery[o])
    <3>1. EndsWith(up', o, lastQuery[o]) \/ (NotIn(up', o) /\ h.status[o] = lastQuery[o])
      BY <1>1, <1>2, <2>1, <2>3, TailEnds DEF h
    <3>2. h.status[o] = lastQuery[o] => InHand(o, lastQuery[o])'
      BY <1>1, <1>7, <2>1, <2>2
    <3> QED  BY <2>2, <3>1, <3>2
  <2>4. CASE NotIn(up, o) /\ InHand(o, lastQuery[o])
    <3>1. NotIn(up', o) /\ h.status[o] = 0
      BY <1>1, <1>2, <2>1, <2>4, TailEnds DEF h
    <3>2. InHand(o, lastQuery[o])'
      BY <1>1, <1>7, <2>1, <2>4, <3>1
    <3> QED  BY <2>2, <3>1, <3>2
  <2> QED  BY <2>2, <2>3, <2>4
<1>9. ViewsCached' /\ InTurn'
  BY <1>1, <1>5 DEF SubInv, ViewsCached, InTurn
<1>10. CASE h.is = "update"
  <2>1. reply' = reply
    BY <1>1, <1>10
  <2>2. (NoRequest \/ Asked \/ Taken \/ Answered \/ Replied)'
    <3>1. NoRequest => NoRequest'
      BY <1>1, <1>4, <1>10, <2>1 DEF NoRequest, Wanted
    <3>2. Asked => Asked'
      BY <1>1, <1>4, <1>10, <2>1 DEF Asked, Needed, Wanted
    <3>3. Taken => Taken'
      BY <1>1, <1>4, <1>10, <2>1 DEF Taken, Needed, Wanted
    <3>4. Answered => Answered'
      BY <1>1, <1>4, <1>10, <2>1 DEF Answered, Needed, Wanted
    <3>5. Replied => Replied'
      BY <1>1, <1>4, <1>10, <2>1 DEF Replied, Needed, Wanted
    <3> QED  BY <3>1, <3>2, <3>3, <3>4, <3>5 DEF SubInv
  <2> QED  BY <1>6, <1>8, <1>9, <2>2 DEF SubInv
<1>11. CASE h.is = "reply"
  <2>1. ~NoReply(up)
    <3>1. "reply" # "update"
      OBVIOUS
    <3> QED  BY <1>1, <1>2, <1>11, <3>1, TailReplies DEF h
  <2>2. Replied
    BY <2>1 DEF SubInv, NoRequest, Asked, Taken, Answered
  <2>3. Replied'
    BY <1>1, <1>4, <1>5, <1>11, <2>2 DEF Replied, Needed, Wanted
  <2> QED  BY <1>6, <1>8, <1>9, <2>3 DEF SubInv
<1> QED  BY <1>4, <1>10, <1>11

\* An update changes the cache and what listeners were told alike.
LEMMA ProcessKeeps ==
  ASSUME SubTypes, ViewsCached, NEW h \in Statuses, ProcessUpdate(h), subs' = subs
  PROVE  /\ cache' \in Statuses /\ view' \in [Listeners -> Statuses] /\ ViewsCached'
         /\ \A o \in Objects : cache'[o] = IF h[o] # 0 THEN h[o] ELSE cache[o]
<1>1. cache' = Updated(cache, h) /\ view' = Pushed(h) /\ cache \in Statuses
  BY DEF ProcessUpdate, SubTypes
<1>2. \A o \in Objects : cache'[o] = IF h[o] # 0 THEN h[o] ELSE cache[o]
  BY <1>1 DEF Updated
<1>3. cache' \in Statuses
  BY <1>1 DEF Updated, Statuses
<1>4. view' \in [Listeners -> Statuses]
  <2>1. view \in [Listeners -> Statuses]
    BY DEF SubTypes
  <2> QED  BY <1>1, <2>1 DEF Pushed, Statuses
<1>5. ViewsCached'
  <2> SUFFICES ASSUME NEW l \in Listeners, NEW o \in subs[l]
               PROVE  cache'[o] # 0 /\ view'[l][o] = cache'[o]
    BY DEF ViewsCached
  <2>1. o \in Objects
    BY DEF SubTypes
  <2>2. cache[o] # 0 /\ view[l][o] = cache[o]
    BY DEF ViewsCached
  <2>3. view'[l][o] = IF h[o] # 0 THEN h[o] ELSE view[l][o]
    BY <1>1, <2>1 DEF Pushed
  <2> QED  BY <1>2, <2>1, <2>2, <2>3
<1> QED  BY <1>2, <1>3, <1>4, <1>5

LEMMA RunUpdateKeeps ==
  ASSUME SubInv, RunUpdate
  PROVE  SubInv'
<1> DEFINE m == Head(inbox)
           h == m.status
<1>1. /\ inbox # << >> /\ inbox' = Tail(inbox) /\ ProcessUpdate(h)
      /\ outdated' = outdated \ Mentions(h)
      /\ UNCHANGED <<value, lastQuery, client, pending, answer, down, up,
                     subs, wants, locked, reply, late, passed>>
  BY DEF RunUpdate, klipperVars
<1>2. SubTypes /\ ViewsCached /\ inbox \in Seq(Messages)
  BY DEF SubInv, SubTypes
<1>3. h \in Statuses /\ Tail(inbox) \in Seq(Messages)
  <2>1. m \in Messages /\ Tail(inbox) \in Seq(Messages)
    BY <1>1, <1>2, HeadTailProperties
  <2> QED  BY <2>1 DEF Messages
<1>4. /\ cache' \in Statuses /\ view' \in [Listeners -> Statuses] /\ ViewsCached'
      /\ \A o \in Objects : cache'[o] = IF h[o] # 0 THEN h[o] ELSE cache[o]
  BY <1>1, <1>2, <1>3, ProcessKeeps
<1>5. ASSUME NEW o \in Objects, NEW n \in Nat
      PROVE  /\ NotIn(inbox, o) => NotIn(inbox', o) /\ h[o] = 0
             /\ EndsWith(inbox, o, n) => \/ EndsWith(inbox', o, n)
                                         \/ NotIn(inbox', o) /\ h[o] = n /\ n # 0
  BY <1>1, <1>2, TailEnds
<1> HIDE DEF m, h
<1>6. ASSUME NEW o \in Objects, NEW n \in Nat, InHand(o, n)
      PROVE  InHand(o, n)'
  <2>1. CASE reply # << >>
    BY <1>1, <1>6, <2>1 DEF InHand
  <2>2. CASE reply = << >> /\ EndsWith(inbox, o, n)
    <3>1. NotIn(inbox', o) /\ h[o] = n /\ n # 0 => cache'[o] = n
      BY <1>4
    <3> QED  BY <1>1, <1>5, <2>2, <3>1 DEF InHand
  <2>3. CASE reply = << >> /\ NotIn(inbox, o) /\ (cache[o] = n \/ o \in outdated)
    <3>1. NotIn(inbox', o) /\ h[o] = 0 /\ cache'[o] = cache[o]
      BY <1>4, <1>5, <2>3
    <3>2. o \in outdated => o \in outdated'
      BY <1>1, <3>1 DEF Mentions
    <3> QED  BY <1>1, <2>3, <3>1, <3>2 DEF InHand
  <2> QED  BY <1>6, <2>1, <2>2, <2>3 DEF InHand
<1>7. SubTypes'
  BY <1>1, <1>2, <1>3, <1>4 DEF SubTypes
<1>8. StreamRight'
  <2>1. \A o \in client : o \in Objects /\ lastQuery[o] \in Nat
    BY <1>2 DEF SubTypes, Statuses
  <2>2. \A o \in client : InHand(o, lastQuery[o]) => InHand(o, lastQuery[o])'
    BY <1>1, <1>6, <2>1
  <2> QED  BY <1>1, <2>2 DEF SubInv, StreamRight
<1>9. InTurn'
  BY <1>1 DEF SubInv, InTurn
<1>10. (NoRequest \/ Asked \/ Taken \/ Answered \/ Replied)'
  BY <1>1 DEF SubInv, NoRequest, Asked, Taken, Answered, Replied, Needed, Wanted
<1> QED  BY <1>4, <1>7, <1>8, <1>9, <1>10 DEF SubInv

\* An update that runs before its turn.
LEMMA RunLateKeeps ==
  ASSUME SubInv, RunLate
  PROVE  SubInv'
<1> DEFINE m == Head(late)
           h == m.status
<1>1. /\ late # << >> /\ late' = Tail(late) /\ ProcessUpdate(h)
      /\ passed' = passed \cup Mentions(h)
      /\ UNCHANGED <<value, lastQuery, client, pending, answer, down, up,
                     subs, wants, locked, reply, inbox, outdated>>
  BY DEF RunLate, klipperVars
<1>2. SubTypes /\ ViewsCached /\ late \in Seq(Messages)
  BY DEF SubInv, SubTypes
<1>3. h \in Statuses /\ Tail(late) \in Seq(Messages)
  <2>1. m \in Messages /\ Tail(late) \in Seq(Messages)
    BY <1>1, <1>2, HeadTailProperties
  <2> QED  BY <2>1 DEF Messages
<1>4. cache' \in Statuses /\ view' \in [Listeners -> Statuses] /\ ViewsCached'
  BY <1>1, <1>2, <1>3, ProcessKeeps
<1>5. ASSUME NEW o \in Objects, NEW n \in Nat
      PROVE  /\ NotIn(late, o) => NotIn(late', o)
             /\ EndsWith(late, o, n) => \/ EndsWith(late', o, n)
                                        \/ NotIn(late', o) /\ h[o] = n /\ n # 0
  BY <1>1, <1>2, TailEnds
<1>6. reply # << >>
  BY <1>1 DEF SubInv, InTurn
<1> HIDE DEF m, h
<1>7. ASSUME NEW o \in Objects, NEW n \in Nat, InHand(o, n)
      PROVE  InHand(o, n)'
  <2>1. CASE EndsWith(late, o, n)
    <3>1. h[o] # 0 => o \in passed'
      BY <1>1 DEF Mentions
    <3> QED  BY <1>1, <1>5, <1>6, <2>1, <3>1 DEF InHand
  <2>2. CASE NotIn(late, o) /\ (reply[1][o] = n \/ o \in passed)
    BY <1>1, <1>5, <1>6, <2>2 DEF InHand
  <2> QED  BY <1>6, <1>7, <2>1, <2>2 DEF InHand
<1>8. SubTypes'
  BY <1>1, <1>2, <1>3, <1>4 DEF SubTypes
<1>9. StreamRight'
  <2>1. \A o \in client : o \in Objects /\ lastQuery[o] \in Nat
    BY <1>2 DEF SubTypes, Statuses
  <2>2. \A o \in client : InHand(o, lastQuery[o]) => InHand(o, lastQuery[o])'
    BY <1>1, <1>7, <2>1
  <2> QED  BY <1>1, <2>2 DEF SubInv, StreamRight
<1>10. InTurn'
  BY <1>1, <1>6 DEF InTurn
<1>11. (NoRequest \/ Asked \/ Taken \/ Answered \/ Replied)'
  BY <1>1 DEF SubInv, NoRequest, Asked, Taken, Answered, Replied, Needed, Wanted
<1> QED  BY <1>4, <1>8, <1>9, <1>10, <1>11 DEF SubInv

\* The end of a request: the cache becomes what the reply has, others are told what
\* changed, and the listener is told all it wants.
LEMMA FinishSubscribeKeeps ==
  ASSUME SubInv, FinishSubscribe
  PROVE  SubInv'
<1> DEFINE status == reply[1]
           told == [o \in Objects |-> IF o \in wants[locked] THEN status[o] ELSE 0]
<1>1. /\ inbox = << >> /\ inbox' = late /\ late' = << >> /\ outdated' = passed
      /\ reply # << >> /\ reply' = << >> /\ cache' = status
      /\ view' = [Pushed(StatusDiff(status)) EXCEPT ![locked] = told]
      /\ subs' = [subs EXCEPT ![locked] = wants[locked]]
      /\ wants' = [wants EXCEPT ![locked] = {}] /\ locked' = NoListener
      /\ UNCHANGED <<value, lastQuery, client, pending, answer, down, up>>
  BY DEF FinishSubscribe, klipperVars
<1>2. SubTypes /\ InTurn
  BY DEF SubInv
<1>3. Replied
  BY <1>1 DEF SubInv, NoRequest, Asked, Taken, Answered
<1>4. /\ locked \in Listeners /\ down = << >> /\ pending = {} /\ answer = << >>
      /\ Needed \subseteq client /\ Mentions(status) = client /\ NoReply(up)
  BY <1>1, <1>2, <1>3 DEF Replied, SubTypes
<1>5. status \in Statuses
  <2>1. reply \in Seq(Statuses) /\ Len(reply) = 1
    BY <1>1, <1>2, <1>3 DEF Replied, SubTypes
  <2> QED  BY <2>1, OneMessage
<1> HIDE DEF status
<1>6. \A l \in Listeners : subs[l] \subseteq Objects /\ wants[l] \subseteq Objects /\ subs[l] \subseteq Wanted
  BY <1>2 DEF SubTypes, Wanted
<1>7. \A o \in Needed : o \in Objects /\ status[o] # 0
  BY <1>4 DEF Mentions
<1>8. view' \in [Listeners -> Statuses] /\ told \in Statuses
  <2>1. told \in Statuses
    BY <1>5 DEF Statuses
  <2>2. Pushed(StatusDiff(status)) \in [Listeners -> Statuses]
    <3>1. StatusDiff(status) \in Statuses
      BY <1>5 DEF StatusDiff, Statuses
    <3>2. view \in [Listeners -> Statuses]
      BY <1>2 DEF SubTypes
    <3> QED  BY <3>1, <3>2 DEF Pushed, Statuses
  <2> HIDE DEF told
  <2> QED  BY <1>1, <2>1, <2>2
<1>9. SubTypes'
  <2>1. subs' \in [Listeners -> SUBSET Objects] /\ wants' \in [Listeners -> SUBSET Objects]
    BY <1>1, <1>2, <1>4, <1>6 DEF SubTypes
  <2>2. reply' \in Seq(Statuses) /\ inbox' \in Seq(Messages) /\ late' \in Seq(Messages) /\ locked' \in Listeners \cup {NoListener} /\ cache' \in Statuses
    BY <1>1, <1>2, <1>5 DEF SubTypes
  <2> QED  BY <1>1, <1>2, <1>8, <2>1, <2>2 DEF SubTypes
<1>10. StreamRight'
  <2> SUFFICES ASSUME NEW o \in client
               PROVE  InHand(o, lastQuery[o]) => InHand(o, lastQuery[o])'
    BY <1>1 DEF SubInv, StreamRight
  <2> QED  BY <1>1 DEF InHand, status
<1>11. ViewsCached'
  <2> SUFFICES ASSUME NEW l \in Listeners, NEW o \in subs'[l]
               PROVE  status[o] # 0 /\ view'[l][o] = status[o]
    BY <1>1 DEF ViewsCached
  <2>1. CASE l = locked
    <3>1. o \in wants[locked] /\ view'[l] = told
      <4>1. subs \in [Listeners -> SUBSET Objects]
        BY <1>2 DEF SubTypes
      <4> QED  BY <1>1, <1>4, <2>1, <4>1 DEF Pushed
    <3>2. o \in Needed
      BY <3>1 DEF Needed
    <3> QED  BY <1>7, <3>1, <3>2
  <2>2. CASE l # locked
    <3>1. o \in subs[l] /\ view'[l] = Pushed(StatusDiff(status))[l]
      <4>1. subs \in [Listeners -> SUBSET Objects]
        BY <1>2 DEF SubTypes
      <4> QED  BY <1>1, <1>4, <2>2, <4>1 DEF Pushed
    <3>2. o \in Needed
      BY <1>6, <3>1 DEF Needed
    <3>3. status[o] # 0 /\ o \in Objects
      BY <1>7, <3>2
    <3>4. view[l][o] = cache[o] /\ cache[o] # 0
      BY <3>1 DEF SubInv, ViewsCached
    <3>5. StatusDiff(status)[o] = IF cache[o] = status[o] THEN 0 ELSE status[o]
      BY <3>3, <3>4 DEF StatusDiff
    <3>6. view'[l][o] = IF StatusDiff(status)[o] # 0 THEN StatusDiff(status)[o] ELSE view[l][o]
      BY <3>1, <3>3 DEF Pushed
    <3> QED  BY <3>3, <3>4, <3>5, <3>6
  <2> QED  BY <2>1, <2>2
<1>12. InTurn'
  BY <1>1, <1>2 DEF InTurn
<1>13. NoRequest'
  <2>1. Wanted' \subseteq Needed
    <3> SUFFICES ASSUME NEW l \in Listeners  PROVE subs'[l] \subseteq Needed
      BY DEF Wanted
    <3>1. subs'[l] = wants[locked] \/ subs'[l] = subs[l]
      BY <1>1, <1>2, <1>4 DEF SubTypes
    <3> QED  BY <1>6, <3>1 DEF Needed
  <2> QED  BY <1>1, <1>4, <2>1 DEF NoRequest
<1> QED  BY <1>9, <1>10, <1>11, <1>12, <1>13 DEF SubInv

\* Listeners ask, send their request and leave.
LEMMA SubscribeKeeps ==
  ASSUME SubInv, NEW l \in Listeners, NEW objects \in SUBSET Objects, Subscribe(l, objects)
  PROVE  SubInv'
<1>1. /\ wants[l] = {} /\ objects # {} /\ wants' = [wants EXCEPT ![l] = objects]
      /\ UNCHANGED <<value, lastQuery, client, pending, answer, down, up,
                     subs, locked, cache, view, inbox, reply, late, passed, outdated>>
  BY DEF Subscribe, klipperVars, readVars
<1>2. SubTypes /\ wants \in [Listeners -> SUBSET Objects]
  BY DEF SubInv, SubTypes
<1>3. SubTypes'
  BY <1>1, <1>2 DEF SubTypes
<1>4. StreamRight' /\ ViewsCached' /\ InTurn'
  BY <1>1 DEF SubInv, StreamRight, ViewsCached, InTurn, InHand
<1>5. locked # NoListener /\ wants[locked] # {} => wants'[locked] = wants[locked]
  BY <1>1, <1>2 DEF SubTypes
<1>6. locked # NoListener /\ wants[locked] # {} => Needed' = Needed
  BY <1>1, <1>5 DEF Needed, Wanted
<1>7. (NoRequest \/ Asked \/ Taken \/ Answered \/ Replied)'
  <2>1. NoRequest => NoRequest'
    BY <1>1 DEF NoRequest, Wanted
  <2>2. Asked => Asked'
    BY <1>1, <1>5, <1>6 DEF Asked
  <2>3. Taken => Taken'
    BY <1>1, <1>5, <1>6 DEF Taken
  <2>4. Answered => Answered'
    BY <1>1, <1>5, <1>6 DEF Answered
  <2>5. Replied => Replied'
    BY <1>1, <1>5, <1>6 DEF Replied
  <2> QED  BY <2>1, <2>2, <2>3, <2>4, <2>5 DEF SubInv
<1> QED  BY <1>3, <1>4, <1>7 DEF SubInv

LEMMA SendRequestKeeps ==
  ASSUME SubInv, NEW l \in Listeners, SendRequest(l)
  PROVE  SubInv'
<1>1. /\ wants[l] # {} /\ locked = NoListener /\ locked' = l /\ down' = Append(down, Superset(l))
      /\ UNCHANGED <<value, lastQuery, client, pending, answer, up,
                     subs, wants, cache, view, inbox, reply, late, passed, outdated>>
  BY DEF SendRequest, klipperVars, readVars
<1>2. SubTypes /\ NoRequest
  BY <1>1 DEF SubInv, Asked, Taken, Answered, Replied
<1>3. Superset(l) \subseteq Objects
  BY <1>2 DEF Superset, Wanted, SubTypes
<1>4. down' = <<Superset(l)>> /\ Len(down') = 1 /\ down'[1] = Superset(l) /\ down' \in Seq(SUBSET Objects)
  <2>1. down = << >>
    BY <1>2 DEF NoRequest
  <2>2. down' = <<Superset(l)>>
    BY <1>1, <2>1
  <2> QED  BY <1>3, <2>2, Single
<1>5. SubTypes'
  BY <1>1, <1>2, <1>4 DEF SubTypes
<1>6. StreamRight' /\ ViewsCached' /\ InTurn'
  BY <1>1 DEF SubInv, StreamRight, ViewsCached, InTurn, InHand
<1>7. Needed' = Superset(l)
  BY <1>1 DEF Needed, Superset, Wanted
<1>8. locked' # NoListener
  BY <1>1, SubAssumption
<1>9. Asked'
  BY <1>1, <1>2, <1>4, <1>7, <1>8 DEF NoRequest, Asked, NoReply
<1> QED  BY <1>5, <1>6, <1>9 DEF SubInv

LEMMA LeaveKeeps ==
  ASSUME SubInv, NEW l \in Listeners, Leave(l)
  PROVE  SubInv'
<1>1. /\ subs[l] # {} /\ wants[l] = {} /\ subs' = [subs EXCEPT ![l] = {}]
      /\ view' = [view EXCEPT ![l] = Unknown]
      /\ UNCHANGED <<value, lastQuery, client, pending, answer, down, up,
                     wants, locked, cache, inbox, reply, late, passed, outdated>>
  BY DEF Leave, klipperVars, readVars
<1>2. SubTypes /\ subs \in [Listeners -> SUBSET Objects] /\ view \in [Listeners -> Statuses]
  BY DEF SubInv, SubTypes
<1>3. subs' \in [Listeners -> SUBSET Objects] /\ view' \in [Listeners -> Statuses]
  <2>1. Unknown \in Statuses
    BY DEF Unknown, Statuses
  <2> QED  BY <1>1, <1>2, <2>1
<1>4. SubTypes'
  BY <1>1, <1>2, <1>3 DEF SubTypes
<1>5. StreamRight' /\ InTurn'
  BY <1>1 DEF SubInv, StreamRight, InTurn, InHand
<1>6. ViewsCached'
  <2> SUFFICES ASSUME NEW k \in Listeners, NEW o \in subs'[k]
               PROVE  cache[o] # 0 /\ view'[k][o] = cache[o]
    BY <1>1 DEF ViewsCached
  <2>1. k # l /\ o \in subs[k] /\ view'[k] = view[k]
    BY <1>1, <1>2
  <2> QED  BY <2>1 DEF SubInv, ViewsCached
<1>7. Wanted' \subseteq Wanted /\ Needed' \subseteq Needed
  <2>1. \A k \in Listeners : subs'[k] \subseteq subs[k]
    BY <1>1, <1>2
  <2>2. Wanted' \subseteq Wanted
    BY <2>1 DEF Wanted
  <2> QED  BY <1>1, <2>2 DEF Needed
<1>8. (NoRequest \/ Asked \/ Taken \/ Answered \/ Replied)'
  BY <1>1, <1>7 DEF SubInv, NoRequest, Asked, Taken, Answered, Replied
<1> QED  BY <1>4, <1>5, <1>6, <1>8 DEF SubInv

\* Listeners and the cache have the value of every object as soon as nothing is on its way
\* and Klipper has sampled the last change, but for objects of which an update has run
\* before a reply that was read before it, for any objects, listeners and changes
\* (webhooks.py:462-536, klippy_connection.py:165-191, 481-602).
THEOREM StatusIsRight == SubSpec => []StatusRight
<1>1. SubInit => SubInv
  <2> SUFFICES ASSUME SubInit  PROVE SubInv
    OBVIOUS
  <2> USE DEF SubInit, Unknown
  <2>1. << >> \in Seq(Statuses) /\ << >> \in Seq(SUBSET Objects) /\ << >> \in Seq(Messages) /\ Len(<< >>) = 0
    OBVIOUS
  <2>2. SubTypes
    <3>1. 1 \in Nat \ {0} /\ 0 \in Nat
      OBVIOUS
    <3>2. /\ value \in [Objects -> Nat \ {0}] /\ lastQuery \in Statuses /\ cache \in Statuses
          /\ view \in [Listeners -> Statuses]
      BY <3>1 DEF Statuses
    <3>3. subs \in [Listeners -> SUBSET Objects] /\ wants \in [Listeners -> SUBSET Objects]
      OBVIOUS
    <3> QED  BY <2>1, <3>2, <3>3 DEF SubTypes
  <2>3. StreamRight /\ ViewsCached
    BY DEF StreamRight, ViewsCached
  <2>4. InTurn
    BY <2>1 DEF InTurn
  <2>5. NoRequest
    BY <2>1 DEF NoRequest, NoReply, Wanted
  <2> QED  BY <2>2, <2>3, <2>4, <2>5 DEF SubInv
<1>2. SubInv /\ [SubNext]_subVars => SubInv'
  <2> SUFFICES ASSUME SubInv, [SubNext]_subVars  PROVE SubInv'
    OBVIOUS
  <2>1. CASE UNCHANGED subVars
    <3>1. UNCHANGED <<value, lastQuery, client, pending, answer, down, up,
                      subs, wants, locked, cache, view, inbox, reply, late, passed, outdated>>
      BY <2>1 DEF subVars
    <3>2. SubTypes'
      BY <3>1 DEF SubInv, SubTypes
    <3>3. StreamRight' /\ ViewsCached' /\ InTurn'
      BY <3>1 DEF SubInv, StreamRight, ViewsCached, InTurn, InHand
    <3>4. (NoRequest \/ Asked \/ Taken \/ Answered \/ Replied)'
      BY <3>1 DEF SubInv, NoRequest, Asked, Taken, Answered, Replied, Needed, Wanted
    <3> QED  BY <3>2, <3>3, <3>4 DEF SubInv
  <2>2. CASE \E o \in Objects : ObjectChanges(o)
    BY <2>2, ObjectChangesKeeps
  <2>3. CASE TakeRequest \/ SendAnswer
    BY <2>3, TakeRequestKeeps, SendAnswerKeeps
  <2>4. CASE Sample
    BY <2>4, SampleForClient, SampleForRequest
  <2>5. CASE ReadStream \/ RunUpdate \/ RunLate \/ FinishSubscribe
    BY <2>5, ReadStreamKeeps, RunUpdateKeeps, RunLateKeeps, FinishSubscribeKeeps
  <2>6. CASE \E l \in Listeners : \/ SendRequest(l) \/ Leave(l)
                                  \/ \E objects \in SUBSET Objects : Subscribe(l, objects)
    BY <2>6, SendRequestKeeps, LeaveKeeps, SubscribeKeeps
  <2> QED  BY <2>1, <2>2, <2>3, <2>4, <2>5, <2>6 DEF SubNext
<1>3. SubInv => StatusRight
  <2> SUFFICES ASSUME SubInv, AllSettled
               PROVE  /\ \A o \in Wanted \ outdated : cache[o] = value[o]
                      /\ \A l \in Listeners : \A o \in subs[l] : view[l][o] = cache[o] /\ o \in Wanted
    BY DEF StatusRight, ViewsRight, CacheRight
  <2>1. NoRequest
    BY DEF SubInv, AllSettled, Asked, Taken, Answered, Replied
  <2>2. ASSUME NEW o \in Wanted \ outdated  PROVE cache[o] = value[o]
    <3>1. o \in client /\ o \in Objects
      BY <2>1 DEF NoRequest, SubInv, SubTypes
    <3>2. lastQuery[o] = value[o]
      BY <3>1 DEF AllSettled, Only
    <3>3. ~EndsWith(up, o, lastQuery[o])
      BY DEF AllSettled, EndsWith
    <3>4. InHand(o, lastQuery[o]) /\ ~EndsWith(inbox, o, lastQuery[o])
      BY <3>1, <3>3 DEF SubInv, StreamRight, AllSettled, EndsWith
    <3> QED  BY <3>2, <3>4 DEF InHand, AllSettled
  <2>3. \A l \in Listeners : \A o \in subs[l] : view[l][o] = cache[o] /\ o \in Wanted
    BY DEF SubInv, ViewsCached, Wanted
  <2> QED  BY <2>2, <2>3
<1> QED  BY <1>1, <1>2, <1>3, PTL DEF SubSpec

-----------------------------------------------------------------------------
(* Objects that are excluded (ExcludeObject).                              *)

Position == [x : Int, e : Int]

\* What the file has extruded, its retractions left out.
FileExtruded == lastPosition.e + retracted

\* The objects of a print come layer by layer.
FileInv ==
    /\ layer \in Nat /\ toPrint \subseteq OfLayer(layer)
    /\ retracted \in {0, 1} /\ arrived \in BOOLEAN /\ drawn \in BOOLEAN
    /\ Here => currentObject \in toPrint
    /\ drawn => arrived
    /\ arrived => Here

\* Layers of object q that are done.
Ended(q) ==
    IF Height[q] < layer THEN Height[q] ELSE IF q \in toPrint THEN layer - 1 ELSE layer

\* Object q was excluded when it was last printed, or it is printed again just now.
Out(q) ==
    \/ q \in excludedObjects \cup givenBack
    \/ currentObject = q /\ ~isExcluded

\* While the ends of excluded objects are counted no other object ends.
CountInv ==
    /\ isExcluded \in BOOLEAN /\ leftOut \in BOOLEAN /\ over \in BOOLEAN
    /\ endCount \in [PrintObjects -> Nat]
    /\ Here => /\ leftOut = isExcluded
               /\ isExcluded => currentObject \in excludedObjects \cup givenBack
    /\ ~over => \A p, q \in PrintObjects :
                    endCount[p] > 0 /\ Ended(q) > Ended(p) - endCount[p] + 1 => Out(q)

TypesInv ==
    /\ {lastPosition, lastExtruded, lastExcluded, offset, tool} \subseteq Position
    /\ {maxExtruded, maxExcluded, pressed, printed, extruderAdj} \subseteq Int
    /\ initialMoves \in 0 .. InitialMoves
    /\ transform \in BOOLEAN /\ inRegion \in BOOLEAN /\ peaked \in BOOLEAN

\* Where the transform believes the file and the toolhead are.
PlaceInv ==
    /\ extruderAdj = 0 /\ pressed = printed
    /\ maxExtruded <= FileExtruded /\ maxExcluded <= FileExtruded
    /\ lastPosition.x >= 0 /\ lastPosition.e >= 0
    /\ tool.e = lastPosition.e - offset.e
    /\ ~transform => ~inRegion /\ offset = Zero /\ initialMoves = 0
    /\ ~inRegion => tool.x = lastPosition.x - offset.x /\ pressed - tool.e = retracted
    /\ transform /\ ~inRegion => lastExtruded = lastPosition
    /\ initialMoves > 0 => ~inRegion /\ offset.x = 0
    /\ ~inRegion =>
           \/ offset.x = 0
           \/ ~isExcluded /\ Here /\ ~arrived /\ lastPosition.x = lastExcluded.x

\* In the region of an excluded object.
RegionInv ==
    inRegion =>
        /\ lastExcluded = lastPosition
        /\ offset.x = lastPosition.x - lastExtruded.x /\ offset.x >= 0
        /\ pressed - tool.e = maxExtruded - lastExtruded.e
        /\ pressed - tool.e \in {0, 1}
        /\ peaked \/ (isExcluded /\ Here)
        /\ arrived => isExcluded

\* After an extrusion that was swallowed the retraction of the file is known.
PeakInv ==
    peaked => inRegion /\ offset.x > 0 /\ maxExcluded = FileExtruded

\* The transform knows how far the filament was ever extruded when a region begins.
CaughtInv ==
    transform /\ ~inRegion =>
        \/ maxExtruded = FileExtruded
        \/ initialMoves = InitialMoves
        \/ initialMoves = InitialMoves - 1 /\ retracted = 1
        \/ initialMoves = 0 /\ ~isExcluded /\ Here /\ ~drawn

CountedInv == FileInv /\ CountInv /\ OverWhenDone

\* The invariant holds before the first line.
LEMMA CountedStart == ExcludeInit => CountedInv
<1> SUFFICES ASSUME ExcludeInit  PROVE CountedInv
  OBVIOUS
<1> USE ExcludeAssumption DEF ExcludeInit
<1>1. FileInv
  BY DEF FileInv, OfLayer, Here
<1>2. \A p \in PrintObjects : ~(endCount[p] > 0)
  OBVIOUS
<1>3. CountInv /\ OverWhenDone
  BY <1>2 DEF CountInv, Here, OverWhenDone
<1> QED  BY <1>1, <1>3 DEF CountedInv

\* The lines of the file that move the toolhead.
LEMMA CountedMove ==
  ASSUME CountedInv, TravelTo \/ Retract \/ Unretract \/ ExtrudeTo
  PROVE  CountedInv'
<1>1. /\ UNCHANGED <<layer, toPrint, commandVars>>
      /\ ~over /\ Here
  BY DEF TravelTo, Retract, Unretract, ExtrudeTo, Here
<1>2. /\ retracted' \in {0, 1} /\ arrived' \in BOOLEAN /\ drawn' \in BOOLEAN
      /\ drawn' => arrived'
  <2> USE DEF CountedInv, FileInv
  <2>1. CASE TravelTo
    BY <2>1 DEF TravelTo
  <2>2. CASE Retract
    BY <2>2 DEF Retract
  <2>3. CASE Unretract
    BY <2>3 DEF Unretract
  <2>4. CASE ExtrudeTo
    BY <2>4 DEF ExtrudeTo
  <2> QED  BY <2>1, <2>2, <2>3, <2>4
<1>3. FileInv'
  BY <1>1, <1>2 DEF CountedInv, FileInv, Here, commandVars, OfLayer
<1>4. (CountInv /\ OverWhenDone)'
  BY <1>1 DEF CountedInv, CountInv, Here, OverWhenDone, Out, Ended, commandVars
<1> QED  BY <1>3, <1>4 DEF CountedInv

\* An object is excluded or not.
LEMMA CountedExclude ==
  ASSUME CountedInv, NEW o \in PrintObjects, Exclude(o) \/ Unexclude(o)
  PROVE  CountedInv'
<1>1. /\ UNCHANGED <<fileVars, currentObject, isExcluded, endCount, over, leftOut>>
      /\ excludedObjects \cup givenBack \subseteq (excludedObjects \cup givenBack)'
      /\ ~over
  BY DEF Exclude, Unexclude
<1>2. FileInv'
  BY <1>1 DEF CountedInv, FileInv, Here, fileVars, OfLayer
<1>3. CountInv'
  BY <1>1 DEF CountedInv, CountInv, Here, Out, Ended, fileVars
<1> QED  BY <1>1, <1>2, <1>3 DEF CountedInv, OverWhenDone

\* An object begins (EXCLUDE_OBJECT_START).
LEMMA CountedObjectStart ==
  ASSUME CountedInv, NEW o \in PrintObjects, ObjectStart(o)
  PROVE  CountedInv'
<1>1. /\ UNCHANGED <<fileVars, excludedObjects, endCount, over>>
      /\ ~over /\ ~Here /\ o \in toPrint
      /\ currentObject' = o /\ isExcluded' = (o \in excludedObjects) /\ leftOut' = isExcluded'
      /\ givenBack' = givenBack \ {o}
  BY DEF ObjectStart, Here
<1>2. FileInv'
  BY <1>1 DEF CountedInv, FileInv, Here, fileVars, OfLayer
<1>3. ASSUME NEW q \in PrintObjects, Out(q)
      PROVE  Out(q)'
  <2>1. q \in excludedObjects \cup givenBack
    BY <1>1, <1>3, ExcludeAssumption DEF Out, Here
  <2>2. CASE q = o /\ o \notin excludedObjects
    BY <1>1, <2>2 DEF Out
  <2> QED  BY <1>1, <2>1, <2>2 DEF Out
<1>4. CountInv'
  BY <1>1, <1>3 DEF CountedInv, CountInv, Here, Ended, fileVars
<1> QED  BY <1>1, <1>2, <1>4 DEF CountedInv, OverWhenDone

\* The objects of the next layer are to come.
LEMMA CountedNextLayer ==
  ASSUME CountedInv, NextLayer
  PROVE  CountedInv'
<1> USE ExcludeAssumption
<1>1. /\ UNCHANGED <<retracted, arrived, drawn, commandVars>>
      /\ ~over /\ toPrint = {} /\ layer' = layer + 1 /\ toPrint' = OfLayer(layer')
  BY DEF NextLayer
<1>2. FileInv'
  BY <1>1 DEF CountedInv, FileInv, Here, commandVars
<1>3. \A q \in PrintObjects : Ended(q)' = Ended(q)
  BY <1>1 DEF Ended, OfLayer, CountedInv, FileInv
<1>4. CountInv'
  BY <1>1, <1>3 DEF CountedInv, CountInv, Here, Out, commandVars
<1> QED  BY <1>1, <1>2, <1>4 DEF CountedInv, OverWhenDone, commandVars

\* An object ends, and its ends in a row are counted while it is excluded.
LEMMA CountedEnd ==
  ASSUME CountedInv, ObjectEnd
  PROVE  CountedInv'
<1> USE ExcludeAssumption
<1>0. PICK o \in PrintObjects : o = currentObject
  BY DEF ObjectEnd, CountedInv, FileInv, Here, OfLayer
<1>1. /\ UNCHANGED <<layer, retracted, excludedObjects, isExcluded, leftOut, givenBack>>
      /\ ~over /\ Here /\ currentObject = o /\ o \in toPrint /\ toPrint' = toPrint \ {o} /\ currentObject' = NoObject
      /\ arrived' = FALSE /\ drawn' = FALSE
      /\ endCount' = Counted(o) /\ over' = (\E p \in PrintObjects : endCount'[p] > StartDiff)
  BY <1>0 DEF ObjectEnd, Here, CountedInv, FileInv
<1>2. /\ o \in PrintObjects /\ Height[o] >= layer /\ Height \in [PrintObjects -> Nat]
      /\ layer \in Nat
  BY <1>1 DEF CountedInv, FileInv, OfLayer
<1>3. FileInv'
  BY <1>1 DEF CountedInv, FileInv, Here, OfLayer
<1>4. CASE ~Swallowed
  <2>1. endCount' = [p \in PrintObjects |-> 0]
    BY <1>1, <1>4 DEF Counted
  <2>2. ~over'
    BY <1>1, <2>1
  <2>3. CountInv'
    BY <1>1, <2>1, <2>2 DEF CountedInv, CountInv, Here
  <2> QED  BY <1>3, <2>2, <2>3 DEF CountedInv, OverWhenDone
<1>5. CASE Swallowed
  <2>1. /\ endCount' = [endCount EXCEPT ![o] = @ + 1] /\ endCount \in [PrintObjects -> Nat]
        /\ isExcluded /\ o \in excludedObjects \cup givenBack
    BY <1>1, <1>5 DEF Counted, Swallowed, CountedInv, CountInv
  <2>2. Ended(o) = layer - 1 /\ Ended(o)' = layer
    BY <1>1, <1>2 DEF Ended
  <2>3. \A q \in PrintObjects \ {o} : Ended(q)' = Ended(q)
    BY <1>1 DEF Ended
  <2>4. \A q \in PrintObjects : Ended(q) \in Int /\ Ended(q)' \in Int /\ Ended(q)' <= layer
    BY <1>1, <1>2 DEF Ended
  <2>5. \A q \in PrintObjects : Out(q) => Out(q)'
    BY <1>1, <2>1 DEF Out
  <2>6. Out(o)'
    BY <1>1, <2>1 DEF Out
  <2>7. endCount' \in [PrintObjects -> Nat]
    BY <2>1, <1>2
  <2>8. ASSUME NEW p \in PrintObjects, NEW q \in PrintObjects,
               endCount'[p] > 0, Ended(q)' > Ended(p)' - endCount'[p] + 1
        PROVE  Out(q)'
    <3>1. CASE q = o
      BY <3>1, <2>6
    <3>2. CASE q # o /\ p # o
      BY <3>2, <2>8, <2>1, <2>3, <2>5, <1>1 DEF CountedInv, CountInv
    <3>3. CASE q # o /\ p = o
      <4>1. endCount'[o] = endCount[o] + 1 /\ endCount[o] \in Nat
        BY <2>1, <1>2
      <4>2. endCount[o] > 0
        BY <4>1, <2>2, <2>4, <2>8, <3>3, <1>2
      <4>3. Ended(q) > Ended(o) - endCount[o] + 1
        BY <4>1, <2>2, <2>3, <2>4, <2>8, <3>3, <1>2
      <4> QED  BY <4>2, <4>3, <2>5, <3>3, <1>1, <1>2 DEF CountedInv, CountInv
    <3> QED  BY <3>1, <3>2, <3>3
  <2>9. CountInv'
    BY <1>1, <2>7, <2>8 DEF CountedInv, CountInv, Here
  <2>10. ASSUME over', NEW q \in PrintObjects, Height[q] >= layer
         PROVE  q \in excludedObjects \cup givenBack
    <3>1. PICK p \in PrintObjects : endCount'[p] > StartDiff
      BY <1>1, <2>10
    <3>2. endCount'[p] \in Nat /\ endCount'[p] >= 3
      BY <3>1, <2>7
    <3>3. Ended(q)' >= layer - 1
      BY <2>10, <1>1, <1>2 DEF Ended
    <3>4. Ended(q)' > Ended(p)' - endCount'[p] + 1
      BY <3>2, <3>3, <2>4, <1>2
    <3>5. Out(q)'
      BY <2>8, <3>2, <3>4
    <3> QED  BY <3>5, <1>1 DEF Out
  <2> QED  BY <1>1, <1>2, <1>3, <2>9, <2>10 DEF CountedInv, OverWhenDone
<1> QED  BY <1>4, <1>5

-----------------------------------------------------------------------------

MoveInv == TypesInv /\ PlaceInv /\ RegionInv /\ PeakInv /\ CaughtInv

\* A line of the file, which goes to position new.
Lead(new) ==
    /\ new.x = lastPosition.x + 1 /\ new.e = lastPosition.e /\ retracted' = retracted
    /\ ~arrived /\ arrived' /\ (drawn' <=> drawn) /\ printed' = printed
Pull(new) ==
    /\ new.x = lastPosition.x /\ new.e = lastPosition.e - 1 /\ new.e >= 0
    /\ retracted = 0 /\ retracted' = 1
    /\ (arrived' <=> arrived) /\ (drawn' <=> drawn) /\ printed' = printed
Push(new) ==
    /\ new.x = lastPosition.x /\ new.e = lastPosition.e + 1
    /\ retracted = 1 /\ retracted' = 0
    /\ (arrived' <=> arrived) /\ (drawn' <=> drawn) /\ printed' = printed
Draw(new) ==
    /\ new.x = lastPosition.x + 1 /\ new.e = lastPosition.e + 1
    /\ retracted = 0 /\ retracted' = 0
    /\ arrived /\ arrived' /\ drawn' /\ printed' = IF tool' = tool THEN printed ELSE printed + 1
FileLine(new) ==
    /\ Lead(new) \/ Pull(new) \/ Push(new) \/ Draw(new)
    /\ Here /\ Here' /\ (isExcluded' <=> isExcluded)
    /\ lastPosition' = new /\ (transform' <=> transform)
    /\ retracted \in {0, 1}

\* A line of the file is a move of one of four kinds.
LEMMA LineOfFile ==
  ASSUME CountedInv, MoveInv, TravelTo \/ Retract \/ Unretract \/ ExtrudeTo
  PROVE  \E new \in Position : Move(new) /\ FileLine(new)
<1>0. /\ lastPosition \in Position /\ retracted \in {0, 1}
      /\ lastPosition.x \in Int /\ lastPosition.e \in Int
  BY DEF CountedInv, FileInv, MoveInv, TypesInv, Position
<1>2. CASE TravelTo
  <2>0. [lastPosition EXCEPT !.x = @ + 1] \in Position
    BY <1>0 DEF Position
  <2>1. PICK new \in Position : new = [lastPosition EXCEPT !.x = @ + 1]
    BY <2>0
  <2>2. new.x = lastPosition.x + 1 /\ new.e = lastPosition.e
    BY <1>0, <2>1 DEF Position
  <2>3. Move(new)
    BY <1>2, <2>1 DEF TravelTo
  <2>4. Lead(new)
    BY <1>2, <2>2 DEF TravelTo, Lead
  <2>5. Here /\ Here' /\ (isExcluded' <=> isExcluded)
    BY <1>2 DEF TravelTo, commandVars, Here
  <2> QED  BY <1>0, <2>3, <2>4, <2>5 DEF FileLine, Move
<1>3. CASE Retract
  <2>0. [lastPosition EXCEPT !.e = @ - 1] \in Position
    BY <1>0 DEF Position
  <2>1. PICK new \in Position : new = [lastPosition EXCEPT !.e = @ - 1]
    BY <2>0
  <2>2. new.x = lastPosition.x /\ new.e = lastPosition.e - 1
    BY <1>0, <2>1 DEF Position
  <2>3. Move(new)
    BY <1>3, <2>1 DEF Retract
  <2>4. lastPosition.e > 0 /\ lastPosition.e \in Int
    BY <1>0, <1>3 DEF Retract
  <2>5. new.e >= 0
    BY <2>2, <2>4
  <2>6. Pull(new)
    BY <1>3, <2>2, <2>5 DEF Retract, Pull
  <2>7. Here /\ Here' /\ (isExcluded' <=> isExcluded)
    BY <1>3 DEF Retract, commandVars, Here
  <2> QED  BY <1>0, <2>3, <2>6, <2>7 DEF FileLine, Move
<1>4. CASE Unretract
  <2>0. [lastPosition EXCEPT !.e = @ + 1] \in Position
    BY <1>0 DEF Position
  <2>1. PICK new \in Position : new = [lastPosition EXCEPT !.e = @ + 1]
    BY <2>0
  <2>2. new.x = lastPosition.x /\ new.e = lastPosition.e + 1
    BY <1>0, <2>1 DEF Position
  <2>3. Move(new)
    BY <1>4, <2>1 DEF Unretract
  <2>4. Push(new)
    BY <1>4, <2>2 DEF Unretract, Push
  <2>5. Here /\ Here' /\ (isExcluded' <=> isExcluded)
    BY <1>4 DEF Unretract, commandVars, Here
  <2> QED  BY <1>0, <2>3, <2>4, <2>5 DEF FileLine, Move
<1>5. CASE ExtrudeTo
  <2>0. [x |-> lastPosition.x + 1, e |-> lastPosition.e + 1] \in Position
    BY <1>0 DEF Position
  <2>1. PICK new \in Position : new = [x |-> lastPosition.x + 1, e |-> lastPosition.e + 1]
    BY <2>0
  <2>2. new.x = lastPosition.x + 1 /\ new.e = lastPosition.e + 1
    BY <1>0, <2>1 DEF Position
  <2>3. Move(new)
    BY <1>5, <2>1 DEF ExtrudeTo
  <2>4. /\ arrived /\ arrived' /\ drawn' /\ retracted = 0 /\ retracted' = 0
        /\ printed' = IF tool' = tool THEN printed ELSE printed + 1
    BY <1>5 DEF ExtrudeTo
  <2>5. Draw(new)
    BY <2>2, <2>4 DEF Draw
  <2>6. Here /\ Here' /\ (isExcluded' <=> isExcluded)
    BY <1>5 DEF ExtrudeTo, commandVars, Here
  <2> QED  BY <1>0, <2>3, <2>5, <2>6 DEF FileLine, Move
<1> QED  BY <1>2, <1>3, <1>4, <1>5

\* What a line does to the file.
LEMMA LineBounds ==
  ASSUME CountedInv, MoveInv, NEW new \in Position, FileLine(new)
  PROVE  /\ new.x \in Int /\ new.e \in Int /\ lastPosition.x \in Int /\ lastPosition.e \in Int
         /\ retracted' \in {0, 1} /\ new.x >= lastPosition.x /\ new.e >= 0
         /\ FileExtruded \in Int /\ FileExtruded' \in Int
         /\ FileExtruded' >= FileExtruded /\ FileExtruded' = new.e + retracted'
         /\ FileExtruded = lastPosition.e + retracted
         /\ new.e <= FileExtruded'
         /\ new.x # lastPosition.x \/ new.e # lastPosition.e
         /\ ~Draw(new) => FileExtruded' = FileExtruded /\ printed' = printed
         /\ Draw(new) => FileExtruded' = FileExtruded + 1 /\ new.e = FileExtruded'
<1> USE DEF MoveInv, TypesInv, PlaceInv, Position, FileExtruded
<1>0. /\ new.x \in Int /\ new.e \in Int /\ lastPosition.x \in Int /\ lastPosition.e \in Int
      /\ lastPosition.e >= 0 /\ lastPosition' = new /\ retracted \in {0, 1}
  BY DEF FileLine
<1>1. CASE Lead(new)
  BY <1>0, <1>1 DEF Lead, Draw
<1>2. CASE Pull(new)
  BY <1>0, <1>2 DEF Pull, Draw
<1>3. CASE Push(new)
  BY <1>0, <1>3 DEF Push, Draw
<1>4. CASE Draw(new)
  BY <1>0, <1>4 DEF Draw
<1> QED  BY <1>1, <1>2, <1>3, <1>4 DEF FileLine

\* Facts about the toolhead: it comes to target, and is pushed by what is drawn.
LEMMA ToolMoved ==
  ASSUME CountedInv, MoveInv, NEW new \in Position, FileLine(new),
         pressed - tool.e \in Int,
         NEW target \in Position, MovesTool(target),
         ~inRegion \/ ~Draw(new),
         target.e = pressed + (new.e - FileExtruded),
         Draw(new) => pressed - tool.e = 0
  PROVE  /\ pressed' \in Int /\ printed' \in Int /\ tool' = target
         /\ pressed' = printed' /\ pressed' - tool'.e = retracted'
<1> USE DEF MoveInv, TypesInv, PlaceInv, Position
<1>1. tool' = target /\ pressed' = Larger(pressed, target.e)
  BY DEF MovesTool
<1>2. /\ new.e \in Int /\ retracted' \in {0, 1} /\ FileExtruded \in Int
      /\ FileExtruded' = new.e + retracted'
      /\ ~Draw(new) => FileExtruded' = FileExtruded /\ printed' = printed
      /\ Draw(new) => FileExtruded' = FileExtruded + 1 /\ new.e = FileExtruded'
  BY LineBounds
<1>3. /\ pressed \in Int /\ printed = pressed /\ tool.e \in Int /\ target.e \in Int
  OBVIOUS
<1>4. CASE ~Draw(new)
  <2>1. target.e = pressed - retracted'
    BY <1>2, <1>3, <1>4
  <2>2. pressed' = pressed
    BY <1>1, <1>2, <1>3, <2>1 DEF Larger
  <2> QED  BY <1>1, <1>2, <1>3, <1>4, <2>1, <2>2
<1>5. CASE Draw(new)
  <2>1. retracted' = 0 /\ target.e = pressed + 1 /\ tool.e = pressed
    BY <1>2, <1>3, <1>5
  <2>2. pressed' = pressed + 1
    BY <1>1, <1>3, <2>1 DEF Larger
  <2>3. tool' # tool
    BY <1>1, <1>3, <2>1
  <2>4. printed' = printed + 1
    BY <1>5, <2>3 DEF Draw
  <2> QED  BY <1>1, <1>3, <2>1, <2>2, <2>4
<1> QED  BY <1>4, <1>5

\* Before any object is excluded the moves go to the toolhead as they are.
LEMMA MoveUntransformed ==
  ASSUME CountedInv, MoveInv, NEW new \in Position, FileLine(new), Move(new), ~transform
  PROVE  MoveInv' /\ (Extrudes /\ ~leftOut => PrintedInPlace)
<1> USE DEF MoveInv, Position
<1>0. ~inRegion
  BY DEF PlaceInv
<1>1. /\ MovesTool(new) /\ ~inRegion /\ ~inRegion' /\ ~peaked' /\ ~transform'
      /\ inRegion' = inRegion /\ peaked' \in BOOLEAN /\ transform' = transform
      /\ UNCHANGED <<offset, extruderAdj, lastExtruded, lastExcluded, maxExtruded,
                     maxExcluded, initialMoves>>
      /\ lastPosition' = new
  <2>1. /\ MovesTool(new) /\ inRegion' = inRegion
        /\ UNCHANGED <<offset, extruderAdj, lastExtruded, lastExcluded, maxExtruded,
                       maxExcluded, initialMoves>>
    BY DEF Move
  <2>2. transform' = transform /\ lastPosition' = new
    BY DEF Move
  <2>3. peaked' = (inRegion' /\ (peaked \/ (new.e > lastPosition.e /\ new.x # lastPosition.x)))
    BY DEF Move
  <2>4. ~peaked' /\ peaked' \in BOOLEAN
    BY <1>0, <2>1, <2>3
  <2> QED  BY <1>0, <2>1, <2>2, <2>4
<1>2. /\ offset = Zero /\ initialMoves = 0 /\ tool.x = lastPosition.x - offset.x
      /\ pressed - tool.e = retracted /\ tool.e = lastPosition.e - offset.e
      /\ extruderAdj = 0 /\ maxExtruded <= FileExtruded /\ maxExcluded <= FileExtruded
  BY <1>1 DEF PlaceInv
<1>3. /\ new.x \in Int /\ new.e \in Int /\ lastPosition.x \in Int /\ lastPosition.e \in Int
      /\ retracted' \in {0, 1} /\ new.x >= lastPosition.x /\ new.e >= 0
      /\ FileExtruded \in Int /\ FileExtruded' \in Int
      /\ FileExtruded' >= FileExtruded
      /\ FileExtruded = lastPosition.e + retracted
  BY LineBounds
<1>4. pressed \in Int /\ tool.e \in Int /\ tool.x \in Int /\ offset.x = 0 /\ offset.e = 0
  BY <1>2 DEF TypesInv, Zero
<1>5. retracted \in {0, 1} /\ (Draw(new) => retracted = 0)
  BY DEF FileLine, Draw
<1>6. pressed - tool.e \in Int /\ new.e = pressed + (new.e - FileExtruded)
  <2>1. tool.e = lastPosition.e
    BY <1>2, <1>3, <1>4
  <2>2. pressed = FileExtruded
    BY <1>2, <1>3, <1>4, <1>5, <2>1
  <2> QED  BY <1>3, <1>4, <2>1, <2>2
<1>7. Draw(new) => pressed - tool.e = 0
  BY <1>2, <1>5
<1>8. /\ pressed' \in Int /\ printed' \in Int /\ tool' = new
      /\ pressed' = printed' /\ pressed' - tool'.e = retracted'
  BY <1>1, <1>6, <1>7, ToolMoved
<1>9. TypesInv'
  BY <1>1, <1>8 DEF TypesInv
<1>10. lastPosition'.x >= 0 /\ lastPosition'.e >= 0
  BY <1>1, <1>3 DEF PlaceInv
<1>11. maxExtruded' <= FileExtruded' /\ maxExcluded' <= FileExtruded'
  BY <1>1, <1>2, <1>3 DEF TypesInv
<1>12. tool'.x = lastPosition'.x - offset'.x /\ tool'.e = lastPosition'.e - offset'.e
  BY <1>1, <1>2, <1>3, <1>4, <1>8
<1>13. PlaceInv'
  BY <1>1, <1>2, <1>4, <1>8, <1>10, <1>11, <1>12 DEF PlaceInv, Zero
<1>14. (RegionInv /\ PeakInv /\ CaughtInv)'
  BY <1>1 DEF RegionInv, PeakInv, CaughtInv
<1>15. PrintedInPlace
  BY <1>1, <1>2, <1>3, <1>4, <1>8 DEF PrintedInPlace
<1> QED  BY <1>9, <1>13, <1>14, <1>15

\* Moves of an excluded object do not go to the toolhead.
LEMMA MoveSwallowed ==
  ASSUME CountedInv, MoveInv, NEW new \in Position, FileLine(new), Move(new),
         transform, Swallowed
  PROVE  MoveInv' /\ (~leftOut => ~Here)
<1> USE DEF MoveInv, Position
<1>1. /\ inRegion' /\ IgnoreMove(new) /\ transform' /\ lastPosition' = new
      /\ peaked' => peaked \/ (new.e > lastPosition.e /\ new.x # lastPosition.x)
      /\ isExcluded /\ isExcluded' /\ initialMoves = 0 /\ Here /\ Here' /\ peaked' \in BOOLEAN
  BY DEF Move, FileLine, Swallowed
<1>2. /\ tool' = tool /\ pressed' = pressed /\ extruderAdj' = extruderAdj
      /\ lastExtruded' = lastExtruded /\ maxExtruded' = maxExtruded
      /\ initialMoves' = initialMoves
      /\ lastExcluded' = new /\ maxExcluded' = Larger(maxExcluded, new.e)
      /\ offset' = [x |-> new.x - lastExtruded.x, e |-> offset.e + new.e - lastPosition.e]
  BY <1>1 DEF IgnoreMove
<1>3. /\ new.x \in Int /\ new.e \in Int /\ lastPosition.x \in Int /\ lastPosition.e \in Int
      /\ retracted' \in {0, 1} /\ new.x >= lastPosition.x /\ new.e >= 0
      /\ FileExtruded \in Int /\ FileExtruded' \in Int
      /\ FileExtruded' >= FileExtruded /\ new.e <= FileExtruded'
      /\ FileExtruded = lastPosition.e + retracted
      /\ ~Draw(new) => FileExtruded' = FileExtruded
      /\ Draw(new) => new.e = FileExtruded'
  BY LineBounds
<1>4. /\ lastExtruded.x \in Int /\ lastExtruded.e \in Int /\ offset.e \in Int
      /\ maxExcluded \in Int /\ maxExtruded \in Int /\ tool.e \in Int
      /\ pressed \in Int /\ printed \in Int
  BY DEF TypesInv
<1>5. offset'.x = new.x - lastExtruded.x /\ offset'.e = offset.e + new.e - lastPosition.e
  BY <1>2
<1>6. maxExcluded' \in Int /\ maxExcluded' >= maxExcluded /\ maxExcluded' >= new.e
      /\ (maxExcluded' = maxExcluded \/ maxExcluded' = new.e)
  BY <1>2, <1>3, <1>4 DEF Larger
<1>7. printed' = printed
  BY <1>2 DEF FileLine, Lead, Pull, Push, Draw
<1>8. offset' \in Position
  BY <1>2, <1>3, <1>4
<1>9. TypesInv'
  BY <1>1, <1>2, <1>6, <1>7, <1>8 DEF TypesInv
<1>10. /\ maxExtruded <= FileExtruded /\ maxExcluded <= FileExtruded
       /\ tool.e = lastPosition.e - offset.e /\ extruderAdj = 0 /\ pressed = printed
       /\ lastPosition.x >= 0 /\ lastPosition.e >= 0
  BY DEF PlaceInv
<1>11. maxExtruded' <= FileExtruded' /\ maxExcluded' <= FileExtruded'
  BY <1>2, <1>3, <1>4, <1>6, <1>10
<1>12. tool'.e = lastPosition'.e - offset'.e
  BY <1>1, <1>2, <1>3, <1>4, <1>5, <1>10
<1>13. lastPosition'.x >= 0 /\ lastPosition'.e >= 0
  BY <1>1, <1>3, <1>10
<1>14. PlaceInv'
  BY <1>1, <1>2, <1>7, <1>10, <1>11, <1>12, <1>13 DEF PlaceInv
\* At the first of these moves the transform has seen the retraction.
<1>15. /\ pressed - tool.e = maxExtruded - lastExtruded.e
       /\ pressed - tool.e \in {0, 1} /\ lastExtruded.x <= lastPosition.x
  <2>1. CASE inRegion
    <3>1. offset.x \in Int /\ offset.x = lastPosition.x - lastExtruded.x /\ offset.x >= 0
      BY <2>1 DEF RegionInv, TypesInv
    <3>2. lastExtruded.x <= lastPosition.x
      BY <3>1, <1>3, <1>4
    <3> QED  BY <2>1, <3>2 DEF RegionInv
  <2>2. CASE ~inRegion
    <3>1. lastExtruded = lastPosition /\ pressed - tool.e = retracted /\ retracted \in {0, 1}
      BY <2>2 DEF PlaceInv, FileLine
    <3>2. initialMoves # InitialMoves /\ initialMoves # InitialMoves - 1
      BY <1>1, ExcludeAssumption
    <3>3. maxExtruded = FileExtruded
      BY <1>1, <2>2, <3>2 DEF CaughtInv
    <3> QED  BY <1>3, <1>4, <3>1, <3>3
  <2> QED  BY <2>1, <2>2
<1>16. pressed' - tool'.e = maxExtruded' - lastExtruded'.e /\ pressed' - tool'.e \in {0, 1}
  BY <1>2, <1>15
<1>17. offset'.x = lastPosition'.x - lastExtruded'.x /\ offset'.x >= 0
  BY <1>1, <1>2, <1>3, <1>4, <1>5, <1>15
<1>18. RegionInv'
  BY <1>1, <1>2, <1>16, <1>17 DEF RegionInv
<1>19. ASSUME peaked'
       PROVE  offset'.x > 0 /\ maxExcluded' = FileExtruded'
  <2>1. CASE peaked
    <3>1. /\ offset.x > 0 /\ maxExcluded = FileExtruded
          /\ offset.x = lastPosition.x - lastExtruded.x /\ offset.x \in Int
      BY <2>1 DEF PeakInv, RegionInv, TypesInv
    <3>2. offset'.x > 0
      BY <3>1, <1>3, <1>4, <1>5
    <3>3. maxExcluded' = FileExtruded'
      BY <3>1, <1>3, <1>4, <1>6, <1>11
    <3> QED  BY <3>2, <3>3
  <2>2. CASE new.e > lastPosition.e /\ new.x # lastPosition.x
    <3>1. Draw(new)
      BY <2>2, <1>3 DEF FileLine, Lead, Pull, Push
    <3>2. new.x = lastPosition.x + 1
      BY <3>1 DEF Draw
    <3> QED  BY <3>1, <3>2, <1>3, <1>4, <1>5, <1>6, <1>11, <1>15
  <2> QED  BY <1>1, <1>19, <2>1, <2>2
<1>20. PeakInv' /\ CaughtInv'
  BY <1>1, <1>19 DEF PeakInv, CaughtInv
<1>21. ~leftOut => ~Here
  BY <1>1 DEF CountedInv, CountInv
<1> QED  BY <1>9, <1>14, <1>18, <1>20, <1>21

\* Only lines that draw extrude while the toolhead moves.
LEMMA OnlyDrawn ==
  ASSUME CountedInv, MoveInv, NEW new \in Position, FileLine(new), Extrudes
  PROVE  Draw(new)
<1>1. lastPosition' = new /\ new.e > lastPosition.e /\ new.x # lastPosition.x
  BY DEF FileLine, Extrudes
<1>2. lastPosition.x \in Int /\ lastPosition.e \in Int
  BY LineBounds
<1> QED  BY <1>1, <1>2 DEF FileLine, Lead, Pull, Push

\* Once an object was excluded: a move of another, after the first one.
LEMMA MoveOutside ==
  ASSUME CountedInv, MoveInv, NEW new \in Position, FileLine(new), Move(new),
         transform, ~Swallowed, ~inRegion
  PROVE  MoveInv' /\ (Extrudes /\ ~leftOut => PrintedInPlace)
<1> USE DEF MoveInv, Position
<1>1. /\ ~inRegion' /\ inRegion' = FALSE /\ NormalMove(new, 0) /\ transform' = transform
      /\ lastPosition' = new /\ ~peaked' /\ peaked' \in BOOLEAN
  <2>1. transform' = transform /\ lastPosition' = new /\ extruderAdj = 0
    BY DEF Move, PlaceInv
  <2>2. inRegion' = FALSE /\ NormalMove(new, IF inRegion THEN Adjustment ELSE extruderAdj)
    BY DEF Move
  <2>3. peaked' = (inRegion' /\ (peaked \/ (new.e > lastPosition.e /\ new.x # lastPosition.x)))
    BY DEF Move
  <2>4. ~peaked' /\ peaked' \in BOOLEAN
    BY <2>2, <2>3
  <2> QED  BY <2>1, <2>2, <2>4
<1>2. PICK off \in Position :
         /\ off.x = (IF MovesAway(new) THEN 0 ELSE offset.x) /\ off.e = offset.e
         /\ offset' = off
         /\ MovesTool([x |-> new.x - off.x, e |-> new.e - off.e])
  <2>1. PICK off : off = [x |-> IF MovesAway(new) THEN 0 ELSE offset.x,
                          e |-> IF Adjusts(new, 0) THEN offset.e + 0 ELSE offset.e]
    OBVIOUS
  <2>2. offset' = off /\ MovesTool([x |-> new.x - off.x, e |-> new.e - off.e])
    BY <1>1, <2>1 DEF NormalMove
  <2>3. offset.x \in Int /\ offset.e \in Int
    BY DEF TypesInv
  <2>4. off.x = (IF MovesAway(new) THEN 0 ELSE offset.x) /\ off.e = offset.e /\ off \in Position
    BY <2>1, <2>3
  <2> QED  BY <2>2, <2>4
<1>3. /\ initialMoves' = IF initialMoves > 0 /\ lastPosition.e # new.e
                         THEN initialMoves - 1 ELSE initialMoves
      /\ lastExtruded' = new /\ maxExtruded' = Larger(maxExtruded, new.e)
      /\ extruderAdj' = 0 /\ lastExcluded' = lastExcluded /\ maxExcluded' = maxExcluded
  BY <1>1 DEF NormalMove
<1>4. /\ new.x \in Int /\ new.e \in Int /\ lastPosition.x \in Int /\ lastPosition.e \in Int
      /\ retracted' \in {0, 1} /\ new.x >= lastPosition.x /\ new.e >= 0
      /\ FileExtruded \in Int /\ FileExtruded' \in Int
      /\ FileExtruded' >= FileExtruded /\ new.e <= FileExtruded'
      /\ FileExtruded = lastPosition.e + retracted
      /\ FileExtruded' = new.e + retracted'
      /\ ~Draw(new) => FileExtruded' = FileExtruded
  BY LineBounds
<1>5. /\ tool.x = lastPosition.x - offset.x /\ tool.e = lastPosition.e - offset.e
      /\ pressed - tool.e = retracted
      /\ maxExtruded <= FileExtruded /\ maxExcluded <= FileExtruded
      /\ lastPosition.x >= 0 /\ lastPosition.e >= 0
  BY DEF PlaceInv
<1>6. /\ tool.x \in Int /\ tool.e \in Int /\ pressed \in Int /\ offset.e \in Int
      /\ offset.x \in Int /\ maxExtruded \in Int /\ maxExcluded \in Int
      /\ lastExcluded.x \in Int /\ initialMoves \in 0 .. InitialMoves
  BY DEF TypesInv
<1>7. retracted \in {0, 1} /\ (Draw(new) => retracted = 0)
  BY DEF FileLine, Draw
<1>8. PICK target \in Position : /\ target.x = new.x - off.x /\ target.e = new.e - off.e
                                 /\ MovesTool(target)
  <2>1. PICK target : target = [x |-> new.x - off.x, e |-> new.e - off.e]
    OBVIOUS
  <2> QED  BY <1>2, <1>4, <2>1
<1>9. target.e = pressed + (new.e - FileExtruded)
  BY <1>2, <1>4, <1>5, <1>6, <1>7, <1>8
<1>10. /\ pressed' \in Int /\ printed' \in Int /\ tool' = target
       /\ pressed' = printed' /\ pressed' - tool'.e = retracted'
  <2>1. pressed - tool.e \in Int /\ (Draw(new) => pressed - tool.e = 0)
    BY <1>5, <1>6, <1>7
  <2> QED  BY <1>8, <1>9, <2>1, ToolMoved
<1>11. /\ maxExtruded' \in Int /\ maxExtruded' >= maxExtruded /\ maxExtruded' >= new.e
       /\ (maxExtruded' = maxExtruded \/ maxExtruded' = new.e)
  BY <1>3, <1>4, <1>6 DEF Larger
<1>12. initialMoves' \in 0 .. InitialMoves
  BY <1>3, <1>6, ExcludeAssumption
<1>13. TypesInv'
  <2>1. ({lastPosition, lastExtruded, lastExcluded, offset, tool} \subseteq Position)'
    BY <1>1, <1>2, <1>3, <1>8, <1>10, <1>11 DEF TypesInv
  <2>2. ({maxExtruded, maxExcluded, pressed, printed, extruderAdj} \subseteq Int)'
    BY <1>1, <1>2, <1>3, <1>8, <1>10, <1>11 DEF TypesInv
  <2>3. (transform \in BOOLEAN /\ inRegion \in BOOLEAN /\ peaked \in BOOLEAN)'
    BY <1>1, <1>2, <1>3, <1>8, <1>10, <1>11 DEF TypesInv
  <2>4. (initialMoves \in 0 .. InitialMoves)'
    BY <1>12
  <2> QED  BY <2>1, <2>2, <2>3, <2>4 DEF TypesInv
<1>14. maxExtruded' <= FileExtruded' /\ maxExcluded' <= FileExtruded'
  BY <1>3, <1>4, <1>5, <1>6, <1>11
<1>15. /\ tool'.x = lastPosition'.x - offset'.x /\ tool'.e = lastPosition'.e - offset'.e
       /\ lastPosition'.x >= 0 /\ lastPosition'.e >= 0
  BY <1>1, <1>2, <1>4, <1>5, <1>8, <1>10
<1>16. offset.x = 0 => offset'.x = 0
  BY <1>2
<1>17. initialMoves' > 0 => initialMoves > 0
  BY <1>3, <1>6
<1>18. initialMoves' > 0 => offset'.x = 0
  BY <1>16, <1>17 DEF PlaceInv
<1>19. \/ offset'.x = 0
       \/ ~isExcluded' /\ Here' /\ ~arrived' /\ lastPosition'.x = lastExcluded'.x
  <2>1. CASE offset.x # 0
    <3>1. ~isExcluded /\ Here /\ ~arrived /\ lastPosition.x = lastExcluded.x
      BY <2>1 DEF PlaceInv
    <3>2. CASE Lead(new)
      <4>1. MovesAway(new)
        BY <2>1, <3>1, <3>2, <1>4, <1>6 DEF Lead, MovesAway
      <4> QED  BY <4>1, <1>2
    <3>3. CASE Pull(new) \/ Push(new)
      <4>1. ~arrived' /\ new.x = lastPosition.x
        BY <3>1, <3>3 DEF Pull, Push
      <4>2. lastPosition'.x = lastExcluded'.x
        BY <4>1, <3>1, <1>1, <1>3
      <4> QED  BY <3>1, <4>1, <4>2 DEF FileLine
    <3>4. ~Draw(new)
      BY <3>1 DEF Draw
    <3> QED  BY <3>2, <3>3, <3>4 DEF FileLine
  <2> QED  BY <2>1, <1>16
<1>20. PlaceInv'
  <2>1. transform'
    BY <1>1
  <2>2. lastExtruded' = lastPosition'
    BY <1>1, <1>3
  <2>3. initialMoves' > 0 => ~inRegion' /\ offset'.x = 0
    BY <1>1, <1>18
  <2> QED  BY <1>1, <1>3, <1>10, <1>14, <1>15, <1>19, <2>1, <2>2, <2>3 DEF PlaceInv
<1>21. RegionInv' /\ PeakInv'
  BY <1>1 DEF RegionInv, PeakInv
<1>22. CaughtInv'
  <2>1. CASE retracted' = 0
    BY <2>1, <1>4, <1>6, <1>11, <1>14 DEF CaughtInv
  <2>2. CASE retracted' = 1
    <3>1. ~Draw(new) /\ ~Push(new)
      BY <2>2 DEF Draw, Push
    <3>2. CASE maxExtruded = FileExtruded
      BY <3>1, <3>2, <1>4, <1>6, <1>11 DEF CaughtInv
    <3>3. CASE initialMoves = InitialMoves
      <4>1. initialMoves' = InitialMoves \/ initialMoves' = InitialMoves - 1
        BY <3>3, <1>3
      <4> QED  BY <2>2, <4>1 DEF CaughtInv
    <3>4. CASE initialMoves = InitialMoves - 1 /\ retracted = 1
      <4>1. new.e = lastPosition.e
        BY <3>1, <3>4 DEF FileLine, Lead, Pull
      <4>2. initialMoves' = InitialMoves - 1
        BY <3>4, <4>1, <1>3
      <4> QED  BY <2>2, <4>2 DEF CaughtInv
    <3>5. CASE initialMoves = 0 /\ ~isExcluded /\ Here /\ ~drawn
      <4>1. initialMoves' = 0
        BY <3>5, <1>3
      <4>2. ~isExcluded' /\ Here' /\ ~drawn'
        BY <3>1, <3>5 DEF FileLine, Lead, Pull
      <4> QED  BY <4>1, <4>2 DEF CaughtInv
    <3> QED  BY <3>2, <3>3, <3>4, <3>5 DEF CaughtInv
  <2> QED  BY <1>4, <2>1, <2>2
<1>23. ASSUME Extrudes  PROVE PrintedInPlace
  <2>1. Draw(new)
    BY <1>23, OnlyDrawn
  <2>2. offset.x = 0
    BY <2>1 DEF PlaceInv, Draw
  <2> QED  BY <2>2, <1>1, <1>2, <1>4, <1>5, <1>6, <1>8, <1>10 DEF PrintedInPlace
<1> QED  BY <1>13, <1>20, <1>21, <1>22, <1>23

\* The first move of an object after one that was excluded.
LEMMA MoveLeaves ==
  ASSUME CountedInv, MoveInv, NEW new \in Position, FileLine(new), Move(new),
         transform, ~Swallowed, inRegion
  PROVE  MoveInv' /\ ~Extrudes
<1> USE DEF MoveInv, Position
<1>1. /\ ~inRegion' /\ inRegion' = FALSE /\ NormalMove(new, Adjustment) /\ transform' = transform
      /\ lastPosition' = new /\ ~peaked' /\ peaked' \in BOOLEAN
  <2>1. transform' = transform /\ lastPosition' = new
    BY DEF Move
  <2>2. inRegion' = FALSE /\ NormalMove(new, IF inRegion THEN Adjustment ELSE extruderAdj)
    BY DEF Move
  <2>3. peaked' = (inRegion' /\ (peaked \/ (new.e > lastPosition.e /\ new.x # lastPosition.x)))
    BY DEF Move
  <2>4. ~peaked' /\ peaked' \in BOOLEAN
    BY <2>2, <2>3
  <2> QED  BY <2>1, <2>2, <2>4
<1>2. /\ tool.x \in Int /\ tool.e \in Int /\ pressed \in Int /\ offset.e \in Int
      /\ offset.x \in Int /\ maxExtruded \in Int /\ maxExcluded \in Int
      /\ lastExcluded.x \in Int /\ lastExcluded.e \in Int /\ lastExtruded.e \in Int
      /\ initialMoves \in 0 .. InitialMoves
  BY DEF TypesInv
<1>3. initialMoves = 0 /\ ~isExcluded
  <2>1. ~(initialMoves > 0)
    BY DEF PlaceInv
  <2>2. initialMoves = 0
    BY <1>2, <2>1
  <2> QED  BY <2>2 DEF Swallowed
<1>4. peaked /\ ~arrived /\ ~drawn /\ ~Draw(new)
  BY <1>3 DEF RegionInv, Draw, CountedInv, FileInv
<1>5. offset.x > 0 /\ maxExcluded = FileExtruded
  BY <1>4 DEF PeakInv
<1>6. /\ lastExcluded = lastPosition
      /\ pressed - tool.e = maxExtruded - lastExtruded.e
  BY DEF RegionInv
<1>7. /\ new.x \in Int /\ new.e \in Int /\ lastPosition.x \in Int /\ lastPosition.e \in Int
      /\ retracted' \in {0, 1} /\ new.x >= lastPosition.x /\ new.e >= 0
      /\ FileExtruded \in Int /\ FileExtruded' \in Int
      /\ new.e <= FileExtruded'
      /\ FileExtruded = lastPosition.e + retracted
      /\ FileExtruded' = new.e + retracted'
      /\ new.x # lastPosition.x \/ new.e # lastPosition.e
      /\ FileExtruded' = FileExtruded
  BY <1>4, LineBounds
<1>8. /\ tool.e = lastPosition.e - offset.e
      /\ maxExtruded <= FileExtruded /\ maxExcluded <= FileExtruded
      /\ lastPosition.x >= 0 /\ lastPosition.e >= 0
  BY DEF PlaceInv
<1>9. retracted \in {0, 1}
  BY DEF FileLine
<1>10. Adjustment \in Int /\ Adjustment = retracted - (pressed - tool.e)
  BY <1>2, <1>5, <1>6, <1>7, <1>9 DEF Adjustment, OfExcluded
\* It brings the toolhead to where the file is, and the filament at once.
<1>11. Adjustment = 0 \/ Adjusts(new, Adjustment)
  BY <1>2, <1>5, <1>6, <1>7 DEF Adjusts, MovesAway, ExtruderMoves
<1>12. PICK off \in Position :
         /\ off.x = (IF MovesAway(new) THEN 0 ELSE offset.x) /\ off.e = offset.e + Adjustment
         /\ offset' = off
         /\ MovesTool([x |-> new.x - off.x, e |-> new.e - off.e])
  <2>1. PICK off : off = [x |-> IF MovesAway(new) THEN 0 ELSE offset.x,
                          e |-> IF Adjusts(new, Adjustment) THEN offset.e + Adjustment
                                ELSE offset.e]
    OBVIOUS
  <2>2. offset' = off /\ MovesTool([x |-> new.x - off.x, e |-> new.e - off.e])
    BY <1>1, <2>1 DEF NormalMove
  <2>3. off.e = IF Adjusts(new, Adjustment) THEN offset.e + Adjustment ELSE offset.e
    BY <2>1
  <2>4. off.x = (IF MovesAway(new) THEN 0 ELSE offset.x)
    BY <2>1
  <2>5. off.e = offset.e + Adjustment
    BY <1>2, <1>10, <1>11, <2>3
  <2>6. off \in Position
    BY <1>2, <1>10, <2>1
  <2> QED  BY <2>2, <2>4, <2>5, <2>6
<1>13. /\ initialMoves' = IF initialMoves > 0 /\ lastPosition.e # new.e
                          THEN initialMoves - 1 ELSE initialMoves
       /\ lastExtruded' = new /\ maxExtruded' = Larger(maxExtruded, new.e)
       /\ extruderAdj' = (IF Adjusts(new, Adjustment) THEN 0 ELSE Adjustment)
       /\ lastExcluded' = lastExcluded /\ maxExcluded' = maxExcluded
  BY <1>1 DEF NormalMove
<1>14. initialMoves' = 0 /\ extruderAdj' = 0
  BY <1>3, <1>11, <1>13
<1>15. PICK target \in Position : /\ target.x = new.x - off.x /\ target.e = new.e - off.e
                                  /\ MovesTool(target)
  <2>1. PICK target : target = [x |-> new.x - off.x, e |-> new.e - off.e]
    OBVIOUS
  <2> QED  BY <1>7, <1>12, <2>1
<1>16. target.e = pressed + (new.e - FileExtruded)
  BY <1>2, <1>7, <1>8, <1>9, <1>10, <1>12, <1>15
<1>17. /\ pressed' \in Int /\ printed' \in Int /\ tool' = target
       /\ pressed' = printed' /\ pressed' - tool'.e = retracted'
  <2>1. pressed - tool.e \in Int
    BY <1>2
  <2> QED  BY <1>4, <1>15, <1>16, <2>1, ToolMoved
<1>18. /\ maxExtruded' \in Int
       /\ (maxExtruded' = maxExtruded \/ maxExtruded' = new.e)
  BY <1>2, <1>7, <1>13 DEF Larger
<1>19. TypesInv'
  <2>1. ({lastPosition, lastExtruded, lastExcluded, offset, tool} \subseteq Position)'
    BY <1>1, <1>12, <1>13, <1>14, <1>15, <1>17, <1>18 DEF TypesInv
  <2>2. ({maxExtruded, maxExcluded, pressed, printed, extruderAdj} \subseteq Int)'
    BY <1>1, <1>12, <1>13, <1>14, <1>15, <1>17, <1>18 DEF TypesInv
  <2>3. (transform \in BOOLEAN /\ inRegion \in BOOLEAN /\ peaked \in BOOLEAN)'
    BY <1>1, <1>12, <1>13, <1>14, <1>15, <1>17, <1>18 DEF TypesInv
  <2>4. (initialMoves \in 0 .. InitialMoves)'
    BY <1>14, ExcludeAssumption
  <2> QED  BY <2>1, <2>2, <2>3, <2>4 DEF TypesInv
<1>20. maxExtruded' <= FileExtruded' /\ maxExcluded' <= FileExtruded'
  BY <1>7, <1>8, <1>13, <1>18
<1>21. /\ tool'.x = lastPosition'.x - offset'.x /\ tool'.e = lastPosition'.e - offset'.e
       /\ lastPosition'.x >= 0 /\ lastPosition'.e >= 0
  BY <1>1, <1>7, <1>8, <1>12, <1>15, <1>17
<1>22. \/ offset'.x = 0
       \/ ~isExcluded' /\ Here' /\ ~arrived' /\ lastPosition'.x = lastExcluded'.x
  <2>1. CASE Lead(new)
    <3>1. MovesAway(new)
      BY <2>1, <1>2, <1>5, <1>6, <1>7 DEF Lead, MovesAway
    <3> QED  BY <3>1, <1>12
  <2>2. CASE Pull(new) \/ Push(new)
    <3>1. ~arrived' /\ new.x = lastPosition.x
      BY <1>4, <2>2 DEF Pull, Push
    <3>2. lastPosition'.x = lastExcluded'.x
      BY <3>1, <1>1, <1>6, <1>13
    <3> QED  BY <3>1, <3>2, <1>3 DEF FileLine
  <2> QED  BY <1>4, <2>1, <2>2 DEF FileLine
<1>23. PlaceInv'
  <2>1. transform'
    BY <1>1
  <2>2. lastExtruded' = lastPosition'
    BY <1>1, <1>13
  <2>3. ~(initialMoves' > 0)
    BY <1>14
  <2> QED  BY <1>1, <1>14, <1>17, <1>20, <1>21, <1>22, <2>1, <2>2, <2>3 DEF PlaceInv
<1>24. RegionInv' /\ PeakInv'
  BY <1>1 DEF RegionInv, PeakInv
<1>25. CaughtInv'
  <2>1. ~isExcluded' /\ Here' /\ ~drawn'
    BY <1>3, <1>4 DEF FileLine, Lead, Pull, Push
  <2> QED  BY <1>14, <2>1 DEF CaughtInv
<1>26. ~Extrudes
  BY <1>4, OnlyDrawn
<1> QED  BY <1>19, <1>23, <1>24, <1>25, <1>26

\* A line of the file keeps the invariant and draws in place.
LEMMA MoveLine ==
  ASSUME CountedInv, MoveInv, TravelTo \/ Retract \/ Unretract \/ ExtrudeTo
  PROVE  MoveInv' /\ PrintedInPlace
<1>1. PICK new \in Position : Move(new) /\ FileLine(new)
  BY LineOfFile
<1>2. CASE ~transform
  BY <1>1, <1>2, MoveUntransformed DEF PrintedInPlace
<1>3. CASE transform /\ Swallowed
  BY <1>1, <1>3, MoveSwallowed DEF PrintedInPlace, FileLine
<1>4. CASE transform /\ ~Swallowed /\ ~inRegion
  BY <1>1, <1>4, MoveOutside DEF PrintedInPlace
<1>5. CASE transform /\ ~Swallowed /\ inRegion
  BY <1>1, <1>5, MoveLeaves DEF PrintedInPlace
<1> QED  BY <1>2, <1>3, <1>4, <1>5

\* The transform is set up when the first object is excluded.
LEMMA MoveRegister ==
  ASSUME CountedInv, MoveInv, Register,
         UNCHANGED <<fileVars, currentObject, isExcluded>>
  PROVE  MoveInv' /\ lastPosition' = lastPosition
<1> USE DEF MoveInv
<1>1. CASE transform
  BY <1>1 DEF Register, moveVars, fileVars, TypesInv, PlaceInv, RegionInv, PeakInv, CaughtInv,
              FileExtruded, Here
<1>2. CASE ~transform
  <2>1. /\ transform' = TRUE /\ offset' = Zero
        /\ maxExtruded' = 0 /\ maxExcluded' = 0 /\ extruderAdj' = 0
        /\ initialMoves' = InitialMoves
        /\ lastExtruded' = lastPosition /\ lastExcluded' = lastPosition
        /\ UNCHANGED <<inRegion, lastPosition, tool, pressed, printed, peaked, retracted>>
    BY <1>2 DEF Register, fileVars
  <2>2. /\ ~inRegion /\ offset = Zero /\ ~peaked
        /\ lastPosition.x >= 0 /\ lastPosition.e >= 0
        /\ tool.x = lastPosition.x - offset.x /\ pressed - tool.e = retracted
        /\ tool.e = lastPosition.e - offset.e /\ pressed = printed
    BY <1>2 DEF PlaceInv, PeakInv
  <2>3. FileExtruded >= 0
    BY <2>2 DEF FileExtruded, CountedInv, FileInv, TypesInv, Position
  <2>4. Zero \in Position /\ InitialMoves \in 0 .. InitialMoves
    BY ExcludeAssumption DEF Zero, Position
  <2>5. TypesInv'
    BY <2>1, <2>4 DEF TypesInv
  <2>6. FileExtruded' = FileExtruded /\ Zero.x = 0
    BY <2>1 DEF FileExtruded, Zero
  <2>7. PlaceInv'
    BY <2>1, <2>2, <2>3, <2>6 DEF PlaceInv
  <2>8. (RegionInv /\ PeakInv /\ CaughtInv)'
    BY <2>1, <2>2 DEF RegionInv, PeakInv, CaughtInv
  <2> QED  BY <2>1, <2>5, <2>7, <2>8
<1> QED  BY <1>1, <1>2

\* The other commands do not move.
LEMMA MoveCommand ==
  ASSUME CountedInv, MoveInv,
         \/ \E o \in PrintObjects : Unexclude(o) \/ ObjectStart(o)
         \/ ObjectEnd \/ NextLayer
  PROVE  MoveInv' /\ lastPosition' = lastPosition
<1>0. /\ UNCHANGED <<retracted, moveVars>>
      /\ \/ UNCHANGED <<arrived, drawn, currentObject, isExcluded>>
         \/ UNCHANGED <<arrived, drawn>> /\ ~Here
         \/ /\ Here /\ ~Here' /\ drawn /\ (inRegion => peaked) /\ ~arrived' /\ ~drawn'
  BY DEF Unexclude, ObjectStart, ObjectEnd, NextLayer, fileVars, commandVars, Here
<1>2. FileExtruded' = FileExtruded
  BY <1>0 DEF FileExtruded, moveVars
<1>3. TypesInv' /\ PeakInv'
  BY <1>0, <1>2 DEF moveVars, MoveInv, TypesInv, PeakInv
<1>4. CASE UNCHANGED <<arrived, drawn, currentObject, isExcluded>>
  BY <1>0, <1>2, <1>3, <1>4 DEF moveVars, MoveInv, PlaceInv, RegionInv, CaughtInv, Here
<1>5. CASE UNCHANGED <<arrived, drawn>> /\ ~Here
  <2>1. ~arrived'
    BY <1>5 DEF CountedInv, FileInv
  <2>2. PlaceInv'
    BY <1>0, <1>2, <1>5 DEF moveVars, MoveInv, PlaceInv
  <2> QED  BY <1>0, <1>2, <1>3, <1>5, <2>1, <2>2 DEF moveVars, MoveInv, RegionInv, CaughtInv
<1>6. CASE Here /\ drawn /\ (inRegion => peaked) /\ ~arrived'
  <2>1. arrived
    BY <1>6 DEF CountedInv, FileInv
  <2> QED  BY <1>0, <1>2, <1>3, <1>6, <2>1 DEF moveVars, MoveInv, PlaceInv, RegionInv, CaughtInv
<1> QED  BY <1>0, <1>4, <1>5, <1>6

ExcludeInv == CountedInv /\ MoveInv

\* Both invariants hold before the first line.
LEMMA ExcludeStart == ExcludeInit => ExcludeInv
<1> SUFFICES ASSUME ExcludeInit  PROVE ExcludeInv
  OBVIOUS
<1>1. CountedInv
  BY CountedStart
<1>2. TypesInv
  <2>1. Zero \in Position
    BY DEF Zero, Position
  <2>2. initialMoves \in 0 .. InitialMoves
    BY ExcludeAssumption DEF ExcludeInit
  <2>3. {lastPosition, lastExtruded, lastExcluded, offset, tool} \subseteq Position
    BY <2>1 DEF ExcludeInit
  <2>4. {maxExtruded, maxExcluded, pressed, printed, extruderAdj} \subseteq Int
    BY DEF ExcludeInit
  <2>5. transform \in BOOLEAN /\ inRegion \in BOOLEAN /\ peaked \in BOOLEAN
    BY DEF ExcludeInit
  <2> QED  BY <2>2, <2>3, <2>4, <2>5 DEF TypesInv
<1>3. FileExtruded = 0
  BY DEF ExcludeInit, FileExtruded, Zero
<1>4. PlaceInv
  BY <1>3 DEF ExcludeInit, PlaceInv, Zero
<1>5. RegionInv /\ PeakInv /\ CaughtInv
  BY DEF ExcludeInit, RegionInv, PeakInv, CaughtInv
<1> QED  BY <1>1, <1>2, <1>4, <1>5 DEF ExcludeInv, MoveInv

\* Every step keeps both, and draws in place.
LEMMA ExcludeStep ==
  ASSUME ExcludeInv, [ExcludeNext]_excludeVars
  PROVE  ExcludeInv' /\ (Extrudes => PrintedInPlace)
<1> USE DEF ExcludeInv
<1>1. CASE TravelTo \/ Retract \/ Unretract \/ ExtrudeTo
  BY <1>1, CountedMove, MoveLine
<1>2. ASSUME NEW o \in PrintObjects, Exclude(o)
      PROVE  ExcludeInv' /\ ~Extrudes
  <2>1. CountedInv'
    BY <1>2, CountedExclude
  <2>2. Register /\ UNCHANGED <<fileVars, currentObject, isExcluded>>
    BY <1>2 DEF Exclude
  <2>3. MoveInv' /\ lastPosition' = lastPosition
    BY <2>2, MoveRegister
  <2> QED  BY <2>1, <2>3 DEF Extrudes
<1>3. CASE \/ \E o \in PrintObjects : Unexclude(o) \/ ObjectStart(o)
           \/ ObjectEnd \/ NextLayer
  <2>1. CountedInv'
    BY <1>3, CountedExclude, CountedObjectStart, CountedEnd, CountedNextLayer
  <2>2. MoveInv' /\ lastPosition' = lastPosition
    BY <1>3, MoveCommand
  <2> QED  BY <2>1, <2>2 DEF Extrudes
<1>4. CASE UNCHANGED excludeVars
  <2>1. CountedInv'
    BY <1>4 DEF excludeVars, fileVars, commandVars, CountedInv, FileInv, CountInv, OverWhenDone,
                Here, Out, Ended, OfLayer
  <2>2. MoveInv' /\ lastPosition' = lastPosition
    BY <1>4 DEF excludeVars, fileVars, commandVars, moveVars, MoveInv, TypesInv, PlaceInv,
                RegionInv, PeakInv, CaughtInv, FileExtruded, Here
  <2> QED  BY <2>1, <2>2 DEF Extrudes
<1> QED  BY <1>1, <1>2, <1>3, <1>4 DEF ExcludeNext

\* Objects are excluded without a trace in the others, and the print ends when no other is
\* left (exclude_object.py:114-252).
THEOREM OthersArePrinted == ExcludeSpec => OthersPrinted
<1>1. ExcludeInv => PressureRight /\ OverWhenDone
  BY DEF ExcludeInv, CountedInv, MoveInv, PlaceInv, PressureRight
<1>2. ExcludeInv /\ [ExcludeNext]_excludeVars => ExcludeInv' /\ [PrintedInPlace]_excludeVars
  <2> SUFFICES ASSUME ExcludeInv, [ExcludeNext]_excludeVars
               PROVE  ExcludeInv' /\ PrintedInPlace
    OBVIOUS
  <2> QED  BY ExcludeStep DEF PrintedInPlace
<1>3. ExcludeSpec => []ExcludeInv
  BY ExcludeStart, <1>2, PTL DEF ExcludeSpec
<1> QED  BY <1>1, <1>2, <1>3, PTL DEF ExcludeSpec, OthersPrinted

-----------------------------------------------------------------------------
(* Look-ahead of the toolhead (LookAhead).  A traversal is a function of the *)
(* number of the move; what holds of its states is shown from the last move  *)
(* to the first (Downward).                                                  *)

QueuedMoves == [delta : Nat, smooth : Nat, cruise : Nat, junction : Nat, maxStart : Nat,
                maxSmoothed : Nat]

DelayedMoves == [move : Nat, start : Nat, end : Nat]

\* after is the states of a traversal of q.
Traversal(q, lazy, after) ==
    /\ after[Len(q) + 1] = FlushStart(Len(q), lazy)
    /\ \A i \in 1..Len(q) : after[i] = FlushStep(q, after[i + 1], i)

\* The traversal is well-defined: every state follows from the one after it.
LEMMA TraversalExists ==
  ASSUME NEW q, Len(q) \in Nat, NEW lazy
  PROVE  \E after : Traversal(q, lazy, after) /\ Flushed(q, lazy) = after[1]
<1> DEFINE n == Len(q)
           First == FlushStart(n, lazy)
           Step(s, i) == FlushStep(q, s, i)
           From(i, g) == g = [j \in i..n + 1 |-> IF j = n + 1 THEN First ELSE Step(g[j + 1], j)]
           Begun == {i \in 1..n + 1 : \E g : From(i, g)}
<1>1. n + 1 \in Begun
  <2> DEFINE g == [j \in n + 1..n + 1 |-> First]
  <2>1. From(n + 1, g)
    OBVIOUS
  <2> HIDE DEF g
  <2> QED  BY <2>1
<1>2. ASSUME NEW i \in 1..n, i + 1 \in Begun  PROVE i \in Begun
  <2>1. PICK g : From(i + 1, g)
    BY <1>2
  <2> HIDE DEF First, Step
  <2> DEFINE h == [j \in i..n + 1 |-> IF j = i THEN Step(g[i + 1], i) ELSE g[j]]
  <2>2. \A j \in i + 1..n + 1 :
           h[j] = g[j] /\ g[j] = IF j = n + 1 THEN First ELSE Step(g[j + 1], j)
    BY <2>1
  <2>3. h[i] = Step(g[i + 1], i) /\ h[i + 1] = g[i + 1]
    BY <2>2
  <2>4. ASSUME NEW j \in i..n + 1
        PROVE  h[j] = IF j = n + 1 THEN First ELSE Step(h[j + 1], j)
    <3>1. CASE j = i
      BY <2>3, <3>1
    <3>2. CASE j = n + 1
      <4>1. j \in i + 1..n + 1
        BY <3>2
      <4> QED  BY <2>2, <3>2, <4>1
    <3>3. CASE j \in i + 1..n
      <4>1. j \in i + 1..n + 1 /\ j + 1 \in i + 1..n + 1
        BY <3>3
      <4> QED  BY <2>2, <3>3, <4>1
    <3> QED  BY <3>1, <3>2, <3>3
  <2>5. From(i, h)
    BY <2>4
  <2> HIDE DEF h
  <2> QED  BY <2>5
<1>3. 1 \in Begun
  <2> HIDE DEF Begun
  <2>1. \A i \in 1..n + 1 : i \in Begun
    BY <1>1, <1>2, Downward
  <2> QED  BY <2>1
<1>4. PICK g : From(1, g)
  BY <1>3
<1> DEFINE after == CHOOSE f : f = [j \in 1..n + 1 |->
                                      IF j = n + 1 THEN First ELSE Step(f[j + 1], j)]
<1>5. after = [j \in 1..n + 1 |-> IF j = n + 1 THEN First ELSE Step(after[j + 1], j)]
  <2> HIDE DEF First, Step
  <2> QED  BY <1>4
<1>6. Flushed(q, lazy) = after[1]
  BY DEF Flushed
<1>7. Traversal(q, lazy, after)
  <2> HIDE DEF after
  <2>1. \A j \in 1..n + 1 : after[j] = IF j = n + 1 THEN First ELSE Step(after[j + 1], j)
    BY <1>5
  <2> QED  BY <2>1 DEF Traversal
<1> HIDE DEF after
<1> QED  BY <1>6, <1>7

LEMMA MinOfFacts ==
  ASSUME NEW a \in Nat, NEW b \in Nat
  PROVE  /\ MinOf(a, b) \in Nat /\ MinOf(a, b) <= a /\ MinOf(a, b) <= b
         /\ MinOf(a, b) = a \/ MinOf(a, b) = b
BY DEF MinOf

\* A queue as add_move leaves it.
Chained(q) ==
    /\ q \in Seq(QueuedMoves)
    /\ \A i \in 1..Len(q) :
          /\ q[i].smooth > 0 /\ q[i].smooth <= q[i].delta
          /\ q[i].maxStart <= q[i].cruise /\ q[i].maxStart <= q[i].junction
          /\ q[i].maxSmoothed <= q[i].maxStart
    /\ \A i \in 1..Len(q) - 1 :
          /\ q[i + 1].maxStart <= q[i].cruise
          /\ q[i + 1].maxStart <= q[i].maxStart + q[i].delta
          /\ q[i + 1].maxSmoothed = MinOf(q[i + 1].maxStart, q[i].maxSmoothed + q[i].smooth)

LEMMA ChainedMove ==
  ASSUME NEW q, Chained(q), NEW i \in 1..Len(q)
  PROVE  /\ q[i] \in QueuedMoves /\ Len(q) \in Nat
         /\ q[i].delta \in Nat /\ q[i].smooth \in Nat /\ q[i].cruise \in Nat
         /\ q[i].junction \in Nat /\ q[i].maxStart \in Nat /\ q[i].maxSmoothed \in Nat
         /\ q[i].smooth > 0 /\ q[i].smooth <= q[i].delta
         /\ q[i].maxStart <= q[i].cruise /\ q[i].maxStart <= q[i].junction
         /\ q[i].maxSmoothed <= q[i].maxStart
<1>1. q[i] \in QueuedMoves /\ Len(q) \in Nat
  BY DEF Chained
<1> QED  BY <1>1 DEF Chained, QueuedMoves

\* The speeds of a state are those of a queue from some move on.
SpeedsOK(s) ==
    /\ s.end \in Nat /\ s.smoothed \in Nat /\ s.peak \in Nat
    /\ s.smoothed <= s.end

\* How a move is seen: it can accelerate, and is not the end of a deceleration.
Accelerates(q, s, i) == q[i].maxSmoothed < s.smoothed + q[i].smooth

Turns(q, s, i) ==
    /\ Accelerates(q, s, i)
    /\ q[i].maxSmoothed + q[i].smooth > s.smoothed \/ s.delayed # << >>

PeakOf(q, s, i) ==
    MinOf(q[i].cruise, (q[i].maxSmoothed + (s.smoothed + q[i].smooth)) \div 2)

Found(q, s, i) == Turns(q, s, i) /\ s.updating /\ s.peak > 0

LEMMA StepSpeeds ==
  ASSUME NEW q, Chained(q), NEW i \in 1..Len(q), NEW s, SpeedsOK(s)
  PROVE  LET t == FlushStep(q, s, i)
         IN  /\ SpeedsOK(t)
             /\ t.end = MinOf(q[i].maxStart, s.end + q[i].delta)
             /\ t.smoothed = MinOf(q[i].maxSmoothed, s.smoothed + q[i].smooth)
             /\ t.peak = IF Turns(q, s, i) THEN PeakOf(q, s, i) ELSE s.peak
             /\ t.end <= q[i].maxStart /\ t.end <= s.end + q[i].delta
             /\ t.smoothed <= q[i].maxSmoothed
             /\ Accelerates(q, s, i) => t.smoothed = q[i].maxSmoothed
             /\ ~Accelerates(q, s, i) => t.smoothed = s.smoothed + q[i].smooth
<1> DEFINE t == FlushStep(q, s, i)
<1>1. /\ q[i].delta \in Nat /\ q[i].smooth \in Nat /\ q[i].cruise \in Nat
      /\ q[i].maxStart \in Nat /\ q[i].maxSmoothed \in Nat
      /\ q[i].smooth <= q[i].delta /\ q[i].maxSmoothed <= q[i].maxStart
  BY ChainedMove
<1>2. s.end \in Nat /\ s.smoothed \in Nat /\ s.peak \in Nat /\ s.smoothed <= s.end
  BY DEF SpeedsOK
<1>3. /\ t.end = MinOf(q[i].maxStart, s.end + q[i].delta)
      /\ t.smoothed = MinOf(q[i].maxSmoothed, s.smoothed + q[i].smooth)
  BY DEF FlushStep
<1>4. /\ (t.smoothed < s.smoothed + q[i].smooth) <=> Accelerates(q, s, i)
      /\ Accelerates(q, s, i) => t.smoothed = q[i].maxSmoothed
      /\ ~Accelerates(q, s, i) => t.smoothed = s.smoothed + q[i].smooth
  BY <1>1, <1>2, <1>3 DEF MinOf, Accelerates
<1>5. t.peak = IF Turns(q, s, i) THEN PeakOf(q, s, i) ELSE s.peak
  <2>1. t.peak = IF /\ t.smoothed < s.smoothed + q[i].smooth
                    /\ t.smoothed + q[i].smooth > s.smoothed \/ s.delayed # << >>
                 THEN MinOf(q[i].cruise, (t.smoothed + (s.smoothed + q[i].smooth)) \div 2)
                 ELSE s.peak
    BY DEF FlushStep
  <2> HIDE DEF t
  <2>2. CASE Accelerates(q, s, i)
    BY <1>4, <2>1, <2>2 DEF Turns, PeakOf
  <2>3. CASE ~Accelerates(q, s, i)
    BY <1>4, <2>1, <2>3 DEF Turns
  <2> QED  BY <2>2, <2>3
<1>6. t.peak \in Nat
  <2>1. PICK x \in Nat : x = q[i].maxSmoothed + (s.smoothed + q[i].smooth)
    BY <1>1, <1>2
  <2>2. x \div 2 \in Nat
    OBVIOUS
  <2>3. PeakOf(q, s, i) \in Nat
    BY <1>1, <2>1, <2>2, MinOfFacts DEF PeakOf
  <2> HIDE DEF t
  <2> QED  BY <1>2, <1>5, <2>3
<1>7. /\ t.end \in Nat /\ t.smoothed \in Nat /\ t.smoothed <= t.end
      /\ t.end <= q[i].maxStart /\ t.end <= s.end + q[i].delta
      /\ t.smoothed <= q[i].maxSmoothed
  <2> HIDE DEF t
  <2>1. PICK d \in Nat, m \in Nat, b \in Nat, c \in Nat, e \in Nat, g \in Nat :
           /\ d = q[i].delta /\ m = q[i].smooth /\ b = q[i].maxStart /\ c = q[i].maxSmoothed
           /\ e = s.end /\ g = s.smoothed /\ m <= d /\ c <= b /\ g <= e
    BY <1>1, <1>2
  <2>2. t.end = MinOf(b, e + d) /\ t.smoothed = MinOf(c, g + m)
    BY <1>3, <2>1
  <2>3. /\ MinOf(b, e + d) \in Nat /\ MinOf(c, g + m) \in Nat
        /\ MinOf(c, g + m) <= MinOf(b, e + d)
        /\ MinOf(b, e + d) <= b /\ MinOf(b, e + d) <= e + d /\ MinOf(c, g + m) <= c
    <3>1. m <= d /\ c <= b /\ g <= e
      BY <2>1
    <3> QED  BY <3>1 DEF MinOf
  <2> QED  BY <2>1, <2>2, <2>3
<1> QED  BY <1>3, <1>4, <1>5, <1>6, <1>7 DEF SpeedsOK

CruiseOf(q, s, t, i) ==
    MinOf((t.end + (s.end + q[i].delta)) \div 2, MinOf(q[i].cruise, t.peak))

JunctionOf(q, s, t, i) ==
    <<MinOf(t.end, CruiseOf(q, s, t, i)), CruiseOf(q, s, t, i),
      MinOf(s.end, CruiseOf(q, s, t, i))>>

\* The moves whose speeds are decided now.
Flushes(t, i) == ~t.updating /\ i <= t.count

PlanBefore(q, s, t, i) ==
    IF Turns(q, s, i) /\ Flushes(t, i) THEN WithDelayed(s.plan, s.delayed, t.peak) ELSE s.plan

PlanAfter(q, s, t, i) ==
    IF Accelerates(q, s, i) /\ Flushes(t, i)
    THEN [PlanBefore(q, s, t, i) EXCEPT ![i] = JunctionOf(q, s, t, i)]
    ELSE PlanBefore(q, s, t, i)

LEMMA StepControl ==
  ASSUME NEW q, Chained(q), NEW i \in 1..Len(q), NEW s, SpeedsOK(s),
         NEW t, t = FlushStep(q, s, i)
  PROVE  /\ t.delayed = IF ~Accelerates(q, s, i)
                         THEN Append(s.delayed, Delayed(i, t.end, s.end))
                         ELSE IF Turns(q, s, i) THEN << >> ELSE s.delayed
         /\ t.count = IF Found(q, s, i) THEN i - 1 ELSE s.count
         /\ t.updating = (s.updating /\ ~Found(q, s, i))
         /\ t.plan = PlanAfter(q, s, t, i)
<1> DEFINE A == t.smoothed < s.smoothed + q[i].smooth
           T == A /\ (t.smoothed + q[i].smooth > s.smoothed \/ s.delayed # << >>)
           D == T /\ s.updating /\ s.peak > 0
           L == ~t.updating /\ i <= t.count
           p == IF T /\ L THEN WithDelayed(s.plan, s.delayed, t.peak) ELSE s.plan
           c == MinOf((t.end + (s.end + q[i].delta)) \div 2, MinOf(q[i].cruise, t.peak))
<1>1. /\ t.delayed = IF ~A THEN Append(s.delayed, Delayed(i, t.end, s.end))
                      ELSE IF T THEN << >> ELSE s.delayed
      /\ t.count = IF D THEN i - 1 ELSE s.count
      /\ t.updating = (s.updating /\ ~D)
  BY DEF FlushStep, Settled
<1>2. t.plan = IF A /\ L THEN [p EXCEPT ![i] = <<MinOf(t.end, c), c, MinOf(s.end, c)>>]
               ELSE p
  BY DEF FlushStep
<1>3. /\ t.smoothed = MinOf(q[i].maxSmoothed, s.smoothed + q[i].smooth)
      /\ Accelerates(q, s, i) => t.smoothed = q[i].maxSmoothed
      /\ ~Accelerates(q, s, i) => t.smoothed = s.smoothed + q[i].smooth
  BY StepSpeeds
<1>4. q[i].smooth \in Nat /\ q[i].maxSmoothed \in Nat /\ s.smoothed \in Nat
  BY ChainedMove DEF SpeedsOK
<1>5. A <=> Accelerates(q, s, i)
  BY <1>3, <1>4 DEF Accelerates
<1>6. T <=> Turns(q, s, i)
  <2>1. CASE Accelerates(q, s, i)
    BY <1>3, <1>5, <2>1 DEF Turns
  <2>2. CASE ~Accelerates(q, s, i)
    BY <1>5, <2>2 DEF Turns
  <2> QED  BY <2>1, <2>2
<1>7. (D <=> Found(q, s, i)) /\ (L <=> Flushes(t, i)) /\ c = CruiseOf(q, s, t, i)
  BY <1>6 DEF Found, Flushes, CruiseOf
<1>8. /\ t.delayed = IF ~Accelerates(q, s, i)
                      THEN Append(s.delayed, Delayed(i, t.end, s.end))
                      ELSE IF Turns(q, s, i) THEN << >> ELSE s.delayed
      /\ t.count = IF Found(q, s, i) THEN i - 1 ELSE s.count
      /\ t.updating = (s.updating /\ ~Found(q, s, i))
  <2> HIDE DEF A, T, D
  <2> QED  BY <1>1, <1>5, <1>6, <1>7
<1>9. t.plan = PlanAfter(q, s, t, i)
  <2>1. p = PlanBefore(q, s, t, i)
    <3> HIDE DEF T, L
    <3> QED  BY <1>6, <1>7 DEF PlanBefore
  <2>2. t.plan = IF Accelerates(q, s, i) /\ Flushes(t, i)
                 THEN [p EXCEPT ![i] = JunctionOf(q, s, t, i)] ELSE p
    <3> HIDE DEF A, L, p, c
    <3> QED  BY <1>2, <1>5, <1>7 DEF JunctionOf
  <2> HIDE DEF p
  <2> QED  BY <2>1, <2>2 DEF PlanAfter
<1> QED  BY <1>8, <1>9

\* The speeds v are possible in the move m.
Possible(m, v) ==
    /\ v \in Seq(Nat) /\ Len(v) = 3
    /\ v[1] <= v[2] /\ v[3] <= v[2] /\ v[2] <= m.cruise /\ v[1] <= m.junction
    /\ (v[2] - v[1]) + (v[2] - v[3]) <= m.delta

LEMMA StepPlan ==
  ASSUME NEW q, Chained(q), NEW i \in 1..Len(q), NEW s, SpeedsOK(s),
         NEW t, t = FlushStep(q, s, i)
  PROVE  t.plan = PlanAfter(q, s, t, i)
BY StepControl

LEMMA TripleFacts ==
  ASSUME NEW a \in Nat, NEW b \in Nat, NEW c \in Nat
  PROVE  /\ <<a, b, c>> \in Seq(Nat) /\ Len(<<a, b, c>>) = 3 /\ <<a, b, c>> # << >>
         /\ <<a, b, c>>[1] = a /\ <<a, b, c>>[2] = b /\ <<a, b, c>>[3] = c
OBVIOUS

LEMMA TriplePossible ==
  ASSUME NEW m, NEW a \in Nat, NEW b \in Nat, NEW c \in Nat,
         a <= b, c <= b, b <= m.cruise, a <= m.junction, (b - a) + (b - c) <= m.delta
  PROVE  Possible(m, <<a, b, c>>)
<1>1. PICK v \in Seq(Nat) : v = <<a, b, c>>
  BY TripleFacts
<1>3. Len(v) = 3 /\ v[1] = a /\ v[2] = b /\ v[3] = c
  BY <1>1
<1>2. Possible(m, v)
  BY <1>3 DEF Possible
<1> QED  BY <1>1, <1>2

\* A move that decelerates all along.
LEMMA HeldPossible ==
  ASSUME NEW m \in QueuedMoves, NEW b \in Nat, NEW c \in Nat, NEW e \in Nat,
         c <= b, b <= m.maxStart, m.maxStart <= m.cruise, m.maxStart <= m.junction,
         b <= e + m.delta
  PROVE  Possible(m, <<MinOf(b, c), c, MinOf(e, c)>>)
<1>1. PICK d \in Nat, r \in Nat, j \in Nat, x \in Nat :
         d = m.delta /\ r = m.cruise /\ j = m.junction /\ x = m.maxStart
  BY DEF QueuedMoves
<1>2. b <= x /\ x <= r /\ x <= j /\ b <= e + d
  BY <1>1
<1>3. MinOf(b, c) = c
  BY DEF MinOf
<1>4. PICK f \in Nat : f = MinOf(e, c) /\ f <= c /\ (f = e \/ f = c)
  BY MinOfFacts
<1>5. c <= r /\ c <= j /\ (c - c) + (c - f) <= d
  BY <1>2, <1>4
<1>6. Possible(m, <<c, c, f>>)
  <2>1. c <= c /\ f <= c /\ c <= m.cruise /\ c <= m.junction /\ (c - c) + (c - f) <= m.delta
    BY <1>1, <1>4, <1>5
  <2> QED  BY <2>1, TriplePossible
<1> QED  BY <1>3, <1>4, <1>6

\* A move that accelerates: b and e are the most its ends can be.
LEMMA JunctionFacts ==
  ASSUME NEW m \in QueuedMoves, NEW b \in Nat, NEW e \in Nat, NEW p \in Nat, NEW c,
         c = MinOf((b + (e + m.delta)) \div 2, MinOf(m.cruise, p)),
         b <= m.maxStart, m.maxStart <= m.cruise, m.maxStart <= m.junction, b <= e + m.delta,
         e <= b + m.delta
  PROVE  /\ c \in Nat /\ c <= p
         /\ Possible(m, <<MinOf(b, c), c, MinOf(e, c)>>)
         /\ MinOf(b, c) = MinOf(b, p)
         /\ e <= m.cruise => MinOf(e, c) = MinOf(e, p)
<1>1. PICK d \in Nat, r \in Nat, j \in Nat, x \in Nat :
         d = m.delta /\ r = m.cruise /\ j = m.junction /\ x = m.maxStart
  BY DEF QueuedMoves
<1>2. b <= x /\ x <= r /\ x <= j /\ b <= e + d /\ e <= b + d
  BY <1>1
<1>3. PICK h \in Nat : h = (b + (e + d)) \div 2 /\ 2 * h <= b + (e + d) /\ b + (e + d) <= 2 * h + 1
  <2>1. PICK y \in Nat : y = b + (e + d)
    OBVIOUS
  <2>2. y \div 2 \in Nat /\ 2 * (y \div 2) <= y /\ y <= 2 * (y \div 2) + 1
    OBVIOUS
  <2> QED  BY <2>1, <2>2
<1>4. c = MinOf(h, MinOf(r, p))
  BY <1>1, <1>3
<1>5. /\ c \in Nat /\ c <= h /\ c <= r /\ c <= p /\ (c = h \/ c = r \/ c = p)
  BY <1>4 DEF MinOf
<1>6. h >= b /\ h >= e
  BY <1>2, <1>3
<1>7. PICK f \in Nat : f = MinOf(b, c) /\ f <= b /\ f <= c /\ (f = b \/ f = c)
  <2>1. c \in Nat
    BY <1>5
  <2> QED  BY <2>1 DEF MinOf
<1>12. PICK g \in Nat : g = MinOf(e, c) /\ g <= e /\ g <= c /\ (g = e \/ g = c)
  <2>1. c \in Nat
    BY <1>5
  <2> QED  BY <2>1 DEF MinOf
<1>8. f <= j /\ (c - f) + (c - g) <= d
  <2>1. f <= j /\ f <= c /\ g <= c /\ c <= h
    BY <1>2, <1>5, <1>7, <1>12
  <2>2. CASE f = b /\ g = e
    BY <1>3, <1>5, <2>1, <2>2
  <2>3. CASE f = c /\ g = e
    BY <1>2, <1>5, <1>7, <2>1, <2>3
  <2>4. CASE f = b /\ g = c
    BY <1>2, <1>5, <1>12, <2>1, <2>4
  <2>5. CASE f = c /\ g = c
    BY <1>5, <2>1, <2>5
  <2> QED  BY <1>7, <1>12, <2>2, <2>3, <2>4, <2>5, <2>1
<1>9. Possible(m, <<f, c, g>>)
  <2>1. f <= c /\ g <= c /\ c <= m.cruise /\ f <= m.junction /\ (c - f) + (c - g) <= m.delta
    BY <1>1, <1>5, <1>7, <1>8, <1>12
  <2> QED  BY <1>5, <2>1, TriplePossible
<1>10. MinOf(b, c) = MinOf(b, p)
  BY <1>2, <1>5, <1>6 DEF MinOf
<1>11. e <= r => MinOf(e, c) = MinOf(e, p)
  BY <1>5, <1>6 DEF MinOf
<1> QED  BY <1>1, <1>5, <1>7, <1>9, <1>10, <1>11, <1>12

\* mc_v2 of a delayed move is the least of the peak and the starts before it.
LEMMA CarriedFacts ==
  ASSUME NEW delayed \in Seq(DelayedMoves), NEW k \in 1..Len(delayed), NEW peak \in Nat
  PROVE  /\ Carried(delayed, k, peak) \in Nat /\ Carried(delayed, k, peak) <= peak
         /\ \A j \in k..Len(delayed) : Carried(delayed, k, peak) <= delayed[j].start
         /\ \/ Carried(delayed, k, peak) = peak
            \/ \E j \in k..Len(delayed) : Carried(delayed, k, peak) = delayed[j].start
<1> DEFINE T == {peak} \cup {delayed[j].start : j \in k..Len(delayed)}
<1>1. \A j \in k..Len(delayed) : delayed[j].start \in Nat
  <2> TAKE j \in k..Len(delayed)
  <2>1. delayed[j] \in DelayedMoves
    OBVIOUS
  <2> QED  BY <2>1 DEF DelayedMoves
<1>2. T \subseteq Nat /\ peak \in T
  BY <1>1
<1>3. \E x \in T : \A y \in T : x <= y
  <2> HIDE DEF T
  <2> QED  BY <1>2, LeastNat
<1>4. PICK c \in T : c = Carried(delayed, k, peak) /\ \A y \in T : c <= y
  <2>1. Carried(delayed, k, peak) = CHOOSE x \in T : \A y \in T : x <= y
    BY DEF Carried, Min
  <2> HIDE DEF T
  <2> QED  BY <1>3, <2>1
<1>5. c \in Nat
  BY <1>2
<1> QED  BY <1>4, <1>5

\* The moves that are delayed are those from i on: each is left at the speed at
\* which the one after it starts, none below what is known of the last one's end.
RunFrom(q, delayed, i) ==
    /\ delayed \in Seq(DelayedMoves) /\ i + Len(delayed) - 1 <= Len(q)
    /\ \A k \in 1..Len(delayed) :
          /\ delayed[k].move = i + Len(delayed) - k
          /\ delayed[k].start <= q[i + Len(delayed) - k].maxStart
          /\ delayed[k].start <= delayed[k].end + q[i + Len(delayed) - k].delta
          /\ delayed[1].end <= delayed[k].start
    /\ \A k \in 2..Len(delayed) : delayed[k].end = delayed[k - 1].start

LEMMA RunElement ==
  ASSUME NEW q, Chained(q), NEW i \in 1..Len(q) + 1, NEW delayed, RunFrom(q, delayed, i),
         NEW k \in 1..Len(delayed)
  PROVE  /\ delayed[k] \in DelayedMoves /\ delayed[k].start \in Nat /\ delayed[k].end \in Nat
         /\ Len(delayed) \in Nat /\ i + Len(delayed) - k \in i..i + Len(delayed) - 1
         /\ i + Len(delayed) - k \in 1..Len(q)
<1>1. delayed[k] \in DelayedMoves /\ Len(delayed) \in Nat /\ Len(q) \in Nat
  BY DEF RunFrom, Chained
<1>2. i + Len(delayed) - 1 <= Len(q)
  BY DEF RunFrom
<1>3. /\ i + Len(delayed) - k \in i..i + Len(delayed) - 1
      /\ i + Len(delayed) - k \in 1..Len(q)
  BY <1>1, <1>2
<1> QED  BY <1>1, <1>3 DEF DelayedMoves

\* The speeds of the k-th delayed move.
HeldJunction(delayed, k, peak) ==
    <<MinOf(delayed[k].start, Carried(delayed, k, peak)), Carried(delayed, k, peak),
      MinOf(delayed[k].end, Carried(delayed, k, peak))>>

LEMMA DelayedPlace ==
  ASSUME NEW q, Chained(q), NEW i \in 1..Len(q) + 1, NEW delayed, RunFrom(q, delayed, i),
         NEW peak, NEW plan, DOMAIN plan = 1..Len(q)
  PROVE  /\ DOMAIN WithDelayed(plan, delayed, peak) = 1..Len(q)
         /\ \A j \in 1..Len(q) : j \notin i..i + Len(delayed) - 1
                                 => WithDelayed(plan, delayed, peak)[j] = plan[j]
         /\ \A k \in 1..Len(delayed) :
               WithDelayed(plan, delayed, peak)[i + Len(delayed) - k]
                   = HeldJunction(delayed, k, peak)
<1> DEFINE r == Len(delayed)
           u == WithDelayed(plan, delayed, peak)
<1>1. r \in Nat /\ DOMAIN delayed = 1..r /\ Len(q) \in Nat
  BY DEF RunFrom, Chained
<1>2. \A k \in 1..r : delayed[k].move = i + r - k
  BY DEF RunFrom
<1>3. DOMAIN u = 1..Len(q)
  BY DEF WithDelayed
<1>4. ASSUME NEW j \in 1..Len(q), j \notin i..i + r - 1  PROVE u[j] = plan[j]
  <2>1. ~\E k \in DOMAIN delayed : delayed[k].move = j
    <3> SUFFICES ASSUME NEW k \in DOMAIN delayed, delayed[k].move = j  PROVE FALSE
      OBVIOUS
    <3>1. k \in 1..r
      BY <1>1
    <3>2. i + r - k \in i..i + r - 1
      BY <3>1, RunElement
    <3> QED  BY <1>2, <1>4, <3>1, <3>2
  <2> QED  BY <2>1 DEF WithDelayed
<1>5. ASSUME NEW k \in 1..r  PROVE u[i + r - k] = HeldJunction(delayed, k, peak)
  <2>1. i + r - k \in 1..Len(q)
    BY RunElement
  <2>2. PICK j \in 1..Len(q) : j = i + r - k
    BY <2>1
  <2>3. \A l \in DOMAIN delayed : delayed[l].move = j <=> l = k
    <3> TAKE l \in DOMAIN delayed
    <3>1. l \in 1..r /\ delayed[l].move = i + r - l
      BY <1>1, <1>2
    <3> QED  BY <1>1, <2>2, <3>1
  <2>4. k \in DOMAIN delayed
    BY <1>1
  <2>5. (CHOOSE l \in DOMAIN delayed : delayed[l].move = j) = k
    BY <2>3, <2>4
  <2>6. \E l \in DOMAIN delayed : delayed[l].move = j
    BY <2>3, <2>4
  <2>7. u[j] = HeldJunction(delayed, k, peak)
    BY <2>5, <2>6 DEF WithDelayed, HeldJunction
  <2> QED  BY <2>2, <2>7
<1> QED  BY <1>3, <1>4, <1>5

LEMMA HeldFacts ==
  ASSUME NEW q, Chained(q), NEW i \in 1..Len(q) + 1, NEW delayed, RunFrom(q, delayed, i),
         NEW peak \in Nat, NEW k \in 1..Len(delayed)
  PROVE  LET c == Carried(delayed, k, peak)
             v == HeldJunction(delayed, k, peak)
         IN  /\ c \in Nat /\ Possible(q[i + Len(delayed) - k], v)
             /\ v \in Seq(Nat) /\ v[1] = c /\ v[3] = MinOf(delayed[k].end, c)
<1> DEFINE j == i + Len(delayed) - k
<1>1. /\ delayed[k].start \in Nat /\ delayed[k].end \in Nat /\ j \in 1..Len(q)
      /\ Len(delayed) \in Nat
  BY RunElement
<1>2. PICK c \in Nat : c = Carried(delayed, k, peak) /\ c <= delayed[k].start
  <2>1. k \in k..Len(delayed)
    BY <1>1
  <2>2. delayed \in Seq(DelayedMoves)
    BY DEF RunFrom
  <2> QED  BY <2>1, <2>2, CarriedFacts
<1>3. PICK b \in Nat, e \in Nat : b = delayed[k].start /\ e = delayed[k].end
  BY <1>1
<1>4. PICK m \in QueuedMoves : m = q[j]
  BY <1>1, ChainedMove
<1>5. /\ m.maxStart <= m.cruise /\ m.maxStart <= m.junction
  BY <1>1, <1>4, ChainedMove
<1>6. b <= m.maxStart /\ b <= e + m.delta
  BY <1>3, <1>4 DEF RunFrom
<1>7. c <= b
  BY <1>2, <1>3
<1>8. Possible(m, <<MinOf(b, c), c, MinOf(e, c)>>)
  BY <1>5, <1>6, <1>7, HeldPossible
<1>9. MinOf(b, c) = c
  BY <1>7 DEF MinOf
<1>10. PICK f \in Nat : f = MinOf(e, c)
  BY MinOfFacts
<1>11. HeldJunction(delayed, k, peak) = <<c, c, f>>
  BY <1>2, <1>3, <1>9, <1>10 DEF HeldJunction
<1>12. <<c, c, f>> \in Seq(Nat) /\ <<c, c, f>>[1] = c /\ <<c, c, f>>[3] = f
  BY TripleFacts
<1>13. Possible(q[j], <<c, c, f>>)
  BY <1>4, <1>8, <1>9, <1>10
<1> QED  BY <1>2, <1>3, <1>10, <1>11, <1>12, <1>13

\* What follows from the least of a set: one more element lowers it or not.
LEMMA CarriedOn ==
  ASSUME NEW delayed \in Seq(DelayedMoves), NEW peak \in Nat
  PROVE  /\ \A k \in 1..Len(delayed) - 1 :
               Carried(delayed, k, peak) = MinOf(delayed[k].start, Carried(delayed, k + 1, peak))
         /\ Len(delayed) > 0 => Carried(delayed, Len(delayed), peak)
                                  = MinOf(delayed[Len(delayed)].start, peak)
<1> DEFINE r == Len(delayed)
           C(k) == Carried(delayed, k, peak)
<1>1. r \in Nat
  OBVIOUS
<1>2. \A k \in 1..r : delayed[k].start \in Nat
  <2> TAKE k \in 1..r
  <2>1. delayed[k] \in DelayedMoves
    OBVIOUS
  <2> QED  BY <2>1 DEF DelayedMoves
<1>3. ASSUME NEW k \in 1..r
      PROVE  /\ C(k) \in Nat /\ C(k) <= peak /\ \A j \in k..r : C(k) <= delayed[j].start
             /\ C(k) = peak \/ \E j \in k..r : C(k) = delayed[j].start
  BY CarriedFacts
<1> HIDE DEF C
<1>4. ASSUME NEW k \in 1..r - 1  PROVE C(k) = MinOf(delayed[k].start, C(k + 1))
  <2>1. k \in 1..r /\ k + 1 \in 1..r /\ k \in k..r
    BY <1>1
  <2>2. C(k) <= C(k + 1)
    <3>1. CASE C(k + 1) = peak
      BY <1>3, <2>1, <3>1
    <3>2. CASE \E j \in k + 1..r : C(k + 1) = delayed[j].start
      <4>1. PICK j \in k + 1..r : C(k + 1) = delayed[j].start
        BY <3>2
      <4>2. j \in k..r
        BY <1>1
      <4> QED  BY <1>3, <2>1, <4>1, <4>2
    <3> QED  BY <1>3, <2>1, <3>1, <3>2
  <2>3. C(k) <= delayed[k].start
    BY <1>3, <2>1
  <2>4. C(k) = delayed[k].start \/ C(k) >= C(k + 1)
    <3>1. CASE C(k) = peak
      BY <1>3, <2>1, <3>1
    <3>2. CASE \E j \in k..r : C(k) = delayed[j].start
      <4>1. PICK j \in k..r : C(k) = delayed[j].start
        BY <3>2
      <4>2. CASE j = k
        BY <4>1, <4>2
      <4>3. CASE j # k
        <5>1. j \in k + 1..r
          BY <1>1, <4>3
        <5> QED  BY <1>3, <2>1, <4>1, <5>1
      <4> QED  BY <4>2, <4>3
    <3> QED  BY <1>3, <2>1, <3>1, <3>2
  <2>5. C(k) \in Nat /\ C(k + 1) \in Nat /\ delayed[k].start \in Nat
    BY <1>2, <1>3, <2>1
  <2> QED  BY <2>2, <2>3, <2>4, <2>5 DEF MinOf
<1>5. r > 0 => C(r) = MinOf(delayed[r].start, peak)
  <2> SUFFICES ASSUME r > 0  PROVE C(r) = MinOf(delayed[r].start, peak)
    OBVIOUS
  <2>1. r \in 1..r /\ r \in r..r /\ \A j \in r..r : j = r
    BY <1>1
  <2>2. /\ C(r) \in Nat /\ C(r) <= peak /\ C(r) <= delayed[r].start
        /\ C(r) = peak \/ C(r) = delayed[r].start
    BY <1>3, <2>1
  <2>3. delayed[r].start \in Nat
    BY <1>2, <2>1
  <2> QED  BY <2>2, <2>3 DEF MinOf
<1> QED  BY <1>4, <1>5 DEF C

\* The speeds of delayed moves fit together, start with the peak and end with
\* what was known of the last one's end.
DelayedPlanned(q, delayed, i, peak, plan, u) ==
    LET r == Len(delayed)
    IN  /\ u \in [1..Len(q) -> Seq(Nat)]
        /\ \A j \in 1..Len(q) : j \notin i..i + r - 1 => u[j] = plan[j]
        /\ \A j \in i..i + r - 1 : Possible(q[j], u[j])
        /\ \A j \in i..i + r - 2 : u[j][3] = u[j + 1][1]
        /\ r > 0 => /\ u[i][1] = MinOf(delayed[r].start, peak)
                    /\ u[i + r - 1][3] = delayed[1].end

\* No delayed move ends with more than the peak.
EndsBelow(delayed, peak) == Len(delayed) > 0 => delayed[1].end <= peak

LEMMA DelayedPlan ==
  ASSUME NEW q, Chained(q), NEW i \in 1..Len(q) + 1, NEW delayed, RunFrom(q, delayed, i),
         NEW peak \in Nat, NEW plan \in [1..Len(q) -> Seq(Nat)],
         EndsBelow(delayed, peak)
  PROVE  DelayedPlanned(q, delayed, i, peak, plan, WithDelayed(plan, delayed, peak))
<1> DEFINE r == Len(delayed)
           u == WithDelayed(plan, delayed, peak)
           C(k) == Carried(delayed, k, peak)
           V(k) == HeldJunction(delayed, k, peak)
<1>1. r \in Nat /\ Len(q) \in Nat /\ delayed \in Seq(DelayedMoves) /\ i + r - 1 <= Len(q)
  BY DEF RunFrom, Chained
<1>0. DOMAIN plan = 1..Len(q)
  OBVIOUS
<1>2. /\ DOMAIN u = 1..Len(q)
      /\ \A j \in 1..Len(q) : j \notin i..i + r - 1 => u[j] = plan[j]
      /\ \A k \in 1..r : u[i + r - k] = V(k)
  BY <1>0, DelayedPlace
<1>3. \A k \in 1..r : /\ C(k) \in Nat /\ Possible(q[i + r - k], V(k)) /\ V(k) \in Seq(Nat)
                       /\ V(k)[1] = C(k) /\ V(k)[3] = MinOf(delayed[k].end, C(k))
  BY HeldFacts
<1>4. /\ \A k \in 1..r - 1 : C(k) = MinOf(delayed[k].start, C(k + 1))
      /\ r > 0 => C(r) = MinOf(delayed[r].start, peak)
  BY <1>1, CarriedOn
<1>5. u = [j \in 1..Len(q) |-> u[j]]
  BY DEF WithDelayed
<1>6. \A j \in i..i + r - 1 :
         /\ i + r - j \in 1..r /\ i + r - (i + r - j) = j /\ j \in 1..Len(q)
  BY <1>1
<1> HIDE DEF u, C, V
<1>7. \A j \in i..i + r - 1 : u[j] = V(i + r - j)
  <2> TAKE j \in i..i + r - 1
  <2>1. PICK k \in 1..r : k = i + r - j /\ i + r - k = j
    BY <1>6
  <2> QED  BY <1>2, <2>1
<1>8. u \in [1..Len(q) -> Seq(Nat)]
  <2>1. \A j \in 1..Len(q) : u[j] \in Seq(Nat)
    <3> TAKE j \in 1..Len(q)
    <3>1. CASE j \in i..i + r - 1
      BY <1>3, <1>6, <1>7, <3>1
    <3>2. CASE j \notin i..i + r - 1
      BY <1>2, <3>2
    <3> QED  BY <3>1, <3>2
  <2> QED  BY <1>5, <2>1
<1>9. \A j \in i..i + r - 1 : Possible(q[j], u[j])
  <2> TAKE j \in i..i + r - 1
  <2>1. PICK k \in 1..r : k = i + r - j /\ i + r - k = j
    BY <1>6
  <2> QED  BY <1>2, <1>3, <2>1
<1>10. \A j \in i..i + r - 2 : u[j][3] = u[j + 1][1]
  <2> TAKE j \in i..i + r - 2
  <2>1. PICK k \in 1..r : k = i + r - j /\ i + r - k = j
    <3>1. j \in i..i + r - 1
      BY <1>1
    <3> QED  BY <1>6, <3>1
  <2>2. k - 1 \in 1..r - 1 /\ k - 1 \in 1..r /\ i + r - (k - 1) = j + 1 /\ k \in 2..r
        /\ (k - 1) + 1 = k
    BY <1>1, <2>1
  <2>3. PICK l \in 1..r - 1 : l = k - 1 /\ l \in 1..r /\ i + r - l = j + 1 /\ l + 1 = k
    BY <2>2
  <2>4. u[j] = V(k) /\ u[j + 1] = V(l)
    BY <1>2, <2>1, <2>3
  <2>5. u[j][3] = MinOf(delayed[k].end, C(k)) /\ u[j + 1][1] = C(l)
    BY <1>3, <2>3, <2>4
  <2>6. delayed[k].end = delayed[l].start
    BY <2>2, <2>3 DEF RunFrom
  <2>7. C(l) = MinOf(delayed[l].start, C(k))
    BY <1>4, <2>3
  <2> QED  BY <2>5, <2>6, <2>7
<1>11. ASSUME r > 0
       PROVE  u[i][1] = MinOf(delayed[r].start, peak) /\ u[i + r - 1][3] = delayed[1].end
  <2>1. r \in 1..r /\ 1 \in 1..r /\ i + r - r = i
    BY <1>1, <1>11
  <2>2. u[i] = V(r) /\ u[i + r - 1] = V(1)
    BY <1>2, <2>1
  <2>3. u[i][1] = MinOf(delayed[r].start, peak)
    BY <1>3, <1>4, <1>11, <2>1, <2>2
  <2>4. u[i + r - 1][3] = MinOf(delayed[1].end, C(1))
    BY <1>3, <2>1, <2>2
  <2>5. delayed[1].end <= C(1)
    <3>1. \A k \in 1..r : delayed[1].end <= delayed[k].start
      BY DEF RunFrom
    <3>2. C(1) = peak \/ \E k \in 1..r : C(1) = delayed[k].start
      BY <1>1, <2>1, CarriedFacts DEF C
    <3> QED  BY <1>11, <3>1, <3>2 DEF EndsBelow
  <2>6. delayed[1].end \in Nat /\ C(1) \in Nat
    BY <1>3, <2>1, RunElement
  <2>7. MinOf(delayed[1].end, C(1)) = delayed[1].end
    BY <2>5, <2>6 DEF MinOf
  <2> QED  BY <2>3, <2>4, <2>7
<1> QED  BY <1>2, <1>8, <1>9, <1>10, <1>11 DEF u, DelayedPlanned

\* What the traversal knows after the i-th move (i = Len(q) + 1: at its start).
Traversed(q, s, i) ==
    /\ SpeedsOK(s) /\ RunFrom(q, s.delayed, i)
    /\ i <= Len(q) => s.end <= q[i].maxStart /\ s.smoothed <= q[i].maxSmoothed
    /\ i = Len(q) + 1 => s.end = 0 /\ s.smoothed = 0 /\ s.delayed = << >>
    /\ s.delayed = << >> => /\ s.smoothed <= s.peak
                            /\ i <= Len(q) => s.smoothed = q[i].maxSmoothed
    /\ s.delayed # << >> => /\ s.delayed[Len(s.delayed)].start = s.end
                            /\ s.delayed[1].end <= s.peak
                            /\ s.delayed[1].end <= s.smoothed
    /\ i + Len(s.delayed) = Len(q) + 1 => s.peak = 0

LEMMA EmptyRun ==
  ASSUME NEW q, Chained(q), NEW i \in 1..Len(q) + 1
  PROVE  RunFrom(q, << >>, i) /\ Len(<< >>) = 0
<1>1. << >> \in Seq(DelayedMoves) /\ Len(<< >>) = 0 /\ Len(q) \in Nat
  BY DEF Chained
<1>2. 1..Len(<< >>) = {} /\ 2..Len(<< >>) = {}
  BY <1>1
<1> QED  BY <1>1, <1>2 DEF RunFrom

\* Where two moves can both decelerate the speed of the junction is known, for
\* smoothing does not change it.
LEMMA JunctionKnown ==
  ASSUME NEW q, Chained(q), NEW i \in 1..Len(q), NEW s, Traversed(q, s, i + 1),
         s.delayed = << >>, q[i].maxSmoothed + q[i].smooth > s.smoothed
  PROVE  /\ s.end = s.smoothed
         /\ i < Len(q) => s.smoothed = q[i + 1].maxStart /\ s.smoothed = q[i + 1].maxSmoothed
<1>1. Len(q) \in Nat
  BY DEF Chained
<1>2. s.end \in Nat /\ s.smoothed \in Nat /\ s.smoothed <= s.end
  BY DEF Traversed, SpeedsOK
<1>3. CASE i = Len(q)
  BY <1>1, <1>3 DEF Traversed
<1>4. CASE i < Len(q)
  <2>1. i \in 1..Len(q) - 1 /\ i + 1 \in 1..Len(q) /\ i + 1 <= Len(q)
    BY <1>1, <1>4
  <2>2. s.smoothed = q[i + 1].maxSmoothed /\ s.end <= q[i + 1].maxStart
    BY <2>1 DEF Traversed
  <2>3. q[i + 1].maxSmoothed = MinOf(q[i + 1].maxStart, q[i].maxSmoothed + q[i].smooth)
    BY <2>1 DEF Chained
  <2>4. /\ q[i + 1].maxStart \in Nat /\ q[i].maxSmoothed \in Nat /\ q[i].smooth \in Nat
    BY <2>1, ChainedMove
  <2>5. s.smoothed = q[i + 1].maxStart
    BY <1>2, <2>2, <2>3, <2>4 DEF MinOf
  <2> QED  BY <1>2, <2>2, <2>5
<1> QED  BY <1>1, <1>3, <1>4

LEMMA PlaceSums ==
  ASSUME NEW i \in Nat, NEW r \in Nat
  PROVE  /\ i + (r + 1) = i + 1 + r /\ i + (r + 1) - 1 = i + 1 + r - 1
         /\ \A k \in Nat : i + 1 + r - k = i + (r + 1) - k
         /\ i + (r + 1) - (r + 1) = i
         /\ \A k \in 1..r : k \in Nat /\ 1 \in 1..r
OBVIOUS

\* One more move is delayed.
LEMMA DelayedOn ==
  ASSUME NEW q, Chained(q), NEW i \in 1..Len(q), NEW s, Traversed(q, s, i + 1),
         NEW t, t = FlushStep(q, s, i), ~Accelerates(q, s, i)
  PROVE  Traversed(q, t, i)
<1> DEFINE r == Len(s.delayed)
           d == Delayed(i, t.end, s.end)
<1>1. SpeedsOK(s) /\ RunFrom(q, s.delayed, i + 1)
  BY DEF Traversed
<1>2. /\ SpeedsOK(t) /\ t.end <= q[i].maxStart /\ t.end <= s.end + q[i].delta
      /\ t.smoothed = s.smoothed + q[i].smooth /\ t.peak = s.peak
      /\ t.smoothed <= q[i].maxSmoothed
  BY <1>1, StepSpeeds DEF Turns
<1>3. t.delayed = Append(s.delayed, d)
  BY <1>1, StepControl
<1>4. /\ Len(q) \in Nat /\ q[i].smooth \in Nat /\ q[i].smooth > 0 /\ q[i].maxSmoothed \in Nat
      /\ q[i].delta \in Nat /\ q[i].maxStart \in Nat
  BY ChainedMove
<1>5. /\ s.end \in Nat /\ s.smoothed \in Nat /\ s.peak \in Nat /\ s.smoothed <= s.end
      /\ t.end \in Nat /\ t.smoothed \in Nat /\ t.smoothed <= t.end
  BY <1>1, <1>2 DEF SpeedsOK
<1>6. s.delayed \in Seq(DelayedMoves) /\ r \in Nat /\ i + 1 + r - 1 <= Len(q)
  <2>1. s.delayed \in Seq(DelayedMoves) /\ (i + 1) + Len(s.delayed) - 1 <= Len(q)
    BY <1>1 DEF RunFrom
  <2>2. r \in Nat
    BY <2>1
  <2> QED  BY <2>1, <2>2
<1>16. i \in Nat /\ i <= Len(q) /\ r \in Nat
  BY <1>4, <1>6
<1>7. d \in DelayedMoves /\ d.move = i /\ d.start = t.end /\ d.end = s.end
  BY <1>5 DEF Delayed, DelayedMoves
<1> HIDE DEF d
<1>8. PICK u \in Seq(DelayedMoves) :
         /\ u = t.delayed /\ Len(u) = r + 1 /\ u[r + 1] = d
         /\ \A k \in 1..r : u[k] = s.delayed[k]
  <2>1. PICK v \in Seq(DelayedMoves) : v = s.delayed
    BY <1>6
  <2>2. PICK x \in DelayedMoves : x = d
    BY <1>7
  <2>3. /\ Append(v, x) \in Seq(DelayedMoves) /\ Len(Append(v, x)) = Len(v) + 1
        /\ \A k \in 1..Len(v) : Append(v, x)[k] = v[k]
        /\ Append(v, x)[Len(v) + 1] = x
    BY AppendFacts
  <2> QED  BY <1>3, <2>1, <2>2, <2>3
<1>9. /\ u[1].end <= t.smoothed /\ u[1].end <= t.peak /\ u[1].end \in Nat
  <2>1. CASE r = 0
    <3>1. s.delayed = << >>
      BY <1>6, <2>1
    <3>2. q[i].maxSmoothed + q[i].smooth > s.smoothed
      BY <1>4, <1>5 DEF Accelerates
    <3>3. s.end = s.smoothed /\ s.smoothed <= s.peak
      BY <3>1, <3>2, JunctionKnown DEF Traversed
    <3>4. u[1] = d
      BY <1>8, <2>1
    <3> QED  BY <1>2, <1>4, <1>5, <1>7, <3>3, <3>4
  <2>2. CASE r > 0
    <3>1. s.delayed # << >> /\ 1 \in 1..r
      BY <1>6, <2>2
    <3>2. s.delayed[1].end <= s.peak /\ s.delayed[1].end <= s.smoothed
      BY <3>1 DEF Traversed
    <3>3. u[1] = s.delayed[1]
      BY <1>8, <3>1
    <3>4. u[1] \in DelayedMoves
      BY <1>6, <1>8
    <3>5. u[1].end \in Nat
      BY <3>4 DEF DelayedMoves
    <3>6. PICK a \in Nat, b \in Nat, c \in Nat :
             a = u[1].end /\ b = s.smoothed /\ c = q[i].smooth /\ a <= b
      BY <1>4, <1>5, <3>2, <3>3, <3>5
    <3>7. a <= b + c
      BY <3>6
    <3> QED  BY <1>2, <3>2, <3>3, <3>5, <3>6, <3>7
  <2> QED  BY <1>6, <2>1, <2>2
<1>10. ASSUME NEW k \in 1..r + 1
       PROVE  /\ u[k].move = i + (r + 1) - k
              /\ u[k].start <= q[i + (r + 1) - k].maxStart
              /\ u[k].start <= u[k].end + q[i + (r + 1) - k].delta
              /\ u[1].end <= u[k].start
  <2>1. CASE k = r + 1
    <3>1. u[k] = d /\ i + (r + 1) - k = i
      BY <1>8, <1>16, <2>1, PlaceSums
    <3>2. u[1].end <= t.end
      BY <1>5, <1>9
    <3> QED  BY <1>2, <1>7, <3>1, <3>2
  <2>2. CASE k \in 1..r
    <3>1. /\ s.delayed[k].move = i + 1 + r - k
          /\ s.delayed[k].start <= q[i + 1 + r - k].maxStart
          /\ s.delayed[k].start <= s.delayed[k].end + q[i + 1 + r - k].delta
          /\ s.delayed[1].end <= s.delayed[k].start
      BY <1>1, <2>2 DEF RunFrom
    <3>2. i + 1 + r - k = i + (r + 1) - k /\ 1 \in 1..r
      <4>1. k \in Nat /\ 1 \in 1..r
        BY <1>16, <2>2, PlaceSums
      <4>2. PICK a \in Nat, b \in Nat, c \in Nat : a = i /\ b = r /\ c = k
        BY <1>16, <4>1
      <4>3. a + 1 + b - c = a + (b + 1) - c
        OBVIOUS
      <4> QED  BY <4>1, <4>2, <4>3
    <3>3. u[k] = s.delayed[k] /\ u[1] = s.delayed[1]
      BY <1>8, <2>2, <3>2
    <3> QED  BY <3>1, <3>2, <3>3
  <2>3. k = r + 1 \/ k \in 1..r
    BY <1>16
  <2> QED  BY <2>1, <2>2, <2>3
<1>11. ASSUME NEW k \in 2..r + 1  PROVE u[k].end = u[k - 1].start
  <2>1. CASE k = r + 1
    <3>1. r \in 1..r /\ r > 0 /\ k - 1 = r
      BY <1>6, <2>1
    <3>2. s.delayed # << >>
      BY <1>6, <3>1
    <3>3. s.delayed[r].start = s.end
      BY <3>2 DEF Traversed
    <3> QED  BY <1>7, <1>8, <2>1, <3>1, <3>3
  <2>2. CASE k \in 2..r
    <3>1. k \in 1..r /\ k - 1 \in 1..r
      BY <1>6, <2>2
    <3>2. s.delayed[k].end = s.delayed[k - 1].start
      BY <1>1, <2>2 DEF RunFrom
    <3> QED  BY <1>8, <3>1, <3>2
  <2> QED  BY <1>6, <2>1, <2>2
<1>12. RunFrom(q, u, i)
  <2>1. i + Len(u) - 1 <= Len(q)
    <3>1. PICK a \in Nat : a = i
      BY <1>16
    <3>2. PICK b \in Nat : b = r
      BY <1>16
    <3>3. a + (b + 1) - 1 = (a + 1) + b - 1
      OBVIOUS
    <3> QED  BY <1>6, <1>8, <3>1, <3>2, <3>3
  <2> QED  BY <1>8, <1>10, <1>11, <2>1 DEF RunFrom
<1>13. u # << >> /\ u[Len(u)].start = t.end
  BY <1>6, <1>7, <1>8
<1>14. i + Len(u) = Len(q) + 1 => t.peak = 0
  <2>1. i + 1 + r = Len(q) + 1 => s.peak = 0
    BY DEF Traversed
  <2>2. i + Len(u) = i + 1 + r
    <3>1. Len(u) = r + 1
      BY <1>8
    <3>2. PICK a \in Nat, b \in Nat : a = i /\ b = r
      BY <1>16
    <3>3. a + (b + 1) = a + 1 + b
      OBVIOUS
    <3> QED  BY <3>1, <3>2, <3>3
  <2> QED  BY <1>2, <2>1, <2>2
<1>15. i # Len(q) + 1
  BY <1>4
<1> QED  BY <1>2, <1>8, <1>9, <1>12, <1>13, <1>14, <1>15 DEF Traversed

\* A move that accelerates ends what is delayed.
LEMMA DelayedEnds ==
  ASSUME NEW q, Chained(q), NEW i \in 1..Len(q), NEW s, Traversed(q, s, i + 1),
         NEW t, t = FlushStep(q, s, i), Accelerates(q, s, i)
  PROVE  Traversed(q, t, i) /\ t.delayed = << >> /\ t.smoothed = q[i].maxSmoothed
<1>1. SpeedsOK(s)
  BY DEF Traversed
<1>2. /\ SpeedsOK(t) /\ t.end <= q[i].maxStart /\ t.smoothed = q[i].maxSmoothed
      /\ t.peak = IF Turns(q, s, i) THEN PeakOf(q, s, i) ELSE s.peak
  BY <1>1, StepSpeeds
<1>3. t.delayed = << >>
  <2>1. t.delayed = IF Turns(q, s, i) THEN << >> ELSE s.delayed
    BY <1>1, StepControl
  <2>2. ~Turns(q, s, i) => s.delayed = << >>
    BY DEF Turns
  <2> QED  BY <2>1, <2>2
<1>4. /\ Len(q) \in Nat /\ q[i].smooth \in Nat /\ q[i].maxSmoothed \in Nat
      /\ q[i].cruise \in Nat /\ q[i].maxStart \in Nat /\ q[i].maxStart <= q[i].cruise
      /\ q[i].maxSmoothed <= q[i].maxStart
  BY ChainedMove
<1>5. s.smoothed \in Nat /\ s.peak \in Nat
  BY <1>1 DEF SpeedsOK
<1>6. t.smoothed <= t.peak
  <2>1. CASE Turns(q, s, i)
    <3>1. PICK m \in Nat, x \in Nat : m = q[i].maxSmoothed /\ x = s.smoothed + q[i].smooth /\ m < x
      BY <1>4, <1>5 DEF Accelerates
    <3>2. m <= (m + x) \div 2 /\ (m + x) \div 2 \in Nat
      <4>1. PICK y \in Nat : y = m + x /\ y >= 2 * m
        BY <3>1
      <4>2. y \div 2 \in Nat /\ y <= 2 * (y \div 2) + 1
        OBVIOUS
      <4> QED  BY <4>1, <4>2
    <3>3. PeakOf(q, s, i) = MinOf(q[i].cruise, (m + x) \div 2)
      BY <3>1 DEF PeakOf
    <3>4. m <= q[i].cruise
      BY <1>4, <3>1
    <3> QED  BY <1>2, <2>1, <3>1, <3>2, <3>3, <3>4 DEF MinOf
  <2>2. CASE ~Turns(q, s, i)
    <3>1. s.delayed = << >> /\ ~(q[i].maxSmoothed + q[i].smooth > s.smoothed)
      BY <2>2 DEF Turns
    <3>2. s.smoothed <= s.peak
      BY <3>1 DEF Traversed
    <3> QED  BY <1>2, <1>4, <1>5, <2>2, <3>1, <3>2
  <2> QED  BY <2>1, <2>2
<1>7. RunFrom(q, << >>, i) /\ Len(<< >>) = 0
  BY <1>4, EmptyRun
<1>8. i # Len(q) + 1 /\ i + 0 # Len(q) + 1 /\ t.smoothed <= q[i].maxSmoothed
  BY <1>2, <1>4
<1> QED  BY <1>2, <1>3, <1>6, <1>7, <1>8 DEF Traversed

LEMMA TraversedAll ==
  ASSUME NEW q, Chained(q), NEW lazy, NEW after, Traversal(q, lazy, after)
  PROVE  \A i \in 1..Len(q) + 1 : Traversed(q, after[i], i)
<1> DEFINE n == Len(q)
           T == {i \in 1..n + 1 : Traversed(q, after[i], i)}
<1>1. n \in Nat
  BY DEF Chained
<1>2. n + 1 \in T
  <2>1. PICK s : s = after[n + 1]
    OBVIOUS
  <2>2. /\ s.end = 0 /\ s.smoothed = 0 /\ s.peak = 0 /\ s.delayed = << >>
    BY <2>1 DEF Traversal, FlushStart, FinalSpeed
  <2>3. RunFrom(q, << >>, n + 1) /\ Len(<< >>) = 0
    BY <1>1, EmptyRun
  <2>4. Traversed(q, s, n + 1)
    BY <1>1, <2>2, <2>3 DEF Traversed, SpeedsOK
  <2> QED  BY <1>1, <2>1, <2>4
<1>3. ASSUME NEW i \in 1..n, i + 1 \in T  PROVE i \in T
  <2>1. PICK s, t : s = after[i + 1] /\ t = after[i]
    OBVIOUS
  <2>2. t = FlushStep(q, s, i) /\ Traversed(q, s, i + 1)
    BY <1>3, <2>1 DEF Traversal
  <2>3. Traversed(q, t, i)
    BY <2>2, DelayedOn, DelayedEnds
  <2> QED  BY <1>1, <2>1, <2>3
<1> HIDE DEF T
<1>4. \A i \in 1..n + 1 : i \in T
  <2>1. \A i \in 1..(n + 1) - 1 : i + 1 \in T => i \in T
    BY <1>1, <1>3
  <2> QED  BY <1>1, <1>2, <2>1, Downward
<1> QED  BY <1>4 DEF T

\* What two steps of the traversal have in common.
LEMMA StepOf ==
  ASSUME NEW q, Chained(q), NEW lazy, NEW after, Traversal(q, lazy, after), NEW i \in 1..Len(q)
  PROVE  /\ after[i] = FlushStep(q, after[i + 1], i)
         /\ Traversed(q, after[i], i) /\ Traversed(q, after[i + 1], i + 1)
         /\ after[i].delayed = << >> <=> Accelerates(q, after[i + 1], i)
<1>1. Len(q) \in Nat /\ i \in 1..Len(q) + 1 /\ i + 1 \in 1..Len(q) + 1
  BY DEF Chained
<1>2. after[i] = FlushStep(q, after[i + 1], i)
  BY DEF Traversal
<1>3. Traversed(q, after[i], i) /\ Traversed(q, after[i + 1], i + 1)
  BY <1>1, TraversedAll
<1>4. PICK s, t : s = after[i + 1] /\ t = after[i]
  OBVIOUS
<1>5. t = FlushStep(q, s, i) /\ Traversed(q, s, i + 1)
  BY <1>2, <1>3, <1>4
<1>6. CASE Accelerates(q, s, i)
  <2>1. t.delayed = << >>
    BY <1>5, <1>6, DelayedEnds
  <2> QED  BY <1>2, <1>3, <1>4, <1>6, <2>1
<1>7. CASE ~Accelerates(q, s, i)
  <2>1. SpeedsOK(s) /\ s.delayed \in Seq(DelayedMoves)
    BY <1>5 DEF Traversed, RunFrom
  <2>2. t.delayed = Append(s.delayed, Delayed(i, t.end, s.end))
    BY <1>5, <1>7, <2>1, StepControl
  <2>3. t.delayed # << >>
    BY <2>1, <2>2
  <2> QED  BY <1>2, <1>3, <1>4, <1>7, <2>3
<1> QED  BY <1>6, <1>7

\* A number that is at most the sum of two others is at most half of all three.
LEMMA TwiceLess ==
  ASSUME NEW n \in Nat, NEW k \in Nat, NEW l \in Nat, l <= n + k
  PROVE  n + (l + k) \in Nat /\ n + (l + k) >= 2 * l
OBVIOUS

\* The peak of a move is no less than what the next one is smoothed to.
LEMMA PeakEnough ==
  ASSUME NEW q, Chained(q), NEW i \in 1..Len(q), NEW s, Traversed(q, s, i + 1),
         Turns(q, s, i)
  PROVE  s.smoothed <= PeakOf(q, s, i) /\ PeakOf(q, s, i) \in Nat
<1>1. /\ Len(q) \in Nat /\ q[i].smooth \in Nat /\ q[i].maxSmoothed \in Nat
      /\ q[i].cruise \in Nat
  BY ChainedMove
<1>2. s.smoothed \in Nat
  BY DEF Traversed, SpeedsOK
<1>3. s.smoothed <= q[i].cruise /\ s.smoothed <= q[i].maxSmoothed + q[i].smooth
  <2>1. CASE i = Len(q)
    <3>1. s.smoothed = 0
      BY <1>1, <2>1 DEF Traversed
    <3> QED  BY <1>1, <3>1
  <2>2. CASE i < Len(q)
    <3>1. i \in 1..Len(q) - 1 /\ i + 1 \in 1..Len(q) /\ i + 1 <= Len(q)
      BY <1>1, <2>2
    <3>2. s.smoothed <= q[i + 1].maxSmoothed
      BY <3>1 DEF Traversed
    <3>3. /\ q[i + 1].maxStart <= q[i].cruise
          /\ q[i + 1].maxSmoothed = MinOf(q[i + 1].maxStart, q[i].maxSmoothed + q[i].smooth)
      BY <3>1 DEF Chained
    <3>4. q[i + 1].maxStart \in Nat /\ q[i + 1].maxSmoothed \in Nat
      BY <3>1, ChainedMove
    <3>5. PICK x \in Nat : x = q[i].maxSmoothed + q[i].smooth
      BY <1>1
    <3>7. PICK y \in Nat : y = q[i + 1].maxStart
      BY <3>4
    <3>8. MinOf(y, x) <= y /\ MinOf(y, x) <= x
      BY MinOfFacts
    <3>6. q[i + 1].maxSmoothed <= q[i + 1].maxStart /\ q[i + 1].maxSmoothed <= x
      BY <3>3, <3>5, <3>7, <3>8
    <3> QED  BY <1>1, <1>2, <3>2, <3>3, <3>4, <3>5, <3>6
  <2> QED  BY <1>1, <2>1, <2>2
<1>4. PICK x \in Nat, a \in Nat : x = q[i].maxSmoothed + (s.smoothed + q[i].smooth) /\ a = s.smoothed
                                /\ x >= 2 * a
  <2>1. PICK m \in Nat, b \in Nat, a \in Nat :
           m = q[i].maxSmoothed /\ b = q[i].smooth /\ a = s.smoothed /\ a <= m + b
    BY <1>1, <1>2, <1>3
  <2>2. m + (a + b) \in Nat /\ m + (a + b) >= 2 * a
    BY <2>1, TwiceLess
  <2> QED  BY <2>1, <2>2
<1>5. x \div 2 \in Nat /\ a <= x \div 2
  BY <1>4
<1>6. PeakOf(q, s, i) = MinOf(q[i].cruise, x \div 2)
  BY <1>4 DEF PeakOf
<1> QED  BY <1>1, <1>3, <1>4, <1>5, <1>6 DEF MinOf

\* The most that a move accelerates from or decelerates to.
LEMMA JunctionRoom ==
  ASSUME NEW q, Chained(q), NEW i \in 1..Len(q), NEW s, Traversed(q, s, i + 1),
         NEW t, t = FlushStep(q, s, i)
  PROVE  /\ s.end <= q[i].cruise /\ s.end <= t.end + q[i].delta
         /\ t.end <= s.end + q[i].delta /\ t.end <= q[i].maxStart
         /\ s.end \in Nat /\ t.end \in Nat /\ s.peak \in Nat /\ t.peak \in Nat
<1>1. SpeedsOK(s)
  BY DEF Traversed
<1>2. /\ SpeedsOK(t) /\ t.end <= q[i].maxStart /\ t.end <= s.end + q[i].delta
      /\ t.end = MinOf(q[i].maxStart, s.end + q[i].delta)
  BY <1>1, StepSpeeds
<1>3. /\ Len(q) \in Nat /\ q[i].delta \in Nat /\ q[i].maxStart \in Nat /\ q[i].cruise \in Nat
  BY ChainedMove
<1>4. /\ s.end \in Nat /\ t.end \in Nat /\ s.peak \in Nat /\ t.peak \in Nat
  BY <1>1, <1>2 DEF SpeedsOK
<1>5. s.end <= q[i].cruise /\ s.end <= q[i].maxStart + q[i].delta
  <2>1. CASE i = Len(q)
    <3>1. s.end = 0
      BY <1>3, <2>1 DEF Traversed
    <3> QED  BY <1>3, <3>1
  <2>2. CASE i < Len(q)
    <3>1. i \in 1..Len(q) - 1 /\ i + 1 \in 1..Len(q) /\ i + 1 <= Len(q)
      BY <1>3, <2>2
    <3>2. s.end <= q[i + 1].maxStart
      BY <3>1 DEF Traversed
    <3>3. /\ q[i + 1].maxStart <= q[i].cruise
          /\ q[i + 1].maxStart <= q[i].maxStart + q[i].delta
      BY <3>1 DEF Chained
    <3>4. q[i + 1].maxStart \in Nat
      BY <3>1, ChainedMove
    <3>5. PICK x \in Nat : x = q[i].maxStart + q[i].delta
      BY <1>3
    <3> QED  BY <1>3, <1>4, <3>2, <3>3, <3>4, <3>5
  <2> QED  BY <1>3, <2>1, <2>2
<1>6. s.end <= t.end + q[i].delta
  <2>1. PICK x \in Nat, d \in Nat, e \in Nat :
           x = q[i].maxStart /\ d = q[i].delta /\ e = s.end /\ e <= x + d
    BY <1>3, <1>4, <1>5
  <2>2. MinOf(x, e + d) = x \/ MinOf(x, e + d) = e + d
    BY DEF MinOf
  <2>3. t.end = x \/ t.end = e + d
    BY <1>2, <2>1, <2>2
  <2>4. e <= e + d + d
    OBVIOUS
  <2> QED  BY <2>1, <2>3, <2>4
<1> QED  BY <1>2, <1>4, <1>5, <1>6

\* Where the move after the k-th starts: it was planned, or it comes first in
\* what is left.
NextStart(after, s, k) ==
    IF k = s.count THEN MinOf(after[k + 1].end, after[k + 1].peak) ELSE s.plan[k + 1][1]

\* The last move that was delayed, or the one before the i-th.
LastOpen(s, i) == i + Len(s.delayed) - 1

PlannedFrom(q, after, s, i) ==
    /\ s.plan \in [1..Len(q) -> Seq(Nat)] /\ s.updating \in BOOLEAN
    /\ ~s.updating =>
          /\ s.count \in 0..Len(q) /\ LastOpen(s, i) <= s.count
          /\ \A k \in LastOpen(s, i) + 1..s.count :
                Possible(q[k], s.plan[k]) /\ s.plan[k][3] = NextStart(after, s, k)
          /\ NextStart(after, s, LastOpen(s, i)) =
                IF s.delayed = << >> THEN MinOf(s.end, s.peak) ELSE s.delayed[1].end

\* The speeds of a move that accelerates.
JunctionFits(q, s, t, i, v) ==
    /\ Possible(q[i], v) /\ v \in Seq(Nat)
    /\ v[1] = MinOf(t.end, t.peak) /\ v[3] = MinOf(s.end, t.peak)

LEMMA JunctionHere ==
  ASSUME NEW q, Chained(q), NEW i \in 1..Len(q), NEW s, Traversed(q, s, i + 1),
         NEW t, t = FlushStep(q, s, i)
  PROVE  JunctionFits(q, s, t, i, JunctionOf(q, s, t, i))
<1>1. /\ s.end <= q[i].cruise /\ s.end <= t.end + q[i].delta
      /\ t.end <= s.end + q[i].delta /\ t.end <= q[i].maxStart
      /\ s.end \in Nat /\ t.end \in Nat /\ t.peak \in Nat
  BY JunctionRoom
<1>2. PICK m \in QueuedMoves : m = q[i]
  BY ChainedMove
<1>3. m.maxStart <= m.cruise /\ m.maxStart <= m.junction
  BY <1>2, ChainedMove
<1>4. PICK b \in Nat, e \in Nat, p \in Nat : b = t.end /\ e = s.end /\ p = t.peak
  BY <1>1
<1>5. PICK c : c = MinOf((b + (e + m.delta)) \div 2, MinOf(m.cruise, p))
  OBVIOUS
<1>6. b <= m.maxStart /\ b <= e + m.delta /\ e <= b + m.delta /\ e <= m.cruise
  BY <1>1, <1>2, <1>4
<1>7. /\ c \in Nat /\ Possible(m, <<MinOf(b, c), c, MinOf(e, c)>>)
      /\ MinOf(b, c) = MinOf(b, p) /\ MinOf(e, c) = MinOf(e, p)
  BY <1>3, <1>5, <1>6, JunctionFacts
<1>8. PICK f \in Nat, g \in Nat : f = MinOf(b, p) /\ g = MinOf(e, p)
  <2>1. MinOf(b, p) \in Nat /\ MinOf(e, p) \in Nat
    BY DEF MinOf
  <2> QED  BY <2>1
<1>9. JunctionOf(q, s, t, i) = <<f, c, g>>
  BY <1>2, <1>4, <1>5, <1>7, <1>8 DEF JunctionOf, CruiseOf
<1>10. <<f, c, g>> \in Seq(Nat) /\ <<f, c, g>>[1] = f /\ <<f, c, g>>[3] = g
  BY <1>7, TripleFacts
<1>11. Possible(q[i], <<f, c, g>>)
  BY <1>2, <1>7, <1>8
<1> QED  BY <1>4, <1>8, <1>9, <1>10, <1>11 DEF JunctionFits

\* Speeds are decided from here on, or the move is delayed once more.
LEMMA PlanWaits ==
  ASSUME NEW q, Chained(q), NEW i \in 1..Len(q), NEW s, Traversed(q, s, i + 1),
         NEW t, t = FlushStep(q, s, i), NEW after, t = after[i],
         PlannedFrom(q, after, s, i + 1),
         t.updating \/ Found(q, s, i) \/ ~Accelerates(q, s, i)
  PROVE  PlannedFrom(q, after, t, i)
<1>1. SpeedsOK(s)
  BY DEF Traversed
<1>2. /\ t.delayed = IF ~Accelerates(q, s, i)
                      THEN Append(s.delayed, Delayed(i, t.end, s.end))
                      ELSE IF Turns(q, s, i) THEN << >> ELSE s.delayed
      /\ t.count = IF Found(q, s, i) THEN i - 1 ELSE s.count
      /\ t.updating = (s.updating /\ ~Found(q, s, i))
  BY <1>1, StepControl
<1>3. Turns(q, s, i) => Accelerates(q, s, i)
  BY DEF Turns
<1>4. Found(q, s, i) => Turns(q, s, i)
  BY DEF Found
<1>5. Len(q) \in Nat /\ i - 1 \in 0..Len(q) /\ i \in Nat /\ i \in Int
  BY DEF Chained
<1>6. t.plan = s.plan
  <2>1. ~(Accelerates(q, s, i) /\ Flushes(t, i)) /\ ~(Turns(q, s, i) /\ Flushes(t, i))
    <3>1. CASE ~Accelerates(q, s, i)
      BY <1>3, <3>1
    <3>2. CASE t.updating
      BY <3>2 DEF Flushes
    <3>3. CASE Found(q, s, i)
      <4>1. t.count = i - 1
        BY <1>2, <3>3
      <4>2. ~(i <= t.count)
        BY <1>5, <4>1
      <4> QED  BY <4>2 DEF Flushes
    <3> QED  BY <3>1, <3>2, <3>3
  <2>2. t.plan = PlanAfter(q, s, t, i)
    BY <1>1, StepPlan
  <2> QED  BY <2>1, <2>2 DEF PlanAfter, PlanBefore
<1>7. s.plan \in [1..Len(q) -> Seq(Nat)] /\ s.updating \in BOOLEAN
  BY DEF PlannedFrom
<1>8. t.updating \in BOOLEAN
  BY <1>2, <1>7
<1>9. CASE t.updating
  BY <1>6, <1>7, <1>8, <1>9 DEF PlannedFrom
<1>10. CASE Found(q, s, i)
  <2>1. t.delayed = << >> /\ t.count = i - 1
    BY <1>2, <1>3, <1>4, <1>10
  <2>2. Len(<< >>) = 0
    OBVIOUS
  <2>3. LastOpen(t, i) = i - 1
    BY <1>5, <2>1, <2>2 DEF LastOpen
  <2>4. (i - 1) + 1 = i /\ (i - 1) + 1..i - 1 = {} /\ i - 1 <= i - 1
    BY <1>5
  <2>5. NextStart(after, t, i - 1) = MinOf(t.end, t.peak)
    BY <2>1, <2>4 DEF NextStart
  <2> QED  BY <1>5, <1>6, <1>7, <1>8, <2>1, <2>3, <2>4, <2>5 DEF PlannedFrom
<1>11. CASE ~t.updating /\ ~Found(q, s, i) /\ ~Accelerates(q, s, i)
  <2>1. ~s.updating /\ t.count = s.count
    BY <1>2, <1>7, <1>11
  <2>2. t.delayed = Append(s.delayed, Delayed(i, t.end, s.end))
    BY <1>2, <1>11
  <2>3. s.delayed \in Seq(DelayedMoves) /\ Len(s.delayed) \in Nat
    BY DEF Traversed, RunFrom
  <2>4. t.delayed # << >> /\ Len(t.delayed) = Len(s.delayed) + 1
        /\ t.delayed[1] = IF s.delayed = << >> THEN Delayed(i, t.end, s.end) ELSE s.delayed[1]
    <3>1. PICK v \in Seq(DelayedMoves) : v = s.delayed
      BY <2>3
    <3>3. PICK x : x = Delayed(i, t.end, s.end)
      OBVIOUS
    <3>2. /\ Append(v, x) # << >> /\ Len(Append(v, x)) = Len(v) + 1
          /\ v = << >> => Append(v, x)[1] = x
          /\ v # << >> => Append(v, x)[1] = v[1]
      OBVIOUS
    <3> QED  BY <2>2, <3>1, <3>2, <3>3
  <2>5. LastOpen(t, i) = LastOpen(s, i + 1)
    <3>1. PICK r \in Nat, l \in Nat : r = Len(s.delayed) /\ l = Len(t.delayed) /\ l = r + 1
      BY <2>3, <2>4
    <3>2. i + l - 1 = (i + 1) + r - 1
      <4>1. l = r + 1
        BY <3>1
      <4>2. PICK j \in Nat : j = i
        BY <1>5
      <4>3. j + (r + 1) - 1 = (j + 1) + r - 1
        OBVIOUS
      <4> QED  BY <4>1, <4>2, <4>3
    <3> QED  BY <3>1, <3>2 DEF LastOpen
  <2>6. t.delayed[1].end = IF s.delayed = << >> THEN MinOf(s.end, s.peak) ELSE s.delayed[1].end
    <3>1. CASE s.delayed = << >>
      <4>1. t.delayed[1].end = s.end
        BY <2>4, <3>1 DEF Delayed
      <4>2. q[i].maxSmoothed + q[i].smooth > s.smoothed
        <5>1. q[i].maxSmoothed \in Nat /\ q[i].smooth \in Nat /\ q[i].smooth > 0
          BY ChainedMove
        <5>2. s.smoothed \in Nat
          BY <1>1 DEF SpeedsOK
        <5> QED  BY <1>11, <5>1, <5>2 DEF Accelerates
      <4>3. s.end = s.smoothed
        BY <3>1, <4>2, JunctionKnown
      <4>4. s.smoothed <= s.peak /\ s.smoothed \in Nat /\ s.peak \in Nat
        BY <1>1, <3>1 DEF Traversed, SpeedsOK
      <4>5. MinOf(s.end, s.peak) = s.end
        BY <4>3, <4>4 DEF MinOf
      <4> QED  BY <3>1, <4>1, <4>5
    <3>2. CASE s.delayed # << >>
      BY <2>4, <3>2
    <3> QED  BY <3>1, <3>2
  <2>7. \A k : NextStart(after, t, k) = NextStart(after, s, k)
    BY <1>6, <2>1 DEF NextStart
  <2>8. /\ s.count \in 0..Len(q) /\ LastOpen(s, i + 1) <= s.count
        /\ \A k \in LastOpen(s, i + 1) + 1..s.count :
              Possible(q[k], s.plan[k]) /\ s.plan[k][3] = NextStart(after, s, k)
        /\ NextStart(after, s, LastOpen(s, i + 1)) =
              IF s.delayed = << >> THEN MinOf(s.end, s.peak) ELSE s.delayed[1].end
    BY <2>1 DEF PlannedFrom
  <2>9. NextStart(after, t, LastOpen(t, i)) = t.delayed[1].end
    BY <2>5, <2>6, <2>7, <2>8
  <2>10. \A k \in LastOpen(t, i) + 1..t.count :
            Possible(q[k], t.plan[k]) /\ t.plan[k][3] = NextStart(after, t, k)
    BY <1>6, <2>1, <2>5, <2>7, <2>8
  <2>11. t.count \in 0..Len(q) /\ LastOpen(t, i) <= t.count
    BY <2>1, <2>5, <2>8
  <2> QED  BY <1>6, <1>7, <1>8, <2>4, <2>9, <2>10, <2>11 DEF PlannedFrom
<1> QED  BY <1>9, <1>10, <1>11

\* The plan before the move i itself: delayed moves have their speeds, and the
\* next one starts with what the peak of i allows.
PlanReady(q, s, t, i, after, p) ==
    /\ ~t.updating /\ t.count = s.count /\ i <= s.count /\ s.count \in 1..Len(q)
    /\ t.updating \in BOOLEAN /\ p \in [1..Len(q) -> Seq(Nat)]
    /\ \A k \in i + 1..s.count :
          /\ Possible(q[k], p[k])
          /\ p[k][3] = IF k = s.count THEN MinOf(after[k + 1].end, after[k + 1].peak)
                       ELSE p[k + 1][1]
    /\ (IF i = s.count THEN MinOf(after[i + 1].end, after[i + 1].peak)
        ELSE p[i + 1][1]) = MinOf(s.end, t.peak)

LEMMA PlanOthers ==
  ASSUME NEW q, Chained(q), NEW i \in 1..Len(q), NEW s, Traversed(q, s, i + 1),
         NEW t, t = FlushStep(q, s, i), NEW after,
         PlannedFrom(q, after, s, i + 1), ~s.updating, Accelerates(q, s, i)
  PROVE  PlanReady(q, s, t, i, after, PlanBefore(q, s, t, i))
<1> DEFINE p == PlanBefore(q, s, t, i)
           r == Len(s.delayed)
           Next0(u, k) == IF k = s.count THEN MinOf(after[k + 1].end, after[k + 1].peak)
                          ELSE u[k + 1][1]
<1>1. SpeedsOK(s) /\ RunFrom(q, s.delayed, i + 1)
  BY DEF Traversed
<1>2. /\ t.updating = (s.updating /\ ~Found(q, s, i))
      /\ t.count = IF Found(q, s, i) THEN i - 1 ELSE s.count
      /\ t.peak = IF Turns(q, s, i) THEN PeakOf(q, s, i) ELSE s.peak
  BY <1>1, StepControl, StepSpeeds
<1>3. ~t.updating /\ t.count = s.count /\ t.updating \in BOOLEAN
  <2>1. (s.updating /\ ~Found(q, s, i)) \in BOOLEAN
    OBVIOUS
  <2>2. t.updating \in BOOLEAN
    BY <1>2, <2>1, Zenon
  <2> QED  BY <1>2, <2>2 DEF Found
<1>4. /\ s.count \in 0..Len(q) /\ LastOpen(s, i + 1) <= s.count
      /\ \A k \in LastOpen(s, i + 1) + 1..s.count :
            Possible(q[k], s.plan[k]) /\ s.plan[k][3] = NextStart(after, s, k)
      /\ NextStart(after, s, LastOpen(s, i + 1)) =
            IF s.delayed = << >> THEN MinOf(s.end, s.peak) ELSE s.delayed[1].end
      /\ s.plan \in [1..Len(q) -> Seq(Nat)]
  BY DEF PlannedFrom
<1>5. \A k : NextStart(after, s, k) = Next0(s.plan, k)
  BY DEF NextStart
<1>6. s.delayed \in Seq(DelayedMoves) /\ r \in Nat /\ (s.delayed = << >> <=> r = 0)
  BY <1>1 DEF RunFrom
<1>7. PICK n \in Nat, c \in Nat : n = Len(q) /\ c = s.count /\ c <= n
  BY <1>4 DEF Chained
<1>8. PICK b \in Nat : b = i + r /\ b = LastOpen(s, i + 1) /\ b <= c /\ i <= b
  <2>1. i \in Nat
    BY <1>7
  <2>2. PICK j \in Nat, l \in Nat : j = i /\ l = r
    BY <1>6, <2>1
  <2>3. (j + 1) + l - 1 = j + l /\ j <= j + l /\ j + l \in Nat
    OBVIOUS
  <2> QED  BY <1>4, <1>7, <2>2, <2>3 DEF LastOpen
<1>9. i <= s.count /\ s.count \in 1..Len(q)
  <2>1. i \in Nat /\ 1 <= i
    BY <1>7
  <2>2. 1 <= c /\ i <= c
    BY <1>8, <2>1
  <2> QED  BY <1>7, <2>2
<1>10. Flushes(t, i)
  BY <1>3, <1>9 DEF Flushes
<1>11. s.end \in Nat /\ s.peak \in Nat /\ t.peak \in Nat /\ s.smoothed \in Nat
  BY <1>1, JunctionRoom DEF SpeedsOK
<1>12. CASE ~Turns(q, s, i)
  <2>1. s.delayed = << >> /\ p = s.plan /\ t.peak = s.peak
    BY <1>2, <1>12 DEF Turns, PlanBefore
  <2>2. b = i
    <3>1. i \in Nat /\ r = 0
      BY <1>6, <1>7, <2>1
    <3> QED  BY <1>8, <3>1
  <2> HIDE DEF p, Next0
  <2>3. \A k \in i + 1..s.count : Possible(q[k], p[k]) /\ p[k][3] = Next0(p, k)
    BY <1>4, <1>5, <1>8, <2>1, <2>2
  <2>4. Next0(p, i) = MinOf(s.end, t.peak)
    BY <1>4, <1>5, <1>8, <2>1, <2>2
  <2>5. p \in [1..Len(q) -> Seq(Nat)]
    BY <1>4, <2>1
  <2> QED  BY <1>3, <1>9, <2>3, <2>4, <2>5 DEF Next0, p, PlanReady
<1>13. CASE Turns(q, s, i)
  <2>1. s.smoothed <= t.peak /\ p = WithDelayed(s.plan, s.delayed, t.peak)
    BY <1>2, <1>10, <1>13, PeakEnough DEF PlanBefore
  <2>2. r > 0 => s.delayed[1].end <= t.peak
    <3> SUFFICES ASSUME r > 0  PROVE s.delayed[1].end <= t.peak
      OBVIOUS
    <3>1. s.delayed # << >> /\ 1 \in 1..r
      BY <1>6
    <3>2. s.delayed[1].end <= s.smoothed
      BY <3>1 DEF Traversed
    <3>3. s.delayed[1].end \in Nat
      <4>1. s.delayed[1] \in DelayedMoves
        BY <1>6, <3>1
      <4> QED  BY <4>1 DEF DelayedMoves
    <3> QED  BY <1>11, <2>1, <3>2, <3>3
  <2>3. i + 1 \in 1..Len(q) + 1
    BY <1>7
  <2>4. /\ p \in [1..Len(q) -> Seq(Nat)]
        /\ \A j \in 1..Len(q) : j \notin i + 1..i + 1 + r - 1 => p[j] = s.plan[j]
        /\ \A j \in i + 1..i + 1 + r - 1 : Possible(q[j], p[j])
        /\ \A j \in i + 1..i + 1 + r - 2 : p[j][3] = p[j + 1][1]
        /\ r > 0 => /\ p[i + 1][1] = MinOf(s.delayed[r].start, t.peak)
                    /\ p[i + 1 + r - 1][3] = s.delayed[1].end
    <3>1. PICK h \in 1..Len(q) + 1 : h = i + 1
      BY <2>3
    <3>2. PICK d : d = s.delayed
      OBVIOUS
    <3>3. PICK u \in [1..Len(q) -> Seq(Nat)] : u = s.plan
      BY <1>4
    <3>4. PICK k \in Nat : k = t.peak
      BY <1>11
    <3>5. RunFrom(q, d, h) /\ EndsBelow(d, k)
      BY <1>1, <2>2, <3>1, <3>2, <3>4 DEF EndsBelow
    <3>6. DelayedPlanned(q, d, h, k, u, WithDelayed(u, d, k))
      BY <3>5, DelayedPlan
    <3>7. DelayedPlanned(q, s.delayed, i + 1, t.peak, s.plan, p)
      <4> HIDE DEF p
      <4> QED  BY <2>1, <3>1, <3>2, <3>3, <3>4, <3>6
    <3> HIDE DEF p
    <3> QED  BY <3>7 DEF DelayedPlanned
  <2>5. i + 1 + r - 1 = b /\ i + 1 + r - 2 = b - 1
    <3>1. PICK j \in Nat, l \in Nat : j = i /\ l = r
      BY <1>6, <1>7
    <3>2. j + 1 + l - 1 = j + l /\ j + 1 + l - 2 = (j + l) - 1
      OBVIOUS
    <3> QED  BY <1>8, <3>1, <3>2
  <2> HIDE DEF p
  <2>6. /\ \A j \in b + 1..c : p[j] = s.plan[j]
        /\ \A j \in i + 1..b : Possible(q[j], p[j])
        /\ \A j \in i + 1..b - 1 : p[j][3] = p[j + 1][1]
        /\ r > 0 => p[i + 1][1] = MinOf(s.delayed[r].start, t.peak) /\ p[b][3] = s.delayed[1].end
    <3>1. \A j \in b + 1..c : j \in 1..Len(q) /\ j \notin i + 1..b
      BY <1>7, <1>8
    <3> QED  BY <2>4, <2>5, <3>1
  <2>7. \A k \in b..c : Next0(p, k) = NextStart(after, s, k)
    <3> TAKE k \in b..c
    <3>1. CASE k = c
      BY <1>5, <1>7, <3>1
    <3>2. CASE k # c
      <4>1. k + 1 \in b + 1..c
        BY <3>2
      <4>2. p[k + 1] = s.plan[k + 1]
        BY <2>6, <4>1
      <4> QED  BY <1>5, <1>7, <3>2, <4>2
    <3> QED  BY <3>1, <3>2
  <2> HIDE DEF Next0
  <2>8. \A k \in b + 1..c : Possible(q[k], p[k]) /\ p[k][3] = Next0(p, k)
    <3> TAKE k \in b + 1..c
    <3>1. k \in b..c
      OBVIOUS
    <3> QED  BY <1>4, <1>7, <1>8, <2>6, <2>7, <3>1
  <2>9. Next0(p, b) = IF s.delayed = << >> THEN MinOf(s.end, s.peak) ELSE s.delayed[1].end
    <3>1. b \in b..c
      BY <1>8
    <3> QED  BY <1>4, <1>8, <2>7, <3>1
  <2>10. CASE r = 0
    <3>1. s.delayed = << >> /\ b = i
      <4>1. i \in Nat
        BY <1>7
      <4> QED  BY <1>6, <1>8, <2>10, <4>1
    <3>2. s.smoothed <= s.peak
      BY <3>1 DEF Traversed
    <3>3. s.end = s.smoothed
      <4>1. q[i].maxSmoothed + q[i].smooth > s.smoothed
        BY <1>13, <3>1 DEF Turns
      <4> QED  BY <3>1, <4>1, JunctionKnown
    <3>4. MinOf(s.end, s.peak) = s.end /\ MinOf(s.end, t.peak) = s.end
      BY <1>11, <2>1, <3>2, <3>3 DEF MinOf
    <3>5. Next0(p, i) = MinOf(s.end, t.peak)
      BY <2>9, <3>1, <3>4
    <3>6. \A k \in i + 1..s.count : Possible(q[k], p[k]) /\ p[k][3] = Next0(p, k)
      BY <1>7, <2>8, <3>1
    <3> QED  BY <1>3, <1>9, <2>4, <3>5, <3>6 DEF Next0, p, PlanReady
  <2>11. CASE r > 0
    <3>1. s.delayed # << >> /\ i + 1 <= b
      <4>1. PICK j \in Nat, l \in Nat : j = i /\ l = r /\ l > 0
        BY <1>6, <1>7, <2>11
      <4>2. j + 1 <= j + l
        BY <4>1
      <4> QED  BY <1>6, <1>8, <2>11, <4>1, <4>2
    <3>2. i \in Nat /\ i < b /\ i # s.count
      BY <1>7, <1>8, <3>1
    <3>3. s.delayed[r].start = s.end
      BY <3>1 DEF Traversed
    <3>4. Next0(p, i) = MinOf(s.end, t.peak)
      BY <2>6, <2>11, <3>2, <3>3 DEF Next0
    <3>5. ASSUME NEW k \in i + 1..s.count  PROVE Possible(q[k], p[k]) /\ p[k][3] = Next0(p, k)
      <4>0. k \in Nat /\ i + 1 <= k /\ k <= c
        BY <1>7, <3>2
      <4>1. CASE k <= b - 1
        <5>1. k \in i + 1..b - 1 /\ k \in i + 1..b /\ k # s.count
          BY <1>7, <1>8, <4>0, <4>1
        <5> QED  BY <2>6, <5>1 DEF Next0
      <4>2. CASE k = b
        <5>1. k \in i + 1..b
          BY <4>0, <4>2
        <5>2. p[b][3] = s.delayed[1].end /\ Next0(p, b) = s.delayed[1].end
          BY <2>6, <2>9, <2>11, <3>1
        <5> QED  BY <2>6, <4>2, <5>1, <5>2
      <4>3. CASE k >= b + 1
        <5>1. k \in b + 1..c
          BY <4>0, <4>3
        <5> QED  BY <2>8, <5>1
      <4> QED  BY <1>8, <4>0, <4>1, <4>2, <4>3
    <3> QED  BY <1>3, <1>9, <2>4, <3>4, <3>5 DEF Next0, p, PlanReady
  <2> QED  BY <1>6, <2>10, <2>11
<1> QED  BY <1>12, <1>13

\* A move that accelerates has its speeds, with them the moves that waited for it.
LEMMA PlanMoves ==
  ASSUME NEW q, Chained(q), NEW i \in 1..Len(q), NEW s, Traversed(q, s, i + 1),
         NEW t, t = FlushStep(q, s, i), NEW after, t = after[i],
         PlannedFrom(q, after, s, i + 1), ~s.updating, Accelerates(q, s, i)
  PROVE  PlannedFrom(q, after, t, i)
<1> DEFINE p == PlanBefore(q, s, t, i)
           v == JunctionOf(q, s, t, i)
           Next0(k) == IF k = s.count THEN MinOf(after[k + 1].end, after[k + 1].peak)
                       ELSE p[k + 1][1]
<1>1. SpeedsOK(s) /\ Len(q) \in Nat
  BY DEF Traversed, Chained
<1>2. t.delayed = << >>
  BY DelayedEnds
<1>3. /\ ~t.updating /\ t.count = s.count /\ i <= s.count /\ s.count \in 1..Len(q)
      /\ t.updating \in BOOLEAN /\ p \in [1..Len(q) -> Seq(Nat)]
      /\ \A k \in i + 1..s.count : Possible(q[k], p[k]) /\ p[k][3] = Next0(k)
      /\ Next0(i) = MinOf(s.end, t.peak)
  <2>1. PlanReady(q, s, t, i, after, p)
    BY PlanOthers
  <2> HIDE DEF p
  <2> QED  BY <2>1 DEF PlanReady
<1>4. Possible(q[i], v) /\ v \in Seq(Nat) /\ v[1] = MinOf(t.end, t.peak) /\ v[3] = MinOf(s.end, t.peak)
  <2>1. JunctionFits(q, s, t, i, v)
    BY JunctionHere
  <2> HIDE DEF v
  <2> QED  BY <2>1 DEF JunctionFits
<1> HIDE DEF p, v
<1>5. t.plan = [p EXCEPT ![i] = v]
  <2>1. t.plan = PlanAfter(q, s, t, i)
    BY <1>1, StepPlan
  <2>2. Flushes(t, i)
    BY <1>3 DEF Flushes
  <2> QED  BY <2>1, <2>2 DEF PlanAfter, p, v
<1>6. /\ t.plan \in [1..Len(q) -> Seq(Nat)] /\ t.plan[i] = v
      /\ \A k \in 1..Len(q) : k # i => t.plan[k] = p[k]
  BY <1>3, <1>4, <1>5
<1>7. t.updating \in BOOLEAN
  BY <1>3
<1>8. PICK c \in 1..Len(q) : c = s.count /\ i <= c
  BY <1>3
<1>9. LastOpen(t, i) = i - 1
  <2>1. Len(<< >>) = 0 /\ i + 0 - 1 = i - 1
    BY <1>1
  <2> QED  BY <1>2, <2>1 DEF LastOpen
<1>10. \A k \in i..c : NextStart(after, t, k) = Next0(k)
  <2> TAKE k \in i..c
  <2>1. CASE k = c
    BY <1>3, <1>8, <2>1 DEF NextStart
  <2>2. CASE k # c
    <3>1. k + 1 \in 1..Len(q) /\ k + 1 # i
      BY <1>1, <2>2
    <3>2. t.plan[k + 1] = p[k + 1]
      BY <1>6, <3>1
    <3> QED  BY <1>3, <1>8, <2>2, <3>2 DEF NextStart
  <2> QED  BY <2>1, <2>2
<1>11. NextStart(after, t, i - 1) = MinOf(t.end, t.peak)
  <2>1. i - 1 # t.count /\ (i - 1) + 1 = i
    BY <1>1, <1>3, <1>8
  <2>2. NextStart(after, t, i - 1) = t.plan[i][1]
    BY <2>1 DEF NextStart
  <2> QED  BY <1>4, <1>6, <2>2
<1> HIDE DEF Next0
<1>12. ASSUME NEW k \in i..c
       PROVE  Possible(q[k], t.plan[k]) /\ t.plan[k][3] = NextStart(after, t, k)
  <2>1. CASE k = i
    BY <1>3, <1>4, <1>6, <1>10, <2>1
  <2>2. CASE k # i
    <3>1. k \in i + 1..s.count /\ k \in 1..Len(q)
      BY <1>8, <2>2
    <3>2. t.plan[k] = p[k]
      BY <1>6, <2>2, <3>1
    <3> QED  BY <1>3, <1>10, <3>1, <3>2
  <2> QED  BY <2>1, <2>2
<1>13. \A k \in LastOpen(t, i) + 1..t.count :
          Possible(q[k], t.plan[k]) /\ t.plan[k][3] = NextStart(after, t, k)
  <2>1. LastOpen(t, i) + 1 = i /\ t.count = c
    BY <1>1, <1>3, <1>8, <1>9
  <2> QED  BY <1>12, <2>1
<1>14. t.count \in 0..Len(q) /\ LastOpen(t, i) <= t.count
  BY <1>1, <1>3, <1>8, <1>9
<1>15. NextStart(after, t, LastOpen(t, i)) = MinOf(t.end, t.peak)
  BY <1>9, <1>11
<1> QED  BY <1>2, <1>6, <1>7, <1>13, <1>14, <1>15 DEF PlannedFrom

LEMMA PlannedAll ==
  ASSUME NEW q, Chained(q), NEW lazy \in BOOLEAN, NEW after, Traversal(q, lazy, after)
  PROVE  \A i \in 1..Len(q) + 1 : PlannedFrom(q, after, after[i], i)
<1> DEFINE n == Len(q)
           T == {i \in 1..n + 1 : PlannedFrom(q, after, after[i], i)}
<1>1. n \in Nat
  BY DEF Chained
<1>2. n + 1 \in T
  <2>1. PICK s : s = after[n + 1]
    OBVIOUS
  <2>2. s = FlushStart(n, lazy)
    BY <2>1 DEF Traversal
  <2>3. /\ s.plan = [i \in 1..n |-> << >>] /\ s.updating = lazy /\ s.count = n
        /\ s.delayed = << >>
    BY <2>2 DEF FlushStart
  <2>4. s.plan \in [1..n -> Seq(Nat)]
    <3>1. << >> \in Seq(Nat)
      OBVIOUS
    <3> QED  BY <2>3, <3>1
  <2>5. LastOpen(s, n + 1) = n
    <3>1. Len(<< >>) = 0 /\ n + 1 + 0 - 1 = n
      BY <1>1
    <3> QED  BY <2>3, <3>1 DEF LastOpen
  <2>6. n + 1..n = {} /\ n <= n /\ n \in 0..n
    BY <1>1
  <2>7. NextStart(after, s, n) = MinOf(s.end, s.peak)
    BY <2>1, <2>3 DEF NextStart
  <2>8. PlannedFrom(q, after, s, n + 1)
    BY <2>3, <2>4, <2>5, <2>6, <2>7 DEF PlannedFrom
  <2> QED  BY <1>1, <2>1, <2>8
<1>3. ASSUME NEW i \in 1..n, i + 1 \in T  PROVE i \in T
  <2>1. PICK s, t : s = after[i + 1] /\ t = after[i]
    OBVIOUS
  <2>2. t = FlushStep(q, s, i) /\ Traversed(q, s, i + 1) /\ PlannedFrom(q, after, s, i + 1)
    BY <1>3, <2>1, StepOf
  <2>3. t.updating = (s.updating /\ ~Found(q, s, i))
    BY <2>2, StepControl DEF Traversed
  <2>4. CASE t.updating \/ Found(q, s, i) \/ ~Accelerates(q, s, i)
    <3>1. PlannedFrom(q, after, t, i)
      BY <2>1, <2>2, <2>4, PlanWaits
    <3> QED  BY <1>1, <2>1, <3>1
  <2>5. CASE ~s.updating /\ Accelerates(q, s, i)
    <3>1. PlannedFrom(q, after, t, i)
      BY <2>1, <2>2, <2>5, PlanMoves
    <3> QED  BY <1>1, <2>1, <3>1
  <2>6. s.updating \in BOOLEAN
    BY <2>2 DEF PlannedFrom
  <2> QED  BY <2>3, <2>4, <2>5, <2>6
<1> HIDE DEF T
<1>4. \A i \in 1..n + 1 : i \in T
  <2>1. \A i \in 1..(n + 1) - 1 : i + 1 \in T => i \in T
    BY <1>1, <1>3
  <2> QED  BY <1>1, <1>2, <2>1, Downward
<1> QED  BY <1>4 DEF T

\* The moves that wait after the i-th do not accelerate; the next one does.
RunOver(q, after, i) ==
    /\ \A j \in i..i + Len(after[i].delayed) - 1 : ~Accelerates(q, after[j + 1], j)
    /\ \A j \in 1..Len(q) : j = i + Len(after[i].delayed) => Accelerates(q, after[j + 1], j)

LEMMA RunOverAll ==
  ASSUME NEW q, Chained(q), NEW lazy, NEW after, Traversal(q, lazy, after)
  PROVE  \A i \in 1..Len(q) + 1 : RunOver(q, after, i)
<1> DEFINE n == Len(q)
           T == {i \in 1..n + 1 : RunOver(q, after, i)}
<1>1. n \in Nat
  BY DEF Chained
<1>2. n + 1 \in T
  <2>1. after[n + 1].delayed = << >>
    BY DEF Traversal, FlushStart
  <2>2. Len(<< >>) = 0 /\ n + 1..n + 1 + 0 - 1 = {} /\ n + 1 + 0 \notin 1..n
    BY <1>1
  <2> QED  BY <1>1, <2>1, <2>2 DEF RunOver
<1>3. ASSUME NEW i \in 1..n, i + 1 \in T  PROVE i \in T
  <2>1. PICK s, t : s = after[i + 1] /\ t = after[i]
    OBVIOUS
  <2>2. t = FlushStep(q, s, i) /\ Traversed(q, s, i + 1) /\ RunOver(q, after, i + 1)
    BY <1>3, <2>1, StepOf
  <2>3. SpeedsOK(s) /\ s.delayed \in Seq(DelayedMoves) /\ Len(s.delayed) \in Nat
    BY <2>2 DEF Traversed, RunFrom
  <2>4. CASE Accelerates(q, s, i)
    <3>1. after[i].delayed = << >>
      BY <2>1, <2>4, StepOf
    <3>2. Len(<< >>) = 0 /\ i..i + 0 - 1 = {} /\ i + 0 = i
      BY <1>1
    <3> QED  BY <1>1, <2>1, <2>4, <3>1, <3>2 DEF RunOver
  <2>5. CASE ~Accelerates(q, s, i)
    <3>1. t.delayed = Append(s.delayed, Delayed(i, t.end, s.end))
      BY <2>2, <2>3, <2>5, StepControl
    <3>2. Len(t.delayed) = Len(s.delayed) + 1
      <4>1. PICK v \in Seq(DelayedMoves) : v = s.delayed
        BY <2>3
      <4>2. PICK x : x = Delayed(i, t.end, s.end)
        OBVIOUS
      <4>3. Len(Append(v, x)) = Len(v) + 1
        OBVIOUS
      <4> QED  BY <3>1, <4>1, <4>2, <4>3
    <3>3. PICK r \in Nat : r = Len(s.delayed) /\ r + 1 = Len(t.delayed)
      BY <2>3, <3>2
    <3>4. PICK b \in Nat : b = i + 1 + r /\ i + (r + 1) = b /\ i + (r + 1) - 1 = b - 1
                           /\ i + 1 + r - 1 = b - 1 /\ i \in Nat
      BY <1>1
    <3>5. /\ \A j \in i + 1..b - 1 : ~Accelerates(q, after[j + 1], j)
          /\ \A j \in 1..n : j = b => Accelerates(q, after[j + 1], j)
      BY <2>1, <2>2, <3>3, <3>4 DEF RunOver
    <3>6. \A j \in i..b - 1 : ~Accelerates(q, after[j + 1], j)
      <4> TAKE j \in i..b - 1
      <4>1. CASE j = i
        BY <2>1, <2>5, <4>1
      <4>2. CASE j # i
        <5>1. j \in i + 1..b - 1
          BY <3>4, <4>2
        <5> QED  BY <3>5, <5>1
      <4> QED  BY <4>1, <4>2
    <3>7. RunOver(q, after, i)
      BY <2>1, <3>3, <3>4, <3>5, <3>6 DEF RunOver
    <3> QED  BY <1>1, <3>7
  <2> QED  BY <2>4, <2>5
<1> HIDE DEF T
<1>4. \A i \in 1..n + 1 : i \in T
  <2>1. \A i \in 1..(n + 1) - 1 : i + 1 \in T => i \in T
    BY <1>1, <1>3
  <2> QED  BY <1>1, <1>2, <2>1, Downward
<1> QED  BY <1>4 DEF T

\* Speeds are decided up to the end, or up to a peak that was found.
FoundAt(q, after, c, i) ==
    c = Len(q) \/ \E a \in i..Len(q) : a = c + 1 /\ Found(q, after[a + 1], a)

LEMMA FoundAll ==
  ASSUME NEW q, Chained(q), NEW lazy, NEW after, Traversal(q, lazy, after)
  PROVE  \A i \in 1..Len(q) + 1 : FoundAt(q, after, after[i].count, i)
<1> DEFINE n == Len(q)
           T == {i \in 1..n + 1 : FoundAt(q, after, after[i].count, i)}
<1>1. n \in Nat
  BY DEF Chained
<1>2. n + 1 \in T
  <2>1. after[n + 1].count = n
    BY DEF Traversal, FlushStart
  <2> QED  BY <1>1, <2>1 DEF FoundAt
<1>3. ASSUME NEW i \in 1..n, i + 1 \in T  PROVE i \in T
  <2>1. PICK s, t : s = after[i + 1] /\ t = after[i]
    OBVIOUS
  <2>2. t = FlushStep(q, s, i) /\ SpeedsOK(s) /\ FoundAt(q, after, s.count, i + 1)
    <3>1. t = FlushStep(q, s, i) /\ Traversed(q, s, i + 1)
      BY <2>1, StepOf
    <3>2. FoundAt(q, after, s.count, i + 1)
      BY <1>3, <2>1
    <3> QED  BY <3>1, <3>2 DEF Traversed
  <2>3. t.count = IF Found(q, s, i) THEN i - 1 ELSE s.count
    BY <2>2, StepControl
  <2>4. CASE Found(q, s, i)
    <3>1. i \in i..n /\ i = (i - 1) + 1
      BY <1>1
    <3>2. FoundAt(q, after, i - 1, i)
      BY <2>1, <2>4, <3>1 DEF FoundAt
    <3> QED  BY <1>1, <2>1, <2>3, <2>4, <3>2
  <2>5. CASE ~Found(q, s, i)
    <3>1. \A a \in i + 1..n : a \in i..n
      BY <1>1
    <3>2. FoundAt(q, after, s.count, i)
      BY <2>2, <3>1 DEF FoundAt
    <3> QED  BY <1>1, <2>1, <2>3, <2>5, <3>2
  <2> QED  BY <2>4, <2>5
<1> HIDE DEF T
<1>4. \A i \in 1..n + 1 : i \in T
  <2>1. \A i \in 1..(n + 1) - 1 : i + 1 \in T => i \in T
    BY <1>1, <1>3
  <2> QED  BY <1>1, <1>2, <2>1, Downward
<1> QED  BY <1>4 DEF T

\* What is known of a queue whose first part was flushed with a peak found at its
\* first move: the peak at the w-th is one whatever is queued behind it, for the
\* smoothed speeds are g at least.  So the speed F with which the part that was
\* flushed ends is the one that any later traversal comes to.
HeldBy(q, F, w, e, g) ==
    /\ w \in 2..Len(q) /\ g \in [1..Len(q) + 1 -> Nat] /\ e \in [1..w -> Nat]
    /\ g[Len(q) + 1] = 0
    /\ \A i \in 1..Len(q) : g[i] <= q[i].maxSmoothed /\ g[i] <= g[i + 1] + q[i].smooth
    /\ q[w].maxSmoothed < g[w + 1] + q[w].smooth
    /\ q[w].maxSmoothed = q[w].maxStart /\ g[w] = q[w].maxStart /\ e[w] = q[w].maxStart
    /\ \A i \in 1..w - 1 : e[i] = MinOf(q[i].maxStart, e[i + 1] + q[i].delta)
    /\ \A i \in 2..w - 1 : g[i] = g[i + 1] + q[i].smooth
    /\ q[1].maxSmoothed < g[2] + q[1].smooth
    /\ w > 2 \/ q[1].maxSmoothed + q[1].smooth > g[2]
    /\ F = MinOf(e[1], MinOf(q[1].cruise, (q[1].maxSmoothed + (g[2] + q[1].smooth)) \div 2))

\* The first move of a queue starts where the part that was flushed ended.
StartsFrom(q, F) ==
    \/ q[1].maxStart = 0 /\ F = 0
    \/ \E w, e, g : HeldBy(q, F, w, e, g)

LEMMA HeldBelow ==
  ASSUME NEW q, Chained(q), NEW lazy, NEW after, Traversal(q, lazy, after),
         NEW F, NEW w, NEW e, NEW g, HeldBy(q, F, w, e, g)
  PROVE  \A i \in 1..Len(q) + 1 : g[i] <= after[i].smoothed
<1> DEFINE n == Len(q)
           T == {i \in 1..n + 1 : g[i] <= after[i].smoothed}
<1>1. n \in Nat
  BY DEF Chained
<1>2. n + 1 \in T
  <2>1. after[n + 1].smoothed = 0
    BY DEF Traversal, FlushStart
  <2>2. g[n + 1] = 0
    BY DEF HeldBy
  <2> QED  BY <1>1, <2>1, <2>2
<1>3. ASSUME NEW i \in 1..n, i + 1 \in T  PROVE i \in T
  <2>1. PICK s, t : s = after[i + 1] /\ t = after[i]
    OBVIOUS
  <2>2. t = FlushStep(q, s, i) /\ Traversed(q, s, i + 1)
    BY <2>1, StepOf
  <2>3. SpeedsOK(s)
    BY <2>2 DEF Traversed
  <2>4. t.smoothed = MinOf(q[i].maxSmoothed, s.smoothed + q[i].smooth)
    BY <2>2, <2>3, StepSpeeds
  <2>5. q[i].maxSmoothed \in Nat /\ q[i].smooth \in Nat /\ s.smoothed \in Nat
    BY <2>3, ChainedMove DEF SpeedsOK
  <2>6. g[i] <= q[i].maxSmoothed /\ g[i] <= g[i + 1] + q[i].smooth
    BY DEF HeldBy
  <2>7. g[i] \in Nat /\ g[i + 1] \in Nat
    <3>1. i \in 1..n + 1 /\ i + 1 \in 1..n + 1
      BY <1>1
    <3> QED  BY <3>1 DEF HeldBy
  <2>8. PICK a \in Nat, b \in Nat, m \in Nat, d \in Nat, x \in Nat :
           /\ a = g[i] /\ b = g[i + 1] /\ m = q[i].maxSmoothed /\ d = q[i].smooth
           /\ x = s.smoothed /\ a <= m /\ a <= b + d /\ b <= x
    BY <1>3, <2>1, <2>5, <2>6, <2>7
  <2>9. a <= MinOf(m, x + d)
    <3>1. a <= m /\ a <= b + d /\ b <= x
      BY <2>8
    <3> QED  BY <3>1 DEF MinOf
  <2>10. g[i] <= after[i].smoothed
    BY <2>1, <2>4, <2>8, <2>9
  <2> QED  BY <1>1, <2>10
<1> HIDE DEF T
<1>4. \A i \in 1..n + 1 : i \in T
  <2>1. \A i \in 1..(n + 1) - 1 : i + 1 \in T => i \in T
    BY <1>1, <1>3
  <2> QED  BY <1>1, <1>2, <2>1, Downward
<1> QED  BY <1>4 DEF T

HeldAs(after, w, e, g, i) ==
    /\ after[i].smoothed = g[i] /\ after[i].end = e[i]
    /\ i < w => after[i].delayed # << >>

LEMMA HeldReached ==
  ASSUME NEW q, Chained(q), NEW lazy, NEW after, Traversal(q, lazy, after),
         NEW F, NEW w, NEW e, NEW g, HeldBy(q, F, w, e, g)
  PROVE  HeldAs(after, w, e, g, w)
<1>1. Len(q) \in Nat /\ w \in 1..Len(q) /\ w + 1 \in 1..Len(q) + 1 /\ w \in 1..Len(q) + 1 /\ w \in Nat
  BY DEF Chained, HeldBy
<1>2. PICK s, t : s = after[w + 1] /\ t = after[w]
  OBVIOUS
<1>3. t = FlushStep(q, s, w) /\ Traversed(q, s, w + 1)
  BY <1>1, <1>2, StepOf
<1>4. SpeedsOK(s)
  BY <1>3 DEF Traversed
<1>5. g[w + 1] <= s.smoothed
  BY <1>1, <1>2, HeldBelow
<1>6. /\ q[w].maxSmoothed \in Nat /\ q[w].smooth \in Nat /\ q[w].maxStart \in Nat
  BY <1>1, ChainedMove
<1>7. s.smoothed \in Nat /\ g[w + 1] \in Nat
  BY <1>1, <1>4 DEF SpeedsOK, HeldBy
<1>8. /\ q[w].maxSmoothed < g[w + 1] + q[w].smooth
      /\ q[w].maxSmoothed = q[w].maxStart /\ g[w] = q[w].maxStart /\ e[w] = q[w].maxStart
  BY DEF HeldBy
<1>9. Accelerates(q, s, w)
  <2>1. PICK a \in Nat, b \in Nat, m \in Nat, d \in Nat :
           a = s.smoothed /\ b = g[w + 1] /\ m = q[w].maxSmoothed /\ d = q[w].smooth
           /\ m < b + d /\ b <= a
    BY <1>5, <1>6, <1>7, <1>8
  <2>2. m < a + d
    BY <2>1
  <2> QED  BY <2>1, <2>2 DEF Accelerates
<1>10. /\ SpeedsOK(t) /\ t.smoothed = q[w].maxSmoothed /\ t.end <= q[w].maxStart
  BY <1>1, <1>3, <1>4, <1>9, StepSpeeds
<1>11. t.end \in Nat /\ t.smoothed <= t.end
  BY <1>10 DEF SpeedsOK
<1>12. t.end = q[w].maxStart
  BY <1>6, <1>8, <1>10, <1>11
<1>13. ~(w < w)
  BY <1>1
<1> QED  BY <1>2, <1>8, <1>10, <1>12, <1>13 DEF HeldAs

LEMMA HeldStep ==
  ASSUME NEW q, Chained(q), NEW lazy, NEW after, Traversal(q, lazy, after),
         NEW F, NEW w, NEW e, NEW g, HeldBy(q, F, w, e, g),
         NEW i \in 2..w - 1, HeldAs(after, w, e, g, i + 1)
  PROVE  HeldAs(after, w, e, g, i)
<1>1. /\ Len(q) \in Nat /\ w \in 2..Len(q)
  BY DEF Chained, HeldBy
<1>2. i \in 1..Len(q) /\ i + 1 \in 1..Len(q) + 1 /\ i \in 1..w - 1 /\ i + 1 \in 1..w /\ i \in Nat
  BY <1>1
<1>3. PICK s, t : s = after[i + 1] /\ t = after[i]
  OBVIOUS
<1>4. t = FlushStep(q, s, i) /\ Traversed(q, s, i + 1)
  BY <1>2, <1>3, StepOf
<1>5. SpeedsOK(s)
  BY <1>4 DEF Traversed
<1>6. s.smoothed = g[i + 1] /\ s.end = e[i + 1]
  BY <1>3 DEF HeldAs
<1>7. g[i] = g[i + 1] + q[i].smooth /\ g[i] <= q[i].maxSmoothed
      /\ e[i] = MinOf(q[i].maxStart, e[i + 1] + q[i].delta)
  BY <1>2 DEF HeldBy
<1>8. q[i].maxSmoothed \in Nat /\ q[i].smooth \in Nat /\ g[i + 1] \in Nat
  <2>1. g[i + 1] \in Nat
    BY <1>2 DEF HeldBy
  <2> QED  BY <1>2, <2>1, ChainedMove
<1>9. ~Accelerates(q, s, i)
  <2>1. PICK b \in Nat, m \in Nat, d \in Nat :
           b = g[i + 1] /\ m = q[i].maxSmoothed /\ d = q[i].smooth /\ b + d <= m
    BY <1>7, <1>8
  <2>2. ~(m < b + d)
    BY <2>1
  <2> QED  BY <1>6, <2>1, <2>2 DEF Accelerates
<1>10. /\ t.end = MinOf(q[i].maxStart, s.end + q[i].delta)
       /\ t.smoothed = s.smoothed + q[i].smooth
  BY <1>2, <1>4, <1>5, <1>9, StepSpeeds
<1>11. t.delayed # << >>
  <2>1. ~(after[i].delayed = << >>)
    BY <1>2, <1>3, <1>9, StepOf
  <2> QED  BY <1>3, <2>1
<1> QED  BY <1>3, <1>6, <1>7, <1>10, <1>11 DEF HeldAs

LEMMA HeldAll ==
  ASSUME NEW q, Chained(q), NEW lazy, NEW after, Traversal(q, lazy, after),
         NEW F, NEW w, NEW e, NEW g, HeldBy(q, F, w, e, g)
  PROVE  HeldAs(after, w, e, g, 2)
<1> DEFINE T == {i \in 1..w : i = 1 \/ HeldAs(after, w, e, g, i)}
<1>1. w \in Nat /\ 2 <= w /\ Len(q) \in Nat
  BY DEF HeldBy, Chained
<1>2. w \in T
  BY <1>1, HeldReached
<1>3. ASSUME NEW i \in 1..w - 1, i + 1 \in T  PROVE i \in T
  <2>1. i \in 1..w /\ i + 1 # 1
    BY <1>1
  <2>2. CASE i = 1
    BY <2>1, <2>2
  <2>3. CASE i # 1
    <3>1. i \in 2..w - 1 /\ HeldAs(after, w, e, g, i + 1)
      BY <1>1, <1>3, <2>1, <2>3
    <3>2. HeldAs(after, w, e, g, i)
      BY <3>1, HeldStep
    <3> QED  BY <2>1, <3>2
  <2> QED  BY <2>2, <2>3
<1> HIDE DEF T
<1>4. \A i \in 1..w : i \in T
  <2>1. \A i \in 1..w - 1 : i + 1 \in T => i \in T
    BY <1>3
  <2> QED  BY <1>1, <1>2, <2>1, Downward
<1>5. 2 \in T
  BY <1>1, <1>4
<1> QED  BY <1>5 DEF T

\* What any traversal of the queue comes to.
Ends(s, F) == s.delayed = << >> /\ MinOf(s.end, s.peak) = F

LEMMA HeldEnds ==
  ASSUME NEW q, Chained(q), NEW lazy, NEW after, Traversal(q, lazy, after),
         NEW F, NEW w, NEW e, NEW g, HeldBy(q, F, w, e, g)
  PROVE  Ends(after[1], F)
<1>1. w \in Nat /\ 2 <= w /\ Len(q) \in Nat /\ 1 \in 1..Len(q) /\ 1 \in 1..w - 1
  BY DEF HeldBy, Chained
<1>2. PICK s, t : s = after[1 + 1] /\ t = after[1] /\ s = after[2]
  OBVIOUS
<1>3. t = FlushStep(q, s, 1) /\ Traversed(q, s, 1 + 1)
  BY <1>1, <1>2, StepOf
<1>4. SpeedsOK(s)
  BY <1>3 DEF Traversed
<1>5. s.smoothed = g[2] /\ s.end = e[2] /\ (2 < w => s.delayed # << >>)
  BY <1>2, HeldAll DEF HeldAs
<1>6. /\ e[1] = MinOf(q[1].maxStart, e[2] + q[1].delta)
      /\ q[1].maxSmoothed < g[2] + q[1].smooth
      /\ w > 2 \/ q[1].maxSmoothed + q[1].smooth > g[2]
      /\ F = MinOf(e[1], MinOf(q[1].cruise, (q[1].maxSmoothed + (g[2] + q[1].smooth)) \div 2))
  <2>1. e[1] = MinOf(q[1].maxStart, e[1 + 1] + q[1].delta)
    BY <1>1 DEF HeldBy
  <2>2. 1 + 1 = 2
    OBVIOUS
  <2> QED  BY <2>1, <2>2 DEF HeldBy
<1>7. Accelerates(q, s, 1)
  BY <1>5, <1>6 DEF Accelerates
<1>8. Turns(q, s, 1)
  <2>1. w > 2 => 2 < w
    BY <1>1
  <2> QED  BY <1>5, <1>6, <1>7, <2>1 DEF Turns
<1>9. /\ t.end = MinOf(q[1].maxStart, s.end + q[1].delta)
      /\ t.peak = IF Turns(q, s, 1) THEN PeakOf(q, s, 1) ELSE s.peak
  BY <1>1, <1>3, <1>4, StepSpeeds
<1>10. t.peak = MinOf(q[1].cruise, (q[1].maxSmoothed + (g[2] + q[1].smooth)) \div 2)
  BY <1>5, <1>8, <1>9 DEF PeakOf
<1>11. t.end = e[1]
  BY <1>5, <1>6, <1>9
<1>12. t.delayed = << >>
  BY <1>1, <1>3, <1>7, DelayedEnds
<1> QED  BY <1>2, <1>6, <1>10, <1>11, <1>12 DEF Ends

LEMMA FrontEnds ==
  ASSUME NEW q, Chained(q), Len(q) > 0, NEW lazy, NEW after, Traversal(q, lazy, after),
         NEW F, StartsFrom(q, F)
  PROVE  Ends(after[1], F)
<1>1. CASE \E w, e, g : HeldBy(q, F, w, e, g)
  BY <1>1, HeldEnds
<1>2. CASE q[1].maxStart = 0 /\ F = 0
  <2>1. Len(q) \in Nat /\ 1 \in 1..Len(q)
    BY DEF Chained
  <2>2. PICK s, t : s = after[1 + 1] /\ t = after[1]
    OBVIOUS
  <2>3. t = FlushStep(q, s, 1) /\ Traversed(q, s, 1 + 1)
    BY <2>1, <2>2, StepOf
  <2>4. SpeedsOK(s)
    BY <2>3 DEF Traversed
  <2>5. /\ q[1].maxSmoothed \in Nat /\ q[1].smooth \in Nat /\ q[1].smooth > 0
        /\ q[1].maxSmoothed <= q[1].maxStart
    BY <2>1, ChainedMove
  <2>6. s.smoothed \in Nat
    BY <2>4 DEF SpeedsOK
  <2>7. Accelerates(q, s, 1)
    <3>1. q[1].maxSmoothed = 0
      BY <1>2, <2>5
    <3>2. 0 < s.smoothed + q[1].smooth
      BY <2>5, <2>6
    <3> QED  BY <3>1, <3>2 DEF Accelerates
  <2>8. t.delayed = << >>
    BY <2>1, <2>3, <2>7, DelayedEnds
  <2>9. SpeedsOK(t) /\ t.end <= q[1].maxStart
    BY <2>1, <2>3, <2>4, StepSpeeds
  <2>10. t.end \in Nat /\ t.peak \in Nat
    BY <2>9 DEF SpeedsOK
  <2>11. t.end = 0
    BY <1>2, <2>9, <2>10
  <2>12. MinOf(t.end, t.peak) = 0
    BY <2>10, <2>11 DEF MinOf
  <2> QED  BY <1>2, <2>2, <2>8, <2>12 DEF Ends
<1> QED  BY <1>1, <1>2 DEF StartsFrom

\* A part of the queue is left.
LEMMA RestFacts ==
  ASSUME NEW q, Chained(q), NEW c \in 0..Len(q), NEW p, p = SubSeq(q, c + 1, Len(q))
  PROVE  /\ p \in Seq(QueuedMoves) /\ Len(q) \in Nat /\ Len(p) = Len(q) - c
         /\ \A k \in 1..Len(q) - c : p[k] = q[c + k] /\ c + k \in 1..Len(q)
         /\ Chained(p)
<1>1. PICK n \in Nat : n = Len(q) /\ c \in 0..n
  BY DEF Chained
<1>2. q \in Seq(QueuedMoves)
  BY DEF Chained
<1>3. /\ p \in Seq(QueuedMoves) /\ Len(p) = n - c
      /\ \A k \in 1..n - c : p[k] = q[c + k] /\ c + k \in 1..n
  BY <1>1, <1>2
<1>4. ASSUME NEW k \in 1..n - c
      PROVE  /\ p[k].smooth > 0 /\ p[k].smooth <= p[k].delta
             /\ p[k].maxStart <= p[k].cruise /\ p[k].maxStart <= p[k].junction
             /\ p[k].maxSmoothed <= p[k].maxStart
  <2>1. PICK i \in 1..Len(q) : i = c + k /\ p[k] = q[i]
    BY <1>1, <1>3
  <2> QED  BY <2>1, ChainedMove
<1>5. ASSUME NEW k \in 1..(n - c) - 1
      PROVE  /\ p[k + 1].maxStart <= p[k].cruise
             /\ p[k + 1].maxStart <= p[k].maxStart + p[k].delta
             /\ p[k + 1].maxSmoothed = MinOf(p[k + 1].maxStart, p[k].maxSmoothed + p[k].smooth)
  <2>1. k \in 1..n - c /\ k + 1 \in 1..n - c /\ c + (k + 1) = (c + k) + 1 /\ c + k \in 1..n - 1
    BY <1>1
  <2>2. PICK i \in 1..Len(q) - 1 : i = c + k /\ p[k] = q[i] /\ p[k + 1] = q[i + 1]
    BY <1>1, <1>3, <2>1
  <2>3. /\ q[i + 1].maxStart <= q[i].cruise
        /\ q[i + 1].maxStart <= q[i].maxStart + q[i].delta
        /\ q[i + 1].maxSmoothed = MinOf(q[i + 1].maxStart, q[i].maxSmoothed + q[i].smooth)
    BY DEF Chained
  <2> QED  BY <2>2, <2>3
<1>6. Chained(p)
  BY <1>3, <1>4, <1>5 DEF Chained
<1> QED  BY <1>1, <1>3, <1>6

\* Where a peak was found another one comes after it.
LEMMA PeakAfter ==
  ASSUME NEW q, Chained(q), NEW lazy, NEW after, Traversal(q, lazy, after),
         NEW a \in 1..Len(q), Found(q, after[a + 1], a)
  PROVE  \E b \in a + 1..Len(q) :
           /\ \A j \in a + 1..b - 1 : ~Accelerates(q, after[j + 1], j)
           /\ Accelerates(q, after[b + 1], b)
           /\ after[b].end = q[b].maxStart /\ after[b].smoothed = q[b].maxStart
           /\ q[b].maxSmoothed = q[b].maxStart
           /\ b > a + 1 \/ q[a].maxSmoothed + q[a].smooth > after[a + 1].smoothed
<1>1. PICK n \in Nat : n = Len(q)
  BY DEF Chained
<1>2. PICK s : s = after[a + 1]
  OBVIOUS
<1>3. a \in Nat /\ a + 1 \in 1..n + 1
  BY <1>1
<1>4. Traversed(q, s, a + 1) /\ RunOver(q, after, a + 1)
  BY <1>1, <1>2, <1>3, TraversedAll, RunOverAll
<1>5. s.peak > 0 /\ s.peak \in Nat /\ Turns(q, s, a)
  BY <1>2, <1>4 DEF Found, Traversed, SpeedsOK
<1>6. PICK r \in Nat : r = Len(s.delayed) /\ (s.delayed = << >> <=> r = 0)
                     /\ a + r <= n
  <2>0. RunFrom(q, s.delayed, a + 1)
    BY <1>4 DEF Traversed
  <2>1. s.delayed \in Seq(DelayedMoves) /\ (a + 1) + Len(s.delayed) - 1 <= n
    BY <1>1, <2>0 DEF RunFrom
  <2>2. PICK v \in Seq(DelayedMoves) : v = s.delayed
    BY <2>1
  <2>3. PICK l \in Nat : l = Len(v) /\ (v = << >> <=> l = 0)
    OBVIOUS
  <2>4. PICK c \in Nat : c = a
    BY <1>3
  <2>5. (c + 1) + l - 1 <= n
    BY <2>1, <2>2, <2>3, <2>4
  <2>6. (c + 1) + l - 1 = c + l
    OBVIOUS
  <2>7. c + l <= n
    BY <2>5, <2>6
  <2> QED  BY <2>2, <2>3, <2>4, <2>7
<1>7. a + 1 + r # n + 1
  <2>1. (a + 1) + Len(s.delayed) = Len(q) + 1 => s.peak = 0
    BY <1>4 DEF Traversed
  <2>2. s.peak # 0
    BY <1>5
  <2> QED  BY <1>1, <1>6, <2>1, <2>2
<1>8. PICK b \in Nat : b = a + 1 + r /\ b - 1 = a + 1 + r - 1
  BY <1>3
<1>9. b \in a + 1..n /\ (b > a + 1 <=> r > 0)
  <2>1. PICK c \in Nat : c = a /\ b = c + 1 + r /\ c + r <= n /\ c + 1 + r # n + 1
    BY <1>3, <1>6, <1>7, <1>8
  <2>2. b \in c + 1..n /\ (b > c + 1 <=> r > 0)
    BY <2>1
  <2> QED  BY <2>1, <2>2
<1>10. /\ \A j \in a + 1..b - 1 : ~Accelerates(q, after[j + 1], j)
       /\ \A j \in 1..Len(q) : j = b => Accelerates(q, after[j + 1], j)
  BY <1>2, <1>4, <1>6, <1>8 DEF RunOver
<1>11. b \in 1..Len(q) /\ b \in 2..n /\ b - 1 \in 1..Len(q) /\ (b - 1) + 1 = b /\ b - 1 < Len(q)
  BY <1>1, <1>3, <1>9
<1>12. Accelerates(q, after[b + 1], b) /\ after[b].delayed = << >>
  BY <1>10, <1>11, StepOf
<1>13. ASSUME r = 0  PROVE q[a].maxSmoothed + q[a].smooth > s.smoothed
  BY <1>5, <1>6, <1>13 DEF Turns
<1>0. PICK i \in 1..Len(q) : i = b - 1 /\ i + 1 = b /\ i < Len(q)
  BY <1>11
<1>14. PICK x : i = b - 1 /\ i + 1 = b /\ i < Len(q) /\ x = after[b]
  BY <1>0
<1>15. Traversed(q, x, i + 1)
  BY <1>11, <1>14, StepOf
<1>16. q[i].maxSmoothed + q[i].smooth > x.smoothed
  <2>1. CASE r = 0
    <3>1. i = a /\ b = a + 1
      BY <1>3, <1>8, <1>14, <2>1
    <3> QED  BY <1>2, <1>13, <1>14, <2>1, <3>1
  <2>2. CASE r > 0
    <3>1. i \in a + 1..b - 1
      BY <1>3, <1>9, <1>14, <2>2
    <3>2. ~Accelerates(q, x, i)
      BY <1>10, <1>14, <3>1
    <3>3. q[i].maxSmoothed \in Nat /\ q[i].smooth \in Nat /\ q[i].smooth > 0
      BY ChainedMove
    <3>4. x.smoothed \in Nat
      BY <1>15 DEF Traversed, SpeedsOK
    <3> QED  BY <3>2, <3>3, <3>4 DEF Accelerates
  <2> QED  BY <1>6, <2>1, <2>2
<1>17. x.delayed = << >>
  BY <1>12, <1>14
<1>18. /\ x.end = x.smoothed
       /\ x.smoothed = q[b].maxStart /\ x.smoothed = q[b].maxSmoothed
  <2>1. /\ x.end = x.smoothed
        /\ i < Len(q) => x.smoothed = q[i + 1].maxStart /\ x.smoothed = q[i + 1].maxSmoothed
    BY <1>15, <1>16, <1>17, JunctionKnown
  <2> QED  BY <1>14, <2>1
<1>19. b > a + 1 \/ q[a].maxSmoothed + q[a].smooth > after[a + 1].smoothed
  BY <1>2, <1>6, <1>9, <1>13
<1>20. b \in a + 1..Len(q)
  BY <1>1, <1>9
<1> QED  BY <1>10, <1>12, <1>14, <1>18, <1>19, <1>20

\* A peak that was found keeps the speed of the junction before it.
LEMMA HeldFound ==
  ASSUME NEW q, Chained(q), NEW lazy, NEW after, Traversal(q, lazy, after),
         NEW c \in Nat, NEW a \in 1..Len(q), a = c + 1, Found(q, after[a + 1], a)
  PROVE  StartsFrom(SubSeq(q, c + 1, Len(q)), MinOf(after[a].end, after[a].peak))
<1>1. PICK n \in Nat : n = Len(q) /\ c \in 0..n - 1 /\ c \in 0..n
  BY DEF Chained
<1>2. PICK p : p = SubSeq(q, c + 1, Len(q))
  OBVIOUS
<1>3. /\ Len(p) = n - c /\ Chained(p)
      /\ \A k \in 1..n - c : p[k] = q[c + k] /\ c + k \in 1..Len(q)
  <2>1. c \in 0..Len(q)
    BY <1>1
  <2> QED  BY <1>1, <1>2, <2>1, RestFacts
<1>4. PICK b \in a + 1..Len(q) :
         /\ \A j \in a + 1..b - 1 : ~Accelerates(q, after[j + 1], j)
         /\ Accelerates(q, after[b + 1], b)
         /\ after[b].end = q[b].maxStart /\ after[b].smoothed = q[b].maxStart
         /\ q[b].maxSmoothed = q[b].maxStart
         /\ b > a + 1 \/ q[a].maxSmoothed + q[a].smooth > after[a + 1].smoothed
  BY PeakAfter
<1>5. PICK w \in Nat : w = b - c /\ w \in 2..n - c /\ c + w = b /\ (b > a + 1 <=> w > 2)
  BY <1>1
<1> DEFINE g == [k \in 1..n - c + 1 |-> after[c + k].smoothed]
           e == [k \in 1..w |-> after[c + k].end]
           F == MinOf(after[a].end, after[a].peak)
<1>6. ASSUME NEW k \in 1..n - c
      PROVE  /\ SpeedsOK(after[c + k]) /\ SpeedsOK(after[c + k + 1])
             /\ after[c + k].end = MinOf(p[k].maxStart, after[c + k + 1].end + p[k].delta)
             /\ after[c + k].smoothed
                   = MinOf(p[k].maxSmoothed, after[c + k + 1].smoothed + p[k].smooth)
             /\ p[k].maxSmoothed \in Nat /\ p[k].smooth \in Nat
             /\ ~Accelerates(q, after[c + k + 1], c + k)
                   => after[c + k].smoothed = after[c + k + 1].smoothed + p[k].smooth
  <2>1. PICK i \in 1..Len(q) : i = c + k /\ p[k] = q[i] /\ i + 1 = c + k + 1
    BY <1>3
  <2>2. PICK s, t : s = after[i + 1] /\ t = after[i]
    OBVIOUS
  <2>3. t = FlushStep(q, s, i) /\ Traversed(q, s, i + 1)
    BY <2>2, StepOf
  <2>4. SpeedsOK(s)
    BY <2>3 DEF Traversed
  <2>5. /\ SpeedsOK(t) /\ t.end = MinOf(q[i].maxStart, s.end + q[i].delta)
        /\ t.smoothed = MinOf(q[i].maxSmoothed, s.smoothed + q[i].smooth)
        /\ ~Accelerates(q, s, i) => t.smoothed = s.smoothed + q[i].smooth
    BY <2>3, <2>4, StepSpeeds
  <2>6. q[i].maxSmoothed \in Nat /\ q[i].smooth \in Nat
    BY ChainedMove
  <2> QED  BY <2>1, <2>2, <2>4, <2>5, <2>6
<1>7. after[n + 1].smoothed = 0
  BY <1>1 DEF Traversal, FlushStart
<1>8. \A k \in 1..n - c : k + 1 \in 1..n - c + 1 /\ k \in 1..n - c + 1 /\ c + (k + 1) = c + k + 1
  BY <1>1
<1>9. \A k \in 1..n - c : g[k] = after[c + k].smoothed /\ g[k + 1] = after[c + k + 1].smoothed
  BY <1>8
<1>10. \A k \in 1..w - 1 : /\ k \in 1..n - c /\ e[k] = after[c + k].end
                           /\ e[k + 1] = after[c + k + 1].end
  <2>1. \A k \in 1..w - 1 : /\ k \in 1..n - c /\ k \in 1..w /\ k + 1 \in 1..w
                            /\ c + (k + 1) = c + k + 1
    BY <1>1, <1>5
  <2> QED  BY <2>1
<1>11. g \in [1..n - c + 1 -> Nat]
  <2>1. ASSUME NEW k \in 1..n - c + 1  PROVE after[c + k].smoothed \in Nat
    <3>1. CASE k \in 1..n - c
      BY <1>6, <3>1 DEF SpeedsOK
    <3>2. CASE k = n - c + 1
      <4>1. c + k = n + 1
        BY <1>1, <3>2
      <4> QED  BY <1>7, <4>1
    <3>3. k \in 1..n - c \/ k = n - c + 1
      BY <1>1
    <3> QED  BY <3>1, <3>2, <3>3
  <2> QED  BY <2>1
<1>12. e \in [1..w -> Nat]
  <2>1. ASSUME NEW k \in 1..w  PROVE after[c + k].end \in Nat
    <3>1. k \in 1..n - c
      BY <1>1, <1>5
    <3> QED  BY <1>6, <3>1 DEF SpeedsOK
  <2> QED  BY <2>1
<1>13. g[n - c + 1] = 0
  <2>1. n - c + 1 \in 1..n - c + 1 /\ c + (n - c + 1) = n + 1
    BY <1>1
  <2>2. g[n - c + 1] = after[c + (n - c + 1)].smoothed
    BY <2>1
  <2> QED  BY <1>7, <2>1, <2>2
<1>14. g[w] = after[c + w].smoothed /\ e[w] = after[c + w].end /\ g[w + 1] = after[c + w + 1].smoothed
  <2>1. w \in 1..w /\ w \in 1..n - c
    BY <1>1, <1>5
  <2> QED  BY <1>9, <2>1
<1>15. g[2] = after[c + 2].smoothed /\ e[1] = after[c + 1].end /\ 1 \in 1..n - c /\ c + 1 + 1 = c + 2
       /\ c + 2 = a + 1
  <2>1. 1 \in 1..n - c /\ 1 \in 1..w /\ 2 \in 1..n - c + 1 /\ c + 1 + 1 = c + 2 /\ c + 2 = a + 1
    BY <1>1, <1>5
  <2> QED  BY <2>1
<1> HIDE DEF g, e
<1>16. \A k \in 1..n - c : g[k] <= p[k].maxSmoothed /\ g[k] <= g[k + 1] + p[k].smooth
  <2> TAKE k \in 1..n - c
  <2>1. PICK m \in Nat, d \in Nat, x \in Nat :
           m = p[k].maxSmoothed /\ d = p[k].smooth /\ x = g[k + 1]
    BY <1>6, <1>8, <1>11
  <2>2. g[k] = MinOf(m, x + d)
    BY <1>6, <1>9, <2>1
  <2>3. MinOf(m, x + d) <= m /\ MinOf(m, x + d) <= x + d
    BY DEF MinOf
  <2> QED  BY <2>1, <2>2, <2>3
<1>17. p[w] = q[b] /\ w \in 1..n - c
  <2>1. w \in 1..n - c
    BY <1>1, <1>5
  <2> QED  BY <1>3, <1>5, <2>1
<1>18. /\ p[w].maxSmoothed < g[w + 1] + p[w].smooth
       /\ p[w].maxSmoothed = p[w].maxStart /\ g[w] = p[w].maxStart /\ e[w] = p[w].maxStart
  BY <1>4, <1>5, <1>14, <1>17 DEF Accelerates
<1>19. \A k \in 1..w - 1 : e[k] = MinOf(p[k].maxStart, e[k + 1] + p[k].delta)
  BY <1>6, <1>10
<1>20. \A k \in 2..w - 1 : g[k] = g[k + 1] + p[k].smooth
  <2> TAKE k \in 2..w - 1
  <2>1. k \in 1..n - c
    BY <1>1, <1>5
  <2>2. c + k \in a + 1..b - 1 /\ c + k + 1 = (c + k) + 1
    BY <1>1, <1>5
  <2>3. ~Accelerates(q, after[c + k + 1], c + k)
    BY <1>4, <2>2
  <2> QED  BY <1>6, <1>9, <2>1, <2>3
<1>21. p[1] = q[a]
  <2>1. c + 1 = a
    OBVIOUS
  <2> QED  BY <1>3, <1>15, <2>1
<1>22. Turns(q, after[a + 1], a)
  BY DEF Found
<1>23. p[1].maxSmoothed < g[2] + p[1].smooth
  BY <1>15, <1>21, <1>22 DEF Turns, Accelerates
<1>24. w > 2 \/ p[1].maxSmoothed + p[1].smooth > g[2]
  BY <1>4, <1>5, <1>15, <1>21
<1>25. after[a].peak = MinOf(p[1].cruise, (p[1].maxSmoothed + (g[2] + p[1].smooth)) \div 2)
  <2>1. PICK s, t : s = after[a + 1] /\ t = after[a]
    OBVIOUS
  <2>2. t = FlushStep(q, s, a) /\ Traversed(q, s, a + 1)
    BY <2>1, StepOf
  <2>3. SpeedsOK(s)
    BY <2>2 DEF Traversed
  <2>4. t.peak = IF Turns(q, s, a) THEN PeakOf(q, s, a) ELSE s.peak
    BY <2>2, <2>3, StepSpeeds
  <2> QED  BY <1>15, <1>21, <1>22, <2>1, <2>4 DEF PeakOf
<1>26. F = MinOf(e[1], MinOf(p[1].cruise, (p[1].maxSmoothed + (g[2] + p[1].smooth)) \div 2))
  BY <1>15, <1>25
<1>27. Len(p) = n - c
  BY <1>3
<1> HIDE DEF F
<1>28. HeldBy(p, F, w, e, g)
  BY <1>5, <1>11, <1>12, <1>13, <1>16, <1>18, <1>19, <1>20, <1>23, <1>24, <1>26, <1>27 DEF HeldBy
<1>29. StartsFrom(p, F)
  BY <1>28 DEF StartsFrom
<1> QED  BY <1>2, <1>29 DEF F

\* One more move behind the queue does not change it.
LEMMA FrontKept ==
  ASSUME NEW q, Chained(q), Len(q) > 0, NEW x, Chained(x), Len(x) = Len(q) + 1,
         \A k \in 1..Len(q) : x[k] = q[k], NEW F, StartsFrom(q, F)
  PROVE  StartsFrom(x, F)
<1>1. PICK n \in Nat : n = Len(q) /\ n > 0 /\ Len(x) = n + 1
  BY DEF Chained
<1>2. CASE q[1].maxStart = 0 /\ F = 0
  <2>1. x[1] = q[1]
    BY <1>1
  <2> QED  BY <1>2, <2>1 DEF StartsFrom
<1>3. CASE \E w, e, g : HeldBy(q, F, w, e, g)
  <2>1. PICK w, e, g : HeldBy(q, F, w, e, g)
    BY <1>3
  <2>2. w \in 2..n /\ g \in [1..n + 1 -> Nat] /\ e \in [1..w -> Nat] /\ g[n + 1] = 0
    BY <1>1, <2>1 DEF HeldBy
  <2> DEFINE h == [k \in 1..n + 2 |-> IF k = n + 2 THEN 0 ELSE g[k]]
  <2>3. h \in [1..(n + 1) + 1 -> Nat] /\ h[(n + 1) + 1] = 0 /\ h[n + 1] = 0
        /\ \A k \in 1..n + 1 : h[k] = g[k]
    <3>1. (n + 1) + 1 = n + 2 /\ n + 1 # n + 2 /\ n + 1 \in 1..n + 1 /\ n + 2 \in 1..n + 2
          /\ \A k \in 1..n + 1 : k \in 1..n + 2 /\ k # n + 2
      BY <1>1
    <3>2. \A k \in 1..n + 2 : k # n + 2 => k \in 1..n + 1
      BY <1>1
    <3>3. h[n + 2] = 0 /\ \A k \in 1..n + 1 : h[k] = g[k]
      BY <3>1
    <3>4. h \in [1..n + 2 -> Nat]
      BY <2>2, <3>2
    <3> HIDE DEF h
    <3> QED  BY <2>2, <3>1, <3>3, <3>4
  <2> HIDE DEF h
  <2>4. \A k \in 1..n : x[k] = q[k] /\ h[k] = g[k] /\ h[k + 1] = g[k + 1]
    BY <1>1, <2>3
  <2>5. \A k \in 1..n + 1 : h[k] <= x[k].maxSmoothed /\ h[k] <= h[k + 1] + x[k].smooth
    <3> TAKE k \in 1..n + 1
    <3>1. CASE k \in 1..n
      <4>1. g[k] <= q[k].maxSmoothed /\ g[k] <= g[k + 1] + q[k].smooth
        BY <1>1, <2>1, <3>1 DEF HeldBy
      <4> QED  BY <2>4, <3>1, <4>1
    <3>2. CASE k = n + 1
      <4>1. n + 1 \in 1..Len(x)
        BY <1>1
      <4>2. x[n + 1].maxSmoothed \in Nat /\ x[n + 1].smooth \in Nat
        BY <4>1, ChainedMove
      <4> QED  BY <2>3, <3>2, <4>2
    <3> QED  BY <1>1, <3>1, <3>2
  <2>6. w \in 1..n /\ 1 \in 1..n /\ 2 \in 1..n + 1 /\ w \in 2..n + 1
        /\ \A k \in 1..w - 1 : k \in 1..n
    BY <1>1, <2>2
  <2>7. x[w] = q[w] /\ x[1] = q[1] /\ h[w] = g[w] /\ h[w + 1] = g[w + 1] /\ h[2] = g[2]
    BY <2>3, <2>4, <2>6
  <2>8. /\ x[w].maxSmoothed < h[w + 1] + x[w].smooth
        /\ x[w].maxSmoothed = x[w].maxStart /\ h[w] = x[w].maxStart /\ e[w] = x[w].maxStart
        /\ x[1].maxSmoothed < h[2] + x[1].smooth
        /\ w > 2 \/ x[1].maxSmoothed + x[1].smooth > h[2]
        /\ F = MinOf(e[1], MinOf(x[1].cruise, (x[1].maxSmoothed + (h[2] + x[1].smooth)) \div 2))
    BY <2>1, <2>7 DEF HeldBy
  <2>9. \A k \in 1..w - 1 : e[k] = MinOf(x[k].maxStart, e[k + 1] + x[k].delta)
    BY <2>1, <2>4, <2>6 DEF HeldBy
  <2>10. \A k \in 2..w - 1 : h[k] = h[k + 1] + x[k].smooth
    <3> TAKE k \in 2..w - 1
    <3>1. k \in 1..n
      BY <1>1, <2>2
    <3> QED  BY <2>1, <2>4, <3>1 DEF HeldBy
  <2>11. HeldBy(x, F, w, e, h)
    BY <1>1, <2>2, <2>3, <2>5, <2>6, <2>8, <2>9, <2>10 DEF HeldBy
  <2> QED  BY <2>11 DEF StartsFrom
<1> QED  BY <1>2, <1>3 DEF StartsFrom

\* What a flush that starts with the speed F gives: k moves with their speeds, and
\* a queue that goes on from them.
FlushGives(q, s, k, F) ==
    /\ k \in 0..Len(q)
    /\ \A i \in 1..k : Possible(q[i], s.plan[i])
    /\ k > 0 => s.plan[1][1] = F
    /\ \A i \in 1..k - 1 : s.plan[i][3] = s.plan[i + 1][1]
    /\ LET G == IF k = 0 THEN F ELSE s.plan[k][3]
       IN  IF k = Len(q) THEN G = 0 ELSE StartsFrom(SubSeq(q, k + 1, Len(q)), G)

LEMMA FlushFacts ==
  ASSUME NEW q, Chained(q), Len(q) > 0, NEW lazy \in BOOLEAN, NEW F, StartsFrom(q, F),
         NEW s, s = Flushed(q, lazy)
  PROVE  FlushGives(q, s, IF s.updating THEN 0 ELSE s.count, F)
<1>1. PICK n \in Nat : n = Len(q) /\ n > 0 /\ 1 \in 1..n /\ 1 \in 1..n + 1
  BY DEF Chained
<1>2. PICK after : Traversal(q, lazy, after) /\ s = after[1]
  BY <1>1, TraversalExists
<1>3. s.delayed = << >> /\ MinOf(s.end, s.peak) = F
  BY <1>2, FrontEnds DEF Ends
<1>4. PlannedFrom(q, after, s, 1)
  BY <1>1, <1>2, PlannedAll
<1>5. CASE s.updating
  <2>1. q \in Seq(QueuedMoves)
    BY DEF Chained
  <2>2. SubSeq(q, 0 + 1, Len(q)) = q
    BY <2>1
  <2>3. 0 \in 0..Len(q) /\ 1..0 = {} /\ 1..0 - 1 = {} /\ ~(0 > 0) /\ 0 # Len(q)
    BY <1>1
  <2>4. FlushGives(q, s, 0, F)
    BY <2>2, <2>3 DEF FlushGives
  <2> QED  BY <1>5, <2>4
<1>6. CASE ~s.updating
  <2>1. LastOpen(s, 1) = 0
    <3>1. Len(<< >>) = 0 /\ 1 + 0 - 1 = 0
      OBVIOUS
    <3> QED  BY <1>3, <3>1 DEF LastOpen
  <2>2. PICK c \in 0..n : c = s.count
    BY <1>1, <1>4, <1>6 DEF PlannedFrom
  <2>3. /\ \A k \in 1..c : Possible(q[k], s.plan[k]) /\ s.plan[k][3] = NextStart(after, s, k)
        /\ NextStart(after, s, 0) = F
    <3>1. /\ \A k \in LastOpen(s, 1) + 1..s.count :
               Possible(q[k], s.plan[k]) /\ s.plan[k][3] = NextStart(after, s, k)
          /\ NextStart(after, s, LastOpen(s, 1)) = MinOf(s.end, s.peak)
      BY <1>3, <1>4, <1>6 DEF PlannedFrom
    <3>2. 0 + 1 = 1
      OBVIOUS
    <3> QED  BY <1>3, <2>1, <2>2, <3>1, <3>2
  <2>4. c > 0 => s.plan[1][1] = F
    <3> SUFFICES ASSUME c > 0  PROVE s.plan[1][1] = F
      OBVIOUS
    <3>1. 0 # s.count /\ 0 + 1 = 1
      BY <2>2
    <3> QED  BY <2>3, <3>1 DEF NextStart
  <2>5. \A k \in 1..c - 1 : s.plan[k][3] = s.plan[k + 1][1]
    <3> TAKE k \in 1..c - 1
    <3>1. k \in 1..c /\ k # s.count
      BY <2>2
    <3> QED  BY <2>3, <3>1 DEF NextStart
  <2> DEFINE G == IF c = 0 THEN F ELSE s.plan[c][3]
  <2>6. G = MinOf(after[c + 1].end, after[c + 1].peak)
    <3>1. CASE c = 0
      <4>1. c + 1 = 1
        BY <3>1
      <4> QED  BY <1>2, <1>3, <3>1, <4>1
    <3>2. CASE c # 0
      <4>1. c \in 1..c
        BY <2>2, <3>2
      <4>2. s.plan[c][3] = NextStart(after, s, c)
        BY <2>3, <4>1
      <4>3. NextStart(after, s, c) = MinOf(after[c + 1].end, after[c + 1].peak)
        BY <2>2 DEF NextStart
      <4> QED  BY <3>2, <4>2, <4>3
    <3> QED  BY <3>1, <3>2
  <2> HIDE DEF G
  <2>7. c = n => G = 0
    <3> SUFFICES ASSUME c = n  PROVE G = 0
      OBVIOUS
    <3>1. after[c + 1].end = 0 /\ after[c + 1].peak = 0
      BY <1>1, <1>2 DEF Traversal, FlushStart, FinalSpeed
    <3>2. MinOf(0, 0) = 0
      BY DEF MinOf
    <3> QED  BY <2>6, <3>1, <3>2
  <2>8. c # n => StartsFrom(SubSeq(q, c + 1, Len(q)), G)
    <3> SUFFICES ASSUME c # n  PROVE StartsFrom(SubSeq(q, c + 1, Len(q)), G)
      OBVIOUS
    <3>1. FoundAt(q, after, c, 1)
      <4>1. FoundAt(q, after, after[1].count, 1)
        BY <1>1, <1>2, FoundAll
      <4> QED  BY <1>2, <2>2, <4>1
    <3>2. PICK a \in 1..Len(q) : a = c + 1 /\ Found(q, after[a + 1], a)
      BY <1>1, <3>1 DEF FoundAt
    <3>3. c \in Nat
      BY <2>2
    <3>4. StartsFrom(SubSeq(q, c + 1, Len(q)), MinOf(after[a].end, after[a].peak))
      BY <1>2, <3>2, <3>3, HeldFound
    <3> QED  BY <2>6, <3>2, <3>4
  <2>9. FlushGives(q, s, c, F)
    BY <1>1, <2>2, <2>3, <2>4, <2>5, <2>7, <2>8 DEF FlushGives, G
  <2> QED  BY <1>6, <2>2, <2>9
<1> QED  BY <1>5, <1>6

PlannedMoves == [move : QueuedMoves, junction : Seq(Nat)]

\* What was flushed is possible, and ends with the speed F.
PlannedRight(p, F) ==
    /\ p \in Seq(PlannedMoves)
    /\ \A i \in 1..Len(p) : Possible(p[i].move, p[i].junction)
    /\ \A i \in 1..Len(p) : p[i].junction[1] = IF i = 1 THEN 0 ELSE p[i - 1].junction[3]
    /\ F = IF Len(p) = 0 THEN 0 ELSE p[Len(p)].junction[3]

LEMMA ConcatFacts ==
  ASSUME NEW T, NEW s \in Seq(T), NEW t \in Seq(T)
  PROVE  /\ s \o t \in Seq(T) /\ Len(s \o t) = Len(s) + Len(t)
         /\ \A i \in 1..Len(s) : (s \o t)[i] = s[i]
         /\ \A i \in 1..Len(t) : (s \o t)[Len(s) + i] = t[i]
OBVIOUS

LEMMA PlannedMore ==
  ASSUME NEW q, Chained(q), NEW s, NEW k, NEW F, FlushGives(q, s, k, F),
         NEW p, PlannedRight(p, F), NEW x,
         x = p \o [i \in 1..k |-> [move |-> q[i], junction |-> s.plan[i]]]
  PROVE  PlannedRight(x, IF k = 0 THEN F ELSE s.plan[k][3])
<1> DEFINE f == [i \in 1..k |-> [move |-> q[i], junction |-> s.plan[i]]]
<1>1. PICK n \in Nat : n = Len(q) /\ k \in 0..n
  BY DEF Chained, FlushGives
<1>2. PICK l \in Nat : l = Len(p) /\ p \in Seq(PlannedMoves)
  BY DEF PlannedRight
<1>3. \A i \in 1..k : q[i] \in QueuedMoves /\ s.plan[i] \in Seq(Nat) /\ Possible(q[i], s.plan[i])
  <2> TAKE i \in 1..k
  <2>1. i \in 1..Len(q)
    BY <1>1
  <2>2. Possible(q[i], s.plan[i])
    BY DEF FlushGives
  <2>3. q[i] \in QueuedMoves
    BY <2>1, ChainedMove
  <2> QED  BY <2>2, <2>3 DEF Possible
<1>4. f \in Seq(PlannedMoves) /\ Len(f) = k
      /\ \A i \in 1..k : f[i].move = q[i] /\ f[i].junction = s.plan[i]
  <2>1. \A i \in 1..k : [move |-> q[i], junction |-> s.plan[i]] \in PlannedMoves
    BY <1>3 DEF PlannedMoves
  <2>2. f \in [1..k -> PlannedMoves]
    BY <2>1
  <2>3. \A i \in 1..k : f[i].move = q[i] /\ f[i].junction = s.plan[i]
    OBVIOUS
  <2>4. PICK h \in [1..k -> PlannedMoves] : h = f
    BY <2>2
  <2>5. k \in Nat
    BY <1>1
  <2> HIDE DEF f
  <2>6. h \in Seq(PlannedMoves) /\ Len(h) = k
    BY <2>5
  <2> QED  BY <2>3, <2>4, <2>6
<1> HIDE DEF f
<1>5. /\ x \in Seq(PlannedMoves) /\ Len(x) = l + k
      /\ \A i \in 1..l : x[i] = p[i]
      /\ \A i \in 1..k : x[l + i] = f[i]
  <2>1. x = p \o f
    BY DEF f
  <2>2. PICK h \in Seq(PlannedMoves) : h = f /\ Len(h) = k
    BY <1>4
  <2>3. /\ p \o h \in Seq(PlannedMoves) /\ Len(p \o h) = Len(p) + Len(h)
        /\ \A i \in 1..Len(p) : (p \o h)[i] = p[i]
        /\ \A i \in 1..Len(h) : (p \o h)[Len(p) + i] = h[i]
    BY <1>2, ConcatFacts
  <2> QED  BY <1>2, <2>1, <2>2, <2>3
<1>6. \A i \in 1..l + k : i \in 1..l \/ (i - l \in 1..k /\ l + (i - l) = i)
  BY <1>1
<1>7. ASSUME NEW i \in 1..l + k  PROVE Possible(x[i].move, x[i].junction)
  <2>1. CASE i \in 1..l
    BY <1>2, <1>5, <2>1 DEF PlannedRight
  <2>2. CASE i - l \in 1..k /\ l + (i - l) = i
    <3>1. PICK j \in 1..k : x[i] = f[j]
      BY <1>5, <2>2
    <3> QED  BY <1>3, <1>4, <3>1
  <2> QED  BY <1>6, <2>1, <2>2
<1>8. ASSUME NEW i \in 1..l + k
      PROVE  x[i].junction[1] = IF i = 1 THEN 0 ELSE x[i - 1].junction[3]
  <2>1. CASE i \in 1..l
    <3>1. p[i].junction[1] = IF i = 1 THEN 0 ELSE p[i - 1].junction[3]
      BY <1>2, <2>1 DEF PlannedRight
    <3>2. x[i] = p[i] /\ (i # 1 => x[i - 1] = p[i - 1])
      <4>1. i # 1 => i - 1 \in 1..l
        BY <2>1
      <4> QED  BY <1>5, <2>1, <4>1
    <3> QED  BY <3>1, <3>2
  <2>2. CASE i - l \in 1..k /\ l + (i - l) = i
    <3>1. PICK j \in 1..k : i = l + j
      BY <2>2
    <3>2. x[i].junction = s.plan[j]
      BY <1>4, <1>5, <3>1
    <3>3. CASE j = 1
      <4>1. s.plan[1][1] = F
        <5>1. k > 0
          BY <1>1
        <5> QED  BY <5>1 DEF FlushGives
      <4>2. F = IF l = 0 THEN 0 ELSE p[l].junction[3]
        BY <1>2 DEF PlannedRight
      <4>3. CASE l = 0
        <5>1. i = 1
          BY <3>1, <3>3, <4>3
        <5> QED  BY <3>2, <3>3, <4>1, <4>2, <4>3, <5>1
      <4>4. CASE l # 0
        <5>1. i # 1 /\ i - 1 = l /\ l \in 1..l
          BY <3>1, <3>3, <4>4
        <5>2. x[i - 1] = p[l]
          BY <1>5, <5>1
        <5> QED  BY <3>2, <3>3, <4>1, <4>2, <4>4, <5>1, <5>2
      <4> QED  BY <4>3, <4>4
    <3>4. CASE j # 1
      <4>1. j - 1 \in 1..k - 1 /\ j - 1 \in 1..k /\ (j - 1) + 1 = j /\ i # 1 /\ i - 1 = l + (j - 1)
        BY <1>1, <3>1, <3>4
      <4>2. PICK h \in 1..k - 1 : h = j - 1 /\ h \in 1..k /\ h + 1 = j /\ i - 1 = l + h
        BY <4>1
      <4>3. s.plan[h][3] = s.plan[h + 1][1]
        BY DEF FlushGives
      <4>4. x[i - 1].junction = s.plan[h]
        BY <1>4, <1>5, <4>2
      <4> QED  BY <3>2, <4>1, <4>2, <4>3, <4>4
    <3> QED  BY <3>3, <3>4
  <2> QED  BY <1>6, <2>1, <2>2
<1>9. (IF k = 0 THEN F ELSE s.plan[k][3]) = IF Len(x) = 0 THEN 0 ELSE x[Len(x)].junction[3]
  <2>1. CASE k = 0
    <3>1. Len(x) = l
      BY <1>2, <1>5, <2>1
    <3>2. F = IF l = 0 THEN 0 ELSE p[l].junction[3]
      BY <1>2 DEF PlannedRight
    <3>3. l # 0 => x[l] = p[l]
      <4>1. l # 0 => l \in 1..l
        BY <1>2
      <4> QED  BY <1>5, <4>1
    <3> QED  BY <2>1, <3>1, <3>2, <3>3
  <2>2. CASE k # 0
    <3>1. k \in 1..k /\ l + k # 0
      BY <1>1, <2>2
    <3>2. x[l + k].junction = s.plan[k]
      BY <1>4, <1>5, <3>1
    <3> QED  BY <1>5, <2>2, <3>1, <3>2
  <2> QED  BY <2>1, <2>2
<1>10. Len(x) = l + k
  BY <1>5
<1> QED  BY <1>5, <1>7, <1>8, <1>9, <1>10 DEF PlannedRight

\* The queue goes on with the speed F.
GoesOn(q, F) == Chained(q) /\ IF Len(q) = 0 THEN F = 0 ELSE StartsFrom(q, F)

LookAheadInv == \E F : PlannedRight(planned, F) /\ GoesOn(moveQueue, F)


LEMMA FlushKeeps ==
  ASSUME NEW q, NEW F, GoesOn(q, F), Len(q) > 0, NEW lazy \in BOOLEAN,
         PlannedRight(planned, F), Flush(q, lazy)
  PROVE  LookAheadInv'
<1>1. PICK s : s = Flushed(q, lazy)
  OBVIOUS
<1>2. PICK k : k = IF s.updating THEN 0 ELSE s.count
  OBVIOUS
<1>3. Chained(q) /\ StartsFrom(q, F) /\ Len(q) \in Nat
  BY DEF GoesOn, Chained
<1>4. FlushGives(q, s, k, F)
  <2>1. FlushGives(q, s, IF s.updating THEN 0 ELSE s.count, F)
    BY <1>1, <1>3, FlushFacts
  <2> QED  BY <1>2, <2>1
<1>5. /\ moveQueue' = SubSeq(q, k + 1, Len(q))
      /\ planned' = planned \o [i \in 1..k |-> [move |-> q[i], junction |-> s.plan[i]]]
  BY <1>1, <1>2 DEF Flush
<1> DEFINE G == IF k = 0 THEN F ELSE s.plan[k][3]
<1>6. PlannedRight(planned', G)
  <2>1. PICK p, x : p = planned /\ x = planned'
    OBVIOUS
  <2>2. PlannedRight(p, F)
        /\ x = p \o [i \in 1..k |-> [move |-> q[i], junction |-> s.plan[i]]]
    BY <1>5, <2>1
  <2>3. PlannedRight(x, G)
    BY <1>3, <1>4, <2>2, PlannedMore
  <2> QED  BY <2>1, <2>3
<1>7. GoesOn(moveQueue', G)
  <2>1. k \in 0..Len(q) /\ (IF k = Len(q) THEN G = 0 ELSE StartsFrom(SubSeq(q, k + 1, Len(q)), G))
    BY <1>4 DEF FlushGives
  <2> HIDE DEF G
  <2>2. PICK p : p = SubSeq(q, k + 1, Len(q))
    OBVIOUS
  <2>3. Len(p) = Len(q) - k /\ Chained(p)
    BY <1>3, <2>1, <2>2, RestFacts
  <2>4. Len(p) = 0 <=> k = Len(q)
    BY <1>3, <2>1, <2>3
  <2> QED  BY <1>5, <2>1, <2>2, <2>3, <2>4 DEF GoesOn
<1> HIDE DEF G
<1> QED  BY <1>6, <1>7 DEF LookAheadInv

\* A move as add_move makes it, before it is joined to the queue.
LEMMA AddedMove ==
  ASSUME NEW d \in Nat \ {0}, NEW s \in Nat \ {0}, NEW c \in Nat, NEW j \in Nat, NEW m,
         m = [delta |-> d, smooth |-> MinOf(s, d), cruise |-> c, junction |-> j,
              maxStart |-> 0, maxSmoothed |-> 0]
  PROVE  /\ m \in QueuedMoves /\ m.smooth > 0 /\ m.smooth <= m.delta
         /\ m.maxStart = 0 /\ m.maxSmoothed = 0
<1>1. PICK x \in Nat : x = MinOf(s, d) /\ x > 0 /\ x <= d
  BY DEF MinOf
<1> QED  BY <1>1 DEF QueuedMoves

LEMMA JoinedMove ==
  ASSUME NEW p \in QueuedMoves, NEW m \in QueuedMoves, NEW x, x = Joined(p, m)
  PROVE  /\ x \in QueuedMoves /\ x.delta = m.delta /\ x.smooth = m.smooth
         /\ x.maxStart <= x.cruise /\ x.maxStart <= x.junction
         /\ x.maxSmoothed <= x.maxStart
         /\ x.maxStart <= p.cruise /\ x.maxStart <= p.maxStart + p.delta
         /\ x.maxSmoothed = MinOf(x.maxStart, p.maxSmoothed + p.smooth)
<1>1. PICK a \in Nat, b \in Nat, e \in Nat, f \in Nat, h \in Nat :
         /\ a = p.maxStart /\ b = p.delta /\ e = p.cruise /\ f = p.maxSmoothed /\ h = p.smooth
  BY DEF QueuedMoves
<1>2. PICK c \in Nat, j \in Nat : c = m.cruise /\ j = m.junction
  BY DEF QueuedMoves
<1>3. PICK y \in Nat : y = MinOf(MinOf(j, a + b), MinOf(c, e))
                       /\ y <= j /\ y <= a + b /\ y <= c /\ y <= e
  BY DEF MinOf
<1>4. PICK z \in Nat : z = MinOf(y, f + h) /\ z <= y
  BY DEF MinOf
<1>5. MaxStart(p, m) = y
  BY <1>1, <1>2, <1>3 DEF MaxStart
<1>6. x = [m EXCEPT !.maxStart = y, !.maxSmoothed = z]
  BY <1>1, <1>4, <1>5 DEF Joined
<1>7. /\ x \in QueuedMoves /\ x.maxStart = y /\ x.maxSmoothed = z /\ x.cruise = m.cruise
      /\ x.junction = m.junction /\ x.delta = m.delta /\ x.smooth = m.smooth
  BY <1>6 DEF QueuedMoves
<1> QED  BY <1>1, <1>2, <1>3, <1>4, <1>7

LEMMA JoinedOn ==
  ASSUME NEW q, NEW F, GoesOn(q, F), NEW d \in Nat \ {0}, NEW s \in Nat \ {0},
         NEW c \in Nat, NEW j \in Nat, NEW m,
         m = [delta |-> d, smooth |-> MinOf(s, d), cruise |-> c, junction |-> j,
              maxStart |-> 0, maxSmoothed |-> 0],
         NEW x, x = Append(q, IF q = << >> THEN m ELSE Joined(Last(q), m))
  PROVE  GoesOn(x, F) /\ Len(x) > 0
<1>1. Chained(q) /\ q \in Seq(QueuedMoves)
  BY DEF GoesOn, Chained
<1>2. PICK n \in Nat : n = Len(q) /\ (q = << >> <=> n = 0)
  BY <1>1
<1>3. /\ m \in QueuedMoves /\ m.smooth > 0 /\ m.smooth <= m.delta
      /\ m.maxStart = 0 /\ m.maxSmoothed = 0
  BY AddedMove
<1>4. PICK y : y = IF q = << >> THEN m ELSE Joined(Last(q), m)
  OBVIOUS
<1>5. /\ y \in QueuedMoves /\ y.smooth > 0 /\ y.smooth <= y.delta
      /\ y.maxStart <= y.cruise /\ y.maxStart <= y.junction
      /\ y.maxSmoothed <= y.maxStart
      /\ n = 0 => y.maxStart = 0
      /\ n > 0 => /\ y.maxStart <= q[n].cruise /\ y.maxStart <= q[n].maxStart + q[n].delta
                  /\ y.maxSmoothed = MinOf(y.maxStart, q[n].maxSmoothed + q[n].smooth)
  <2>1. CASE n = 0
    <3>1. y = m
      BY <1>2, <1>4, <2>1
    <3>2. m.cruise \in Nat /\ m.junction \in Nat
      BY <1>3 DEF QueuedMoves
    <3> QED  BY <1>3, <2>1, <3>1, <3>2
  <2>2. CASE n > 0
    <3>1. n \in 1..Len(q)
      BY <1>2, <2>2
    <3>2. PICK p \in QueuedMoves : p = q[n]
      BY <3>1, ChainedMove, <1>1
    <3>3. y = Joined(p, m)
      BY <1>2, <1>4, <2>2, <3>2 DEF Last
    <3>4. /\ y \in QueuedMoves /\ y.delta = m.delta /\ y.smooth = m.smooth
          /\ y.maxStart <= y.cruise /\ y.maxStart <= y.junction
          /\ y.maxSmoothed <= y.maxStart
          /\ y.maxStart <= p.cruise /\ y.maxStart <= p.maxStart + p.delta
          /\ y.maxSmoothed = MinOf(y.maxStart, p.maxSmoothed + p.smooth)
      BY <1>3, <3>3, JoinedMove
    <3> QED  BY <1>3, <2>2, <3>2, <3>4
  <2> QED  BY <2>1, <2>2
<1>6. /\ x \in Seq(QueuedMoves) /\ Len(x) = n + 1
      /\ \A k \in 1..n : x[k] = q[k]
      /\ x[n + 1] = y
  <2>1. x = Append(q, y)
    BY <1>4
  <2>2. y \in QueuedMoves
    BY <1>5
  <2> QED  BY <1>1, <1>2, <2>1, <2>2, AppendFacts
<1>7. ASSUME NEW i \in 1..n + 1
      PROVE  /\ x[i].smooth > 0 /\ x[i].smooth <= x[i].delta
             /\ x[i].maxStart <= x[i].cruise /\ x[i].maxStart <= x[i].junction
             /\ x[i].maxSmoothed <= x[i].maxStart
  <2>1. CASE i = n + 1
    BY <1>5, <1>6, <2>1
  <2>2. CASE i \in 1..n
    BY <1>1, <1>2, <1>6, <2>2 DEF Chained
  <2>3. i = n + 1 \/ i \in 1..n
    BY <1>2
  <2> QED  BY <2>1, <2>2, <2>3
<1>8. ASSUME NEW i \in 1..(n + 1) - 1
      PROVE  /\ x[i + 1].maxStart <= x[i].cruise
             /\ x[i + 1].maxStart <= x[i].maxStart + x[i].delta
             /\ x[i + 1].maxSmoothed = MinOf(x[i + 1].maxStart, x[i].maxSmoothed + x[i].smooth)
  <2>1. i \in 1..n /\ x[i] = q[i]
    BY <1>6
  <2>2. CASE i = n
    <3>1. n > 0
      BY <2>1, <2>2
    <3> QED  BY <1>5, <1>6, <2>1, <2>2, <3>1
  <2>3. CASE i # n
    <3>1. i \in 1..Len(q) - 1 /\ i + 1 \in 1..n
      BY <1>2, <2>1, <2>3
    <3>2. x[i + 1] = q[i + 1]
      BY <1>6, <3>1
    <3>3. /\ q[i + 1].maxStart <= q[i].cruise
          /\ q[i + 1].maxStart <= q[i].maxStart + q[i].delta
          /\ q[i + 1].maxSmoothed = MinOf(q[i + 1].maxStart, q[i].maxSmoothed + q[i].smooth)
      BY <1>1, <3>1 DEF Chained
    <3> QED  BY <2>1, <3>2, <3>3
  <2> QED  BY <2>2, <2>3
<1>9. Chained(x)
  BY <1>6, <1>7, <1>8 DEF Chained
<1>10. StartsFrom(x, F)
  <2>1. CASE n = 0
    <3>1. F = 0 /\ x[1] = y
      <4>1. 0 + 1 = 1
        OBVIOUS
      <4> QED  BY <1>2, <1>6, <2>1, <4>1 DEF GoesOn
    <3> QED  BY <1>5, <2>1, <3>1 DEF StartsFrom
  <2>2. CASE n > 0
    <3>1. StartsFrom(q, F) /\ Len(q) > 0 /\ Len(x) = Len(q) + 1 /\ \A k \in 1..Len(q) : x[k] = q[k]
      BY <1>2, <1>6, <2>2 DEF GoesOn
    <3> QED  BY <1>1, <1>9, <3>1, FrontKept
  <2> QED  BY <2>1, <2>2
<1>11. Len(x) > 0 /\ Len(x) # 0
  BY <1>6
<1> QED  BY <1>9, <1>10, <1>11 DEF GoesOn

LEMMA LookAheadStep ==
  ASSUME LookAheadInv, LookAheadNext
  PROVE  LookAheadInv'
<1>1. PICK F : PlannedRight(planned, F) /\ GoesOn(moveQueue, F)
  BY DEF LookAheadInv
<1>2. ASSUME NEW d \in Deltas, NEW s \in Smooths, NEW c \in Cruises, NEW j \in Junctions,
             AddMove(d, s, c, j)
      PROVE  LookAheadInv'
  <2>1. d \in Nat \ {0} /\ s \in Nat \ {0} /\ c \in Nat /\ j \in Nat
    BY LookAheadAssumption
  <2>2. PICK m : m = [delta |-> d, smooth |-> MinOf(s, d), cruise |-> c, junction |-> j,
                      maxStart |-> 0, maxSmoothed |-> 0]
    OBVIOUS
  <2>3. PICK q : q = Append(moveQueue, IF moveQueue = << >> THEN m ELSE Joined(Last(moveQueue), m))
    OBVIOUS
  <2>4. GoesOn(q, F) /\ Len(q) > 0
    <3>1. PICK p : p = moveQueue
      OBVIOUS
    <3>2. GoesOn(p, F) /\ q = Append(p, IF p = << >> THEN m ELSE Joined(Last(p), m))
      BY <1>1, <2>3, <3>1
    <3> QED  BY <2>1, <2>2, <3>2, JoinedOn
  <2>5. \/ moveQueue' = q /\ UNCHANGED planned
        \/ Flush(q, TRUE)
    BY <1>2, <2>2, <2>3 DEF AddMove
  <2>6. CASE moveQueue' = q /\ UNCHANGED planned
    <3>1. PlannedRight(planned', F) /\ GoesOn(moveQueue', F)
      BY <1>1, <2>4, <2>6
    <3> QED  BY <3>1 DEF LookAheadInv
  <2>7. CASE Flush(q, TRUE)
    BY <1>1, <2>4, <2>7, FlushKeeps
  <2> QED  BY <2>5, <2>6, <2>7
<1>3. CASE FlushAll
  <2>1. moveQueue # << >> /\ Flush(moveQueue, FALSE)
    BY <1>3 DEF FlushAll
  <2>2. Len(moveQueue) > 0
    <3>1. moveQueue \in Seq(QueuedMoves)
      BY <1>1 DEF GoesOn, Chained
    <3> QED  BY <2>1, <3>1
  <2> QED  BY <1>1, <2>1, <2>2, FlushKeeps
<1> QED  BY <1>2, <1>3 DEF LookAheadNext

LEMMA LookAheadStart ==
  ASSUME LookAheadInit
  PROVE  LookAheadInv
<1>1. moveQueue = << >> /\ planned = << >>
  BY DEF LookAheadInit
<1>2. << >> \in Seq(PlannedMoves) /\ << >> \in Seq(QueuedMoves) /\ Len(<< >>) = 0
      /\ 1..0 = {} /\ 1..0 - 1 = {}
  OBVIOUS
<1>3. PlannedRight(<< >>, 0)
  BY <1>2 DEF PlannedRight
<1>4. GoesOn(<< >>, 0)
  BY <1>2 DEF GoesOn, Chained
<1> QED  BY <1>1, <1>3, <1>4 DEF LookAheadInv

LEMMA ThreeFacts ==
  ASSUME NEW v \in Seq(Nat), Len(v) = 3
  PROVE  v # << >> /\ v[1] \in Nat /\ v[2] \in Nat /\ v[3] \in Nat
<1>1. DOMAIN v = 1..3 /\ v \in [1..3 -> Nat]
  OBVIOUS
<1>2. Len(<< >>) = 0
  OBVIOUS
<1> QED  BY <1>1, <1>2

LEMMA LookAheadShows ==
  ASSUME LookAheadInv
  PROVE  PlanPossible
<1>1. PICK F : PlannedRight(planned, F) /\ GoesOn(moveQueue, F)
  BY DEF LookAheadInv
<1>2. PICK p \in Seq(PlannedMoves) : p = planned
  BY <1>1 DEF PlannedRight
<1>3. PICK n \in Nat : n = Len(p) /\ DOMAIN p = 1..n /\ (p = << >> <=> n = 0)
  OBVIOUS
<1>4. /\ \A i \in 1..n : Possible(p[i].move, p[i].junction)
      /\ \A i \in 1..n : p[i].junction[1] = IF i = 1 THEN 0 ELSE p[i - 1].junction[3]
      /\ F = IF n = 0 THEN 0 ELSE p[n].junction[3]
  BY <1>1, <1>2, <1>3 DEF PlannedRight
<1>5. AllPlanned
  <2>1. ASSUME NEW i \in 1..n  PROVE p[i].junction # << >>
    <3>1. PICK v \in Seq(Nat) : v = p[i].junction /\ Len(v) = 3
      BY <1>4 DEF Possible
    <3>2. v # << >>
      BY <3>1, ThreeFacts
    <3> QED  BY <3>1, <3>2
  <2> QED  BY <1>2, <1>3, <2>1 DEF AllPlanned
<1>6. SpeedContinuous
  BY <1>2, <1>3, <1>4 DEF SpeedContinuous
<1>7. Stops
  <2> SUFFICES ASSUME moveQueue = << >>, planned # << >>  PROVE Last(planned).junction[3] = 0
    BY DEF Stops
  <2>1. F = 0
    <3>1. Len(<< >>) = 0
      OBVIOUS
    <3> QED  BY <1>1, <3>1 DEF GoesOn
  <2>2. p[n].junction[3] = 0
    BY <1>2, <1>3, <1>4, <2>1
  <2> QED  BY <1>2, <1>3, <2>2 DEF Last
<1>8. WithinLimits
  <2>1. ASSUME NEW i \in 1..n
        PROVE  LET m == p[i].move
                   v == p[i].junction
               IN  /\ v[1] \in 0..v[2] /\ v[3] \in 0..v[2]
                   /\ v[2] <= m.cruise /\ v[1] <= m.junction
                   /\ (v[2] - v[1]) + (v[2] - v[3]) <= m.delta
    <3>1. PICK m, v : m = p[i].move /\ v = p[i].junction
      OBVIOUS
    <3>2. /\ v \in Seq(Nat) /\ Len(v) = 3
          /\ v[1] <= v[2] /\ v[3] <= v[2] /\ v[2] <= m.cruise /\ v[1] <= m.junction
          /\ (v[2] - v[1]) + (v[2] - v[3]) <= m.delta
      BY <1>4, <3>1 DEF Possible
    <3>3. v[1] \in Nat /\ v[2] \in Nat /\ v[3] \in Nat
      <4>1. PICK u \in Seq(Nat) : u = v /\ Len(u) = 3
        BY <3>2
      <4>2. u[1] \in Nat /\ u[2] \in Nat /\ u[3] \in Nat
        BY <4>1, ThreeFacts
      <4> QED  BY <4>1, <4>2
    <3>4. v[1] \in 0..v[2] /\ v[3] \in 0..v[2]
      BY <3>2, <3>3
    <3> QED  BY <3>1, <3>2, <3>4
  <2> QED  BY <1>2, <1>3, <2>1 DEF WithinLimits
<1> QED  BY <1>5, <1>6, <1>7, <1>8 DEF PlanPossible

\* The speeds that the look-ahead queue plans are possible whatever is queued and
\* however often it is flushed: no move is left without speeds, each starts as
\* fast as the one before it ends, and the last one ends at rest.
THEOREM PlansArePossible == LookAheadSpec => []PlanPossible
<1>1. LookAheadInit => LookAheadInv
  BY LookAheadStart
<1>2. LookAheadInv /\ [LookAheadNext]_lookAheadVars => LookAheadInv'
  <2> SUFFICES ASSUME LookAheadInv, [LookAheadNext]_lookAheadVars  PROVE LookAheadInv'
    OBVIOUS
  <2>1. CASE LookAheadNext
    BY <2>1, LookAheadStep
  <2>2. CASE UNCHANGED lookAheadVars
    <3>1. moveQueue' = moveQueue /\ planned' = planned
      BY <2>2 DEF lookAheadVars
    <3> QED  BY <3>1 DEF LookAheadInv
  <2> QED  BY <2>1, <2>2
<1>3. LookAheadInv => PlanPossible
  BY LookAheadShows
<1> QED  BY <1>1, <1>2, <1>3, PTL DEF LookAheadSpec
=============================================================================
