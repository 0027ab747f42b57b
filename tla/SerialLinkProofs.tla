-------------------------- MODULE SerialLinkProofs --------------------------
(* Proofs about SerialLink. *)
EXTENDS SerialLink, SequenceTheorems, FiniteSetTheorems, TLAPS

LEMMA DivMod ==
    ASSUME NEW a \in Nat, NEW m \in Nat \ {0}
    PROVE  /\ a = m * (a \div m) + (a % m)
           /\ a % m \in 0..(m - 1)
           /\ a \div m \in Nat
  OBVIOUS

LEMMA NoMultipleBetween ==
    ASSUME NEW m \in Nat \ {0}, NEW p \in Int, NEW q \in Int,
           m * p < m * q + m, m * q < m * p + m
    PROVE  p = q
<1>1. CASE p >= q + 1
  <2>1. m * p >= m * (q + 1)  BY <1>1
  <2>2. m * (q + 1) = m * q + m  OBVIOUS
  <2> QED  BY <2>1, <2>2
<1>2. CASE q >= p + 1
  <2>1. m * q >= m * (p + 1)  BY <1>2
  <2>2. m * (p + 1) = m * p + m  OBVIOUS
  <2> QED  BY <2>1, <2>2
<1> QED  BY <1>1, <1>2

\* Two numbers less than SeqMod apart are equal when their low bits are.
LEMMA LowInjective ==
    ASSUME NEW a \in Nat, NEW b \in Nat, Low(a) = Low(b),
           a < b + SeqMod, b < a + SeqMod
    PROVE  a = b
<1>1. PICK p \in Nat : a = SeqMod * p + Low(a)
  BY DivMod, SeqModAssumption DEF Low
<1>2. PICK q \in Nat : b = SeqMod * q + Low(b)
  BY DivMod, SeqModAssumption DEF Low
<1>3. Low(a) \in Int
  BY SeqModAssumption DEF Low
<1>4. SeqMod * p \in Int /\ SeqMod * q \in Int
  BY SeqModAssumption
<1>5. p = q
  <2>1. SeqMod * p < SeqMod * q + SeqMod
    BY <1>1, <1>2, <1>3, <1>4, SeqModAssumption
  <2>2. SeqMod * q < SeqMod * p + SeqMod
    BY <1>1, <1>2, <1>3, <1>4, SeqModAssumption
  <2> QED  BY <2>1, <2>2, NoMultipleBetween, SeqModAssumption
<1> QED  BY <1>1, <1>2, <1>5

\* handle_message recovers a number up to SeqMod - 1 ahead of receive_seq.
LEMMA UnwrapLow ==
    ASSUME NEW s \in Nat, receive_seq \in Nat \ {0},
           receive_seq <= s, s < receive_seq + SeqMod
    PROVE  Unwrap(Low(s)) = s
<1> DEFINE r == receive_seq
<1>1. PICK p \in Nat : r = SeqMod * p + Low(r)
  BY DivMod, SeqModAssumption DEF Low
<1>2. PICK q \in Nat : s = SeqMod * q + Low(s)
  BY DivMod, SeqModAssumption DEF Low
<1>3. Low(r) \in 0..(SeqMod - 1) /\ Low(s) \in 0..(SeqMod - 1)
  BY DivMod, SeqModAssumption DEF Low
<1>4. SeqMod * p \in Int /\ SeqMod * q \in Int
  BY SeqModAssumption
<1>5. CASE q = p
  <2>1. (r - Low(r)) + Low(s) = s
    BY <1>1, <1>2, <1>3, <1>4, <1>5, SeqModAssumption
  <2> QED  BY <2>1 DEF Unwrap
<1>6. CASE q = p + 1
  <2>1. SeqMod * q = SeqMod * p + SeqMod
    BY <1>6, SeqModAssumption
  <2>2. (r - Low(r)) + Low(s) = s - SeqMod
    BY <1>1, <1>2, <1>3, <1>4, <2>1, SeqModAssumption
  <2> QED  BY <2>2, SeqModAssumption DEF Unwrap
<1>7. CASE q # p /\ q # p + 1
  <2>1. CASE q < p
    <3>1. SeqMod * (q + 1) <= SeqMod * p  BY <2>1, SeqModAssumption
    <3>2. SeqMod * (q + 1) = SeqMod * q + SeqMod  BY SeqModAssumption
    <3> QED  BY <1>1, <1>2, <1>3, <1>4, <3>1, <3>2, SeqModAssumption
  <2>2. CASE q > p + 1
    <3>1. SeqMod * (p + 2) <= SeqMod * q  BY <2>2, SeqModAssumption
    <3>2. SeqMod * (p + 2) = SeqMod * p + SeqMod + SeqMod  BY SeqModAssumption
    <3> QED  BY <1>1, <1>2, <1>3, <1>4, <3>1, <3>2, SeqModAssumption
  <2> QED  BY <1>7, <2>1, <2>2
<1> QED  BY <1>5, <1>6, <1>7

-----------------------------------------------------------------------------
(* The two directions of the line, element by element.                     *)

LEMMA TailFacts ==
    ASSUME NEW S, NEW s \in Seq(S), s # << >>
    PROVE  /\ Tail(s) \in Seq(S)
           /\ Len(Tail(s)) = Len(s) - 1
           /\ Len(s) \in Nat \ {0}
           /\ Head(s) = s[1] /\ Head(s) \in S
           /\ \A i \in 1..Len(Tail(s)) : Tail(s)[i] = s[i + 1]
  OBVIOUS

LEMMA AppendFacts ==
    ASSUME NEW S, NEW s \in Seq(S), NEW e \in S
    PROVE  /\ Append(s, e) \in Seq(S)
           /\ Len(Append(s, e)) = Len(s) + 1
           /\ Len(s) \in Nat
           /\ Append(s, e)[Len(s) + 1] = e
           /\ \A i \in 1..Len(s) : Append(s, e)[i] = s[i]
  OBVIOUS

LEMMA RespondFacts ==
    ASSUME from_mcu \in Seq(Messages), NEW m \in Messages, Respond(m)
    PROVE  /\ from_mcu' \in Seq(Messages)
           /\ Len(from_mcu') \in {Len(from_mcu), Len(from_mcu) + 1}
           /\ Len(from_mcu) \in Nat
           /\ \A i \in 1..Len(from_mcu') :
                 from_mcu'[i] = IF i <= Len(from_mcu) THEN from_mcu[i] ELSE m
<1>1. CASE from_mcu' = Append(from_mcu, m)
  BY <1>1
<1>2. CASE from_mcu' = from_mcu
  BY <1>2
<1> QED  BY <1>1, <1>2 DEF Respond

LEMMA TransmitFacts ==
    ASSUME NEW line \in Seq(Blocks), NEW blocks \in Seq(Blocks),
           Transmit(line, blocks)
    PROVE  /\ to_mcu' \in Seq(Blocks)
           /\ Len(to_mcu') \in 0..(Len(line) + Len(blocks))
           /\ Len(line) \in Nat /\ Len(blocks) \in Nat
           /\ \A i \in 1..Len(to_mcu') :
                 to_mcu'[i] = IF i <= Len(line) THEN line[i]
                                                ELSE blocks[i - Len(line)]
<1> DEFINE all == line \o blocks
           k == IF Len(all) < RxSlots THEN Len(all) ELSE RxSlots
<1>1. /\ all \in Seq(Blocks)
      /\ Len(all) = Len(line) + Len(blocks)
      /\ Len(line) \in Nat /\ Len(blocks) \in Nat
      /\ \A i \in 1..Len(all) :
            all[i] = IF i <= Len(line) THEN line[i] ELSE blocks[i - Len(line)]
  OBVIOUS
<1>2. k \in 0..Len(all)
  BY <1>1, CapacityAssumption
<1>3. to_mcu' = SubSeq(all, 1, k)
  BY DEF Transmit
<1> HIDE DEF all, k
<1>4. /\ to_mcu' \in Seq(Blocks)
      /\ Len(to_mcu') = k
      /\ \A i \in 1..k : to_mcu'[i] = all[i]
  BY <1>1, <1>2, <1>3
<1> QED  BY <1>1, <1>2, <1>4

-----------------------------------------------------------------------------
(* The inductive invariant.                                                *)

\* serialqueue_alloc and any number the micro-controller may expect make a
\* state that satisfies the inductive invariant.
THEOREM InitIInv == Init => IInv
<1> SUFFICES ASSUME Init PROVE IInv
  OBVIOUS
<1>1. Len(<< >>) = 0
  OBVIOUS
<1> USE SeqModAssumption, WindowAssumption DEF Init
<1>2. TypeOK
  <2>1. /\ sent_queue \in Seq(Nat) /\ to_mcu \in Seq(Blocks)
        /\ from_mcu \in Seq(Messages) /\ dispatched \in Seq(Nat)
    OBVIOUS
  <2>2. /\ send_seq - receive_seq \in 0..Window
        /\ Len(sent_queue) = send_seq - receive_seq
        /\ \A i \in 1..Len(sent_queue) : sent_queue[i] = receive_seq + i - 1
    BY <1>1
  <2>3. mcu_seq \in Nat /\ notify_queue \in SUBSET Nat /\ notified \in SUBSET Nat
    OBVIOUS
  <2>4. /\ need_valid \in BOOLEAN /\ console \in {"idle", "dispatching"}
        /\ retransmit_timer \in {"never", "armed", "now"}
    OBVIOUS
  <2>5. /\ send_seq \in Nat \ {0} /\ receive_seq \in Nat \ {0}
        /\ last_ack_seq \in Nat /\ last_ack_bytes \in {0, 1}
        /\ ignore_nak_seq \in Nat /\ retransmit_seq \in Nat
    OBVIOUS
  <2> HIDE DEF Init
  <2> QED  BY <2>1, <2>2, <2>3, <2>4, <2>5 DEF TypeOK
<1> QED
  BY <1>1, <1>2 DEF IInv, Position, WireFresh, MessagesFresh, InOrder,
     AnswersFirst, RetransmitArmed, Base

\* A message on its way is recognised: its full number is the one the
\* micro-controller meant, and it is not taken for an invalid one.
LEMMA HeadRecognised ==
    ASSUME IInv, from_mcu # << >>
    PROVE  /\ Unwrap(Low(Head(from_mcu).seq)) = Head(from_mcu).seq
           /\ Head(from_mcu) = from_mcu[1]
           /\ 1 \in 1..Len(from_mcu)
           /\ Head(from_mcu) \in Messages
           /\ Head(from_mcu).seq \in Base..mcu_seq
           /\ Head(from_mcu).seq \in receive_seq..(receive_seq + SeqMod - 1)
           /\ ~IsInvalid(Head(from_mcu).seq)
<1> DEFINE s == Head(from_mcu).seq
<1>1. /\ Head(from_mcu) = from_mcu[1]
      /\ 1 \in 1..Len(from_mcu)
      /\ Head(from_mcu) \in Messages
  BY TailFacts DEF IInv, TypeOK
<1>2. s \in Base..mcu_seq /\ (receive_seq # 1 => receive_seq <= s)
  BY <1>1 DEF IInv, MessagesFresh
<1>3. s \in Nat /\ mcu_seq \in Nat /\ Base \in Int
  BY <1>1 DEF IInv, TypeOK, Messages, Base
<1>4. s \in receive_seq..(receive_seq + SeqMod - 1) /\ ~IsInvalid(s)
  <2>1. CASE receive_seq = 1
    <3>1. CASE mcu_seq <= send_seq
      BY <1>2, <1>3, <2>1, <3>1, SeqModAssumption, WindowAssumption
         DEF IInv, TypeOK, Position, IsInvalid
    <3>2. CASE dispatched = << >>
      <4>1. Base = mcu_seq
        BY <3>2, <1>3 DEF Base, IInv, TypeOK
      <4> QED
        BY <1>2, <1>3, <2>1, <4>1, SeqModAssumption
           DEF IInv, TypeOK, Position, IsInvalid
    <3> QED  BY <3>1, <3>2 DEF IInv, Position
  <2>2. CASE receive_seq # 1
    BY <1>2, <1>3, <2>2, SeqModAssumption, WindowAssumption
       DEF IInv, TypeOK, Position, IsInvalid
  <2> QED  BY <2>1, <2>2
<1>5. Unwrap(Low(s)) = s
  BY <1>3, <1>4, UnwrapLow, SeqModAssumption DEF IInv, TypeOK
<1> QED  BY <1>1, <1>2, <1>4, <1>5

\* The part of the invariant that does not look at the wire to the
\* micro-controller, after any step that only adds to from_mcu a message
\* about the present state of the micro-controller.
LEMMA RespondPreserves ==
    ASSUME IInv, NEW m \in Messages, Respond(m),
           m.seq = mcu_seq,
           m.src = 0 \/ (console = "dispatching" /\ m.src = mcu_seq - 1),
           m.kind = "ack" => m.src = 0 /\ console' = "idle",
           console' \in {console, "idle"},
           UNCHANGED <<receive_seq, send_seq, mcu_seq, dispatched>>
    PROVE  /\ from_mcu' \in Seq(Messages)
           /\ MessagesFresh' /\ AnswersFirst'
<1> DEFINE len == Len(from_mcu)
<1>1. /\ from_mcu' \in Seq(Messages)
      /\ Len(from_mcu') \in {len, len + 1}
      /\ len \in Nat
      /\ \A i \in 1..Len(from_mcu') :
            from_mcu'[i] = IF i <= len THEN from_mcu[i] ELSE m
  BY RespondFacts DEF IInv, TypeOK
<1>2. Base' = Base /\ Base \in Int /\ mcu_seq \in Nat /\ Base >= 1
      /\ receive_seq \in Nat /\ Base <= mcu_seq
  BY DEF Base, IInv, TypeOK, Position
<1>3. MessagesFresh'
  <2>1. ASSUME NEW i \in 1..Len(from_mcu')
        PROVE  /\ from_mcu'[i].seq \in Base'..mcu_seq'
               /\ receive_seq' # 1 => receive_seq' <= from_mcu'[i].seq
    <3>1. CASE i <= len
      BY <1>1, <1>2, <3>1 DEF IInv, MessagesFresh
    <3>2. CASE ~(i <= len)
      BY <1>1, <1>2, <3>2 DEF IInv, Position
    <3> QED  BY <3>1, <3>2
  <2>2. ASSUME NEW i \in 1..Len(from_mcu'), NEW j \in 1..Len(from_mcu'),
               i < j
        PROVE  from_mcu'[i].seq <= from_mcu'[j].seq
    <3>1. i <= len /\ from_mcu'[i] = from_mcu[i]
      BY <1>1, <2>2
    <3>2. CASE j <= len
      BY <1>1, <2>2, <3>1, <3>2 DEF IInv, MessagesFresh
    <3>3. CASE ~(j <= len)
      <4>1. from_mcu'[j].seq = mcu_seq
        BY <1>1, <3>3
      <4> QED
        BY <1>1, <3>1, <4>1 DEF IInv, MessagesFresh
    <3> QED  BY <3>2, <3>3
  <2> QED  BY <2>1, <2>2 DEF MessagesFresh
<1>4. \A i \in 1..len : from_mcu[i] \in Messages
  BY DEF IInv, TypeOK
<1>5. AnswersFirst'
  <2>1. ASSUME NEW i \in 1..Len(from_mcu')
        PROVE  /\ from_mcu'[i].src \in {0, from_mcu'[i].seq - 1}
               /\ console' = "dispatching" /\ from_mcu'[i].kind = "ack"
                     => from_mcu'[i].seq < mcu_seq'
    <3>1. CASE i <= len
      BY <1>1, <3>1 DEF IInv, AnswersFirst
    <3>2. CASE ~(i <= len)
      BY <1>1, <3>2
    <3> QED  BY <3>1, <3>2
  <2>2. ASSUME NEW i \in 1..Len(from_mcu'), NEW j \in 1..Len(from_mcu'),
               i < j, from_mcu'[i].kind = "ack", from_mcu'[j].src # 0
        PROVE  from_mcu'[i].seq <= from_mcu'[j].src
    <3>1. i <= len /\ from_mcu'[i] = from_mcu[i]
      BY <1>1, <2>2
    <3>2. CASE j <= len
      BY <1>1, <2>2, <3>1, <3>2 DEF IInv, AnswersFirst
    <3>3. CASE ~(j <= len)
      <4>1. from_mcu[i].seq < mcu_seq
        BY <1>1, <2>2, <3>1, <3>3 DEF IInv, AnswersFirst
      <4>2. from_mcu'[j] = m /\ m.src = mcu_seq - 1
        BY <1>1, <2>2, <3>3
      <4>3. from_mcu[i].seq \in Nat
        BY <1>4, <3>1 DEF Messages
      <4> QED
        BY <1>2, <3>1, <4>1, <4>2, <4>3
    <3> QED  BY <3>2, <3>3
  <2> QED  BY <2>1, <2>2 DEF AnswersFirst
<1> QED  BY <1>1, <1>3, <1>5

\* A block leaves the line.
LEMMA WireTail ==
    ASSUME IInv, to_mcu # << >>, to_mcu' = Tail(to_mcu),
           UNCHANGED <<send_seq, mcu_seq>>
    PROVE  to_mcu' \in Seq(Blocks) /\ WireFresh'
<1>1. /\ to_mcu' \in Seq(Blocks)
      /\ Len(to_mcu') = Len(to_mcu) - 1
      /\ Len(to_mcu) \in Nat
      /\ \A i \in 1..Len(to_mcu') : to_mcu'[i] = to_mcu[i + 1]
  BY TailFacts DEF IInv, TypeOK
<1>2. \A i \in 1..Len(to_mcu') : i + 1 \in 1..Len(to_mcu)
  BY <1>1
<1> QED  BY <1>1, <1>2 DEF IInv, WireFresh

\* A message leaves the line.
LEMMA MessagesTail ==
    ASSUME IInv, from_mcu # << >>, from_mcu' = Tail(from_mcu),
           UNCHANGED <<mcu_seq, dispatched, console>>,
           receive_seq' \in {receive_seq, Head(from_mcu).seq}
    PROVE  from_mcu' \in Seq(Messages) /\ MessagesFresh' /\ AnswersFirst'
<1>1. /\ from_mcu' \in Seq(Messages)
      /\ Len(from_mcu') = Len(from_mcu) - 1
      /\ Len(from_mcu) \in Nat
      /\ Head(from_mcu) = from_mcu[1] /\ 1 \in 1..Len(from_mcu)
      /\ \A i \in 1..Len(from_mcu') : from_mcu'[i] = from_mcu[i + 1]
  BY TailFacts DEF IInv, TypeOK
<1>2. \A i \in 1..Len(from_mcu') : i + 1 \in 1..Len(from_mcu) /\ 1 < i + 1
  BY <1>1
<1>3. Base' = Base
  BY DEF Base
<1>4. AnswersFirst'
  BY <1>1, <1>2 DEF IInv, AnswersFirst
<1>5. \A i \in 1..Len(from_mcu') : from_mcu[1].seq <= from_mcu'[i].seq
  BY <1>1, <1>2 DEF IInv, MessagesFresh
<1>6. MessagesFresh'
  BY <1>1, <1>2, <1>3, <1>5 DEF IInv, MessagesFresh
<1> QED  BY <1>1, <1>4, <1>6

\* Steps of the micro-controller that take no block into account.
LEMMA RespondStep ==
    ASSUME IInv, NEW m \in Messages, Respond(m),
           m.seq = mcu_seq,
           m.src = 0 \/ (console = "dispatching" /\ m.src = mcu_seq - 1),
           m.kind = "ack" => m.src = 0 /\ console' = "idle",
           console' \in {console, "idle"}, need_valid' \in BOOLEAN,
           to_mcu' = to_mcu \/ (to_mcu # << >> /\ to_mcu' = Tail(to_mcu)),
           UNCHANGED <<hostVars, mcu_seq, dispatched>>
    PROVE  IInv'
<1> USE DEF hostVars
<1>1. /\ from_mcu' \in Seq(Messages)
      /\ MessagesFresh' /\ AnswersFirst'
  BY RespondPreserves
<1>2. to_mcu' \in Seq(Blocks) /\ WireFresh'
  BY WireTail DEF IInv, TypeOK, WireFresh
<1>3. TypeOK'
  BY <1>1, <1>2 DEF IInv, TypeOK
<1>4. Position' /\ InOrder' /\ RetransmitArmed'
  BY DEF IInv, Position, InOrder, RetransmitArmed, Base
<1> QED  BY <1>1, <1>2, <1>3, <1>4 DEF IInv

LEMMA BuildAndSendIInv ==
    ASSUME IInv, NEW wait \in BOOLEAN, BuildAndSend(wait)
    PROVE  IInv'
<1>1. /\ send_seq' = send_seq + 1
      /\ sent_queue' = Append(sent_queue, send_seq)
      /\ Transmit(to_mcu, <<Block(send_seq, FALSE)>>)
      /\ send_seq - receive_seq < Window
      /\ UNCHANGED <<receive_seq, last_ack_seq, last_ack_bytes, ignore_nak_seq,
                     retransmit_seq, notified, from_mcu, mcu_seq, need_valid,
                     console, dispatched>>
      /\ Base' = Base
  BY DEF BuildAndSend, MaySend, mcuVars, Base
<1>2. /\ Len(to_mcu) \in Nat
      /\ \A i \in 1..Len(to_mcu) :
            /\ to_mcu[i].blk \in Nat /\ to_mcu[i].blk >= 1
            /\ to_mcu[i].blk + 1 <= send_seq
            /\ mcu_seq < to_mcu[i].blk + SeqMod
  BY DEF IInv, TypeOK, Blocks, WireFresh
<1>3. /\ to_mcu' \in Seq(Blocks)
      /\ Len(to_mcu') \in 0..(Len(to_mcu) + 1)
      /\ \A i \in 1..Len(to_mcu') :
            /\ i <= Len(to_mcu) => to_mcu'[i] = to_mcu[i]
            /\ i = Len(to_mcu) + 1 => to_mcu'[i].blk = send_seq
  <2> DEFINE new == <<Block(send_seq, FALSE)>>
  <2>1. new \in Seq(Blocks) /\ Len(new) = 1 /\ new[1].blk = send_seq
    BY DEF IInv, TypeOK, Blocks, Block
  <2>2. to_mcu \in Seq(Blocks) /\ Transmit(to_mcu, new)
    BY <1>1 DEF IInv, TypeOK
  <2> HIDE DEF new
  <2>3. /\ to_mcu' \in Seq(Blocks)
        /\ Len(to_mcu') \in 0..(Len(to_mcu) + Len(new))
        /\ \A i \in 1..Len(to_mcu') :
              to_mcu'[i] = IF i <= Len(to_mcu) THEN to_mcu[i]
                                               ELSE new[i - Len(to_mcu)]
    BY <2>1, <2>2, TransmitFacts
  <2>4. ASSUME NEW i \in 1..Len(to_mcu'), i = Len(to_mcu) + 1
        PROVE  to_mcu'[i].blk = send_seq
    <3>1. to_mcu'[i] = new[i - Len(to_mcu)] /\ i - Len(to_mcu) = 1
      BY <1>2, <2>3, <2>4
    <3> QED  BY <2>1, <3>1
  <2> QED  BY <1>2, <2>1, <2>3, <2>4
<1>4. TypeOK'
  <2>1. /\ sent_queue' \in Seq(Nat)
        /\ Len(sent_queue') = send_seq' - receive_seq'
        /\ \A i \in 1..Len(sent_queue') :
              sent_queue'[i] = receive_seq' + i - 1
    <3>1. Len(sent_queue) = send_seq - receive_seq
      BY DEF IInv, TypeOK
    <3>2. /\ sent_queue \in Seq(Nat) /\ send_seq \in Nat /\ receive_seq \in Nat
          /\ \A i \in 1..Len(sent_queue) : sent_queue[i] = receive_seq + i - 1
      BY DEF IInv, TypeOK
    <3>3. /\ sent_queue' \in Seq(Nat)
          /\ Len(sent_queue') = Len(sent_queue) + 1
          /\ Len(sent_queue) \in Nat
          /\ sent_queue'[Len(sent_queue) + 1] = send_seq
          /\ \A i \in 1..Len(sent_queue) : sent_queue'[i] = sent_queue[i]
      BY <1>1, <3>2, AppendFacts
    <3> QED  BY <1>1, <3>1, <3>2, <3>3
  <2>2. /\ send_seq' \in Nat \ {0}
        /\ send_seq' - receive_seq' \in 0..Window
    BY <1>1, WindowAssumption DEF IInv, TypeOK
  <2>3. notify_queue' \in SUBSET Nat
    BY DEF IInv, TypeOK, BuildAndSend
  <2>4. retransmit_timer' \in {"never", "armed", "now"}
    BY DEF IInv, TypeOK, BuildAndSend
  <2> QED  BY <1>1, <1>3, <2>1, <2>2, <2>3, <2>4 DEF IInv, TypeOK
<1>5. Position'
  BY <1>1 DEF IInv, TypeOK, Position
<1>6. WireFresh'
  <2>1. mcu_seq < send_seq + SeqMod
    BY SeqModAssumption, WindowAssumption DEF IInv, TypeOK, Position, Base
  <2>2. ASSUME NEW j \in 1..Len(to_mcu')
        PROVE  /\ to_mcu'[j].blk \in 1..(send_seq' - 1)
               /\ mcu_seq' < to_mcu'[j].blk + SeqMod
    <3>1. CASE j <= Len(to_mcu)
      <4>1. to_mcu'[j] = to_mcu[j] /\ j \in 1..Len(to_mcu)
        BY <1>2, <1>3, <3>1
      <4> QED  BY <1>1, <1>2, <4>1 DEF IInv, TypeOK
    <3>2. CASE j = Len(to_mcu) + 1
      <4>1. to_mcu'[j].blk = send_seq
        BY <1>3, <3>2
      <4> QED  BY <1>1, <2>1, <4>1 DEF IInv, TypeOK
    <3> QED  BY <1>2, <1>3, <3>1, <3>2
  <2>3. ASSUME NEW i \in 1..Len(to_mcu'), NEW j \in 1..Len(to_mcu'), i < j
        PROVE  to_mcu'[i].blk + 1 < to_mcu'[j].blk + SeqMod
    <3>1. i \in 1..Len(to_mcu) /\ to_mcu'[i] = to_mcu[i]
      BY <1>2, <1>3, <2>3
    <3>2. CASE j <= Len(to_mcu)
      BY <1>3, <2>3, <3>1, <3>2 DEF IInv, WireFresh
    <3>3. CASE j = Len(to_mcu) + 1
      <4>1. to_mcu'[j].blk = send_seq
        BY <1>3, <3>3
      <4>2. to_mcu[i].blk \in Nat /\ to_mcu[i].blk + 1 <= send_seq
        BY <1>2, <3>1
      <4> QED
        BY <3>1, <4>1, <4>2, SeqModAssumption DEF IInv, TypeOK
    <3> QED  BY <1>2, <1>3, <3>2, <3>3
  <2> QED  BY <2>2, <2>3 DEF WireFresh
<1>7. MessagesFresh' /\ AnswersFirst' /\ InOrder'
  BY <1>1 DEF IInv, MessagesFresh, AnswersFirst, InOrder
<1>8. RetransmitArmed'
  BY DEF IInv, RetransmitArmed, BuildAndSend
<1> QED  BY <1>4, <1>5, <1>6, <1>7, <1>8 DEF IInv

\* retransmit_event: what is flushed only shortens the wire, and the blocks
\* sent again follow everything that was sent before.
LEMMA RetransmitIInv ==
    ASSUME IInv, NEW timer, Retransmit(timer)
    PROVE  IInv'
<1> DEFINE old(kept) == SubSeq(to_mcu, 1, kept)
           again == [i \in 1..Len(sent_queue) |-> Block(sent_queue[i], TRUE)]
<1>1. /\ UNCHANGED <<send_seq, receive_seq, sent_queue, last_ack_seq,
                     last_ack_bytes, notify_queue, notified, from_mcu,
                     mcu_seq, need_valid, console, dispatched>>
      /\ retransmit_timer' = "armed"
      /\ Base' = Base
  BY DEF Retransmit, mcuVars, Base
<1>2. /\ send_seq \in Nat /\ receive_seq \in Nat /\ receive_seq >= 1
      /\ mcu_seq \in Nat /\ retransmit_seq \in Nat
      /\ send_seq - receive_seq <= Window
      /\ Len(sent_queue) \in Nat /\ Len(sent_queue) = send_seq - receive_seq
      /\ Window \in Nat /\ SeqMod \in Nat /\ Window < SeqMod
      /\ \A i \in 1..Len(sent_queue) : sent_queue[i] = receive_seq + i - 1
  BY SeqModAssumption, WindowAssumption DEF IInv, TypeOK
<1>3. /\ Len(to_mcu) \in Nat
      /\ \A i \in 1..Len(to_mcu) :
            /\ to_mcu[i] \in Blocks
            /\ to_mcu[i].blk \in Nat /\ to_mcu[i].blk >= 1
            /\ to_mcu[i].blk + 1 <= send_seq
            /\ mcu_seq < to_mcu[i].blk + SeqMod
  <2>1. Len(to_mcu) \in Nat /\ \A i \in 1..Len(to_mcu) : to_mcu[i] \in Blocks
    BY DEF IInv, TypeOK
  <2>2. \A b \in Blocks : b.blk \in Nat
    BY DEF Blocks
  <2> QED  BY <1>2, <2>1, <2>2 DEF IInv, WireFresh
<1>4. PICK kept \in 0..Len(to_mcu) : Transmit(old(kept), again)
  BY DEF Retransmit
<1>5. /\ old(kept) \in Seq(Blocks)
      /\ Len(old(kept)) = kept
      /\ \A i \in 1..kept : old(kept)[i] = to_mcu[i]
  BY <1>3, SubSeqProperties
<1>6. /\ again \in Seq(Blocks)
      /\ Len(again) = Len(sent_queue)
      /\ \A i \in 1..Len(again) : again[i].blk = receive_seq + i - 1
  <2>1. \A i \in 1..Len(sent_queue) : Block(sent_queue[i], TRUE) \in Blocks
    BY <1>2 DEF Block, Blocks
  <2> QED  BY <1>2, <2>1 DEF Block
<1> HIDE DEF again, old
<1>7. /\ to_mcu' \in Seq(Blocks)
      /\ Len(to_mcu') \in 0..(kept + Len(again))
      /\ \A i \in 1..Len(to_mcu') :
            to_mcu'[i] = IF i <= kept THEN old(kept)[i]
                                      ELSE again[i - kept]
  <2>1. /\ to_mcu' \in Seq(Blocks)
        /\ Len(to_mcu') \in 0..(Len(old(kept)) + Len(again))
        /\ \A i \in 1..Len(to_mcu') :
              to_mcu'[i] = IF i <= Len(old(kept)) THEN old(kept)[i]
                                              ELSE again[i - Len(old(kept))]
    BY <1>4, <1>5, <1>6, TransmitFacts
  <2> QED  BY <1>5, <2>1
<1>8. \A i \in 1..Len(to_mcu') :
         \/ i <= kept /\ i \in 1..Len(to_mcu) /\ to_mcu'[i] = to_mcu[i]
         \/ i > kept /\ to_mcu'[i].blk = receive_seq + (i - kept) - 1
  <2> TAKE i \in 1..Len(to_mcu')
  <2>1. CASE i <= kept
    BY <1>3, <1>5, <1>7, <2>1
  <2>2. CASE ~(i <= kept)
    <3>1. i - kept \in 1..Len(again)
      BY <1>2, <1>3, <1>6, <1>7, <2>2
    <3>2. i > kept /\ to_mcu'[i] = again[i - kept]
      BY <1>3, <1>7, <2>2
    <3> QED  BY <1>6, <3>1, <3>2
  <2> QED  BY <2>1, <2>2
<1>9. TypeOK'
  <2>1. ignore_nak_seq' \in Nat /\ retransmit_seq' \in Nat
    BY <1>2 DEF Retransmit
  <2> QED  BY <1>1, <1>7, <2>1 DEF IInv, TypeOK
<1>10. WireFresh'
  <2>1. mcu_seq < receive_seq + SeqMod
    BY <1>2 DEF IInv, Position, Base, TypeOK
  <2>2. ASSUME NEW j \in 1..Len(to_mcu')
        PROVE  /\ to_mcu'[j].blk \in 1..(send_seq' - 1)
               /\ mcu_seq' < to_mcu'[j].blk + SeqMod
    <3>0. kept \in Nat /\ j \in Nat
      BY <1>3, <1>7
    <3>1. CASE j <= kept
      <4>1. j \in 1..Len(to_mcu) /\ to_mcu'[j] = to_mcu[j]
        <5>1. ~(j > kept)
          BY <3>0, <3>1
        <5> QED  BY <1>8, <5>1
      <4>2. /\ to_mcu[j].blk \in Nat /\ to_mcu[j].blk >= 1
            /\ to_mcu[j].blk + 1 <= send_seq
            /\ mcu_seq < to_mcu[j].blk + SeqMod
        BY <1>3, <4>1
      <4>3. send_seq' = send_seq /\ mcu_seq' = mcu_seq /\ send_seq \in Nat
        BY <1>1, <1>2
      <4> QED  BY <4>1, <4>2, <4>3
    <3>2. CASE j > kept
      <4>1. to_mcu'[j].blk = receive_seq + (j - kept) - 1
        <5>1. ~(j <= kept)
          BY <3>0, <3>2
        <5> QED  BY <1>8, <5>1
      <4>2. j - kept \in 1..Len(sent_queue)
        BY <1>2, <1>6, <1>7, <3>0, <3>2
      <4>3. /\ send_seq' = send_seq /\ mcu_seq' = mcu_seq
            /\ send_seq \in Nat /\ receive_seq \in Nat /\ receive_seq >= 1
            /\ Len(sent_queue) = send_seq - receive_seq
            /\ mcu_seq \in Nat /\ SeqMod \in Nat
        BY <1>1, <1>2
      <4> QED  BY <2>1, <4>1, <4>2, <4>3
    <3> QED  BY <3>0, <3>1, <3>2
  <2>3. ASSUME NEW i \in 1..Len(to_mcu'), NEW j \in 1..Len(to_mcu'), i < j
        PROVE  to_mcu'[i].blk + 1 < to_mcu'[j].blk + SeqMod
    <3>1. CASE j <= kept
      <4>1. i \in 1..Len(to_mcu) /\ j \in 1..Len(to_mcu)
            /\ to_mcu'[i] = to_mcu[i] /\ to_mcu'[j] = to_mcu[j]
        BY <1>3, <1>8, <2>3, <3>1
      <4> QED  BY <2>3, <4>1 DEF IInv, WireFresh
    <3>2. CASE j > kept
      <4>1. to_mcu'[j].blk = receive_seq + (j - kept) - 1
        BY <1>8, <3>2
      <4>2. j - kept \in Nat /\ j - kept >= 1
        BY <1>3, <3>2
      <4>3. to_mcu'[i].blk \in 1..(send_seq - 1)
        BY <1>1, <2>2
      <4> QED  BY <1>2, <4>1, <4>2, <4>3
    <3> QED  BY <1>3, <3>1, <3>2
  <2> QED  BY <2>2, <2>3 DEF WireFresh
<1>11. /\ Position' /\ MessagesFresh' /\ AnswersFirst'
       /\ InOrder' /\ RetransmitArmed'
  BY <1>1 DEF IInv, Position, MessagesFresh, AnswersFirst,
     InOrder, RetransmitArmed
<1> QED  BY <1>9, <1>10, <1>11 DEF IInv

LEMMA MessageTypes ==
    ASSUME IInv
    PROVE  /\ Ack \in Messages /\ Ack.seq = mcu_seq /\ Ack.src = 0
           /\ \A b \in {0, mcu_seq - 1} :
                 b \in Nat =>
                    /\ Message(mcu_seq, "data", b) \in Messages
                    /\ Message(mcu_seq, "data", b).seq = mcu_seq
                    /\ Message(mcu_seq, "data", b).src = b
                    /\ Message(mcu_seq, "data", b).kind = "data"
           /\ mcu_seq - 1 \in Nat
<1>1. mcu_seq \in Nat /\ mcu_seq >= 1
  <2>1. Len(dispatched) \in Nat
    BY DEF IInv, TypeOK
  <2> QED  BY <2>1 DEF IInv, TypeOK, Position, Base
<1> QED  BY <1>1 DEF Ack, Message, Messages

LEMMA McuAnswersIInv ==
    ASSUME IInv, McuNak \/ McuGarbage \/ McuRespond \/ McuReport \/ McuDone
    PROVE  IInv'
<1> USE MessageTypes DEF mcuVars
<1>1. CASE McuNak
  BY <1>1, RespondStep DEF McuNak, Idle
<1>2. CASE McuGarbage
  <2>1. CASE need_valid
    <3>1. /\ UNCHANGED <<hostVars, from_mcu, mcu_seq, console, dispatched>>
          /\ need_valid' \in BOOLEAN
          /\ to_mcu' \in Seq(Blocks) /\ WireFresh'
      BY <1>2, <2>1, WireTail DEF McuGarbage, Idle, hostVars
    <3> QED
      BY <3>1 DEF IInv, TypeOK, Position, MessagesFresh, AnswersFirst,
         InOrder, RetransmitArmed, Base, hostVars
  <2>2. CASE ~need_valid
    BY <1>2, <2>2, RespondStep DEF McuGarbage, Idle
  <2> QED  BY <2>1, <2>2
<1>3. CASE McuRespond
  BY <1>3, RespondStep DEF McuRespond, IInv, TypeOK
<1>4. CASE McuReport
  BY <1>4, RespondStep DEF McuReport, IInv, TypeOK
<1>5. CASE McuDone
  BY <1>5, RespondStep DEF McuDone, IInv, TypeOK
<1> QED  BY <1>1, <1>2, <1>3, <1>4, <1>5

LEMMA LoseIInv ==
    ASSUME IInv, LoseBlock \/ LoseMessage
    PROVE  IInv'
<1>1. CASE LoseBlock
  <2>1. to_mcu' \in Seq(Blocks) /\ WireFresh'
    BY <1>1, WireTail DEF LoseBlock, hostVars, mcuVars
  <2> QED
    BY <1>1, <2>1 DEF LoseBlock, IInv, TypeOK, Position, MessagesFresh,
       AnswersFirst, InOrder, RetransmitArmed, Base,
       hostVars, mcuVars
<1>2. CASE LoseMessage
  <2>1. UNCHANGED <<hostVars, to_mcu, mcuVars>>
    BY <1>2 DEF LoseMessage
  <2>2. from_mcu' \in Seq(Messages) /\ MessagesFresh' /\ AnswersFirst'
    BY <1>2, <2>1, MessagesTail DEF LoseMessage, hostVars, mcuVars
  <2> QED
    BY <2>1, <2>2 DEF IInv, TypeOK, Position, WireFresh, InOrder,
       RetransmitArmed, Base, hostVars, mcuVars
<1> QED  BY <1>1, <1>2

\* command_find_block only sees low bits, but takes the right block.
LEMMA AcceptedBlock ==
    ASSUME IInv, McuAccept
    PROVE  Head(to_mcu).blk = mcu_seq /\ mcu_seq < send_seq
<1> DEFINE h == to_mcu[1].blk
<1>1. Head(to_mcu) = to_mcu[1] /\ 1 \in 1..Len(to_mcu) /\ to_mcu[1] \in Blocks
  BY TailFacts DEF McuAccept, Idle, IInv, TypeOK
<1>2. h \in Nat /\ mcu_seq \in Nat /\ mcu_seq >= 1
  <2>1. Len(dispatched) \in Nat
    BY DEF IInv, TypeOK
  <2> QED  BY <1>1, <2>1 DEF Blocks, IInv, TypeOK, Position, Base
<1>3. h < send_seq /\ mcu_seq < h + SeqMod
  BY <1>1 DEF IInv, WireFresh, TypeOK
<1>4. h < mcu_seq + SeqMod
  <2>1. receive_seq <= mcu_seq
    BY <1>2 DEF IInv, TypeOK, Position
  <2>2. send_seq <= receive_seq + Window
    BY WindowAssumption DEF IInv, TypeOK
  <2> QED
    BY <1>2, <1>3, <2>1, <2>2, SeqModAssumption, WindowAssumption
       DEF IInv, TypeOK
<1>5. Low(h) = Low(mcu_seq)
  BY <1>1 DEF McuAccept
<1>6. h = mcu_seq
  BY <1>2, <1>3, <1>4, <1>5, LowInjective
<1> QED  BY <1>1, <1>3, <1>6

LEMMA McuAcceptIInv ==
    ASSUME IInv, McuAccept
    PROVE  IInv'
<1>1. /\ mcu_seq' = mcu_seq + 1
      /\ dispatched' = Append(dispatched, mcu_seq)
      /\ console' = "dispatching" /\ need_valid' \in BOOLEAN
      /\ to_mcu' = Tail(to_mcu) /\ to_mcu # << >>
      /\ UNCHANGED <<hostVars, from_mcu>>
      /\ mcu_seq < send_seq
      /\ console = "idle"
  BY AcceptedBlock DEF McuAccept, Idle
<1>2. /\ dispatched' \in Seq(Nat)
      /\ Len(dispatched') = Len(dispatched) + 1
      /\ Len(dispatched) \in Nat
      /\ dispatched'[Len(dispatched) + 1] = mcu_seq
      /\ \A i \in 1..Len(dispatched) : dispatched'[i] = dispatched[i]
  BY <1>1, AppendFacts DEF IInv, TypeOK
<1>3. mcu_seq \in Nat /\ Base' = Base /\ Base \in Int /\ Base >= 1
      /\ receive_seq \in Nat /\ send_seq \in Nat /\ Base <= mcu_seq
  BY <1>1, <1>2 DEF Base, IInv, TypeOK, Position
<1>4. /\ to_mcu' \in Seq(Blocks)
      /\ Len(to_mcu') = Len(to_mcu) - 1
      /\ Len(to_mcu) \in Nat
      /\ to_mcu[1].blk = mcu_seq
      /\ \A i \in 1..Len(to_mcu') : to_mcu'[i] = to_mcu[i + 1]
  BY <1>1, AcceptedBlock, TailFacts DEF IInv, TypeOK
<1>5. TypeOK'
  BY <1>1, <1>2, <1>3, <1>4 DEF IInv, TypeOK, hostVars
<1>6. Position'
  BY <1>1, <1>2, <1>3 DEF IInv, Position, hostVars
<1>7. WireFresh'
  <2>1. \A i \in 1..Len(to_mcu') :
           i + 1 \in 1..Len(to_mcu) /\ 1 \in 1..Len(to_mcu) /\ 1 < i + 1
    BY <1>4
  <2>2. \A i \in 1..Len(to_mcu') : mcu_seq + 1 < to_mcu'[i].blk + SeqMod
    BY <1>4, <2>1 DEF IInv, WireFresh
  <2>3. \A i \in 1..Len(to_mcu') : to_mcu'[i].blk \in 1..(send_seq' - 1)
    BY <1>1, <1>4, <2>1 DEF IInv, WireFresh, hostVars
  <2>4. ASSUME NEW i \in 1..Len(to_mcu'), NEW j \in 1..Len(to_mcu'), i < j
        PROVE  to_mcu'[i].blk + 1 < to_mcu'[j].blk + SeqMod
    <3>1. i + 1 \in 1..Len(to_mcu) /\ j + 1 \in 1..Len(to_mcu) /\ i + 1 < j + 1
      BY <1>4, <2>1, <2>4
    <3> QED  BY <1>4, <3>1 DEF IInv, WireFresh
  <2> QED  BY <1>1, <2>2, <2>3, <2>4 DEF WireFresh
<1>8. MessagesFresh'
  BY <1>1, <1>3 DEF IInv, MessagesFresh, hostVars
<1>9. AnswersFirst'
  BY <1>1, <1>3 DEF IInv, AnswersFirst, MessagesFresh
<1>10. InOrder'
  <2>1. ASSUME NEW i \in 1..Len(dispatched')
        PROVE  dispatched'[i] = Base' + i - 1
    <3>1. CASE i <= Len(dispatched)
      BY <1>2, <1>3, <3>1 DEF IInv, InOrder
    <3>2. CASE i = Len(dispatched) + 1
      BY <1>2, <1>3, <3>2 DEF Base
    <3> QED  BY <1>2, <3>1, <3>2
  <2> QED  BY <2>1 DEF InOrder
<1>11. RetransmitArmed'
  BY <1>1 DEF IInv, RetransmitArmed, hostVars
<1> QED  BY <1>5, <1>6, <1>7, <1>8, <1>9, <1>10, <1>11 DEF IInv

LEMMA UnackedFacts ==
    ASSUME IInv, NEW s \in Nat, receive_seq <= s
    PROVE  /\ Unacked(s) \in Seq(Nat)
           /\ Len(Unacked(s)) = IF s > send_seq THEN 0 ELSE send_seq - s
           /\ \A i \in 1..Len(Unacked(s)) : Unacked(s)[i] = s + i - 1
<1> DEFINE len == Len(sent_queue)
           m == s - receive_seq + 1
<1>1. /\ receive_seq \in Nat /\ send_seq \in Nat
      /\ len \in Nat /\ len = send_seq - receive_seq
      /\ \A i \in 1..len : sent_queue[i] = receive_seq + i - 1
      /\ \A i \in 1..len : sent_queue[i] \in Nat
  BY DEF IInv, TypeOK
<1>2. m \in Int /\ m >= 1
  BY <1>1
<1>3. \A i \in m..len : i \in 1..len
  BY <1>1, <1>2
<1>4. Unacked(s) = SubSeq(sent_queue, m, len)
  BY DEF Unacked
<1> HIDE DEF m, len
<1>5. /\ Unacked(s) \in Seq(Nat)
      /\ Len(Unacked(s)) = IF m <= len THEN len - m + 1 ELSE 0
      /\ \A i \in 1..(len - m + 1) : Unacked(s)[i] = sent_queue[m + i - 1]
  BY <1>1, <1>2, <1>3, <1>4, SubSeqProperties
<1>6. Len(Unacked(s)) = IF s > send_seq THEN 0 ELSE send_seq - s
  BY <1>1, <1>5 DEF m
<1>7. ASSUME NEW i \in 1..Len(Unacked(s))
      PROVE  Unacked(s)[i] = s + i - 1
  <2>1. i \in 1..(len - m + 1) /\ m + i - 1 \in 1..len
    BY <1>1, <1>2, <1>5, <1>7
  <2>2. sent_queue[m + i - 1] = receive_seq + (m + i - 1) - 1
    BY <1>1, <2>1
  <2> QED  BY <1>1, <1>5, <2>1, <2>2 DEF m
<1> QED  BY <1>5, <1>6, <1>7

\* handle_message: everything but notify_queue, last_ack_seq and the timer.
LEMMA ReceivePreserves ==
    ASSUME IInv, from_mcu # << >>, NEW s, s = Head(from_mcu).seq,
           UpdateReceiveSeq(s), from_mcu' = Tail(from_mcu),
           UNCHANGED <<to_mcu, mcuVars>>
    PROVE  /\ s \in Nat /\ receive_seq <= s /\ s <= mcu_seq
           /\ sent_queue' = Unacked(s)
           /\ send_seq' \in Nat \ {0} /\ receive_seq' \in Nat \ {0}
           /\ send_seq' - receive_seq' \in 0..Window
           /\ sent_queue' \in Seq(Nat)
           /\ Len(sent_queue') = send_seq' - receive_seq'
           /\ \A i \in 1..Len(sent_queue') :
                 sent_queue'[i] = receive_seq' + i - 1
           /\ last_ack_bytes' \in {0, 1}
           /\ from_mcu' \in Seq(Messages)
           /\ Position' /\ WireFresh' /\ MessagesFresh' /\ AnswersFirst'
           /\ InOrder'
<1>1. /\ s \in Base..mcu_seq /\ Base \in Int /\ mcu_seq \in Nat /\ Base >= 1
      /\ receive_seq <= s /\ receive_seq \in Nat /\ receive_seq >= 1
      /\ send_seq \in Nat /\ send_seq >= receive_seq
      /\ send_seq - receive_seq <= Window
      /\ Base' = Base
  BY HeadRecognised, SeqModAssumption DEF IInv, TypeOK, Position, Base, mcuVars
<1>2. s \in Nat /\ s >= 1
  BY <1>1
<1>3. /\ receive_seq' = s /\ sent_queue' = Unacked(s)
      /\ send_seq' = IF s > send_seq THEN s ELSE send_seq
      /\ last_ack_bytes' \in {0, 1}
  BY DEF UpdateReceiveSeq, IInv, TypeOK
<1>4. /\ Unacked(s) \in Seq(Nat)
      /\ Len(Unacked(s)) = IF s > send_seq THEN 0 ELSE send_seq - s
      /\ \A i \in 1..Len(Unacked(s)) : Unacked(s)[i] = s + i - 1
  BY <1>1, <1>2, UnackedFacts
<1>5. /\ send_seq' \in Nat \ {0} /\ receive_seq' \in Nat \ {0}
      /\ send_seq' - receive_seq' \in 0..Window
  <2>1. CASE s > send_seq
    BY <1>1, <1>2, <1>3, <2>1, WindowAssumption
  <2>2. CASE s <= send_seq
    <3>1. send_seq' = send_seq /\ receive_seq' = s
      BY <1>1, <1>2, <1>3, <2>2
    <3>2. send_seq - s \in 0..Window
      BY <1>1, <1>2, <2>2, WindowAssumption
    <3> QED  BY <1>1, <1>2, <2>2, <3>1, <3>2
  <2> QED  BY <1>1, <1>2, <2>1, <2>2
<1>6. /\ sent_queue' \in Seq(Nat)
      /\ Len(sent_queue') = send_seq' - receive_seq'
      /\ \A i \in 1..Len(sent_queue') : sent_queue'[i] = receive_seq' + i - 1
  BY <1>1, <1>2, <1>3, <1>4
<1>7. from_mcu' \in Seq(Messages) /\ MessagesFresh' /\ AnswersFirst'
  BY <1>3, MessagesTail DEF mcuVars
<1>8. Position'
  <2>1. Base' \in 1..SeqMod
    BY <1>1 DEF IInv, Position
  <2>2. receive_seq' # 1 => Base' <= receive_seq' /\ receive_seq' <= mcu_seq'
    BY <1>1, <1>2, <1>3 DEF mcuVars
  <2>3. mcu_seq' <= send_seq' \/ (receive_seq' = 1 /\ dispatched' = << >>)
    <3>1. CASE mcu_seq <= send_seq
      BY <1>1, <1>2, <1>3, <3>1 DEF mcuVars
    <3>2. CASE receive_seq = 1 /\ dispatched = << >>
      <4>1. Base = mcu_seq
        BY <1>1, <3>2 DEF Base
      <4>2. s = mcu_seq
        BY <1>1, <4>1
      <4> QED  BY <1>1, <1>2, <1>3, <4>2 DEF mcuVars
    <3> QED  BY <3>1, <3>2 DEF IInv, Position
  <2> QED  BY <2>1, <2>2, <2>3 DEF Position
<1>9. WireFresh'
  <2>1. send_seq' >= send_seq /\ send_seq' \in Nat
    BY <1>1, <1>2, <1>3
  <2>2. to_mcu' = to_mcu /\ mcu_seq' = mcu_seq
    BY DEF mcuVars
  <2> QED  BY <1>1, <2>1, <2>2 DEF IInv, WireFresh
<1>10. InOrder'
  BY <1>1 DEF IInv, InOrder, mcuVars
<1> QED
  BY <1>1, <1>2, <1>3, <1>5, <1>6, <1>7, <1>8, <1>9, <1>10

\* What is notified stays a set of blocks.
LEMMA NotifyTypes ==
    ASSUME IInv, NEW w \in Int, Notify(w)
    PROVE  /\ notify_queue' \in SUBSET Nat /\ notified' \in SUBSET Nat
           /\ w >= 0 => \A n \in notified' \ notified : n <= w
<1> DEFINE due == {n \in notify_queue : n <= w \/ w < 0}
<1>1. /\ notify_queue' = notify_queue \ due /\ notified' = notified \cup due
      /\ due \in SUBSET notify_queue /\ \A n \in due : n <= w \/ w < 0
  BY DEF Notify
<1> HIDE DEF due
<1>2. notify_queue \in SUBSET Nat /\ notified \in SUBSET Nat
  BY DEF IInv, TypeOK
<1>3. \A n \in notified' \ notified : n \in due
  BY <1>1
<1>4. w >= 0 => ~(w < 0)
  OBVIOUS
<1> QED  BY <1>1, <1>2, <1>3, <1>4

\* An acknowledgement leaves the queue after all the answers to the blocks
\* it acknowledges; an answer may be followed by others to the same block.
LEMMA NotifySafe ==
    ASSUME IInv, from_mcu # << >>, NEW s, s = Head(from_mcu).seq, NEW w \in Int,
           from_mcu' = Tail(from_mcu), UNCHANGED mcuVars,
           w <= s - 2 \/ (w <= s - 1 /\ Head(from_mcu).kind = "ack"),
           NEW n \in Nat, n <= w, n >= Base
    PROVE  AllAnswered(n)'
<1>1. /\ Len(from_mcu') = Len(from_mcu) - 1
      /\ Len(from_mcu) \in Nat
      /\ Head(from_mcu) = from_mcu[1] /\ 1 \in 1..Len(from_mcu)
      /\ \A i \in 1..Len(from_mcu') : from_mcu'[i] = from_mcu[i + 1]
      /\ \A i \in 1..Len(from_mcu) : from_mcu[i] \in Messages
  BY TailFacts DEF IInv, TypeOK
<1>2. s \in Nat /\ s <= mcu_seq /\ mcu_seq \in Nat /\ n >= 1
  <2>1. s \in Base..mcu_seq
    BY HeadRecognised
  <2> QED  BY <2>1 DEF IInv, TypeOK, Position, Base
<1>3. n < mcu_seq
  BY <1>2
<1>4. console = "dispatching" => n # mcu_seq - 1
  <2>1. CASE w <= s - 2
    BY <1>2, <2>1
  <2>2. CASE w <= s - 1 /\ Head(from_mcu).kind = "ack"
    <3>1. console = "dispatching" => s < mcu_seq
      BY <1>1, <2>2 DEF IInv, AnswersFirst
    <3> QED  BY <1>2, <2>2, <3>1
  <2> QED  BY <2>1, <2>2
<1>5. ASSUME NEW i \in 1..Len(from_mcu')
      PROVE  from_mcu'[i].src # n
  <2>1. /\ from_mcu'[i] = from_mcu[i + 1]
        /\ i + 1 \in 1..Len(from_mcu) /\ 1 < i + 1
    BY <1>1
  <2>2. from_mcu[i + 1].src \in Nat /\ from_mcu[i + 1].seq \in Nat
    BY <1>1, <2>1 DEF Messages
  <2>3. CASE w <= s - 2
    <3>1. s <= from_mcu[i + 1].seq
      BY <1>1, <2>1 DEF IInv, MessagesFresh
    <3>2. from_mcu[i + 1].src \in {0, from_mcu[i + 1].seq - 1}
      BY <2>1 DEF IInv, AnswersFirst
    <3> QED  BY <1>2, <2>1, <2>2, <2>3, <3>1, <3>2
  <2>4. CASE w <= s - 1 /\ Head(from_mcu).kind = "ack"
    <3>1. from_mcu[i + 1].src # 0 => s <= from_mcu[i + 1].src
      BY <1>1, <2>1, <2>4 DEF IInv, AnswersFirst
    <3> QED  BY <1>2, <2>1, <2>2, <2>4, <3>1
  <2> QED  BY <2>3, <2>4
<1> QED  BY <1>3, <1>4, <1>5 DEF AllAnswered, mcuVars

LEMMA HandleMessageIInv ==
    ASSUME IInv, HandleAck \/ HandleData
    PROVE  IInv'
<1> DEFINE s == Head(from_mcu).seq
<1>1. from_mcu # << >> /\ Unwrap(Low(s)) = s
  BY HeadRecognised DEF HandleAck, HandleData
<1>2. /\ UpdateReceiveSeq(s) /\ from_mcu' = Tail(from_mcu)
      /\ UNCHANGED <<ignore_nak_seq, retransmit_seq, to_mcu, mcuVars>>
      /\ last_ack_seq' \in {last_ack_seq, s}
      /\ \/ Notify(s - 1) /\ Head(from_mcu).kind = "ack"
         \/ Notify(s - 2)
      /\ \/ retransmit_timer' = "now"
         \/ retransmit_timer' = Rearmed(s)
  BY <1>1 DEF HandleAck, HandleData
<1> HIDE DEF s
<1>3. /\ s \in Nat /\ receive_seq <= s
      /\ sent_queue' = Unacked(s)
      /\ send_seq' \in Nat \ {0} /\ receive_seq' \in Nat \ {0}
      /\ send_seq' - receive_seq' \in 0..Window
      /\ sent_queue' \in Seq(Nat)
      /\ Len(sent_queue') = send_seq' - receive_seq'
      /\ \A i \in 1..Len(sent_queue') : sent_queue'[i] = receive_seq' + i - 1
      /\ last_ack_bytes' \in {0, 1}
      /\ from_mcu' \in Seq(Messages)
      /\ Position' /\ WireFresh' /\ MessagesFresh' /\ AnswersFirst'
      /\ InOrder'
  BY <1>1, <1>2, ReceivePreserves DEF s
<1>4. notify_queue' \in SUBSET Nat /\ notified' \in SUBSET Nat
  <2>1. CASE Notify(s - 1) /\ Head(from_mcu).kind = "ack"
    <3>1. s - 1 \in Int
      BY <1>3
    <3> QED  BY <2>1, <3>1, NotifyTypes
  <2>2. CASE Notify(s - 2)
    <3>1. s - 2 \in Int
      BY <1>3
    <3> QED  BY <2>2, <3>1, NotifyTypes
  <2> QED  BY <1>2, <2>1, <2>2
<1>5. retransmit_timer' \in {"never", "armed", "now"} /\ RetransmitArmed'
  <2>1. CASE retransmit_timer' = "now"
    BY <2>1 DEF RetransmitArmed
  <2>2. CASE retransmit_timer' = Rearmed(s) /\ s = receive_seq
    <3>1. sent_queue' = sent_queue
      <4>1. receive_seq \in Nat /\ sent_queue \in Seq(Nat)
        BY DEF IInv, TypeOK
      <4>2. s - receive_seq + 1 = 1
        BY <2>2, <4>1
      <4> QED  BY <1>3, <4>1, <4>2, SubSeqFull DEF Unacked
    <3> QED
      BY <2>2, <3>1 DEF Rearmed, RetransmitArmed, IInv, TypeOK
  <2>3. CASE retransmit_timer' = Rearmed(s) /\ s # receive_seq
    BY <1>3, <2>3 DEF Rearmed, RetransmitArmed
  <2> QED  BY <1>2, <2>1, <2>2, <2>3
<1>6. TypeOK'
  BY <1>2, <1>3, <1>4, <1>5 DEF IInv, TypeOK, mcuVars
<1> QED  BY <1>3, <1>4, <1>5, <1>6 DEF IInv

\* No message is invalid, so handle_message takes one of its two branches.
LEMMA HeadIsValid == IInv => ~HeadInvalid
  BY HeadRecognised DEF HeadInvalid

LEMMA MessageBranches ==
    ASSUME IInv, HandleMessage
    PROVE  HandleAck \/ HandleData
  BY HeadIsValid DEF HandleMessage

\* Every step of the link, whatever the line does, keeps the invariant.
THEOREM NextIInv == IInv /\ [Next]_vars => IInv'
<1> SUFFICES ASSUME IInv, [Next]_vars PROVE IInv'
  OBVIOUS
<1>1. CASE \E wait \in BOOLEAN : BuildAndSend(wait)
  BY <1>1, BuildAndSendIInv
<1>2. CASE RetransmitTimeout \/ RetransmitNak
  BY <1>2, RetransmitIInv DEF RetransmitTimeout, RetransmitNak
<1>4. CASE HandleMessage
  BY <1>4, MessageBranches, HandleMessageIInv
<1>5. CASE McuAccept
  BY <1>5, McuAcceptIInv
<1>6. CASE McuNak \/ McuGarbage \/ McuRespond \/ McuReport \/ McuDone
  BY <1>6, McuAnswersIInv
<1>7. CASE LoseBlock \/ LoseMessage
  BY <1>7, LoseIInv
<1>8. CASE UNCHANGED vars
  BY <1>8 DEF vars, hostVars, mcuVars, IInv, TypeOK, Position, WireFresh,
     MessagesFresh, InOrder, AnswersFirst, RetransmitArmed, Base
<1> QED
  BY <1>1, <1>2, <1>4, <1>5, <1>6, <1>7, <1>8 DEF Next

\* The inductive invariant holds in every state the two sides can reach.
THEOREM Invariance == Spec => []IInv
  BY InitIInv, NextIInv, PTL DEF Spec

-----------------------------------------------------------------------------
(* What follows from the invariant.                                        *)

\* Every variable keeps its type, and sent_queue holds exactly the numbers
\* from receive_seq to send_seq - 1 (check_send_command, update_receive_seq).
THEOREM TypeCorrect == Spec => []TypeOK
<1>1. IInv => TypeOK
  BY DEF IInv
<1> QED  BY <1>1, Invariance, PTL

\* command_find_block takes the blocks in order, each once.
THEOREM BlocksInOrder == Spec => []InOrder
<1>1. IInv => InOrder
  BY DEF IInv
<1> QED  BY <1>1, Invariance, PTL

\* update_receive_seq only drops blocks that the micro-controller took.
THEOREM NothingDropped == Spec => []AckedDispatched
<1>1. IInv => AckedDispatched
  BY DEF IInv, Position, AckedDispatched
<1> QED  BY <1>1, Invariance, PTL

\* Only handle_message reports blocks.
LEMMA OnlyMessages ==
    ASSUME IInv, [Next]_vars, ~(HandleAck \/ HandleData)
    PROVE  notified' = notified
<1> USE DEF hostVars
<1>1. ~HandleMessage
  BY MessageBranches
<1>2. CASE UNCHANGED vars
  BY <1>2 DEF vars
<1>3. CASE \E wait \in BOOLEAN : BuildAndSend(wait)
  BY <1>3 DEF BuildAndSend
<1>4. CASE RetransmitTimeout \/ RetransmitNak
  BY <1>4 DEF RetransmitTimeout, RetransmitNak, Retransmit
<1>5. CASE McuAccept \/ McuNak \/ McuGarbage \/ McuRespond \/ McuReport \/ McuDone
  BY <1>5 DEF McuAccept, McuNak, McuGarbage, McuRespond, McuReport, McuDone
<1>6. CASE LoseBlock \/ LoseMessage
  BY <1>6 DEF LoseBlock, LoseMessage
<1> QED  BY <1>1, <1>2, <1>3, <1>4, <1>5, <1>6 DEF Next

\* Once block 1 is acknowledged handle_message completes a command after the last
\* answer to its block: wake_seq does not wrap.
THEOREM NotifiedLast == Spec => NotifyAfterResponses
<1>1. ASSUME IInv, [Next]_vars, receive_seq' # 1,
             NEW n \in notified' \ notified, n >= Base'
      PROVE  AllAnswered(n)'
  <2> DEFINE s == Head(from_mcu).seq
  <2>1. HandleAck \/ HandleData
    BY <1>1, OnlyMessages
  <2>2. from_mcu # << >> /\ Unwrap(Low(s)) = s
    BY <1>1, <2>1, HeadRecognised DEF HandleAck, HandleData
  <2>3. /\ UpdateReceiveSeq(s) /\ from_mcu' = Tail(from_mcu)
        /\ UNCHANGED <<to_mcu, mcuVars>>
        /\ \/ Notify(s - 1) /\ Head(from_mcu).kind = "ack"
           \/ Notify(s - 2)
    BY <2>1, <2>2 DEF HandleAck, HandleData
  <2>4. s \in Nat /\ s >= 2 /\ notified \in SUBSET Nat /\ Base' = Base
    <3>1. s \in Nat /\ receive_seq <= s /\ receive_seq \in Nat \ {0}
      BY <1>1, <2>2, <2>3, ReceivePreserves DEF IInv, TypeOK
    <3>2. receive_seq' = s
      BY <2>3 DEF UpdateReceiveSeq
    <3> QED  BY <1>1, <2>3, <3>1, <3>2 DEF IInv, TypeOK, Base, mcuVars
  <2> HIDE DEF s
  <2>5. PICK w \in Nat :
           /\ Notify(w)
           /\ w <= s - 2 \/ (w <= s - 1 /\ Head(from_mcu).kind = "ack")
    <3>1. CASE Notify(s - 1) /\ Head(from_mcu).kind = "ack"
      <4>1. s - 1 \in Nat /\ s - 1 <= s - 1
        BY <2>4
      <4> QED  BY <3>1, <4>1
    <3>2. CASE Notify(s - 2)
      <4>1. s - 2 \in Nat /\ s - 2 <= s - 2
        BY <2>4
      <4> QED  BY <3>2, <4>1
    <3> QED  BY <2>3, <3>1, <3>2
  <2>6. n <= w /\ n \in Nat /\ w \in Int
    BY <1>1, <2>5, NotifyTypes
  <2> QED  BY <1>1, <2>2, <2>3, <2>4, <2>5, <2>6, NotifySafe DEF s
<1>2. IInv /\ [Next]_vars => [NotifiesAnswered]_vars
  <2> SUFFICES ASSUME IInv, [Next]_vars, receive_seq' # 1,
                      NEW n \in notified' \ notified, n >= Base
               PROVE  AllAnswered(n)'
    BY DEF NotifiesAnswered
  <2>1. Base' = Base
    BY OnlyMessages DEF HandleAck, HandleData, mcuVars, Base
  <2> QED  BY <1>1, <2>1
<1> QED  BY <1>2, Invariance, PTL DEF Spec, NotifyAfterResponses

\* Something is always set to send a waiting block again.
THEOREM AlwaysArmed == Spec => []RetransmitArmed
<1>1. IInv => RetransmitArmed
  BY DEF IInv
<1> QED  BY <1>1, Invariance, PTL

\* The branch "Out of order message?" of handle_message is never taken.
THEOREM NeverInvalid == Spec => []NothingInvalid
<1>1. IInv => NothingInvalid
  BY HeadIsValid DEF NothingInvalid
<1> QED  BY <1>1, Invariance, PTL

-----------------------------------------------------------------------------
(* Naks.                                                                   *)

\* A fast retransmission is only asked for above ignore_nak_seq.
NakFresh == retransmit_timer = "now" => ignore_nak_seq < receive_seq

LEMMA NakFreshStep ==
    ASSUME IInv, NakFresh, [Next]_vars
    PROVE  NakFresh'
<1>1. CASE \E wait \in BOOLEAN : BuildAndSend(wait)
  BY <1>1 DEF BuildAndSend, NakFresh
<1>2. CASE RetransmitTimeout \/ RetransmitNak
  BY <1>2 DEF RetransmitTimeout, RetransmitNak, Retransmit, NakFresh
<1>3. CASE HandleAck \/ HandleData
  <2> DEFINE s == Head(from_mcu).seq
  <2>1. /\ Unwrap(Low(s)) = s /\ UNCHANGED ignore_nak_seq /\ receive_seq' = s
        /\ \/ retransmit_timer' = "now" /\ s > ignore_nak_seq
           \/ retransmit_timer' = Rearmed(s)
    BY <1>3, HeadRecognised DEF HandleAck, HandleData, UpdateReceiveSeq
  <2>2. s \in Nat /\ ignore_nak_seq \in Nat
    BY <1>3, HeadRecognised DEF HandleAck, HandleData, Messages, IInv, TypeOK
  <2> HIDE DEF s
  <2> QED  BY <2>1, <2>2 DEF Rearmed, NakFresh
<1>4. CASE UNCHANGED hostVars
  BY <1>4 DEF NakFresh, hostVars
<1>5. CASE McuAccept \/ McuNak \/ McuGarbage \/ McuRespond
           \/ McuReport \/ McuDone \/ LoseBlock \/ LoseMessage \/ UNCHANGED vars
  BY <1>4, <1>5 DEF McuAccept, McuNak, McuGarbage, McuRespond, McuReport, McuDone, LoseBlock, LoseMessage, vars
<1>6. HandleMessage => HandleAck \/ HandleData
  BY MessageBranches
<1> QED  BY <1>1, <1>2, <1>3, <1>5, <1>6 DEF Next

\* retransmit_event: each retransmission a nak asks for raises the number
\* below which naks are ignored, so they cannot go on without progress.
THEOREM NaksAreBounded == Spec => NakRaisesLimit
<1>1. Init => NakFresh
  BY DEF Init, NakFresh
<1>2. IInv /\ NakFresh /\ [Next]_vars => NakFresh'
  BY NakFreshStep
<1>3. IInv /\ NakFresh /\ RetransmitNak => ignore_nak_seq' > ignore_nak_seq
  BY DEF IInv, TypeOK, NakFresh, RetransmitNak, Retransmit
<1>4. IInv /\ NakFresh /\ [Next]_vars
         => [RetransmitNak => ignore_nak_seq' > ignore_nak_seq]_vars
  BY <1>3
<1> QED  BY <1>1, <1>2, <1>4, Invariance, PTL DEF Spec, NakRaisesLimit

-----------------------------------------------------------------------------
(* The link implements its contract.                                       *)

LEMMA ContractDispatch ==
    ASSUME IInv, McuAccept
    PROVE  Contract!Dispatch
<1>1. /\ Head(to_mcu).blk = mcu_seq
      /\ mcu_seq \in 1..(send_seq - 1)
  <2>1. mcu_seq \in Nat /\ send_seq \in Nat /\ Len(dispatched) \in Nat
    BY DEF IInv, TypeOK
  <2>2. mcu_seq >= 1
    BY <2>1 DEF IInv, Position, Base
  <2> QED  BY <2>1, <2>2, AcceptedBlock
<1>2. Contract!Agreed => mcu_seq = Contract!NextBlock
  <2>1. CASE dispatched # << >>
    <3>1. Len(dispatched) \in 1..Len(dispatched) /\ mcu_seq \in Nat
      BY <2>1 DEF IInv, TypeOK
    <3>2. dispatched[Len(dispatched)] = Base + Len(dispatched) - 1
      BY <3>1 DEF IInv, InOrder
    <3> QED  BY <2>1, <3>1, <3>2 DEF Contract!NextBlock, Base
  <2>2. CASE dispatched = << >>
    <3>1. mcu_seq \in Nat /\ receive_seq \in Nat /\ Base = mcu_seq
      BY <2>2 DEF IInv, TypeOK, Base
    <3>2. receive_seq # 1 => mcu_seq = receive_seq
      BY <3>1 DEF IInv, Position
    <3> QED  BY <2>2, <3>2 DEF Contract!Agreed, Contract!NextBlock
  <2> QED  BY <2>1, <2>2
<1> QED
  BY <1>1, <1>2 DEF Contract!Dispatch, McuAccept, hostVars

LEMMA ContractReceive ==
    ASSUME IInv, HandleAck \/ HandleData
    PROVE  Contract!Confirm \/ Contract!Adopt \/ UNCHANGED Contract!cvars
<1> DEFINE s == Head(from_mcu).seq
<1>1. /\ s \in Base..mcu_seq /\ receive_seq <= s /\ UpdateReceiveSeq(s)
      /\ UNCHANGED dispatched
  <2>1. Unwrap(Low(s)) = s /\ s \in Base..mcu_seq
    BY HeadRecognised DEF HandleAck, HandleData
  <2>2. s \in receive_seq..(receive_seq + SeqMod - 1)
    BY HeadRecognised DEF HandleAck, HandleData
  <2> QED
    BY <2>1, <2>2, SeqModAssumption
       DEF HandleAck, HandleData, mcuVars, IInv, TypeOK
<1> HIDE DEF s
<1>2. /\ mcu_seq \in Nat /\ Base \in Int /\ Base >= 1
      /\ receive_seq \in Nat /\ send_seq \in Nat /\ receive_seq <= send_seq
  BY DEF IInv, TypeOK, Position, Base
<1>3. /\ receive_seq' = s
      /\ send_seq' = IF s > send_seq THEN s ELSE send_seq
      /\ s \in Nat /\ s <= mcu_seq /\ Base <= s
  BY <1>1, <1>2 DEF UpdateReceiveSeq
<1>4. CASE s > send_seq
  <2>1. receive_seq = 1 /\ dispatched = << >>
    BY <1>2, <1>3, <1>4 DEF IInv, Position
  <2> QED
    BY <1>1, <1>2, <1>3, <1>4, <2>1 DEF Contract!Adopt, Contract!Agreed
<1>5. CASE s <= send_seq /\ s # receive_seq
  <2>1. s \in (receive_seq + 1)..send_seq
    BY <1>1, <1>2, <1>3, <1>5
  <2>2. Contract!Agreed => s <= Contract!NextBlock
    <3>1. CASE dispatched # << >>
      <4>1. Len(dispatched) \in 1..Len(dispatched)
        BY <3>1 DEF IInv, TypeOK
      <4>2. dispatched[Len(dispatched)] = Base + Len(dispatched) - 1
        BY <4>1 DEF IInv, InOrder
      <4> QED  BY <1>2, <1>3, <3>1, <4>1, <4>2 DEF Contract!NextBlock, Base
    <3>2. CASE dispatched = << >>
      <4>1. Base = mcu_seq
        BY <1>2, <3>2 DEF Base
      <4>2. receive_seq = 1
        BY <1>1, <1>2, <1>3, <1>5, <4>1 DEF IInv, Position
      <4> QED  BY <3>2, <4>2 DEF Contract!Agreed
    <3> QED  BY <3>1, <3>2
  <2> QED
    BY <1>1, <1>2, <1>3, <1>5, <2>1, <2>2 DEF Contract!Confirm
<1>6. CASE s <= send_seq /\ s = receive_seq
  BY <1>1, <1>2, <1>3, <1>6 DEF Contract!cvars
<1> QED  BY <1>2, <1>3, <1>4, <1>5, <1>6

\* The link is a correct implementation of LinkContract: to the code above
\* it the line loses, repeats and reorders nothing.
THEOREM LinkImplementsContract == Spec => ImplementsContract
<1>1. Init => Contract!CInit
  BY DEF Init, Contract!CInit
<1>2. IInv /\ [Next]_vars => [Contract!CNext]_(Contract!cvars)
  <2> SUFFICES ASSUME IInv, [Next]_vars
               PROVE  Contract!CNext \/ UNCHANGED Contract!cvars
    OBVIOUS
  <2> USE DEF Contract!CNext, Contract!cvars, hostVars, mcuVars
  <2>1. CASE \E wait \in BOOLEAN : BuildAndSend(wait)
    BY <2>1 DEF BuildAndSend, Contract!Build
  <2>2. CASE RetransmitTimeout \/ RetransmitNak
    BY <2>2 DEF RetransmitTimeout, RetransmitNak, Retransmit
  <2>4. CASE HandleMessage
    BY <2>4, MessageBranches, ContractReceive
  <2>5. CASE McuAccept
    BY <2>5, ContractDispatch
  <2>6. CASE McuNak \/ McuGarbage \/ McuRespond \/ McuReport \/ McuDone
    BY <2>6 DEF McuNak, McuGarbage, McuRespond, McuReport, McuDone
  <2>7. CASE LoseBlock \/ LoseMessage
    BY <2>7 DEF LoseBlock, LoseMessage
  <2>8. CASE UNCHANGED vars
    BY <2>8 DEF vars
  <2> QED
    BY <2>1, <2>2, <2>4, <2>5, <2>6, <2>7, <2>8 DEF Next
<1> QED
  BY <1>1, <1>2, Invariance, PTL DEF Spec, ImplementsContract, Contract!CSpec

-----------------------------------------------------------------------------
(* Room in the receive buffer.                                             *)

\* A block is sent for the first time once.
FirstOnce ==
    \A i, j \in 1..Len(to_mcu) :
       i < j /\ ~to_mcu[i].again /\ ~to_mcu[j].again => to_mcu[i].blk < to_mcu[j].blk

\* A block that is dispatched while its answer has acknowledged it is the one that
\* last_ack_bytes keeps room for.
HeldCounted ==
    console = "dispatching" =>
       /\ mcu_seq <= send_seq /\ last_ack_seq < mcu_seq
       /\ receive_seq = mcu_seq =>
             last_ack_bytes = 1 /\ (RecvWindow > 0 => Len(sent_queue) + 1 <= RecvWindow)

RoomKept ==
    /\ RecvWindow > 0 => Len(sent_queue) <= RecvWindow
    /\ last_ack_seq <= mcu_seq

RxInv == FirstOnce /\ RoomKept /\ HeldCounted

\* What the link's invariant says of the numbers.
LEMMA Numbers ==
    ASSUME IInv
    PROVE  /\ send_seq \in Nat /\ receive_seq \in Nat /\ mcu_seq \in Nat /\ last_ack_seq \in Nat
           /\ Len(sent_queue) = send_seq - receive_seq /\ last_ack_bytes \in {0, 1}
           /\ receive_seq <= send_seq /\ receive_seq <= mcu_seq
<1>1. mcu_seq \in Nat /\ mcu_seq >= 1
  <2>1. Len(dispatched) \in Nat
    BY DEF IInv, TypeOK
  <2> QED  BY <2>1 DEF IInv, TypeOK, Position, Base
<1>2. receive_seq <= mcu_seq
  BY <1>1 DEF IInv, Position, TypeOK
<1>3. send_seq \in Nat /\ receive_seq \in Nat /\ send_seq - receive_seq \in 0..Window
  BY DEF IInv, TypeOK
<1>4. receive_seq <= send_seq
  BY <1>3, WindowAssumption
<1> QED  BY <1>1, <1>2, <1>3, <1>4 DEF IInv, TypeOK

\* The line to the micro-controller.
LEMMA FirstOnceTail ==
    ASSUME IInv, FirstOnce, to_mcu # << >>, to_mcu' = Tail(to_mcu)
    PROVE  FirstOnce'
<1>1. /\ Len(to_mcu) \in Nat /\ Len(to_mcu') = Len(to_mcu) - 1
      /\ \A i \in 1..Len(to_mcu') : to_mcu'[i] = to_mcu[i + 1]
  BY TailFacts DEF IInv, TypeOK
<1> SUFFICES ASSUME NEW i \in 1..Len(to_mcu'), NEW j \in 1..Len(to_mcu'), i < j,
                    ~to_mcu'[i].again, ~to_mcu'[j].again
             PROVE  to_mcu'[i].blk < to_mcu'[j].blk
  BY DEF FirstOnce
<1>2. i + 1 \in 1..Len(to_mcu) /\ j + 1 \in 1..Len(to_mcu) /\ i + 1 < j + 1
  BY <1>1
<1> QED  BY <1>1, <1>2 DEF FirstOnce

LEMMA FirstOnceSent ==
    ASSUME IInv, FirstOnce, Transmit(to_mcu, <<Block(send_seq, FALSE)>>)
    PROVE  FirstOnce'
<1>1. send_seq \in Nat /\ to_mcu \in Seq(Blocks)
  BY DEF IInv, TypeOK
<1> DEFINE sent == <<Block(send_seq, FALSE)>>
<1>2. sent \in Seq(Blocks) /\ Len(sent) = 1 /\ sent[1].blk = send_seq
  BY <1>1 DEF Block, Blocks
<1>3. Transmit(to_mcu, sent)
  OBVIOUS
<1> HIDE DEF sent
<1>4. /\ Len(to_mcu') \in 0..(Len(to_mcu) + 1) /\ Len(to_mcu) \in Nat
      /\ \A i \in 1..Len(to_mcu') : to_mcu'[i] = IF i <= Len(to_mcu) THEN to_mcu[i]
                                                 ELSE sent[i - Len(to_mcu)]
  BY <1>1, <1>2, <1>3, TransmitFacts
<1> SUFFICES ASSUME NEW i \in 1..Len(to_mcu'), NEW j \in 1..Len(to_mcu'), i < j,
                    ~to_mcu'[i].again, ~to_mcu'[j].again
             PROVE  to_mcu'[i].blk < to_mcu'[j].blk
  BY DEF FirstOnce
<1>5. i \in 1..Len(to_mcu) /\ to_mcu'[i] = to_mcu[i]
  BY <1>4
<1>6. CASE j <= Len(to_mcu)
  <2>1. j \in 1..Len(to_mcu) /\ to_mcu'[j] = to_mcu[j]
    BY <1>4, <1>6
  <2> QED  BY <1>5, <2>1 DEF FirstOnce
<1>7. CASE j > Len(to_mcu)
  <2>1. j = Len(to_mcu) + 1
    BY <1>4, <1>7
  <2>2. to_mcu'[j] = sent[1]
    BY <1>4, <2>1
  <2>3. to_mcu[i].blk \in 1..(send_seq - 1)
    BY <1>5 DEF IInv, WireFresh
  <2> QED  BY <1>1, <1>2, <1>5, <2>2, <2>3
<1> QED  BY <1>4, <1>6, <1>7

\* Copies are no first transmissions, and the flush keeps a beginning of the line.
LEMMA FirstOnceCopies ==
    ASSUME IInv, FirstOnce, NEW kept \in 0..Len(to_mcu),
           Transmit(SubSeq(to_mcu, 1, kept),
                    [i \in 1..Len(sent_queue) |-> Block(sent_queue[i], TRUE)])
    PROVE  FirstOnce'
<1> DEFINE line == SubSeq(to_mcu, 1, kept)
           copies == [i \in 1..Len(sent_queue) |-> Block(sent_queue[i], TRUE)]
<1>1. to_mcu \in Seq(Blocks) /\ sent_queue \in Seq(Nat) /\ Len(to_mcu) \in Nat
  BY DEF IInv, TypeOK
<1>2. line \in Seq(Blocks) /\ Len(line) = kept /\ \A i \in 1..kept : line[i] = to_mcu[i]
  BY <1>1
<1>3. copies \in Seq(Blocks) /\ \A i \in 1..Len(copies) : copies[i].again
  BY <1>1 DEF Block, Blocks
<1>4. Transmit(line, copies)
  OBVIOUS
<1> HIDE DEF line, copies
<1>5. /\ Len(to_mcu') \in 0..(Len(line) + Len(copies)) /\ Len(copies) \in Nat
      /\ \A i \in 1..Len(to_mcu') : to_mcu'[i] = IF i <= Len(line) THEN line[i]
                                                 ELSE copies[i - Len(line)]
  BY <1>2, <1>3, <1>4, TransmitFacts
<1>6. ASSUME NEW i \in 1..Len(to_mcu'), ~to_mcu'[i].again
      PROVE  i \in 1..kept /\ to_mcu'[i] = to_mcu[i]
  <2>1. CASE i <= kept
    BY <1>2, <1>5, <2>1
  <2>2. CASE i > kept
    <3>1. i - kept \in 1..Len(copies) /\ to_mcu'[i] = copies[i - kept]
      BY <1>2, <1>5, <2>2
    <3> QED  BY <1>3, <1>6, <3>1
  <2> QED  BY <2>1, <2>2
<1> SUFFICES ASSUME NEW i \in 1..Len(to_mcu'), NEW j \in 1..Len(to_mcu'), i < j,
                    ~to_mcu'[i].again, ~to_mcu'[j].again
             PROVE  to_mcu'[i].blk < to_mcu'[j].blk
  BY DEF FirstOnce
<1>7. i \in 1..Len(to_mcu) /\ j \in 1..Len(to_mcu) /\ to_mcu'[i] = to_mcu[i] /\ to_mcu'[j] = to_mcu[j]
  BY <1>1, <1>6
<1> QED  BY <1>7 DEF FirstOnce

LEMMA RoomWhenSent ==
    ASSUME IInv, RxInv, NEW wait \in BOOLEAN, BuildAndSend(wait), IInv'
    PROVE  RxInv'
<1>1. /\ send_seq' = send_seq + 1
      /\ UNCHANGED <<receive_seq, last_ack_seq, last_ack_bytes, mcu_seq, console>>
      /\ Transmit(to_mcu, <<Block(send_seq, FALSE)>>)
  BY DEF BuildAndSend, mcuVars
<1>2. Len(sent_queue') = Len(sent_queue) + 1
  BY <1>1, Numbers DEF IInv, TypeOK
<1>3. RecvWindow > 0 =>
         \/ Len(sent_queue) = 0 /\ RecvWindow >= 2
         \/ Len(sent_queue) + 1 + (IF last_ack_seq < receive_seq THEN last_ack_bytes ELSE 0) <= RecvWindow
  <2>1. RecvWindow \in Nat \ {1}
    BY CapacityAssumption
  <2>2. CASE send_seq > receive_seq
    BY <2>2 DEF BuildAndSend, MaySend
  <2>3. CASE ~(send_seq > receive_seq)
    BY <2>1, <2>3, Numbers
  <2> QED  BY <2>2, <2>3
<1>4. RecvWindow > 0 => Len(sent_queue') <= RecvWindow
  BY <1>2, <1>3, Numbers, CapacityAssumption
<1>5. last_ack_seq' <= mcu_seq'
  BY <1>1 DEF RxInv, RoomKept
<1>6. HeldCounted'
  <2> SUFFICES ASSUME console = "dispatching"
               PROVE  /\ mcu_seq <= send_seq' /\ last_ack_seq < mcu_seq
                      /\ receive_seq = mcu_seq =>
                           last_ack_bytes = 1 /\ (RecvWindow > 0 => Len(sent_queue') + 1 <= RecvWindow)
    BY <1>1 DEF HeldCounted
  <2>1. mcu_seq <= send_seq /\ last_ack_seq < mcu_seq /\ (receive_seq = mcu_seq => last_ack_bytes = 1)
    BY DEF RxInv, HeldCounted
  <2>2. mcu_seq <= send_seq'
    BY <1>1, <2>1, Numbers
  <2>3. ASSUME receive_seq = mcu_seq, RecvWindow > 0  PROVE Len(sent_queue') + 1 <= RecvWindow
    <3>1. last_ack_seq < receive_seq /\ last_ack_bytes = 1
      BY <2>1, <2>3
    <3>2. (Len(sent_queue) = 0 \/ Len(sent_queue) + 1 + 1 <= RecvWindow) /\ RecvWindow >= 2
      BY <1>3, <2>3, <3>1, CapacityAssumption
    <3> QED  BY <1>2, <3>2, Numbers, CapacityAssumption
  <2> QED  BY <2>1, <2>2, <2>3
<1>7. FirstOnce'
  BY <1>1, FirstOnceSent DEF RxInv
<1> QED  BY <1>4, <1>5, <1>6, <1>7 DEF RxInv, RoomKept

LEMMA RoomWhenHeard ==
    ASSUME IInv, RxInv, HandleAck \/ HandleData, IInv'
    PROVE  RxInv'
<1> DEFINE s == Head(from_mcu).seq
<1>1. /\ from_mcu # << >> /\ UNCHANGED <<to_mcu, mcu_seq, console>> /\ receive_seq' = s
      /\ \/ s > send_seq /\ send_seq' = s
         \/ /\ ~(s > send_seq) /\ send_seq' = send_seq
            /\ last_ack_bytes' = IF s > receive_seq THEN 1 ELSE last_ack_bytes
      /\ \/ last_ack_seq' = last_ack_seq
         \/ last_ack_seq' = s /\ Head(from_mcu).kind = "ack"
      /\ Head(from_mcu).kind = "ack" \/ last_ack_seq' = last_ack_seq
  BY HeadRecognised DEF HandleAck, HandleData, UpdateReceiveSeq, mcuVars
<1>2. /\ s \in Nat /\ s <= mcu_seq /\ s >= receive_seq
      /\ console = "dispatching" /\ Head(from_mcu).kind = "ack" => s < mcu_seq
  <2>1. s \in Base..mcu_seq /\ s \in receive_seq..(receive_seq + SeqMod - 1) /\ s \in Nat
    BY <1>1, HeadRecognised DEF Messages
  <2>2. console = "dispatching" /\ Head(from_mcu).kind = "ack" => s < mcu_seq
    BY <1>1, HeadRecognised DEF IInv, AnswersFirst
  <2> QED  BY <2>1, <2>2, Numbers
<1> HIDE DEF s
<1>3. /\ Len(sent_queue) = send_seq - receive_seq
      /\ Len(sent_queue') = send_seq' - s
  BY <1>1, Numbers DEF IInv, TypeOK
<1>4. Len(sent_queue') <= Len(sent_queue) /\ (s > receive_seq /\ s <= send_seq => Len(sent_queue') + 1 <= Len(sent_queue))
  BY <1>1, <1>2, <1>3, Numbers
<1>5. RecvWindow > 0 => Len(sent_queue') <= RecvWindow
  <2>1. RecvWindow > 0 => Len(sent_queue) <= RecvWindow
    BY DEF RxInv, RoomKept
  <2>2. Len(sent_queue') \in Int /\ Len(sent_queue) \in Int /\ RecvWindow \in Int
    BY <1>1, <1>2, <1>3, Numbers, CapacityAssumption
  <2> QED  BY <1>4, <2>1, <2>2
<1>6. last_ack_seq' <= mcu_seq'
  BY <1>1, <1>2 DEF RxInv, RoomKept
<1>7. HeldCounted'
  <2> SUFFICES ASSUME console = "dispatching"
               PROVE  /\ mcu_seq <= send_seq' /\ last_ack_seq' < mcu_seq
                      /\ s = mcu_seq =>
                           last_ack_bytes' = 1 /\ (RecvWindow > 0 => Len(sent_queue') + 1 <= RecvWindow)
    BY <1>1 DEF HeldCounted
  <2>1. /\ mcu_seq <= send_seq /\ last_ack_seq < mcu_seq
        /\ receive_seq = mcu_seq =>
              last_ack_bytes = 1 /\ (RecvWindow > 0 => Len(sent_queue) + 1 <= RecvWindow)
    BY DEF RxInv, HeldCounted
  <2>2. last_ack_seq' < mcu_seq
    BY <1>1, <1>2, <2>1
  <2>3. ~(s > send_seq)
    BY <1>2, <2>1, Numbers
  <2>4. mcu_seq <= send_seq'
    BY <1>1, <2>1, <2>3
  <2>5. ASSUME s = mcu_seq
        PROVE  last_ack_bytes' = 1 /\ (RecvWindow > 0 => Len(sent_queue') + 1 <= RecvWindow)
    <3>1. CASE s > receive_seq
      <4>1. last_ack_bytes' = 1
        BY <1>1, <2>3, <3>1
      <4>2. Len(sent_queue') + 1 <= Len(sent_queue)
        BY <1>2, <1>4, <2>3, <3>1, Numbers
      <4>3. RecvWindow > 0 => Len(sent_queue) <= RecvWindow
        BY DEF RxInv, RoomKept
      <4>4. Len(sent_queue') \in Int /\ Len(sent_queue) \in Int /\ RecvWindow \in Int
        BY <1>1, <1>2, <1>3, Numbers, CapacityAssumption
      <4> QED  BY <4>1, <4>2, <4>3, <4>4
    <3>2. CASE s = receive_seq
      <4>1. last_ack_bytes' = last_ack_bytes /\ receive_seq = mcu_seq
        BY <1>1, <1>2, <2>3, <2>5, <3>2, Numbers
      <4>2. Len(sent_queue') = Len(sent_queue)
        BY <1>1, <1>3, <2>3, <3>2
      <4> QED  BY <2>1, <4>1, <4>2
    <3> QED  BY <1>2, <3>1, <3>2, Numbers
  <2> QED  BY <2>2, <2>4, <2>5
<1>8. FirstOnce'
  BY <1>1 DEF RxInv, FirstOnce
<1> QED  BY <1>5, <1>6, <1>7, <1>8 DEF RxInv, RoomKept

LEMMA RoomStep ==
    ASSUME IInv, RxInv, [Next]_vars, IInv'
    PROVE  RxInv'
<1>1. CASE \E wait \in BOOLEAN : BuildAndSend(wait)
  BY <1>1, RoomWhenSent
<1>2. CASE RetransmitTimeout \/ RetransmitNak
  <2>1. /\ UNCHANGED <<send_seq, receive_seq, sent_queue, last_ack_seq, last_ack_bytes, mcu_seq, console>>
        /\ \E kept \in 0..Len(to_mcu) :
              Transmit(SubSeq(to_mcu, 1, kept),
                       [i \in 1..Len(sent_queue) |-> Block(sent_queue[i], TRUE)])
    BY <1>2 DEF RetransmitTimeout, RetransmitNak, Retransmit, mcuVars
  <2>2. FirstOnce'
    BY <2>1, FirstOnceCopies DEF RxInv
  <2> QED  BY <2>1, <2>2 DEF RxInv, RoomKept, HeldCounted
<1>3. CASE HandleAck \/ HandleData
  BY <1>3, RoomWhenHeard
<1>4. CASE McuAccept
  <2>1. /\ mcu_seq' = mcu_seq + 1 /\ console' = "dispatching" /\ to_mcu # << >> /\ to_mcu' = Tail(to_mcu)
        /\ UNCHANGED <<send_seq, receive_seq, sent_queue, last_ack_seq, last_ack_bytes>>
    BY <1>4 DEF McuAccept, Idle, hostVars
  <2>2. mcu_seq < send_seq
    BY <1>4, AcceptedBlock
  <2>3. /\ mcu_seq' <= send_seq' /\ last_ack_seq' < mcu_seq' /\ receive_seq' # mcu_seq'
        /\ last_ack_seq' <= mcu_seq'
    BY <2>1, <2>2, Numbers DEF RxInv, RoomKept
  <2>4. FirstOnce'
    BY <2>1, FirstOnceTail DEF RxInv
  <2> QED  BY <2>1, <2>3, <2>4 DEF RxInv, RoomKept, HeldCounted
<1>5. CASE McuNak \/ McuGarbage \/ LoseBlock
  <2>1. /\ to_mcu # << >> /\ to_mcu' = Tail(to_mcu)
        /\ UNCHANGED <<send_seq, receive_seq, sent_queue, last_ack_seq, last_ack_bytes, mcu_seq, console>>
    BY <1>5 DEF McuNak, McuGarbage, LoseBlock, Idle, hostVars, mcuVars
  <2>2. FirstOnce'
    BY <2>1, FirstOnceTail DEF RxInv
  <2> QED  BY <2>1, <2>2 DEF RxInv, RoomKept, HeldCounted
<1>6. CASE McuRespond \/ McuReport \/ LoseMessage \/ UNCHANGED vars
  <2>1. UNCHANGED <<to_mcu, send_seq, receive_seq, sent_queue, last_ack_seq, last_ack_bytes, mcu_seq, console>>
    BY <1>6 DEF McuRespond, McuReport, LoseMessage, hostVars, mcuVars, vars
  <2> QED  BY <2>1 DEF RxInv, RoomKept, HeldCounted, FirstOnce
<1>7. CASE McuDone
  <2>1. /\ console' = "idle"
        /\ UNCHANGED <<to_mcu, send_seq, receive_seq, sent_queue, last_ack_seq, last_ack_bytes, mcu_seq>>
    BY <1>7 DEF McuDone, hostVars
  <2> QED  BY <2>1 DEF RxInv, RoomKept, HeldCounted, FirstOnce
<1>8. HandleMessage => HandleAck \/ HandleData
  BY MessageBranches
<1> QED  BY <1>1, <1>2, <1>3, <1>4, <1>5, <1>6, <1>7, <1>8 DEF Next

\* First transmissions that the micro-controller has not had are as many as there are
\* numbers between its own and the host's, at most.
LEMMA FewOnTheWay ==
    ASSUME IInv, FirstOnce
    PROVE  LET first == {i \in 1..Len(to_mcu) : ~to_mcu[i].again /\ to_mcu[i].blk >= mcu_seq}
           IN  /\ Cardinality(first) \in Nat
               /\ Cardinality(first) <= IF mcu_seq > send_seq - 1 THEN 0 ELSE send_seq - mcu_seq
<1> DEFINE first == {i \in 1..Len(to_mcu) : ~to_mcu[i].again /\ to_mcu[i].blk >= mcu_seq}
           numbers == mcu_seq..(send_seq - 1)
           number == [i \in first |-> to_mcu[i].blk]
<1>1. /\ Len(to_mcu) \in Nat /\ mcu_seq \in Nat /\ send_seq \in Nat
      /\ \A i \in 1..Len(to_mcu) : to_mcu[i].blk \in 1..(send_seq - 1)
  BY Numbers DEF IInv, TypeOK, WireFresh
<1>2. \A i \in first : to_mcu[i].blk \in numbers
  BY <1>1
<1>3. ASSUME NEW i \in first, NEW j \in first, to_mcu[i].blk = to_mcu[j].blk  PROVE i = j
  <2>1. i \in 1..Len(to_mcu) /\ j \in 1..Len(to_mcu) /\ ~to_mcu[i].again /\ ~to_mcu[j].again
    OBVIOUS
  <2>2. ~(to_mcu[i].blk < to_mcu[j].blk) /\ ~(to_mcu[j].blk < to_mcu[i].blk)
    BY <1>1, <1>3, <2>1
  <2>3. ~(i < j) /\ ~(j < i)
    BY <2>1, <2>2 DEF FirstOnce
  <2> QED  BY <1>1, <2>1, <2>3
<1> HIDE DEF first
<1>4. number \in Injection(first, numbers)
  <2>1. number \in [first -> numbers]
    BY <1>2
  <2>2. \A i \in first, j \in first : number[i] = number[j] => i = j
    BY <1>3
  <2>3. DOMAIN number = first
    BY <2>1
  <2> QED  BY <2>1, <2>2, <2>3 DEF Injection, IsInjective
<1>5. IsFiniteSet(numbers) /\ Cardinality(numbers) = IF mcu_seq > send_seq - 1 THEN 0 ELSE send_seq - 1 - mcu_seq + 1
  BY <1>1, FS_Interval
<1> HIDE DEF numbers, number
<1>6. IsFiniteSet(first) /\ Cardinality(first) <= Cardinality(numbers)
  BY <1>4, <1>5, FS_Injection
<1>7. Cardinality(first) \in Nat
  BY <1>6, FS_CardinalityType
<1> QED  BY <1>1, <1>5, <1>6, <1>7 DEF first

\* Blocks that are sent for the first time always find room in the receive buffer of the
\* micro-controller, next to the block that it still holds while it runs its commands
\* (check_send_command, serialqueue.c:485-500).
THEOREM FirstSendsFit == Spec => []RxFits
<1>1. Init => RxInv
  <2> SUFFICES ASSUME Init  PROVE RxInv
    OBVIOUS
  <2>1. FirstOnce
    BY DEF Init, FirstOnce
  <2>2. RoomKept
    BY SeqModAssumption, CapacityAssumption DEF Init, RoomKept
  <2>3. HeldCounted
    BY DEF Init, HeldCounted
  <2> QED  BY <2>1, <2>2, <2>3 DEF RxInv
<1>2. IInv /\ RxInv /\ [Next]_vars => RxInv'
  BY NextIInv, RoomStep
<1>3. IInv /\ RxInv => RxFits
  <2> SUFFICES ASSUME IInv, RxInv, RecvWindow > 0  PROVE RxFits
    BY DEF RxFits
  <2> DEFINE first == {i \in 1..Len(to_mcu) : ~to_mcu[i].again /\ to_mcu[i].blk >= mcu_seq}
  <2>1. PICK n \in Nat : n = Cardinality(first)
    BY FewOnTheWay DEF RxInv
  <2>2. n <= IF mcu_seq > send_seq - 1 THEN 0 ELSE send_seq - mcu_seq
    BY <2>1, FewOnTheWay DEF RxInv
  <2> HIDE DEF first
  <2>3. Len(sent_queue) = send_seq - receive_seq /\ Len(sent_queue) <= RecvWindow
    BY Numbers DEF RxInv, RoomKept
  <2>4. n <= RecvWindow
    BY <2>2, <2>3, Numbers, CapacityAssumption
  <2>5. CASE console = "dispatching"
    <3>1. /\ mcu_seq <= send_seq
          /\ receive_seq = mcu_seq => Len(sent_queue) + 1 <= RecvWindow
      BY <2>5 DEF RxInv, HeldCounted
    <3>2. n + 1 <= RecvWindow
      BY <2>2, <2>3, <3>1, Numbers, CapacityAssumption
    <3> QED  BY <2>1, <2>5, <3>2 DEF RxFits, first
  <2>6. CASE console # "dispatching"
    <3>1. n + 0 <= RecvWindow
      BY <2>4
    <3> QED  BY <2>1, <2>6, <3>1 DEF RxFits, first
  <2> QED  BY <2>5, <2>6
<1> QED  BY <1>1, <1>2, <1>3, Invariance, PTL DEF Spec
=============================================================================
