----------------------------- MODULE SerialLink -----------------------------
(***************************************************************************)
(* The link between the host (klippy/chelper/serialqueue.c) and one        *)
(* micro-controller (src/command.c, src/generic/serial_irq.c).             *)
(*                                                                         *)
(* The host groups commands into blocks, numbers them, keeps the ones that *)
(* are not acknowledged in sent_queue and sends all of these again on a    *)
(* timeout or a nak.  Only the low bits of a number travel on the wire     *)
(* (MESSAGE_SEQ_MASK).  The micro-controller takes a block only when its   *)
(* low bits are the ones it expects, and answers every valid block with a  *)
(* message that carries the low bits it expects next.                      *)
(*                                                                         *)
(* Numbers are kept here in full on both sides so that they can be         *)
(* compared; a guard of the code looks at Low(number) wherever the code    *)
(* only has the low bits.  A block stands for its contents by its number.  *)
(* Every block is one unit of MESSAGE_MAX bytes long.                      *)
(***************************************************************************)
EXTENDS Integers, Sequences, FiniteSets

CONSTANTS
    SeqMod,     \* MESSAGE_SEQ_MASK + 1 (16)
    Window,     \* MAX_PENDING_BLOCKS (12)
    RecvWindow, \* receive_window in blocks (192 bytes: 3); 0 = not known yet
    RxSlots,    \* blocks the wire and receive_buf of the mcu hold
    TxSlots,    \* messages the mcu's transmit_buf and the wire hold
    MaxSeq      \* bound of the model: no block number reaches MaxSeq

ASSUME SeqModAssumption == SeqMod \in Nat \ {0}
ASSUME WindowAssumption == Window \in Nat \ {0} /\ Window < SeqMod
\* A receive buffer holds two blocks at least: the one that is dispatched and a
\* second, which is sent without a look at the window when nothing is in flight.
ASSUME CapacityAssumption ==
    /\ RecvWindow \in Nat \ {1}
    /\ RxSlots \in Nat
    /\ TxSlots \in Nat
    /\ MaxSeq \in Nat

VARIABLES
    \* host: struct serialqueue
    send_seq, receive_seq,
    sent_queue,         \* numbers of the blocks awaiting an acknowledgement
    last_ack_seq, last_ack_bytes,
    ignore_nak_seq, retransmit_seq,
    retransmit_timer,   \* SQPT_RETRANSMIT: "never", "armed" or "now"
    notify_queue,       \* blocks holding a command whose sender waits (the
                        \* code's list is in this order)
    notified,           \* blocks whose notification reached receive_queue
    \* the two directions of the line
    to_mcu,             \* blocks on the line or in receive_buf of the mcu
    from_mcu,           \* messages in transmit_buf of the mcu or on the line
    \* micro-controller: command.c
    mcu_seq,            \* next_sequence
    need_valid,         \* CF_NEED_VALID of sync_state
    console,            \* "dispatching" while command_dispatch runs, or "idle"
    dispatched          \* history: the blocks taken, in order

hostVars == <<send_seq, receive_seq, sent_queue, last_ack_seq, last_ack_bytes,
              ignore_nak_seq, retransmit_seq, retransmit_timer, notify_queue,
              notified>>
mcuVars  == <<mcu_seq, need_valid, console, dispatched>>
vars     == <<hostVars, to_mcu, from_mcu, mcuVars>>

Low(n) == n % SeqMod

\* The number the micro-controller expected when the session started.
Base == mcu_seq - Len(dispatched)

-----------------------------------------------------------------------------
(* The line.                                                               *)

Block(n, again)     == [blk |-> n, again |-> again]
Message(n, kind, b) == [seq |-> n, kind |-> kind, src |-> b]

\* Blocks that reach a full receive buffer are lost (serial_rx_byte).
Transmit(line, blocks) ==
    LET all == line \o blocks
    IN  to_mcu' = SubSeq(all, 1, IF Len(all) < RxSlots THEN Len(all)
                                                        ELSE RxSlots)

\* A message for which transmit_buf has no room is dropped (console_sendf).
Respond(m) ==
    from_mcu' = IF Len(from_mcu) < TxSlots THEN Append(from_mcu, m)
                                           ELSE from_mcu

Ack == Message(mcu_seq, "ack", 0)

Blocks   == [blk : Nat, again : BOOLEAN]
Messages == [seq : Nat, kind : {"ack", "data"}, src : Nat]

-----------------------------------------------------------------------------
Init ==
    /\ send_seq = 1
    /\ receive_seq = 1
    /\ sent_queue = << >>
    /\ last_ack_seq = 0
    /\ last_ack_bytes = 0
    /\ ignore_nak_seq = 0
    /\ retransmit_seq = 0
    /\ retransmit_timer = "never"
    /\ notify_queue = {}
    /\ notified = {}
    /\ to_mcu = << >>
    /\ from_mcu = << >>
    /\ mcu_seq \in 1..SeqMod    \* whatever an earlier session left
    /\ need_valid = FALSE
    /\ console = "idle"
    /\ dispatched = << >>

-----------------------------------------------------------------------------
(* Host, sending.                                                          *)

\* Mutants of MaySend: no limit on the blocks in flight, and no room kept
\* for the block whose acknowledgement only came with a response.
NoWindow == TRUE

NoHeldBlock ==
    /\ send_seq - receive_seq < Window
    /\ (send_seq > receive_seq /\ RecvWindow > 0) =>
          Len(sent_queue) + 1 <= RecvWindow

\* check_send_command: the limits on what may be in flight.
MaySend ==
    /\ send_seq - receive_seq < Window
    /\ (send_seq > receive_seq /\ RecvWindow > 0) =>
          Len(sent_queue) + 1
            + (IF last_ack_seq < receive_seq THEN last_ack_bytes ELSE 0)
          <= RecvWindow

\* command_event and build_and_send_command, for one block; wait tells
\* whether a command of the block has a notify_id.
BuildAndSend(wait) ==
    /\ MaySend
    /\ send_seq < MaxSeq
    /\ sent_queue' = Append(sent_queue, send_seq)
    /\ retransmit_timer' = IF sent_queue = << >> THEN "armed"
                                                 ELSE retransmit_timer
    /\ notify_queue' = notify_queue \cup (IF wait THEN {send_seq} ELSE {})
    /\ send_seq' = send_seq + 1
    /\ Transmit(to_mcu, <<Block(send_seq, FALSE)>>)
    /\ UNCHANGED <<receive_seq, last_ack_seq, last_ack_bytes, ignore_nak_seq,
                   retransmit_seq, notified, from_mcu, mcuVars>>

\* retransmit_event: tcflush drops what the line has not carried yet, then
\* the whole of sent_queue is written again.
Retransmit(timer) ==
    /\ retransmit_timer = timer
    /\ \E kept \in 0..Len(to_mcu) :
          Transmit(SubSeq(to_mcu, 1, kept),
                   [i \in 1..Len(sent_queue) |-> Block(sent_queue[i], TRUE)])
    /\ ignore_nak_seq' =
          IF timer = "now"
          THEN IF receive_seq < retransmit_seq THEN retransmit_seq
                                               ELSE receive_seq
          ELSE send_seq
    /\ retransmit_seq' = send_seq
    /\ retransmit_timer' = "armed"
    /\ UNCHANGED <<send_seq, receive_seq, sent_queue, last_ack_seq,
                   last_ack_bytes, notify_queue, notified, from_mcu, mcuVars>>

RetransmitTimeout == Retransmit("armed")
RetransmitNak     == Retransmit("now")

-----------------------------------------------------------------------------
(* Host, receiving: handle_message and update_receive_seq.                 *)

\* Mutant of Unwrap: a repeated number is taken for a new one.
RepeatIsNew(low) ==
    LET r == (receive_seq - Low(receive_seq)) + low
    IN  IF r <= receive_seq THEN r + SeqMod ELSE r

\* The full number behind the low bits of a message.
Unwrap(low) ==
    LET r == (receive_seq - Low(receive_seq)) + low
    IN  IF r < receive_seq THEN r + SeqMod ELSE r

\* "An ack for a message not sent?  Out of order message?"
IsInvalid(rseq) == rseq > send_seq /\ receive_seq # 1

HeadInvalid == from_mcu # << >> /\ IsInvalid(Unwrap(Low(Head(from_mcu).seq)))

\* What is left of sent_queue once every block below rseq is acknowledged.
Unacked(rseq) == SubSeq(sent_queue, rseq - receive_seq + 1, Len(sent_queue))

UpdateReceiveSeq(rseq) ==
    /\ receive_seq' = rseq
    /\ sent_queue' = Unacked(rseq)
    /\ IF rseq > send_seq
       THEN /\ send_seq' = rseq               \* connection init
            /\ UNCHANGED last_ack_bytes
       ELSE /\ last_ack_bytes' = IF rseq > receive_seq THEN 1
                                                       ELSE last_ack_bytes
            /\ UNCHANGED send_seq

\* Mutant of Rearmed: stopped although blocks are left.
StopsTimer(rseq) == IF rseq = receive_seq THEN retransmit_timer ELSE "never"

\* The retransmit timer after update_receive_seq.
Rearmed(rseq) ==
    IF rseq = receive_seq THEN retransmit_timer
    ELSE IF Unacked(rseq) = << >> THEN "never" ELSE "armed"

\* Notifications that a message moves to receive_queue, ahead of itself.  The
\* number is unsigned: what is below 0 is greater than every block.
Notify(wake_seq) ==
    LET due == {n \in notify_queue : n <= wake_seq \/ wake_seq < 0}
    IN  /\ notify_queue' = notify_queue \ due
        /\ notified' = notified \cup due

\* Mutant of HandleAck: every repeated acknowledgement starts a
\* retransmission.
EveryNakCounts ==
    /\ from_mcu # << >>
    /\ Head(from_mcu).kind = "ack"
    /\ LET rseq == Unwrap(Low(Head(from_mcu).seq))
       IN  /\ ~IsInvalid(rseq)
           /\ UpdateReceiveSeq(rseq)
           /\ Notify(rseq - 1)
           /\ IF last_ack_seq < rseq
              THEN /\ last_ack_seq' = rseq
                   /\ retransmit_timer' = Rearmed(rseq)
              ELSE /\ UNCHANGED last_ack_seq
                   /\ retransmit_timer' = IF Unacked(rseq) # << >>
                                          THEN "now" ELSE Rearmed(rseq)
    /\ from_mcu' = Tail(from_mcu)
    /\ UNCHANGED <<ignore_nak_seq, retransmit_seq, to_mcu, mcuVars>>

\* An empty message: an acknowledgement, or a nak when it says nothing new.
HandleAck ==
    /\ from_mcu # << >>
    /\ Head(from_mcu).kind = "ack"
    /\ LET rseq == Unwrap(Low(Head(from_mcu).seq))
       IN  /\ ~IsInvalid(rseq)
           /\ UpdateReceiveSeq(rseq)
           /\ Notify(rseq - 1)
           /\ IF last_ack_seq < rseq
              THEN /\ last_ack_seq' = rseq
                   /\ retransmit_timer' = Rearmed(rseq)
              ELSE /\ UNCHANGED last_ack_seq
                   /\ retransmit_timer' =
                        IF rseq > ignore_nak_seq /\ Unacked(rseq) # << >>
                        THEN "now" ELSE Rearmed(rseq)
    /\ from_mcu' = Tail(from_mcu)
    /\ UNCHANGED <<ignore_nak_seq, retransmit_seq, to_mcu, mcuVars>>

\* Mutant of HandleData: the block being dispatched counts as answered.
NotifiesEarly ==
    /\ from_mcu # << >>
    /\ Head(from_mcu).kind = "data"
    /\ LET rseq == Unwrap(Low(Head(from_mcu).seq))
       IN  /\ ~IsInvalid(rseq)
           /\ UpdateReceiveSeq(rseq)
           /\ Notify(rseq - 1)
           /\ retransmit_timer' = Rearmed(rseq)
    /\ from_mcu' = Tail(from_mcu)
    /\ UNCHANGED <<last_ack_seq, ignore_nak_seq, retransmit_seq, to_mcu,
                   mcuVars>>

\* A message with contents: the block before rseq may still be dispatching.
HandleData ==
    /\ from_mcu # << >>
    /\ Head(from_mcu).kind = "data"
    /\ LET rseq == Unwrap(Low(Head(from_mcu).seq))
       IN  /\ ~IsInvalid(rseq)
           /\ UpdateReceiveSeq(rseq)
           /\ Notify(rseq - 2)
           /\ retransmit_timer' = Rearmed(rseq)
    /\ from_mcu' = Tail(from_mcu)
    /\ UNCHANGED <<last_ack_seq, ignore_nak_seq, retransmit_seq, to_mcu,
                   mcuVars>>

HandleMessage ==
    IF HeadInvalid
    THEN /\ from_mcu' = Tail(from_mcu)
         /\ UNCHANGED <<hostVars, to_mcu, mcuVars>>
    ELSE HandleAck \/ HandleData

-----------------------------------------------------------------------------
(* Micro-controller: command_find_block, command_dispatch, console_task.   *)

Idle == console = "idle" /\ to_mcu # << >>

\* Mutant of McuAccept: the sequence number is not compared.
AcceptsAny ==
    /\ Idle
    /\ mcu_seq' = mcu_seq + 1
    /\ dispatched' = Append(dispatched, Head(to_mcu).blk)
    /\ console' = "dispatching"
    /\ need_valid' = FALSE
    /\ to_mcu' = Tail(to_mcu)
    /\ UNCHANGED <<hostVars, from_mcu>>

\* A valid block with the expected low bits.
McuAccept ==
    /\ Idle
    /\ Low(Head(to_mcu).blk) = Low(mcu_seq)
    /\ mcu_seq' = mcu_seq + 1
    /\ dispatched' = Append(dispatched, Head(to_mcu).blk)
    /\ console' = "dispatching"
    /\ need_valid' = FALSE
    /\ to_mcu' = Tail(to_mcu)
    /\ UNCHANGED <<hostVars, from_mcu>>

\* Mutant of McuNak: the answer names the block that arrived.
AcksArrival ==
    /\ Idle
    /\ Low(Head(to_mcu).blk) # Low(mcu_seq)
    /\ need_valid' = FALSE
    /\ to_mcu' = Tail(to_mcu)
    /\ Respond(Message(Head(to_mcu).blk + 1, "ack", 0))
    /\ UNCHANGED <<hostVars, mcu_seq, console, dispatched>>

\* "Lost message - discard messages until it is retransmitted".
McuNak ==
    /\ Idle
    /\ Low(Head(to_mcu).blk) # Low(mcu_seq)
    /\ need_valid' = FALSE
    /\ to_mcu' = Tail(to_mcu)
    /\ Respond(Ack)
    /\ UNCHANGED <<hostVars, mcu_seq, console, dispatched>>

\* A block damaged on the line: one nak, then silence until a valid block.
McuGarbage ==
    /\ Idle
    /\ to_mcu' = Tail(to_mcu)
    /\ need_valid' = TRUE
    /\ IF need_valid THEN UNCHANGED from_mcu ELSE Respond(Ack)
    /\ UNCHANGED <<hostVars, mcu_seq, console, dispatched>>

\* A command of the block answers.
McuRespond ==
    /\ console = "dispatching"
    /\ Respond(Message(mcu_seq, "data", mcu_seq - 1))
    /\ UNCHANGED <<hostVars, to_mcu, mcuVars>>

\* A task other than console_task reports something.
McuReport ==
    /\ console = "idle"
    /\ Respond(Message(mcu_seq, "data", 0))
    /\ UNCHANGED <<hostVars, to_mcu, mcuVars>>

\* The block is done: its bytes are popped and it is acknowledged.
McuDone ==
    /\ console = "dispatching"
    /\ console' = "idle"
    /\ Respond(Ack)
    /\ UNCHANGED <<hostVars, to_mcu, mcu_seq, need_valid, dispatched>>

-----------------------------------------------------------------------------
(* The line loses a block or a message, leaving nothing to answer.         *)

LoseBlock ==
    /\ to_mcu # << >>
    /\ to_mcu' = Tail(to_mcu)
    /\ UNCHANGED <<hostVars, from_mcu, mcuVars>>

LoseMessage ==
    /\ from_mcu # << >>
    /\ from_mcu' = Tail(from_mcu)
    /\ UNCHANGED <<hostVars, to_mcu, mcuVars>>

Next ==
    \/ \E wait \in BOOLEAN : BuildAndSend(wait)
    \/ RetransmitTimeout \/ RetransmitNak
    \/ HandleMessage
    \/ McuAccept \/ McuNak \/ McuGarbage
    \/ McuRespond \/ McuReport \/ McuDone
    \/ LoseBlock \/ LoseMessage

Spec == Init /\ [][Next]_vars

-----------------------------------------------------------------------------
(* Fairness.  The pollreactor of the host runs every expired timer and     *)
(* every readable descriptor, the scheduler of the micro-controller runs   *)
(* console_task as long as receive_buf holds something, and a command      *)
(* returns.  The line is fair: it does not lose for ever the block the     *)
(* micro-controller expects, every block it refuses, or every message that  *)
(* acknowledges more.                                                      *)

Progress == (HandleAck \/ HandleData) /\ receive_seq' > receive_seq

FairSpec ==
    /\ Spec
    /\ WF_vars(RetransmitTimeout \/ RetransmitNak)
    /\ WF_vars(HandleMessage)
    /\ SF_vars(McuNak)
    /\ WF_vars(McuDone)
    /\ SF_vars(McuAccept)
    /\ SF_vars(Progress)

-----------------------------------------------------------------------------
(* Properties.                                                             *)

\* Every variable has its type; sent_queue holds exactly the numbers from
\* receive_seq to send_seq - 1 and never more than the window
\* (check_send_command, update_receive_seq).
TypeOK ==
    /\ send_seq \in Nat \ {0}
    /\ receive_seq \in Nat \ {0}
    /\ send_seq - receive_seq \in 0..Window
    /\ sent_queue \in Seq(Nat)
    /\ Len(sent_queue) = send_seq - receive_seq
    /\ \A i \in 1..Len(sent_queue) : sent_queue[i] = receive_seq + i - 1
    /\ last_ack_seq \in Nat
    /\ last_ack_bytes \in {0, 1}
    /\ ignore_nak_seq \in Nat
    /\ retransmit_seq \in Nat
    /\ retransmit_timer \in {"never", "armed", "now"}
    /\ notify_queue \in SUBSET Nat
    /\ notified \in SUBSET Nat
    /\ to_mcu \in Seq(Blocks)
    /\ from_mcu \in Seq(Messages)
    /\ mcu_seq \in Nat
    /\ need_valid \in BOOLEAN
    /\ console \in {"idle", "dispatching"}
    /\ dispatched \in Seq(Nat)

\* The micro-controller takes blocks without a gap, a repetition or an
\* inversion although command_find_block only compares the low bits, blocks
\* are lost and stale copies of them arrive late.
InOrder ==
    \A i \in 1..Len(dispatched) : dispatched[i] = Base + i - 1

\* Once the two sides have met, the host never drops a block from sent_queue
\* (update_receive_seq) before the micro-controller took it, and the
\* micro-controller never expects a block past the last one built.
AckedDispatched ==
    receive_seq # 1 => /\ receive_seq <= mcu_seq
                       /\ mcu_seq <= send_seq

\* A message from the micro-controller never looks like the answer to a
\* block that was not sent once the session is established: the branch
\* "Out of order message?" of handle_message is not taken.
NothingInvalid == ~HeadInvalid

\* As long as a block waits for an acknowledgement something will send it
\* again (build_and_send_command, update_receive_seq, retransmit_event).
RetransmitArmed == sent_queue # << >> => retransmit_timer # "never"

\* retransmit_event, "don't allow third": a nak starts a retransmission only
\* when acknowledgements moved past the number the last one set, so naks for
\* the copies of one block cannot keep the line busy for ever.
NakRaisesLimit == [][RetransmitNak => ignore_nak_seq' > ignore_nak_seq]_vars

\* Every response of block n has come: the micro-controller is done with it and
\* none is on the line.
AllAnswered(n) ==
    /\ n < mcu_seq
    /\ console = "dispatching" => n # mcu_seq - 1
    /\ \A i \in 1..Len(from_mcu) : from_mcu[i].src # n

\* Once block 1 is acknowledged handle_message reports a block as sent
\* (notify_queue) only after every response the block produced: none is still on
\* its way or to come.  Before, a message with contents reports all that wait,
\* since wake_seq wraps (serialqueue.c:228).
NotifiesAnswered ==
    receive_seq' # 1 => \A n \in notified' \ notified : n >= Base => AllAnswered(n)'
NotifyAfterResponses == [][NotifiesAnswered]_vars

\* check_send_command: blocks sent for the first time, and the one whose
\* bytes console_task still holds, fit in receive_buf (RECEIVE_WINDOW).
RxFits ==
    RecvWindow > 0 =>
       Cardinality({i \in 1..Len(to_mcu) : ~to_mcu[i].again /\ to_mcu[i].blk >= mcu_seq})
          + (IF console = "dispatching" THEN 1 ELSE 0) <= RecvWindow

\* What the link promises to the code above it.
Contract == INSTANCE LinkContract WITH next_out   <- send_seq,
                                       confirmed  <- receive_seq,
                                       dispatched <- dispatched
ImplementsContract == Contract!CSpec

\* Every block built is acknowledged in the end, whatever is lost.
EveryBlockAcked ==
    \A n \in 1..(MaxSeq - 1) : n < send_seq ~> n < receive_seq

-----------------------------------------------------------------------------
(* The inductive invariant behind the safety properties.  It says how far  *)
(* apart the numbers in play may be, which is what lets both sides         *)
(* recognise a number by its low bits.                                     *)

\* Once the session is established the numbers are in order.  Before, the
\* micro-controller may expect a number the host has not reached.
Position ==
    /\ Base \in 1..SeqMod
    /\ mcu_seq <= send_seq \/ (receive_seq = 1 /\ dispatched = << >>)
    /\ receive_seq # 1 => Base <= receive_seq /\ receive_seq <= mcu_seq

\* A copy of a block is never so old that its low bits mean another number,
\* now or when the blocks ahead of it on the line have been taken.
WireFresh ==
    /\ \A j \in 1..Len(to_mcu) :
          /\ to_mcu[j].blk \in 1..(send_seq - 1)
          /\ mcu_seq < to_mcu[j].blk + SeqMod
    /\ \A i, j \in 1..Len(to_mcu) :
          i < j => to_mcu[i].blk + 1 < to_mcu[j].blk + SeqMod

\* Messages arrive in the order of their numbers, none older than what the
\* host knows.
MessagesFresh ==
    /\ \A i \in 1..Len(from_mcu) :
          /\ from_mcu[i].seq \in Base..mcu_seq
          /\ receive_seq # 1 => receive_seq <= from_mcu[i].seq
    /\ \A i, j \in 1..Len(from_mcu) :
          i < j => from_mcu[i].seq <= from_mcu[j].seq

\* A block answers before it is acknowledged.
AnswersFirst ==
    /\ \A i \in 1..Len(from_mcu) :
          /\ from_mcu[i].src \in {0, from_mcu[i].seq - 1}
          /\ console = "dispatching" /\ from_mcu[i].kind = "ack"
                => from_mcu[i].seq < mcu_seq
    /\ \A i, j \in 1..Len(from_mcu) :
          i < j /\ from_mcu[i].kind = "ack" /\ from_mcu[j].src # 0
             => from_mcu[i].seq <= from_mcu[j].src

IInv ==
    /\ TypeOK
    /\ Position
    /\ WireFresh
    /\ MessagesFresh
    /\ InOrder
    /\ AnswersFirst
    /\ RetransmitArmed
=============================================================================
