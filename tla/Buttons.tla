------------------------------ MODULE Buttons -------------------------------
(***************************************************************************)
(* Buttons and switches, that of the filament sensor among them: the       *)
(* firmware (src/buttons.c) samples and debounces a pin and reports its    *)
(* changes in messages that may be lost; the host                          *)
(* (klippy/extras/buttons.py) drops what it has had, acknowledges the      *)
(* rest and calls handlers in another thread.                              *)
(*                                                                         *)
(* A report is the number of the change it tells of; the level of the pin  *)
(* after change n is n % 2.  Commands to the micro-controller are neither  *)
(* lost nor reordered (LinkContract), messages from it are not reordered.  *)
(***************************************************************************)
EXTENDS Integers, Sequences, SequencesExt

CONSTANTS
    CountMod,           \* values of ack_count in a message: 256
    MaxReports,         \* size of reports: 8
    RetransmitCount,    \* RETRANSMIT_COUNT
    MaxMade,            \* bound of the model: changes of the pin
    MaxMessages         \* bound of the model: messages on their way

ASSUME ButtonConstants ==
    /\ MaxReports \in Nat \ {0} /\ CountMod \in Nat
    /\ CountMod % 2 = 0 /\ 2 * MaxReports < CountMod
    /\ RetransmitCount \in Nat /\ MaxMade \in Nat /\ MaxMessages \in Nat

VARIABLES
    made,               \* changes that were debounced; pressed is made % 2
    lastLevel,          \* last_pressed
    reports,            \* reports, with report_count
    ackCount,           \* ack_count of the firmware, before it wraps
    resend,             \* retransmit_state: BF_PENDING, BF_ACKED or a count
    messages,           \* buttons_state on its way
    acks,               \* buttons_ack on its way
    hostCount,          \* ack_count of the host
    calls,              \* handle_button in register_async_callback
    handled,            \* history: the last change that was handled
    overflow            \* history: a change was not stored

buttonVars == <<made, lastLevel, reports, ackCount, resend, messages, acks,
                hostCount, calls, handled, overflow>>
firmwareVars == <<made, lastLevel, overflow>>
hostVars == <<hostCount, calls, handled>>

pressed == (made % 2)

\* BF_PENDING is what a count gets to when it passes 0.
Pending == -1
Acked == -2

ButtonInit ==
    /\ made = 0 /\ lastLevel = 0 /\ reports = << >> /\ ackCount = 0
    /\ resend = Acked /\ messages = << >> /\ acks = << >>
    /\ hostCount = 0 /\ calls = << >> /\ handled = 0 /\ overflow = FALSE

-----------------------------------------------------------------------------
(* The firmware.                                                           *)

Debounced(level) == level # pressed /\ level = lastLevel

\* Mutant of CountDown: a message is sent once.
OnlyOnce(r) == r

\* retransmit_state after a sample.
CountDown(r) ==
    IF r < 0 THEN r ELSE r - 1

\* buttons_event.
SamplePin(level) ==
    /\ lastLevel' = level
    /\ IF Debounced(level)
       THEN /\ made < MaxMade /\ made' = made + 1
            /\ IF Len(reports) < MaxReports
               THEN /\ reports' = Append(reports, made')
                    /\ resend' = Pending /\ UNCHANGED overflow
               ELSE overflow' = TRUE /\ resend' = CountDown(resend) /\ UNCHANGED reports
       ELSE resend' = CountDown(resend) /\ UNCHANGED <<made, reports, overflow>>
    /\ UNCHANGED <<ackCount, messages, acks, hostVars>>

\* buttons_task; the message may be lost.
Report(lost) ==
    /\ resend = Pending /\ reports # << >> /\ Len(messages) < MaxMessages
    /\ resend' = RetransmitCount
    /\ messages' = IF lost THEN messages
                   ELSE Append(messages, [count |-> (ackCount % CountMod), state |-> reports])
    /\ UNCHANGED <<firmwareVars, reports, ackCount, acks, hostVars>>

\* Mutant of Rest: what was acknowledged stays.
Everything(n) == reports

Rest(n) == SubSeq(reports, n + 1, Len(reports))

\* command_buttons_ack.
TakeButtonsAck ==
    LET n == Head(acks)
    IN  /\ acks # << >> /\ acks' = Tail(acks)
        /\ ackCount' = ackCount + n
        /\ reports' = Rest(n)
        /\ resend' = IF n >= Len(reports) THEN Acked ELSE resend
        /\ UNCHANGED <<firmwareVars, messages, hostVars>>

-----------------------------------------------------------------------------
(* The host.                                                               *)

\* ack_count of a message, expanded from its low bits.
Expanded(count) ==
    LET diff == (hostCount - count) % CountMod
    IN  hostCount - (IF 2 * diff >= CountMod THEN diff - CountMod ELSE diff)

Unseen(m) == Expanded(m.count) + Len(m.state) - hostCount

\* handle_buttons_state.
TakeMessage ==
    LET m == Head(messages)
        n == Unseen(m)
    IN  /\ messages # << >> /\ messages' = Tail(messages)
        /\ IF n <= 0 THEN UNCHANGED <<acks, hostCount, calls>>
           ELSE /\ acks' = Append(acks, n) /\ hostCount' = hostCount + n
                /\ calls' = calls \o SubSeq(m.state, Len(m.state) - n + 1, Len(m.state))
        /\ UNCHANGED <<firmwareVars, reports, ackCount, resend, handled>>

\* handle_button.
Handle ==
    /\ calls # << >> /\ calls' = Tail(calls) /\ handled' = Head(calls)
    /\ UNCHANGED <<firmwareVars, reports, ackCount, resend, messages, acks, hostCount>>

ButtonNext ==
    \/ \E level \in {0, 1} : SamplePin(level)
    \/ \E lost \in BOOLEAN : Report(lost)
    \/ TakeButtonsAck \/ TakeMessage \/ Handle

ButtonSpec == ButtonInit /\ [][ButtonNext]_buttonVars

-----------------------------------------------------------------------------
(* Properties.                                                             *)

\* Every change that is stored is handled once and in order, although messages
\* are lost and repeated and their counts wrap; the host counts no change that the
\* firmware does not have, and the firmware drops none that the host has not counted
\* (buttons.py:57-76, buttons.c:120-136, 140-162).
HandledInOrder ==
    /\ ~overflow => handled + Len(calls) = hostCount
                    /\ \A i \in DOMAIN calls : calls[i] = handled + i
    /\ ackCount <= hostCount /\ hostCount <= ackCount + Len(reports)

\* A change that the firmware has dropped was taken by the host
\* (buttons.c:120-136).
NothingDroppedUnseen ==
    ~overflow => reports = [i \in 1..(made - ackCount) |-> ackCount + i]

\* When all is quiet the host knows the level of the pin
\* (buttons.c:42-55, buttons.py:77-83).
LevelKnown ==
    reports = << >> /\ messages = << >> /\ acks = << >> /\ calls = << >> /\ ~overflow
        => handled % 2 = pressed

\* The host takes exactly the changes of the pin that the firmware stored, in order,
\* over a line that loses and repeats messages (buttons.c:42-162, buttons.py:57-83).
ChangesTaken == HandledInOrder /\ NothingDroppedUnseen /\ LevelKnown

\* Once the pin has come to rest - it changes a bounded number of times - the
\* host has handled every change, however often a message is lost (buttons.c:56-66,
\* 140-162).
ReportsArrive == <>[](overflow \/ handled = made)
=============================================================================
