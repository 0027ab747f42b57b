---------------------------- MODULE LinkContract ----------------------------
(***************************************************************************)
(* What the host side of the serial link promises to the code above it,    *)
(* with no wire, no acknowledgement message and no retransmission: blocks  *)
(* are numbered in the order they are built, the micro-controller          *)
(* dispatches them without a gap, a repetition or an inversion, and a      *)
(* block is only reported as received once it has been dispatched.         *)
(*                                                                         *)
(* The one exception is the start of a session (serialqueue.c, "must be    *)
(* connection init"): the micro-controller may still expect the sequence   *)
(* number an earlier session left, so blocks built before the two sides    *)
(* agree may be reported as received without ever being dispatched.        *)
(***************************************************************************)
EXTENDS Integers, Sequences

VARIABLES
    next_out,   \* number of the next block the host builds
    confirmed,  \* every block below this number is reported as received
    dispatched  \* the blocks dispatched by the micro-controller, in order

cvars == <<next_out, confirmed, dispatched>>

CInit ==
    /\ next_out = 1
    /\ confirmed = 1
    /\ dispatched = << >>

\* The session is agreed on once something was dispatched or confirmed.
Agreed == dispatched # << >> \/ confirmed # 1

\* The only block that may be dispatched next.
NextBlock ==
    IF dispatched # << >> THEN dispatched[Len(dispatched)] + 1 ELSE confirmed

Build ==
    /\ next_out' = next_out + 1
    /\ UNCHANGED <<confirmed, dispatched>>

Dispatch ==
    /\ \E n \in 1..(next_out - 1) :
          /\ Agreed => n = NextBlock
          /\ dispatched' = Append(dispatched, n)
    /\ UNCHANGED <<next_out, confirmed>>

Confirm ==
    /\ \E n \in (confirmed + 1)..next_out :
          /\ Agreed => n <= NextBlock
          /\ confirmed' = n
    /\ UNCHANGED <<next_out, dispatched>>

\* Connection init: nothing was dispatched or confirmed yet, and the host
\* adopts the number the micro-controller expects.
Adopt ==
    /\ ~Agreed
    /\ next_out' \in Nat
    /\ next_out' > next_out
    /\ confirmed' = next_out'
    /\ UNCHANGED dispatched

CNext == Build \/ Dispatch \/ Confirm \/ Adopt

CSpec == CInit /\ [][CNext]_cvars
=============================================================================
