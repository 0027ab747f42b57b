------------------------------ MODULE FifoLock ------------------------------
(***************************************************************************)
(* What users of ReactorMutex (klippy/reactor.py) rely on: a lock with one *)
(* owner that passes to those who wait in the order they came.             *)
(***************************************************************************)
EXTENDS Sequences

CONSTANTS Clients, Nobody

VARIABLES
    owner,              \* the client that has the lock, or Nobody
    waiting             \* the clients that wait for it

lockVars == <<owner, waiting>>

LockInit == owner = Nobody /\ waiting = << >>

Take(c) ==
    \/ owner = Nobody /\ owner' = c /\ UNCHANGED waiting
    \/ owner # Nobody /\ waiting' = Append(waiting, c) /\ UNCHANGED owner

Give ==
    /\ owner # Nobody
    /\ IF waiting = << >>
       THEN owner' = Nobody /\ UNCHANGED waiting
       ELSE owner' = Head(waiting) /\ waiting' = Tail(waiting)

LockSpec == LockInit /\ [][Give \/ \E c \in Clients : Take(c)]_lockVars
=============================================================================
