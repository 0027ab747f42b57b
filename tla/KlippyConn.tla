----------------------------- MODULE KlippyConn -----------------------------
(***************************************************************************)
(* Moonraker's connection to Klipper (klippy_connection.py): the task that *)
(* connects, asks for the state of the printer, subscribes to it and       *)
(* announces it to the components; the reader of the socket; the closing   *)
(* of the connection when either end fails, and the connection after it.   *)
(* Every await of the task is a step; the task has connection_mutex from   *)
(* its start to its end.  Endpoints, requirements, remote methods are one  *)
(* request each; who subscribes to what is in Subscriptions.               *)
(***************************************************************************)
EXTENDS Integers, Sequences

CONSTANTS MaxLosses         \* bound of the model: lost connections

VARIABLES
    klippy,         \* state of Klipper as it sees it itself
    linked,         \* Klipper has its end of the connection
    asked,          \* the request that Klipper has not answered, or ""
    sent,           \* what Klipper has sent, in order
    subscribed,     \* Klipper sends changes of webhooks.state
    task,           \* where connection_task is, and the reply it goes on with
    connState,      \* _state
    started,        \* _klippy_initializing, _klippy_started
    startupState,   \* startup_state of _check_ready
    closing,        \* closing, and how far close() is
    heard,          \* history: the last event that components got,
    shutdowns,      \* history: klippy_shutdown events of this connection
    losses

connVars == <<klippy, linked, asked, sent, subscribed, task, connState, started,
              startupState, closing, heard, shutdowns, losses>>

At(p) == task.at = p
To(p) == task' = [at |-> p, reply |-> ""]

ConnInit ==
    /\ klippy = "startup" /\ linked = FALSE /\ asked = "" /\ sent = << >>
    /\ subscribed = FALSE /\ task = [at |-> "connect", reply |-> ""]
    /\ connState = "disconnected" /\ started = [initializing |-> FALSE, done |-> FALSE]
    /\ startupState = "" /\ closing = "no" /\ heard = "disconnect"
    /\ shutdowns = 0 /\ losses = 0

-----------------------------------------------------------------------------
(* Klipper, as far as a client sees it.                                    *)

KlippyVars == <<asked, task, connState, started, startupState, closing, heard, shutdowns>>

\* The printer gets ready, fails to, or shuts down; a subscriber is told.
Changes(s) ==
    /\ \/ klippy = "startup" /\ s \in {"ready", "error"}
       \/ klippy \in {"startup", "ready"} /\ s = "shutdown"
    /\ klippy' = s
    /\ sent' = IF linked /\ subscribed THEN Append(sent, [is |-> "update", state |-> s]) ELSE sent
    /\ UNCHANGED <<linked, subscribed, losses, KlippyVars>>

Answers ==
    /\ linked /\ asked # "" /\ asked' = ""
    /\ sent' = Append(sent, [is |-> "reply", state |-> klippy])
    /\ subscribed' = (subscribed \/ asked = "subscribe")
    /\ UNCHANGED <<klippy, linked, task, connState, started, startupState, closing,
                   heard, shutdowns, losses>>

\* Klipper restarts, or its end of the socket is closed.
Lost ==
    /\ linked /\ losses < MaxLosses /\ losses' = losses + 1
    /\ linked' = FALSE /\ subscribed' = FALSE /\ klippy' = "startup"
    /\ sent' = Append(sent, [is |-> "eof", state |-> ""])
    /\ UNCHANGED KlippyVars

-----------------------------------------------------------------------------
(* connection_task.                                                        *)

TaskVars == <<klippy, linked, subscribed, sent, losses>>
Ask(r) == asked' = r /\ To(r)
Replied(r) == At(r) /\ task.reply # ""
Event(e) == heard' = e /\ shutdowns' = IF e = "shutdown" THEN shutdowns + 1 ELSE shutdowns
NoEvent == UNCHANGED <<heard, shutdowns>>

\* _do_connect.
Connect ==
    /\ At("connect") /\ closing = "no" /\ linked' = TRUE
    /\ connState' = "startup" /\ started' = [initializing |-> TRUE, done |-> FALSE]
    /\ To("sleep") /\ NoEvent
    /\ UNCHANGED <<klippy, asked, sent, subscribed, startupState, closing, losses>>

\* _init_klippy_connection asks again after INIT_TIME, until it is done.
AskInfo ==
    /\ At("sleep") /\ Ask("info") /\ NoEvent
    /\ UNCHANGED <<TaskVars, connState, started, startupState, closing>>

\* _check_ready, when it knows the state of the printer; task.reply of the event
\* tells it on.
Identify ==
    /\ Replied("info") /\ UNCHANGED <<TaskVars, connState, started, startupState, closing>>
    /\ IF heard = "disconnect"
       THEN Event("identified") /\ task' = [task EXCEPT !.at = "identifying"] /\ UNCHANGED asked
       ELSE task' = [task EXCEPT !.at = "informed"] /\ UNCHANGED asked /\ NoEvent

AskEndpoints ==
    /\ At("identifying") /\ NoEvent
    /\ asked' = "endpoints" /\ startupState' = task.reply /\ To("endpoints")
    /\ UNCHANGED <<TaskVars, connState, started, closing>>

Informed(s) ==
    /\ connState' = s /\ NoEvent /\ startupState' = s
    /\ IF s = "startup" THEN To("sleep") /\ UNCHANGED asked ELSE Ask("subscribe")
    /\ UNCHANGED <<TaskVars, started, closing>>

\* result["state"] is what Klipper said before the endpoints were asked for.
GoOn ==
    \/ At("informed") /\ Informed(task.reply)
    \/ Replied("endpoints") /\ Informed(startupState)

\* The reply to the subscription is not looked at.
Subscribed ==
    /\ Replied("subscribe") /\ Ask("remaining") /\ NoEvent
    /\ UNCHANGED <<TaskVars, connState, started, startupState, closing>>

AnnounceStart ==
    /\ Replied("remaining") /\ Event("started") /\ startupState' = connState
    /\ To("announced") /\ UNCHANGED <<TaskVars, asked, connState, started, closing>>

\* What the task does at its end.
Done == To("done") /\ started' = [initializing |-> FALSE, done |-> TRUE]

\* After klippy_started.
AfterStarted ==
    /\ At("announced") /\ UNCHANGED <<TaskVars, connState, startupState, closing>>
    /\ \/ /\ connState = "ready" /\ Ask("verify") /\ NoEvent
          /\ started' = [started EXCEPT !.done = TRUE]
       \/ /\ connState # "ready" /\ Done /\ UNCHANGED asked
          /\ IF connState = "shutdown" /\ startupState # "shutdown"
             THEN Event("shutdown") ELSE NoEvent

Verified ==
    /\ Replied("verify") /\ Ask("register") /\ NoEvent
    /\ UNCHANGED <<TaskVars, connState, started, startupState, closing>>

AnnounceReady ==
    /\ Replied("register") /\ UNCHANGED <<TaskVars, asked, connState, startupState, closing>>
    /\ \/ connState = "ready" /\ Event("ready") /\ To("readied") /\ UNCHANGED started
       \/ connState # "ready" /\ NoEvent /\ Done

Deferred == IF connState = "shutdown" THEN Event("shutdown") ELSE NoEvent

Readied ==
    /\ At("readied") /\ Done /\ Deferred
    /\ UNCHANGED <<TaskVars, asked, connState, startupState, closing>>

-----------------------------------------------------------------------------
(* The reader, and close().                                                *)

Announced(s) == s = "shutdown" /\ ~started.initializing /\ connState # "shutdown"

\* _process_status_update: webhooks.
WebhooksUpdate(s) ==
    /\ IF Announced(s) THEN Event("shutdown") ELSE NoEvent
    /\ connState' = s /\ UNCHANGED <<task, closing>>

Reply(s) == task' = [task EXCEPT !.reply = s] /\ NoEvent /\ UNCHANGED <<connState, closing>>

\* Mutant of Cancelled: the task goes on.
NotCancelled == task

Cancelled == IF At("done") THEN task ELSE [at |-> "cancelled", reply |-> ""]

\* close: the task is cancelled, and then has not the mutex any more.
Close == closing' = "closing" /\ task' = Cancelled

\* _read_stream; after the end of the stream nothing is read.
Receive ==
    /\ sent # << >> /\ sent' = Tail(sent)
    /\ \/ Head(sent).is = "reply" /\ Reply(Head(sent).state)
       \/ Head(sent).is = "update" /\ WebhooksUpdate(Head(sent).state)
       \/ /\ Head(sent).is = "eof" /\ NoEvent /\ UNCHANGED connState
          /\ IF closing = "no" THEN Close ELSE UNCHANGED <<closing, task>>
    /\ UNCHANGED <<klippy, linked, asked, subscribed, started, startupState, losses>>

\* _write_request: a request cannot be written.
WriteFails ==
    /\ asked # "" /\ ~linked /\ closing = "no" /\ Close /\ NoEvent
    /\ UNCHANGED <<klippy, linked, asked, sent, subscribed, connState, started, startupState, losses>>

\* _on_connection_closed, with the mutex, and the next connection_task.
Closed ==
    /\ closing = "closing" /\ task.at \in {"done", "cancelled"} /\ closing' = "no"
    /\ linked' = FALSE /\ subscribed' = FALSE /\ asked' = "" /\ sent' = << >>
    /\ connState' = "disconnected" /\ started' = [initializing |-> FALSE, done |-> FALSE]
    /\ heard' = "disconnect" /\ shutdowns' = 0 /\ To("connect")
    /\ UNCHANGED <<klippy, startupState, losses>>

TaskStep ==
    \/ Connect \/ AskInfo \/ Identify \/ AskEndpoints \/ GoOn \/ Subscribed
    \/ AnnounceStart \/ AfterStarted \/ Verified \/ AnnounceReady \/ Readied

ConnNext ==
    \/ \E s \in {"ready", "error", "shutdown"} : Changes(s)
    \/ Answers \/ Lost \/ TaskStep \/ Receive \/ WriteFails \/ Closed

-----------------------------------------------------------------------------
(* Properties.                                                             *)

Initialized == started.done /\ ~started.initializing
Quiet == Initialized /\ linked /\ closing = "no" /\ sent = << >>

\* Components get the events of a connection in order and each once, and of a
\* new connection only after klippy_disconnect (klippy_connection.py:344-407).
EventsInOrder ==
    \/ heard' \in {heard, "disconnect"}
    \/ <<heard, heard'>> \in {<<"disconnect", "identified">>, <<"identified", "started">>,
                              <<"started", "ready">>, <<"started", "shutdown">>,
                              <<"ready", "shutdown">>}

\* A shutdown is announced at most once, and not before the printer is known to
\* have started (klippy_connection.py:489-503).
ShutdownOnce == shutdowns <= 1 /\ (shutdowns = 1 => heard = "shutdown")

\* After the last loss the connection comes up again and is initialized, if the
\* printer starts (klippy_connection.py:240-316, 668-709).
ComesUp == <>[](klippy # "startup") => <>[]Initialized

\* Components that were told the printer is ready are told of every shutdown that
\* reaches the connection, also of one while they are being told
\* (klippy_connection.py:396-401).
ReadyThenTold == Quiet /\ heard = "ready" => connState = "ready"

\* Moonraker's components hear the events of Klipper in order, miss no shutdown once they
\* were told it is ready, and the connection comes up again
\* (klippy_connection.py:240-503, 668-709).
ConnectionRight ==
    [](ShutdownOnce /\ ReadyThenTold) /\ [][EventsInOrder]_connVars /\ ComesUp

\* When all is quiet the components know of a shutdown: they got klippy_shutdown,
\* or klippy_started with that state (klippy_connection.py:377-401, 498).
ShutdownAnnounced ==
    Quiet /\ klippy = "shutdown" => heard = "shutdown" \/ startupState = "shutdown"
=============================================================================
