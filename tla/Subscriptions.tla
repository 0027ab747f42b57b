---------------------------- MODULE Subscriptions ---------------------------
(***************************************************************************)
(* Subscriptions to printer objects: Klipper samples the objects that its  *)
(* client Moonraker subscribes to and sends what has changed               *)
(* (webhooks.py); Moonraker subscribes to all that any of its own clients  *)
(* wants, keeps a cache, and hands changes on (klippy_connection.py).      *)
(*                                                                         *)
(* An object is one field.  What Moonraker has read it runs later, while   *)
(* it goes on reading: a status update as a callback of the event loop,    *)
(* the reply to a request when the task that waits for it is run.  The     *)
(* loop runs what is ready in order, and shield and wait_for take some     *)
(* turns more to wake the task: the reply is never run before an update    *)
(* that was read before it, but an update that was read after it may be.   *)
(***************************************************************************)
EXTENDS Integers, Sequences, SequencesExt, FiniteSets

CONSTANTS
    Objects, Listeners,     \* printer objects; clients of Moonraker
    MaxValue                \* bound of the model: how often an object changes

NoListener == "none"

ASSUME SubAssumption == NoListener \notin Listeners /\ MaxValue \in Nat

VARIABLES
    \* Klipper
    value,          \* objects
    lastQuery,      \* last_query; 0 is an object that was not in it
    client,         \* objects of clients[cconn], or {}
    pending,        \* pending_queries: objects of the request, or {}
    answer,         \* what complete.wait() returns, or << >>
    \* the socket
    down, up,
    \* Moonraker
    subs,           \* subscriptions
    wants,          \* objects of the requests that are under way
    locked,         \* the listener whose request has subscription_lock
    cache,          \* subscription_cache; 0 is an object that is not in it
    inbox, reply,   \* read: updates that wait to be run, and the reply
    late,           \* updates that were read after the reply
    view,           \* history: what listeners were told
    passed,         \* history: objects of updates that ran before a reply that was
                    \* read before them
    outdated        \* history: objects of which such a reply gave the last value

subVars == <<value, lastQuery, client, pending, answer, down, up,
             subs, wants, locked, cache, inbox, reply, late, view, passed, outdated>>
klipperVars == <<value, lastQuery, client, pending, answer>>
readVars == <<inbox, reply, late, passed, outdated>>
moonrakerVars == <<subs, wants, locked, cache, view, readVars>>

Unknown == [o \in Objects |-> 0]

SubInit ==
    /\ value = [o \in Objects |-> 1] /\ lastQuery = Unknown
    /\ client = {} /\ pending = {} /\ answer = << >> /\ down = << >> /\ up = << >>
    /\ subs = [l \in Listeners |-> {}] /\ wants = [l \in Listeners |-> {}]
    /\ locked = NoListener /\ cache = Unknown /\ inbox = << >> /\ reply = << >>
    /\ late = << >> /\ passed = {} /\ outdated = {}
    /\ view = [l \in Listeners |-> Unknown]

-----------------------------------------------------------------------------
(* Klipper.                                                                *)

Only(objects) == [o \in Objects |-> IF o \in objects THEN value[o] ELSE 0]

ObjectChanges(o) ==
    /\ value[o] <= MaxValue /\ value' = [value EXCEPT ![o] = @ + 1]
    /\ UNCHANGED <<lastQuery, client, pending, answer, down, up, moonrakerVars>>

\* _handle_query with is_subscribe, until it waits.
TakeRequest ==
    /\ down # << >> /\ pending = {} /\ answer = << >>
    /\ down' = Tail(down) /\ pending' = Head(down) /\ client' = {}
    /\ UNCHANGED <<value, lastQuery, answer, up, moonrakerVars>>

Changed(o) == value[o] # lastQuery[o]

\* _do_query.  The reactor comes to the greenlet that waits for an answer
\* before the timer is due again.
Sample ==
    /\ answer = << >>
    /\ client \cup pending # {} /\ lastQuery' = Only(client \cup pending)
    /\ LET changed == {o \in client : Changed(o)}
       IN  up' = IF changed = {} THEN up
                 ELSE Append(up, [is |-> "update", status |-> Only(changed)])
    /\ pending' = {} /\ answer' = IF pending = {} THEN << >> ELSE <<Only(pending)>>
    /\ UNCHANGED <<value, client, down, moonrakerVars>>

\* _handle_query after complete.wait().
SendAnswer ==
    /\ answer # << >> /\ answer' = << >>
    /\ up' = Append(up, [is |-> "reply", status |-> answer[1]])
    /\ client' = {o \in Objects : answer[1][o] # 0}
    /\ UNCHANGED <<value, lastQuery, pending, down, moonrakerVars>>

-----------------------------------------------------------------------------
(* Moonraker.                                                              *)

Wanted == UNION {subs[l] : l \in Listeners}

Superset(l) == wants[l] \cup Wanted

\* A listener asks for a subscription (_request_subscripton).
Subscribe(l, objects) ==
    /\ wants[l] = {} /\ objects # {} /\ wants' = [wants EXCEPT ![l] = objects]
    /\ UNCHANGED <<klipperVars, down, up, subs, locked, cache, view, readVars>>

\* subscription_lock is free.
SendRequest(l) ==
    /\ wants[l] # {} /\ locked = NoListener /\ locked' = l
    /\ down' = Append(down, Superset(l))
    /\ UNCHANGED <<klipperVars, up, subs, wants, cache, view, readVars>>

\* remove_subscription.
Leave(l) ==
    /\ subs[l] # {} /\ wants[l] = {}
    /\ subs' = [subs EXCEPT ![l] = {}] /\ view' = [view EXCEPT ![l] = Unknown]
    /\ UNCHANGED <<klipperVars, down, up, wants, locked, cache, readVars>>

\* _read_stream, _process_command.
ReadStream ==
    /\ up # << >> /\ up' = Tail(up)
    /\ LET m == Head(up)
       IN  \/ m.is = "reply" /\ reply' = <<m.status>> /\ UNCHANGED <<inbox, late>>
          \/ /\ m.is = "update" /\ reply = << >>
             /\ inbox' = Append(inbox, m) /\ UNCHANGED <<reply, late>>
          \/ /\ m.is = "update" /\ reply # << >>
             /\ late' = Append(late, m) /\ UNCHANGED <<inbox, reply>>
    /\ UNCHANGED <<klipperVars, down, subs, wants, locked, cache, view, passed, outdated>>

Mentions(status) == {o \in Objects : status[o] # 0}
Updated(f, status) == [o \in Objects |-> IF status[o] # 0 THEN status[o] ELSE f[o]]
Pushed(status) ==
    [l \in Listeners |-> [o \in Objects |->
        IF o \in subs[l] /\ status[o] # 0 THEN status[o] ELSE view[l][o]]]

\* _process_status_update.
ProcessUpdate(status) == cache' = Updated(cache, status) /\ view' = Pushed(status)

RunUpdate ==
    /\ inbox # << >> /\ inbox' = Tail(inbox) /\ ProcessUpdate(Head(inbox).status)
    /\ outdated' = outdated \ Mentions(Head(inbox).status)
    /\ UNCHANGED <<klipperVars, down, up, subs, wants, locked, reply, late, passed>>

\* The same before the task that has the reply is run.
RunLate ==
    /\ inbox = << >> /\ late # << >>
    /\ late' = Tail(late) /\ ProcessUpdate(Head(late).status)
    /\ passed' = passed \cup Mentions(Head(late).status)
    /\ UNCHANGED <<klipperVars, down, up, subs, wants, locked, inbox, reply, outdated>>

\* Mutant of StatusDiff: changes that come with a reply are not handed on.
NoDiff(status) == Unknown

StatusDiff(status) ==
    [o \in Objects |-> IF cache[o] \in {0, status[o]} THEN 0 ELSE status[o]]

\* _request_subscripton after its request.
FinishSubscribe ==
    /\ inbox = << >> /\ inbox' = late /\ late' = << >> /\ reply # << >> /\ reply' = << >>
    /\ outdated' = passed /\ passed' = {}
    /\ LET status == reply[1]
       IN  /\ cache' = status
           /\ view' = [Pushed(StatusDiff(status)) EXCEPT ![locked] =
                         [o \in Objects |-> IF o \in wants[locked] THEN status[o] ELSE 0]]
    /\ subs' = [subs EXCEPT ![locked] = wants[locked]]
    /\ wants' = [wants EXCEPT ![locked] = {}] /\ locked' = NoListener
    /\ UNCHANGED <<klipperVars, down, up>>

SubNext ==
    \/ \E o \in Objects : ObjectChanges(o)
    \/ TakeRequest \/ Sample \/ SendAnswer \/ ReadStream
    \/ RunUpdate \/ RunLate \/ FinishSubscribe
    \/ \E l \in Listeners :
          \/ SendRequest(l) \/ Leave(l)
          \/ \E objects \in SUBSET Objects : Subscribe(l, objects)

SubSpec == SubInit /\ [][SubNext]_subVars

-----------------------------------------------------------------------------
(* Properties.                                                             *)

\* Nothing is under way and Klipper has sampled the last change.
AllSettled ==
    /\ down = << >> /\ up = << >> /\ inbox = << >> /\ reply = << >>
    /\ pending = {} /\ answer = << >> /\ locked = NoListener
    /\ lastQuery = Only(client)

\* Listeners know the value of every object they subscribe to, and the cache has
\* it, although only changes are sent and others subscribe and leave
\* (webhooks.py:462-536, klippy_connection.py:481-602).
ViewsRight ==
    AllSettled => \A l \in Listeners : \A o \in subs[l] \ outdated : view[l][o] = value[o]

\* The cache, which answers for objects that others subscribe to, is right as well
\* (klippy_connection.py:565-600).
CacheRight == AllSettled => \A o \in Wanted \ outdated : cache[o] = value[o]

\* What Moonraker tells its clients of the printer is what the printer is, but for
\* objects of which an update has run before a reply that was read before it, until
\* they change or somebody subscribes again (webhooks.py:462-536,
\* klippy_connection.py:165-191, 481-602).
StatusRight == ViewsRight /\ CacheRight
=============================================================================
