------------------------------ MODULE JobQueue ------------------------------
(***************************************************************************)
(* The job queue of Moonraker (components/job_queue.py) with the job state *)
(* it listens to (components/job_state.py).                                *)
(*                                                                         *)
(* Requests, events and the timer that loads the next job are tasks of one *)
(* event loop.  All but pause_queue do their work with the lock of the     *)
(* queue, an asyncio.Lock that serves tasks in the order they came; a task *)
(* gives way only where it waits for Klipper, and then keeps the lock.     *)
(* The printer is external: it prints what SDCARD_PRINT_FILE starts, and   *)
(* users start, pause, resume and cancel prints past the queue.            *)
(***************************************************************************)
EXTENDS Integers, Sequences, FiniteSets, SequencesExt

CONSTANTS
    Automatic,      \* automatic_transition
    LoadOnStart,    \* load_on_startup
    Transition,     \* there is a job_transition_gcode
    Requests,       \* kinds of tasks that users and Klipper cause
    MaxJobs,        \* bound of the model: jobs ever queued
    MaxTasks        \* bound of the model: tasks at the lock and timers,
                    \* together, when another task arrives

AllRequests == {"add", "reset", "delete", "clear", "jump", "start", "pause",
                "shutdown", "ready"}

ASSUME QueueAssumption ==
    /\ Automatic \in BOOLEAN /\ LoadOnStart \in BOOLEAN /\ Transition \in BOOLEAN
    /\ Requests \subseteq AllRequests
    /\ MaxJobs \in Nat \ {0} /\ MaxTasks \in Nat \ {0}

VARIABLES
    jobs,           \* queued_jobs, in order; a job is its number
    qstate,         \* queue_state
    timers,         \* calls of _pop_job that are scheduled, each with its
                    \* number, need_transition, and whether the time has
                    \* come, after which it cannot be cancelled
    handle,         \* pop_queue_handle: number of a timer, 0 for None
    tasks,          \* the task that has the lock, and those that wait for it
    at,             \* where the first one is; "begin" when it was called and
                    \* has not run yet
    printer,        \* state of Klipper's print_stats
    seen,           \* the state that job_state was told last
    added,          \* jobs ever queued
    starts,         \* history: how often each job was started
    held            \* history: pause_queue has returned, and start_queue was
                    \* not called since

vars == <<jobs, qstate, timers, handle, tasks, at, printer, seen, added,
          starts, held>>

Jobs     == 1..MaxJobs
TimerIds == 1..MaxTasks
Timers   == [id : TimerIds, transition : BOOLEAN, due : BOOLEAN]
Task(k, n)  == [kind |-> k, arg |-> n]
PopTask(tm) == Task("pop", IF tm.transition THEN 1 ELSE 0)

Init ==
    /\ jobs = << >> /\ added = 0 /\ starts = [j \in Jobs |-> 0]
    /\ qstate = IF Automatic THEN "ready" ELSE "paused"
    /\ timers = {} /\ handle = 0
    /\ tasks = << >> /\ at = "begin"
    /\ printer = "standby" /\ seen = "standby"
    /\ held = FALSE

-----------------------------------------------------------------------------
(* What a task does once it has the lock; rest are the tasks behind it.    *)

Idle == IF Automatic THEN "ready" ELSE "paused"

Finish(rest) == tasks' = rest /\ at' = "begin"
Await(t, rest, where) == tasks' = <<t>> \o rest /\ at' = where

\* delay_callback with _pop_job.
Load(nt) ==
    /\ qstate' = "loading"
    /\ handle' = CHOOSE i \in TimerIds : \A tm \in timers : tm.id # i
    /\ timers' = timers \cup {[id |-> handle', transition |-> nt, due |-> FALSE]}

NoLoad == UNCHANGED <<timers, handle>>

\* queued_jobs.pop(j, None), of a dictionary that keeps its order.
Popped(j) ==
    IF Contains(jobs, j)
    THEN RemoveAt(jobs, CHOOSE i \in DOMAIN jobs : jobs[i] = j) ELSE jobs

\* What delete_job, queue_job and _handle_jump make of the queue.
Edited(t) ==
    CASE t.kind = "add"    -> Append(jobs, t.arg)
      [] t.kind = "reset"  -> <<t.arg>>
      [] t.kind = "delete" -> Popped(t.arg)
      [] t.kind = "clear"  -> << >>
      [] t.kind = "jump"   -> IF Contains(jobs, t.arg)
                              THEN <<t.arg>> \o Popped(t.arg) ELSE jobs

Edit(t, rest) ==
    /\ t.kind \in {"add", "reset", "delete", "clear", "jump"}
    /\ jobs' = Edited(t)
    /\ Finish(rest)
    /\ NoLoad /\ UNCHANGED qstate

Loadable(k) == IF k = "ready" THEN {"ready", "paused"} ELSE {"ready"}

\* _handle_ready and _on_job_complete.
Continue(t, rest) ==
    /\ t.kind \in {"ready", "complete"}
    /\ IF jobs # << >> /\ qstate \in Loadable(t.kind)
       THEN Load(t.kind = "complete")
       ELSE NoLoad /\ UNCHANGED qstate
    /\ Finish(rest)
    /\ UNCHANGED jobs

\* _on_job_abort, and the end of _handle_shutdown and pause_queue.
Stop(t, rest) ==
    /\ \/ /\ t.kind = "abort"
          /\ qstate' = IF jobs # << >> THEN "paused" ELSE qstate
       \/ /\ t.kind = "shutdown"
          /\ qstate' = IF jobs = << >> /\ Automatic THEN "ready" ELSE qstate
       \/ t.kind = "pause" /\ UNCHANGED qstate
    /\ Finish(rest)
    /\ NoLoad /\ UNCHANGED jobs

\* start_queue up to its question whether Klipper can print.
Start(t, rest) ==
    /\ t.kind = "start"
    /\ IF qstate # "loading" /\ jobs # << >>
       THEN Await(t, rest, "check") /\ UNCHANGED qstate
       ELSE /\ qstate' = IF qstate = "loading" THEN qstate ELSE Idle
            /\ Finish(rest)
    /\ NoLoad /\ UNCHANGED jobs

\* _pop_job up to the same question.
Pop(t, rest) ==
    /\ t.kind = "pop"
    /\ IF qstate # "paused" /\ jobs # << >>
       THEN Await(t, rest, "check") /\ UNCHANGED qstate
       ELSE /\ qstate' = IF qstate = "paused" THEN qstate ELSE Idle
            /\ Finish(rest)
    /\ UNCHANGED jobs

Perform(t, rest) ==
    \/ Edit(t, rest) \/ Continue(t, rest) \/ Stop(t, rest)
    \/ Start(t, rest) \/ (Pop(t, rest) /\ NoLoad)

PrinterSame == UNCHANGED <<printer, seen, added, starts>>

\* A task asks for the lock, and goes on at once when nobody has it.
Wait(t) == tasks' = Append(tasks, t) /\ UNCHANGED <<jobs, qstate, at>>

Room == Len(tasks) + Cardinality(timers) < MaxTasks

Arrive(t) ==
    /\ Room
    /\ IF tasks = << >> THEN Perform(t, << >>) ELSE Wait(t) /\ NoLoad

\* The next task is called after a release.
Run ==
    /\ tasks # << >> /\ at = "begin"
    /\ Perform(Head(tasks), Tail(tasks))
    /\ held' = (held \/ Head(tasks).kind = "pause")
    /\ PrinterSame

-----------------------------------------------------------------------------
(* Tasks that wait for Klipper while they have the lock.                   *)

Waits(k, where) == tasks # << >> /\ at = where /\ Head(tasks).kind = k

\* _check_can_print; the question may also fail.
CanPrint == printer \notin {"printing", "paused"}

\* Mutant of Refused: a queue that cannot load goes on loading.
StillLoading == qstate

Refused == "paused"

StartChecked ==
    /\ Waits("start", "check")
    /\ \/ CanPrint /\ Load(FALSE)
       \/ qstate' = Idle /\ NoLoad
    /\ Finish(Tail(tasks))
    /\ PrinterSame /\ UNCHANGED <<jobs, held>>

GoesOn == qstate = "loading"

PopChecked ==
    /\ Waits("pop", "check")
    /\ \/ /\ CanPrint /\ GoesOn
          /\ IF Transition /\ Head(tasks).arg = 1
             THEN at' = "transition" /\ UNCHANGED qstate
             ELSE at' = "start" /\ qstate' = "starting"
          /\ UNCHANGED tasks
       \/ qstate' = Refused /\ Finish(Tail(tasks))
    /\ NoLoad /\ PrinterSame /\ UNCHANGED <<jobs, held>>

\* The transition gcode is done, or has failed.
TransitionDone ==
    /\ Waits("pop", "transition")
    /\ \/ GoesOn /\ at' = "start" /\ qstate' = "starting" /\ UNCHANGED tasks
       \/ qstate' = Refused /\ Finish(Tail(tasks))
    /\ NoLoad /\ PrinterSame /\ UNCHANGED <<jobs, held>>

\* Mutant of AfterStart: the job stays in the queue.
KeepsJob == jobs

AfterStart == Tail(jobs)

\* SDCARD_PRINT_FILE is done; it is refused while a print is running.
Started ==
    /\ Waits("pop", "start")
    /\ printer # "printing"
    /\ printer' = "printing"
    /\ starts' = [starts EXCEPT ![Head(jobs)] = @ + 1]
    /\ jobs' = AfterStart
    /\ qstate' = IF qstate # "starting" THEN qstate
                 ELSE IF jobs' = << >> \/ Automatic THEN "ready" ELSE "paused"
    /\ Finish(Tail(tasks))
    /\ NoLoad /\ UNCHANGED <<seen, added, held>>

StartFails ==
    /\ Waits("pop", "start")
    /\ qstate' = Refused
    /\ Finish(Tail(tasks))
    /\ NoLoad /\ PrinterSame /\ UNCHANGED <<jobs, held>>

-----------------------------------------------------------------------------
(* What makes tasks arrive.                                                *)

\* The time of a timer has come: the event loop creates the task.
TimerDue(tm) ==
    /\ tm \in timers /\ ~tm.due
    /\ timers' = (timers \ {tm}) \cup {[tm EXCEPT !.due = TRUE]}
    /\ PrinterSame /\ UNCHANGED <<jobs, qstate, handle, tasks, at, held>>

Forgotten == 0

\* _pop_job is called: it forgets the handle, whichever timer that is.
PopCalled(tm) ==
    /\ tm \in timers /\ tm.due
    /\ timers' = timers \ {tm}
    /\ handle' = Forgotten
    /\ IF tasks = << >> THEN Pop(PopTask(tm), << >>) ELSE Wait(PopTask(tm))
    /\ PrinterSame /\ UNCHANGED held

\* The requests that change the queue.
Request(k) ==
    /\ k \in Requests \cap {"add", "reset", "delete", "clear", "jump"}
    /\ IF k \in {"add", "reset"}
       THEN added < MaxJobs /\ added' = added + 1 /\ Arrive(Task(k, added + 1))
       ELSE (\E j \in 1..added : Arrive(Task(k, j))) /\ UNCHANGED added
    /\ UNCHANGED <<printer, seen, starts, held>>

StartQueue ==
    /\ "start" \in Requests
    /\ Arrive(Task("start", 0))
    /\ held' = FALSE
    /\ PrinterSame

PausedState == "paused"

\* pause_queue, by a user or because Klipper shuts down: the state and the
\* timer are changed before it waits for the lock.
PauseQueue(k) ==
    /\ k \in Requests \cap {"pause", "shutdown"}
    /\ Room
    /\ timers' = {tm \in timers : tm.id # handle \/ tm.due}
    /\ handle' = 0
    /\ IF tasks = << >>
       THEN /\ qstate' = IF k = "shutdown" /\ jobs = << >> /\ Automatic
                         THEN "ready" ELSE PausedState
            /\ held' = (held \/ k = "pause")
            /\ UNCHANGED <<tasks, at>>
       ELSE /\ qstate' = PausedState
            /\ tasks' = Append(tasks, Task(k, 0))
            /\ UNCHANGED <<at, held>>
    /\ PrinterSame /\ UNCHANGED jobs

\* Klipper is ready after a restart: job_state subscribes anew.
KlippyReady ==
    /\ "ready" \in Requests
    /\ printer' = "standby" /\ seen' = "standby"
    /\ IF LoadOnStart
       THEN Arrive(Task("ready", 0))
       ELSE UNCHANGED <<jobs, qstate, timers, handle, tasks, at>>
    /\ UNCHANGED <<added, starts, held>>

\* The status that Klipper reports four times a second has changed.
StatusUpdate ==
    /\ Room /\ seen # printer
    /\ seen' = printer
    /\ LET kind == CASE printer = "complete" /\ Automatic -> "complete"
                     [] printer = "aborted" -> "abort"
                     [] OTHER -> "none"
       IN  IF kind = "none"
           THEN UNCHANGED <<jobs, qstate, timers, handle, tasks, at>>
           ELSE Arrive(Task(kind, 0))
    /\ UNCHANGED <<printer, added, starts, held>>

\* The printer and its users.
Printer ==
    /\ \/ printer = "printing" /\ printer' \in {"complete", "aborted", "paused"}
       \/ printer = "paused" /\ printer' \in {"printing", "aborted"}
       \/ CanPrint /\ printer' = "printing"
    /\ UNCHANGED <<jobs, qstate, timers, handle, tasks, at, seen, added,
                   starts, held>>

Next ==
    \/ Run \/ StartChecked \/ PopChecked \/ TransitionDone \/ Started \/ StartFails
    \/ \E tm \in timers : TimerDue(tm) \/ PopCalled(tm)
    \/ \E k \in Requests : Request(k) \/ PauseQueue(k)
    \/ StartQueue \/ KlippyReady \/ StatusUpdate \/ Printer

Spec == Init /\ [][Next]_vars

-----------------------------------------------------------------------------
(* Fairness: the event loop runs what is due, and Klipper answers.         *)

FairSpec ==
    /\ Spec
    /\ WF_vars(Run)
    /\ WF_vars(StartChecked \/ PopChecked \/ TransitionDone \/ Started \/ StartFails)
    /\ \A tm \in Timers : WF_vars(TimerDue(tm) \/ PopCalled(tm))
    /\ SF_vars(StatusUpdate)

-----------------------------------------------------------------------------
(* Properties.                                                             *)

\* Every variable has its type, and the handle is that of a scheduled call.
TypeOK ==
    /\ jobs \in Seq(1..added) /\ added \in 0..MaxJobs
    /\ qstate \in {"ready", "paused", "loading", "starting"}
    /\ timers \subseteq Timers /\ handle \in TimerIds \cup {0}
    /\ handle # 0 => \E tm \in timers : tm.id = handle
    /\ tasks \in Seq([kind : AllRequests \cup {"pop", "complete", "abort"},
                      arg : 0..MaxJobs])
    /\ at \in {"begin", "check", "transition", "start"}
    /\ at # "begin" => tasks # << >>
    /\ printer \in {"standby", "printing", "paused", "complete", "aborted"}
    /\ seen \in {"standby", "printing", "paused", "complete", "aborted"}
    /\ starts \in [Jobs -> Nat] /\ held \in BOOLEAN

\* A queue that says "loading" has a call of _pop_job under way or scheduled
\* (job_queue.py:79-81, 98-100, 218-221): otherwise it would neither load a
\* job nor let start_queue load one.
LoadingArmed ==
    qstate = "loading" =>
        timers # {} \/ \E i \in DOMAIN tasks : tasks[i].kind = "pop"

\* No job is started twice, and one that was started is not in the queue,
\* although timers that were not cancelled let several calls of _pop_job run
\* (job_queue.py:110-145).
JobsOnce ==
    /\ \A j \in Jobs : starts[j] <= 1
    /\ \A i \in DOMAIN jobs : starts[jobs[i]] = 0
    /\ \A i, k \in DOMAIN jobs : jobs[i] = jobs[k] => i = k

\* A queue that loads gets on with it, and starts no job twice, however its
\* timers, requests and the reports of the printer interleave
\* (job_queue.py:72-223).
QueueRight == TypeOK /\ LoadingArmed /\ JobsOnce

\* After pause_queue has returned no job is started before start_queue is
\* called again (job_queue.py:202-210).
PausedQueueStays == [][\A j \in Jobs : starts'[j] > starts[j] => ~held]_vars

\* The queue does not load forever (job_queue.py:110-145).
LoadingEnds == qstate = "loading" ~> qstate # "loading"

\* When a print is complete an automatic queue that is ready loads its next
\* job, unless the queue or the printer is changed first (job_queue.py:83-100).
NextJobLoads ==
    (qstate = "ready" /\ jobs # << >> /\ printer = "complete" /\ seen = "printing")
        ~> (qstate # "ready" \/ jobs = << >> \/ printer # "complete")

\* The queue goes on by itself: it does not load forever, and loads the next job
\* when one is complete (job_queue.py:83-145).
QueueGoesOn == LoadingEnds /\ NextJobLoads
=============================================================================
