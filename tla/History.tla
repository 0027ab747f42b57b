------------------------------ MODULE History -------------------------------
(***************************************************************************)
(* The history of jobs that Moonraker keeps (history.py), fed by the       *)
(* events that job_state.py makes of what Klipper reports of a print       *)
(* (print_stats.py).                                                       *)
(*                                                                         *)
(* Klipper reports once in a period; what changes within a period and      *)
(* changes back is not seen.  A duration is a number of periods.  A job id *)
(* is its number, and a record has the number of the print it was made for *)
(* besides its status; durations and metadata are not stored here.         *)
(***************************************************************************)
EXTENDS Integers, Sequences, SequencesExt, SortedSets, Functions

CONSTANTS
    Files, NoFile,          \* names of files; ""
    MaxStored,              \* MAX_JOBS
    \* bounds of the model: prints, the length of a print, and requests and
    \* restarts of either program together
    MaxPrints, MaxPeriods, MaxEvents

ASSUME HistoryAssumption ==
    /\ NoFile \notin Files /\ MaxStored \in Nat \ {0}
    /\ {MaxPrints, MaxPeriods, MaxEvents} \subseteq Nat

VARIABLES
    stats,          \* Klipper's print_stats
    link,           \* the connection to Klipper: "none", "ready", "shutdown"
    lastStats,      \* last_print_stats
    currentJob,     \* current_job and current_job_id
    nextJobId, cachedIds,
    stored,         \* the namespace in the database
    listing,        \* the request for a list that is under way
    \* history variables
    outcome,        \* how each print ended
    missed,         \* a print began while the one before was seen printing, or was
                    \* paused or ended before it was seen
    shifted,        \* an old job was removed during the request for a list
    torn,           \* ids of jobs that were deleted, or under way in a crash,
                    \* while they were the current one
    restarted,      \* either program was restarted
    events

historyVars == <<stats, link, lastStats, currentJob, nextJobId, cachedIds, stored,
                 listing, outcome, missed, shifted, torn, restarted, events>>
storeVars == <<nextJobId, cachedIds, stored>>
boundVars == <<restarted, events>>

Counted == events < MaxEvents /\ events' = events + 1

Reset == [state |-> "standby", file |-> NoFile, duration |-> 0, print |-> 0]
NoStats == [Reset EXCEPT !.state = "unknown"]
NoJob == [id |-> -1]
NoListing == [order |-> "none"]

\* Moonraker has connected to Klipper, which does not print.
HistoryInit ==
    /\ stats = Reset /\ link = "ready" /\ lastStats = Reset /\ currentJob = NoJob
    /\ nextJobId = 0 /\ cachedIds = << >> /\ stored = << >> /\ listing = NoListing
    /\ outcome = << >> /\ missed = FALSE /\ shifted = FALSE /\ torn = {}
    /\ restarted = FALSE /\ events = 0

-----------------------------------------------------------------------------
(* Klipper.                                                                *)

moonrakerVars == <<link, lastStats, currentJob, storeVars, listing, shifted, torn>>

\* A print of file f begins, with note_start in work_handler; the state standby
\* after set_current_file looks like the one after a reset.
Begin(f) ==
    /\ Len(outcome) < MaxPrints
    /\ stats' = [state |-> "printing", file |-> f, duration |-> 0, print |-> Len(outcome) + 1]
    /\ outcome' = Append(outcome, "none")
    /\ missed' = (missed \/ lastStats.state = "printing")

\* SDCARD_PRINT_FILE: refused while a file is being printed.
PrintFile(f) ==
    /\ link # "shutdown" /\ stats.state # "printing" /\ Begin(f)
    /\ UNCHANGED <<moonrakerVars, boundVars>>

\* note_start of a print that was paused, or with M24 of a file that failed.
NoteStart ==
    /\ link # "shutdown"
    /\ \/ /\ stats.state = "paused" /\ stats' = [stats EXCEPT !.state = "printing"]
          /\ UNCHANGED <<outcome, missed>>
       \/ stats.state = "error" /\ Begin(stats.file)
    /\ UNCHANGED <<moonrakerVars, boundVars>>

\* print_start_time is set.
Running(ps) == ps.state \in {"printing", "paused"}

StartUnseen == lastStats.print # stats.print

NotePause ==
    /\ stats.state = "printing" /\ stats' = [stats EXCEPT !.state = "paused"]
    /\ missed' = (missed \/ StartUnseen)
    /\ UNCHANGED <<moonrakerVars, outcome, boundVars>>

\* _note_finish: a file is complete or fails while it is printed, and can be
\* cancelled while it is paused.  No command is taken after a shutdown.
NoteFinish(state) ==
    /\ Running(stats)
    /\ state = "cancelled" => link # "shutdown"
    /\ state \in {"complete", "error"} => stats.state = "printing"
    /\ stats' = [stats EXCEPT !.state = state]
    /\ outcome' = [outcome EXCEPT ![stats.print] = state]
    /\ missed' = (missed \/ StartUnseen)
    /\ UNCHANGED <<moonrakerVars, boundVars>>

\* SDCARD_RESET_FILE.
ResetFile ==
    /\ link # "shutdown" /\ stats.state # "printing" /\ stats # Reset /\ stats' = Reset
    /\ UNCHANGED <<moonrakerVars, outcome, missed, boundVars>>

-----------------------------------------------------------------------------
(* Jobs.                                                                   *)

\* The namespace after an insert.
Inserted(records, id, record) ==
    [i \in DOMAIN records \cup {id} |-> IF i = id THEN record ELSE records[i]]

\* save_current_job after current_job.finish(status).
Finished(status) ==
    IF currentJob = NoJob THEN stored
    ELSE Inserted(stored, currentJob.id, [status |-> status, print |-> currentJob.print])

FinishJob(status) ==
    /\ stored' = Finished(status) /\ currentJob' = NoJob
    /\ UNCHANGED <<nextJobId, cachedIds, shifted>>

\* delete_job on the namespace.
Without(records, id) == Restrict(records, DOMAIN records \ {id})

\* add_job, with what the namespace has by then.
AddJob(print, records) ==
    LET full == Len(cachedIds) >= MaxStored
    IN  /\ currentJob' = [id |-> nextJobId, print |-> print]
        /\ stored' = Inserted(IF full THEN Without(records, cachedIds[1]) ELSE records,
                         nextJobId, [status |-> "in_progress", print |-> print])
        /\ cachedIds' = Append(IF full THEN Tail(cachedIds) ELSE cachedIds, nextJobId)
        /\ nextJobId' = nextJobId + 1
        /\ shifted' = (shifted \/ (full /\ listing # NoListing))

\* Mutant of CheckResumed: every start of a paused file resumes it.
AnyResumes(prev, new) == prev.state = "paused" /\ prev.file = new.file

\* _check_resumed.
CheckResumed(prev, new) ==
    prev.state = "paused" /\ prev.file = new.file /\ prev.duration < new.duration

\* The event that _status_update of job_state.py sends.
JobEvent(prev, new) ==
    IF new.state = prev.state THEN "none"
    ELSE IF new.state # "printing" THEN new.state
    ELSE IF CheckResumed(prev, new) THEN "resumed" ELSE "started"

\* The handlers of history.py.
HandleEvent(event, new) ==
    \/ event = "started" /\ AddJob(new.print, Finished("cancelled"))
    \/ event = "complete" /\ FinishJob("completed")
    \/ event \in {"cancelled", "error"} /\ FinishJob(event)
    \/ event = "standby" /\ FinishJob("cancelled")
    \/ event \in {"none", "paused", "resumed"} /\ UNCHANGED <<currentJob, storeVars, shifted>>

\* What Klipper sends in a period, with the duration of a print that is under way.
JobStateUpdate ==
    LET new == [stats EXCEPT !.duration = IF Running(stats) THEN @ + 1 ELSE @]
    IN  /\ link # "none" /\ new.duration <= MaxPeriods /\ new # lastStats
        /\ stats' = new /\ lastStats' = new
        /\ HandleEvent(JobEvent(lastStats, new), new)
        /\ UNCHANGED <<link, listing, outcome, missed, torn, boundVars>>

-----------------------------------------------------------------------------
(* The connection to Klipper and the process of Moonraker.                 *)

\* _handle_started: the reply to the subscription has all values.
HandleStarted ==
    /\ link = "none" /\ link' = "ready" /\ lastStats' = stats
    /\ UNCHANGED <<stats, currentJob, storeVars, listing, outcome, missed, shifted, torn,
                   boundVars>>

HandleShutdown ==
    /\ link = "ready" /\ link' = "shutdown" /\ FinishJob("klippy_shutdown")
    /\ UNCHANGED <<stats, lastStats, listing, outcome, missed, torn, boundVars>>

\* Klipper restarts, or only the connection is lost.
HandleDisconnect(klipperEnds) ==
    /\ link # "none" /\ Counted /\ restarted' = TRUE
    /\ link = "shutdown" => klipperEnds
    /\ link' = "none" /\ FinishJob("klippy_disconnect")
    /\ stats' = IF klipperEnds THEN Reset ELSE stats
    /\ outcome' = IF klipperEnds /\ Running(stats)
                  THEN [outcome EXCEPT ![stats.print] = "error"] ELSE outcome
    /\ UNCHANGED <<lastStats, listing, missed, torn>>

\* Moonraker is ended (on_exit), or it dies, and is started again: __init__
\* takes the ids from the keys of the namespace.
ServerRestart(dies) ==
    LET records == IF dies THEN stored ELSE Finished("server_exit")
        ids     == Sorted(DOMAIN records)    \* the database keeps keys in order
    IN  /\ Counted /\ restarted' = TRUE
        /\ stored' = records /\ cachedIds' = ids
        /\ nextJobId' = IF ids = << >> THEN 0 ELSE Last(ids) + 1
        /\ currentJob' = NoJob /\ lastStats' = NoStats
        /\ listing' = NoListing /\ shifted' = FALSE
        /\ link' = IF link = "shutdown" THEN link ELSE "none"
        /\ torn' = IF dies /\ currentJob # NoJob THEN torn \cup {currentJob.id} ELSE torn
        /\ UNCHANGED <<stats, outcome, missed>>

-----------------------------------------------------------------------------
(* Requests, one at a time under request_lock.                             *)

LockFree == listing = NoListing

TornBy(ids) == torn' = IF currentJob # NoJob /\ currentJob.id \in ids
                       THEN torn \cup {currentJob.id} ELSE torn

Place(id) == CHOOSE i \in DOMAIN cachedIds : cachedIds[i] = id

DeleteRequest(id) ==
    /\ LockFree /\ id \in ToSet(cachedIds) /\ Counted
    /\ stored' = Without(stored, id) /\ cachedIds' = RemoveAt(cachedIds, Place(id))
    /\ TornBy({id})
    /\ UNCHANGED <<stats, link, lastStats, currentJob, nextJobId, listing, outcome, missed,
                   shifted, restarted>>

DeleteAllRequest ==
    /\ LockFree /\ Counted
    /\ stored' = << >> /\ cachedIds' = << >> /\ nextJobId' = 0
    /\ TornBy(DOMAIN stored)
    /\ UNCHANGED <<stats, link, lastStats, currentJob, listing, outcome, missed, shifted,
                   restarted>>

\* _handle_jobs_list without bounds in time: the records are read one after
\* another, each with an await, by their place among the ids.
ListRequest(order) ==
    /\ LockFree /\ Counted
    /\ listing' = [order |-> order, count |-> Len(cachedIds), jobs |-> << >>,
                   ids |-> cachedIds]
    /\ UNCHANGED <<stats, link, lastStats, currentJob, storeVars, outcome, missed, shifted,
                   torn, restarted>>

\* Mutant: the place is taken from the ids of now.
NextListedNow ==
    LET i == Len(listing.jobs)
    IN  IF listing.order = "asc" THEN cachedIds[1 + i] ELSE cachedIds[Len(cachedIds) - i]

NextListed ==
    LET i == Len(listing.jobs)
    IN  IF listing.order = "asc" THEN cachedIds[1 + i] ELSE cachedIds[listing.count - i]

ListJob ==
    /\ ~LockFree /\ Len(listing.jobs) < listing.count
    /\ listing' = [listing EXCEPT !.jobs = Append(@, NextListed)]
    /\ UNCHANGED <<stats, link, lastStats, currentJob, storeVars, outcome, missed, shifted,
                   torn, boundVars>>

ListReply ==
    /\ ~LockFree /\ Len(listing.jobs) = listing.count /\ listing' = NoListing
    /\ shifted' = FALSE
    /\ UNCHANGED <<stats, link, lastStats, currentJob, storeVars, outcome, missed, torn,
                   boundVars>>

HistoryNext ==
    \/ \E f \in Files : PrintFile(f)
    \/ NoteStart \/ NotePause \/ ResetFile
    \/ \E state \in {"complete", "cancelled", "error"} : NoteFinish(state)
    \/ JobStateUpdate
    \/ HandleStarted \/ HandleShutdown
    \/ \E klipperEnds, dies \in BOOLEAN : HandleDisconnect(klipperEnds) \/ ServerRestart(dies)
    \/ \E id \in DOMAIN stored : DeleteRequest(id)
    \/ DeleteAllRequest
    \/ \E order \in {"asc", "desc"} : ListRequest(order)
    \/ ListJob \/ ListReply

HistorySpec == HistoryInit /\ [][HistoryNext]_historyVars

-----------------------------------------------------------------------------
(* Properties.                                                             *)

\* The ids in memory are those of the records in order, and the next id is a new
\* one, whatever was deleted, evicted or restarted; not so when the job under way was
\* deleted, which finish_job stores again (history.py:97-102, 319-322).
IdsAsStored ==
    torn = {} => /\ ToSet(cachedIds) = DOMAIN stored
                 /\ \A i, j \in DOMAIN cachedIds : i < j => cachedIds[i] < cachedIds[j]
                 /\ \A id \in DOMAIN stored : id < nextJobId

\* A job is in progress only while its print is followed: none is left so by the
\* end of a print, a shutdown, a lost connection or a restart, except one that
\* Moonraker died with (history.py:195-287, 359-362).
NoneLeftOver ==
    \A id \in DOMAIN stored \ torn :
        stored[id].status = "in_progress" <=> (currentJob # NoJob /\ currentJob.id = id)

\* While Klipper is ready a job is under way exactly for a print that Moonraker
\* saw starting (job_state.py:43-77).
FollowsPrint ==
    link # "none" /\ currentJob # NoJob => lastStats.state \in {"printing", "paused"}

\* A print has at most one record, however often it was paused, and the job under
\* way is that of the print that is paused now (job_state.py:79-87).
OneRecordEach ==
    /\ ~restarted => \A i, j \in DOMAIN stored : stored[i].print = stored[j].print => i = j
    /\ currentJob # NoJob /\ lastStats.state = "paused" /\ stats = lastStats /\ ~missed
          => currentJob.print = lastStats.print

\* What is recorded as completed or failed was completed or failed, unless a print
\* ended and another began between two reports (history.py:195-228).
StatusTrue ==
    ~missed =>
        \A id \in DOMAIN stored :
            LET r == stored[id]
            IN  /\ r.status = "completed" => outcome[r.print] = "complete"
                /\ r.status = "error" => outcome[r.print] = "error"

\* The history follows the prints: each has its own record, under way while it is and
\* with its true end, whatever is deleted, evicted, restarted or missed
\* (history.py:97-362, job_state.py:43-87).
HistoryRight == IdsAsStored /\ NoneLeftOver /\ FollowsPrint /\ OneRecordEach /\ StatusTrue

\* A list has every job that was there when it began, once and in order, though jobs are
\* added between the reads; not when the oldest job was removed for a new one
\* (history.py:112-169).
ListComplete ==
    ~LockFree /\ ~shifted =>
        LET all == IF listing.order = "asc" THEN listing.ids ELSE Reverse(listing.ids)
        IN  IsPrefix(listing.jobs, all)
=============================================================================
