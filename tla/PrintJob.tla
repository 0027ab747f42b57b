------------------------------ MODULE PrintJob ------------------------------
(***************************************************************************)
(* A print from the virtual SD card: klippy/extras/virtual_sdcard.py,      *)
(* print_stats.py, pause_resume.py, power_loss_recover.py (the command     *)
(* RESUME_INTERRUPTED), the gcode mutex (klippy/gcode.py) and the macros   *)
(* of printer.cfg that wrap the commands.                                  *)
(*                                                                         *)
(* Everything runs in greenlets of one reactor, so code between two pauses *)
(* is one step.  The greenlets are the worker (work_handler), one per      *)
(* client that sends commands, and the END_PRINT macros still running: the *)
(* worker runs END_PRINT without the mutex, after it has given work_timer  *)
(* back, so a new worker may start meanwhile.  A command of a client runs  *)
(* with the gcode mutex; the worker takes it for each line of the file.    *)
(*                                                                         *)
(* A line stands for its text by its number.  file_position, the offset of *)
(* the open file and file_size are counted in lines.  work_timer is not    *)
(* None exactly when the worker is active, and pause_command_sent equals   *)
(* is_paused in every state (the sensor of the T1 does not call            *)
(* send_pause_command), so neither has a variable.                         *)
(***************************************************************************)
EXTENDS Integers, Sequences

CONSTANTS
    Clients,    \* greenlets that send commands
    Commands,   \* the commands they send
    Events,     \* what lines, reads, sensors and macros may do
    FileLen,    \* lines of a file
    Chunk,      \* lines that one read returns (8192 bytes)
    MaxEnding   \* bound of the model: no worker starts while as many END_PRINT
                \* macros are running

AllCommands == {"PRINT", "M23", "M24", "M25", "M26", "RESET", "PAUSE", "RESUME",
                "CANCEL", "CLEAR_PAUSE", "RESUME_INTERRUPTED"}
AllEvents   == {"pause_line", "cancel_line", "error_line", "over_line",
                "read_error", "slow_read", "runout", "start_fails",
                "open_fails", "f102_fails"}

ASSUME ParametersAssumption ==
    /\ Commands \subseteq AllCommands
    /\ Events \subseteq AllEvents
    /\ FileLen \in Nat /\ Chunk \in Nat \ {0} /\ MaxEnding \in Nat \ {0}
    /\ Clients \cap {"free", "sd"} = {}

VARIABLES
    \* VirtualSD
    file,           \* current_file: "none" or "open"
    pos,            \* file_position
    offset,         \* where the open file is read next
    buf,            \* lines of work_handler: read, not finished
    checked,        \* has_pre_check
    must_pause,     \* must_pause_work
    from_sd,        \* cmd_from_sd
    restart,        \* power_loss_restart
    worker,         \* where work_handler is, "none" when work_timer is None;
                    \* in "loop" it is running, everywhere else it waits
    ending,         \* END_PRINT macros that are still running
    \* PrintStats: state, and whether print_start_time is set
    stats,
    \* PauseResume
    is_paused, sd_paused,
    \* the gcode mutex, and the command of the client that holds it
    owner, waiting, cmd, phase,
    \* the variable was_interrupted that SAVE_VARIABLE stores
    was_interrupted,
    shutdown,       \* an exception that no handler expects ended the session
    over,           \* history: an "exclude_object over" has happened
    reached         \* history: the line executed last

sdVars    == <<file, pos, offset, buf, checked, must_pause, from_sd, restart>>
pauseVars == <<is_paused, sd_paused>>
mutexVars == <<owner, waiting, cmd, phase>>
vars      == <<sdVars, worker, ending, stats, pauseVars, mutexVars,
               was_interrupted, shutdown, over, reached>>

Active == worker # "none"

Init ==
    /\ file = "none" /\ pos = 0 /\ offset = 0 /\ buf = << >>
    /\ checked = FALSE /\ must_pause = FALSE /\ from_sd = FALSE
    /\ restart = FALSE /\ worker = "none" /\ ending = 0
    /\ stats = [state |-> "standby", started |-> FALSE]
    /\ is_paused = FALSE /\ sd_paused = FALSE
    /\ owner = "free" /\ waiting = << >> /\ phase = "render"
    /\ cmd = [c \in Clients |-> "none"]
    /\ was_interrupted = FALSE /\ shutdown = FALSE /\ over = FALSE
    /\ reached = 0

-----------------------------------------------------------------------------
(* print_stats.                                                            *)

NoteStart == [state |-> "printing", started |-> TRUE]
NoteReset == [state |-> "standby", started |-> FALSE]

NotePause == [stats EXCEPT !.state = IF @ = "error" THEN @ ELSE "paused"]

\* Mutant of NoteFinish: print_start_time is not looked at.
FinishesAlways(st) == [state |-> st, started |-> FALSE]

NoteFinish(st) == IF stats.started THEN [state |-> st, started |-> FALSE]
                                   ELSE stats

-----------------------------------------------------------------------------
(* The gcode mutex.  A greenlet that unlocks hands over to the first in    *)
(* line; one that locks goes on at once when nobody has it.                *)

Lock(p) ==
    IF owner = "free"
    THEN owner' = p /\ UNCHANGED waiting
    ELSE waiting' = Append(waiting, p) /\ UNCHANGED owner

Unlock ==
    /\ phase' = "render"
    /\ IF waiting = << >>
       THEN owner' = "free" /\ UNCHANGED waiting
       ELSE owner' = Head(waiting) /\ waiting' = Tail(waiting)

\* The worker ends a script and asks for the mutex again at once.
Relock ==
    /\ phase' = "render"
    /\ owner'   = IF waiting = << >> THEN "sd" ELSE Head(waiting)
    /\ waiting' = IF waiting = << >> THEN << >> ELSE Append(Tail(waiting), "sd")

-----------------------------------------------------------------------------
(* work_handler.                                                           *)

\* Mutant of RunsEndPrint: every print that stops is taken for a finished one.
EndsEvery(error, file_left) == TRUE

RunsEndPrint(error, file_left) == ~error /\ file_left = "none"

\* Lines 464 to 474: how the worker leaves, with an error message or not.
\* What END_PRINT does before its first pause belongs to the step.
Exit(error, file_left) ==
    /\ worker' = "none"
    /\ from_sd' = FALSE
    /\ file' = file_left
    /\ buf' = << >>
    /\ IF RunsEndPrint(error, file_left)
       THEN ending' = ending + 1 /\ was_interrupted' = FALSE
       ELSE UNCHANGED <<ending, was_interrupted>>
    /\ stats' = CASE error -> NoteFinish("error")
                  [] ~error /\ file_left = "open" -> NotePause
                  [] ~error /\ file_left = "none" -> NoteFinish("complete")

\* The timer runs work_handler for the first time.
WorkStart ==
    /\ worker = "scheduled"
    /\ ending < MaxEnding
    /\ IF file = "none"
       THEN /\ worker' = "none"             \* seek fails
            /\ restart' = FALSE
            /\ UNCHANGED <<offset, buf, checked, stats, owner, waiting>>
       ELSE /\ offset' = pos
            /\ buf' = << >>
            /\ checked' = FALSE
            /\ stats' = NoteStart
            /\ restart' = FALSE
            /\ IF restart THEN worker' = "f102" /\ Lock("sd")
                          ELSE worker' = "loop" /\ UNCHANGED <<owner, waiting>>
    /\ UNCHANGED <<file, pos, must_pause, from_sd, ending, pauseVars, cmd,
                   phase, was_interrupted, shutdown, over, reached>>

\* F102 brings the printer back to where the power was lost; it ends with
\* CLEAR_PAUSE.
F102Done ==
    /\ worker = "f102" /\ owner = "sd"
    /\ worker' = "loop"
    /\ is_paused' = FALSE
    /\ Unlock
    /\ UNCHANGED <<sdVars, ending, stats, sd_paused, cmd, was_interrupted,
                   shutdown, over, reached>>

F102Fails ==
    /\ "f102_fails" \in Events
    /\ worker = "f102" /\ owner = "sd"
    /\ worker' = "none"
    /\ stats' = NoteFinish("error")
    /\ Unlock
    /\ UNCHANGED <<sdVars, ending, pauseVars, cmd, was_interrupted, shutdown, over,
                   reached>>

\* "while not self.must_pause_work" ends the loop; otherwise the worker
\* pauses when another greenlet has the mutex, and is called again later.
WorkStop ==
    /\ worker = "loop" /\ must_pause
    /\ Exit(FALSE, file)
    /\ UNCHANGED <<pos, offset, checked, must_pause, restart, pauseVars,
                   mutexVars, shutdown, over, reached>>

WorkYield ==
    /\ worker = "loop" /\ ~must_pause /\ buf # << >> /\ owner # "free"
    /\ worker' = "yield"
    /\ UNCHANGED <<sdVars, ending, stats, pauseVars, mutexVars,
                   was_interrupted, shutdown, over, reached>>

WorkWake ==
    /\ worker = "yield"
    /\ worker' = "loop"
    /\ UNCHANGED <<sdVars, ending, stats, pauseVars, mutexVars,
                   was_interrupted, shutdown, over, reached>>

CanRead == \/ worker = "loop" /\ ~must_pause /\ buf = << >>
           \/ worker = "reading"

\* The reading thread takes its time and _read_data pauses.
ReadSlowly ==
    /\ "slow_read" \in Events
    /\ worker = "loop" /\ ~must_pause /\ buf = << >>
    /\ worker' = "reading"
    /\ UNCHANGED <<sdVars, ending, stats, pauseVars, mutexVars,
                   was_interrupted, shutdown, over, reached>>

ChunkEnd == IF offset + Chunk < FileLen THEN offset + Chunk ELSE FileLen

ReadChunk ==
    /\ CanRead /\ file = "open" /\ offset < FileLen
    /\ worker' = "yield"
    /\ LET last == ChunkEnd
       IN  /\ buf' = [i \in 1..(last - offset) |-> offset + i]
           /\ offset' = last
    /\ UNCHANGED <<file, pos, checked, must_pause, from_sd, restart, ending,
                   stats, pauseVars, mutexVars, was_interrupted, shutdown, over,
                   reached>>

\* End of file.  must_pause_work is not looked at again.
ReadEnd ==
    /\ CanRead /\ file = "open" /\ offset >= FileLen
    /\ Exit(FALSE, "none")
    /\ UNCHANGED <<pos, offset, checked, must_pause, restart, pauseVars,
                   mutexVars, shutdown, over, reached>>

\* The read fails, or finds the file closed: on_error_gcode.
ReadFails ==
    /\ CanRead /\ ("read_error" \in Events \/ file = "none")
    /\ worker' = "on_error"
    /\ Lock("sd")
    /\ UNCHANGED <<sdVars, ending, stats, pauseVars, cmd, phase,
                   was_interrupted, shutdown, over, reached>>

\* The mutex is free: the worker takes it for a line.  The first time it asks
\* the filament sensor first, and runs PAUSE when there is none.
StartLine ==
    /\ worker = "loop" /\ ~must_pause /\ buf # << >> /\ owner = "free"
    /\ owner' = "sd"
    /\ from_sd' = TRUE
    /\ checked' = TRUE
    /\ \/ worker' = "line"
       \/ worker' = "runout" /\ ~checked /\ "runout" \in Events
    /\ UNCHANGED <<file, pos, offset, buf, must_pause, restart, ending, stats,
                   pauseVars, waiting, cmd, phase, was_interrupted, shutdown, over,
                   reached>>

\* Mutant of NextPosition: the position stays at the line.
StaysAtLine == pos

NextPosition == pos + 1

\* A line was executed: file_position moves on.
FinishLine ==
    /\ worker = "line" /\ owner = "sd"
    /\ worker' = "loop"
    /\ from_sd' = FALSE
    /\ pos' = NextPosition
    /\ buf' = Tail(buf)
    /\ reached' = Head(buf)
    /\ Unlock
    /\ UNCHANGED <<offset, checked, restart, ending, cmd, shutdown, over>>

LineRuns ==
    /\ FinishLine
    /\ UNCHANGED <<file, must_pause, stats, pauseVars, was_interrupted>>

\* Mutant of PauseFromFile: the print is marked as paused and goes on.
OnlyMarks ==
    IF stats.state = "printing" /\ ~is_paused
    THEN sd_paused' = TRUE /\ is_paused' = TRUE /\ UNCHANGED must_pause
    ELSE UNCHANGED <<must_pause, sd_paused, is_paused>>

\* PAUSE or the sensor's PAUSE from inside the file: do_pause does not wait.
PauseFromFile ==
    IF stats.state = "printing" /\ ~is_paused
    THEN must_pause' = TRUE /\ sd_paused' = TRUE /\ is_paused' = TRUE
    ELSE UNCHANGED <<must_pause, sd_paused, is_paused>>

LinePauses ==
    /\ "pause_line" \in Events
    /\ FinishLine
    /\ PauseFromFile
    /\ UNCHANGED <<file, stats, was_interrupted>>

\* CANCEL_PRINT from inside the file; file_position is set to 0 and then to
\* the end of the line.
LineCancels ==
    /\ "cancel_line" \in Events
    /\ FinishLine
    /\ file' = "none"
    /\ must_pause' = (must_pause \/ file = "open")
    /\ stats' = IF file = "open" THEN NoteFinish("cancelled") ELSE stats
    /\ is_paused' = FALSE
    /\ was_interrupted' = FALSE
    /\ UNCHANGED sd_paused

\* A line raises an error: on_error_gcode, once the mutex is free.
LineFails ==
    /\ "error_line" \in Events
    /\ worker = "line" /\ owner = "sd"
    /\ worker' = "on_error"
    /\ Relock
    /\ UNCHANGED <<sdVars, ending, stats, pauseVars, cmd, was_interrupted,
                   shutdown, over, reached>>

OnErrorDone ==
    /\ worker = "on_error" /\ owner = "sd"
    /\ Exit(TRUE, file)
    /\ Unlock
    /\ UNCHANGED <<pos, offset, checked, must_pause, restart, pauseVars, cmd,
                   shutdown, over, reached>>

\* "exclude_object over": the position is the end of the file, the end gcode
\* is run, and the loop goes on with cmd_from_sd and the lines as they are.
LineOver ==
    /\ "over_line" \in Events
    /\ worker = "line" /\ owner = "sd"
    /\ worker' = "over"
    /\ over' = TRUE
    /\ pos' = FileLen
    /\ buf' = Tail(buf)
    /\ Relock
    /\ UNCHANGED <<file, offset, checked, must_pause, from_sd, restart, ending,
                   stats, pauseVars, cmd, was_interrupted, shutdown, reached>>

\* current_file.seek is outside of any handler for other exceptions.
OverDone ==
    /\ worker = "over" /\ owner = "sd"
    /\ IF file = "open"
       THEN worker' = "loop" /\ offset' = pos /\ UNCHANGED shutdown
       ELSE shutdown' = TRUE /\ worker' = "crashed" /\ UNCHANGED offset
    /\ Unlock
    /\ UNCHANGED <<file, pos, buf, checked, must_pause, from_sd, restart,
                   ending, stats, pauseVars, cmd, was_interrupted, over, reached>>

\* check_to_pause: the line is not executed.
RunoutDone ==
    /\ worker = "runout" /\ owner = "sd"
    /\ PauseFromFile
    /\ Exit(FALSE, file)
    /\ Unlock
    /\ UNCHANGED <<pos, offset, checked, restart, cmd, shutdown, over, reached>>

\* The rest of END_PRINT: the box fan and the extruder are switched off and
\* the heat sink fan is told to stop 100 seconds later.
EndPrintDone ==
    /\ worker # "loop"
    /\ ending > 0
    /\ ending' = ending - 1
    /\ UNCHANGED <<sdVars, worker, stats, pauseVars, mutexVars,
                   was_interrupted, shutdown, over, reached>>

Work ==
    \/ WorkStart \/ F102Done \/ F102Fails
    \/ WorkStop \/ WorkYield \/ WorkWake \/ ReadSlowly \/ ReadChunk \/ ReadEnd \/ ReadFails
    \/ StartLine \/ LineRuns \/ LinePauses \/ LineCancels
    \/ LineFails \/ OnErrorDone \/ LineOver \/ OverDone \/ RunoutDone

-----------------------------------------------------------------------------
(* The commands of the clients.                                            *)

\* Clients run while the worker waits; after a shutdown their commands are
\* not accepted any more.
ClientsRun == worker # "loop" /\ ~shutdown

\* run_script of a client.
Request(c, k) ==
    /\ ClientsRun
    /\ cmd[c] = "none"
    /\ cmd' = [cmd EXCEPT ![c] = k]
    /\ Lock(c)
    /\ UNCHANGED <<sdVars, worker, ending, stats, pauseVars, phase,
                   was_interrupted, shutdown, over, reached>>

Runs(c, k, ph) == ClientsRun /\ owner = c /\ cmd[c] = k /\ phase = ph

\* The command returns or raises an error; go on with it after a pause.
Return(c) == cmd' = [cmd EXCEPT ![c] = "none"] /\ Unlock
GoOn(ph)  == phase' = ph /\ UNCHANGED <<owner, waiting, cmd>>

\* Mutant of AskToStop: the worker is not told.
ForgetsToAsk == UNCHANGED must_pause

\* do_pause, up to its loop.
AskToStop == must_pause' = (must_pause \/ Active)

\* do_resume, for a worker that is not active.
StartWorker == must_pause' = FALSE /\ worker' = "scheduled"

\* What a command does that only answers: "SD busy", a macro that looks at
\* the wrong state, an error.
Refuse(c) ==
    /\ Return(c)
    /\ UNCHANGED <<sdVars, worker, ending, stats, pauseVars, was_interrupted,
                   shutdown, over, reached>>

\* SDCARD_PRINT_FILE and M23 up to START_PRINT, which itself ends with G28.
Load(c, k) ==
    /\ Runs(c, k, "render")
    /\ ~Active
    /\ pos' = 0
    /\ stats' = NoteReset
    /\ reached' = 0
    /\ \/ /\ file' = "open"
          /\ restart' = FALSE
          /\ was_interrupted' = TRUE
          /\ is_paused' = FALSE
          /\ GoOn("start")
       \/ /\ "open_fails" \in Events
          /\ file' = "none"
          /\ Return(c)
          /\ UNCHANGED <<restart, was_interrupted, is_paused>>
    /\ UNCHANGED <<offset, buf, checked, must_pause, from_sd, worker, ending,
                   sd_paused, shutdown, over>>

\* START_PRINT is done, or fails (G28 raises an error): do_resume follows.
Started(c, k) ==
    /\ Runs(c, k, "start")
    /\ Return(c)
    /\ \/ /\ IF k = "M23" \/ Active THEN UNCHANGED <<must_pause, worker>>
                                    ELSE StartWorker
       \/ "start_fails" \in Events /\ UNCHANGED <<must_pause, worker>>
    /\ UNCHANGED <<file, pos, offset, buf, checked, from_sd, restart, ending,
                   stats, pauseVars, was_interrupted, shutdown, over, reached>>

\* RESUME_INTERRUPTED: recover_print with the stored position, which may be 0.
Recover(c, p) ==
    /\ Runs(c, "RESUME_INTERRUPTED", "render")
    /\ stats.state # "printing"
    /\ file' = "open"
    /\ pos' = p
    /\ stats' = NoteReset
    /\ reached' = p
    /\ restart' = (p # 0)
    /\ IF p = 0
       THEN /\ was_interrupted' = TRUE
            /\ is_paused' = FALSE
            /\ GoOn("start")
            /\ UNCHANGED <<must_pause, worker>>
       ELSE /\ Return(c)
            /\ IF Active THEN UNCHANGED <<must_pause, worker>> ELSE StartWorker
            /\ UNCHANGED <<was_interrupted, is_paused>>
    /\ UNCHANGED <<offset, buf, checked, from_sd, ending, sd_paused, shutdown, over>>

\* M24.
Continue(c) ==
    /\ Runs(c, "M24", "render")
    /\ ~Active
    /\ StartWorker
    /\ Return(c)
    /\ UNCHANGED <<file, pos, offset, buf, checked, from_sd, restart, ending,
                   stats, pauseVars, was_interrupted, shutdown, over, reached>>

\* M26.
SetPosition(c, p) ==
    /\ Runs(c, "M26", "render")
    /\ ~Active
    /\ pos' = p
    /\ Return(c)
    /\ UNCHANGED <<file, offset, buf, checked, must_pause, from_sd, restart,
                   worker, ending, stats, pauseVars, was_interrupted, shutdown, over,
                   reached>>

ClearPause(c) ==
    /\ Runs(c, "CLEAR_PAUSE", "render")
    /\ is_paused' = FALSE
    /\ Return(c)
    /\ UNCHANGED <<sdVars, worker, ending, stats, sd_paused, was_interrupted,
                   shutdown, over, reached>>

\* The macros PAUSE, RESUME and CANCEL_PRINT look at the state when they are
\* rendered and reach the command they wrap some pauses later.
Render(c) ==
    /\ \/ Runs(c, "PAUSE", "render") /\ stats.state = "printing"
       \/ Runs(c, "RESUME", "render") /\ stats.state = "paused"
       \/ Runs(c, "CANCEL", "render")
    /\ was_interrupted' = (was_interrupted /\ cmd[c] # "CANCEL")
    /\ GoOn("base")
    /\ UNCHANGED <<sdVars, worker, ending, stats, pauseVars, shutdown, over, reached>>

RefuseAny(c) ==
    /\ \/ \E k \in {"PRINT", "M23", "M24", "M26"} :
             Runs(c, k, "render") /\ Active
       \/ Runs(c, "RESUME_INTERRUPTED", "render") /\ stats.state = "printing"
       \/ Runs(c, "RESET", "render") /\ from_sd
       \/ Runs(c, "M25", "render") /\ ~Active
       \/ Runs(c, "PAUSE", "render") /\ stats.state # "printing"
       \/ Runs(c, "RESUME", "render") /\ stats.state # "paused"
       \/ Runs(c, "PAUSE", "base") /\ is_paused
       \/ Runs(c, "RESUME", "base") /\ ~is_paused
       \/ Runs(c, "RESUME", "base") /\ sd_paused /\ Active
    /\ Refuse(c)

\* PAUSE_BASE: send_pause_command, whose do_pause then waits.
PauseBase(c) ==
    /\ Runs(c, "PAUSE", "base") /\ ~is_paused
    /\ sd_paused' = Active
    /\ AskToStop
    /\ GoOn("wait")
    /\ UNCHANGED <<file, pos, offset, buf, checked, from_sd, restart, worker,
                   ending, stats, is_paused, was_interrupted, shutdown, over,
                   reached>>

\* RESUME_BASE.
ResumeBase(c) ==
    /\ Runs(c, "RESUME", "base") /\ is_paused
    /\ IF sd_paused THEN ~Active /\ StartWorker
                    ELSE UNCHANGED <<must_pause, worker>>
    /\ sd_paused' = FALSE
    /\ is_paused' = FALSE
    /\ Return(c)
    /\ UNCHANGED <<file, pos, offset, buf, checked, from_sd, restart, ending,
                   stats, was_interrupted, shutdown, over, reached>>

\* Mutant of HasFile: do_cancel and _reset_file do not ask for a file.
AssumesFile == TRUE

HasFile == file = "open"

\* CANCEL_PRINT_BASE and SDCARD_RESET_FILE stop the worker when a file is
\* open; M25 does nothing else.
Stop(c) ==
    /\ \/ /\ Runs(c, "CANCEL", "base")
          /\ Active \/ sd_paused
          /\ HasFile
       \/ Runs(c, "RESET", "render") /\ ~from_sd /\ HasFile
       \/ Runs(c, "M25", "render") /\ Active
    /\ AskToStop
    /\ GoOn("wait")
    /\ UNCHANGED <<file, pos, offset, buf, checked, from_sd, restart, worker,
                   ending, stats, pauseVars, was_interrupted, shutdown, over,
                   reached>>

\* There is no file to close, or no print that CANCEL_PRINT_BASE knows of.
NothingToStop(c) ==
    /\ \/ /\ Runs(c, "CANCEL", "base")
          /\ Active \/ sd_paused => ~HasFile
          /\ pos' = IF Active \/ sd_paused THEN 0 ELSE pos
          /\ is_paused' = FALSE
          /\ UNCHANGED <<stats, reached>>
       \/ /\ Runs(c, "RESET", "render") /\ ~from_sd /\ ~HasFile
          /\ pos' = 0
          /\ stats' = NoteReset
          /\ reached' = 0
          /\ UNCHANGED is_paused
    /\ Return(c)
    /\ UNCHANGED <<file, offset, buf, checked, must_pause, from_sd, restart,
                   worker, ending, sd_paused, was_interrupted, shutdown, over>>

\* The loop of do_pause ends when the worker has left, or runs a command of
\* its own file.
Stopped == ~Active \/ from_sd

Paused(c) ==
    /\ Runs(c, "PAUSE", "wait") \/ Runs(c, "M25", "wait")
    /\ Stopped
    /\ is_paused' = (is_paused \/ cmd[c] = "PAUSE")
    /\ Return(c)
    /\ UNCHANGED <<sdVars, worker, ending, stats, sd_paused, was_interrupted,
                   shutdown, over, reached>>

\* The file is closed.  When the worker has closed it meanwhile, close() of
\* None is an internal error.
Cleared(c) ==
    /\ Runs(c, "CANCEL", "wait") \/ Runs(c, "RESET", "wait")
    /\ Stopped
    /\ Return(c)
    /\ IF file = "none"
       THEN /\ shutdown' = TRUE
            /\ must_pause' = (must_pause \/ Active)     \* handle_shutdown
            /\ UNCHANGED <<file, pos, stats, is_paused, reached>>
       ELSE /\ file' = "none"
            /\ pos' = 0
            /\ IF cmd[c] = "CANCEL"
               THEN /\ stats' = NoteFinish("cancelled")
                    /\ is_paused' = FALSE
                    /\ UNCHANGED reached
               ELSE /\ stats' = NoteReset
                    /\ reached' = 0
                    /\ UNCHANGED is_paused
            /\ UNCHANGED <<shutdown, must_pause>>
    /\ UNCHANGED <<offset, buf, checked, from_sd, restart, worker, ending,
                   sd_paused, was_interrupted, over>>

Command(c) ==
    \/ \E k \in {"PRINT", "M23"} : Load(c, k)
    \/ \E k \in {"PRINT", "M23", "RESUME_INTERRUPTED"} : Started(c, k)
    \/ \E p \in 0..FileLen : Recover(c, p) \/ SetPosition(c, p)
    \/ Continue(c) \/ ClearPause(c) \/ Render(c) \/ RefuseAny(c)
    \/ PauseBase(c) \/ ResumeBase(c) \/ Stop(c) \/ NothingToStop(c)
    \/ Paused(c) \/ Cleared(c)

Next ==
    \/ Work
    \/ EndPrintDone
    \/ \E c \in Clients, k \in Commands : Request(c, k)
    \/ \E c \in Clients : Command(c)

Spec == Init /\ [][Next]_vars

-----------------------------------------------------------------------------
(* Fairness: the reactor calls every greenlet whose time has come, and a   *)
(* command, a read and a macro come to an end.  It is strong for all but   *)
(* the worker, because the worker, which gives way for 0.1 s at a time     *)
(* while another greenlet has the mutex, disables their steps whenever it  *)
(* runs; what the others wait for is not undone meanwhile.                 *)

FairSpec ==
    /\ Spec
    /\ WF_vars(Work)
    /\ SF_vars(EndPrintDone)
    /\ \A c \in Clients : SF_vars(Command(c))

-----------------------------------------------------------------------------
(* Properties.                                                             *)

\* Every variable has its type.
TypeOK ==
    /\ file \in {"none", "open"}
    /\ pos \in Nat /\ offset \in Nat /\ reached \in Nat
    /\ buf \in Seq(1..FileLen)
    /\ checked \in BOOLEAN /\ must_pause \in BOOLEAN /\ from_sd \in BOOLEAN
    /\ restart \in BOOLEAN
    /\ worker \in {"none", "scheduled", "f102", "loop", "yield", "reading",
                   "line", "on_error", "over", "runout", "crashed"}
    /\ ending \in 0..MaxEnding
    /\ stats \in [state : {"standby", "printing", "paused", "complete",
                           "cancelled", "error"}, started : BOOLEAN]
    /\ is_paused \in BOOLEAN /\ sd_paused \in BOOLEAN
    /\ owner \in Clients \cup {"free", "sd"}
    /\ waiting \in Seq(Clients \cup {"sd"})
    /\ cmd \in [Clients -> Commands \cup {"none"}]
    /\ phase \in {"render", "start", "base", "wait"}
    /\ was_interrupted \in BOOLEAN /\ shutdown \in BOOLEAN /\ over \in BOOLEAN

\* The greenlets that have a command, or want to run a script for the worker,
\* are exactly the one that holds the mutex and those queued for it, each
\* once: nobody is forgotten in the queue and nobody runs beside the holder
\* (ReactorMutex, run_script).
MutexConsistent ==
    /\ owner = "free" => waiting = << >>
    /\ \A i, j \in DOMAIN waiting :
          waiting[i] # owner /\ (i # j => waiting[i] # waiting[j])
    /\ \A c \in Clients :
          cmd[c] # "none" <=> owner = c \/ \E i \in DOMAIN waiting : waiting[i] = c
    /\ worker \in {"f102", "line", "runout", "on_error", "over"}
          <=> owner = "sd" \/ \E i \in DOMAIN waiting : waiting[i] = "sd"

\* file_position names the line the worker executes next, so a print that is
\* paused, fails or loses power goes on with the right line, until a print
\* whose objects are all excluded leaves lines in the buffer.
PositionTracks ==
    ~over /\ worker \in {"loop", "yield", "reading", "line", "runout"} =>
       IF buf = << >> THEN offset = pos ELSE Head(buf) = pos + 1

\* "printing" is shown only while the worker is active, and the worker
\* executes lines in no other state (work_handler, print_stats.py).
StateShowsWorker ==
    ~over => /\ stats.state = "printing" => Active
             /\ worker \in {"line", "runout", "reading"} => stats.state = "printing"

\* Nobody closes the file under a worker that may still use it.
FileHeld ==
    ~over /\ worker \in {"yield", "reading", "line", "runout"} => file = "open"

\* The worker, the mutex, the file and the state that is shown agree in every
\* moment, however the commands and the lines of the file interleave.
WorkerRight ==
    TypeOK /\ MutexConsistent /\ PositionTracks /\ StateShowsWorker /\ FileHeld

\* After PAUSE has returned, no line is executed before the print is resumed
\* (cmd_PAUSE, do_pause): neither a line in flight nor one of the buffer.
PauseHolds == [][worker' = "line" /\ worker # "line" => ~is_paused]_vars

\* While a file is printed the stored variable says that a power loss
\* interrupts a print (START_PRINT, END_PRINT, CANCEL_PRINT).
Recoverable == worker = "line" => was_interrupted

\* No command and no step of the worker meets an exception that is taken for
\* an internal error.
NoInternalError == ~shutdown

\* A command returns in the end.
CommandsReturn == \A c \in Clients : cmd[c] # "none" ~> cmd[c] = "none"

\* CANCEL_PRINT returns in the end, and so cancels the print.
CancelReturns == \A c \in Clients : cmd[c] = "CANCEL" ~> cmd[c] # "CANCEL"

\* What print_stats shows of a print is what PrintContract promises.
Contract == INSTANCE PrintContract WITH state <- stats.state
ImplementsContract == Contract!PSpec
=============================================================================
