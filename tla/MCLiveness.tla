----------------------------- MODULE MCLiveness -----------------------------
(***************************************************************************)
(* Components whose properties need fairness, for TLC: a behaviour is one  *)
(* of the component that "part" names, and the others stay as they are.    *)
(***************************************************************************)
EXTENDS Runout, Buttons, PrintTime, Session, KlippyConn, JobQueue

CONSTANTS
    Parts,                  \* the components that are checked
    \* of SaveVariables
    Names, Inodes, NoInode, QueueSize, Faults, MaxSaves, MaxSessions

VARIABLES
    part,                   \* the component that runs
    mem, queue, pc, snap, fd, session, running, file, tmp, entry, content,
    stable, saves, kept

Saves == INSTANCE SaveVariables
savesVars == <<mem, queue, pc, snap, fd, session, running, file, tmp, entry, content,
               stable, saves, kept>>

LivenessInit ==
    /\ part \in Parts
    /\ RunoutInit /\ ButtonInit /\ PrintTimeInit /\ SessionInit /\ ConnInit
    /\ Init /\ Saves!Init
    /\ part # "session" => mcuVersion = NoConfig /\ mcuDown = "no"
    /\ part # "saves" => file = CHOOSE i \in Inodes : TRUE

\* The components other than p stay as they are.
OnlyPart(p) ==
    /\ part = p /\ UNCHANGED part
    /\ p # "runout" => UNCHANGED runoutVars
    /\ p # "buttons" => UNCHANGED buttonVars
    /\ p # "printtime" => UNCHANGED printTimeVars
    /\ p # "session" => UNCHANGED sessionVars
    /\ p # "connection" => UNCHANGED connVars
    /\ p # "queue" => UNCHANGED vars
    /\ p # "saves" => UNCHANGED savesVars

LivenessNext ==
    \/ OnlyPart("runout") /\ RunoutNext
    \/ OnlyPart("buttons") /\ ButtonNext
    \/ OnlyPart("printtime") /\ PrintTimeNext
    \/ OnlyPart("session") /\ SessionNext
    \/ OnlyPart("connection") /\ ConnNext
    \/ OnlyPart("queue") /\ Next
    \/ OnlyPart("saves") /\ Saves!Next

livenessVars == <<part, runoutVars, buttonVars, printTimeVars, sessionVars, connVars, vars,
                  savesVars>>

Of(p, A) == part = p /\ A

\* The reactor goes on with what it has begun and comes to every callback and
\* greenlet in turn; the operating system runs the threads.
RunoutFair ==
    /\ SF_runoutVars(Of("runout", Callback))
    /\ SF_runoutVars(Of("runout", HandlerEnds(1)))
    /\ \A d \in Debouncers : WF_runoutVars(Of("runout", Debounce(d)))

\* The timer and the tasks of the firmware and the threads of the host run; a
\* message that is sent again and again is not lost each time.
ButtonFair ==
    /\ WF_buttonVars(Of("buttons", \E level \in {0, 1} : SamplePin(level)))
    /\ SF_buttonVars(Of("buttons", Report(FALSE)))
    /\ WF_buttonVars(Of("buttons", TakeButtonsAck))
    /\ WF_buttonVars(Of("buttons", TakeMessage))
    /\ WF_buttonVars(Of("buttons", Handle))

\* Time passes, and the reactor comes to its timers and greenlets.
PrintTimeFair ==
    /\ WF_printTimeVars(Of("printtime", Tick))
    /\ WF_printTimeVars(Of("printtime", FlushHandler))
    /\ WF_printTimeVars(Of("printtime", CheckIdle))
    /\ WF_printTimeVars(Of("printtime", CheckReady))
    /\ WF_printTimeVars(Of("printtime", StallEnds))
    /\ WF_printTimeVars(Of("printtime", WaitEnds))
    /\ WF_printTimeVars(Of("printtime", DripSegment))
    /\ WF_printTimeVars(Of("printtime", DripEnds))

\* The reactor of klippy goes on, and main with it.
SessionFairly == WF_sessionVars(Of("session", SessionStep))

\* The event loop of Moonraker runs its tasks and the reader; Klipper answers.
ConnFair ==
    /\ WF_connVars(Of("connection", TaskStep))
    /\ WF_connVars(Of("connection", Answers))
    /\ WF_connVars(Of("connection", Receive))
    /\ WF_connVars(Of("connection", WriteFails))
    /\ WF_connVars(Of("connection", Closed))

\* As in FairSpec of JobQueue: it runs what is due, and Klipper answers.
QueueFair ==
    /\ WF_vars(Of("queue", Run))
    /\ WF_vars(Of("queue", StartChecked \/ PopChecked \/ TransitionDone \/ Started
                              \/ StartFails))
    /\ \A tm \in Timers : WF_vars(Of("queue", TimerDue(tm) \/ PopCalled(tm)))
    /\ SF_vars(Of("queue", StatusUpdate))

\* As in FairSpec of SaveVariables: threads go on.
ThreadFair == \A t \in Saves!Sessions : WF_savesVars(Of("saves", Saves!Thread(t)))

LivenessSpec ==
    /\ LivenessInit /\ [][LivenessNext]_livenessVars
    /\ RunoutFair /\ ButtonFair /\ PrintTimeFair /\ SessionFairly /\ ConnFair /\ QueueFair
    /\ ThreadFair

-----------------------------------------------------------------------------
(* Values of constants, and properties of an instance and of a part.       *)

AllParts == {"runout", "buttons", "printtime", "session", "connection", "queue", "saves"}
OnlyRunout == {"runout"}
OnlyConnection == {"connection"}

\* A restart without a power loss, and writes that fail.
RestartFaults == {"restart", "write_fails"}

\* The thread of a session that is over ends (save_variables.py:70-110).
OldThreadsEnd == Saves!OldThreadsEnd

\* A session that runs settles: when faults and requests have ended klippy does
\* not restart for ever and does not stay shut down (klippy.py:245-268).
SessionSettles == part = "session" => Settles

\* A session ends well: a printer that is ready has its own configuration and a live
\* micro-controller, and klippy settles (klippy.py:245-268, mcu.py:607-745).
SessionRight == []ReadyConfigured /\ DeadFound /\ SessionSettles
=============================================================================
