------------------------------- MODULE Session -------------------------------
(***************************************************************************)
(* A session of klippy: klippy.py connects to the micro-controller         *)
(* (mcu.py), becomes ready, shuts down and restarts.  The T1 restarts its  *)
(* firmware after every shutdown, and goes on after an "ADC out of range". *)
(*                                                                         *)
(* What happens between two pauses of a greenlet is one step.  A version   *)
(* of the configuration file stands for its CRC; the micro-controller has  *)
(* the version that it was configured with, 0 after a reset.               *)
(***************************************************************************)
EXTENDS Integers, Sequences

CONSTANTS
    MaxFaults,          \* bound of the model: faults of the micro-controller
    MaxRequests         \* bound of the model: requests and edits of the user

NoConfig == 0

VARIABLES
    fileVersion,        \* printer.cfg: its version, and whether it can be read
    fileRead,
    connecting,         \* where _connect is
    message,            \* state_message
    inShutdown, runResult, startReason,     \* in_shutdown_state, run_result
    loggerLoaded,       \* the object rotate_logger is there
    configVersion,      \* the version that this session has read
    gcodeReady,         \* is_printer_ready of gcode.py
    waiting,            \* request_restart waits for the toolhead
    identified,         \* _mcu_identify has registered what it needs
    knownDown,          \* _is_shutdown
    timedOut,           \* _is_timeout
    shutdownCalls,      \* invoke_async_shutdown on its way
    fromMcu,            \* messages on their way
    mcuVersion,         \* config_crc of the micro-controller
    mcuDown,            \* why it has shut down, "no" if not
    silent,             \* nothing passes on the cable
    ended,              \* the process has ended
    faultCount, requestCount

fileVars == <<fileVersion, fileRead, requestCount>>
mcuState == <<mcuVersion, mcuDown, silent, faultCount>>
stateVars == <<message, inShutdown, runResult, gcodeReady>>
sessionOnly == <<connecting, stateVars, loggerLoaded, configVersion, waiting, identified,
                 knownDown, timedOut, shutdownCalls, fromMcu>>
sessionVars == <<fileVars, mcuState, sessionOnly, startReason, ended>>

NewSession ==
    /\ connecting' = "read" /\ message' = "startup" /\ inShutdown' = FALSE
    /\ runResult' = "none" /\ gcodeReady' = FALSE /\ loggerLoaded' = FALSE
    /\ configVersion' = NoConfig /\ waiting' = "no" /\ identified' = FALSE
    /\ knownDown' = FALSE /\ timedOut' = FALSE /\ shutdownCalls' = << >> /\ fromMcu' = << >>

SessionInit ==
    /\ fileVersion = 1 /\ fileRead = TRUE /\ requestCount = 0
    /\ mcuVersion \in 0..2 /\ mcuDown \in {"no", "range", "fault"} /\ silent = FALSE
    /\ faultCount = 0 /\ startReason = "startup" /\ ended = FALSE
    /\ connecting = "read" /\ message = "startup" /\ inShutdown = FALSE
    /\ runResult = "none" /\ gcodeReady = FALSE /\ loggerLoaded = FALSE
    /\ configVersion = NoConfig /\ waiting = "no" /\ identified = FALSE
    /\ knownDown = FALSE /\ timedOut = FALSE /\ shutdownCalls = << >> /\ fromMcu = << >>

Running == runResult = "none" /\ ~ended

\* get_state_message.
category ==
    IF message \in {"ready", "startup"} THEN message
    ELSE IF inShutdown THEN "shutdown" ELSE "error"

\* _set_state.
Stated(m) == IF message \in {"ready", "startup"} THEN m ELSE message

\* request_exit: the first result stays.
Result(r) == IF runResult = "none" THEN r ELSE runResult

Says(name, why) ==
    IF silent \/ ~identified THEN fromMcu ELSE Append(fromMcu, [name |-> name, why |-> why])

-----------------------------------------------------------------------------
(* Shutdown.                                                               *)

\* invoke_shutdown.  Without rotate_logger it fails, in run() once more, and
\* the process ends.
InvokeShutdown(why) ==
    IF inShutdown \/ why = "range" THEN UNCHANGED <<stateVars, mcuState, fromMcu>>
    ELSE IF ~loggerLoaded
    THEN runResult' = "error_exit"
         /\ UNCHANGED <<message, inShutdown, gcodeReady, mcuState, fromMcu>>
    ELSE /\ inShutdown' = TRUE /\ message' = Stated("shutdown") /\ gcodeReady' = FALSE
         /\ runResult' = Result("firmware_restart")
         /\ IF identified /\ ~knownDown /\ ~silent /\ mcuDown = "no"
            THEN mcuDown' = "stop" /\ fromMcu' = Says("shutdown", "stop")
            ELSE UNCHANGED <<mcuDown, fromMcu>>
         /\ UNCHANGED <<mcuVersion, silent, faultCount>>

\* The callback of invoke_async_shutdown.
ShutdownCall ==
    /\ Running /\ shutdownCalls # << >> /\ shutdownCalls' = Tail(shutdownCalls)
    /\ InvokeShutdown(Head(shutdownCalls))
    /\ UNCHANGED <<fileVars, connecting, loggerLoaded, configVersion, waiting, identified,
                   knownDown, timedOut, startReason, ended>>

\* Messages that a handler is registered for.
Handled(m) == m.name = "starting" => connecting # "get"

\* _handle_shutdown and _handle_starting.
TakeFromMcu ==
    LET m == Head(fromMcu)
    IN  /\ Running /\ fromMcu # << >> /\ fromMcu' = Tail(fromMcu)
        /\ IF knownDown \/ ~Handled(m) THEN UNCHANGED <<knownDown, shutdownCalls>>
           ELSE /\ knownDown' = (m.name # "starting")
                /\ shutdownCalls' = Append(shutdownCalls, m.why)
        /\ UNCHANGED <<fileVars, mcuState, connecting, stateVars, loggerLoaded, configVersion,
                       waiting, identified, timedOut, startReason, ended>>

\* check_active.
LostCommunication ==
    /\ Running /\ silent /\ message = "ready" /\ ~timedOut /\ timedOut' = TRUE
    /\ InvokeShutdown("lost")
    /\ UNCHANGED <<fileVars, connecting, loggerLoaded, configVersion, waiting, identified,
                   knownDown, shutdownCalls, startReason, ended>>

-----------------------------------------------------------------------------
(* Printer._connect.                                                       *)

ConnectFails ==
    /\ message' = Stated("error") /\ connecting' = "done"
    /\ UNCHANGED <<inShutdown, runResult, gcodeReady, mcuVersion, fromMcu>>

\* _read_config.
ReadConfig ==
    /\ Running /\ connecting = "read" /\ configVersion' = fileVersion
    /\ IF fileRead THEN connecting' = "identify" /\ loggerLoaded' = TRUE /\ UNCHANGED message
       ELSE /\ loggerLoaded' \in BOOLEAN
            /\ message' = Stated("error") /\ connecting' = "done"
    /\ UNCHANGED <<fileVars, mcuState, inShutdown, runResult, gcodeReady, waiting, identified,
                   knownDown, timedOut, shutdownCalls, fromMcu, startReason, ended>>

\* _mcu_identify; "klippy:connect" only goes on in the state startup.
McuIdentify ==
    /\ Running /\ connecting = "identify"
    /\ IF silent THEN ConnectFails /\ UNCHANGED identified
       ELSE /\ identified' = TRUE
            /\ connecting' = IF message = "startup" THEN "get" ELSE "done"
            /\ UNCHANGED <<stateVars, mcuVersion, fromMcu>>
    /\ UNCHANGED <<fileVars, mcuDown, silent, faultCount, loggerLoaded, configVersion, waiting,
                   knownDown, timedOut, shutdownCalls, startReason, ended>>

\* config_crc != prev_crc.
Mismatch == mcuVersion # configVersion

\* What the micro-controller says to commands that it refuses.
Refusal == IF mcuDown = "no" THEN fromMcu ELSE Says("is_shutdown", mcuDown)

\* _connect of mcu.py: the answer to get_config, and what it sends then.  One that
\* has shut down is to be restarted, but nothing is raised.
GetConfig ==
    LET asks == mcuDown # "no"
    IN  /\ Running /\ connecting = "get"
        /\ IF silent \/ knownDown THEN ConnectFails
           ELSE IF mcuVersion = NoConfig
           THEN /\ mcuVersion' = (IF asks THEN NoConfig ELSE configVersion)
                /\ connecting' = "get again" /\ fromMcu' = Refusal
                /\ runResult' = (IF asks THEN "firmware_restart" ELSE "none")
                /\ UNCHANGED <<message, inShutdown, gcodeReady>>
           ELSE IF startReason = "firmware_restart"
           THEN /\ message' = Stated("error") /\ connecting' = "done"
                /\ runResult' = (IF asks THEN "firmware_restart" ELSE "none")
                /\ UNCHANGED <<inShutdown, gcodeReady, mcuVersion, fromMcu>>
           ELSE IF Mismatch
           THEN /\ runResult' = "firmware_restart" /\ connecting' = "done"
                /\ UNCHANGED <<message, inShutdown, gcodeReady, mcuVersion, fromMcu>>
           ELSE /\ runResult' = (IF asks THEN "firmware_restart" ELSE "none")
                /\ connecting' = "ready" /\ fromMcu' = Refusal
                /\ UNCHANGED <<message, inShutdown, gcodeReady, mcuVersion>>
        /\ UNCHANGED <<fileVars, mcuDown, silent, faultCount, loggerLoaded, configVersion,
                       waiting, identified, knownDown, timedOut, shutdownCalls, startReason,
                       ended>>

\* The second get_config.
GetAgain ==
    /\ Running /\ connecting = "get again"
    /\ IF silent \/ knownDown \/ (mcuVersion = NoConfig /\ mcuDown = "no") THEN ConnectFails
       ELSE /\ runResult' = (IF mcuDown = "no" THEN "none" ELSE "firmware_restart")
            /\ connecting' = "ready"
            /\ UNCHANGED <<message, inShutdown, gcodeReady, mcuVersion, fromMcu>>
    /\ UNCHANGED <<fileVars, mcuDown, silent, faultCount, loggerLoaded, configVersion, waiting,
                   identified, knownDown, timedOut, shutdownCalls, startReason, ended>>

\* The rest of "klippy:connect", then "klippy:ready".
BecomeReady ==
    /\ Running /\ connecting = "ready" /\ connecting' = "done"
    /\ message' = (IF message = "startup" THEN "ready" ELSE message)
    /\ gcodeReady' = (message = "startup")
    /\ UNCHANGED <<fileVars, mcuState, inShutdown, runResult, loggerLoaded, configVersion,
                   waiting, identified, knownDown, timedOut, shutdownCalls, fromMcu,
                   startReason, ended>>

-----------------------------------------------------------------------------
(* The end of a session.                                                   *)

\* RESTART and FIRMWARE_RESTART: request_restart lets the toolhead come to rest.
RequestRestart(result) ==
    /\ Running /\ requestCount < MaxRequests /\ waiting = "no"
    /\ requestCount' = requestCount + 1
    /\ IF gcodeReady THEN waiting' = result /\ UNCHANGED runResult
       ELSE runResult' = result /\ UNCHANGED waiting
    /\ UNCHANGED <<fileVersion, fileRead, mcuState, connecting, message, inShutdown, gcodeReady,
                   loggerLoaded, configVersion, identified, knownDown, timedOut, shutdownCalls,
                   fromMcu, startReason, ended>>

Rested ==
    /\ Running /\ waiting # "no" /\ runResult' = waiting /\ waiting' = "no"
    /\ UNCHANGED <<fileVars, mcuState, connecting, message, inShutdown, gcodeReady,
                   loggerLoaded, configVersion, identified, knownDown, timedOut, shutdownCalls,
                   fromMcu, startReason, ended>>

\* M112.
EmergencyStop ==
    /\ Running /\ requestCount < MaxRequests /\ requestCount' = requestCount + 1
    /\ InvokeShutdown("user")
    /\ UNCHANGED <<fileVersion, fileRead, connecting, loggerLoaded, configVersion, waiting,
                   identified, knownDown, timedOut, shutdownCalls, startReason, ended>>

\* Mutant of Resets: nothing is reset.
NeverResets == FALSE

\* Whether microcontroller_restart gets through.
Resets == runResult = "firmware_restart" /\ identified /\ ~silent

\* run() returns, and main starts the next session or ends.  After a loss of
\* communication no reset may be sent although the cable is well.
NextSession ==
    /\ ~ended /\ runResult # "none"
    /\ IF runResult = "error_exit"
       THEN ended' = TRUE /\ UNCHANGED <<mcuState, sessionOnly, startReason>>
       ELSE /\ NewSession /\ startReason' = runResult /\ UNCHANGED <<ended, silent, faultCount>>
            /\ \/ Resets /\ mcuVersion' = NoConfig /\ mcuDown' = "no"
               \/ (Resets => timedOut) /\ UNCHANGED <<mcuVersion, mcuDown>>
    /\ UNCHANGED fileVars

-----------------------------------------------------------------------------
(* What comes from outside.                                                *)

\* The user writes another configuration.
EditFile ==
    /\ requestCount < MaxRequests /\ requestCount' = requestCount + 1
    /\ fileVersion' = 3 - fileVersion /\ fileRead' \in BOOLEAN
    /\ UNCHANGED <<mcuState, sessionOnly, startReason, ended>>

\* The micro-controller shuts down; its message may be lost.
McuFault(why, lost) ==
    /\ faultCount < MaxFaults /\ faultCount' = faultCount + 1
    /\ mcuDown = "no" /\ mcuVersion # NoConfig /\ mcuDown' = why
    /\ fromMcu' = IF lost THEN fromMcu ELSE Says("shutdown", why)
    /\ UNCHANGED <<fileVars, mcuVersion, silent, connecting, stateVars, loggerLoaded,
                   configVersion, waiting, identified, knownDown, timedOut, shutdownCalls,
                   startReason, ended>>

\* It restarts by itself.
McuResets(lost) ==
    /\ faultCount < MaxFaults /\ faultCount' = faultCount + 1
    /\ mcuDown' = "no" /\ mcuVersion' = NoConfig
    /\ fromMcu' = IF lost THEN fromMcu ELSE Says("starting", "restart")
    /\ UNCHANGED <<fileVars, silent, connecting, stateVars, loggerLoaded,
                   configVersion, waiting, identified, knownDown, timedOut, shutdownCalls,
                   startReason, ended>>

\* The next command meets one that is shut down or not configured.
Refuses ==
    /\ Running /\ message = "ready" /\ ~silent /\ ~knownDown /\ fromMcu = << >>
    /\ \/ mcuDown # "no" /\ fromMcu' = Refusal /\ UNCHANGED mcuDown
       \/ /\ mcuDown = "no" /\ mcuVersion = NoConfig /\ mcuDown' = "fault"
          /\ fromMcu' = Says("shutdown", "fault")
    /\ UNCHANGED <<fileVars, mcuVersion, silent, faultCount, connecting, stateVars,
                   loggerLoaded, configVersion, waiting, identified, knownDown, timedOut,
                   shutdownCalls, startReason, ended>>

Silence ==
    /\ \/ ~silent /\ faultCount < MaxFaults /\ faultCount' = faultCount + 1
       \/ silent /\ UNCHANGED faultCount
    /\ silent' = ~silent
    /\ UNCHANGED <<fileVars, mcuVersion, mcuDown, sessionOnly, startReason, ended>>

SessionStep ==
    \/ ShutdownCall \/ TakeFromMcu \/ LostCommunication
    \/ ReadConfig \/ McuIdentify \/ GetConfig \/ GetAgain \/ BecomeReady
    \/ Rested \/ NextSession \/ Refuses

SessionNext ==
    \/ SessionStep
    \/ \E r \in {"restart", "firmware_restart"} : RequestRestart(r)
    \/ EmergencyStop \/ EditFile
    \/ \E why \in {"range", "fault"}, lost \in BOOLEAN : McuFault(why, lost)
    \/ \E lost \in BOOLEAN : McuResets(lost)
    \/ Silence

SessionFair == WF_sessionVars(SessionStep)

SessionSpec == SessionInit /\ [][SessionNext]_sessionVars /\ SessionFair

-----------------------------------------------------------------------------
(* Properties.                                                             *)

\* A printer that is ready works with the configuration that was read, or with a
\* micro-controller that was reset: never with another configuration, whatever
\* was edited, restarted or reset (mcu.py:668-675, 724-745).
ReadyConfigured ==
    message = "ready" => mcuVersion \in {NoConfig, configVersion}

\* A printer is not left ready while its micro-controller has shut down, unless
\* that was out of range - then it is (mcu.py:607-621, klippy.py:249).
DeadFound ==
    (message = "ready" /\ mcuDown \in {"fault", "stop"}) ~>
        (message # "ready" \/ mcuDown = "no" \/ ended)

\* Once faults and requests have ended klippy does not restart for ever, nor does
\* it stay shut down: it is ready or tells an error (klippy.py:245-268).
Settles == <>[](category \in {"ready", "error"} \/ ended)
=============================================================================
