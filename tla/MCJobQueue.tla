----------------------------- MODULE MCJobQueue -----------------------------
(* JobQueue for TLC. *)
EXTENDS JobQueue

\* A user adds jobs, pauses the queue and starts it.
PauseStart == {"add", "pause", "start"}
=============================================================================
