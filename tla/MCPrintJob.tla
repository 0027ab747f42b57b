----------------------------- MODULE MCPrintJob -----------------------------
(* PrintJob for TLC. *)
EXTENDS PrintJob, TLC

Symmetry == Permutations(Clients)

\* What the touch screen and the web pages send while they print.
UICommands == {"PRINT", "PAUSE", "RESUME", "CANCEL", "RESET", "M23", "M25",
               "CLEAR_PAUSE"}

\* The reads of the file succeed, and no object is excluded.
UIEvents == {"pause_line", "cancel_line", "error_line", "runout",
             "start_fails", "open_fails"}
=============================================================================
