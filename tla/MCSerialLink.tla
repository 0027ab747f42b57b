---------------------------- MODULE MCSerialLink ----------------------------
(* SerialLink for TLC. *)
EXTENDS SerialLink
=============================================================================
