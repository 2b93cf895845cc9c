-------------------------- MODULE MCCommandStream --------------------------
(* Model values for checking CommandStream.  Two lines over a pipe that    *)
(* holds one make the command wait for both pumps.                         *)
EXTENDS CommandStream
=============================================================================
