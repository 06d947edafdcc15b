------------------------------ MODULE MCServer -------------------------------
(***************************************************************************)
(* A small instance of Server for TLC, with the times of the code: sleeps  *)
(* of 5 seconds, a deadline of 30, and a grace of 5.  The calls are not    *)
(* symmetric to TLC, for the properties of liveness.                       *)
(***************************************************************************)
EXTENDS Server
=============================================================================
