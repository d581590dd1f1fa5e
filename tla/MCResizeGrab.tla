---------------------------- MODULE MCResizeGrab ----------------------------
(* Instances of ResizeGrab for TLC. *)
EXTENDS ResizeGrab
=============================================================================
