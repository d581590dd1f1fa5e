---------------------------- MODULE MCScreenCast ----------------------------
(* Instance of ScreenCast for TLC.                                         *)
EXTENDS ScreenCast
=============================================================================
