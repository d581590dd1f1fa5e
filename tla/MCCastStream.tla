---------------------------- MODULE MCCastStream ----------------------------
(* Instance of CastStream for TLC.                                         *)
EXTENDS CastStream, TLC
=============================================================================
