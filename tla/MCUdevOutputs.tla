---------------------------- MODULE MCUdevOutputs ----------------------------
(* Instance of UdevOutputs for TLC: monitors and crtcs are interchangeable. *)
EXTENDS UdevOutputs, TLC

Symmetry == Permutations(Connector) \cup Permutations(Crtc)
=============================================================================
