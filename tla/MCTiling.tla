------------------------------ MODULE MCTiling ------------------------------
EXTENDS Tiling, TLC

\* The client windows can be exchanged.
Symmetry == Permutations(Window \ X11)
=============================================================================
