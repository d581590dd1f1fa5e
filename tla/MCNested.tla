------------------------------ MODULE MCNested -------------------------------
EXTENDS NestedLoop
=============================================================================
