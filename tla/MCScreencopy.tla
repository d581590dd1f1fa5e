---------------------------- MODULE MCScreencopy ----------------------------
EXTENDS Screencopy
=============================================================================
