---------------------------- MODULE MCWebTrigger ----------------------------
EXTENDS WebTrigger
=============================================================================
