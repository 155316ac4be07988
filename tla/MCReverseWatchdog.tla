-------------------------- MODULE MCReverseWatchdog --------------------------
EXTENDS ReverseWatchdog
=============================================================================
