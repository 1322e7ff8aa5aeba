---------------------------- MODULE MCTimerWheel ----------------------------
EXTENDS TimerWheel
=============================================================================
