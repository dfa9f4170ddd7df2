------------------------------- MODULE MCBoot -------------------------------
EXTENDS Boot

\* A 4-tick counter with a 2-tick RX CPU timeout: every wait_for_rx start
\* time is followed by a wrap within the wait.
MCTimeMod == 4
MCRxTimeout == 2
=============================================================================
