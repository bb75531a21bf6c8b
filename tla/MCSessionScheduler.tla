------------------------- MODULE MCSessionScheduler -------------------------
\* The scheduler on bitmap words of two bits: four slots.
EXTENDS SessionScheduler

CONSTANTS r1, r2, long
MCRequest == {r1, r2, long}
MCTooLong == {long}
=============================================================================
