-------------------------- MODULE MCTickScheduler --------------------------
(***************************************************************************)
(* The scheduler on a small instance.                                      *)
(***************************************************************************)
EXTENDS TickScheduler

\* Negative (wraps around to the tick before), due at once, and later.
SomeDelays == {-1, 0, 2}

\* 0 comes from a settings file: the interval is due again in the tick it ran.
SomeIntervals == {0, 2}
=============================================================================
