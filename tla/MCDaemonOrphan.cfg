\* Daemons that take longer than the grace period to stop.
CONSTANT MaxRuns = 3

SPECIFICATION Spec

INVARIANT DaemonsStoppedOnExit

\* After the last invocation nothing but the daemons moves.
CHECK_DEADLOCK FALSE
