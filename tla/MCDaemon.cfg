\* Three invocations of the tool, each possibly killed or left early.
CONSTANT MaxRuns = 3

SPECIFICATION FairSpec

PROPERTY TeardownEnds

\* After the last invocation nothing but the daemons moves.
CHECK_DEADLOCK FALSE
