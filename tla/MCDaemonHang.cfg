\* One invocation whose dockerd may die before it listens.
CONSTANT MaxRuns = 1

SPECIFICATION FairSpec

PROPERTY StartupEnds

CHECK_DEADLOCK FALSE
