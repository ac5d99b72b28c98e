-------------------------- MODULE MCMinimizeOrder --------------------------
EXTENDS MinimizeOrder

CONSTANTS p1, p2, p3

MCPaths == {p1, p2, p3}
=============================================================================
