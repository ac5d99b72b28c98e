\* Up to two sidecars, one env, one test port.
CONSTANTS
  s1 = s1
  s2 = s2
  par = par
  SidecarNames <- MCSidecarNames
  Parent = par
  MaxSidecars = 2
  NEnvs = 1
  NPorts = 1

SPECIFICATION Spec

INVARIANT TypeOK
INVARIANT SidecarsOutliveParent
INVARIANT UnwoundOnExit
PROPERTY ScopedRefined

\* The call ends in "returned" or "raised"; only the containers move after.
CHECK_DEADLOCK FALSE
