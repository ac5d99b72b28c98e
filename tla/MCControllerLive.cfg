\* The parent container may exit before it listens on its test port.
CONSTANTS
  s1 = s1
  s2 = s2
  par = par
  SidecarNames <- MCSidecarNames
  Parent = par
  MaxSidecars = 2
  NEnvs = 1
  NPorts = 1


SPECIFICATION FairSpec

PROPERTY CallEnds

CHECK_DEADLOCK FALSE
