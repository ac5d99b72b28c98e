\* Two sidecars whose placeholders both appear in the parent's env.
CONSTANTS
  s1 = s1
  s2 = s2
  par = par
  SidecarNames <- MCSidecarNames
  Parent = par
  MaxSidecars = 2
  NEnvs = 1
  NPorts = 1


SPECIFICATION Spec

INVARIANT ParentEnvResolved

CHECK_DEADLOCK FALSE
