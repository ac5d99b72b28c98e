\* One archive of regular files and symlinks in two stream orders; no bootstrap.
CONSTANTS
  p1 = p1
  p2 = p2
  p3 = p3
  Paths <- MCPaths
  Bootstrap = {}
  Outside = Outside
  NoInterp = NoInterp
  EmptyInterp = EmptyInterp
  Kinds = {"reg", "sym"}

SPECIFICATION Spec

INVARIANT OrderIrrelevant

CHECK_DEADLOCK FALSE
