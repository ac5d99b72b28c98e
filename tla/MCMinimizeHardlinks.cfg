\* Archives that also contain hard links, as docker exports do.
CONSTANTS
  p1 = p1
  p2 = p2
  p3 = p3
  Paths <- MCPaths
  Bootstrap <- MCBootstrap
  Outside = Outside
  NoInterp = NoInterp
  EmptyInterp = EmptyInterp
  Kinds = {"reg", "sym", "hardlink"}

SPECIFICATION Spec

INVARIANT ReducedServesSeeds

CHECK_DEADLOCK FALSE
