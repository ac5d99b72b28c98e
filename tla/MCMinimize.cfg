\* Archives of directories, regular files and symlinks (no hard links).
CONSTANTS
  p1 = p1
  p2 = p2
  p3 = p3
  Paths <- MCPaths
  Bootstrap <- MCBootstrap
  Outside = Outside
  NoInterp = NoInterp
  EmptyInterp = EmptyInterp
  Kinds = {"dir", "reg", "sym"}

SPECIFICATION Spec

INVARIANT TypeOK
INVARIANT SeedTargetsRetained
INVARIANT InterpretersRetained

\* shrink_image returns (or raises) after the rewrite: it really stops.
CHECK_DEADLOCK FALSE
