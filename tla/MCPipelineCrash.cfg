\* Two images; a tool may be killed while it writes images.json.
CONSTANTS
  i1 = i1
  i2 = i2
  Images <- MCImages
  MaxRuns = 3

SPECIFICATION Spec

INVARIANT DoneMarksDurable

\* Once MaxRuns invocations have ended nothing more happens.
CHECK_DEADLOCK FALSE
