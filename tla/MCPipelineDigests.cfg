\* Two images, some with sidecars; images.py runs before the minimiser.
CONSTANTS
  i1 = i1
  i2 = i2
  Images <- MCImages
  MaxRuns = 3

SPECIFICATION Spec

PROPERTY DigestsBeforeInstantiation

\* Once MaxRuns invocations have ended nothing more happens.
CHECK_DEADLOCK FALSE
