\* Two images, up to three invocations of either tool.
CONSTANTS
  i1 = i1
  i2 = i2
  Images <- MCImages
  MaxRuns = 3

SPECIFICATION Spec

INVARIANT TypeOK
INVARIANT VerifiedBeforeDone
PROPERTY NeverRedone

\* Once MaxRuns invocations have ended nothing more happens.
CHECK_DEADLOCK FALSE
