\* Archives with and without stripes, everything that may fail while they are
\* written, and damage to one or two of their cells before they are read.
SPECIFICATION FileSpec
CONSTANTS
  Jobs <- MCJobs
  DamageValues = {0, 1, 2, 40, 90, 91}
INVARIANTS
  OnlyWholeIsAccepted NoLeftovers
  OneCopySuffices DamageStaysLocal ValidIsWritten
PROPERTIES PromiseSpec
