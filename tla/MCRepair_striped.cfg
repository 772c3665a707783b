\* Two tracks, uneven in their two stripes, in place, one restart.
SPECIFICATION Spec
CONSTANTS
  NumBlocks = 9
  Tracks = 2
  StripeCount = 2
  BlocksPerStripe = 5
  BatchSize = 2
  PacketsPerTrack = 1
  Slack = 0
  InPlace = TRUE
  Faults = {}
  MaxRuns = 2
INVARIANTS SuccessMeansRestored FailureIsContained RecoveredInOrder
