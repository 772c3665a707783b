\* Two concurrent tracks, unstriped, in place, one restart.
SPECIFICATION FairSpec
CONSTANTS
  NumBlocks = 5
  Tracks = 2
  StripeCount = 1
  BlocksPerStripe = 5
  BatchSize = 2
  PacketsPerTrack = 2
  Slack = 1
  InPlace = TRUE
  Faults = {}
  MaxRuns = 2
PROPERTIES EnoughLeadsToSuccess Termination PromiseSpec
