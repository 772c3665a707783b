\* Striped, in place; every operation may fail; a last stripe with a short track.
SPECIFICATION Spec
CONSTANTS
  NumBlocks = 7
  Tracks = 2
  StripeCount = 2
  BlocksPerStripe = 4
  BatchSize = 2
  PacketsPerTrack = 1
  Slack = 1
  InPlace = TRUE
  Faults = {"read", "create", "recover", "open", "write"}
  MaxRuns = 1
INVARIANTS IInv
PROPERTIES HealthyUntouched
