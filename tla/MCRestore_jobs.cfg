\* Uneven and aligned files, both ways of writing them, with failures and a restart.
SPECIFICATION Spec
CONSTANTS
  Jobs <- MCJobs
  MaxRuns = 2
INVARIANTS SuccessMeansAllRestored IntactIsRecognised
PROPERTIES RightBytesStay
