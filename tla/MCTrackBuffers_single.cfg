\* A single track.
SPECIFICATION Spec
CONSTANTS
  BlockSize = 3
  BlocksPerRead = 2
  MaxFile = 10
  MaxTracks = 4
  MaxStripes = 4
  SizeModulus = 16
  ReadLimit = 12
  FileSizes <- MCFileSizes
  TrackCounts = {1}
  StripeCounts <- MCStripeCounts
INVARIANTS MessagesAgree
