\* Every file of up to 14 blocks on two to four tracks and up to four stripes.
SPECIFICATION Spec
CONSTANTS
  BlockSize = 3
  BlocksPerRead = 2
  MaxFile = 42
  MaxTracks = 4
  MaxStripes = 4
  SizeModulus = 16
  ReadLimit = 12
  FileSizes <- MCFileSizes
  TrackCounts <- MCTrackCounts
  StripeCounts <- MCStripeCounts
INVARIANTS MessagesAgree RowsAgree HashesAgree
