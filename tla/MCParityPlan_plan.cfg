\* Every plan of files up to 16 blocks on up to 4 tracks.
SPECIFICATION Spec
CONSTANTS
  BlockSize = 2
  MaxFile = 32
  MaxJobs = 4
  MaxMem = 12
  FileSizes <- MCFileSizes
  Jobs <- MCJobs
  MemLimits <- MCMemLimits
  Overheads = {5, 30, 50, 120}
INVARIANTS Balance TrackShare StripesCover BurstRepairable TracksDecodable
