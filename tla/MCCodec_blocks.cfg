\* An encoder, also a reused one, and a decoder that gets any part of ten blocks.
SPECIFICATION Spec
CONSTANTS
  BlockCount = 6
  DenseCount = 2
  HeavyRows = 2
  HeavyCols = 3
  RefListMax = 3
  ExtraRows = 1
  MaxUses = 2
  Draws <- MCDraws
  HeavyMatrix <- MCHeavyMatrix
  MatrixDraws <- MCMatrixDraws
  ShuffleDraws <- MCShuffleDraws
  AboveWindows <- MCAboveWindows
  UnderWindows <- MCUnderWindows
  PeelSeeds <- MCPeelSeeds
  DenseSeeds <- MCDenseSeeds
  Ids <- MCIds
INVARIANTS
  RecoverIsExact
  EncoderIsSystematic
  ReuseMakesTheSame
  DecoderEncodesTheSame
  DecodesWhenPossible
  PeelingAgrees
  PeelOrder
CHECK_DEADLOCK FALSE
