\* One archive without stripes whose user asks for more.
SPECIFICATION Spec
CONSTANTS
  Stems <- MCOneStem
  NumBlocks = 6
  Tracks = 1
  Layouts = {6}
  Percents = {10, 40}
  Damages <- MCHalf
  MaxArchives = 2
  MaxTotal = 90
INVARIANTS ShortfallIsMet
CHECK_DEADLOCK FALSE
