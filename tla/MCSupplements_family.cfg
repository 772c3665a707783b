\* Two data sets, archives with and without stripes, two overheads.
SPECIFICATION Spec
CONSTANTS
  Stems <- MCStems
  NumBlocks = 5
  Tracks = 2
  Layouts = {2, 5}
  Percents = {10, 40}
  Damages <- MCDamage
  MaxArchives = 3
  MaxTotal = 60
INVARIANTS FindsItsSupplements NamesTellTheChain
PROPERTIES OriginalsStay
CHECK_DEADLOCK FALSE
