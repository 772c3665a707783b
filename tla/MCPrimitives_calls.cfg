\* Every operation of the field and rows of matrices of every size.
SPECIFICATION PrimitivesSpec
CONSTANTS
  Processors = {"avx2", "ssse3", "sse2", "neon", "word"}
  Calls <- MCCalls
  Guard = 2
  Contents <- MCContents
  Messages <- MCMessages
  RowDraws <- MCRowDraws
INVARIANTS FieldIsExact BuffersAreExact RowNamesColumnsOnce DenseRowsHaveASeed
