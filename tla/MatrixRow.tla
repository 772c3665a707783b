----------------------------- MODULE MatrixRow -----------------------------
(***************************************************************************)
(* One row of the fountain code's matrix: how many dense rows its message  *)
(* has, and the walk of its iterators over the peeled columns and the mix  *)
(* columns (src/src/WirehairTools.cpp and .h).                             *)
(*                                                                         *)
(* A step starts a row, or is one call of Iterate.                         *)
(***************************************************************************)
EXTENDS WirehairTools

CONSTANTS Messages,      \* numbers of blocks
          RowDraws(_)    \* number of blocks -> random numbers of rows

ASSUME RowAssumption == Messages \subseteq 2..64000

VARIABLES blocks,     \* the blocks of the message, 0 before a row is started
          ring,       \* ColumnCountNextPrime
          params,     \* PeelRowParameters of the row
          seen,       \* the columns GetColumn has given, in order
          remaining   \* ColumnsRemaining

rowVars == <<blocks, ring, params, seen, remaining>>

HeavyRowCount == 6
HasTinyTable(n) == n < kTinyTableCount

\* The mix columns of a message; the tiny table's least count stands for it.
MixColumns(n) == (IF HasTinyTable(n) THEN 2 ELSE GetDenseCount(n)) + HeavyRowCount

RowInit == blocks = 0 /\ ring = 0 /\ params = <<>> /\ seen = <<>> /\ remaining = 0

StartRow ==
    /\ blocks = 0
    /\ \E n \in Messages :
        /\ blocks' = n /\ ring' = NextPrime16(n)
        /\ \E draw \in RowDraws(n) : params' = << PeelRowParameters(draw, n, MixColumns(n)) >>
    /\ seen' = << params'[1].PeelFirst >>
    /\ remaining' = params'[1].PeelCount - 1

Iterate ==
    /\ blocks # 0 /\ remaining > 0
    /\ remaining' = remaining - 1
    /\ seen' = Append(seen, IterateNextColumn(seen[Len(seen)], blocks, ring, params[1].PeelAdd))
    /\ UNCHANGED <<blocks, ring, params>>

EndRow ==
    /\ blocks # 0 /\ remaining = 0
    /\ blocks' = 0 /\ ring' = 0 /\ params' = <<>> /\ seen' = <<>> /\ remaining' = 0

RowNext == \/ StartRow
           \/ Iterate
           \/ EndRow

----------------------------------------------------------------------------
(* Properties                                                              *)

IsPrime(n) == n > 1 /\ \A q \in 2..255 : q * q <= n => ~Divides(q, n)
IsNextPrime(p, n) == p >= n /\ IsPrime(p) /\ \A q \in n..(p - 1) : ~IsPrime(q)

Distinct(columns) == Cardinality(ToSet(columns)) = Len(columns)

\* A row never names a column twice and names only columns there are: a column
\* met twice would cancel in the sums but count as two marks when peeling.  The
\* iterators walk a ring of prime length and have to jump over the columns behind
\* the last (WirehairTools.h:223-247), several steps at once when the step is small.
\* That length is found by the sieve and trials up to a square root that is corrected
\* on the way (WirehairTools.cpp:154-222).
RowNamesColumnsOnce ==
    blocks # 0 /\ remaining = 0 =>
      LET mix == RowMixIterator(params[1], MixColumns(blocks))
      IN  /\ IsNextPrime(ring, blocks)
          /\ Distinct(seen) /\ ToSet(seen) \subseteq 0..(blocks - 1)
          /\ Distinct(mix) /\ ToSet(mix) \subseteq 0..(MixColumns(blocks) - 1)

\* The search finds two measured points around the message, between which it can
\* interpolate, and the dense rows are those a seed has been measured for:
\* kDenseSeeds has none for fewer than 52 rows and for 396.
DenseRowsHaveASeed ==
    Len(seen) = 1 /\ ~HasTinyTable(blocks) =>
      LET interval == DenseInterval(blocks)
          count    == GetDenseCount(blocks)
      IN  /\ interval[1][1] <= blocks /\ blocks <= interval[2][1]
          /\ interval[1][1] < interval[2][1]
          /\ count % 4 = 2 /\ count <= kMaxDenseCount
          /\ blocks >= kTinyTableCount + kSmallTableCount =>
               DenseSeedIndex(count) \in 13..(kDenseSeedCount - 2)
=============================================================================
