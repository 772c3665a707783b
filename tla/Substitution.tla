---------------------------- MODULE Substitution ----------------------------
(***************************************************************************)
(* The last stage of the fountain codec (Codec::InitializeColumnValues to  *)
(* Codec::Substitute in src/src/WirehairCodec.cpp): the elimination is     *)
(* replayed on block values, and every recovery column gets its value.     *)
(*                                                                         *)
(* Long runs of columns are replayed in windows: the sums of the window's  *)
(* columns are tabulated, in the space of peeled columns that are not      *)
(* needed any more, and a row adds one entry of the table.                 *)
(***************************************************************************)
EXTENDS Elimination

CONSTANTS AboveWindows,   \* the CAT_ABOVE_WIN thresholds and window sizes
          UnderWindows    \* the CAT_UNDER_WIN thresholds and window sizes

\* Both are sequences of [thresh, size], the least threshold first.  Windows
\* start only from the second threshold on.

TempColumn == BlockCount + MixCount         \* the block after the columns

RowCombination(c, cols) == FoldLeft(LAMBDA v, col : Plus(v, c.recovery[col]), Zero, cols)

----------------------------------------------------------------------------
(* Values of the columns of the matrix before elimination                  *)

\* Dense and heavy rows sum to zero; the others to their input and what their
\* peeled columns hold.
ColumnValue(c, g) ==
    LET r == c.rowMap[g]
    IN  IF g < DenseCount \/ g >= FirstHeavyRow(c) + c.extra THEN Zero
        ELSE Plus(InputValue(c, r),
                  RowCombination(c, SelectSeq(c.row[r].columns,
                                              LAMBDA col : c.mark[col] = "PEEL")))

InitializeColumnValues(c) ==
    LET place(col) == CHOOSE p \in DOMAIN c.colMap : c.colMap[p] = col
        solved == {c.colMap[p] : p \in DOMAIN c.colMap}
        used == [g \in PivotRows(c, 0, ColumnCount(c) - 1) |->
                    CHOOSE p \in 0..(ColumnCount(c) - 1) : c.pivots[p] = g]
        summed(g) == g < DenseCount \/ g >= FirstHeavyRow(c) + c.extra
        unused == PivotRows(c, ColumnCount(c), c.pivotCount - 1)
    IN  [c EXCEPT
           !.recovery = [col \in solved |-> ColumnValue(c, c.pivots[place(col)])] @@ @,
           !.rowMap = [g \in {u \in DOMAIN used : summed(u)} |-> c.colMap[used[g]]]
               @@ [g \in {u \in unused : u < DenseCount \/ u \in FirstHeavyRow(c)..(ColumnCount(c) - 1)}
                      |-> LIST_TERM]
               @@ @]

\* The steps of MultiplyDenseRows over the values of the peeled columns.
AddDenseValue(c, step) ==
    LET peeled == {col \in step.flips : c.mark[col] = "PEEL"}
        temp   == FoldSet(LAMBDA col, v : Plus(v, c.recovery[col]), c.recovery[TempColumn], peeled)
        dest   == c.rowMap[step.row]
        kept   == [c EXCEPT !.recovery[TempColumn] = temp]
    IN  IF dest = LIST_TERM THEN kept ELSE [kept EXCEPT !.recovery[dest] = Plus(@, temp)]

\* Bug: the running sum starts from what the block held before.
MultiplyDenseUncleared(c, chunk) == FoldLeft(AddDenseValue, c, DenseSteps(c.dSeed, chunk))

MultiplyDenseChunkValues(c, chunk) ==
    FoldLeft(AddDenseValue, [c EXCEPT !.recovery[TempColumn] = Zero],
             DenseSteps(c.dSeed, chunk))

MultiplyDenseValues(c) ==
    FoldLeft(MultiplyDenseChunkValues, c, SetToSortSeq(Chunks, <))

----------------------------------------------------------------------------
(* Windows                                                                 *)

\* The window for a number of columns left: the largest threshold reached, of
\* those from one to another, or size zero.
BestWindow(windows, left, from, to) ==
    LET fit == {k \in from..to : left >= windows[k].thresh}
    IN  IF fit = {} THEN [thresh |-> 0, size |-> 0]
        ELSE windows[CHOOSE k \in fit : \A j \in fit : j <= k]
FirstWindow(windows, left) == BestWindow(windows, left, 2, Len(windows))
NextWindow(windows, left) == BestWindow(windows, left, 1, Len(windows) - 1)

\* What the columns give that the bits of a table entry name.
WindowSum(c, start, bits) ==
    FoldSet(LAMBDA b, v : Plus(v, c.recovery[c.colMap[start + b]]), Zero, bits)

\* The first peeled columns lend their space to a table: entry e of the table
\* goes to the e-th of them, but for the entries of one bit, which are the
\* columns of the window themselves.
PeeledColumns(c) == SetToSortSeq({col \in Columns : c.mark[col] = "PEEL"}, <)
HasTableSpace(c, size) == Len(PeeledColumns(c)) >= 2 ^ size - 1

EntryBits(e) == {b \in 0..7 : (e \div (2 ^ b)) % 2 = 1}
TabulateWindow(c, start, size) ==
    LET space == PeeledColumns(c)
        entry(col) == CHOOSE e \in DOMAIN space : space[e] = col
        used == {space[e] : e \in {n \in 1..(2 ^ size - 1) : Cardinality(EntryBits(n)) > 1}}
    IN  [c EXCEPT !.recovery =
            [col \in used |-> WindowSum(c, start, EntryBits(entry(col)))] @@ @]

\* The rows at some places each add the table's entry for their own bits.
AddWindowEntries(c, start, size, places) ==
    LET bits(p) == {b \in 0..(size - 1) : start + b \in c.ge[c.pivots[p]]}
        place(col) == CHOOSE p \in places : c.colMap[p] = col
        targets == {c.colMap[p] : p \in places}
    IN  [c EXCEPT !.recovery =
            [col \in targets |-> Plus(@[col], WindowSum(c, start, bits(place(col))))] @@ @]

----------------------------------------------------------------------------
(* Below the diagonal                                                      *)

AddTo(c, p, v) == [c EXCEPT !.recovery[c.colMap[p]] = Plus(@, v)]
At(c, p) == c.recovery[c.colMap[p]]

\* Bug: the triangle's last row is left out.
AddWithinWindowShort(c, start, size) ==
    LET column(d, i) ==
            FoldLeft(LAMBDA e, p : IF i \in e.ge[e.pivots[p]] THEN AddTo(e, p, At(e, i)) ELSE e,
                     d, [k \in 1..(start + size - 2 - i) |-> i + k])
    IN  FoldLeft(column, c, [k \in 1..(size - 1) |-> start + k - 1])

\* The window's own triangle, column after column.
AddWithinWindow(c, start, size) ==
    LET column(d, i) ==
            FoldLeft(LAMBDA e, p : IF i \in e.ge[e.pivots[p]] THEN AddTo(e, p, At(e, i)) ELSE e,
                     d, [k \in 1..(start + size - 1 - i) |-> i + k])
    IN  FoldLeft(column, c, [k \in 1..(size - 1) |-> start + k - 1])

IsBinaryRow(c, g) == g < FirstHeavyRow(c) + c.extra

\* Returns the codec and the first column that no window covers.
RECURSIVE UnderWindowsFrom(_, _, _, _)
UnderWindowsFrom(c, i, size, check) ==
    LET below == {p \in (i + size)..(ColumnCount(c) - 1) : IsBinaryRow(c, c.pivots[p])}
        done  == AddWindowEntries(TabulateWindow(AddWithinWindow(c, i, size), i, size),
                                  i, size, below)
        next  == i + size
        left  == ColumnCount(c) - next
        w     == NextWindow(UnderWindows, left)
    IN  IF next < check THEN UnderWindowsFrom(done, next, size, check)
        ELSE IF w.size = 0 THEN << done, next >>
        ELSE UnderWindowsFrom(done, next, w.size, left - w.thresh)

AddWindowedSubdiagonal(c) ==
    LET w == FirstWindow(UnderWindows, ColumnCount(c))
    IN  IF w.size = 0 \/ ~HasTableSpace(c, w.size) THEN << c, 0 >>
        ELSE UnderWindowsFrom(c, 0, w.size, ColumnCount(c) - w.thresh)

\* What a heavy or extra row adds of the heavy columns before its own.
HeavyTerms(c, p) ==
    FoldLeft(LAMBDA v, j : MulAdd(v, HeavyCode(c, c.pivots[p], j), At(c, j)), Zero,
             SetToSortSeq(FirstHeavyColumn(c)..(p - 1), <))
LightTerms(c, p, from, limit) ==
    FoldLeft(LAMBDA v, j : IF j \in c.ge[c.pivots[p]] THEN Plus(v, At(c, j)) ELSE v, Zero,
             SetToSortSeq(from..(limit - 1), <))

AddSubdiagonalRow(c, p, from) ==
    LET g == c.pivots[p]
        limit == IF g >= FirstHeavyRow(c) /\ p > FirstHeavyColumn(c) THEN FirstHeavyColumn(c) ELSE p
        heavy == IF g >= FirstHeavyRow(c) THEN HeavyTerms(c, p) ELSE Zero
        light == IF IsBinaryRow(c, g) THEN LightTerms(c, p, from, limit) ELSE Zero
    IN  AddTo(c, p, Plus(heavy, light))

AddSubdiagonalRows(c, from) ==
    FoldLeft(LAMBDA d, p : AddSubdiagonalRow(d, p, from), c,
             [k \in 1..(ColumnCount(c) - 1 - from) |-> from + k])
AddSubdiagonalAfter(windowed) == AddSubdiagonalRows(windowed[1], windowed[2])

AddSubdiagonalValues(c) == AddSubdiagonalAfter(AddWindowedSubdiagonal(c))

----------------------------------------------------------------------------
(* Above the diagonal                                                      *)

\* Bug: extra rows, and the first heavy column, are taken to be one already.
NormalizedExtra(c, i) ==
    IF c.pivots[i] >= FirstHeavyRow(c) + c.extra /\ i > FirstHeavyColumn(c)
    THEN [c EXCEPT !.recovery[c.colMap[i]] = Divided(@, HeavyCode(c, c.pivots[i], i))]
    ELSE c

\* A heavy diagonal element is made one.
Normalized(c, i) ==
    IF c.pivots[i] >= FirstHeavyRow(c) /\ i >= FirstHeavyColumn(c)
    THEN [c EXCEPT !.recovery[c.colMap[i]] = Divided(@, HeavyCode(c, c.pivots[i], i))]
    ELSE c

\* Column i is taken out of the row at place p: by its coefficient if the row
\* is heavy there, by its bit if not.
TakeOut(c, i, p, heavy) ==
    IF heavy THEN AddTo(c, p, Scale(HeavyCode(c, c.pivots[p], i), At(c, i)))
    ELSE IF i \in c.ge[c.pivots[p]] THEN AddTo(c, p, At(c, i))
    ELSE c

\* The triangle of a window, from its last column, then its first diagonal.
SolveWithinWindow(c, start, top) ==
    LET column(d, i) ==
            FoldLeft(LAMBDA e, p : TakeOut(e, i, p, e.pivots[p] >= FirstHeavyRow(e)
                                                    /\ i >= FirstHeavyColumn(e)),
                     Normalized(d, i), [k \in 1..(i - start) |-> start + k - 1])
    IN  Normalized(FoldLeft(column, c, [k \in 1..(top - start) |-> top - k + 1]), start)

\* Rows above the window that may be heavy take its columns one by one.
TakeOutHeavyAbove(c, start, top) ==
    LET heavy == {p \in 0..(start - 1) : c.pivots[p] >= FirstHeavyRow(c)}
        one(d, p) == FoldLeft(LAMBDA e, i : TakeOut(e, i, p, i >= FirstHeavyColumn(e)), d,
                              [k \in 1..(top - start + 1) |-> start + k - 1])
    IN  IF top < FirstHeavyColumn(c) THEN c
        ELSE FoldLeft(one, c, SetToSortSeq(heavy, <))

\* Returns the codec and the last column that no window covers.
RECURSIVE AboveWindowsFrom(_, _, _, _)
AboveWindowsFrom(c, top, size, check) ==
    LET start == top - size + 1
        solved == TabulateWindow(SolveWithinWindow(c, start, top), start, size)
        apart == TakeOutHeavyAbove(solved, start, top)
        above == {p \in 0..(start - 1) :
                    \/ top < FirstHeavyColumn(c)
                    \/ c.pivots[p] < FirstHeavyRow(c)}
        done  == AddWindowEntries(apart, start, size, above)
        next  == top - size
        w     == NextWindow(AboveWindows, next)
    IN  IF next >= check THEN AboveWindowsFrom(done, next, size, check)
        ELSE IF w.size = 0 THEN << done, next >>
        ELSE AboveWindowsFrom(done, next, w.size, w.thresh)

SolveWindowedAbove(c) ==
    LET top == ColumnCount(c) - 1
        w == FirstWindow(AboveWindows, top)
    IN  IF w.size = 0 \/ ~HasTableSpace(c, w.size) THEN << c, top >>
        ELSE AboveWindowsFrom(c, top, w.size, w.thresh)

SolveColumn(c, i) ==
    FoldLeft(LAMBDA d, p : TakeOut(d, i, p, d.pivots[p] >= FirstHeavyRow(d)
                                            /\ p >= FirstHeavyColumn(d)),
             Normalized(c, i), [k \in 1..i |-> k - 1])

SolveColumns(c, top) == FoldLeft(SolveColumn, c, [k \in 1..(top + 1) |-> top - k + 1])
SolveAfter(windowed) == SolveColumns(windowed[1], windowed[2])

BackSubstituteAboveDiagonal(c) == SolveAfter(SolveWindowedAbove(c))

----------------------------------------------------------------------------
(* The peeled columns, in the order they were peeled                       *)

MixValue(c, mix) == FoldLeft(LAMBDA v, m : Plus(v, c.recovery[BlockCount + m]), Zero, mix)

SubstituteRow(c, r) ==
    LET dest == PeelColumn(c, r)
        others == SelectSeq(c.row[r].columns, LAMBDA col : col # dest)
    IN  [c EXCEPT !.recovery[dest] =
            Plus(Plus(InputValue(c, r), MixValue(c, c.row[r].mix)), RowCombination(c, others))]

Substitute(c) == FoldLeft(SubstituteRow, c, c.peeled)

GenerateRecoveryBlocks(c) ==
    Substitute(BackSubstituteAboveDiagonal(AddSubdiagonalValues(
        MultiplyDenseValues(InitializeColumnValues(c)))))
=============================================================================
