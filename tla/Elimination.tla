---------------------------- MODULE Elimination ----------------------------
(***************************************************************************)
(* Compression and Gaussian elimination in the fountain codec              *)
(* (Codec::SetDeferredColumns to Codec::Triangle and                       *)
(* Codec::ResumeSolveMatrix in src/src/WirehairCodec.cpp).                 *)
(*                                                                         *)
(* A binary row of the matrix is the set of its columns that are one.      *)
(* The heavy corner has its coefficients in a field of four elements in    *)
(* place of the code's 256; the tables of that field are those of Gf256.   *)
(* The fields this stage adds to a codec are                               *)
(*   compress   row number -> binary row                                   *)
(*   ge         matrix row -> binary row                                   *)
(*   heavy      heavy row -> heavy column -> coefficient                   *)
(*   pivots, pivotCount, nextPivot, firstHeavyPivot   as in the code       *)
(*   rowMap, colMap   matrix row and column -> row and recovery column     *)
(***************************************************************************)
EXTENDS Peeling

CONSTANTS HeavyCols,      \* kHeavyCols
          HeavyMatrix,    \* kHeavyMatrix, rows and columns from zero
          MatrixDraws,    \* dense row -> the bits drawn for the invertible matrix
          ShuffleDraws    \* dense seed -> chunk -> four decks of random pieces

Xor(a, b) == (a \ b) \cup (b \ a)
XorAll(rows) == FoldLeft(Xor, {}, rows)       \* rows is a sequence of sets

Field == 0..3
FieldAdd(a, b) == ((a + b) % 2) + 2 * (((a \div 2) + (b \div 2)) % 2)
FieldMul(a, b) == IF a = 0 \/ b = 0 THEN 0 ELSE (((a - 1) + (b - 1)) % 3) + 1
FieldDiv(a, b) == IF a = 0 THEN 0 ELSE (((a - 1) - (b - 1)) % 3) + 1

----------------------------------------------------------------------------
(* Block values.  Every operation of the codec is linear, so a block is    *)
(* the combination of the message's blocks that it holds: symbol i is the  *)
(* part of block i every block has, up to the size of the last block.      *)
(* Symbol Rest is the rest of the first block, and Beyond is what lies in  *)
(* memory after the message, where the rest of the last block would be.    *)

Rest == BlockCount
Beyond == BlockCount + 1
Symbols == 0..Beyond

\* A combination is kept as the symbols whose coefficients have bit 0, and
\* those whose coefficients have bit 1.

Zero == [low |-> {}, high |-> {}]
Plus(u, v) == [low |-> Xor(u.low, v.low), high |-> Xor(u.high, v.high)]
Scale(k, u) ==
    CASE k = 0 -> Zero
      [] k = 1 -> u
      [] k = 2 -> [low |-> u.high, high |-> Xor(u.low, u.high)]
      [] k = 3 -> [low |-> Xor(u.low, u.high), high |-> u.low]
MulAdd(u, k, v) == Plus(u, Scale(k, v))                 \* gf256_muladd_mem
Divided(u, k) == Scale(FieldDiv(1, k), u)               \* gf256_div_mem

\* The first bytes of a block, with zeros after them.
Cut(u) == [low |-> u.low \ {Rest, Beyond}, high |-> u.high \ {Rest, Beyond}]

\* Row r's input block as the solver copies it: the row at the place of the
\* last block has _input_final_bytes.
InputValue(c, r) ==
    IF r = BlockCount - 1 /\ c.inputFinal = "partial" THEN Cut(c.input[r])
    ELSE c.input[r]

----------------------------------------------------------------------------
(* Shape of the matrix                                                     *)

DeferCount(c) == Len(c.deferCols)
ColumnCount(c) == DeferCount(c) + MixCount
FirstHeavyRow(c) == DeferCount(c) + DenseCount
HeavyColumns == IF MixCount < HeavyCols THEN MixCount ELSE HeavyCols
FirstHeavyColumn(c) == ColumnCount(c) - HeavyColumns

\* A fresh allocation is zero.  What is reused is cleared, but for the rows of
\* blocks that may still come.
AllocateMatrix(c) ==
    [c EXCEPT !.compress = [r \in DOMAIN c.row |-> {}],
              !.ge = [g \in 0..(FirstHeavyRow(c) + c.extra) |-> {}],
              !.heavy = [h \in 0..(HeavyRows + c.extra - 1) |->
                            [k \in 0..(HeavyColumns - 1) |-> 0]],
              !.pivots = [p \in 0..(ColumnCount(c) + c.extra - 1) |-> 0],
              !.rowMap = [g \in 0..(ColumnCount(c) + c.extra - 1) |-> 0],
              !.colMap = [g \in 0..(ColumnCount(c) - 1) |-> 0]]

----------------------------------------------------------------------------
(* Compression                                                             *)

\* Deferred columns come first in the matrix, in the order of their list.
SetDeferredColumns(c) ==
    LET place == [col \in ToSet(c.deferCols) |->
                    (CHOOSE g \in DOMAIN c.deferCols : c.deferCols[g] = col) - 1]
        bits(r) == {place[col] : col \in {d \in DOMAIN place : r \in ToSet(c.refs[d])}}
    IN  [c EXCEPT
           !.compress = [r \in DOMAIN @ |-> @[r] \cup bits(r)],
           !.colMap = [g \in DOMAIN @ |-> IF g < DeferCount(c) THEN c.deferCols[g + 1]
                                          ELSE BlockCount + (g - DeferCount(c))],
           !.aux = place @@ @]

\* The three mix columns of a row, one after the other.
MixBits(c, r) == XorAll([i \in 1..3 |-> {DeferCount(c) + c.row[r].mix[i]}])

SetMixingColumnsForDeferredRows(c) ==
    FoldLeft(LAMBDA d, r : [d EXCEPT !.row[r].marks[1] = LIST_TERM,
                                     !.compress[r] = Xor(@, MixBits(d, r))],
             c, c.deferRows)

PeelColumn(c, r) == c.row[r].marks[1]
IsCopied(c, r) == c.row[r].marks[2] = 1

\* Every other row with the peeled column gets the peeled row added, and the
\* value gathered for it as well if it is a peeled row itself.
SpreadPeeledRow(c, r) ==
    LET col    == PeelColumn(c, r)
        others == ToSet(c.refs[col]) \ {r}
        valued == {q \in others : PeelColumn(c, q) # LIST_TERM}
        base(q) == IF IsCopied(c, q) THEN c.recovery[PeelColumn(c, q)]
                                     ELSE InputValue(c, q)
        target == {PeelColumn(c, q) : q \in valued}
    IN  [c EXCEPT
           !.compress = [q \in others |-> Xor(@[q], @[r])] @@ @,
           !.recovery = [d \in target |->
               Plus(base(CHOOSE q \in valued : PeelColumn(c, q) = d), @[col])] @@ @,
           !.row = [q \in valued |->
               [@[q] EXCEPT !.marks = << PeelColumn(c, q), 1 >>]] @@ @]

PeelDiagonalRow(c, r) ==
    LET mixed == [c EXCEPT !.compress[r] = Xor(@, MixBits(c, r))]
    IN  SpreadPeeledRow(IF IsCopied(c, r) THEN mixed
                        ELSE [mixed EXCEPT !.recovery[PeelColumn(c, r)] = InputValue(c, r)],
                        r)

PeelDiagonal(c) == FoldLeft(PeelDiagonalRow, c, c.peeled)

CopyDeferredRows(c) ==
    LET places == DenseCount..(DenseCount + Len(c.deferRows) - 1)
        row(g) == c.deferRows[g - DenseCount + 1]
    IN  [c EXCEPT !.ge = [g \in places |-> c.compress[row(g)]] @@ @,
                  !.rowMap = [g \in places |-> row(g)] @@ @]

----------------------------------------------------------------------------
(* Dense rows.  The columns are cut into chunks of DenseCount.  In each, a *)
(* running combination starts from half of the chunk's columns; two more   *)
(* are flipped for each further row, and the rows come in shuffled order.  *)

Chunks == 0..((BlockCount - 1) \div DenseCount)

Deck(seed, chunk, i) == ShuffleDeck16(ShuffleDraws[seed][chunk][i], DenseCount)

\* The steps of a chunk: the dense row and the columns flipped before it.
DenseSteps(seed, chunk) ==
    LET rows == Deck(seed, chunk, 1)
        setCount == (DenseCount + 1) \div 2
        loopCount == DenseCount \div 2
        column(card) == chunk * DenseCount + card
        real(cards) == {column(card) : card \in {x \in cards : column(x) < BlockCount}}
        pair(bits, i) == {bits[i], bits[setCount + i]}
        flips(k) == IF k = 1 THEN {Deck(seed, chunk, 2)[i] : i \in 1..setCount}
                    ELSE IF k <= loopCount + 1 THEN pair(Deck(seed, chunk, 3), k - 1)
                    ELSE pair(Deck(seed, chunk, 4), k - 1 - loopCount)
    IN  [k \in 1..DenseCount |-> [row |-> rows[k], flips |-> real(flips(k))]]

\* A column of the sparse matrix as a binary row of the matrix to eliminate.
ColumnBits(c, col) == IF c.mark[col] = "PEEL" THEN c.compress[c.aux[col]] ELSE {c.aux[col]}

MultiplyDenseChunk(c, chunk) ==
    LET flip(bits, step) == FoldSet(LAMBDA col, b : Xor(b, ColumnBits(c, col)), bits, step.flips)
        add(st, step) == LET bits == flip(st.bits, step)
                         IN  [bits |-> bits, c |-> [st.c EXCEPT !.ge[step.row] = Xor(@, bits)]]
    IN  FoldLeft(add, [bits |-> {}, c |-> c], DenseSteps(c.dSeed, chunk)).c

MultiplyDenseRows(c) ==
    FoldLeft(MultiplyDenseChunk, c, SetToSortSeq(Chunks, <))

SetHeavyRows(c) ==
    [c EXCEPT !.heavy = [h \in c.extra..(c.extra + HeavyRows - 1) |->
        [k \in 0..(HeavyColumns - 1) |-> HeavyMatrix[h - c.extra][k]]] @@ @]

AddInvertibleGF2Matrix(c) ==
    [c EXCEPT !.ge = [g \in 0..(DenseCount - 1) |->
        Xor(@[g], {DeferCount(c) + k : k \in InvertibleGF2Matrix(MatrixDraws, DenseCount)[g]})] @@ @]

----------------------------------------------------------------------------
(* Triangular form                                                         *)

Exchange(f, a, b) == [f EXCEPT ![a] = f[b], ![b] = f[a]]

\* An extra row that found no column yet goes to the end, with the heavy rows;
\* every extra row copies its bits into the heavy corner.
InsertExtraRow(c, p) ==
    LET g    == c.pivots[p]
        h    == g - FirstHeavyRow(c)
        last == c.firstHeavyPivot - 1
        kept == [c EXCEPT !.heavy[h] = [k \in DOMAIN @ |->
                    IF FirstHeavyColumn(c) + k \in c.ge[g] THEN 1 ELSE 0]]
    IN  IF g < FirstHeavyRow(c) THEN c
        ELSE IF p < c.nextPivot THEN kept
        ELSE [kept EXCEPT !.pivots = Exchange(@, p, last), !.firstHeavyPivot = last]

InsertHeavyRows(c) ==
    LET from  == [c EXCEPT !.firstHeavyPivot = c.pivotCount]
        after == FoldLeft(LAMBDA d, k : InsertExtraRow(d, c.pivotCount - k),
                          from, [k \in 1..c.pivotCount |-> k])
    IN  [after EXCEPT
           !.pivots = [p \in c.pivotCount..(c.pivotCount + HeavyRows - 1) |->
               FirstHeavyRow(c) + c.extra + (p - c.pivotCount)] @@ @,
           !.pivotCount = @ + HeavyRows]

SetupTriangle(c) ==
    LET count == DeferCount(c) + DenseCount
        ready == [c EXCEPT !.pivots = [p \in 0..(count - 1) |-> p] @@ @,
                           !.nextPivot = 0, !.pivotCount = count]
    IN  IF FirstHeavyColumn(c) <= 0 THEN InsertHeavyRows(ready) ELSE ready

\* The part of a binary row to the right of a column.
BitsAfter(bits, i) == {b \in bits : b > i}

\* The rows of a set that have column i lose it to the pivot row.  The bit
\* stays, as a record of the addition.
EliminateLight(c, i, pivotRow, rows) ==
    [c EXCEPT !.ge = [g \in {h \in rows : i \in @[h]} |->
        Xor(@[g], BitsAfter(@[pivotRow], i))] @@ @]

PivotRows(c, from, to) == {c.pivots[p] : p \in from..to}
Smallest(S) == CHOOSE x \in S : \A y \in S : x <= y

\* Both halves of the elimination return whether every pivot was found.
RECURSIVE NonHeavyPivots(_, _)
NonHeavyPivots(c, i) ==
    LET found == {p \in i..(c.pivotCount - 1) : i \in c.ge[c.pivots[p]]}
        p     == Smallest(found)
        g     == c.pivots[p]
    IN  IF i >= FirstHeavyColumn(c)
        THEN << TRUE, InsertHeavyRows([c EXCEPT !.nextPivot = i]) >>
        ELSE IF found = {} THEN << FALSE, [c EXCEPT !.nextPivot = i] >>
        ELSE NonHeavyPivots(
                EliminateLight([c EXCEPT !.pivots = Exchange(@, p, i)], i, g,
                               PivotRows(c, p + 1, c.pivotCount - 1)),
                i + 1)

TriangleNonHeavy(c) == NonHeavyPivots(c, c.nextPivot)

\* The columns right of a pivot, as the four-column look-up visits them: up to
\* three by themselves, then whole groups.  It may pass the last column.
OddColumns(i) == {i + k : k \in 1..(3 - (i % 4))}
AlignedColumns(i, count) ==
    {j \in (i + 4 - (i % 4))..(count + 2) : \E s \in (i + 4 - (i % 4))..(count - 1) :
        /\ s % 4 = 0
        /\ j \in s..(s + 3)}
VisitedColumns(i, count) == OddColumns(i) \cup AlignedColumns(i, count)

HeavyRowsToClear(c, k, rows) ==
    {h \in DOMAIN c.heavy : FirstHeavyRow(c) + h \in rows /\ c.heavy[h][k] # 0}

\* A binary pivot row is added, times the coefficient they have in its column,
\* to the heavy rows.
EliminateHeavyByLight(c, i, pivotRow, rows) ==
    LET k == i - FirstHeavyColumn(c)
        hit == {j - FirstHeavyColumn(c) :
                   j \in VisitedColumns(i, ColumnCount(c)) \cap c.ge[pivotRow]}
    IN  [c EXCEPT !.heavy = [h \in HeavyRowsToClear(c, k, rows) |->
            [m \in hit |-> FieldAdd(@[h][m], @[h][k])] @@ @[h]] @@ @]

\* A heavy pivot row is added to the heavy rows below; the factor stays.
EliminateHeavy(c, i, pivotRow, rows) ==
    LET k == i - FirstHeavyColumn(c)
        pivot == c.heavy[pivotRow - FirstHeavyRow(c)]
        factor(h) == FieldDiv(c.heavy[h][k], pivot[k])
        right == {m \in DOMAIN pivot : m > k}
    IN  [c EXCEPT !.heavy = [h \in HeavyRowsToClear(c, k, rows) |->
            (k :> factor(h))
              @@ [m \in right |-> FieldAdd(@[h][m], FieldMul(factor(h), pivot[m]))]
              @@ @[h]] @@ @]

\* Bug: the light rows do not grow over the first heavy one.
TakeHeavyPivotOnly(c, i, p) == [c EXCEPT !.pivots = Exchange(c.pivots, p, i)]

\* A heavy row takes pivot i.  If that place held a light row, the light rows
\* grow by one over the first heavy one.
TakeHeavyPivot(c, i, p) ==
    LET swapped == Exchange(c.pivots, p, i)
    IN  IF i < c.firstHeavyPivot
        THEN [c EXCEPT !.pivots = Exchange(swapped, c.firstHeavyPivot, p),
                       !.firstHeavyPivot = @ + 1]
        ELSE [c EXCEPT !.pivots = swapped]

HeavyCode(c, g, i) == c.heavy[g - FirstHeavyRow(c)][i - FirstHeavyColumn(c)]

RECURSIVE HeavyPivots(_, _)
HeavyPivots(c, i) ==
    LET light == {p \in i..(c.firstHeavyPivot - 1) : i \in c.ge[c.pivots[p]]}
        first == IF i > c.firstHeavyPivot THEN i ELSE c.firstHeavyPivot
        heavy == {p \in first..(c.pivotCount - 1) : HeavyCode(c, c.pivots[p], i) # 0}
        byLight == LET p == Smallest(light)
                       g == c.pivots[p]
                       d == EliminateLight([c EXCEPT !.pivots = Exchange(@, p, i)], i, g,
                                           PivotRows(c, p + 1, c.firstHeavyPivot - 1))
                   IN  EliminateHeavyByLight(d, i, g,
                            PivotRows(c, c.firstHeavyPivot, c.pivotCount - 1))
        byHeavy == LET p == Smallest(heavy)
                       d == TakeHeavyPivot(c, i, p)
                   IN  EliminateHeavy(d, i, c.pivots[p],
                            PivotRows(d, p + 1, c.pivotCount - 1))
    IN  CASE i >= ColumnCount(c) -> << TRUE, c >>
          [] i < ColumnCount(c) /\ light # {} -> HeavyPivots(byLight, i + 1)
          [] i < ColumnCount(c) /\ light = {} /\ heavy # {} -> HeavyPivots(byHeavy, i + 1)
          [] OTHER -> << FALSE, [c EXCEPT !.nextPivot = i] >>

\* The count of light pivots and the place to resume are stored only when a
\* pivot is missing.
Triangle(c) ==
    LET light == IF c.nextPivot < FirstHeavyColumn(c) THEN TriangleNonHeavy(c)
                 ELSE << TRUE, c >>
        all   == HeavyPivots(light[2], light[2].nextPivot)
    IN  IF ~light[1] THEN light
        ELSE IF all[1]
        THEN << TRUE, [all[2] EXCEPT !.firstHeavyPivot = light[2].firstHeavyPivot] >>
        ELSE all
=============================================================================
