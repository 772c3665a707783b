------------------------------ MODULE Peeling ------------------------------
(***************************************************************************)
(* The peeling stage of the fountain codec (Codec::OpportunisticPeeling to *)
(* Codec::GreedyPeeling in src/src/WirehairCodec.cpp).  Each row of the    *)
(* sparse matrix references a few of the BlockCount columns; a row whose   *)
(* columns are all solved but one solves that one, and what it solves may  *)
(* let other rows solve theirs.                                            *)
(*                                                                         *)
(* A codec is a record.  The fields of this stage are                      *)
(*   row        row number -> id, columns, mix columns, UnmarkedCount and  *)
(*              the two overlapping marks                                  *)
(*   mark, aux  column -> its mark, and the field that is in turn its      *)
(*              Weight2Refs, its PeelRow and its GEColumn                  *)
(*   refs       column -> the rows that reference it                       *)
(*   peeled, deferRows, deferCols   the linked lists, head first           *)
(***************************************************************************)
EXTENDS WirehairTools

CONSTANTS BlockCount,     \* N, the blocks of a message
          DenseCount,     \* the dense rows of a message of that size
          HeavyRows,      \* kHeavyRows
          RefListMax,     \* CAT_REF_LIST_MAX, the rows a column can list
          Draws           \* seed -> row id -> what the generator draws for it

MixCount == DenseCount + HeavyRows
LIST_TERM == 65535
Columns == 0..(BlockCount - 1)

RowParams(seed, id) == PeelRowParameters(Draws[seed][id], BlockCount, MixCount)

\* The columns and the mix columns that the row of an id references.
PeelColumnsOf(seed, id) == PeelRowIterator(RowParams(seed, id), BlockCount)
MixColumnsOf(seed, id) == RowMixIterator(RowParams(seed, id), MixCount)

IsTodo(c, col) == c.mark[col] = "TODO"
Unmarked(c, cols) == SelectSeq(cols, LAMBDA col : IsTodo(c, col))
CountWeight2(c, cols) ==
    [c EXCEPT !.aux = [col \in ToSet(cols) |-> @[col] + 1] @@ @]

DeferRow(c, r) == [c EXCEPT !.deferRows = <<r>> \o @]

----------------------------------------------------------------------------
(* The avalanche: solving a column with a row, and what follows from it    *)

RECURSIVE SolveWithPeel(_, _, _)
RECURSIVE PeelAvalancheOnSolve(_, _)

\* A row of the solved column that has one unmarked column left.
AvalancheLast(c, r, col) ==
    LET marks == c.row[r].marks
        other == IF marks[1] = col THEN marks[2] ELSE marks[1]
    IN  IF IsTodo(c, other) THEN SolveWithPeel(c, r, other) ELSE DeferRow(c, r)

\* A row of the solved column that now counts two unmarked columns.  Its
\* columns are looked at again, and some may have been marked meanwhile.
AvalanchePair(c, r) ==
    LET todo    == Unmarked(c, c.row[r].columns)
        counted == CountWeight2(c, todo)
        stored  == [counted EXCEPT !.row[r].marks =
                        [m \in 1..2 |-> IF m <= Len(todo) THEN todo[m] ELSE @[m]]]
        closed  == [stored EXCEPT !.row[r].count = 0]
    IN  CASE Len(todo) = 0 -> DeferRow(closed, r)
          [] Len(todo) = 1 -> SolveWithPeel(closed, r, todo[1])
          [] OTHER         -> stored

AvalancheRow(c, r, col) ==
    LET left    == (c.row[r].count - 1) % W16
        counted == [c EXCEPT !.row[r].count = left]
    IN  CASE left = 1 -> AvalancheLast(counted, r, col)
          [] left = 2 -> AvalanchePair(counted, r)
          [] OTHER    -> counted

PeelAvalancheOnSolve(c, col) ==
    FoldLeft(LAMBDA d, r : AvalancheRow(d, r, col), c, c.refs[col])

\* Bug: the row is listed only after what follows from it.
SolveWithPeelLate(c, r, col) ==
    LET marked == [c EXCEPT !.mark[col] = "PEEL", !.row[r].marks = <<col, 0>>]
        solved == PeelAvalancheOnSolve(marked, col)
    IN  [solved EXCEPT !.aux[col] = r, !.peeled = Append(@, r)]

SolveWithPeel(c, r, col) ==
    LET marked == [c EXCEPT !.mark[col] = "PEEL",
                            !.row[r].marks = <<col, 0>>,
                            !.peeled = Append(@, r)]
    IN  [PeelAvalancheOnSolve(marked, col) EXCEPT !.aux[col] = r]

----------------------------------------------------------------------------
(* A row arrives                                                           *)

AddReferences(refs, r, cols) ==
    [col \in ToSet(cols) |-> Append(refs[col], r)] @@ refs

\* Bug: the references of a row that is refused stay.
KeepReferences(refs, cols, failed) == refs

\* The columns before the one that failed forget the row again.
FixPeelFailure(refs, cols, failed) ==
    [col \in ToSet(SubSeq(cols, 1, failed - 1)) |-> Front(refs[col])] @@ refs

\* Returns whether the row was taken, and the codec.
OpportunisticPeeling(c, r, id) ==
    LET cols  == PeelColumnsOf(c.pSeed, id)
        full  == {k \in DOMAIN cols : Len(c.refs[cols[k]]) >= RefListMax}
        taken == IF full = {} THEN cols
                 ELSE SubSeq(cols, 1, (CHOOSE k \in full : \A j \in full : k <= j) - 1)
        todo  == Unmarked(c, cols)
        noted == [c EXCEPT
                    !.row[r].id = id,
                    !.row[r].columns = cols,
                    !.row[r].mix = MixColumnsOf(c.pSeed, id),
                    !.refs = AddReferences(@, r, taken)]
        ready == [noted EXCEPT !.row[r].count = Len(todo)]
    IN  IF full # {}
        THEN << FALSE, [noted EXCEPT !.refs = FixPeelFailure(@, cols, Len(taken) + 1)] >>
        ELSE << TRUE,
                CASE Len(todo) = 0 -> DeferRow(ready, r)
                  [] Len(todo) = 1 -> SolveWithPeel(ready, r, todo[1])
                  [] Len(todo) = 2 -> CountWeight2([ready EXCEPT !.row[r].marks = todo], todo)
                  [] OTHER         -> ready >>

----------------------------------------------------------------------------
(* What no row solves is deferred, the most useful column first            *)

\* Most weight-2 rows, then most rows, then the highest number.
BetterColumn(c, a, b) ==
    \/ c.aux[a] > c.aux[b]
    \/ c.aux[a] = c.aux[b] /\ Len(c.refs[a]) > Len(c.refs[b])
    \/ c.aux[a] = c.aux[b] /\ Len(c.refs[a]) = Len(c.refs[b]) /\ a >= b

RECURSIVE DeferColumns(_)
DeferColumns(c) ==
    LET todo == {col \in Columns : IsTodo(c, col)}
    IN  IF todo = {} THEN c
        ELSE LET best == CHOOSE a \in todo : \A b \in todo : BetterColumn(c, a, b)
             IN  DeferColumns(PeelAvalancheOnSolve(
                     [c EXCEPT !.mark[best] = "DEFER",
                               !.deferCols = <<best>> \o @], best))

GreedyPeeling(c) == DeferColumns([c EXCEPT !.deferCols = <<>>])
=============================================================================
