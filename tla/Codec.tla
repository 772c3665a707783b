------------------------------- MODULE Codec -------------------------------
(***************************************************************************)
(* The fountain codec behind its interface (src/src/wirehair.cpp and the   *)
(* drivers of src/src/WirehairCodec.cpp): an encoder makes blocks of a     *)
(* message without end, a decoder takes blocks of one message until it can *)
(* return the message.                                                     *)
(*                                                                         *)
(*   initialised   m_init of wirehair.cpp                                  *)
(*   tables        the seeds the tables hold for a message of this size    *)
(*   enc, dec      the encoder's and the decoder's codec, or None          *)
(*   uses          how often the encoder's codec was set up                *)
(*   wire          the blocks that exist, by id: those of the message, and *)
(*                 those the encoder made                                  *)
(*   fed           the ids given to the decoder, in order                  *)
(*   verdict       what the last call of the decoder returned              *)
(*   out           the message that wirehair_recover wrote, or None        *)
(***************************************************************************)
EXTENDS Substitution

CONSTANTS ExtraRows,      \* CAT_MAX_EXTRA_ROWS
          PeelSeeds, DenseSeeds,   \* the seeds that tables can hold
          Ids,            \* the block ids in use, 0..BlockCount-1 among them
          MaxUses         \* bound: how often the encoder is set up

None == [none |-> TRUE]

VARIABLES initialised, tables, enc, dec, uses, wire, fed, verdict, out
vars == << initialised, tables, enc, dec, uses, wire, fed, verdict, out >>
decoding == << dec, fed, verdict, out >>

\* Block i of the message as it lies in memory: the first shows what becomes
\* of its last bytes, and after the last block comes what is not the message.
Unit(s) == [low |-> {s}, high |-> {}]
MessageBlock(i) ==
    CASE i = 0 -> Plus(Unit(0), Unit(Rest))
      [] i = BlockCount - 1 -> Plus(Unit(i), Unit(Beyond))
      [] OTHER -> Unit(i)

----------------------------------------------------------------------------
(* Set-up and the solver                                                   *)

\* A codec object before its first use.
NewCodec ==
    [ pSeed |-> 0, dSeed |-> 0, extra |-> 0, inputFinal |-> "full",
      allOriginal |-> FALSE, outOfOrder |-> FALSE, rowCount |-> 0,
      row |-> << >>, mark |-> << >>, aux |-> << >>, refs |-> << >>,
      peeled |-> << >>, deferRows |-> << >>, deferCols |-> << >>,
      compress |-> << >>, ge |-> << >>, heavy |-> << >>, pivots |-> << >>,
      pivotCount |-> 0, nextPivot |-> 0, firstHeavyPivot |-> 0,
      rowMap |-> << >>, colMap |-> << >>, input |-> << >>, recovery |-> << >> ]

\* ChooseMatrix for a size in range: the seeds come from the tables, and the
\* lists of rows are emptied.
ChooseMatrix(c, pSeed, dSeed) ==
    [c EXCEPT !.pSeed = pSeed, !.dSeed = dSeed, !.peeled = << >>, !.deferRows = << >>]

BlankRow == [id |-> 0, columns |-> << >>, mix |-> << >>, count |-> 0, marks |-> <<0, 0>>]

\* Columns are reset; rows and blocks keep what an earlier use left there.
AllocateWorkspace(c) ==
    LET rows == 0..(BlockCount + c.extra - 1)
    IN  [c EXCEPT
           !.row = [r \in rows |-> IF r \in DOMAIN @ THEN @[r] ELSE BlankRow],
           !.recovery = [col \in 0..TempColumn |-> IF col \in DOMAIN @ THEN @[col] ELSE Zero],
           !.refs = [col \in Columns |-> << >>],
           !.mark = [col \in Columns |-> "TODO"],
           !.aux = [col \in Columns |-> 0]]

\* The result of the search for pivots, and the codec.
TriangleResult(done) == << IF done[1] THEN "Success" ELSE "NeedMore", done[2] >>

SolveMatrix(c) ==
    TriangleResult(Triangle(SetupTriangle(AddInvertibleGF2Matrix(SetHeavyRows(
        MultiplyDenseRows(CopyDeferredRows(PeelDiagonal(SetMixingColumnsForDeferredRows(
            SetDeferredColumns(AllocateMatrix(GreedyPeeling(c))))))))))))

\* Blocks are made only of a matrix that was solved.
GenerateIfSolved(outcome) ==
    IF outcome[1] = "Success" THEN << "Success", GenerateRecoveryBlocks(outcome[2]) >>
    ELSE outcome

----------------------------------------------------------------------------
(* A block after the first N                                               *)

\* The place in the pivot list for a new row: a new one, or that of the first
\* unused extra row when all are taken.  Place zero stands for none.
ReusablePlaces(c) ==
    {p \in c.nextPivot..(c.pivotCount - 1) :
        c.pivots[p] \in FirstHeavyRow(c)..(FirstHeavyRow(c) + c.extra - 1)}
ResumePlace(c) ==
    IF c.rowCount < BlockCount + c.extra THEN c.pivotCount
    ELSE IF ReusablePlaces(c) = {} THEN 0 ELSE Smallest(ReusablePlaces(c))

\* The row's own slot, matrix row and input.
StoreExtraRow(c, place, id, value) ==
    LET new == c.rowCount < BlockCount + c.extra
        g == IF new THEN FirstHeavyRow(c) + c.rowCount - BlockCount ELSE c.pivots[place]
        r == IF new THEN c.rowCount ELSE c.rowMap[g]
    IN  [c EXCEPT
           !.pivotCount = IF new THEN @ + 1 ELSE @,
           !.rowCount = IF new THEN @ + 1 ELSE @,
           !.rowMap[g] = r,
           !.pivots[place] = g,
           !.row[r].id = id,
           !.row[r].columns = PeelColumnsOf(c.pSeed, id),
           !.row[r].mix = MixColumnsOf(c.pSeed, id),
           !.input[r] = IF id = BlockCount - 1 THEN Cut(value) ELSE value]

\* Bug: the last pivot found is not taken out.
ResumeBitsShort(c, g) ==
    LET r == c.rowMap[g]
        raw == FoldLeft(LAMBDA b, col : Xor(b, ColumnBits(c, col)),
                        MixBits(c, r), c.row[r].columns)
        last == IF c.nextPivot < FirstHeavyColumn(c) THEN c.nextPivot ELSE FirstHeavyColumn(c)
    IN  FoldLeft(LAMBDA b, j : IF j \in b THEN Xor(b, BitsAfter(c.ge[c.pivots[j]], j)) ELSE b,
                 raw, [k \in 1..(last - 1) |-> k - 1])

\* The row in terms of the matrix, with the light pivots found so far taken out.
ResumeBits(c, g) ==
    LET r == c.rowMap[g]
        raw == FoldLeft(LAMBDA b, col : Xor(b, ColumnBits(c, col)),
                        MixBits(c, r), c.row[r].columns)
        last == IF c.nextPivot < FirstHeavyColumn(c) THEN c.nextPivot ELSE FirstHeavyColumn(c)
    IN  FoldLeft(LAMBDA b, j : IF j \in b THEN Xor(b, BitsAfter(c.ge[c.pivots[j]], j)) ELSE b,
                 raw, [k \in 1..last |-> k - 1])

\* The heavy part of the row, with the heavy pivots found so far taken out.  The
\* factor of each stays in its place.
ResumeHeavyStep(c, row, j) ==
    LET k == j - FirstHeavyColumn(c)
        g == c.pivots[j]
        code == row[k]
        pivot == c.heavy[g - FirstHeavyRow(c)]
        factor == FieldDiv(code, pivot[k])
        right == {m \in DOMAIN row : m > k}
    IN  IF code = 0 THEN row
        ELSE IF g >= FirstHeavyRow(c)
        THEN (k :> factor) @@ [m \in right |-> FieldAdd(row[m], FieldMul(factor, pivot[m]))] @@ row
        ELSE [m \in {n \in right : FirstHeavyColumn(c) + n \in c.ge[g]} |->
                FieldAdd(row[m], code)] @@ row

ResumeHeavy(c, bits) ==
    FoldLeft(LAMBDA row, j : ResumeHeavyStep(c, row, j),
             [k \in 0..(HeavyColumns - 1) |-> IF FirstHeavyColumn(c) + k \in bits THEN 1 ELSE 0],
             [n \in 1..(c.nextPivot - FirstHeavyColumn(c)) |-> FirstHeavyColumn(c) + n - 1])

\* The new row takes the pivot that was missing.
TakeMissingPivot(c, place, g) ==
    IF c.nextPivot >= FirstHeavyColumn(c) /\ c.nextPivot < c.firstHeavyPivot
    THEN [c EXCEPT !.pivots = [@ EXCEPT ![place] = c.pivots[c.firstHeavyPivot],
                                        ![c.firstHeavyPivot] = c.pivots[c.nextPivot],
                                        ![c.nextPivot] = g],
                   !.firstHeavyPivot = @ + 1]
    ELSE [c EXCEPT !.pivots = [@ EXCEPT ![place] = c.pivots[c.nextPivot],
                                        ![c.nextPivot] = g]]

ContinueTriangle(c) ==
    LET next == [c EXCEPT !.nextPivot = @ + 1]
    IN  TriangleResult(Triangle(
            IF next.nextPivot = FirstHeavyColumn(c) THEN InsertHeavyRows(next) ELSE next))

\* Row g of the matrix, with the columns solved so far taken out.
ResumeRow(c, g) ==
    LET bits == ResumeBits(c, g)
        staged == [c EXCEPT !.ge[g] = bits]
    IN  IF c.nextPivot < FirstHeavyColumn(c) THEN staged
        ELSE [staged EXCEPT !.heavy[g - FirstHeavyRow(c)] = ResumeHeavy(staged, bits)]

HasMissingPivot(c, g) ==
    IF c.nextPivot < FirstHeavyColumn(c) THEN c.nextPivot \in c.ge[g]
    ELSE HeavyCode(c, g, c.nextPivot) # 0

TryPivot(c, place) ==
    IF HasMissingPivot(c, c.pivots[place])
    THEN ContinueTriangle(TakeMissingPivot(c, place, c.pivots[place]))
    ELSE << "NeedMore", c >>

ResumeAt(c, place) == TryPivot(ResumeRow(c, c.pivots[place]), place)

ResumeSolveMatrix(c, id, value) ==
    LET place == ResumePlace(c)
    IN  IF place = 0 THEN << "ExtraInsufficient", c >>
        ELSE ResumeAt(StoreExtraRow(c, place, id, value), place)

----------------------------------------------------------------------------
(* The encoder                                                             *)

InitializeEncoder(c, pSeed, dSeed) ==
    AllocateWorkspace([ChooseMatrix(c, pSeed, dSeed) EXCEPT
        !.inputFinal = "partial", !.extra = 0, !.outOfOrder = FALSE])

\* Rows are fed until one does not find room.
FeedMessage(c) ==
    FoldLeft(LAMBDA st, i : IF st[1] THEN OpportunisticPeeling(st[2], i, i) ELSE st,
             << TRUE, [c EXCEPT !.input = [i \in Columns |-> MessageBlock(i)]] >>,
             [k \in 1..BlockCount |-> k - 1])

\* An encoder needs every row and every pivot.
OrBadSeed(outcome) ==
    IF outcome[1] = "Success" THEN outcome ELSE << "BadPeelSeed", outcome[2] >>
SolveIfFed(fedAll) ==
    IF fedAll[1] THEN GenerateIfSolved(SolveMatrix(fedAll[2]))
    ELSE << "BadPeelSeed", fedAll[2] >>

EncodeFeed(c) == OrBadSeed(SolveIfFed(FeedMessage(c)))

\* A block as a row of the matrix makes it of the recovery blocks.
RowValue(c, id) ==
    Plus(RowCombination(c, PeelColumnsOf(c.pSeed, id)), MixValue(c, MixColumnsOf(c.pSeed, id)))

\* The block id is compared with the last block's in 16 bits.
Encode(c, id) ==
    LET value == IF id < BlockCount /\ ~c.outOfOrder THEN c.input[id] ELSE RowValue(c, id)
    IN  IF id % W16 = BlockCount - 1 /\ c.inputFinal = "partial" THEN Cut(value) ELSE value

----------------------------------------------------------------------------
(* The decoder                                                             *)

InitializeDecoder(c, pSeed, dSeed) ==
    LET ready == [ChooseMatrix(c, pSeed, dSeed) EXCEPT
                    !.rowCount = 0, !.inputFinal = "full", !.extra = ExtraRows,
                    !.allOriginal = TRUE, !.outOfOrder = TRUE,
                    !.input = [r \in 0..(BlockCount + ExtraRows - 1) |-> Zero]]
    IN  AllocateWorkspace(ready)

\* Every row below the count is a different block of the message.
IsAllOriginalData(c) ==
    Cardinality({c.row[r].id : r \in 0..(c.rowCount - 1)} \cap Columns) >= BlockCount

\* One of the first N blocks is kept, and the last of them starts the solver.
KeepRow(c, value) ==
    LET stored == [c EXCEPT !.input[c.rowCount] = value, !.rowCount = @ + 1]
    IN  IF stored.rowCount # BlockCount THEN << "NeedMore", stored >>
        ELSE IF ~stored.allOriginal THEN GenerateIfSolved(SolveMatrix(stored))
        ELSE IF IsAllOriginalData(stored) THEN << "Success", stored >>
        ELSE << "InvalidInput", [stored EXCEPT !.allOriginal = FALSE] >>

KeepIfPeeled(peeled, value) ==
    IF peeled[1] THEN KeepRow(peeled[2], value) ELSE << "NeedMore", peeled[2] >>

StoreRow(c, id, value) ==
    KeepIfPeeled(OpportunisticPeeling(c, c.rowCount, id),
                 IF id = BlockCount - 1 THEN Cut(value) ELSE value)

\* Callers give every block in its full size.
DecodeFeed(c, id, value) ==
    LET noted == [c EXCEPT !.allOriginal = @ /\ id < BlockCount]
    IN  IF c.rowCount >= BlockCount
        THEN GenerateIfSolved(ResumeSolveMatrix(noted, id, value))
        ELSE StoreRow(noted, id, value)

\* The message: what came in as it was sent, the rest made again.  The size of
\* the last block cuts it.
ReconstructOutput(c) ==
    LET received(i) == {r \in 0..(c.rowCount - 1) : c.row[r].id = i}
        block(i) == IF received(i) = {} THEN RowValue(c, i)
                    ELSE c.input[CHOOSE r \in received(i) : \A q \in received(i) : q <= r]
    IN  [i \in Columns |-> IF i = BlockCount - 1 THEN Cut(block(i)) ELSE block(i)]

\* One block, which a decoder that was given all of them looks up.
ReconstructBlock(c, i) ==
    LET received == {r \in 0..(c.rowCount - 1) : c.row[r].id = i}
        value == IF c.allOriginal THEN c.input[Smallest(received)] ELSE RowValue(c, i)
    IN  IF i = BlockCount - 1 THEN Cut(value) ELSE value

\* Bug: the decoder is taken to be solved.
EncoderFromDecoderUnsolved(c) == << "Success", [c EXCEPT !.inputFinal = "partial"] >>

\* A decoder that was given the whole message solves it only now.
PartialIfSolved(outcome) ==
    [outcome EXCEPT ![2].inputFinal = IF outcome[1] = "Success" THEN "partial" ELSE @]

InitializeEncoderFromDecoder(c) ==
    PartialIfSolved(OrBadSeed(IF c.allOriginal THEN GenerateIfSolved(SolveMatrix(c))
                              ELSE << "Success", c >>))

----------------------------------------------------------------------------
(* The interface                                                           *)

\* What a codec object still holds of a message of an earlier use: to the next
\* message it is as foreign as what lies behind that one in memory.
Foreign(c) ==
    [c EXCEPT !.recovery = [col \in DOMAIN @ |-> Unit(Beyond)],
              !.input = [r \in DOMAIN @ |-> Unit(Beyond)]]

Message == [i \in Columns |-> IF i = BlockCount - 1 THEN Cut(MessageBlock(i)) ELSE MessageBlock(i)]

Init == /\ initialised = FALSE
        /\ tables \in [peel : PeelSeeds, dense : DenseSeeds]
        /\ enc = None /\ dec = None
        /\ uses = 0
        /\ wire = Message
        /\ fed = << >>
        /\ verdict = "None"
        /\ out = None

WirehairInit ==
    /\ ~initialised
    /\ initialised' = TRUE
    /\ UNCHANGED << tables, enc, dec, uses, wire, decoding >>

\* A codec that cannot be made is deleted, the one that was reused as well.
EncoderCreate ==
    /\ initialised /\ uses < MaxUses /\ dec = None
    /\ \E made \in {EncodeFeed(InitializeEncoder(IF enc = None THEN NewCodec ELSE Foreign(enc),
                                                tables.peel, tables.dense))} :
          enc' = IF made[1] = "Success" THEN made[2] ELSE None
    /\ uses' = uses + 1
    /\ UNCHANGED << initialised, tables, wire, decoding >>

\* Repair blocks are made in the order of their ids.
EncodeBlock ==
    /\ enc # None /\ dec = None
    /\ \E id \in Ids \ DOMAIN wire :
          /\ \A other \in Ids \ DOMAIN wire : id <= other
          /\ wire' = [i \in DOMAIN wire \cup {id} |-> IF i = id THEN Encode(enc, id) ELSE wire[i]]
    /\ UNCHANGED << initialised, tables, enc, uses, decoding >>

\* The decoder works in another run of the program, after all encoding.
DecoderCreate ==
    /\ initialised /\ dec = None /\ Ids \subseteq DOMAIN wire
    /\ dec' = InitializeDecoder(NewCodec, tables.peel, tables.dense)
    /\ fed' = << >> /\ verdict' = "NeedMore" /\ out' = None
    /\ UNCHANGED << initialised, tables, enc, uses, wire >>

\* Every block is given once, the message's own blocks first and in order, and
\* none after the decoder has enough.
Decode(id) ==
    /\ dec # None /\ verdict \in {"NeedMore", "ExtraInsufficient"}
    /\ id \notin ToSet(fed)
    /\ \A k \in DOMAIN fed : id < BlockCount => fed[k] < id
    /\ \E result \in {DecodeFeed(dec, id, wire[id])} :
          /\ verdict' = result[1]
          /\ dec' = result[2]
    /\ fed' = Append(fed, id)
    /\ UNCHANGED << initialised, tables, enc, uses, wire, out >>

Recover ==
    /\ dec # None /\ verdict = "Success" /\ out = None
    /\ out' = ReconstructOutput(dec)
    /\ UNCHANGED << initialised, tables, enc, dec, uses, wire, fed, verdict >>

BecomesEncoder ==
    /\ dec # None /\ verdict = "Success" /\ out # None
    /\ \E turned \in {InitializeEncoderFromDecoder(dec)} :
          /\ verdict' = IF turned[1] = "Success" THEN "Encoder" ELSE turned[1]
          /\ dec' = turned[2]
    /\ UNCHANGED << initialised, tables, enc, uses, wire, fed, out >>

Free ==
    /\ dec # None
    /\ dec' = None /\ fed' = << >> /\ verdict' = "None" /\ out' = None
    /\ UNCHANGED << initialised, tables, enc, uses, wire >>

Next == \/ WirehairInit \/ EncoderCreate \/ EncodeBlock
        \/ DecoderCreate \/ (\E id \in Ids : Decode(id))
        \/ Recover \/ BecomesEncoder \/ Free

Spec == Init /\ [][Next]_vars

----------------------------------------------------------------------------
(* Properties                                                              *)

\* What the decoder returns once it says it succeeded is the message: through
\* peeling, elimination, replay in windows and substitution, from whichever
\* blocks it was given (wirehair_recover), and one block at a time it returns the
\* same (wirehair_recover_block).
RecoverIsExact ==
    /\ out # None => out = Message
    /\ dec # None /\ verdict = "Success" =>
         \A i \in Columns : ReconstructBlock(dec, i) = Message[i]

\* An encoder's matrix gives back the message's own blocks, the last one up to
\* its size: an encoder that was accepted is systematic (Codec::EncodeFeed).
EncoderIsSystematic ==
    enc # None =>
        \A i \in Columns :
            (IF i = BlockCount - 1 THEN Cut(RowValue(enc, i)) ELSE RowValue(enc, i)) = Message[i]

\* An encoder in a reused codec makes the blocks that a fresh one makes: nothing
\* of the earlier message is left in them (reuseOpt of wirehair_encoder_create;
\* whpar itself never hands over a codec to be reused).
ReuseMakesTheSame ==
    enc # None => \A id \in DOMAIN wire : Encode(enc, id) = wire[id]

\* A decoder that becomes an encoder makes the blocks its encoder made
\* (wirehair_decoder_becomes_encoder, which whpar itself does not call).
DecoderEncodesTheSame ==
    verdict = "Encoder" => \A id \in Ids : Encode(dec, id) = wire[id]

\* The equations the columns satisfy, as combinations of columns.
MatrixColumns == 0..(BlockCount + MixCount - 1)
RowEquation(id) ==
    [low |-> ToSet(PeelColumnsOf(tables.peel, id))
               \cup {BlockCount + m : m \in ToSet(MixColumnsOf(tables.peel, id))},
     high |-> {}]
DenseEquation(g) ==
    LET until(chunk) == CHOOSE k \in 1..DenseCount : DenseSteps(tables.dense, chunk)[k].row = g
        part(chunk) == XorAll([k \in 1..until(chunk) |-> DenseSteps(tables.dense, chunk)[k].flips])
        parts == UNION {part(chunk) : chunk \in Chunks}
    IN  [low |-> parts \cup {BlockCount + m : m \in InvertibleGF2Matrix(MatrixDraws, DenseCount)[g]},
         high |-> {}]
HeavyEquation(h) ==
    LET with(values) == {BlockCount + MixCount - HeavyColumns + k :
                            k \in {j \in 0..(HeavyColumns - 1) : HeavyMatrix[h][j] \in values}}
    IN  [low |-> with({1, 3}), high |-> with({2, 3})]
Equations(c) ==
    {RowEquation(c.row[r].id) : r \in 0..(c.rowCount - 1)}
      \cup {DenseEquation(g) : g \in 0..(DenseCount - 1)}
      \cup {HeavyEquation(h) : h \in 0..(HeavyRows - 1)}

\* How many of a set of equations are independent.
Coefficient(u, s) == (IF s \in u.low THEN 1 ELSE 0) + (IF s \in u.high THEN 2 ELSE 0)
RECURSIVE Rank(_, _)
Rank(rows, cols) ==
    IF cols = {} THEN 0
    ELSE LET s    == CHOOSE col \in cols : TRUE
             with == {u \in rows : Coefficient(u, s) # 0}
             p    == CHOOSE u \in with : TRUE
             rest == {MulAdd(u, FieldDiv(Coefficient(u, s), Coefficient(p, s)), p) : u \in rows \ {p}}
         IN  IF with = {} THEN Rank(rows, cols \ {s}) ELSE 1 + Rank(rest, cols \ {s})

\* A decoder with as many blocks as the message asks for more only if the blocks
\* it keeps do not determine the message: the incremental solution misses no
\* pivot (Codec::ResumeSolveMatrix).
DecodesWhenPossible ==
    dec # None /\ verdict = "NeedMore" /\ dec.rowCount >= BlockCount =>
        Rank(Equations(dec), MatrixColumns) < BlockCount + MixCount

\* While rows come in, a row is in one of the two lists exactly when no column
\* of it is open; its count, the two open columns it notes and the weight-2
\* counts of columns agree with the marks (Codec::PeelAvalancheOnSolve).
PeelingAgrees ==
    LET rows    == 0..(dec.rowCount - 1)
        open(r) == {col \in ToSet(dec.row[r].columns) : IsTodo(dec, col)}
        pairs   == {r \in rows : Cardinality(open(r)) = 2}
    IN  dec # None /\ dec.rowCount < BlockCount =>
          /\ \A r \in rows : open(r) = {} <=> r \in ToSet(dec.peeled) \cup ToSet(dec.deferRows)
          /\ \A r \in rows : open(r) # {} => dec.row[r].count = Cardinality(open(r))
          /\ \A r \in pairs : open(r) = ToSet(dec.row[r].marks)
          /\ \A col \in Columns : IsTodo(dec, col) =>
                dec.aux[col] >= Cardinality({r \in pairs : col \in open(r)})

\* A peeled row solves one column from columns solved before it or deferred, so
\* that the list can be followed once for the values; no row is in a list twice
\* (Codec::Substitute).
PeelOrder ==
    LET solved(k) == PeelColumn(dec, dec.peeled[k])
    IN  dec # None =>
          /\ IsInjective(dec.peeled \o dec.deferRows)
          /\ \A k \in DOMAIN dec.peeled :
                \A col \in ToSet(dec.row[dec.peeled[k]].columns) \ {solved(k)} :
                    \/ dec.mark[col] = "DEFER"
                    \/ \E j \in 1..(k - 1) : solved(j) = col
=============================================================================
