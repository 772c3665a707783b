--------------------------- MODULE WirehairTools ---------------------------
(***************************************************************************)
(* The arithmetic of the fountain code's matrix generator                  *)
(* (src/src/WirehairTools.cpp and .h): which columns a row of the matrix   *)
(* references, how a deck is shuffled, how many dense rows a message gets. *)
(* Everything here is a pure function.  The random numbers that feed these *)
(* functions come from a 64-bit generator and are their arguments.         *)
(***************************************************************************)
EXTENDS Integers, Sequences, FiniteSets, SequencesExt

W16 == 65536                      \* one more than the largest uint16_t

----------------------------------------------------------------------------
(* Prime moduli.  The sieve holds, for each residue of 2*3*5*7, the        *)
(* distance to the next number that none of 2, 3, 5, 7 divides.            *)

kSieveTableSize == 2 * 3 * 5 * 7

Divides(p, n) == n % p = 0

kSieveTable ==
    [r \in 0..(kSieveTableSize - 1) |->
        CHOOSE d \in 0..9 :
            /\ \A p \in {2, 3, 5, 7} : ~Divides(p, r + d)
            /\ \A e \in 0..(d - 1) : \E p \in {2, 3, 5, 7} : Divides(p, r + e)]

kPrimesUnder256From11 == {
    11, 13, 17, 19, 23, 29, 31, 37, 41, 43, 47, 53, 59, 61, 67, 71, 73,
    79, 83, 89, 97, 101, 103, 107, 109, 113, 127, 131, 137, 139, 149, 151,
    157, 163, 167, 173, 179, 181, 191, 193, 197, 199, 211, 223, 227, 229,
    233, 239, 241, 251 }

\* The table look-up and its correction return the integer square root.
FloorSquareRoot16[x \in Nat] == CHOOSE r \in 0..255 : r * r <= x /\ x < (r + 1) * (r + 1)

\* A trial of n with the square root bound pMax; the next trial follows the
\* sieve, and the bound grows by one when its square falls behind.
TryNext[n \in Nat, offset \in Nat, pMax \in Nat] ==
    IF ~\E p \in kPrimesUnder256From11 : p <= pMax /\ Divides(p, n)
    THEN n
    ELSE LET from == IF offset >= kSieveTableSize THEN offset - kSieveTableSize
                                                  ELSE offset
             gap  == kSieveTable[from] + 1
         IN  TryNext[n + gap, from + gap, IF pMax * pMax < n + gap THEN pMax + 1 ELSE pMax]

\* Bug: the next trial follows the sieve from n.
TryFirstFromN(n, distance) ==
    TryNext[n + distance, (n % kSieveTableSize) + 1, FloorSquareRoot16[n + distance]]

\* The first trial, at a distance from n.
TryFirst(n, distance) ==
    TryNext[n + distance, (n % kSieveTableSize) + distance + 1,
            FloorSquareRoot16[n + distance]]

NextPrime16(n) ==
    CASE n \in 0..1  -> 1
      [] n \in 2..3  -> n
      [] n \in 4..5  -> 5
      [] n \in 6..7  -> 7
      [] n > 65521   -> 0
      [] OTHER       -> TryFirst(n, kSieveTable[n % kSieveTableSize])

----------------------------------------------------------------------------
(* Row parameters and the columns they stand for                           *)

\* Bug: a jump over the columns behind the last goes too far by one step.
IterateOneTooFar(x, b, p, a) ==
    LET y == (x + a) % p
    IN  IF y < b THEN y ELSE (y + a) % b

\* One step of the Weyl generator over b columns, modulo the next prime p.
IterateNextColumn(x, b, p, a) ==
    LET y == (x + a) % p
        distanceToP == p - y
    IN  IF y < b THEN y
        ELSE IF a >= distanceToP THEN a - distanceToP
        ELSE (a * W16 - distanceToP) % a

\* What an iterator over b columns yields, in order.
ColumnSequence(first, add, count, b) ==
    LET p == NextPrime16(b)
        col[k \in 1..count] ==
            IF k = 1 THEN first ELSE IterateNextColumn(col[k - 1], b, p, add)
    IN  [k \in 1..count |-> col[k]]

\* The parameters of one row.  draw holds the random numbers of the row: a
\* weight from the distribution, and the halves of two 32-bit numbers.
PeelRowParameters(draw, peelColumns, mixColumns) ==
    LET maxWeight == peelColumns \div 2
    IN  [ PeelCount |-> IF draw.weight > maxWeight THEN maxWeight ELSE draw.weight,
          PeelAdd   |-> (draw.peelLow % (peelColumns - 1)) + 1,
          PeelFirst |-> draw.peelHigh % peelColumns,
          MixAdd    |-> (draw.mixLow % (mixColumns - 1)) + 1,
          MixFirst  |-> draw.mixHigh % mixColumns ]

PeelRowIterator(params, columns) ==
    ColumnSequence(params.PeelFirst, params.PeelAdd, params.PeelCount, columns)

RowMixIterator(params, mixColumns) ==
    ColumnSequence(params.MixFirst, params.MixAdd, 3, mixColumns)

----------------------------------------------------------------------------
(* Shuffled decks                                                          *)

\* rv[i] is the piece of a random number that places card i.
ShuffleDeck16(rv, count) ==
    LET place(deck, i) == LET j == rv[i] % i
                          IN  [deck EXCEPT ![i + 1] = deck[j + 1], ![j + 1] = i]
        deal[i \in 0..(count - 1)] ==
            IF i = 0 THEN [c \in 1..count |-> 0] ELSE place(deal[i - 1], i)
    IN  deal[count - 1]

----------------------------------------------------------------------------
(* The number of dense rows                                                *)

kTinyTableCount == 65
kSmallTableCount == 2048 - kTinyTableCount
kMaxDenseCount == 400
kDenseSeedCount == 100

\* The measured points, as pairs of a block count and a dense row count.
kDensePoints == <<
    <<2048, 52>>, <<2618, 54>>, <<2826, 60>>, <<3725, 62>>, <<3962, 67>>,
    <<4277, 65>>, <<4547, 60>>, <<5065, 64>>, <<5224, 76>>, <<5642, 66>>,
    <<5909, 71>>, <<6285, 76>>, <<6583, 66>>, <<6895, 72>>, <<7448, 69>>,
    <<7682, 76>>, <<8046, 78>>, <<8558, 76>>, <<8963, 73>>, <<9389, 81>>,
    <<10143, 86>>, <<11129, 94>>, <<12593, 99>>, <<12988, 105>>, <<14032, 108>>,
    <<14473, 114>>, <<15397, 110>>, <<16636, 113>>, <<17698, 118>>, <<18828, 123>>,
    <<19420, 127>>, <<20343, 136>>, <<21979, 139>>, <<23024, 150>>, <<24119, 156>>,
    <<25659, 162>>, <<27298, 173>>, <<29042, 176>>, <<30898, 183>>, <<31870, 190>>,
    <<33906, 200>>, <<35519, 211>>, <<37208, 220>>, <<38978, 234>>, <<40205, 253>>,
    <<42776, 297>>, <<44122, 320>>, <<45511, 336>>, <<46944, 357>>, <<48421, 373>>,
    <<49177, 376>>, <<50725, 380>>, <<52321, 391>>, <<53968, 388>>, <<54811, 382>>,
    <<54811, 382>>, <<55667, 372>>, <<57419, 362>>, <<58316, 356>>, <<60152, 347>>,
    <<61091, 337>>, <<62045, 334>>, <<63014, 340>>, <<64000, 345>> >>

\* The binary search: low and high are indices counted from zero.
SearchPoints[N \in Nat, low \in Nat, high \in Nat] ==
    LET mid == (high + low) \div 2
    IN  IF mid = low THEN low
        ELSE IF N > kDensePoints[mid + 1][1] THEN SearchPoints[N, mid, high]
        ELSE SearchPoints[N, low, mid]

\* The two points between which a message of N > 64 blocks lies.
DenseInterval(N) ==
    CASE N <= 500  -> << <<64, 26>>, <<500, 35>> >>
      [] N > 500 /\ N <= 1000 -> << <<500, 35>>, <<1000, 48>> >>
      [] N > 1000 /\ N < kTinyTableCount + kSmallTableCount -> << <<1000, 48>>, <<2048, 62>> >>
      [] OTHER -> LET low == SearchPoints[N, 0, Len(kDensePoints) - 1]
                  IN  << kDensePoints[low + 1], kDensePoints[low + 2] >>

\* C division rounds toward zero; counts may fall from one point to the next.
Quotient(n, d) == IF n >= 0 THEN n \div d ELSE -((-n) \div d)

LinearInterpolate(lo, hi, N) ==
    lo[2] + Quotient((N - lo[1]) * (hi[2] - lo[2]), hi[1] - lo[1])

\* Bug: a remainder of three is rounded to the next even number.
DenseCountEven(N) ==
    LET d == LinearInterpolate(DenseInterval(N)[1], DenseInterval(N)[2], N)
    IN  IF d % 2 = 0 THEN d + (2 - (d % 4)) ELSE d + 1

\* For more blocks than the tiny table has: rounded up to 2 modulo 4.
GetDenseCount(N) ==
    LET d == LinearInterpolate(DenseInterval(N)[1], DenseInterval(N)[2], N)
    IN  CASE d % 4 = 0 -> d + 2
          [] d % 4 = 1 -> d + 1
          [] d % 4 = 2 -> d
          [] d % 4 = 3 -> d + 3

\* The place in the seed table of a message of 2048 blocks and more.
DenseSeedIndex(denseCount) == denseCount \div 4

kMatrixSeedCount == 512

\* The tie of n dense rows to the dense mix columns: the first n bits of the words
\* drawn for a row, from a seed of the table; without one, the diagonal and the
\* bits beside it.
InvertibleGF2Matrix(drawn, n) ==
    [r \in 0..(n - 1) |->
        IF n < kMatrixSeedCount THEN drawn[r] \cap (0..(n - 1))
        ELSE {r, r + 1} \cap (0..(n - 1))]
=============================================================================
