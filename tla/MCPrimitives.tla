---------------------------- MODULE MCPrimitives ----------------------------
(***************************************************************************)
(* Model checking of Primitives.                                           *)
(***************************************************************************)
EXTENDS Primitives

\* Lengths around every width, and between twice and three times the widest.
MCLengths == (0..70) \cup {95, 96, 111, 127, 128, 129, 143, 159, 160, 191, 192, 199,
                           255, 256, 263}

\* Every operation on every length, every factor, and the special factors on
\* buffers with and without whole words.
MCCalls ==
    [op : Operations, y : {163}, bytes : MCLengths]
    \cup [op : {"mul"}, y : Byte, bytes : {0}]
    \cup [op : {"mul", "muladd"}, y : 0..1, bytes : {0, 1, 21, 64}]

MCContents(buffer, i) ==
    CASE buffer = "z" -> (i * 37 + 11) % 256
      [] buffer = "x" -> (i * 101 + 5) % 256
      [] buffer = "v" -> (i * 59 + 3) % 256

\* Every small message, those before the widest gaps between primes, and those
\* around the points of the dense row table and around the ends of the tables.
SmallMessages == 2..13
GapMessages == {90, 114, 524, 888, 1130, 1328, 9552, 15684, 19610, 31398, 64000}
PointMessages ==
    {n \in {kDensePoints[i][1] + d : i \in DOMAIN kDensePoints, d \in {-1, 0, 1}} : n <= 64000}
    \cup {64, 65, 66, 500, 501, 1000, 1001, 2047, 2048, 2049}
    \cup {64 + 61 * i : i \in 0..1048}
MCMessages == SmallMessages \cup GapMessages \cup PointMessages

Row(weight, first, add, mixFirst, mixAdd) ==
    [weight |-> weight, peelHigh |-> first, peelLow |-> add, mixHigh |-> mixFirst, mixLow |-> mixAdd]

\* Every first column and step of a small message; steps small and large of those
\* before a gap; of the others a row of one column.
MCRowDraws(n) ==
    CASE n \in SmallMessages ->
           {Row(64, first, add, first, add) : first \in 0..(n - 1), add \in 0..(n - 2)}
      [] n \in GapMessages ->
           {Row(40, first, add, first, add) : first \in {0, n - 1, 40000}, add \in {0, 1, 4, 17, n \div 2, n - 3, 65535}}
      [] OTHER -> {Row(1, n, n, n, n), Row(1, 65535, 0, 65535, 65535)}
=============================================================================
