------------------------------ MODULE MCCodec ------------------------------
(* Model checking of Codec: a message of a few blocks, a few repair blocks, *)
(* and several matrices.  The random numbers come from a small generator.   *)
EXTENDS Codec

\* A number below 2^15 for a seed and a use of it.
MCRandom(seed, use) == ((((seed * 75 + use * 197 + 74) % 8191) * 1103 + 377) % 8191) \div 7

MCDraws ==
    [seed \in PeelSeeds |-> [id \in Ids |->
        [ weight   |-> <<1, 2, 3, 3, 3>>[(MCRandom(seed, 5 * id) % 5) + 1],
          peelLow  |-> MCRandom(seed, 5 * id + 1),
          peelHigh |-> MCRandom(seed, 5 * id + 2),
          mixLow   |-> MCRandom(seed, 5 * id + 3),
          mixHigh  |-> MCRandom(seed, 5 * id + 4) ]]]

MCShuffleDraws ==
    [seed \in DenseSeeds |-> [chunk \in 0..BlockCount |-> [deck \in 1..4 |->
        [i \in 1..(DenseCount - 1) |-> MCRandom(seed + 50, 7 * chunk + deck + 29 * i)]]]]

MCMatrixDraws == (0 :> {0, 1, 5}) @@ (1 :> {1, 2})

\* Every square part of it can be inverted.
MCHeavyMatrix == [h \in 0..1 |-> [k \in 0..2 |-> IF h = 0 THEN 1 ELSE k + 1]]

MCWindows(low, high) == << [thresh |-> low, size |-> 1], [thresh |-> high, size |-> 2] >>
MCAboveWindows == MCWindows(2, 4)
MCUnderWindows == MCWindows(4, 5)
MCPeelSeeds == {6, 7, 10, 17, 31, 48, 60}
MCDenseSeeds == {1}
MCIds == 0..9
=============================================================================
