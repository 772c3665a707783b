---------------------------- MODULE MCSupplements ----------------------------
(* Model checking of Supplements: archives of two data sets whose names begin alike. *)
EXTENDS Supplements

\* "a.b", "a.c.d"
MCStems == {<<<<"text", 1>>, <<"text", 2>>>>,
            <<<<"text", 1>>, <<"text", 3>>, <<"text", 4>>>>}

MCDamage == {{0, 1}}

MCOneStem == {<<<<"text", 1>>>>}

\* Half of the blocks is left: needEstimate, which counts the healthy blocks and not
\* the missing ones, does not ask for too little.
MCHalf == {d \in SUBSET Blocks : 2 * Cardinality(d) = NumBlocks}
=============================================================================
