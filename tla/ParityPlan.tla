----------------------------- MODULE ParityPlan -----------------------------
(***************************************************************************)
(* How CreateParity (create.cpp) plans an archive: the number of tracks    *)
(* and stripes, then, stripe by stripe and track by track, the number of   *)
(* parity packets of each track.  A fractional share is carried over to    *)
(* the next track of the stripe (create.cpp:129-137, 270-278, 365-373 and  *)
(* 923-930 are four copies of the same loop).  The code carries it in a    *)
(* double; here overhead is a whole number of percent and the arithmetic,  *)
(* in hundredths of a packet, is exact.                                    *)
(***************************************************************************)
EXTENDS Integers

CONSTANTS
  BlockSize,     \* blockSize, in the unit of the file sizes
  FileSizes,     \* the file sizes a user may have
  Jobs,          \* the values of -j
  MemLimits,     \* the values of --max-mem; 0 when it is not given
  Overheads      \* the overheads asked for, in percent

ASSUME InputAssumption ==
  /\ BlockSize \in Nat \ {0}
  /\ FileSizes \subseteq Nat \ {0}
  /\ Jobs \subseteq Nat \ {0}
  /\ MemLimits \subseteq Nat
  /\ Overheads \subseteq Nat

VARIABLES
  fileSize, maxMem, overhead,             \* the input
  pc,
  totalBlocks, totalTracks,               \* the plan
  stripeCount, blocksPerStripe,
  stripe, track,                          \* the loops
  carry,                                  \* of the allocation loop, in hundredths
  trackParityCount,                       \* packets of each track of this stripe
  totalParityBlocks,                      \* packets given out so far
  seenBlocks,                             \* data blocks they protect
  forced                                  \* packets given to a track whose share was none

inputVars == <<fileSize, maxMem, overhead>>
planVars == <<totalBlocks, totalTracks, stripeCount, blocksPerStripe>>
loopVars ==
  <<stripe, track, carry, trackParityCount, totalParityBlocks, seenBlocks, forced>>
vars == <<inputVars, pc, planVars, loopVars>>

CeilDiv(a, b) == (a + b - 1) \div b
MinOf(a, b) == IF a <= b THEN a ELSE b

TrackIds == 0 .. totalTracks - 1
NoPackets == [t \in TrackIds |-> 0]

\* Blocks [StripeStart(s), StripeEnd(s)) are stripe s.
StripeStart(s) == s * blocksPerStripe
StripeEnd(s) == MinOf(StripeStart(s) + blocksPerStripe, totalBlocks)

\* trackBlockCounts[t] of stripe s: the numbers i of [first, last) with
\* i % totalTracks = t, counted.
\* (BelowContiguous is a bug: track t is a run of neighbouring blocks.)
BelowContiguous(n, t) ==
  LET length == CeilDiv(totalBlocks, totalTracks)
  IN  IF n <= t * length THEN 0 ELSE MinOf(n - t * length, length)
Below(n, t) == (n + totalTracks - 1 - t) \div totalTracks
BlockCount(s, t) ==
  IF StripeStart(s) >= StripeEnd(s) THEN 0
  ELSE Below(StripeEnd(s), t) - Below(StripeStart(s), t)

Init ==
  /\ fileSize \in FileSizes /\ maxMem \in MemLimits /\ overhead \in Overheads
  /\ totalBlocks = CeilDiv(fileSize, BlockSize)
  /\ totalTracks \in Jobs
  /\ stripeCount = 1 /\ blocksPerStripe = totalBlocks
  /\ pc = "tracks"
  /\ stripe = 0 /\ track = 0 /\ carry = 0
  /\ trackParityCount = NoPackets
  /\ totalParityBlocks = 0 /\ seenBlocks = 0 /\ forced = 0

\* Bug: a track may be left with a single block.
FewerTracksOneBlock(jobs) == IF jobs > totalBlocks THEN totalBlocks ELSE jobs

\* Every track is to have two blocks, and there is one track at least.
FewerTracks(jobs) ==
  LET halved == IF jobs * 2 > totalBlocks THEN totalBlocks \div 2 ELSE jobs
  IN  IF halved < 1 THEN 1 ELSE halved

ClampTracks ==
  /\ pc = "tracks"
  /\ totalTracks' = FewerTracks(totalTracks)
  /\ trackParityCount' = [t \in 0 .. totalTracks' - 1 |-> 0]
  /\ pc' = "stripes"
  /\ UNCHANGED <<inputVars, totalBlocks, stripeCount, blocksPerStripe, stripe,
                 track, carry, totalParityBlocks, seenBlocks, forced>>

\* Bug: the quotient is rounded down, the last blocks are in no stripe.
StripeLengthFloor(count) == totalBlocks \div count

StripeLength(count) == CeilDiv(totalBlocks, count)

\* Stripes only when --max-mem is smaller than the data; the path for a single
\* track has none.
CutStripes ==
  /\ pc = "stripes"
  /\ IF maxMem > 0 /\ fileSize > maxMem /\ totalTracks > 1
     THEN /\ stripeCount' = MinOf(CeilDiv(fileSize, maxMem), totalBlocks)
          /\ blocksPerStripe' = StripeLength(stripeCount')
     ELSE UNCHANGED <<stripeCount, blocksPerStripe>>
  /\ pc' = "allocate"
  /\ UNCHANGED <<inputVars, totalBlocks, totalTracks, loopVars>>

\* Bug: a fraction is dropped, not carried.
CarryDropped(exact) == 0

\* carry = exact - blocks
Carry(exact) == exact % 100

\* Bug: a short track may get nothing at all.
PacketsNoMinimum(exact, count) == exact \div 100

\* blocks = (uint32_t) exact, and a track that has blocks has a packet.
PacketsFor(exact, count) ==
  IF exact < 100 /\ count > 0 THEN 1 ELSE exact \div 100

\* One iteration of the allocation loop.
Allocate ==
  /\ pc = "allocate"
  /\ stripe < stripeCount /\ track < totalTracks
  /\ LET count == BlockCount(stripe, track)
         exact == count * overhead + carry
     IN  /\ carry' = Carry(exact)
         /\ trackParityCount' =
              [trackParityCount EXCEPT ![track] = PacketsFor(exact, count)]
         /\ totalParityBlocks' = totalParityBlocks + PacketsFor(exact, count)
         /\ seenBlocks' = seenBlocks + count
         /\ forced' = IF exact < 100 /\ count > 0 THEN forced + 1 ELSE forced
  /\ track' = track + 1
  /\ UNCHANGED <<inputVars, pc, planVars, stripe>>

\* The next stripe starts from no carry.
NextStripe ==
  /\ pc = "allocate"
  /\ track = totalTracks
  /\ stripe + 1 < stripeCount
  /\ stripe' = stripe + 1
  /\ track' = 0 /\ carry' = 0
  /\ trackParityCount' = NoPackets
  /\ UNCHANGED <<inputVars, pc, planVars, totalParityBlocks, seenBlocks, forced>>

Finish ==
  /\ pc = "allocate"
  /\ track = totalTracks
  /\ stripe + 1 = stripeCount
  /\ pc' = "done"
  /\ UNCHANGED <<inputVars, planVars, loopVars>>

Done == pc = "done" /\ UNCHANGED vars

Next == ClampTracks \/ CutStripes \/ Allocate \/ NextStripe \/ Finish \/ Done

Spec == Init /\ [][Next]_vars
-----------------------------------------------------------------------------
TypeOK ==
  /\ fileSize \in Nat \ {0} /\ maxMem \in Nat /\ overhead \in Nat
  /\ pc \in {"tracks", "stripes", "allocate", "done"}
  /\ totalBlocks \in Nat \ {0} /\ totalTracks \in Nat \ {0}
  /\ stripeCount \in Nat \ {0} /\ blocksPerStripe \in Nat \ {0}
  /\ stripe \in 0 .. stripeCount - 1
  /\ track \in 0 .. totalTracks
  /\ carry \in 0 .. 99
  /\ trackParityCount \in [TrackIds -> Nat]
  /\ totalParityBlocks \in Nat /\ seenBlocks \in Nat /\ forced \in Nat

\* What the user pays for: after every track the packets given out so far are
\* the overhead asked for, less the fraction being carried and what each
\* finished stripe has dropped, plus the packets forced on short tracks
\* (create.cpp:132-135).
Balance ==
  /\ 100 * totalParityBlocks + carry <= overhead * seenBlocks + 100 * forced
  /\ overhead * seenBlocks <= 100 * (totalParityBlocks + stripe) + carry

\* What repair depends on: a track that has blocks has a packet, and no track is
\* left below its own share of the overhead, rounded down, however the carry of
\* the tracks before it falls.
TrackShare ==
  \A t \in TrackIds : t < track =>
    /\ BlockCount(stripe, t) > 0 => trackParityCount[t] >= 1
    /\ 100 * trackParityCount[t] > overhead * BlockCount(stripe, t) - 100

\* The stripes cover the file: what CoverAssumption of Repair says of the
\* stripeCount and blocksPerStripe it reads in a header.
StripesCover == pc \in {"allocate", "done"} => totalBlocks <= stripeCount * blocksPerStripe

\* The purpose of interleaving: a burst of damage inside a stripe that is no
\* longer than totalTracks times the packets of its weakest track leaves every
\* track with as many packets as damaged blocks.
BurstRepairable ==
  pc = "allocate" /\ track = totalTracks =>
    \A first \in StripeStart(stripe) .. StripeEnd(stripe) - 1 :
      \A last \in first .. StripeEnd(stripe) - 1 :
        (\A t \in TrackIds : BlockCount(stripe, t) > 0 =>
             last - first + 1 <= totalTracks * trackParityCount[t])
        => \A t \in TrackIds :
             Below(last + 1, t) - Below(first, t) <= trackParityCount[t]

\* Wirehair refuses a message of one block: without stripes every track has two
\* blocks, if the file has (create.cpp:620).
TracksDecodable ==
  pc \in {"allocate", "done"} /\ stripeCount = 1 /\ totalBlocks >= 2 =>
    \A t \in TrackIds : BlockCount(0, t) >= 2
-----------------------------------------------------------------------------
\* Before the loops nothing has been given out.
LoopsFresh ==
  pc \in {"tracks", "stripes"} =>
    /\ stripe = 0 /\ track = 0 /\ carry = 0
    /\ totalParityBlocks = 0 /\ seenBlocks = 0 /\ forced = 0
    /\ stripeCount = 1 /\ blocksPerStripe = totalBlocks

\* Two blocks for every track, if the file has two.
TracksClamped == pc # "tracks" /\ totalBlocks >= 2 => 2 * totalTracks <= totalBlocks

IInv ==
  TypeOK /\ LoopsFresh /\ TracksClamped /\ Balance /\ TrackShare /\ StripesCover
=============================================================================
