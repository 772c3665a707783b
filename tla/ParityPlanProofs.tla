-------------------------- MODULE ParityPlanProofs --------------------------
(* Proofs about ParityPlan, for every file, track count and overhead. *)
EXTENDS ParityPlan, InductionLemmas, TLAPS

\* What integer division is.
LEMMA Division ==
  ASSUME NEW a \in Nat, NEW d \in Nat \ {0}
  PROVE  /\ a \div d \in Nat /\ a % d \in 0 .. d - 1
         /\ a = d * (a \div d) + (a % d)
<1> DEFINE q == a \div d
           r == a % d
<1>1. q \in Int /\ r \in 0 .. d - 1 /\ a = d * q + r
  OBVIOUS
<1>2. q >= 0
  OBVIOUS
<1> QED
  BY <1>1, <1>2

\* A quotient is at least q when q times the divisor fits.
LEMMA QuotientAtLeast ==
  ASSUME NEW a \in Nat, NEW d \in Nat \ {0}, NEW q \in Nat, d * q <= a
  PROVE  a \div d >= q
<1> DEFINE k == a \div d
           r == a % d
<1>1. k \in Nat /\ r \in 0 .. d - 1 /\ a = d * k + r
  BY Division
<1> HIDE DEF k, r
<1>2. SUFFICES ASSUME k + 1 <= q PROVE FALSE
  BY <1>1 DEF k
<1>3. PICK j \in Nat : q = k + 1 + j
  <2>1. q - (k + 1) \in Nat /\ q = k + 1 + (q - (k + 1))
    BY <1>1, <1>2
  <2> QED
    BY <2>1
<1>4. d * q = d * k + d + d * j /\ d * j \in Nat
  BY <1>1, <1>3
<1> QED
  BY <1>1, <1>4

\* Division is monotonic.
LEMMA QuotientMonotonic ==
  ASSUME NEW a \in Nat, NEW b \in Nat, NEW d \in Nat \ {0}, a <= b
  PROVE  a \div d <= b \div d
<1>1. a \div d \in Nat /\ d * (a \div d) <= a
  BY Division
<1>2. d * (a \div d) <= b
  BY <1>1
<1> QED
  BY <1>1, <1>2, QuotientAtLeast

\* A quotient is at most q when one more does not fit.
LEMMA QuotientAtMost ==
  ASSUME NEW a \in Nat, NEW d \in Nat \ {0}, NEW q \in Nat, a < d * (q + 1)
  PROVE  a \div d <= q
<1> DEFINE k == a \div d
<1>1. k \in Nat /\ d * k <= a
  BY Division
<1> HIDE DEF k
<1>2. SUFFICES ASSUME q + 1 <= k PROVE FALSE
  BY <1>1 DEF k
<1>3. (q + 1) * d <= k * d
  BY <1>1, <1>2, Times
<1> QED
  BY <1>1, <1>3

\* Rounding up loses nothing.
LEMMA CeilDivCovers ==
  ASSUME NEW a \in Nat \ {0}, NEW d \in Nat \ {0}
  PROVE  CeilDiv(a, d) \in Nat \ {0} /\ a <= d * CeilDiv(a, d)
<1>1. a + d - 1 \in Nat /\ d * 1 <= a + d - 1
  OBVIOUS
<1>2. CeilDiv(a, d) >= 1 /\ CeilDiv(a, d) \in Nat
  BY <1>1, QuotientAtLeast, Division DEF CeilDiv
<1>3. (a + d - 1) % d \in 0 .. d - 1 /\ a + d - 1 = d * CeilDiv(a, d) + ((a + d - 1) % d)
  BY <1>1, Division DEF CeilDiv
<1> QED
  BY <1>2, <1>3

\* The blocks of a track in a stripe are counted by a natural number.
LEMMA BlockCountType ==
  ASSUME TypeOK, NEW s \in Nat, NEW t \in TrackIds
  PROVE  BlockCount(s, t) \in Nat
<1> USE DEF TypeOK, TrackIds
<1>1. StripeStart(s) \in Nat
  BY DEF StripeStart
<1>2. StripeEnd(s) \in Nat
  BY <1>1 DEF StripeEnd, MinOf
<1>3. CASE StripeStart(s) < StripeEnd(s)
  <2>1. /\ StripeStart(s) + totalTracks - 1 - t \in Nat
        /\ StripeEnd(s) + totalTracks - 1 - t \in Nat
        /\ StripeStart(s) + totalTracks - 1 - t <= StripeEnd(s) + totalTracks - 1 - t
    BY <1>1, <1>2, <1>3
  <2>2. Below(StripeStart(s), t) <= Below(StripeEnd(s), t)
    BY <2>1, QuotientMonotonic DEF Below
  <2>3. Below(StripeStart(s), t) \in Nat /\ Below(StripeEnd(s), t) \in Nat
    BY <2>1, Division DEF Below
  <2>4. BlockCount(s, t) = Below(StripeEnd(s), t) - Below(StripeStart(s), t)
    BY <1>1, <1>2, <1>3 DEF BlockCount
  <2> QED
    BY <2>2, <2>3, <2>4
<1> QED
  BY <1>1, <1>2, <1>3 DEF BlockCount

\* A program that starts on any input satisfies the invariant.
LEMMA InitInv == Init => IInv
<1> SUFFICES ASSUME Init PROVE IInv
  OBVIOUS
<1> USE InputAssumption
<1>1. totalBlocks \in Nat \ {0}
  BY CeilDivCovers DEF Init
<1>2. TypeOK
  BY <1>1 DEF Init, TypeOK, NoPackets, TrackIds
<1>3. Balance /\ TrackShare
  BY <1>2 DEF Init, TypeOK, Balance, TrackShare, TrackIds
<1> QED
  BY <1>2, <1>3 DEF Init, IInv, LoopsFresh, TracksClamped, StripesCover

\* One iteration of the allocation loop keeps the books.
LEMMA AllocateInv == IInv /\ Allocate => IInv'
<1> SUFFICES ASSUME IInv, Allocate PROVE IInv'
  OBVIOUS
<1>0. /\ TypeOK /\ LoopsFresh /\ TracksClamped
      /\ Balance /\ TrackShare /\ StripesCover
  BY DEF IInv
<1> DEFINE count == BlockCount(stripe, track)
           exact == count * overhead + carry
           blocks == PacketsFor(exact, count)
<1>1. track \in TrackIds /\ stripe \in Nat /\ carry \in 0 .. 99 /\ overhead \in Nat
  BY <1>0 DEF Allocate, TypeOK, TrackIds
<1>2. count \in Nat
  BY <1>0, <1>1, BlockCountType
<1>3. exact \in Nat
  BY <1>1, <1>2
<1>4. /\ carry' = exact % 100
      /\ trackParityCount' = [trackParityCount EXCEPT ![track] = blocks]
      /\ totalParityBlocks' = totalParityBlocks + blocks
      /\ seenBlocks' = seenBlocks + count
      /\ forced' = IF exact < 100 /\ count > 0 THEN forced + 1 ELSE forced
      /\ track' = track + 1
      /\ UNCHANGED <<inputVars, pc, planVars, stripe>>
  BY DEF Allocate, Carry
<1>5. count * overhead \in Nat /\ exact = count * overhead + carry
  BY <1>1, <1>2
<1>6. overhead * (seenBlocks + count) = overhead * seenBlocks + count * overhead
      /\ overhead * seenBlocks \in Nat
  BY <1>0, <1>1, <1>2 DEF TypeOK
<1> DEFINE share == count * overhead
<1>7. \A t \in TrackIds : BlockCount(stripe, t)' = BlockCount(stripe, t)
  BY <1>4 DEF planVars, BlockCount, StripeStart, StripeEnd, MinOf, Below, TrackIds
<1>8. blocks = (IF exact < 100 /\ count > 0 THEN 1 ELSE exact \div 100)
  BY DEF PacketsFor
<1> HIDE DEF count, exact, blocks
<1>9. /\ exact \div 100 \in Nat /\ exact % 100 \in 0 .. 99
      /\ exact = 100 * (exact \div 100) + (exact % 100)
  BY <1>3, Division
<1>10. blocks \in Nat /\ carry' \in 0 .. 99 /\ forced' \in Nat
  BY <1>0, <1>3, <1>4, <1>8, <1>9 DEF TypeOK
<1>11. TypeOK'
  BY <1>0, <1>1, <1>2, <1>4, <1>10 DEF TypeOK, TrackIds, inputVars, planVars
<1>12. LoopsFresh'
  BY <1>4 DEF Allocate, LoopsFresh
<1>13. Balance'
  <2>1. /\ 100 * totalParityBlocks + carry <= overhead * seenBlocks + 100 * forced
        /\ overhead * seenBlocks <= 100 * (totalParityBlocks + stripe) + carry
    BY <1>0 DEF Balance
  <2>2. totalParityBlocks \in Nat /\ forced \in Nat /\ seenBlocks \in Nat
    BY <1>0 DEF TypeOK
  <2> DEFINE due == overhead * seenBlocks
  <2>3. due \in Nat /\ overhead' * seenBlocks' = due + share
    BY <1>4, <1>6 DEF inputVars
  <2>4. share \in Nat /\ exact = share + carry
    BY <1>5
  <2> HIDE DEF due, share
  <2>5. CASE exact < 100 /\ count > 0
    <3>1. blocks = 1 /\ forced' = forced + 1 /\ carry' = exact
      BY <1>3, <1>4, <1>8, <2>5
    <3> QED
      BY <1>1, <1>4, <2>1, <2>2, <2>3, <2>4, <3>1 DEF Balance, due
  <2>6. CASE ~(exact < 100 /\ count > 0)
    <3>1. blocks = exact \div 100 /\ forced' = forced /\ carry' = exact % 100
      BY <1>4, <1>8, <2>6
    <3> QED
      BY <1>1, <1>4, <1>9, <2>1, <2>2, <2>3, <2>4, <3>1 DEF Balance, due
  <2> QED
    BY <2>5, <2>6
<1>14. TrackShare'
  <2>1. /\ count > 0 => blocks >= 1
        /\ 100 * blocks > share - 100
    <3>1. share \in Nat /\ exact = share + carry
      BY <1>5
    <3> HIDE DEF share
    <3> QED
      BY <1>1, <1>2, <1>8, <1>9, <3>1
  <2>2. SUFFICES ASSUME NEW t \in TrackIds, t < track + 1
                 PROVE  /\ BlockCount(stripe, t) > 0 => trackParityCount'[t] >= 1
                        /\ 100 * trackParityCount'[t] > overhead * BlockCount(stripe, t) - 100
    BY <1>4, <1>7 DEF TrackShare, TrackIds, planVars, inputVars
  <2>3. CASE t = track
    <3>1. trackParityCount'[t] = blocks
      BY <1>0, <1>1, <1>4, <2>3 DEF TypeOK
    <3>2. BlockCount(stripe, t) = count /\ overhead * count = share
      BY <1>1, <1>2, <2>3 DEF count
    <3> QED
      BY <2>1, <3>1, <3>2
  <2>4. CASE t # track
    <3>1. t < track
      BY <1>1, <2>2, <2>4 DEF TrackIds
    <3>2. trackParityCount'[t] = trackParityCount[t]
      BY <1>0, <1>4, <2>4 DEF TypeOK
    <3> QED
      BY <1>0, <3>1, <3>2 DEF TrackShare
  <2> QED
    BY <2>3, <2>4
<1>15. StripesCover' /\ TracksClamped'
  BY <1>0, <1>4 DEF StripesCover, TracksClamped, planVars
<1> QED
  BY <1>11, <1>12, <1>13, <1>14, <1>15 DEF IInv

\* Planning the tracks and the stripes establishes what the loops need.
LEMMA PlanInv == IInv /\ (ClampTracks \/ CutStripes) => IInv'
<1> SUFFICES ASSUME IInv, ClampTracks \/ CutStripes PROVE IInv'
  OBVIOUS
<1>0. TypeOK /\ LoopsFresh /\ TracksClamped /\ Balance
  BY DEF IInv
<1>1. CASE ClampTracks
  <2>1. totalTracks' \in Nat \ {0}
    BY <1>0, <1>1 DEF TypeOK, ClampTracks, FewerTracks
  <2>2. TypeOK' /\ LoopsFresh'
    BY <1>0, <1>1, <2>1 DEF TypeOK, LoopsFresh, ClampTracks, TrackIds, inputVars
  <2>3. Balance' /\ TrackShare'
    BY <1>0, <1>1, <2>1 DEF LoopsFresh, Balance, TrackShare, TrackIds, ClampTracks,
       inputVars, TypeOK
  <2>4. TracksClamped'
    <3>1. UNCHANGED totalBlocks /\ totalTracks' = FewerTracks(totalTracks)
      BY <1>1 DEF ClampTracks
    <3> QED
      BY <1>0, <3>1 DEF TracksClamped, FewerTracks, TypeOK
  <2> QED
    BY <1>1, <2>2, <2>3, <2>4 DEF IInv, StripesCover, ClampTracks
<1>2. CASE CutStripes
  <2>1. /\ stripeCount' \in Nat \ {0} /\ blocksPerStripe' \in Nat \ {0}
        /\ totalBlocks <= stripeCount' * blocksPerStripe'
    <3>1. CASE maxMem > 0 /\ fileSize > maxMem /\ totalTracks > 1
      <4>1. CeilDiv(fileSize, maxMem) \in Nat \ {0}
        BY <1>0, <3>1, CeilDivCovers DEF TypeOK
      <4>2. stripeCount' \in Nat \ {0}
        BY <1>0, <1>2, <3>1, <4>1 DEF CutStripes, MinOf, TypeOK
      <4>3. blocksPerStripe' = CeilDiv(totalBlocks, stripeCount')
        BY <1>2, <3>1 DEF CutStripes, StripeLength
      <4> QED
        BY <1>0, <4>2, <4>3, CeilDivCovers DEF TypeOK
    <3>2. CASE ~(maxMem > 0 /\ fileSize > maxMem /\ totalTracks > 1)
      <4>1. UNCHANGED <<stripeCount, blocksPerStripe>>
        BY <1>2, <3>2 DEF CutStripes
      <4> QED
        BY <1>0, <1>2, <4>1 DEF CutStripes, TypeOK, LoopsFresh
    <3> QED
      BY <3>1, <3>2
  <2>2. /\ UNCHANGED <<inputVars, totalBlocks, totalTracks, loopVars>>
        /\ pc' = "allocate" /\ stripe = 0 /\ track = 0
        /\ 100 * totalParityBlocks + carry <= overhead * seenBlocks + 100 * forced
        /\ overhead * seenBlocks <= 100 * (totalParityBlocks + stripe) + carry
    BY <1>0, <1>2 DEF CutStripes, LoopsFresh, Balance
  <2>3. TypeOK'
    <3>1. UNCHANGED <<fileSize, maxMem, overhead, totalBlocks, totalTracks, stripe,
                      track, carry, trackParityCount, totalParityBlocks,
                      seenBlocks, forced>>
      BY <2>2 DEF inputVars, loopVars
    <3>2. stripe' \in 0 .. stripeCount' - 1
      <4>1. stripe' = 0
        BY <2>2 DEF loopVars
      <4>2. PICK n \in Nat \ {0} : stripeCount' = n
        BY <2>1
      <4> QED
        BY <4>1, <4>2
    <3>3. trackParityCount' \in [TrackIds' -> Nat]
      BY <1>0, <3>1 DEF TypeOK, TrackIds
    <3>4. pc' \in {"tracks", "stripes", "allocate", "done"}
      BY <2>2
    <3> QED
      BY <1>0, <2>1, <3>1, <3>2, <3>3, <3>4 DEF TypeOK
  <2>4. Balance'
    BY <2>2 DEF Balance, inputVars, loopVars
  <2>5. TrackShare'
    BY <2>2 DEF TrackShare, TrackIds, loopVars
  <2>6. TracksClamped'
    BY <1>0, <1>2, <2>2 DEF TracksClamped, CutStripes
  <2> QED
    BY <2>1, <2>2, <2>3, <2>4, <2>5, <2>6 DEF IInv, LoopsFresh, StripesCover
<1> QED
  BY <1>1, <1>2

\* Every step keeps the invariant.
LEMMA StepInv == IInv /\ [Next]_vars => IInv'
<1> SUFFICES ASSUME IInv, [Next]_vars PROVE IInv'
  OBVIOUS
<1>0. /\ TypeOK /\ LoopsFresh /\ TracksClamped
      /\ Balance /\ TrackShare /\ StripesCover
  BY DEF IInv
<1>1. CASE NextStripe
  <2>1. TypeOK'
    BY <1>0, <1>1 DEF NextStripe, TypeOK, TrackIds, NoPackets, inputVars, planVars
  <2>2. Balance'
    <3> DEFINE due == overhead * seenBlocks
    <3>1. due \in Nat /\ (overhead * seenBlocks)' = due
      BY <1>0, <1>1 DEF NextStripe, TypeOK, inputVars
    <3>2. /\ 100 * totalParityBlocks + carry <= due + 100 * forced
          /\ due <= 100 * (totalParityBlocks + stripe) + carry
      BY <1>0 DEF Balance
    <3> HIDE DEF due
    <3>3. 100 * (totalParityBlocks + stripe') + carry' >= due
      BY <1>0, <1>1, <3>1, <3>2 DEF NextStripe, TypeOK
    <3>4. 100 * totalParityBlocks + carry' <= due + 100 * forced
      BY <1>0, <1>1, <3>1, <3>2 DEF NextStripe, TypeOK
    <3> QED
      BY <1>1, <3>1, <3>3, <3>4 DEF NextStripe, Balance
  <2>3. TrackShare'
    BY <1>1 DEF NextStripe, TrackShare, TrackIds
  <2> QED
    BY <1>0, <1>1, <2>1, <2>2, <2>3
       DEF NextStripe, IInv, LoopsFresh, TracksClamped, StripesCover, planVars
<1>2. CASE UNCHANGED vars \/ Done \/ Finish
  <2>1. /\ UNCHANGED <<inputVars, planVars, loopVars>>
        /\ pc' \in {pc, "done"}
        /\ pc' = pc \/ pc = "allocate"
    BY <1>2 DEF vars, Done, Finish
  <2>2. TypeOK' /\ Balance' /\ LoopsFresh'
    BY <1>0, <2>1 DEF TypeOK, Balance, LoopsFresh, TrackIds, inputVars, planVars, loopVars
  <2>3. TrackShare'
    BY <1>0, <2>1 DEF TrackShare, TrackIds, BlockCount, StripeStart, StripeEnd,
       MinOf, Below, inputVars, planVars, loopVars
  <2> QED
    BY <1>0, <2>1, <2>2, <2>3 DEF IInv, TracksClamped, StripesCover, planVars
<1> QED
  BY <1>1, <1>2, AllocateInv, PlanInv DEF Next

\* The invariant holds in every reachable state.
THEOREM Invariance == Spec => []IInv
  BY InitInv, StepInv, PTL DEF Spec

\* However many stripes and tracks there are, the parity of an archive is the
\* overhead asked for to within one packet per stripe and the packets forced on
\* short tracks.
THEOREM OverheadIsKept == Spec => []Balance
<1>1. IInv => Balance
  BY DEF IInv
<1> QED
  BY <1>1, Invariance, PTL

\* No track of any stripe is left without a packet or below its own share.
THEOREM NoTrackIsLeftOut == Spec => []TrackShare
<1>1. IInv => TrackShare
  BY DEF IInv
<1> QED
  BY <1>1, Invariance, PTL

\* The stripes of every plan cover the file.
THEOREM StripesCoverTheFile == Spec => []StripesCover
<1>1. IInv => StripesCover
  BY DEF IInv
<1> QED
  BY <1>1, Invariance, PTL

\* An archive without stripes gives every track a message Wirehair accepts.
THEOREM TracksCanBeDecoded == Spec => []TracksDecodable
<1>1. ASSUME IInv PROVE TracksDecodable
  <2>0. TypeOK /\ TracksClamped /\ StripesCover
    BY <1>1 DEF IInv
  <2>1. SUFFICES ASSUME pc \in {"allocate", "done"}, stripeCount = 1,
                        totalBlocks >= 2, NEW t \in TrackIds
                 PROVE  BlockCount(0, t) >= 2
    BY DEF TracksDecodable
  <2>2. /\ totalTracks \in Nat \ {0} /\ totalBlocks \in Nat /\ blocksPerStripe \in Nat
        /\ t \in 0 .. totalTracks - 1
        /\ 2 * totalTracks <= totalBlocks /\ totalBlocks <= blocksPerStripe
    BY <2>0, <2>1 DEF TypeOK, TracksClamped, StripesCover, TrackIds
  <2>3. StripeStart(0) = 0 /\ StripeEnd(0) = totalBlocks
    BY <2>2 DEF StripeStart, StripeEnd, MinOf
  <2>4. BlockCount(0, t) = Below(totalBlocks, t) - Below(0, t)
    BY <2>1, <2>2, <2>3 DEF BlockCount
  <2>5. Below(totalBlocks, t) >= 2 /\ Below(totalBlocks, t) \in Nat
    <3>1. totalBlocks + totalTracks - 1 - t \in Nat
          /\ totalTracks * 2 <= totalBlocks + totalTracks - 1 - t
      BY <2>2
    <3> QED
      BY <2>2, <3>1, QuotientAtLeast, Division DEF Below
  <2>6. Below(0, t) = 0
    <3> DEFINE a == 0 + totalTracks - 1 - t
    <3>1. a \in 0 .. totalTracks - 1
      BY <2>2
    <3> HIDE DEF a
    <3>2. a \div totalTracks = 0
      BY <2>2, <3>1
    <3> QED
      BY <3>2 DEF Below, a
  <2> QED
    BY <2>4, <2>5, <2>6
<1> QED
  BY <1>1, Invariance, PTL

\* What a burst takes from a track is what is counted below its end and not below
\* its beginning: no more than its share when the burst is short, ...
LEMMA ShortBurst ==
  ASSUME NEW T \in Nat \ {0}, NEW a \in Nat, NEW b \in Nat, NEW k \in Nat, b <= a + T * k
  PROVE  b \div T <= a \div T + k
<1> DEFINE q == a \div T
<1>1. q \in Nat /\ a < T * (q + 1)
  <2>1. q \in Nat /\ a % T \in 0 .. T - 1 /\ a = T * q + (a % T)
    BY Division
  <2> HIDE DEF q
  <2>2. T * (q + 1) = T * q + T
    BY <2>1
  <2> QED
    BY <2>1, <2>2
<1> HIDE DEF q
<1>2. T * (q + k + 1) = T * (q + 1) + T * k
  BY <1>1
<1>3. b < T * (q + k + 1)
  <2> DEFINE x == T * (q + 1)
             y == T * k
             z == T * (q + k + 1)
  <2>1. x \in Nat /\ y \in Nat /\ z \in Nat
    BY <1>1
  <2>2. z = x + y /\ a < x /\ b <= a + y
    BY <1>1, <1>2
  <2> HIDE DEF x, y, z
  <2>3. b < z
    BY <2>1, <2>2
  <2> QED
    BY <2>3 DEF z
<1>4. b \div T <= q + k
  BY <1>1, <1>3, QuotientAtMost
<1> QED
  BY <1>4 DEF q

\* ... and counting goes up with the blocks.
LEMMA BelowGrows ==
  ASSUME totalTracks \in Nat \ {0}, NEW t \in TrackIds,
         NEW m \in Nat, NEW n \in Nat, m <= n
  PROVE  Below(m, t) \in Nat /\ Below(n, t) \in Nat /\ Below(m, t) <= Below(n, t)
<1>1. m + totalTracks - 1 - t \in Nat /\ n + totalTracks - 1 - t \in Nat
  BY DEF TrackIds
<1>2. m + totalTracks - 1 - t <= n + totalTracks - 1 - t
  BY DEF TrackIds
<1> QED
  BY <1>1, <1>2, QuotientMonotonic, Division DEF Below

\* The quotient of the plan is the number of blocks below n that belong to track t:
\* those the loop of create.cpp counts one by one.
LEMMA BelowCounts ==
  ASSUME totalTracks \in Nat \ {0}, NEW t \in TrackIds, NEW n \in Nat
  PROVE  Below(n, t) = Cardinality({i \in 0 .. n - 1 : i % totalTracks = t})
<1> DEFINE T == totalTracks
           q == Below(n, t)
           top == n + T - 1 - t
           c == q * T + t
<1>1. T \in Nat \ {0} /\ t \in 0 .. T - 1 /\ top \in Nat /\ q = top \div T
  BY DEF TrackIds, Below
<1>2. q \in Nat /\ q * T <= top /\ top < q * T + T
  <2> HIDE DEF q, top, T
  <2>1. PICK p \in Nat, r \in 0 .. T - 1 : top \div T = p /\ top = p * T + r
    BY <1>1, Quotient
  <2> QED
    BY <1>1, <2>1
<1>3. c \in Nat /\ c % T = t /\ c \div T = q
  <2>1. c \in Nat /\ c = q * T + t
    BY <1>1, <1>2
  <2>2. T \in Nat \ {0} /\ t \in 0 .. T - 1 /\ q \in Int
    BY <1>1, <1>2
  <2> HIDE DEF q, T, c, top
  <2>3. c \div T = q /\ c % T = t
    BY <2>1, <2>2, DivisionUnique
  <2> QED
    BY <2>1, <2>3
<1>4. n <= c /\ c - T < n
  <2> DEFINE x == q * T
  <2>1. x \in Nat /\ x <= top /\ top < x + T /\ c = x + t
    BY <1>1, <1>2
  <2> HIDE DEF x, c
  <2> QED
    BY <1>1, <2>1
<1> HIDE DEF c, q, T
<1>5. SameRestBefore(0, c, T) = {i \in 0 .. n - 1 : i % T = t}
  <2>1. ASSUME NEW h \in 0 .. c - 1, h % T = t PROVE h \in 0 .. n - 1
    <3>1. h \in Nat /\ h < c
      BY <1>3
    <3>2. h + T <= c
      BY <1>1, <1>3, <2>1, <3>1, SameRest
    <3> QED
      BY <1>1, <1>3, <1>4, <3>1, <3>2
  <2>2. ASSUME NEW h \in 0 .. n - 1 PROVE h \in 0 .. c - 1
    BY <1>3, <1>4
  <2>3. SameRestBefore(0, c, T) = {h \in 0 .. c - 1 : h % T = t}
    BY <1>3 DEF SameRestBefore
  <2> QED
    BY <2>1, <2>2, <2>3
<1>6. 0 \in Nat /\ 0 <= c /\ c - 0 = c
  BY <1>3
<1>7. Cardinality(SameRestBefore(0, c, T)) = (c - 0) \div T
  BY <1>1, <1>3, <1>6, CountSameRest
<1> QED
  BY <1>3, <1>5, <1>6, <1>7 DEF q, T

\* A burst of damage that is no longer than the tracks' packets laid side by side
\* can be repaired whatever the plan: interleaving leaves every track with as many
\* packets as the burst has taken blocks from it.
THEOREM BurstsAreRepairable == Spec => []BurstRepairable
<1>1. IInv => BurstRepairable
  <2> SUFFICES ASSUME TypeOK, NEW first \in StripeStart(stripe) .. StripeEnd(stripe) - 1,
                      NEW last \in first .. StripeEnd(stripe) - 1,
                      \A t \in TrackIds : BlockCount(stripe, t) > 0 =>
                        last - first + 1 <= totalTracks * trackParityCount[t],
                      NEW t \in TrackIds
               PROVE  Below(last + 1, t) - Below(first, t) <= trackParityCount[t]
    BY DEF BurstRepairable, IInv
  <2> DEFINE k == trackParityCount[t]
  <2>1. /\ totalTracks \in Nat \ {0} /\ k \in Nat /\ t \in 0 .. totalTracks - 1
        /\ StripeStart(stripe) \in Nat /\ StripeEnd(stripe) \in Nat
        /\ first \in Nat /\ last \in Nat /\ last + 1 \in Nat
        /\ StripeStart(stripe) <= first /\ first <= last + 1
        /\ last + 1 <= StripeEnd(stripe) /\ StripeStart(stripe) < StripeEnd(stripe)
    <3>1. /\ stripe \in Nat /\ blocksPerStripe \in Nat /\ totalBlocks \in Nat
          /\ totalTracks \in Nat \ {0} /\ k \in Nat /\ t \in 0 .. totalTracks - 1
      BY DEF TypeOK, TrackIds
    <3>2. StripeStart(stripe) \in Nat
      BY <3>1 DEF StripeStart
    <3>3. StripeEnd(stripe) \in Nat
      BY <3>1, <3>2 DEF StripeEnd, MinOf
    <3> QED
      BY <3>1, <3>2, <3>3
  <2>2. CASE BlockCount(stripe, t) > 0
    <3>1. last - first + 1 <= totalTracks * k
      BY <2>2
    <3> DEFINE a == first + totalTracks - 1 - t
               b == last + 1 + totalTracks - 1 - t
               x == totalTracks * k
    <3>2. a \in Nat /\ b \in Nat
      BY <2>1
    <3>3. x \in Nat /\ last - first + 1 <= x
      BY <2>1, <3>1
    <3>4. b <= a + totalTracks * k
      <4> HIDE DEF x, k
      <4>1. b <= a + x
        BY <2>1, <3>3
      <4> QED
        BY <4>1 DEF x
    <3>5. Below(last + 1, t) = b \div totalTracks /\ Below(first, t) = a \div totalTracks
      BY DEF Below
    <3> HIDE DEF a, b, x, k
    <3>6. b \div totalTracks <= a \div totalTracks + k
      BY <2>1, <3>2, <3>4, ShortBurst
    <3>7. b \div totalTracks \in Nat /\ a \div totalTracks \in Nat
      BY <2>1, <3>2, Division
    <3> QED
      BY <2>1, <3>5, <3>6, <3>7 DEF k
  <2>3. CASE ~(BlockCount(stripe, t) > 0)
    <3>1. BlockCount(stripe, t) \in Nat
      BY BlockCountType DEF TypeOK
    <3>2. Below(StripeEnd(stripe), t) - Below(StripeStart(stripe), t) = 0
      BY <2>1, <2>3, <3>1 DEF BlockCount
    <3>3. /\ Below(StripeStart(stripe), t) <= Below(first, t)
          /\ Below(StripeStart(stripe), t) \in Nat /\ Below(first, t) \in Nat
      BY <2>1, BelowGrows
    <3>4. /\ Below(last + 1, t) <= Below(StripeEnd(stripe), t)
          /\ Below(last + 1, t) \in Nat /\ Below(StripeEnd(stripe), t) \in Nat
      BY <2>1, BelowGrows
    <3> QED
      BY <2>1, <3>2, <3>3, <3>4
  <2> QED
    BY <2>2, <2>3
<1> QED
  BY <1>1, Invariance, PTL
=============================================================================
