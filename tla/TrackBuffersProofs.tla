------------------------- MODULE TrackBuffersProofs -------------------------
(* Proofs about TrackBuffers, for every size of file, block and read, and    *)
(* every number of tracks and stripes.                                       *)
EXTENDS TrackBuffers, InductionLemmas, TLAPS

\* What the steps before the tail rest on: the types, ...
ReadTypeOK ==
  /\ fileSize \in Nat \ {0} /\ totalTracks \in Nat \ {0} /\ stripeCount \in Nat \ {0}
  /\ pc \in {"chunks", "tail", "stripes", "done", "died"}
  /\ position \in 0 .. fileSize
  /\ blockIdx \in 0 .. totalBlocks
  /\ originalBlockHashes \in [Blocks -> Seq(Nat)]

\* ... that every read begins at a block, unless it was the last, ...
ReadsAligned ==
  pc = "chunks" =>
    \/ position = blockIdx * BlockSize
    \/ position = fileSize /\ blockIdx = fileSize \div BlockSize

\* ... that the blocks behind are hashed, and that one block at most is left to
\* the tail.
HashedBehind ==
  /\ \A g \in 0 .. blockIdx - 1 : originalBlockHashes[g] = Block(g)
  /\ pc # "chunks" => totalBlocks <= blockIdx + 1
  /\ pc \in {"stripes", "done", "died"} => \A g \in Blocks : originalBlockHashes[g] = Block(g)

IInv == ReadTypeOK /\ ReadsAligned /\ HashedBehind

----------------------------------------------------------------------------
(* Arithmetic                                                              *)

\* How far the quotient's multiples reach.
LEMMA Division ==
  ASSUME NEW a \in Nat, NEW b \in Nat \ {0}
  PROVE  /\ a \div b \in Nat
         /\ (a \div b) * b <= a
         /\ a < (a \div b + 1) * b
<1> DEFINE q == a \div b
           r == a % b
<1>1. q \in Int /\ r \in 0 .. b - 1 /\ a = b * q + r
  OBVIOUS
<1>2. q >= 0
  OBVIOUS
<1> HIDE DEF q, r
<1>3. q * b <= a /\ a < (q + 1) * b
  BY <1>1
<1> QED
  BY <1>1, <1>2, <1>3 DEF q

\* The number of blocks is that of whole blocks, and one more for a rest.
LEMMA BlockCount ==
  ASSUME BufferAssumption, fileSize \in Nat \ {0}
  PROVE  /\ totalBlocks \in Nat \ {0}
         /\ (totalBlocks - 1) * BlockSize < fileSize
         /\ fileSize <= totalBlocks * BlockSize
<1> USE DEF BufferAssumption
<1> DEFINE a == fileSize + BlockSize - 1
<1>1. a \in Nat /\ totalBlocks = a \div BlockSize
  BY DEF totalBlocks, CeilDiv
<1> HIDE DEF a
<1>2. totalBlocks \in Nat /\ totalBlocks * BlockSize <= a /\ a < (totalBlocks + 1) * BlockSize
  BY <1>1, Division
<1>3. (totalBlocks + 1) * BlockSize = totalBlocks * BlockSize + BlockSize
      /\ (totalBlocks - 1) * BlockSize = totalBlocks * BlockSize - BlockSize
  BY <1>2
<1>4. (totalBlocks - 1) * BlockSize < fileSize /\ fileSize <= totalBlocks * BlockSize
  BY <1>2, <1>3 DEF a
<1>5. totalBlocks # 0
  BY <1>4
<1> QED
  BY <1>2, <1>4, <1>5

\* A block that ends in the file has its full size.
LEMMA FullBlock ==
  ASSUME BufferAssumption, fileSize \in Nat, NEW g \in Nat, (g + 1) * BlockSize <= fileSize
  PROVE  Block(g) = BytesFrom(g * BlockSize, (g + 1) * BlockSize)
<1> USE DEF BufferAssumption
<1>1. (g + 1) * BlockSize = g * BlockSize + BlockSize
  OBVIOUS
<1>2. BlockEnd(g) = (g + 1) * BlockSize
  BY <1>1 DEF BlockEnd, BlockStart, MinOf
<1> QED
  BY <1>2 DEF Block, BlockStart

\* The bytes of an interval are numbers.
LEMMA BytesType ==
  ASSUME NEW first \in Nat, NEW last \in Int, first <= last
  PROVE  BytesFrom(first, last) \in Seq(Nat)
  BY DEF BytesFrom

----------------------------------------------------------------------------
(* Initial states and steps                                                *)

\* Before anything is read.
THEOREM InitInv == Init => IInv
<1> SUFFICES ASSUME Init PROVE IInv
  OBVIOUS
<1> USE BufferAssumption DEF BufferAssumption
<1>1. fileSize \in Nat \ {0} /\ totalTracks \in Nat \ {0} /\ stripeCount \in Nat \ {0}
  BY DEF Init
<1>2. totalBlocks \in Nat \ {0}
  BY <1>1, BlockCount
<1>3. ReadTypeOK
  BY <1>1, <1>2 DEF Init, ReadTypeOK
<1>4. ReadsAligned /\ HashedBehind
  BY DEF Init, ReadsAligned, HashedBehind
<1> QED
  BY <1>3, <1>4 DEF IInv

\* A chunk begins at a block, and either it is full or the file ends in it.
LEMMA ChunkRead ==
  ASSUME IInv, pc = "chunks", blockIdx < totalBlocks, BytesRead > 0
  PROVE  /\ position = blockIdx * BlockSize
         /\ BytesRead \in Nat /\ position + BytesRead <= fileSize
         /\ BlocksRead \in Nat
         /\ (blockIdx + BlocksRead) * BlockSize <= fileSize
         /\ blockIdx + BlocksRead <= totalBlocks
         /\ \/ position + BytesRead = (blockIdx + BlocksRead) * BlockSize
            \/ /\ position + BytesRead = fileSize
               /\ blockIdx + BlocksRead = fileSize \div BlockSize
<1> USE BufferAssumption DEF BufferAssumption
<1>1. /\ fileSize \in Nat \ {0} /\ position \in 0 .. fileSize
      /\ totalBlocks \in Nat \ {0} /\ blockIdx \in 0 .. totalBlocks
  BY BlockCount DEF IInv, ReadTypeOK
<1>2. position = blockIdx * BlockSize
  BY <1>1 DEF IInv, ReadsAligned, BytesRead, MinOf
<1> DEFINE full == BlocksPerRead * BlockSize
           n == BlocksRead
<1>3. full \in Nat \ {0}
  OBVIOUS
<1>4. BytesRead \in Nat /\ position + BytesRead <= fileSize
  BY <1>1, <1>3 DEF BytesRead, MinOf
<1>5. n \in Nat /\ n * BlockSize <= BytesRead /\ BytesRead < (n + 1) * BlockSize
  BY <1>4, Division DEF BlocksRead
<1>6. (blockIdx + n) * BlockSize = position + n * BlockSize
  BY <1>1, <1>2, <1>5
<1>7. (blockIdx + n) * BlockSize <= fileSize
  BY <1>1, <1>4, <1>5, <1>6
<1>8. blockIdx + n <= totalBlocks
  <2>1. SUFFICES ASSUME totalBlocks + 1 <= blockIdx + n PROVE FALSE
    BY <1>1, <1>5
  <2>2. (totalBlocks + 1) * BlockSize <= (blockIdx + n) * BlockSize
    BY <1>1, <1>5, <2>1, Times
  <2>3. (totalBlocks + 1) * BlockSize = totalBlocks * BlockSize + BlockSize
    BY <1>1
  <2>4. fileSize <= totalBlocks * BlockSize
    BY <1>1, BlockCount
  <2> DEFINE behind == (blockIdx + n) * BlockSize
             all == totalBlocks * BlockSize
             more == (totalBlocks + 1) * BlockSize
  <2>5. behind \in Int /\ all \in Int /\ more \in Int
    BY <1>1, <1>5
  <2>6. more <= behind /\ behind <= fileSize /\ fileSize <= all /\ more = all + BlockSize
    BY <1>7, <2>2, <2>3, <2>4
  <2> HIDE DEF behind, all, more
  <2> QED
    BY <1>1, <2>5, <2>6
<1>9. CASE BytesRead = full
  <2>1. n = BlocksPerRead
    <3>1. n * BlockSize <= BlocksPerRead * BlockSize
          /\ BlocksPerRead * BlockSize < (n + 1) * BlockSize
      BY <1>5, <1>9
    <3>2. ~(n + 1 <= BlocksPerRead)
      <4>1. SUFFICES ASSUME n + 1 <= BlocksPerRead PROVE FALSE
        OBVIOUS
      <4> QED
        BY <1>5, <3>1, <4>1, Times
    <3>3. ~(BlocksPerRead + 1 <= n)
      <4>1. SUFFICES ASSUME BlocksPerRead + 1 <= n PROVE FALSE
        OBVIOUS
      <4>2. (BlocksPerRead + 1) * BlockSize <= n * BlockSize
        BY <1>5, <4>1, Times
      <4>3. (BlocksPerRead + 1) * BlockSize = BlocksPerRead * BlockSize + BlockSize
        OBVIOUS
      <4> QED
        BY <1>3, <1>5, <3>1, <4>2, <4>3
    <3> QED
      BY <1>5, <3>2, <3>3
  <2> QED
    BY <1>1, <1>2, <1>4, <1>5, <1>6, <1>7, <1>8, <1>9, <2>1
<1>10. CASE BytesRead # full
  <2>1. position + BytesRead = fileSize
    BY <1>1, <1>3, <1>10 DEF BytesRead, MinOf
  <2>2. (blockIdx + n + 1) * BlockSize = position + (n + 1) * BlockSize
    BY <1>1, <1>2, <1>5
  <2>3. fileSize < (blockIdx + n + 1) * BlockSize
    BY <1>1, <1>4, <1>5, <2>1, <2>2
  <2>4. blockIdx + n = fileSize \div BlockSize
    <3> DEFINE m == blockIdx + n
               q == fileSize \div BlockSize
    <3>1. q \in Nat /\ q * BlockSize <= fileSize /\ fileSize < (q + 1) * BlockSize
      BY <1>1, Division
    <3>2. m \in Nat /\ m * BlockSize <= fileSize /\ fileSize < (m + 1) * BlockSize
      BY <1>1, <1>5, <1>7, <2>3
    <3> HIDE DEF m, q
    <3>3. ~(m + 1 <= q)
      <4>1. SUFFICES ASSUME m + 1 <= q PROVE FALSE
        OBVIOUS
      <4>2. (m + 1) * BlockSize <= q * BlockSize
        BY <3>1, <3>2, <4>1, Times
      <4> QED
        BY <1>1, <3>1, <3>2, <4>2
    <3>4. ~(q + 1 <= m)
      <4>1. SUFFICES ASSUME q + 1 <= m PROVE FALSE
        OBVIOUS
      <4>2. (q + 1) * BlockSize <= m * BlockSize
        BY <3>1, <3>2, <4>1, Times
      <4> QED
        BY <1>1, <3>1, <3>2, <4>2
    <3>5. m = q
      BY <3>1, <3>2, <3>3, <3>4
    <3> QED
      BY <3>5 DEF m, q
  <2> QED
    BY <1>2, <1>4, <1>5, <1>7, <1>8, <2>1, <2>4
<1> QED
  BY <1>9, <1>10

\* A chunk hashes the blocks that are complete in it.
LEMMA ReadChunkStep == IInv /\ ReadChunk => IInv'
<1> SUFFICES ASSUME IInv, ReadChunk PROVE IInv'
  OBVIOUS
<1> USE BufferAssumption DEF BufferAssumption
<1>1. /\ fileSize \in Nat \ {0} /\ position \in 0 .. fileSize
      /\ totalBlocks \in Nat \ {0} /\ blockIdx \in 0 .. totalBlocks
      /\ originalBlockHashes \in [Blocks -> Seq(Nat)] /\ pc = "chunks"
  BY BlockCount DEF IInv, ReadTypeOK, ReadChunk
<1>2. /\ position = blockIdx * BlockSize
      /\ BytesRead \in Nat /\ position + BytesRead <= fileSize
      /\ BlocksRead \in Nat
      /\ (blockIdx + BlocksRead) * BlockSize <= fileSize
      /\ blockIdx + BlocksRead <= totalBlocks
      /\ \/ position + BytesRead = (blockIdx + BlocksRead) * BlockSize
         \/ /\ position + BytesRead = fileSize
            /\ blockIdx + BlocksRead = fileSize \div BlockSize
  BY ChunkRead DEF ReadChunk
<1>3. UNCHANGED <<fileSize, totalTracks, stripeCount, pc, totalBlocks, Blocks>>
  BY DEF ReadChunk, inputVars, totalBlocks, Blocks
<1>4. /\ position' = position + BytesRead /\ blockIdx' = blockIdx + BlocksRead
      /\ position' \in 0 .. fileSize
  <2>1. position' = position + BytesRead /\ blockIdx' = blockIdx + BlocksRead
    BY DEF ReadChunk
  <2> QED
    BY <1>1, <1>2, <2>1
<1> DEFINE read == blockIdx .. blockIdx + BlocksRead - 1
           bytes(g) == BytesFrom(position + (g - blockIdx) * BlockSize,
                                 position + (g - blockIdx + 1) * BlockSize)
<1>5. originalBlockHashes' =
        [g \in Blocks |-> IF g \in read THEN bytes(g) ELSE originalBlockHashes[g]]
  BY DEF ReadChunk
<1>6. \A g \in read : g \in Nat /\ bytes(g) = Block(g) /\ bytes(g) \in Seq(Nat)
  <2> SUFFICES ASSUME NEW g \in read
               PROVE  g \in Nat /\ bytes(g) = Block(g) /\ bytes(g) \in Seq(Nat)
    OBVIOUS
  <2>1. g \in Nat /\ g + 1 <= blockIdx + BlocksRead
    BY <1>1, <1>2
  <2>2. /\ position + (g - blockIdx) * BlockSize = g * BlockSize
        /\ position + (g - blockIdx + 1) * BlockSize = (g + 1) * BlockSize
    BY <1>1, <1>2, <2>1
  <2>3. (g + 1) * BlockSize <= (blockIdx + BlocksRead) * BlockSize
    BY <1>1, <1>2, <2>1, Times
  <2>4. (g + 1) * BlockSize <= fileSize
    BY <1>1, <1>2, <2>1, <2>3
  <2>5. bytes(g) = Block(g)
    BY <1>1, <2>1, <2>2, <2>4, FullBlock
  <2>6. g * BlockSize \in Nat /\ g * BlockSize <= (g + 1) * BlockSize
    BY <2>1
  <2> QED
    BY <2>1, <2>2, <2>5, <2>6, BytesType
<1>8. \A g : Block(g)' = Block(g)
  BY <1>3 DEF Block, BytesFrom, BlockStart, BlockEnd, MinOf
<1>9. ReadTypeOK'
  <2>1. originalBlockHashes' \in [Blocks -> Seq(Nat)]
    BY <1>1, <1>5, <1>6
  <2>2. blockIdx' \in 0 .. totalBlocks
    BY <1>1, <1>2, <1>4
  <2> QED
    BY <1>3, <1>4, <2>1, <2>2 DEF IInv, ReadTypeOK
<1>10. ReadsAligned'
  BY <1>2, <1>3, <1>4 DEF ReadsAligned
<1>11. HashedBehind'
  <2>1. ASSUME NEW g \in 0 .. blockIdx' - 1 PROVE originalBlockHashes'[g] = Block(g)
    <3>1. g \in Blocks
      BY <1>1, <1>2, <1>4 DEF Blocks
    <3>2. CASE g \in read
      BY <1>5, <1>6, <3>1, <3>2
    <3>3. CASE g \notin read
      BY <1>1, <1>2, <1>4, <1>5, <3>1, <3>3 DEF IInv, HashedBehind
    <3> QED
      BY <3>2, <3>3
  <2> QED
    BY <1>1, <1>3, <1>8, <2>1 DEF HashedBehind
<1> QED
  BY <1>9, <1>10, <1>11 DEF IInv

\* When nothing more can be read, at most one block has not been hashed.
LEMMA ChunksOverStep == IInv /\ ChunksOver => IInv'
<1> SUFFICES ASSUME IInv, ChunksOver PROVE IInv'
  OBVIOUS
<1> USE BufferAssumption DEF BufferAssumption
<1>1. /\ fileSize \in Nat \ {0} /\ position \in 0 .. fileSize
      /\ totalBlocks \in Nat \ {0} /\ blockIdx \in 0 .. totalBlocks
      /\ pc = "chunks" /\ pc' = "tail"
  BY BlockCount DEF IInv, ReadTypeOK, ChunksOver
<1>2. UNCHANGED <<fileSize, totalTracks, stripeCount, position, blockIdx,
                  originalBlockHashes, totalBlocks, Blocks>>
  BY DEF ChunksOver, inputVars, totalBlocks, Blocks
<1>3. \A g : Block(g)' = Block(g)
  BY <1>2 DEF Block, BytesFrom, BlockStart, BlockEnd, MinOf
<1>4. totalBlocks <= blockIdx + 1
  <2>1. CASE blockIdx = totalBlocks
    BY <1>1, <2>1
  <2>2. CASE BytesRead = 0
    <3>1. BlocksPerRead * BlockSize \in Nat \ {0}
      OBVIOUS
    <3>2. position = fileSize
      BY <1>1, <2>2, <3>1 DEF BytesRead, MinOf
    <3>3. fileSize < (blockIdx + 1) * BlockSize
      <4>1. CASE position = blockIdx * BlockSize
        BY <1>1, <3>2, <4>1
      <4>2. CASE blockIdx = fileSize \div BlockSize
        BY <1>1, <4>2, Division
      <4> QED
        BY <1>1, <4>1, <4>2 DEF IInv, ReadsAligned
    <3>4. SUFFICES ASSUME blockIdx + 1 <= totalBlocks - 1 PROVE FALSE
      BY <1>1
    <3>5. (blockIdx + 1) * BlockSize <= (totalBlocks - 1) * BlockSize
      BY <1>1, <3>4, Times
    <3> QED
      BY <1>1, <3>3, <3>5, BlockCount
  <2> QED
    BY <2>1, <2>2 DEF ChunksOver
<1>5. ReadTypeOK' /\ ReadsAligned'
  BY <1>1, <1>2 DEF IInv, ReadTypeOK, ReadsAligned
<1>6. HashedBehind'
  BY <1>1, <1>2, <1>3, <1>4 DEF IInv, HashedBehind
<1> QED
  BY <1>5, <1>6 DEF IInv

\* The tail hashes the block that is left, whole or not.
LEMMA ReadTailStep == IInv /\ ReadTail => IInv'
<1> SUFFICES ASSUME IInv, ReadTail PROVE IInv'
  OBVIOUS
<1> USE BufferAssumption DEF BufferAssumption
<1>1. /\ fileSize \in Nat \ {0} /\ position \in 0 .. fileSize
      /\ totalBlocks \in Nat \ {0} /\ blockIdx \in 0 .. totalBlocks
      /\ originalBlockHashes \in [Blocks -> Seq(Nat)]
      /\ totalBlocks <= blockIdx + 1
      /\ \A g \in 0 .. blockIdx - 1 : originalBlockHashes[g] = Block(g)
  BY BlockCount DEF IInv, ReadTypeOK, HashedBehind, ReadTail
<1>2. /\ UNCHANGED <<fileSize, totalTracks, stripeCount, blockIdx, totalBlocks, Blocks>>
      /\ pc' \in {"stripes", "done"}
  BY DEF ReadTail, inputVars, totalBlocks, Blocks
<1>3. \A g : Block(g)' = Block(g)
  BY <1>2 DEF Block, BytesFrom, BlockStart, BlockEnd, MinOf
<1>4. CASE blockIdx = totalBlocks
  <2> ~(blockIdx < totalBlocks)
    BY <1>1, <1>4
  <2>1. UNCHANGED <<originalBlockHashes, position>>
    BY Zenon DEF ReadTail
  <2>2. ReadTypeOK' /\ ReadsAligned'
    BY <1>1, <1>2, <2>1 DEF IInv, ReadTypeOK, ReadsAligned
  <2>3. HashedBehind'
    BY <1>1, <1>2, <1>3, <1>4, <2>1 DEF HashedBehind, Blocks
  <2> QED
    BY <2>2, <2>3 DEF IInv
<1>5. CASE blockIdx < totalBlocks
  <2>1. blockIdx = totalBlocks - 1 /\ blockIdx \in Blocks
    BY <1>1, <1>5 DEF Blocks
  <2> DEFINE last == BytesFrom(blockIdx * BlockSize, fileSize)
  <2>2. /\ originalBlockHashes' = [originalBlockHashes EXCEPT ![blockIdx] = last]
        /\ position' = fileSize
    BY <1>5 DEF ReadTail
  <2>3. /\ blockIdx * BlockSize < fileSize
        /\ fileSize <= (blockIdx + 1) * BlockSize
    BY <1>1, <2>1, BlockCount
  <2>4. last = Block(blockIdx)
    <3>1. (blockIdx + 1) * BlockSize = blockIdx * BlockSize + BlockSize
      BY <1>1
    <3>2. BlockEnd(blockIdx) = fileSize
      BY <1>1, <2>3, <3>1 DEF BlockEnd, BlockStart, MinOf
    <3> QED
      BY <3>2 DEF Block, BlockStart
  <2>5. last \in Seq(Nat)
    BY <1>1, <2>3, BytesType
  <2> HIDE DEF last
  <2>6. ReadTypeOK'
    <3>1. originalBlockHashes' \in [Blocks -> Seq(Nat)]
      BY <1>1, <2>2, <2>5
    <3>2. position' \in 0 .. fileSize
      BY <1>1, <2>2
    <3> QED
      BY <1>1, <1>2, <3>1, <3>2 DEF IInv, ReadTypeOK
  <2>7. HashedBehind'
    <3>1. \A g \in Blocks : originalBlockHashes'[g] = Block(g)
      BY <1>1, <2>1, <2>2, <2>4 DEF Blocks
    <3> QED
      BY <1>1, <1>2, <1>3, <3>1 DEF HashedBehind, Blocks
  <2>8. ReadsAligned'
    BY <1>2 DEF ReadsAligned
  <2> QED
    BY <2>6, <2>7, <2>8 DEF IInv
<1> QED
  BY <1>1, <1>4, <1>5

\* Dealing blocks to the tracks hashes nothing.
LEMMA OtherSteps == IInv /\ (ReadStripe \/ StripeDies \/ StripesOver \/ UNCHANGED vars) => IInv'
<1> SUFFICES ASSUME IInv, ReadStripe \/ StripeDies \/ StripesOver \/ UNCHANGED vars PROVE IInv'
  OBVIOUS
<1>1. /\ UNCHANGED <<fileSize, totalTracks, stripeCount, position, blockIdx,
                      originalBlockHashes, totalBlocks, Blocks>>
      /\ \/ pc' = pc
         \/ pc = "stripes" /\ pc' \in {"done", "died"}
  BY DEF ReadStripe, StripeDies, StripesOver, vars, inputVars, totalBlocks, Blocks
<1>2. \A g : Block(g)' = Block(g)
  BY <1>1 DEF Block, BytesFrom, BlockStart, BlockEnd, MinOf
<1>3. ReadTypeOK' /\ ReadsAligned'
  BY <1>1 DEF IInv, ReadTypeOK, ReadsAligned
<1>4. HashedBehind'
  BY <1>1, <1>2 DEF IInv, HashedBehind
<1> QED
  BY <1>3, <1>4 DEF IInv

\* No step breaks the invariant.
THEOREM StepInv == IInv /\ [Next]_vars => IInv'
BY ReadChunkStep, ChunksOverStep, ReadTailStep, OtherSteps DEF Next, Ended

\* The invariant holds whatever the sizes of the file, its blocks and the reads.
THEOREM Invariance == Spec => []IInv
BY InitInv, StepInv, PTL DEF Spec

\* Whatever the sizes, every reference hash is over exactly the bytes that repair
\* hashes to compare with it (create.cpp and repair.cpp:494-498): no chunk border
\* and no short last block leaves a hash of the wrong bytes, or of none.
THEOREM HashesRight == Spec => []HashesAgree
<1>1. IInv => HashesAgree
  BY DEF IInv, HashedBehind, HashesAgree
<1> QED
  BY <1>1, Invariance, PTL
-----------------------------------------------------------------------------
(* Joining the blocks of a track                                           *)

\* What a block adds to the message of a track.
Dealt(g, t) == IF g % totalTracks = t THEN Block(g) ELSE <<>>

\* A block is a sequence of bytes.
LEMMA BlockType ==
  ASSUME BufferAssumption, fileSize \in Nat \ {0}, NEW g \in 0 .. totalBlocks - 1
  PROVE  Block(g) \in Seq(Nat)
<1> USE DEF BufferAssumption
<1>1. totalBlocks \in Nat \ {0} /\ (totalBlocks - 1) * BlockSize < fileSize
  BY BlockCount
<1>2. g \in Nat /\ g * BlockSize <= (totalBlocks - 1) * BlockSize
  BY <1>1, Times
<1>3. g * BlockSize \in Nat /\ (totalBlocks - 1) * BlockSize \in Int
  BY <1>1, <1>2
<1> DEFINE start == g * BlockSize
           behind == (totalBlocks - 1) * BlockSize
<1>4. start \in Nat /\ behind \in Int /\ start <= behind /\ behind < fileSize
  BY <1>1, <1>2, <1>3
<1> HIDE DEF start, behind
<1>5. BlockStart(g) = start
  BY DEF BlockStart, start
<1>6. BlockEnd(g) \in Int /\ start <= BlockEnd(g)
  BY <1>4, <1>5 DEF BlockEnd, MinOf
<1> QED
  BY <1>4, <1>5, <1>6, BytesType DEF Block

\* The blocks of an interval, those of other tracks left out, are sequences of bytes.
LEMMA DealtType ==
  ASSUME BufferAssumption, fileSize \in Nat \ {0}, NEW t,
         NEW a \in Nat, NEW n \in Nat, a + n <= totalBlocks
  PROVE  [i \in 1 .. n |-> Dealt(a + i - 1, t)] \in Seq(Seq(Nat))
<1>1. \A i \in 1 .. n : Dealt(a + i - 1, t) \in Seq(Nat)
  <2> TAKE i \in 1 .. n
  <2>1. a + i - 1 \in 0 .. totalBlocks - 1
    BY BlockCount
  <2> QED
    BY <2>1, BlockType DEF Dealt
<1> QED
  BY <1>1

\* An interval of so many blocks.
LEMMA JoinDealt ==
  ASSUME NEW a \in Nat, NEW n \in Int, NEW t
  PROVE  JoinBlocks(a, a + n, t) = FlattenSeq([i \in 1 .. n |-> Dealt(a + i - 1, t)])
<1>1. a + n - a = n
  OBVIOUS
<1> QED
  BY <1>1 DEF JoinBlocks, Dealt

\* No block gives an empty message.
LEMMA JoinEmpty ==
  ASSUME NEW a \in Nat, NEW b \in Int, b <= a, NEW t
  PROVE  JoinBlocks(a, b, t) = <<>>
<1> DEFINE s == [i \in 1 .. b - a |-> Dealt(a + i - 1, t)]
<1>1. s = <<>>
  OBVIOUS
<1>2. JoinBlocks(a, b, t) = FlattenSeq(s)
  BY DEF JoinBlocks, Dealt
<1> HIDE DEF s
<1> QED
  BY <1>1, <1>2, FlattenEmpty

\* A message consists of bytes.
LEMMA JoinType ==
  ASSUME BufferAssumption, fileSize \in Nat \ {0}, NEW t,
         NEW a \in Nat, NEW b \in Int, b <= totalBlocks
  PROVE  JoinBlocks(a, b, t) \in Seq(Nat)
<1>1. CASE b <= a
  BY <1>1, JoinEmpty, EmptySeq
<1>2. CASE a < b
  <2> DEFINE n == b - a
  <2>1. n \in Nat /\ a + n = b
    BY <1>2
  <2> HIDE DEF n
  <2>2. [i \in 1 .. n |-> Dealt(a + i - 1, t)] \in Seq(Seq(Nat))
    BY <2>1, DealtType
  <2>3. JoinBlocks(a, a + n, t) = FlattenSeq([i \in 1 .. n |-> Dealt(a + i - 1, t)])
    BY <2>1, JoinDealt
  <2>4. JoinBlocks(a, a + n, t) \in Seq(Nat)
    BY <2>2, <2>3, FlattenType
  <2> QED
    BY <2>1, <2>4
<1> QED
  BY <1>1, <1>2

\* Messages of neighbouring intervals are joined.
LEMMA JoinThrough ==
  ASSUME BufferAssumption, fileSize \in Nat \ {0}, NEW t,
         NEW a \in Nat, NEW b \in Nat, NEW c \in Nat, a <= b, b <= c, c <= totalBlocks
  PROVE  JoinBlocks(a, b, t) \o JoinBlocks(b, c, t) = JoinBlocks(a, c, t)
<1> DEFINE m == b - a
           n == c - b
           k == c - a
           s == [i \in 1 .. m |-> Dealt(a + i - 1, t)]
           u == [i \in 1 .. n |-> Dealt(b + i - 1, t)]
           r == [i \in 1 .. k |-> Dealt(a + i - 1, t)]
<1>1. /\ m \in Nat /\ n \in Nat /\ k \in Nat /\ k = m + n /\ b = a + m
      /\ a + m <= totalBlocks /\ b + n <= totalBlocks /\ a + k <= totalBlocks
  BY BlockCount
<1>2. /\ JoinBlocks(a, b, t) = FlattenSeq(s)
      /\ JoinBlocks(b, c, t) = FlattenSeq(u)
      /\ JoinBlocks(a, c, t) = FlattenSeq(r)
  BY DEF JoinBlocks, Dealt
<1> HIDE DEF m, n, k
<1>3. s \in Seq(Seq(Nat)) /\ u \in Seq(Seq(Nat)) /\ r \in Seq(Seq(Nat))
  BY <1>1, DealtType
<1>4. /\ Len(s) = m /\ Len(u) = n /\ Len(r) = m + n
      /\ \A i \in 1 .. m + n : r[i] = IF i <= m THEN s[i] ELSE u[i - m]
  <2>1. Len(s) = m /\ Len(u) = n /\ Len(r) = m + n
    BY <1>1
  <2>2. ASSUME NEW i \in 1 .. m + n PROVE r[i] = IF i <= m THEN s[i] ELSE u[i - m]
    <3>1. CASE i <= m
      BY <1>1, <3>1
    <3>2. CASE m < i
      <4>1. i - m \in 1 .. n /\ b + (i - m) - 1 = a + i - 1
        BY <1>1, <3>2
      <4> QED
        BY <1>1, <3>2, <4>1
    <3> QED
      BY <1>1, <3>1, <3>2
  <2> QED
    BY <2>1, <2>2
<1> DEFINE d == s \o u
<1> HIDE DEF s, u, r
<1>5. /\ d \in Seq(Seq(Nat)) /\ Len(d) = m + n
      /\ \A i \in 1 .. m + n : d[i] = IF i <= m THEN s[i] ELSE u[i - m]
  BY <1>3, <1>4, ConcatProperties, ZenonT(30)
<1> HIDE DEF d
<1>6. Len(r) = Len(d) /\ \A i \in 1 .. Len(r) : r[i] = d[i]
  BY <1>4, <1>5
<1>7. r = d
  BY <1>3, <1>5, <1>6, SeqEqual
<1>8. FlattenSeq(r) = FlattenSeq(s) \o FlattenSeq(u)
  BY <1>3, <1>7, FlattenConcat DEF d
<1> QED
  BY <1>2, <1>8

\* A single block.
LEMMA JoinOne ==
  ASSUME BufferAssumption, fileSize \in Nat \ {0}, NEW t, NEW g \in 0 .. totalBlocks - 1
  PROVE  JoinBlocks(g, g + 1, t) = Dealt(g, t)
<1>1. g \in Nat /\ Dealt(g, t) \in Seq(Nat)
  BY BlockType, BlockCount DEF Dealt
<1> DEFINE s == [i \in 1 .. 1 |-> Dealt(g + i - 1, t)]
<1>2. s = <<Dealt(g, t)>>
  <2>1. g + 1 - 1 = g
    BY <1>1
  <2> QED
    BY <2>1
<1>3. JoinBlocks(g, g + 1, t) = FlattenSeq(s)
  <2>1. g + 1 - g = 1
    BY <1>1
  <2> QED
    BY <2>1 DEF JoinBlocks, Dealt
<1> HIDE DEF s
<1> QED
  BY <1>1, <1>2, <1>3, FlattenOne

\* Intervals of bytes are joined.
LEMMA BytesSplit ==
  ASSUME NEW a \in Nat, NEW b \in Nat, NEW c \in Nat, a <= b, b <= c
  PROVE  BytesFrom(a, b) \o BytesFrom(b, c) = BytesFrom(a, c)
<1> DEFINE s == BytesFrom(a, b)
           u == BytesFrom(b, c)
           r == BytesFrom(a, c)
           d == s \o u
<1>1. s \in Seq(Nat) /\ u \in Seq(Nat) /\ r \in Seq(Nat)
  BY BytesType
<1>2. /\ Len(s) = b - a /\ Len(u) = c - b /\ Len(r) = c - a
      /\ \A i \in 1 .. b - a : s[i] = a + i - 1
      /\ \A i \in 1 .. c - b : u[i] = b + i - 1
      /\ \A i \in 1 .. c - a : r[i] = a + i - 1
  BY DEF BytesFrom
<1> HIDE DEF s, u, r
<1>3. /\ d \in Seq(Nat) /\ Len(d) = Len(s) + Len(u)
      /\ \A i \in 1 .. Len(s) + Len(u) : d[i] = IF i <= Len(s) THEN s[i] ELSE u[i - Len(s)]
  BY <1>1, ConcatProperties
<1> HIDE DEF d
<1>4. Len(d) = Len(r) /\ \A i \in 1 .. Len(d) : d[i] = r[i]
  BY <1>2, <1>3
<1>5. d = r
  BY <1>1, <1>3, <1>4, SeqEqual
<1> QED
  BY <1>5 DEF d, s, u, r

\* The blocks of a single track, as long as they are whole, are the bytes of the file.
LEMMA JoinWhole ==
  ASSUME BufferAssumption, fileSize \in Nat \ {0}, totalTracks = 1,
         NEW a \in Nat, NEW n \in Nat, (a + n) * BlockSize <= fileSize, a + n <= totalBlocks
  PROVE  JoinBlocks(a, a + n, 0) = BytesFrom(a * BlockSize, (a + n) * BlockSize)
<1> USE DEF BufferAssumption
<1>0. totalBlocks \in Nat
  BY BlockCount
<1> DEFINE P(m) == m <= n =>
             JoinBlocks(a, a + m, 0) = BytesFrom(a * BlockSize, (a + m) * BlockSize)
           S == {m \in Nat : P(m)}
<1>1. 0 \in S
  <2>1. a + 0 = a /\ a * BlockSize \in Nat
    OBVIOUS
  <2>2. JoinBlocks(a, a, 0) = <<>>
    BY JoinEmpty
  <2>3. BytesFrom(a * BlockSize, a * BlockSize) = <<>>
    BY <2>1 DEF BytesFrom
  <2> QED
    BY <2>1, <2>2, <2>3
<1>2. ASSUME NEW m \in Nat, m \in S PROVE m + 1 \in S
  <2> SUFFICES ASSUME m + 1 <= n
               PROVE  JoinBlocks(a, a + (m + 1), 0)
                        = BytesFrom(a * BlockSize, (a + (m + 1)) * BlockSize)
    OBVIOUS
  <2>1. JoinBlocks(a, a + m, 0) = BytesFrom(a * BlockSize, (a + m) * BlockSize)
    BY <1>2
  <2> DEFINE g == a + m
  <2>2. g \in Nat /\ g \in 0 .. totalBlocks - 1 /\ a + (m + 1) = g + 1 /\ g + 1 <= a + n
        /\ a + m + 1 = g + 1
    BY <1>0
  <2>3. JoinBlocks(a, g, 0) \o JoinBlocks(g, g + 1, 0) = JoinBlocks(a, g + 1, 0)
    <3>1. a <= g /\ g <= g + 1 /\ g + 1 <= totalBlocks /\ g + 1 \in Nat
      BY <1>0
    <3> HIDE DEF g
    <3> QED
      BY <2>2, <3>1, JoinThrough
  <2> HIDE DEF g
  <2>4. JoinBlocks(g, g + 1, 0) = Block(g)
    <3>1. g % totalTracks = 0
      BY <2>2
    <3> QED
      BY <2>2, <3>1, JoinOne DEF Dealt
  <2>5. (g + 1) * BlockSize <= fileSize
    <3>1. (g + 1) * BlockSize <= (a + n) * BlockSize
      BY <2>2, Times
    <3>2. (g + 1) * BlockSize \in Int /\ (a + n) * BlockSize \in Int
      BY <2>2
    <3> QED
      BY <3>1, <3>2
  <2>6. Block(g) = BytesFrom(g * BlockSize, (g + 1) * BlockSize)
    BY <2>2, <2>5, FullBlock
  <2>7. /\ a * BlockSize \in Nat /\ g * BlockSize \in Nat /\ (g + 1) * BlockSize \in Nat
        /\ a * BlockSize <= g * BlockSize /\ g * BlockSize <= (g + 1) * BlockSize
    <3>1. a <= g /\ g <= g + 1
      BY <2>2 DEF g
    <3> QED
      BY <2>2, <3>1, Times
  <2>8. BytesFrom(a * BlockSize, g * BlockSize) \o BytesFrom(g * BlockSize, (g + 1) * BlockSize)
          = BytesFrom(a * BlockSize, (g + 1) * BlockSize)
    BY <2>7, BytesSplit
  <2>9. JoinBlocks(a, g, 0) = BytesFrom(a * BlockSize, g * BlockSize)
    BY <2>1 DEF g
  <2> QED
    BY <2>2, <2>3, <2>4, <2>6, <2>8, <2>9
<1> HIDE DEF S
<1>3. n \in S
  BY <1>1, <1>2, SetInduction
<1> QED
  BY <1>3 DEF S

-----------------------------------------------------------------------------
(* The messages                                                            *)

\* A single track is read as it is: the last block must be whole.
SingleIsWhole == 1 \in TrackCounts => \A n \in FileSizes : n % BlockSize = 0

\* Without stripes the buffers hold the blocks behind, ...
DealtBehind ==
  ~Striped =>
    /\ pc \in {"chunks", "tail", "done"}
    /\ \A t \in TrackIds :
         trackBufs[0][t] = JoinBlocks(0, IF pc = "done" THEN totalBlocks ELSE blockIdx, t)

\* ... with stripes those of the stripes behind, as far as one read has brought them.
StripesBehind ==
  Striped =>
    /\ pc = "done" => stripe = stripeCount
    /\ \A s \in 0 .. stripe - 1 : FitsOneRead(s) =>
         \A t \in TrackIds : trackBufs[s][t] = JoinBlocks(StripeStart(s), StripeEnd(s), t)

BufferInv ==
  /\ Single => fileSize % BlockSize = 0
  /\ stripe \in 0 .. stripeCount
  /\ trackBufs \in [StripeIds -> [TrackIds -> Seq(Nat)]]
  /\ DealtBehind /\ StripesBehind

\* Nothing that is made of the input changes.
LEMMA InputsSame ==
  ASSUME UNCHANGED inputVars
  PROVE  /\ totalBlocks' = totalBlocks /\ TrackIds' = TrackIds /\ StripeIds' = StripeIds
         /\ Single' = Single /\ Striped' = Striped
         /\ \A s : StripeStart(s)' = StripeStart(s) /\ StripeEnd(s)' = StripeEnd(s)
         /\ \A s : FitsOneRead(s)' = FitsOneRead(s)
         /\ \A a, b, t : JoinBlocks(a, b, t)' = JoinBlocks(a, b, t)
         /\ UNCHANGED <<fileSize, totalTracks, stripeCount>>
BY DEF inputVars, totalBlocks, TrackIds, StripeIds, Single, Striped, StripeStart, StripeEnd,
   JoinBlocks, Block, BytesFrom, BlockStart, BlockEnd, blocksPerStripe,
   FitsOneRead, StripeBytes, MinOf

\* What the steps need to know of the input.
LEMMA InputFacts ==
  ASSUME IInv
  PROVE  /\ BufferAssumption
         /\ fileSize \in Nat \ {0} /\ totalTracks \in Nat \ {0} /\ stripeCount \in Nat \ {0}
         /\ totalBlocks \in Nat \ {0} /\ blockIdx \in 0 .. totalBlocks
         /\ 0 \in StripeIds /\ (Striped => StripeIds = 0 .. stripeCount - 1)
BY BufferAssumption, BlockCount DEF IInv, ReadTypeOK, StripeIds, Striped, Single

\* Nothing has been read.
THEOREM BufferInit == SingleIsWhole /\ Init => BufferInv
<1> SUFFICES ASSUME SingleIsWhole, Init PROVE BufferInv
  OBVIOUS
<1>1. IInv
  BY InitInv
<1>2. Single => fileSize % BlockSize = 0
  BY DEF Init, SingleIsWhole, Single
<1>3. trackBufs \in [StripeIds -> [TrackIds -> Seq(Nat)]]
  <2>1. <<>> \in Seq(Nat)
    OBVIOUS
  <2> QED
    BY <2>1 DEF Init
<1>4. DealtBehind
  <2>1. \A t \in TrackIds : JoinBlocks(0, 0, t) = <<>>
    BY JoinEmpty
  <2>2. \A t \in TrackIds : trackBufs[0][t] = <<>>
    BY <1>1, InputFacts DEF Init
  <2> QED
    BY <2>1, <2>2 DEF Init, DealtBehind
<1>5. StripesBehind /\ stripe \in 0 .. stripeCount
  BY <1>1, InputFacts DEF Init, StripesBehind
<1> QED
  BY <1>2, <1>3, <1>4, <1>5 DEF BufferInv

\* What a chunk adds to the buffer of a track are the blocks that are complete in it.
LEMMA ChunkDealt ==
  ASSUME IInv, BufferInv, ReadChunk, ~Striped, NEW t \in TrackIds
  PROVE  trackBufs'[0][t] = JoinBlocks(0, blockIdx + BlocksRead, t)
<1>0. BufferAssumption /\ fileSize \in Nat \ {0} /\ totalBlocks \in Nat /\ blockIdx \in Nat
  BY InputFacts
<1>1. /\ pc = "chunks" /\ position = blockIdx * BlockSize /\ BlocksRead \in Nat
      /\ (blockIdx + BlocksRead) * BlockSize <= fileSize
      /\ blockIdx + BlocksRead <= totalBlocks
      /\ \/ position + BytesRead = (blockIdx + BlocksRead) * BlockSize
         \/ /\ position + BytesRead = fileSize
            /\ blockIdx + BlocksRead = fileSize \div BlockSize
  BY ChunkRead DEF ReadChunk
<1> DEFINE c == blockIdx + BlocksRead
           x == IF Single THEN BytesFrom(position, position + BytesRead)
                ELSE JoinBlocks(blockIdx, c, t)
<1>2. trackBufs'[0][t] = trackBufs[0][t] \o x
  BY InputFacts DEF ReadChunk, Collect, BufferInv
<1>3. trackBufs[0][t] = JoinBlocks(0, blockIdx, t)
  BY <1>1 DEF BufferInv, DealtBehind
<1>4. c \in Nat /\ blockIdx <= c /\ c <= totalBlocks
  BY <1>0, <1>1
<1>5. x = JoinBlocks(blockIdx, c, t)
  <2>1. CASE ~Single
    BY <2>1
  <2>2. CASE Single
    <3>1. position + BytesRead = c * BlockSize
      <4>1. CASE position + BytesRead = fileSize /\ c = fileSize \div BlockSize
        <5>1. PICK q \in Nat, r \in 0 .. BlockSize - 1 :
                fileSize \div BlockSize = q /\ fileSize % BlockSize = r
                /\ fileSize = q * BlockSize + r
          BY <1>0, Quotient DEF BufferAssumption
        <5>2. r = 0
          BY <2>2, <5>1 DEF BufferInv
        <5>3. fileSize = q * BlockSize
          BY <5>1, <5>2, <1>0 DEF BufferAssumption
        <5> QED
          BY <4>1, <5>1, <5>3
      <4> QED
        BY <1>1, <4>1
    <3>2. t = 0 /\ totalTracks = 1
      BY <2>2 DEF Single, TrackIds
    <3>3. JoinBlocks(blockIdx, blockIdx + BlocksRead, 0)
            = BytesFrom(blockIdx * BlockSize, (blockIdx + BlocksRead) * BlockSize)
      BY <1>0, <1>1, <3>2, JoinWhole
    <3> QED
      BY <1>1, <2>2, <3>1, <3>2, <3>3
  <2> QED
    BY <2>1, <2>2
<1> HIDE DEF x, c
<1>6. JoinBlocks(0, blockIdx, t) \o JoinBlocks(blockIdx, c, t) = JoinBlocks(0, c, t)
  <2>1. 0 \in Nat /\ 0 <= blockIdx
    BY <1>0
  <2> QED
    BY <1>0, <1>4, <2>1, JoinThrough
<1> QED
  BY <1>2, <1>3, <1>5, <1>6 DEF c

\* A chunk.
LEMMA ChunkBuffers == IInv /\ IInv' /\ BufferInv /\ ReadChunk => BufferInv'
<1> SUFFICES ASSUME IInv, IInv', BufferInv, ReadChunk PROVE BufferInv'
  OBVIOUS
<1>1. /\ UNCHANGED <<inputVars, pc, stripe>> /\ pc = "chunks"
      /\ blockIdx' = blockIdx + BlocksRead
  BY DEF ReadChunk
<1>2. CASE Striped
  <2>1. trackBufs' = trackBufs
    BY <1>2 DEF ReadChunk, Collect
  <2> QED
    BY <1>1, <1>2, <2>1, InputsSame DEF BufferInv, DealtBehind, StripesBehind
<1>3. CASE ~Striped
  <2>1. \A t \in TrackIds : trackBufs'[0][t] = JoinBlocks(0, blockIdx', t)
    BY <1>1, <1>3, ChunkDealt
  <2>2. trackBufs' \in [StripeIds -> [TrackIds -> Seq(Nat)]]
    <3>1. \A t \in TrackIds : JoinBlocks(0, blockIdx', t) \in Seq(Nat)
      <4>1. blockIdx' \in 0 .. totalBlocks
        BY <1>1, InputsSame DEF IInv, ReadTypeOK
      <4> QED
        BY <4>1, InputFacts, JoinType
    <3>2. \E f : trackBufs' = [trackBufs EXCEPT ![0] = [t \in TrackIds |-> f[t]]]
      <4> DEFINE f == [t \in TrackIds |-> trackBufs[0][t] \o
                         IF Single THEN BytesFrom(position, position + BytesRead)
                         ELSE JoinBlocks(blockIdx, blockIdx + BlocksRead, t)]
      <4>1. trackBufs' = [trackBufs EXCEPT ![0] = f]
        BY <1>3 DEF ReadChunk, Collect
      <4>2. f = [t \in TrackIds |-> f[t]]
        OBVIOUS
      <4> HIDE DEF f
      <4> QED
        BY <4>1, <4>2
    <3>3. PICK f : trackBufs' = [trackBufs EXCEPT ![0] = [t \in TrackIds |-> f[t]]]
      BY <3>2
    <3>4. \A t \in TrackIds : f[t] \in Seq(Nat)
      BY <2>1, <3>1, <3>3, InputFacts DEF BufferInv
    <3> QED
      BY <3>3, <3>4 DEF BufferInv
  <2> QED
    BY <1>1, <1>3, <2>1, <2>2, InputsSame DEF BufferInv, DealtBehind, StripesBehind
<1> QED
  BY <1>2, <1>3

\* The tail.
LEMMA TailBuffers == IInv /\ BufferInv /\ ReadTail => BufferInv'
<1> SUFFICES ASSUME IInv, BufferInv, ReadTail PROVE BufferInv'
  OBVIOUS
<1>1. /\ UNCHANGED <<inputVars, blockIdx, stripe>> /\ pc = "tail"
      /\ pc' = IF Striped THEN "stripes" ELSE "done"
  BY DEF ReadTail
<1>2. CASE Striped
  <2>1. trackBufs' = trackBufs
    BY <1>2 DEF ReadTail
  <2> QED
    BY <1>1, <1>2, <2>1, InputsSame DEF BufferInv, DealtBehind, StripesBehind
<1>3. CASE ~Striped /\ ~(blockIdx < totalBlocks)
  <2>1. trackBufs' = trackBufs
    BY <1>3 DEF ReadTail
  <2>2. blockIdx = totalBlocks
    BY <1>3, InputFacts
  <2> QED
    BY <1>1, <1>3, <2>1, <2>2, InputsSame DEF BufferInv, DealtBehind, StripesBehind
<1>4. CASE ~Striped /\ blockIdx < totalBlocks
  <2> DEFINE last == BytesFrom(blockIdx * BlockSize, fileSize)
             u == blockIdx % totalTracks
  <2>1. trackBufs' = [trackBufs EXCEPT ![0][u] = trackBufs[0][u] \o last]
    BY <1>4 DEF ReadTail
  <2>2. blockIdx = totalBlocks - 1 /\ blockIdx \in 0 .. totalBlocks - 1
    BY <1>1, <1>4, InputFacts DEF IInv, HashedBehind
  <2>3. last = Block(blockIdx)
    <3> USE InputFacts DEF BufferAssumption
    <3>1. /\ blockIdx * BlockSize < fileSize
          /\ fileSize <= (blockIdx + 1) * BlockSize
      <4>1. (totalBlocks - 1) * BlockSize < fileSize /\ fileSize <= totalBlocks * BlockSize
        BY BlockCount
      <4>2. blockIdx + 1 = totalBlocks
        BY <2>2
      <4> QED
        BY <2>2, <4>1, <4>2
    <3>3. (blockIdx + 1) * BlockSize = blockIdx * BlockSize + BlockSize
      BY <2>2
    <3>2. BlockEnd(blockIdx) = fileSize
      BY <3>1, <3>3 DEF BlockEnd, BlockStart, MinOf
    <3> QED
      BY <3>2 DEF Block, BlockStart
  <2>4. u \in TrackIds
    BY <2>2, InputFacts DEF TrackIds
  <2>5. last \in Seq(Nat)
    BY <2>2, <2>3, InputFacts, BlockType
  <2> HIDE DEF last
  <2>6. ASSUME NEW t \in TrackIds
        PROVE  trackBufs'[0][t] = JoinBlocks(0, totalBlocks, t)
               /\ JoinBlocks(0, totalBlocks, t) \in Seq(Nat)
    <3>1. trackBufs[0][t] = JoinBlocks(0, blockIdx, t) /\ JoinBlocks(0, blockIdx, t) \in Seq(Nat)
      BY <1>1, <1>4, InputFacts, JoinType DEF BufferInv, DealtBehind
    <3>2. trackBufs'[0][t] = JoinBlocks(0, blockIdx, t) \o Dealt(blockIdx, t)
      <4>1. CASE t = u
        BY <2>1, <2>3, <2>4, <3>1, <4>1, InputFacts DEF Dealt, BufferInv
      <4>2. CASE t # u
        <5>1. trackBufs'[0][t] = trackBufs[0][t]
          BY <2>1, <2>4, <4>2, InputFacts DEF BufferInv
        <5>2. Dealt(blockIdx, t) = <<>>
          BY <4>2 DEF Dealt
        <5> QED
          BY <3>1, <5>1, <5>2, ConcatEmptySeq
      <4> QED
        BY <4>1, <4>2
    <3>3. JoinBlocks(blockIdx, blockIdx + 1, t) = Dealt(blockIdx, t)
      BY <2>2, InputFacts, JoinOne
    <3>4. JoinBlocks(0, blockIdx, t) \o JoinBlocks(blockIdx, totalBlocks, t)
            = JoinBlocks(0, totalBlocks, t)
      <4>1. 0 <= blockIdx /\ blockIdx <= totalBlocks /\ blockIdx \in Nat
            /\ totalBlocks \in Nat /\ totalBlocks <= totalBlocks
        BY <2>2, InputFacts
      <4> QED
        BY <4>1, InputFacts, JoinThrough
    <3>5. blockIdx + 1 = totalBlocks
      BY <2>2, InputFacts
    <3>6. JoinBlocks(0, totalBlocks, t) \in Seq(Nat)
      BY InputFacts, JoinType
    <3> QED
      BY <3>2, <3>3, <3>4, <3>5, <3>6
  <2>7. trackBufs' \in [StripeIds -> [TrackIds -> Seq(Nat)]]
    <3>1. trackBufs[0][u] \in Seq(Nat)
      BY <2>4, InputFacts DEF BufferInv
    <3>2. trackBufs[0][u] \o last \in Seq(Nat)
      BY <2>5, <3>1, ConcatProperties
    <3> DEFINE new == trackBufs[0][u] \o last
    <3> HIDE DEF new
    <3>3. trackBufs' = [trackBufs EXCEPT ![0][u] = new] /\ new \in Seq(Nat)
      BY <2>1, <3>2 DEF new
    <3> QED
      BY <3>3 DEF BufferInv
  <2> QED
    BY <1>1, <1>4, <2>6, <2>7, InputsSame DEF BufferInv, DealtBehind, StripesBehind
<1> QED
  BY <1>2, <1>3, <1>4

\* The blocks of a stripe that go to track t, as they are in rawData.
RawDealt(s, g, t) == IF g % totalTracks = t THEN RawBlock(s, g) ELSE <<>>
RawJoined(s, t) ==
  FlattenSeq([i \in 1 .. StripeEnd(s) - StripeStart(s) |-> RawDealt(s, StripeStart(s) + i - 1, t)])

\* Where a stripe lies.
LEMMA StripePlace ==
  ASSUME IInv, NEW s \in Nat
  PROVE  /\ StripeStart(s) \in Nat /\ StripeEnd(s) \in Int /\ StripeEnd(s) <= totalBlocks
         /\ \A g \in StripeStart(s) .. StripeEnd(s) - 1 : g \in 0 .. totalBlocks - 1
<1>1. blocksPerStripe \in Nat
  <2> DEFINE a == totalBlocks + stripeCount - 1
  <2>1. a \in Nat /\ stripeCount \in Nat \ {0} /\ blocksPerStripe = a \div stripeCount
    BY InputFacts DEF blocksPerStripe, CeilDiv
  <2> HIDE DEF a
  <2> QED
    BY <2>1, Division
<1>2. StripeStart(s) \in Nat
  BY <1>1 DEF StripeStart
<1>3. StripeEnd(s) \in Int /\ StripeEnd(s) <= totalBlocks
  BY <1>1, <1>2, InputFacts DEF StripeEnd, MinOf
<1> QED
  BY <1>2, <1>3, InputFacts

\* A block in rawData has its length, and consists of bytes or of what was there.
LEMMA RawType ==
  ASSUME IInv, NEW s \in Nat, NEW g \in 0 .. totalBlocks - 1
  PROVE  RawBlock(s, g) \in Seq(Nat)
<1>1. Block(g) \in Seq(Nat) /\ fileSize \in Nat
  BY BlockType, InputFacts
<1> QED
  BY <1>1 DEF RawBlock, Unread

\* A block of a stripe that one read brings is in rawData as it is in the file.
LEMMA RawIsBlock ==
  ASSUME IInv, Striped, NEW s \in Nat, FitsOneRead(s), ~BehindFile(s),
         NEW g \in StripeStart(s) .. StripeEnd(s) - 1
  PROVE  RawBlock(s, g) = Block(g)
<1> USE BufferAssumption DEF BufferAssumption
<1>1. /\ StripeStart(s) \in Nat /\ StripeEnd(s) \in Int
      /\ g \in 0 .. totalBlocks - 1 /\ g + 1 <= StripeEnd(s)
      /\ fileSize \in Nat
  BY StripePlace, InputFacts
<1> DEFINE start == StripeStart(s) * BlockSize
           end == StripeEnd(s) * BlockSize
           behind == (g + 1) * BlockSize
<1>2. start \in Nat /\ end \in Int /\ behind \in Int /\ behind <= end
  <2>1. start \in Nat /\ end \in Int /\ behind \in Int
    BY <1>1
  <2>2. behind <= end
    BY <1>1, Times
  <2> QED
    BY <2>1, <2>2
<1>3. behind = g * BlockSize + BlockSize /\ g * BlockSize \in Nat
  BY <1>1
<1> HIDE DEF start, end, behind
<1>4. /\ StripeBytes(s) = MinOf(end, fileSize) - start
      /\ BlockEnd(g) = MinOf(behind, fileSize)
      /\ start <= fileSize
  BY <1>1, <1>2, <1>3 DEF StripeBytes, BlockEnd, BlockStart, BehindFile, start, end, behind
<1>5. start <= end
  <2>1. StripeStart(s) <= StripeEnd(s)
    BY <1>1
  <2>2. StripeStart(s) * BlockSize <= StripeEnd(s) * BlockSize
    BY <1>1, <2>1, Times
  <2> QED
    BY <2>2 DEF start, end
<1>6. StripeBytes(s) \in Nat /\ StripeBytes(s) < SizeModulus /\ StripeBytes(s) <= ReadLimit
  BY <1>1, <1>2, <1>4, <1>5 DEF FitsOneRead, MinOf
<1>7. Fetched(s) = StripeBytes(s)
  <2>1. StripeBytes(s) % SizeModulus = StripeBytes(s)
    BY <1>6
  <2> QED
    BY <1>6, <2>1 DEF Fetched, MinOf
<1>8. BlockEnd(g) \in Int /\ BlockEnd(g) <= start + Fetched(s)
  BY <1>1, <1>2, <1>4, <1>6, <1>7 DEF MinOf
<1>9. /\ DOMAIN Block(g) = 1 .. BlockEnd(g) - BlockStart(g)
      /\ \A i \in DOMAIN Block(g) : Block(g)[i] = BlockStart(g) + i - 1
      /\ Block(g) = [i \in DOMAIN Block(g) |-> Block(g)[i]]
  BY DEF Block, BytesFrom
<1>10. ASSUME NEW i \in DOMAIN Block(g)
       PROVE  Block(g)[i] < start + Fetched(s)
  <2>1. BlockStart(g) \in Nat /\ Fetched(s) \in Nat
    BY <1>3, <1>6, <1>7 DEF BlockStart
  <2>2. i \in Int /\ i <= BlockEnd(g) - BlockStart(g)
    BY <1>8, <1>9, <2>1
  <2> QED
    BY <1>2, <1>8, <1>9, <2>1, <2>2
<1>11. RawBlock(s, g) = [i \in DOMAIN Block(g) |-> Block(g)[i]]
  BY <1>10 DEF RawBlock, start
<1> QED
  BY <1>9, <1>11

\* What a stripe gives a track.
LEMMA RawIsMessage ==
  ASSUME IInv, Striped, NEW s \in Nat, FitsOneRead(s), ~BehindFile(s), NEW t
  PROVE  RawJoined(s, t) = JoinBlocks(StripeStart(s), StripeEnd(s), t)
<1>1. StripeStart(s) \in Nat /\ StripeEnd(s) \in Int
  BY StripePlace
<1> DEFINE n == StripeEnd(s) - StripeStart(s)
<1>2. \A i \in 1 .. n : RawDealt(s, StripeStart(s) + i - 1, t) = Dealt(StripeStart(s) + i - 1, t)
  <2> TAKE i \in 1 .. n
  <2>1. StripeStart(s) + i - 1 \in StripeStart(s) .. StripeEnd(s) - 1
    BY <1>1
  <2> QED
    BY <2>1, RawIsBlock DEF RawDealt, Dealt
<1>3. [i \in 1 .. n |-> RawDealt(s, StripeStart(s) + i - 1, t)]
        = [i \in 1 .. n |-> Dealt(StripeStart(s) + i - 1, t)]
  BY <1>2
<1> QED
  BY <1>3 DEF RawJoined, JoinBlocks, Dealt

\* A stripe, however much of it has come, gives each track a sequence of bytes.
LEMMA RawJoinedType ==
  ASSUME IInv, NEW s \in Nat, NEW t
  PROVE  RawJoined(s, t) \in Seq(Nat)
<1> DEFINE n == StripeEnd(s) - StripeStart(s)
           r == [i \in 1 .. n |-> RawDealt(s, StripeStart(s) + i - 1, t)]
<1>1. StripeStart(s) \in Nat /\ StripeEnd(s) \in Int /\ n \in Int
  BY StripePlace
<1>2. \A i \in 1 .. n : RawDealt(s, StripeStart(s) + i - 1, t) \in Seq(Nat)
  <2> TAKE i \in 1 .. n
  <2>1. StripeStart(s) + i - 1 \in StripeStart(s) .. StripeEnd(s) - 1
    BY <1>1
  <2>2. StripeStart(s) + i - 1 \in 0 .. totalBlocks - 1
    BY <2>1, StripePlace
  <2> QED
    BY <2>2, RawType DEF RawDealt
<1>3. RawJoined(s, t) = FlattenSeq(r)
  BY DEF RawJoined
<1>4. r \in Seq(Seq(Nat))
  <2>1. CASE n \in Nat
    BY <1>2, <2>1
  <2>2. CASE n < 0
    <3>1. r = <<>>
      BY <1>1, <2>2
    <3> HIDE DEF r
    <3> QED
      BY <3>1, EmptySeq
  <2> QED
    BY <1>1, <2>1, <2>2
<1> HIDE DEF r
<1> QED
  BY <1>3, <1>4, FlattenType

\* A stripe.
LEMMA StripeBuffers == IInv /\ BufferInv /\ ReadStripe => BufferInv'
<1> SUFFICES ASSUME IInv, BufferInv, ReadStripe PROVE BufferInv'
  OBVIOUS
<1>1. /\ UNCHANGED <<inputVars, pc>> /\ pc = "stripes" /\ stripe < stripeCount
      /\ ~BehindFile(stripe)
      /\ stripe' = stripe + 1
      /\ trackBufs' = [trackBufs EXCEPT ![stripe] = [t \in TrackIds |-> RawJoined(stripe, t)]]
  BY DEF ReadStripe, RawJoined, RawDealt, TrackOf
<1>2. Striped
  BY <1>1 DEF BufferInv, DealtBehind
<1>3. stripe \in StripeIds /\ stripe \in Nat /\ stripe + 1 \in 0 .. stripeCount
  <2>1. stripe \in 0 .. stripeCount /\ stripeCount \in Nat /\ stripe < stripeCount
    BY <1>1, InputFacts DEF BufferInv
  <2>2. StripeIds = 0 .. stripeCount - 1
    BY <1>2, InputFacts
  <2> QED
    BY <2>1, <2>2
<1>4. \A t \in TrackIds : RawJoined(stripe, t) \in Seq(Nat)
  BY <1>3, RawJoinedType
<1>5. trackBufs' \in [StripeIds -> [TrackIds -> Seq(Nat)]]
  BY <1>1, <1>4 DEF BufferInv
<1>6. ASSUME NEW s \in 0 .. stripe, FitsOneRead(s), NEW t \in TrackIds
      PROVE  trackBufs'[s][t] = JoinBlocks(StripeStart(s), StripeEnd(s), t)
  <2>1. s \in StripeIds
    BY <1>2, <1>3, InputFacts
  <2>2. CASE s = stripe
    <3>1. RawJoined(stripe, t) = JoinBlocks(StripeStart(stripe), StripeEnd(stripe), t)
      BY <1>1, <1>2, <1>3, <1>6, <2>2, RawIsMessage
    <3> QED
      BY <1>1, <2>1, <2>2, <3>1 DEF BufferInv
  <2>3. CASE s # stripe
    BY <1>1, <1>2, <1>3, <1>6, <2>1, <2>3 DEF BufferInv, StripesBehind
  <2> QED
    BY <2>2, <2>3
<1>7. stripe' - 1 = stripe /\ stripe' \in 0 .. stripeCount
  BY <1>1, <1>3
<1> QED
  BY <1>1, <1>2, <1>5, <1>6, <1>7, InputsSame DEF BufferInv, DealtBehind, StripesBehind

\* No step breaks the invariant.
THEOREM BufferStep == IInv /\ IInv' /\ BufferInv /\ [Next]_vars => BufferInv'
<1> SUFFICES ASSUME IInv, IInv', BufferInv, [Next]_vars PROVE BufferInv'
  OBVIOUS
<1>1. CASE ChunksOver
  BY <1>1, InputsSame DEF ChunksOver, BufferInv, DealtBehind, StripesBehind
<1>2. CASE StripesOver
  BY <1>2, InputsSame DEF StripesOver, BufferInv, DealtBehind, StripesBehind
<1>4. CASE StripeDies
  BY <1>4, InputsSame DEF StripeDies, BufferInv, DealtBehind, StripesBehind
<1>3. CASE UNCHANGED vars \/ Ended
  BY <1>3, InputsSame DEF Ended, vars, BufferInv, DealtBehind, StripesBehind
<1> QED
  BY <1>1, <1>2, <1>3, <1>4, ChunkBuffers, TailBuffers, StripeBuffers DEF Next

\* Whatever the sizes of file, chunk, block and stripe, and whatever the number of
\* tracks, every encoder whose stripe one read brings (create.cpp:386) is given the
\* bytes its decoder will take for the message (create.cpp:355-424, 769-843 against
\* repair.cpp:861-869); with a single track if the last block is whole
\* (create.cpp:734).
THEOREM MessagesRight == SingleIsWhole => (Spec => []MessagesAgree)
<1> SUFFICES ASSUME SingleIsWhole PROVE Spec => []MessagesAgree
  OBVIOUS
<1>1. IInv /\ IInv' /\ BufferInv /\ [Next]_vars => BufferInv'
  BY BufferStep
<1>2. Init => BufferInv
  BY BufferInit
<1>3. IInv /\ BufferInv => MessagesAgree
  <2> SUFFICES ASSUME IInv, BufferInv, pc = "done", NEW s \in StripeIds, FitsOneRead(s),
                      NEW t \in TrackIds
               PROVE  trackBufs[s][t] = Message(s, t)
    BY DEF MessagesAgree
  <2>1. CASE Striped
    BY <2>1, InputFacts DEF BufferInv, StripesBehind, Message
  <2>2. CASE ~Striped
    <3>1. s = 0
      BY <2>2, InputFacts DEF StripeIds, Striped, Single
    <3> QED
      BY <2>2, <3>1 DEF BufferInv, DealtBehind, Message
  <2> QED
    BY <2>1, <2>2
<1> QED
  BY <1>1, <1>2, <1>3, Invariance, PTL DEF Spec

\* A healthy block is fed at the row the encoder knew it by, wherever its stripe
\* begins and however many tracks there are (repair.cpp:923): the quotient counts
\* the blocks of the track before it.
THEOREM RowsRight == Spec => []RowsAgree
<1>1. IInv => RowsAgree
  <2> SUFFICES ASSUME IInv, NEW s \in StripeIds, NEW g \in StripeStart(s) .. StripeEnd(s) - 1
               PROVE  RelId(s, g) = Cardinality(SameRestBefore(StripeStart(s), g, totalTracks))
    BY DEF RowsAgree, SameRestBefore
  <2>1. s \in Nat /\ totalTracks \in Nat \ {0}
    BY InputFacts DEF StripeIds
  <2>3. StripeStart(s) \in Nat
    BY <2>1, StripePlace
  <2>4. g \in Nat /\ StripeStart(s) <= g
    BY <2>3
  <2> QED
    BY <2>1, <2>3, <2>4, CountSameRest DEF RelId
<1> QED
  BY <1>1, Invariance, PTL
=============================================================================
