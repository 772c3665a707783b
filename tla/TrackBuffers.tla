---------------------------- MODULE TrackBuffers ----------------------------
(***************************************************************************)
(* The messages given to the encoders.  CreateParity (create.cpp) reads    *)
(* the source in large chunks, cuts them into blocks, hashes the blocks    *)
(* and collects those of each track; with stripes it hashes first and      *)
(* reads the data again stripe by stripe.  RepairDataset (repair.cpp)      *)
(* computes from the header alone which bytes make up the message of a     *)
(* track.  The two must agree on every byte: a decoder that is given a     *)
(* packet of another message does not notice.  A byte is represented by    *)
(* its offset in the source.  A stripe is fetched by one os::Read: its     *)
(* size is cut to 32 bits, the system may return less, and how much came   *)
(* is not looked at.  The source is a file that can be read; the copy in   *)
(* memory and the reads that fail are in ArchiveWriter.                    *)
(***************************************************************************)
EXTENDS Integers, Sequences, FiniteSets, SequencesExt

CONSTANTS
  BlockSize,      \* blockSize
  BlocksPerRead,  \* blocksPerRead
  FileSizes,      \* the sizes of the source
  TrackCounts,    \* the values of totalTracks
  StripeCounts,   \* the values of stripeCount
  SizeModulus,    \* 2^32: os::Read takes the number of bytes as a uint32_t
  ReadLimit       \* the most bytes the system returns for one read

ASSUME BufferAssumption ==
  /\ BlockSize \in Nat \ {0} /\ BlocksPerRead \in Nat \ {0}
  /\ FileSizes \subseteq Nat \ {0}
  /\ TrackCounts \subseteq Nat \ {0}
  /\ StripeCounts \subseteq Nat \ {0}
  /\ SizeModulus \in Nat \ {0} /\ ReadLimit \in Nat \ {0}

VARIABLES
  fileSize, totalTracks, stripeCount,   \* the input
  pc,                                   \* "chunks", "tail", "stripes", "done", "died"
  position,                             \* of hReadFile
  blockIdx,                             \* the next block to hash
  originalBlockHashes,                  \* the bytes each block was hashed over
  stripe,                               \* the next stripe to read
  trackBufs                             \* of each stripe, the buffer of each track

inputVars == <<fileSize, totalTracks, stripeCount>>
vars == <<inputVars, pc, position, blockIdx, originalBlockHashes, stripe, trackBufs>>

CeilDiv(a, b) == (a + b - 1) \div b
MinOf(a, b) == IF a <= b THEN a ELSE b

\* The bytes [first, last) of the source.
BytesFrom(first, last) == [i \in 1 .. last - first |-> first + i - 1]

totalBlocks == CeilDiv(fileSize, BlockSize)
blocksPerStripe == CeilDiv(totalBlocks, stripeCount)
Blocks == 0 .. totalBlocks - 1
TrackIds == 0 .. totalTracks - 1
StripeIds == IF totalTracks > 1 THEN 0 .. stripeCount - 1 ELSE {0}
StripeStart(s) == s * blocksPerStripe
StripeEnd(s) == MinOf(StripeStart(s) + blocksPerStripe, totalBlocks)

BlockStart(g) == g * BlockSize
BlockEnd(g) == MinOf(BlockStart(g) + BlockSize, fileSize)
Block(g) == BytesFrom(BlockStart(g), BlockEnd(g))

\* The blocks [first, last) of track t, joined.
JoinBlocks(first, last, t) ==
  FlattenSeq([i \in 1 .. last - first |->
                IF (first + i - 1) % totalTracks = t THEN Block(first + i - 1) ELSE <<>>])

Single == totalTracks = 1
Striped == ~Single /\ stripeCount > 1

Init ==
  /\ fileSize \in FileSizes /\ totalTracks \in TrackCounts
  /\ stripeCount \in StripeCounts
  /\ totalTracks = 1 \/ 2 * totalTracks <= totalBlocks     \* as ParityPlan clamps it
  /\ stripeCount <= totalBlocks
  /\ pc = "chunks"
  /\ position = 0 /\ blockIdx = 0 /\ stripe = 0
  /\ originalBlockHashes = [g \in Blocks |-> <<>>]
  /\ trackBufs = [s \in StripeIds |-> [t \in TrackIds |-> <<>>]]

\* What os::Read returns: a chunk, less at the end of the file.
BytesRead == MinOf(BlocksPerRead * BlockSize, fileSize - position)
\* Bug: a chunk is taken for a sequence of whole blocks.
BlocksReadUp == CeilDiv(BytesRead, BlockSize)
\* The blocks that are complete in the chunk.
BlocksRead == BytesRead \div BlockSize

\* Append to the buffers of the tracks: the whole chunk when there is only one,
\* block by block else; nothing yet when there are stripes.
Collect(first, last) ==
  trackBufs' =
    IF Striped THEN trackBufs
    ELSE [trackBufs EXCEPT ![0] = [t \in TrackIds |-> @[t] \o
            IF Single THEN BytesFrom(position, position + BytesRead)
            ELSE JoinBlocks(first, last, t)]]

ReadChunk ==
  /\ pc = "chunks" /\ blockIdx < totalBlocks /\ BytesRead > 0
  /\ Collect(blockIdx, blockIdx + BlocksRead)
  /\ originalBlockHashes' =
       [g \in Blocks |->
          IF g \in blockIdx .. blockIdx + BlocksRead - 1
          THEN BytesFrom(position + (g - blockIdx) * BlockSize,
                         position + (g - blockIdx + 1) * BlockSize)
          ELSE originalBlockHashes[g]]
  /\ position' = position + BytesRead
  /\ blockIdx' = blockIdx + BlocksRead
  /\ UNCHANGED <<inputVars, pc, stripe>>

ChunksOver ==
  /\ pc = "chunks"
  /\ blockIdx = totalBlocks \/ BytesRead = 0
  /\ pc' = "tail"
  /\ UNCHANGED <<inputVars, position, blockIdx, originalBlockHashes, stripe, trackBufs>>

\* What is left is read once more, as the last block.
ReadTail ==
  /\ pc = "tail"
  /\ IF blockIdx < totalBlocks
     THEN LET last == BytesFrom(blockIdx * BlockSize, fileSize)
          IN  /\ originalBlockHashes' = [originalBlockHashes EXCEPT ![blockIdx] = last]
              /\ trackBufs' =
                   IF Striped THEN trackBufs
                   ELSE [trackBufs EXCEPT ![0][blockIdx % totalTracks] = @ \o last]
              /\ position' = fileSize
     ELSE UNCHANGED <<originalBlockHashes, trackBufs, position>>
  /\ pc' = IF Striped THEN "stripes" ELSE "done"
  /\ UNCHANGED <<inputVars, blockIdx, stripe>>

\* Bug: the track of a block is counted from the beginning of its stripe.
TrackInStripe(g) == (g - StripeStart(stripe)) % totalTracks
TrackOf(g) == g % totalTracks

\* stripeBytes, which underflows for a stripe that begins behind the file.
BehindFile(s) == StripeStart(s) * BlockSize > fileSize
StripeBytes(s) == MinOf(StripeEnd(s) * BlockSize, fileSize) - StripeStart(s) * BlockSize

\* bytesRead of a stripe: of the size that is left of it in 32 bits, what the
\* system returns.
Fetched(s) == MinOf(StripeBytes(s) % SizeModulus, ReadLimit)
\* What rawData was filled with before the read: no byte of the file.
Unread == fileSize
\* A block as it is in rawData.
RawBlock(s, g) ==
  [i \in DOMAIN Block(g) |->
     IF Block(g)[i] < StripeStart(s) * BlockSize + Fetched(s) THEN Block(g)[i] ELSE Unread]

\* Read a stripe and deal its blocks to the tracks.
ReadStripe ==
  /\ pc = "stripes" /\ stripe < stripeCount /\ ~BehindFile(stripe)
  /\ trackBufs' =
       [trackBufs EXCEPT ![stripe] = [t \in TrackIds |->
          FlattenSeq([i \in 1 .. StripeEnd(stripe) - StripeStart(stripe) |->
            LET g == StripeStart(stripe) + i - 1
            IN  IF TrackOf(g) = t THEN RawBlock(stripe, g) ELSE <<>>])]]
  /\ stripe' = stripe + 1
  /\ UNCHANGED <<inputVars, pc, position, blockIdx, originalBlockHashes>>

\* rawData cannot be given the size that has underflowed; nobody catches what
\* resize() throws.
StripeDies ==
  /\ pc = "stripes" /\ stripe < stripeCount /\ BehindFile(stripe)
  /\ pc' = "died"
  /\ UNCHANGED <<inputVars, position, blockIdx, originalBlockHashes, stripe, trackBufs>>

StripesOver ==
  /\ pc = "stripes" /\ stripe = stripeCount
  /\ pc' = "done"
  /\ UNCHANGED <<inputVars, position, blockIdx, originalBlockHashes, stripe, trackBufs>>

Ended == pc \in {"done", "died"} /\ UNCHANGED vars

Next ==
  \/ ReadChunk \/ ChunksOver \/ ReadTail
  \/ ReadStripe \/ StripeDies \/ StripesOver
  \/ Ended

Spec == Init /\ [][Next]_vars
-----------------------------------------------------------------------------
\* The message RepairDataset will decode: the blocks of the track, each with the
\* bytes it has in the file.  The path of a single track has no stripes.
Message(s, t) ==
  IF Striped THEN JoinBlocks(StripeStart(s), StripeEnd(s), t)
  ELSE JoinBlocks(0, totalBlocks, t)

\* One read brings the whole stripe.  No code looks after it: a stripe of 4 GiB
\* or of more than the system returns is encoded with zeros in it.
FitsOneRead(s) ==
  Striped => StripeBytes(s) < SizeModulus /\ StripeBytes(s) <= ReadLimit

\* Whatever the sizes of file, chunk, block and stripe, every encoder is given
\* the message its decoder will reconstruct, if one read brings its stripe
\* (create.cpp:386 compares nothing; create.cpp:694 "no interleaving needed"
\* promises the same of the path for a single track).
MessagesAgree ==
  pc = "done" =>
    \A s \in StripeIds : FitsOneRead(s) =>
      \A t \in TrackIds : trackBufs[s][t] = Message(s, t)

\* Bug: the rows of the stripes before are subtracted, rounded down.
RelIdOfStripe(s, g) == g \div totalTracks - StripeStart(s) \div totalTracks
\* relId: the row RepairDataset gives a healthy block of stripe s.
RelId(s, g) == (g - StripeStart(s)) \div totalTracks

\* A healthy block is fed to the decoder at the row the encoder knew it by: its
\* place among the blocks of its track in the stripe, also when the stripe does
\* not begin with track 0.
RowsAgree ==
  \A s \in StripeIds : \A g \in StripeStart(s) .. StripeEnd(s) - 1 :
    RelId(s, g) =
      Cardinality({h \in StripeStart(s) .. g - 1 : h % totalTracks = g % totalTracks})

\* The reference hash of a block covers the bytes repair.cpp:494-498 hashes to
\* compare with it.
HashesAgree == pc = "done" => \A g \in Blocks : originalBlockHashes[g] = Block(g)
=============================================================================
