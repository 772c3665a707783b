--------------------------- MODULE ArchiveReader ---------------------------
(***************************************************************************)
(* How repair reads an archive (repair.cpp): parseArchive finds the two    *)
(* copies of the header through the footer and chooses one,                *)
(* walkArchivePackets goes from packet to packet by the sizes in their     *)
(* headers, and a packet counts if its payload has its hash.               *)
(*                                                                         *)
(* The file is a sequence of cells, one for each field that is read as a   *)
(* unit.  A reader in the wrong place takes any cell for a number.  Hashes *)
(* are taken to be free of collisions.                                     *)
(***************************************************************************)
EXTENDS Integers, Sequences, FiniteSets, SequencesExt

\* A cell is a number; the hash of a sequence of cells also holds that sequence.
Num(n) == [n |-> n, of |-> <<>>]
HashOf(cells) == [n |-> 95, of |-> cells]

WHPAR_MAGIC == 90
WHPAR_PKT_MAGIC == 91
PacketHeaderSize == 4    \* magic, blockSize, matrixTrack or totalTracks, payloadHash

VARIABLES
  bytes,      \* the archive, as it is now
  maxBlockSize, \* the 2 MiB of walkArchivePackets, in cells
  at,         \* "idle", the next step of the reader, or "ended"
  failed,     \* parityIn has failed; nothing clears it
  mainOk, mirrorOk,
  parsed,     \* what parseArchive returns: "none", "valid", "invalid"; or "died"
  meta,       \* the header that was chosen, without its checksum
  bufOff,     \* the place of the walk behind the first header
  found       \* what onPacket has been given, in order

parseVars == <<failed, mainOk, mirrorOk, parsed, meta>>
walkVars == <<bufOff, found>>
readerVars == <<bytes, maxBlockSize, at, parseVars, walkVars>>

ReaderInit ==
  /\ bytes = <<>> /\ maxBlockSize = 0 /\ at = "idle"
  /\ failed = FALSE /\ mainOk = FALSE /\ mirrorOk = FALSE
  /\ parsed = "none" /\ meta = <<>>
  /\ bufOff = 0 /\ found = <<>>

\* Offsets count from zero.
fileSize == Len(bytes)
NumberAt(p) == bytes[p + 1].n
headerBlockSize == NumberAt(fileSize - 1)
headerEndOffset == fileSize - 1 - headerBlockSize

-----------------------------------------------------------------------------
(* Headers                                                                 *)

\* Where reading the header at pos stops: behind its manifest, or behind limit if
\* its counts and lengths lead there.
HeaderEnd(pos, limit) ==
  LET flag == pos + PacketHeaderSize + 1 + NumberAt(pos + PacketHeaderSize)
      count == NumberAt(flag + 1)
      end[k \in 0..count] ==
          IF k = 0 THEN flag + 2
          ELSE IF end[k - 1] >= limit THEN limit + 1
          ELSE end[k - 1] + NumberAt(end[k - 1]) + 2
  IN  IF flag >= limit THEN limit + 1
      ELSE IF NumberAt(flag) = 0 THEN flag + 1
      ELSE IF flag + 1 >= limit THEN limit + 1
      ELSE end[count]

\* readHeaderBlock goes on behind the hash count.
HasHeader(pos) ==
  /\ NumberAt(pos) = WHPAR_MAGIC
  /\ NumberAt(pos + PacketHeaderSize) = 0
     \/ NumberAt(pos + PacketHeaderSize) <= fileSize - pos - PacketHeaderSize - 2

RunsOver(pos) == ~failed /\ HasHeader(pos) /\ HeaderEnd(pos, fileSize) > fileSize

HeaderBody(pos) == SubSeq(bytes, pos + 1, pos + headerBlockSize - 1)

\* Bug: the checksum is read and not compared.
EccUnchecked(pos) == headerBlockSize > 1
verifyHeaderEcc(pos) == bytes[pos + headerBlockSize] = HashOf(HeaderBody(pos))

\* A stream that has failed reads nothing more, wherever it is told to read.
HeaderOk(pos) == ~failed /\ HasHeader(pos) /\ ~RunsOver(pos) /\ verifyHeaderEcc(pos)

Hashes(pos) ==
  SubSeq(bytes, pos + PacketHeaderSize + 2,
         pos + PacketHeaderSize + 1 + NumberAt(pos + PacketHeaderSize))

ParseEnds(verdict) ==
  at' = "ended" /\ parsed' = verdict /\ UNCHANGED <<failed, mainOk, mirrorOk, meta>>

\* The footer is the size of a header.
ReadFooter ==
  /\ at = "footer"
  /\ IF \/ fileSize < 1
        \/ headerBlockSize < PacketHeaderSize \/ headerBlockSize > fileSize - 1
        \/ headerEndOffset <= 0
     THEN ParseEnds("invalid")
     ELSE at' = "main" /\ UNCHANGED parseVars
  /\ UNCHANGED <<bytes, maxBlockSize, walkVars>>

\* A length that leads over the end is allocated before it is read: the process
\* may die of it.  Otherwise the stream has failed.
ReadMain ==
  /\ at = "main"
  /\ \/ /\ mainOk' = HeaderOk(0)
        /\ failed' = (failed \/ RunsOver(0))
        /\ at' = "mirror"
        /\ UNCHANGED <<mirrorOk, parsed, meta>>
     \/ RunsOver(0) /\ ParseEnds("died")
  /\ UNCHANGED <<bytes, maxBlockSize, walkVars>>

\* Bug: the mirror is compared with the place of the first header.
MirrorAtStart == 0
MirrorAt == headerEndOffset

ReadMirror ==
  /\ at = "mirror"
  /\ \/ /\ mirrorOk' = HeaderOk(MirrorAt)
        /\ failed' = (failed \/ RunsOver(MirrorAt))
        /\ at' = "choose"
        /\ UNCHANGED <<mainOk, parsed, meta>>
     \/ RunsOver(MirrorAt) /\ ParseEnds("died")
  /\ UNCHANGED <<bytes, maxBlockSize, walkVars>>

\* Of two good headers the mirror is taken, unless their hashes differ.
ChooseHeader ==
  /\ at = "choose"
  /\ IF mainOk \/ mirrorOk
     THEN /\ parsed' = "valid" /\ at' = "walk"
          /\ meta' = IF mirrorOk /\ (mainOk => Hashes(0) = Hashes(MirrorAt))
                     THEN HeaderBody(MirrorAt) ELSE HeaderBody(0)
          /\ UNCHANGED <<failed, mainOk, mirrorOk>>
     ELSE ParseEnds("invalid")
  /\ UNCHANGED <<bytes, maxBlockSize, walkVars>>

-----------------------------------------------------------------------------
(* Packets                                                                 *)

totalTracks == IF meta[3].n = 0 THEN 1 ELSE meta[3].n

dataSz == headerEndOffset - headerBlockSize
Place == headerBlockSize + bufOff
BlockSize == NumberAt(Place + 1)
Track == NumberAt(Place + 2)
Behind == bufOff + PacketHeaderSize

\* The loop of walkArchivePackets goes on.
AtPacket == at = "walk" /\ Behind <= dataSz
IsPacket == NumberAt(Place) = WHPAR_PKT_MAGIC
IsUnfit == Track >= totalTracks \/ BlockSize > maxBlockSize

GoTo(off) == bufOff' = off /\ UNCHANGED <<bytes, maxBlockSize, at, parseVars, found>>

\* A header among the packets is passed over.
PassHeader ==
  /\ AtPacket /\ NumberAt(Place) = WHPAR_MAGIC
  /\ GoTo(IF Behind + 1 > dataSz THEN dataSz
          ELSE HeaderEnd(Place, headerEndOffset) - headerBlockSize)

\* Bug: without the magic number the size is not believed.
BehindForeignHeader == Behind
BehindForeign == Behind + BlockSize

\* What is neither is passed over, by the size it gives.
PassForeign ==
  /\ AtPacket /\ NumberAt(Place) \notin {WHPAR_MAGIC, WHPAR_PKT_MAGIC}
  /\ GoTo(BehindForeign)

\* A packet of a track that is none, or of a block of more than 2 MiB.
PassUnfit ==
  /\ AtPacket /\ IsPacket /\ IsUnfit
  /\ GoTo(Behind + BlockSize)

Payload == SubSeq(bytes, headerBlockSize + Behind + 1, headerBlockSize + Behind + BlockSize)

\* Bug: a packet is valid if the hash of what follows its header is not empty.
PayloadGiven == Len(Payload) > 0
\* trackPacketValid
PayloadHashed == NumberAt(Place + 3) = 95 /\ bytes[Place + 4] = HashOf(Payload)

TakePacket ==
  /\ AtPacket /\ IsPacket /\ ~IsUnfit /\ Behind + BlockSize <= dataSz
  /\ found' = Append(found, [track |-> Track, payload |-> Payload, valid |-> PayloadHashed])
  /\ bufOff' = Behind + BlockSize
  /\ UNCHANGED <<bytes, maxBlockSize, at, parseVars>>

\* The data is over, or the last packet does not fit in.
WalkEnds ==
  /\ at = "walk"
  /\ AtPacket => IsPacket /\ ~IsUnfit /\ Behind + BlockSize > dataSz
  /\ at' = "ended"
  /\ UNCHANGED <<bytes, maxBlockSize, parseVars, walkVars>>

ReaderNext ==
  \/ ReadFooter \/ ReadMain \/ ReadMirror \/ ChooseHeader
  \/ PassHeader \/ PassForeign \/ PassUnfit \/ TakePacket \/ WalkEnds
=============================================================================
