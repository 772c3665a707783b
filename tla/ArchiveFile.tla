---------------------------- MODULE ArchiveFile ----------------------------
(***************************************************************************)
(* An archive from CreateParity to RepairDataset: what ArchiveWriter has   *)
(* put on the disk when its process has ended, whole or torn, is damaged   *)
(* and then read by ArchiveReader.                                         *)
(***************************************************************************)
EXTENDS ArchiveWriter, ArchiveReader

CONSTANT DamageValues   \* the numbers that damage leaves in a cell

\* Damage leaves no hash behind.
ASSUME DamageAssumption == DamageValues \subseteq Nat \ {95}

VARIABLE damaged        \* the places of bytes that damage has changed, from zero

fileVars == <<vars, readerVars, damaged>>

Tracks == IF Striped THEN Len(PacketCounts[1]) ELSE Len(PacketCounts)

\* One block hash, and a manifest of one file.
BodyCells ==
  << Num(WHPAR_MAGIC), Num(1), Num(Tracks), Num(0), Num(1), Num(70),
     Num(1), Num(1), Num(1), Num(71), Num(72) >>
HeaderCells == Append(BodyCells, HashOf(BodyCells))
HeaderSize == Len(HeaderCells)

\* A cell is as large as a block of this archive: packets carry one.  The 2 MiB of
\* the walk are job.walkLimit of them.
PacketTrack(part) == (IF Striped THEN part[3] ELSE part[2]) - 1
Block(part) == << [n |-> 3, of |-> << Num(part[2]), Num(part[3]), Num(part[4]) >>] >>
PacketCells(part) ==
  << Num(WHPAR_PKT_MAGIC), Num(1), Num(PacketTrack(part)), HashOf(Block(part)) >> \o Block(part)
PacketSize == PacketHeaderSize + 1

CellsOf(part) ==
  IF part = Header THEN HeaderCells
  ELSE IF part = Footer THEN << Num(HeaderSize) >>
  ELSE PacketCells(part)

Whole == FlattenSeq([k \in DOMAIN WholeArchive |-> CellsOf(WholeArchive[k])])
OnDisk == FlattenSeq([k \in DOMAIN archive |-> CellsOf(archive[k])])

MirrorStart == Len(Whole) - 1 - HeaderSize

\* Which cells, and what is left in them: one cell, two neighbours, or one in each
\* header.
Damages ==
  {{i} : i \in DOMAIN Whole} \X DamageValues
  \cup {{i, i + 1} : i \in 1..(Len(Whole) - 1)} \X {0, 40}
  \cup {{i, MirrorStart + j} : i, j \in 1..HeaderSize} \X {0}

\* A process that died may have torn what it wrote last.
Read ==
  /\ pc = "ended" /\ exists /\ archive # <<Old>> /\ at = "idle"
  /\ \/ /\ report = "done" /\ archive = WholeArchive
        /\ \E whole \in {Whole} : \E d \in Damages :
             /\ bytes' = [p \in DOMAIN whole |-> IF p \in d[1] THEN Num(d[2]) ELSE whole[p]]
             /\ damaged' = {p \in 0..(Len(whole) - 1) : bytes'[p + 1] # whole[p + 1]}
     \/ /\ \E torn \in 0..PacketSize : torn <= Len(OnDisk)
                                       /\ bytes' = SubSeq(OnDisk, 1, Len(OnDisk) - torn)
        /\ damaged' = {}
  /\ at' = "footer" /\ maxBlockSize' = job.walkLimit
  /\ UNCHANGED <<job, pc, diskVars, badbit, report, parseVars, walkVars>>
  \* The memory of the process is gone.
  /\ source' = "none" /\ buffer' = <<>>
  /\ batchStart' = 1 /\ collected' = 0 /\ encodeFailed' = FALSE
  /\ worker' = [u \in Units |-> "idle"] /\ result' = [u \in Units |-> <<>>]

FileInit == Init /\ ReaderInit /\ damaged = {}

FileNext ==
  \/ at = "idle" /\ Next /\ UNCHANGED <<readerVars, damaged>>
  \/ Read
  \/ ReaderNext /\ UNCHANGED <<vars, damaged>>
  \/ at = "ended" /\ UNCHANGED fileVars

FileSpec == FileInit /\ [][FileNext]_fileVars
-----------------------------------------------------------------------------
(* Properties                                                              *)

\* The footer is a commit record: whatever fails, in whatever order the threads
\* run, whenever the process dies, and whatever is damaged later, an archive that
\* parseArchive believes had all its packets, once and in order, when the writer
\* ended, and the metadata it takes from it are those that were written
\* (create.cpp:306-316, 964-976; repair.cpp:72-217).
OnlyWholeIsAccepted ==
  parsed = "valid" => archive = WholeArchive /\ meta = BodyCells

IsIntact(first, size) == \A p \in first..(first + size - 1) : p \notin damaged

\* The mirrored header is there to survive damage to an index (README.md:16): one
\* good copy is enough, wherever the other is damaged, as long as the footer is
\* good and the reading of the first copy has not failed at the end of the file.
\* The failure state of the stream is never cleared (repair.cpp:155), so that a
\* wrong length in the first copy makes the good mirror unreadable too.
OneCopySuffices ==
  /\ parsed \in {"valid", "invalid"}
  /\ archive = WholeArchive /\ Len(bytes) = Len(Whole)
  /\ IsIntact(Len(Whole) - 1, 1)
  /\ \/ IsIntact(0, HeaderSize)
     \/ ~failed /\ IsIntact(MirrorStart, HeaderSize)
  => parsed = "valid"

PacketParts == SubSeq(WholeArchive, 2, Len(WholeArchive) - 2)
PacketStart(k) == HeaderSize + (k - 1) * PacketSize

\* From here on the walk may be out of step.
LosesStep(k) ==
  PacketStart(k) + 1 \in damaged \/ NumberAt(PacketStart(k)) = WHPAR_MAGIC

\* The blocks of the archive have 2 MiB or less.  CreateParity chooses such a size
\* itself; with -b it makes blocks of up to 1 GB (main.cpp:181), and of such an
\* archive the walk passes over every packet, damaged or not (repair.cpp:309).
BlocksFit == 1 <= maxBlockSize

\* Damage to a packet costs that packet and no other, unless it hits its size: the
\* walk (repair.cpp:265-318) passes over what it cannot use, in step.  For blocks the
\* walk takes at all.
DamageStaysLocal ==
  at = "ended" /\ parsed = "valid" /\ BlocksFit =>
    \A k \in DOMAIN PacketParts :
      IsIntact(PacketStart(k), PacketSize) /\ (\A j \in 1..(k - 1) : ~LosesStep(j))
      => [track |-> PacketTrack(PacketParts[k]), payload |-> Block(PacketParts[k]),
          valid |-> TRUE] \in ToSet(found)

\* What the hash lets through is a block that was written, even when the walk is
\* out of step.  The hash is one of the payload only: the track, the id and the
\* stripe of a packet are believed as they are (repair.cpp:316, 652).
ValidIsWritten ==
  \A f \in ToSet(found) :
    f.valid => \E k \in DOMAIN PacketParts :
                 /\ f.payload = Block(PacketParts[k])
                 /\ f.track = PacketTrack(PacketParts[k]) \/ PacketStart(k) + 2 \in damaged
=============================================================================
