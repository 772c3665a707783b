# A formal model of whpar

whpar protects files with parity. `create` cuts the concatenation of its source
files into blocks, deals the blocks to *tracks* (`block % tracks`), optionally
cuts the file into *stripes* (`--max-mem`), and writes an archive of fountain
packets of each track, made by the Wirehair codec. `repair` hashes a damaged
file block by block, feeds what is healthy, and the packets it finds in the
archive and its supplements, to one decoder per track, and writes the corrupted
blocks back.

This directory holds TLA+ modules of that program, translated from the C++
source, the TLC configurations that check them, and proofs checked with TLAPS.
`PROJECT.json` says which lines each definition stands for.

## 1. Inventory

| Component | State | Operations | What makes it correct |
|---|---|---|---|
| Decoding engine, `repair.cpp` 470–1030 | `blockCorrupted`, `trackPacketValid`, `executionSuccess`, `trackFailedStripes`, `trackWriteOffsets`, `recoveredTracks`, one decoder and one thread per track, `writeMutex`; the file | hash, inject packets, launch a batch, feed, recover, write in place, join, report | success is told only of a restored file; healthy blocks are never written; a failing stripe is contained; sufficient parity ends in success, also after a crash |
| Planning, `create.cpp` 112–136, 583–643, 916–933 | tracks, stripes, packets per track, the carried fraction | clamp, cut, allocate | every block has its place; the packets add up to the overhead asked for; a track is decodable and keeps its share; a burst is spread over the tracks |
| Reading the source, `create.cpp` 355–424, 694–843 | `trackBufs`, `originalBlockHashes`, the read position | read a chunk, read the tail, read a stripe | the encoder's message is the one the decoder will reconstruct, block for block, row for row; hashes are of the right blocks |
| Archive writer, `create.cpp` 112–514, 645–991 | temporary file, stream with a buffer and a failure state, threads and their results, `encodeFailed` | open, encode in batches, write in order, mirror and footer, clean up | a partial archive is never believed; success means a whole archive; an error leaves nothing behind |
| Restoring files, `repair.cpp` 369–453, 1057–1257 | files on disk, the block or file being written | read blocks across files, stream, or write file by file | success means every file is restored; right bytes stay; intact files are recognised |
| Archive format and parser, `create.cpp` 41–107, `repair.cpp` 72–217 | two headers with checksums, a footer, the failure state of the stream | locate the mirror, verify, choose a header | either header suffices; a damaged header is never believed |
| Packet walk, `repair.cpp` 238–324, 600–660 | the place in the file, the packets found and whether their hash matches | go from packet to packet, pass over what cannot be used | damage costs the packet it hits and no other; what counts is what was written |
| Supplements, `create.cpp` 995–1527, `repair.cpp` 326–362 | the family of archives of one file set, packet ids | `AddParity`, discovery | what belongs together is found and nothing else; names tell the overhead of a chain; added parity helps |
| Wirehair codec, `src/src/WirehairCodec.cpp`, `WirehairTools.cpp`, `wirehair.cpp` | rows with their marks, columns with their references, the compression and elimination matrices, pivots, recovery blocks | create, encode, decode, resume, recover, become an encoder | what is recovered is the message; no block more is asked for than needed; a reused encoder makes the same blocks |
| GF(256), `src/src/gf256.cpp` | tables, built once; what the processor can do | start, self test, multiply and add buffers | the tables are a field; each operation does every byte of its buffers once and no byte behind them |
| Graphical front end, `guimain.cpp` | run thread, queue of lines, window | run, post a line, close | one run at a time; nothing is posted to a window that is gone |
| Progress display, `parity.h` | atomic counter, last percentage shown | `tick`, `done` | the display only goes up |
| Listing, command line, OS layer, hashing | none that outlives a call | | |

The components interact by calls inside one process. `main` or the GUI calls
`CreateParity`, `AddParity` or `RepairDataset`; those start threads with
`std::async` that share vectors by reference, each thread its own element, and
are joined with `get()`. What goes from creation to repair goes through the disk:
the archive, and the source files.

Hard behaviour: workers that write the file other workers still read; partial
failure of tracks, stripes, files, writes; a crash anywhere and a second run;
output that is buffered and fails late; two programs (create and repair) that
must number blocks, rows and packets alike; rounding and boundaries: last block,
last stripe, short tracks. `PROJECT.json` lists each of them under `hazards`, at
its line, with the properties that would notice it go wrong.

## 2. Plan

Done, in this order:

1. `RepairSpec`, `Repair`, `MCRepair`, `RepairProofs`: the decoding engine, its
   stripes, their order and their failures.
2. `ParityPlan`, `MCParityPlan`, `ParityPlanProofs`: planning.
3. `TrackBuffers`, `MCTrackBuffers`, `TrackBuffersProofs`: reading the source; what
   creation and repair must agree on.
4. `ArchiveSpec`, `ArchiveWriter`: writing an archive. `ArchiveReader`: reading it.
   `ArchiveFile`, `MCArchiveFile`: both composed, with damage in between.
   `ArchiveProofs`: proofs about both.
5. `Restore`, `MCRestore`, `RestoreProofs`: several files.
6. `Supplements`, `MCSupplements`, `SupplementsProofs`: `AddParity`, discovery, ids of
   packets; whether what is added is new; the estimate of missing packets.
7. `WirehairTools`, `Peeling`, `Elimination`, `Substitution`, `Codec`, `MCCodec`: the
   fountain codec, each module a stage that extends the one before.
8. `Gf256`, `MatrixRow`, composed in `Primitives`, `MCPrimitives`: what the codec is
   built from, at the sizes of the code. `Gf256Proofs`: the loops of the buffers.

`InductionLemmas` has what several proofs need: induction over natural numbers, joined
sequences and the places in them, counting by remainders.

Abstract specifications: `RepairSpec` (what an in-place repair does to the file)
and `ArchiveSpec` (what creating an archive does to its file); `Repair` and
`ArchiveWriter` implement them, with the mappings at the end of each module.

## 3. The modules

### Repair, RepairSpec, RepairProofs

The main thread is `pc`: *analyse* (hash, 477–595), *inject* (597–660), *launch*
and *join* (the stripe and batch loops, 708–1012), *done*. A worker is
`worker[t]`: *create*, *feed*, *solved*, *recovered*, *open*, *writing*, *exit*,
for the lambda at 737–850 and, with stripes, 875–998; both are one set of actions
with the differences of the code kept (who reports a track that cannot be
solved, what a failed write does). The machine may crash at any step (`Crash`),
a write being torn in between (`BeginWrite`, `EndWrite`); the file and the packets
survive. After a failure the user may add packets and run again (`Rerun`).

Contents are abstracted to *original* and *damaged*; what a decoder has seen to
`clean`: a block is written as original only if every row fed was. The contract
of Wirehair is external: fewer rows than blocks never suffice, all original
blocks or `Slack` rows too many always do, in between both outcomes are taken.
A packet is an element of a set, so the same packet is not fed twice: two
archives that hold equal packets are left to `Supplements`.

`Faults` names what the operating system or the codec may refuse: *read* (the
analysis finds the file but cannot open it), *create*, *recover*, *open*, *write*.
A failing seek, and another program changing the file, are not modelled.

### ParityPlan, ParityPlanProofs

`ClampTracks` and `CutStripes` are the decisions before the source is read;
`Allocate`, `NextStripe`, `Finish` the loop over tracks and stripes. Overheads
are whole percents, and `carry` is the carried fraction in hundredths: the
arithmetic is exact where the code uses a `double`. The history variables
`seenBlocks` and `forced` count what the properties are about.

### TrackBuffers, TrackBuffersProofs

The chunk loops at 694–843 (one track, several tracks) and the stripes at
355–424. A file is a sequence of byte positions; `Message` and `RelId` are what
repair (861–869, 923) takes the message and its rows to be.

`ReadStripe` takes what one `os::Read` brings (`Fetched`): the size of the stripe is cut
to 32 bits (create.cpp:386), the system returns no more than it does for one read
(portability.h:113), and how much came is not looked at. Bytes that did not come are
`Unread`. `SizeModulus` and `ReadLimit` stand for 2^32 and for what the system allows,
`SizeModulus` being 16 and `ReadLimit` 12 bytes in the runs, so that stripes come in
whole, in part and not at all. A stripe that begins behind the end of the file has a
size that underflows at create.cpp:378; the process dies of the allocation
(`StripeDies`).

### ArchiveSpec, ArchiveWriter, ArchiveReader, ArchiveFile, ArchiveProofs

The main thread of `CreateParity` from opening the source to the last line
printed, the batches of threads, and the output stream. A job is a record: with
or without stripes, the packets of each encoder, the batch, whether several
sources are joined in a temporary file, whether an archive is overwritten, and
what may fail. `Write` appends to the buffer of the stream, `Flush` moves a part
to the disk or fails and sets the failure state for good. Parts are whole: a torn
header is no header, since its hash would not match. `Dies` is the death of the
process, also by an exception nobody catches; it is not a loss of power, and
pages the system has accepted are not lost.

The fallback to memory keeps the peculiarities of the code. When joining the sources
has failed, they are read into memory (`source = "memory"`), passing over each that
cannot be opened, which may be why it failed (684–691): what is left is too short
(`"short"`) or nothing (`"none"`). With stripes it is released before the stripes are
read from it. Reading behind the end of a vector kills the process or takes what lies
there. Parts of an archive carry no data, so that an archive made from a fallback that is
too short counts as whole: `PromiseSpec` is about the structure of an archive, and not
about what its packets were made of.

`Encode` has no failure of its own, although the code looks at what `wirehair_encode`
returns (183): for a codec that `wirehair_encoder_create` has returned, it fails only for
a buffer smaller than the block (`WirehairCodec.cpp` 4039–4062), and both callers pass
`blockSize` bytes.

`ArchiveReader` reads a file of *cells*, one for each field that is read as a unit:
a magic number, a size, a track, a hash, a piece of a manifest. A cell is a number,
whatever it was written as, so that a reader in the wrong place takes anything
for a size; the hash of a sequence of cells equals that of no other. `ReadFooter`,
`ReadMain`, `ReadMirror` and `ChooseHeader` are `parseArchive`, with the failure state
of its stream (`failed`) and the death by an allocation of absurd size. `PassHeader`,
`PassForeign`, `PassUnfit` and `TakePacket` are the four ways the loop of
`walkArchivePackets` takes. Packets carry blocks of one cell, the manifest has one file.
The limit of the walk, 2 MiB, is counted in blocks of the archive (`walkLimit` of the
job, `maxBlockSize` of the reader): none in a job whose user has made them larger with
`-b`.

`ArchiveFile` composes them: when the writer's process has ended, what it left on the
disk is torn anywhere in its last packet, or, if it is whole, damaged in one or two
cells, and then read. The history variable `damaged` has the places. Damage leaves
numbers and never a hash (`DamageAssumption`): a hash that matches means equal data.

### Restore, RestoreProofs

`Analyse` reads blocks across files (`readBlockFromFiles`, which looks at two
files only), then the output goes block by block (`--max-mem`) or file by file.
Decoding succeeds here. A byte is right or not (`good`), a file is missing, has
another size, or has its size. A job is a manifest, a way of writing, and what may
fail. The output of a single file to another place is one write, and is not
repeated here.

### Supplements, SupplementsProofs

The archives of one directory, made by `-c`, extended by `-a`, and found by repair.
A file name is a sequence of pieces (text, `.pNN`, `+NN`, and text that begins like
`.p`), which is what the functions on names tell apart; characters are not
modelled. The packets of an archive follow from its stripes and overhead, their
ids are what the encoder is asked for (create.cpp:182). `Sufficient` counts
different ids: Wirehair gains nothing from a packet it has seen. `healthy` is what
will be left of the data where the repair is done; the user of `-a` has it whole.
A failing `-c` or `-a` removes the file it was writing (`Lose`), also where that file
had replaced an older one. `--max-mem` leaves a number of blocks to a stripe, another one
for each call if the user likes; data of a single track are never striped
(`blocksPerStripe`).

### WirehairTools, Peeling, Elimination, Substitution, Codec

A codec is a record, each stage adds fields to it, and each function of the code is
an operator from record to record, so that a step of `Codec` is a call of `wirehair.h`.

* `Peeling`: rows come in one by one and mark columns, avalanches solve what is left
  with one unmarked column (`OpportunisticPeeling`, `SolveWithPeel`), a full list of
  references takes a row back (`FixPeelFailure`), and `GreedyPeeling` defers columns.
* `Elimination`: the compression matrix, the dense rows from shuffled decks, the light
  and heavy triangularizations with extra rows. A binary row is the set of its columns.
* `Substitution`: the elimination is replayed on blocks, in windows with tables in
  borrowed space, below and above the diagonal, then peeled rows in their order.
* `Codec`: the calls, the seeds from tables, all-original input, resumption after a
  missing pivot, recovery at once or block by block, an encoder made of a decoder.

Every operation on blocks is linear, so a block is a combination of symbols, one for
each block of the message, one for the bytes the short last block lacks and one for
what lies in memory behind the message: a buffer that is read too far shows. The
heavy rows have coefficients in a field of four elements instead of 256, the matrix
has two dense rows, two heavy rows and three heavy columns, and windows are one or
two columns wide; thresholds, rounding and the order of steps are those of the code.
A reused encoder begins with foreign contents in the space it does not clear
(`Foreign`), for a message of the same number of blocks. That is `reuseOpt` of
`wirehair_encoder_create`; whpar itself reuses no codec, for its pool is always empty
(create.cpp:146, 299) and the stripes pass `nullptr` (429), nor does it turn a decoder into
an encoder: the two properties are about the library. Seeds and random numbers are inputs (`Draws`, `MatrixDraws`, `ShuffleDraws`): the generator and the tables of
measured seeds are data.

### Gf256, Gf256Proofs, MatrixRow, Primitives

`Gf256` has the tables as gf256.cpp builds them and one step for each turn of a loop
of a buffer operation, on processors with AVX2, SSSE3, SSE2 or NEON or none of them.
`MatrixRow` has the iterators over the columns of a row and the number of dense rows
at their real sizes, from 2 to 64000 blocks. `Primitives` puts both in one
specification; they share nothing.

## 4. The runs

| Run | Question | Bounds |
|---|---|---|
| `repair_plain` | does an unstriped repair end, succeed when it can, and implement `RepairSpec` (whose success is true), with a crash anywhere? | 5 blocks on 2 tracks running at once, every damage, every subset of 4 packets, a decoder that may want one row more, 2 runs |
| `repair_striped` | is success true with stripes, is a failing stripe contained, are the recovered stripes in order? | 9 blocks, 2 stripes of 5 and 4 blocks, tracks of 3 and 2, 2 runs |
| `repair_allfaults` | is the inductive invariant of the proofs an invariant, and do healthy blocks stay, whatever fails? | 7 blocks, 2 stripes, a track of one block that Wirehair refuses, every operation fails at will; what `IInv` says of success is for faults the code notices (`FaultsNoticed`), which those of this run are not |
| `plan` | the balance, shares, coverage of the stripes, bursts and decodability of every plan | files of 1 to 32 bytes in blocks of 2, up to 4 jobs, limits up to 12 bytes, overheads of 5, 30, 50, 120 percent |
| `buffers_tracks` | do creation and repair agree on messages, rows and hashes? | files of 1 to 42 bytes in blocks of 3, whole or not, 2 to 4 tracks, 1 to 4 stripes, also behind the end of the file, chunks of two blocks, at most 12 bytes for a stripe, sizes modulo 16 |
| `buffers_single` | (violated) the same for the path of one track | the same files |
| `archive_jobs` | are only whole archives believed or announced, and does an error clean up, whatever fails, in every order of threads, with a death anywhere? does one good header suffice, does damage cost only the packets it hits, is what counts as valid what was written? | five tracks or four stripes in batches of 3, four such jobs, and one of two tracks whose blocks the walk does not take; six values in any cell, two values in any two neighbours, a zero in any cell of each header, a torn end of up to a packet |
| `restore_jobs` | does success mean restored, do right bytes stay, are intact files recognised? | 4 files of 3, 1, 0, 3 bytes in blocks of 2, and 3 aligned files; every state of the files and of every byte, 2 runs |
| `supplements` | does repair find the supplements of its data and no others, do names tell the chain, does `-a` leave the originals? | two data sets, 5 blocks on two tracks, in one stripe or in stripes of 2, 2 and 1, at most 3 archives, chains up to 60 percent, two blocks of each data set left |
| `supplements_shortfall` | (violated) does adding what a failed repair asks for help? | 6 blocks on one track, any half of them left |
| `codec_blocks` | is what is recovered the message, whichever blocks arrive? are the encoder's blocks systematic, the same from a reused codec and from a decoder turned encoder? is a block asked for only when it is needed? do the lists and counts of peeling agree with its marks? | 6 blocks, the last one short, ids up to 9, 7 matrices, of which some need a resumption; up to 2 uses of an encoder; the message's own blocks come in order, the repair blocks in any order between them |
| `primitives` | do the tables hold the field, do the buffer operations do each byte, do rows name columns once, do dense rows have a seed? | every pair of bytes; 86 lengths from 0 to 263, around every multiple of a word, 5 processors; messages of 2 to 13 blocks with every first column and step, those before the widest gaps of primes, and those around each measured point |

Why these bounds suffice: two tracks already give every pair of concurrent
workers, since workers interact in pairs only, through the file and the lock; two
stripes of different length give a first, a last and a short one; two runs give a
crash and its aftermath, and a third begins in a state the second could begin in,
for `Init` takes every file. In the writer two batches give a batch that is full
and one that is not. On six blocks the codec peels, defers, has dense and heavy pivots
and windows in one message; four repair blocks give decoders that lack a pivot, and
more rows than the single extra row they keep.

`codec_blocks` does not check for deadlock: an encoder that cannot be made, or a
decoder that has had every block, has nothing left to do. Nor does `supplements`,
where the directory is full and every repair has been tried.

### Fairness

Only `repair_plain` needs it: `Main` and each `Worker(t)` are weakly fair.
`std::async(std::launch::async)` gives each worker a thread of its own, the main
thread only blocks in `get()`, and a thread that can run is run by the operating
system. `writeMutex` asks for no more: a worker holds it for finitely many steps, and
each of a batch takes it once. `Crash`, `Rerun` and the injected faults are not
fair. Nothing else is claimed to happen eventually.

### What the violations show

* `buffers_single`: create.cpp:734 appends the partial last block a second time;
  such an archive restores wrong data.
* `supplements_shortfall`: ids start anew in every archive (create.cpp:182), so a
  supplement repeats the packets of the archive it extends.

Conditions in properties, and choices of constants, that are there because the
code does not keep the stronger form:

* `PromiseSpec` of the archive counts a run whose stream has failed, and that leaves an
  archive, as one that died: when the disk gets full nobody asks the stream
  (create.cpp:313–320) and success is printed. The parser refuses such an archive
  (`OnlyWholeIsAccepted`).
* `SuccessMeansRestored` is checked and proved for faults the code notices
  (`FaultsNoticed`). repair.cpp:815 has no else branch: a damaged file that cannot be
  opened for writing is announced as recovered; so it is where the striped loop
  (978, 987) cannot open or write it. With `Faults = {"open"}` and a single worker TLC
  shows it in a few steps.
* `SuccessMeansAllRestored` is checked for streamed files that begin with a block.
  repair.cpp:1137 cuts a block at the end of the file it begins in: of other files
  the head is never written, although success is printed. With streamed files of 3, 1,
  0 and 3 bytes in blocks of two the property fails.
* `IntactIsRecognised` holds where no block touches three files. readBlockFromFiles
  (repair.cpp:421) looks at the file a block begins in and at the next one: of files
  smaller than a block the rest is read as missing, and intact files are rewritten. The
  files of `restore_jobs` have no such block; the theorem names the condition
  (`BlocksInTwoFiles`).
* `OneCopySuffices` leaves out that reading the first header has failed. A wrong count in
  it may lead behind the end of the file; the failure of the stream is never cleared
  (repair.cpp:109–155), and the good mirror is then not read, although README.md:16
  has it survive damage. Without `~failed` the property fails.
* The footer is one bare number, the size of a header (repair.cpp:81–99). A torn archive
  whose last cell happens to be that number is believed. In the model a header has
  twelve cells and the cells of a packet that hold numbers of any size are its track,
  so with thirteen tracks TLC finds a torn archive that `OnlyWholeIsAccepted` forbids:
  it ends behind the track number of the thirteenth packet. The jobs of the run, and the
  hypothesis `FewTracks` of the theorems, have fewer tracks than a header has cells.
  In the program the tear must fall behind a field of that value.
* `ValidIsWritten` is about payloads. The track of a packet is believed as it is, and so
  are its id and its stripe (repair.cpp:316, 652), for its hash leaves them out.
* `DamageStaysLocal` is claimed of archives whose blocks have 2 MiB or less
  (`BlocksFit`). That is so when creation chooses the size (create.cpp:603–611). With `-b`
  blocks may have 1 GB (main.cpp:181), and then the walk passes over every packet
  (repair.cpp:309), undamaged or not: such an archive repairs nothing. One job of
  `archive_jobs` has such blocks; without `BlocksFit` the property fails for it.
* `MessagesAgree` is claimed of stripes that one read brings (`FitsOneRead`). A stripe
  of 4 GiB or more, which `--max-mem 4GB` makes (suggested at create.cpp:592), or of
  more than the system returns for one read, about 2 GiB on Linux, is encoded with zeros
  in place of what is missing, without an error (create.cpp:386), and packets of such a
  stripe restore wrong data. The run has such stripes; without `FitsOneRead` TLC finds a
  message with bytes that were never read.
* `StripesCover` does not say that every stripe has a block: rounding up at
  create.cpp:637 may leave nothing for the last ones (seven blocks in five stripes),
  although create.cpp:634 says "Ensure at least 1 block per stripe". Where such a stripe
  begins behind the end of the file creation dies (`StripeDies`), and `MessagesAgree` and
  `HashesAgree` are about runs that end.
* No property says that a packet reaches a decoder of its message, for the code does not
  keep it. `-a` has a `--max-mem` of its own (README.md:244), and repair takes the stripe
  number of a packet for one of the archive its user has named (repair.cpp:316): packets
  of a supplement with other stripes are rows of other messages and are fed all the same.
  `Supplements` has such directories and counts these packets as rows, as the code does.
* `FindsItsSupplements` and `NamesTellTheChain` are checked for names without a piece
  such as `.part1`, which create.cpp:1145 takes for the overhead, and where no name
  begins with another.
* `ShortfallIsMet` is run with half of the blocks left, so that needEstimate
  (repair.cpp:1275), which counts healthy blocks for missing ones, asks for enough;
  with less left it asks for too little.

## 5. Proofs

Each theorem holds for every value of the constants that satisfies the assumptions of
the module it is about; a hypothesis beyond these is named here and explained. The
inductive invariants were first checked by TLC on the instances of section 4, except
that of `ArchiveFile`, which speaks of all sequences of cells.

### The decoding engine

`RepairProofs` proves `IInv` inductive for every number of blocks, tracks, stripes
and packets, every batch size and every set of faults. `SuccessMeansRestored` alone is
not inductive: it must be known that

* a block that is not marked is original (`MarksInv`), which needs that workers
  write only blocks of their own track that are marked (`WritingInv`),
* a decoder has seen only original data (`CleanInv`), which needs `MarksInv`,
  since healthy blocks are read again from the file being written,
* a marked block is behind the loops (`Processed`), is original, or its stripe is
  on record as failed (`RestoredInv`),
* threads exist only between launch and join (`ThreadsInv`).

From it follow `TypeCorrect`; `HealthyNeverTouched`, with any faults; and
`SuccessIsTrue` and `KeepsPromise`, the latter two under `FaultsNoticed`: faults the
code does notice, which excludes failing to open the file and, with stripes,
failing to write (section 4). `KeepsPromise` is about in-place repairs.

Two theorems are about stripes.

* `StripesInOrder` (`RecoveredInOrder`, with any faults): the offset in
  `trackWriteOffsets` is the number of blocks a track has in the stripes joined so far,
  and each of those that has not failed was copied there (`OrderInv`). A stripe copied
  later does not overwrite it, since offsets of stripes with blocks differ by at least
  the blocks between them.
* `FailuresStayLocal` (`FailureIsContained`, whose condition excludes faults and
  messages of one block): what a decoder has been fed is of its own message and did not
  suffice yet (`FeedInv`), and it gives up when no healthy block and no valid packet is
  left; blocks behind the loops never change and healthy ones are never written,
  so a stripe on record as failed could not be decoded from what is on disk
  (`FailedInv`). Nothing else ends the loops early, so all stripes are visited, and
  those not on record are restored (`SalvageInv`).

### Planning and reading

`ParityPlanProofs` proves `IInv` of the plan for every file size, job count, memory
limit and overhead: `Balance` (packets given out are the overhead asked for, up to
the fraction carried, what each finished stripe dropped, and forced packets),
`TrackShare`, `StripesCover` (the assumption `CoverAssumption` of `Repair`) and
`TracksDecodable`. `BurstsAreRepairable` takes one thing more: the quotient that gives
the blocks of a track is the number that the loop of create.cpp counts one by one
(`BelowCounts`, by induction over the blocks), so that a burst takes at most one block
from a track for each round over the tracks it lasts.

`TrackBuffersProofs` has three theorems.

* `HashesRight`, for every size of file, block and read: the reference hashes are over
  the bytes repair will hash. `IInv` has the reason: every read begins at a block unless
  it was the last (`ReadsAligned`), since reads are whole numbers of blocks; the blocks
  behind are hashed, and at most one is left when nothing more can be read
  (`HashedBehind`), so that the single read of the tail is enough. The lemmas `Division`
  and `BlockCount` are the arithmetic of a last block that is short.
* `MessagesRight` (`MessagesAgree`): the buffer of a track holds the blocks of the track
  behind the read position, joined in order, and with stripes those of the stripes
  behind (`BufferInv`). Its hypothesis `SingleIsWhole` says that a file read by a single
  track has whole blocks: otherwise create.cpp:734 repeats the last one
  (`buffers_single`). Of the stripes it speaks of those that one read brings, which is
  the condition of the property (section 4); of the others it says nothing.
* `RowsRight` (`RowsAgree`): the row repair computes by a quotient is the number of
  blocks of the track in front, by the counting lemma of `InductionLemmas`.

### The archive writer

`ArchiveProofs` proves `ErrorsLeaveNothing` for every archive, batch size and
order of the threads. `NoLeftovers` alone is not inductive, since the stream writes
when it likes: it must be known that its buffer is empty after every error
(`ErrorInv`), and that nothing was touched before the archive was opened
(`UntouchedInv`). The assumption `FaultsCleanedUp` excludes the two errors after which
the code leaves something: without stripes, a failed read leaves the temporary file
and a header that cannot be written leaves the archive.

`KeepsPromise` shows that `ArchiveWriter` implements `ArchiveSpec`, with any faults. Its
invariant `WriterInv` says that disk and stream together are the archive as far as its
tracks or stripes have been written, until one of them fails (`OrderInv`); that a thread
has made a beginning of its packets, and all of them when it is done (`ResultInv`); that
only threads of the present batch are running, and with stripes only those that have not
been collected (`ThreadsInv`); and that the footer comes after everything else, and
never after a failed encoder (`FooterInv`). A flush moves a part from one end of that
sequence to the other (`StreamMoves`); that whole batches, written one after the other,
make up the body is `FlattenConcat`, both in `InductionLemmas`.

### The archive file

The second half of `ArchiveProofs` follows a file from the writer over the damage to the
end of the walk, for every job, any damage of the kinds `Damages` has and every place
where the file may be torn. `FileInvariance` proves the inductive invariant `FileInv`:

* while the writer is at work, the disk holds parts of this archive, and a footer only
  when it holds all of them (`DiskInv`). For this `WriterInv` is not enough: it must be
  known that a whole archive has no footer but at its end (`FooterAtEnd`), and that a
  flush moves it to the disk last (`BeginningWithFooter`);
* the file that is read is the whole archive except in damaged places, or it is torn
  and does not end with the size of a header (`ReadInv`). The lemma `WholeCells` says
  where each cell of a whole archive is, by `FlattenPlaces` of `InductionLemmas`; the
  last five cells before a footer are a packet's or the end of a header
  (`TornWhole`, `OnDiskCells`);
* what the parser has seen of each header, and that a header with the right checksum is
  the one that was written (`GoodHeader`, `ParseInv`): no other cell of the file is the
  hash of so many cells;
* an undamaged copy of the header, with an undamaged footer, is recognised when the
  stream has not failed (`GoodCopy`, `CopyInv`). `HeaderEnd` is a recursive function of
  the length of the manifest, whose value for one file is computed in
  `HeaderEndOfGood`;
* in a walk in step, all packets behind that are not damaged have been found; when the
  step is lost, none of those to come was promised (`InStep`, `WalkInv`); and among the
  packets a hash stands only where a packet has its own, so that a payload whose hash
  matches is the one written there, whatever way led to it (`HashedIsWritten`).

The properties of the run follow: `OnlyWhole` (`OnlyWholeIsAccepted`), `DamageLocal`
(`DamageStaysLocal`, about archives whose blocks the walk takes) and `OnlyWritten`
(`ValidIsWritten`), each under `FewTracks` (section 4), and `OneCopy` (`OneCopySuffices`), which takes nothing. `WriterAssumption`
says that no stripe has more tracks than the first (create.cpp:635–643 cuts stripes of
which only the last is shorter).

### Buffers of GF(256)

`BuffersExact` of `Gf256Proofs` (`BuffersAreExact`) holds for every length, factor and
processor and all contents of the buffers. `BuffersInv` says how far the loops are: the
bytes behind are what was promised, and those ahead are untouched; no word reaches over
the end of its buffer, and the last one ends there (`WordsFit`). The hypotheses
are `ContentsAreBytes`, and `FieldHolds`: that each product in the tables is that of
polynomials, a statement without parameters about 65536 pairs of bytes, which TLC
evaluates factor by factor in `primitives` (`FieldIsExact`).

### Several files

`RestoreProofs` first proves that the bytes of files are disjoint and cover the
concatenation, by induction over the files. `IInv` then says, for a repair file by
file, that nothing has happened to the files to come, that those behind are restored
and that what is wrong ahead is marked (`FilesInv`, `PatchInv`), and for a streamed one
which file the next block begins in, that the blocks behind are right and that what is
wrong in files ahead is marked (`StreamInv`).

* `SuccessIsTrue` (`SuccessMeansAllRestored`) takes `FilesBeginWithBlocks` for streamed
  repairs, of which section 4 has the reason; file by file it takes nothing.
* `RightBytesKept` (`RightBytesStay`) takes nothing: any faults, any restart.
* `IntactFilesRecognised` takes `BlocksInTwoFiles` (section 4).

### Supplements

`SupplementsProofs` follows the names. Each archive has a name of one of two shapes, a
data set and an overhead, or these and one addition, and the number in front is the
overhead of the chain it was made from (`NameInv`); no two have the same name
(`UniqueInv`). What the functions of the code make of the two shapes is stated once
(`NameOfStem`, `PlaceOfPlus`, `BaseNameIs`, `TotalIs`).

* `NamesTell` (`NamesTellTheChain`): so the name of an addition to an addition is again
  of that shape, with the sum.
* `OriginalsLast` (`OriginalsStay`): an addition has a plus in its name, which no primary
  archive has, and a larger sum than what it was made from.
* `FindsThem` (`FindsItsSupplements`): the base name of an archive is that of its data
  set, and so what begins with it and holds a plus is an addition to the same data.

The hypotheses are those section 4 names: no data set has a piece like `.pNN`, `.part1`
or `+NN` in its name (`PlainStems`), and no name begins with another (`StemsApart`).

### Induction

`InductionLemmas` rests on the well-foundedness of the natural numbers
(`WellFoundedInduction`): a set of numbers with zero and all successors has them all
(`SetInduction`). Each lemma that needs induction applies it to a set of its own, the
numbers for which what it says holds. So come the functions that the definitions of
`FlattenSeq` and of sums over sets choose, and what they return.

### Only model-checked

* Liveness (`EnoughLeadsToSuccess`, `Termination`) is out of the prover's reach like
  everything with `ENABLED`.
* `FieldIsExact`, an evaluation of tables, and the two properties of `MatrixRow`, which
  rest on tables of primes and of measured points and on facts about prime numbers.
* The codec (`RecoverIsExact`, `EncoderIsSystematic`, `ReuseMakesTheSame`,
  `DecoderEncodesTheSame`, `DecodesWhenPossible`, `PeelingAgrees`, `PeelOrder`), whose
  operators are recursive over data, is out of the prover's reach.

Type invariants are checked where they are part of an inductive invariant a run has:
`IInv` of `Repair` begins with `TypeOK`, and both it and `IInv` of `ParityPlan` are
proved. The types the other proofs need (`ReadTypeOK`, `WriterTypeOK`, `TypeOK` of
`RestoreProofs`, `NameInv`, those in `ReadInv` and `WalkInv`) are only proved.

## 6. Not modelled

* Hashing: a hash that matches means equal data. The generator of random numbers, the
  measured seed tables of Wirehair, debug output and assertions of the codec.
* Detection of the processor, alignment of buffers and byte order in gf256.cpp. Its
  self test is modelled, with the flag that is set before the test has run
  (gf256.cpp:630): a second start after a failure returns success.
* A codec reused for a message of another size; the same block given twice to a
  decoder; a decoder that is given blocks after it has recovered.
* Options, file names (but for archives), time stamps and attributes, listing, and the
  second copy of the header reader in `AddParity`. The progress display, which only
  prints. The GUI, a window around one thread, whose behaviour lies in the message
  queues of the toolkit.
* Damage to more than two cells of an archive, and cells inserted or removed.
* Files changed by another program between two passes, mappings longer than a
  truncated file, a failing seek, a loss of power that loses accepted writes. A healthy
  block that can no longer be read when it is to be fed (`UnfedBlocks`).
* The places where `resolveSourceFile` looks for a file (the directory of the archive, the
  current one), and the output of several files to another directory.
* `NoLeftovers` is claimed for the faults of its run: an unstriped read error
  (create.cpp:723–732, 807–816) leaves the temporary file, and a header that cannot be
  written without stripes (293) leaves the archive.
