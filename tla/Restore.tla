------------------------------- MODULE Restore -------------------------------
(***************************************************************************)
(* How RepairDataset reads the blocks of several files and writes the      *)
(* recovered data back to them (repair.cpp).  The files of the manifest    *)
(* are laid end to end and cut into blocks, so a block may hold the end of *)
(* a file and the beginning of the next.  Decoding has its own module      *)
(* (Repair): here it succeeds.  With --max-mem the output is streamed      *)
(* block by block, without it the files are written one after the other.   *)
(***************************************************************************)
EXTENDS Integers, Sequences

CONSTANTS
  Jobs,    \* repairs: the manifest and how it is restored, see JobType
  MaxRuns  \* bound: how many times the program is started

\* fileSizes: of the files of the manifest, in its order; streaming: --max-mem is
\* given; faults: what may fail.
JobType ==
  [fileSizes : Seq(Nat), blockSize : Nat \ {0}, streaming : BOOLEAN,
   faults : SUBSET {"open", "write"}]

ASSUME RestoreAssumption ==
  /\ Jobs \subseteq JobType
  /\ \A j \in Jobs : Len(j.fileSizes) > 1
  /\ MaxRuns \in Nat \ {0}

VARIABLES
  job,        \* the repair
  files,      \* on disk: each is "missing", "resized", or has its "size"
  good,       \* on disk: the bytes of the data that are there and right
  runs,
  pc,         \* "analyse", "write", "new", "done"
  corrupted,  \* blockCorrupted
  exists,     \* files found with their size before the output begins
  target,     \* curTarget, or the file being written
  block,      \* the next block of the output loop
  verdict     \* "running", "INTACT", "SUCCESS" or "error"

diskVars == <<files, good, runs>>
vars == <<job, diskVars, pc, corrupted, exists, target, block, verdict>>

FileSizes == job.fileSizes
BlockSize == job.blockSize
Streaming == job.streaming
Faults == job.faults

FileIds == 1 .. Len(FileSizes)

\* File f is the bytes [fileStart, fileEnd) of the data.
FileStart(f) ==
  LET start[h \in FileIds] == IF h = 1 THEN 0 ELSE start[h - 1] + FileSizes[h - 1]
  IN  start[f]
FileEnd(f) == FileStart(f) + FileSizes[f]
BytesOf(f) == FileStart(f) .. FileEnd(f) - 1
OriginalFileSize == FileEnd(Len(FileSizes))
Bytes == 0 .. OriginalFileSize - 1

TotalBlocks == (OriginalFileSize + BlockSize - 1) \div BlockSize
Blocks == 0 .. TotalBlocks - 1
BlockBytes(g) == {p \in Bytes : p \div BlockSize = g}

FreshRun ==
  /\ pc = "analyse" /\ corrupted = {} /\ exists = {}
  /\ target = 0 /\ block = 0 /\ verdict = "running"

Init ==
  /\ job \in Jobs
  /\ files \in [FileIds -> {"missing", "resized", "size"}]
  /\ good \in SUBSET Bytes
  /\ \A f \in FileIds : files[f] = "missing" => good \cap BytesOf(f) = {}
  /\ runs = 1
  /\ FreshRun

FileAt(p) == CHOOSE f \in FileIds : p \in BytesOf(f)

\* Bug: the block is read from the file it begins in.
ReadFromFirst(g) == {FileAt(g * BlockSize)}
\* readBlockFromFiles: the file that holds the first byte of the block, and the
\* one after it.
ReadFrom(g) == {FileAt(g * BlockSize), FileAt(g * BlockSize) + 1} \cap FileIds

Healthy(g) ==
  \A p \in BlockBytes(g) : p \in good /\ \E f \in ReadFrom(g) : p \in BytesOf(f)

\* The files whose size is the one of the manifest.
WithTheirSize == {f \in FileIds : files[f] = "size"}

Stop(v) == pc' = "done" /\ verdict' = v

\* Hash the blocks the files hold; if one is corrupted, decode and write.
Analyse ==
  /\ pc = "analyse"
  /\ corrupted' = {g \in Blocks : ~Healthy(g)}
  /\ IF corrupted' = {}
     THEN Stop("INTACT")
     ELSE pc' = "write" /\ UNCHANGED verdict
  /\ exists' = WithTheirSize
  /\ target' = IF Streaming THEN 0 ELSE 1
  /\ UNCHANGED <<job, diskVars, block>>

\* The output loop is over: the success is reported.
Succeed ==
  /\ pc = "write"
  /\ IF Streaming THEN block = TotalBlocks ELSE target > Len(FileSizes)
  /\ Stop("SUCCESS")
  /\ UNCHANGED <<job, diskVars, corrupted, exists, target, block>>

\* What block g holds of file f.
Portion(g, f) == BlockBytes(g) \cap BytesOf(f)
-----------------------------------------------------------------------------
\* With --max-mem: one pass over the blocks.

\* The block begins behind the current file.
TargetBehind == target = 0 \/ (target > 0 /\ block * BlockSize >= FileEnd(target))

\* Bug: the file is opened as a new one.
NextTargetEmpties ==
  /\ pc = "write" /\ Streaming /\ block < TotalBlocks /\ TargetBehind
  /\ \E f \in FileIds :
       /\ block * BlockSize \in BytesOf(f)
       /\ target' = f
       /\ files' = [files EXCEPT ![f] = "size"]
       /\ good' = good \ BytesOf(f)
  /\ UNCHANGED <<job, runs, pc, corrupted, exists, block, verdict>>

\* Go on to the file the block begins in.  A file that is not there with its
\* size gets it, and keeps the bytes it has.
NextTarget ==
  /\ pc = "write" /\ Streaming /\ block < TotalBlocks /\ TargetBehind
  /\ \E f \in FileIds :
       /\ block * BlockSize \in BytesOf(f)
       /\ target' = f
       /\ files' = [files EXCEPT ![f] = "size"]
  /\ UNCHANGED <<job, good, runs, pc, corrupted, exists, block, verdict>>

\* The file cannot be opened, resized or mapped: the only failure that is told.
NextTargetFails ==
  /\ pc = "write" /\ Streaming /\ block < TotalBlocks /\ TargetBehind
  /\ "open" \in Faults
  /\ Stop("error")
  /\ UNCHANGED <<job, diskVars, corrupted, exists, target, block>>

ShouldWrite == target \notin exists \/ block \in corrupted

StreamBlock ==
  /\ pc = "write" /\ Streaming /\ block < TotalBlocks /\ ~TargetBehind
  /\ good' = IF ShouldWrite THEN good \cup Portion(block, target) ELSE good
  /\ block' = block + 1
  /\ UNCHANGED <<job, files, runs, pc, corrupted, exists, target, verdict>>
-----------------------------------------------------------------------------
\* Without --max-mem: one file after the other.

Writing == pc = "write" /\ ~Streaming /\ target \in FileIds

\* Bug: only the blocks that begin in the file are looked at.
UnpatchedBeginning ==
  {g \in corrupted : block <= g /\ g * BlockSize \in BytesOf(target)}
\* The corrupted blocks of the file the loop has still to visit.
Unpatched == {g \in corrupted : block <= g /\ Portion(g, target) # {}}

\* A file that has its size: write what is corrupted.  A write that fails is
\* not noticed.
PatchBlock ==
  /\ Writing /\ target \in exists
  /\ \E g \in Unpatched :
       /\ \A h \in Unpatched : g <= h
       /\ block' = g + 1
       /\ \/ good' = good \cup Portion(g, target)
          \/ "write" \in Faults /\ UNCHANGED good
  /\ UNCHANGED <<job, files, runs, pc, corrupted, exists, target, verdict>>

\* Nothing left to patch, or the file could not be opened: not noticed either.
LeaveFile ==
  /\ Writing
  /\ \/ target \in exists /\ Unpatched = {}
     \/ "open" \in Faults
  /\ target' = target + 1 /\ block' = 0
  /\ UNCHANGED <<job, diskVars, pc, corrupted, exists, verdict>>

\* Any other file is emptied and written whole.
EmptyFile ==
  /\ Writing /\ target \notin exists
  /\ files' = [files EXCEPT ![target] = "resized"]
  /\ good' = good \ BytesOf(target)
  /\ pc' = "new"
  /\ UNCHANGED <<job, runs, corrupted, exists, target, block, verdict>>

WriteFile ==
  /\ pc = "new"
  /\ files' = [files EXCEPT ![target] = "size"]
  /\ good' = good \cup BytesOf(target)
  /\ pc' = "write" /\ target' = target + 1 /\ block' = 0
  /\ UNCHANGED <<job, runs, corrupted, exists, verdict>>

WriteFileFails ==
  /\ pc = "new" /\ "write" \in Faults
  /\ Stop("error")
  /\ UNCHANGED <<job, diskVars, corrupted, exists, target, block>>
-----------------------------------------------------------------------------
\* The process dies, or has failed, and is started again.
StartAgain ==
  /\ verdict \in {"running", "error"}
  /\ runs < MaxRuns
  /\ runs' = runs + 1
  /\ pc' = "analyse" /\ corrupted' = {} /\ exists' = {}
  /\ target' = 0 /\ block' = 0 /\ verdict' = "running"
  /\ UNCHANGED <<job, files, good>>

Ended == pc = "done" /\ UNCHANGED vars

Next ==
  \/ Analyse \/ Succeed
  \/ NextTarget \/ NextTargetFails \/ StreamBlock
  \/ PatchBlock \/ LeaveFile \/ EmptyFile \/ WriteFile \/ WriteFileFails
  \/ StartAgain \/ Ended

Spec == Init /\ [][Next]_vars
-----------------------------------------------------------------------------
\* The streaming loop reports what cannot be opened; the other one passes over
\* files that cannot be opened and patches that cannot be written.
FaultsNoticed == Streaming \/ Faults = {}

\* "SUCCESS: Data fully recovered." (repair.cpp:1270): every file of the manifest
\* is there, has its size and holds its data, also when the run before it died
\* between two files.
SuccessMeansAllRestored ==
  verdict = "SUCCESS" /\ FaultsNoticed =>
    good = Bytes /\ \A f \in FileIds : files[f] = "size"

\* "For existing files, only overwrite corrupted blocks" (repair.cpp:1060): a run
\* that fails or dies anywhere has taken no right byte from a file that had its
\* size.
RightBytesStay ==
  [][\A f \in FileIds : files[f] = "size" => good \cap BytesOf(f) \subseteq good']_good

\* Files that are all intact are not touched, and said to be intact
\* (repair.cpp:586-595).
IntactIsRecognised ==
  pc = "write" => good # Bytes \/ target > 1 \/ block > 0 \/ runs > 1
=============================================================================
