---------------------------- MODULE RestoreProofs ----------------------------
(* Proofs about Restore, for every manifest and every size of its files.     *)
EXTENDS Restore, InductionLemmas, TLAPS

-----------------------------------------------------------------------------
(* The layout of the files                                                 *)

\* What the layout rests on.
JobOK == job \in JobType /\ Len(FileSizes) > 1

\* The numbers of the files, and the sizes they are given.
LEMMA SizesType ==
  ASSUME JobOK
  PROVE  /\ Len(FileSizes) \in Nat \ {0} /\ 1 \in FileIds /\ Len(FileSizes) \in FileIds
         /\ \A f \in FileIds : f \in Nat \ {0} /\ FileSizes[f] \in Nat
         /\ BlockSize \in Nat \ {0}
<1>1. FileSizes \in Seq(Nat) /\ BlockSize \in Nat \ {0}
  BY DEF JobOK, JobType, FileSizes, BlockSize
<1>2. Len(FileSizes) \in Nat /\ Len(FileSizes) > 1
  BY <1>1 DEF JobOK
<1> QED
  BY <1>1, <1>2 DEF FileIds

\* A file begins where the one before it ends.
LEMMA NextStart ==
  ASSUME JobOK
  PROVE  /\ FileStart(1) = 0
         /\ \A f \in FileIds : f # 1 => FileStart(f) = FileStart(f - 1) + FileSizes[f - 1]
<1> DEFINE s == CHOOSE u : IsSums(u, FileSizes, Len(FileSizes))
<1>1. IsSums(s, FileSizes, Len(FileSizes))
  BY SizesType, SumsExist
<1>2. \A f : FileStart(f) = s[f]
  BY DEF FileStart, IsSums, FileIds
<1> HIDE DEF s
<1>3. \A f \in 1 .. Len(FileSizes) :
        s[f] = IF f = 1 THEN 0 ELSE s[f - 1] + FileSizes[f - 1]
  BY <1>1 DEF IsSums
<1> QED
  BY <1>2, <1>3, SizesType DEF FileIds

\* Files are intervals of bytes.
LEMMA StartType ==
  ASSUME JobOK, NEW f \in FileIds
  PROVE  /\ FileStart(f) \in Nat /\ FileEnd(f) \in Nat
         /\ FileEnd(f) = FileStart(f) + FileSizes[f]
         /\ BytesOf(f) = {p \in Nat : FileStart(f) <= p /\ p < FileEnd(f)}
<1> DEFINE S == {n \in Nat : n + 1 \in FileIds => FileStart(n + 1) \in Nat}
<1>1. 0 \in S
  BY NextStart
<1>2. ASSUME NEW n \in Nat, n \in S PROVE n + 1 \in S
  <2> SUFFICES ASSUME n + 1 + 1 \in FileIds PROVE FileStart(n + 1 + 1) \in Nat
    OBVIOUS
  <2>1. n + 1 \in FileIds /\ n + 1 + 1 # 1 /\ n + 1 + 1 - 1 = n + 1
    BY SizesType DEF FileIds
  <2>2. FileStart(n + 1 + 1) = FileStart(n + 1) + FileSizes[n + 1]
    BY <2>1, NextStart
  <2> QED
    BY <1>2, <2>1, <2>2, SizesType
<1> HIDE DEF S
<1>3. \A n \in Nat : n \in S
  BY <1>1, <1>2, SetInduction
<1>4. f - 1 \in Nat /\ f - 1 + 1 = f
  BY SizesType
<1>5. FileStart(f) \in Nat
  BY <1>3, <1>4 DEF S
<1>6. FileEnd(f) = FileStart(f) + FileSizes[f] /\ FileEnd(f) \in Nat
  BY <1>5, SizesType DEF FileEnd
<1>7. BytesOf(f) = {p \in Nat : FileStart(f) <= p /\ p < FileEnd(f)}
  BY <1>5, <1>6 DEF BytesOf
<1> QED
  BY <1>5, <1>6, <1>7

\* A file that is not empty has a first byte.
LEMMA FirstByte ==
  ASSUME JobOK, NEW f \in FileIds, FileSizes[f] > 0
  PROVE  FileStart(f) \in BytesOf(f)
<1>1. FileSizes[f] \in Nat
  BY SizesType
<1>2. FileStart(f) \in Nat /\ FileEnd(f) = FileStart(f) + FileSizes[f]
  BY StartType
<1>3. FileStart(f) < FileEnd(f)
  BY <1>1, <1>2
<1> QED
  BY <1>2, <1>3, StartType

\* The next file begins where this one ends.
LEMMA NextBegins ==
  ASSUME JobOK, NEW f \in FileIds, NEW g \in FileIds, g = f + 1
  PROVE  FileStart(g) = FileEnd(f)
<1>1. f \in Nat /\ g # 1 /\ g - 1 = f
  BY SizesType
<1>2. FileStart(g) = FileStart(g - 1) + FileSizes[g - 1]
  BY <1>1, NextStart
<1> QED
  BY <1>1, <1>2, StartType

\* What comes later lies behind.
LEMMA LaterBehind ==
  ASSUME JobOK, NEW f \in FileIds, NEW h \in FileIds, f < h
  PROVE  FileEnd(f) <= FileStart(h)
<1> DEFINE S == {n \in Nat : f + n + 1 \in FileIds => FileEnd(f) <= FileStart(f + n + 1)}
<1>1. 0 \in S
  <2> SUFFICES ASSUME f + 0 + 1 \in FileIds PROVE FileEnd(f) <= FileStart(f + 0 + 1)
    OBVIOUS
  <2> DEFINE g == f + 1
  <2>1. f + 0 + 1 = g /\ g \in FileIds /\ g = f + 1
    BY SizesType
  <2> HIDE DEF g
  <2>2. FileStart(g) = FileEnd(f)
    BY <2>1, NextBegins
  <2> QED
    BY <2>1, <2>2, StartType
<1>2. ASSUME NEW n \in Nat, n \in S PROVE n + 1 \in S
  <2> SUFFICES ASSUME f + (n + 1) + 1 \in FileIds
               PROVE  FileEnd(f) <= FileStart(f + (n + 1) + 1)
    OBVIOUS
  <2> DEFINE g == f + n + 1
             k == g + 1
  <2>1. g \in FileIds /\ f + (n + 1) + 1 = k /\ k = g + 1 /\ k \in FileIds
    BY SizesType DEF FileIds
  <2>2. FileEnd(f) <= FileStart(g)
    BY <1>2, <2>1
  <2> HIDE DEF g, k
  <2>3. FileStart(k) = FileEnd(g)
    BY <2>1, NextBegins
  <2>4. FileStart(g) \in Nat /\ FileSizes[g] \in Nat /\ FileEnd(f) \in Nat
        /\ FileEnd(g) = FileStart(g) + FileSizes[g]
    BY <2>1, StartType, SizesType
  <2>5. FileEnd(f) <= FileStart(k)
    BY <2>2, <2>3, <2>4
  <2> QED
    BY <2>1, <2>5
<1> HIDE DEF S
<1>3. \A n \in Nat : n \in S
  BY <1>1, <1>2, SetInduction
<1>4. h - f - 1 \in Nat /\ f + (h - f - 1) + 1 = h
  BY SizesType
<1> QED
  BY <1>3, <1>4 DEF S

\* No byte is in two files, and every file lies in the data.
LEMMA FilesDisjoint ==
  ASSUME JobOK, NEW f \in FileIds, NEW h \in FileIds, f # h
  PROVE  BytesOf(f) \cap BytesOf(h) = {}
<1>1. f \in Nat /\ h \in Nat
  BY SizesType
<1>2. FileEnd(f) <= FileStart(h) \/ FileEnd(h) <= FileStart(f)
  BY <1>1, LaterBehind
<1> QED
  BY <1>2, StartType

\* The data ends where the last file ends.
LEMMA DataEnd ==
  ASSUME JobOK
  PROVE  /\ OriginalFileSize \in Nat
         /\ Bytes = {p \in Nat : p < OriginalFileSize}
         /\ \A f \in FileIds : FileEnd(f) <= OriginalFileSize /\ BytesOf(f) \subseteq Bytes
<1>1. OriginalFileSize \in Nat /\ Len(FileSizes) \in FileIds
  BY SizesType, StartType DEF OriginalFileSize
<1>2. Bytes = {p \in Nat : p < OriginalFileSize}
  BY <1>1 DEF Bytes
<1>3. ASSUME NEW f \in FileIds PROVE FileEnd(f) <= OriginalFileSize
  <2>1. CASE f = Len(FileSizes)
    BY <1>1, <2>1 DEF OriginalFileSize
  <2>2. CASE f # Len(FileSizes)
    <3>1. f < Len(FileSizes)
      BY <2>2, SizesType DEF FileIds
    <3>2. FileEnd(f) <= FileStart(Len(FileSizes))
      BY <1>1, <3>1, LaterBehind
    <3>3. FileStart(Len(FileSizes)) \in Nat /\ FileEnd(f) \in Nat
          /\ FileSizes[Len(FileSizes)] \in Nat
          /\ OriginalFileSize = FileStart(Len(FileSizes)) + FileSizes[Len(FileSizes)]
      BY <1>1, StartType, SizesType DEF OriginalFileSize
    <3> QED
      BY <3>2, <3>3
  <2> QED
    BY <2>1, <2>2
<1>4. \A f \in FileIds : BytesOf(f) \subseteq Bytes
  BY <1>1, <1>2, <1>3, StartType
<1> QED
  BY <1>1, <1>2, <1>3, <1>4

\* Every byte of the data is in a file.
LEMMA FilesCover ==
  ASSUME JobOK, NEW p \in Bytes
  PROVE  \E f \in FileIds : p \in BytesOf(f)
<1> DEFINE S == {n \in Nat : n + 1 \in FileIds /\ p < FileEnd(n + 1) =>
                               \E f \in FileIds : p \in BytesOf(f)}
<1>0. p \in Nat /\ p < OriginalFileSize
  BY DataEnd
<1>1. 0 \in S
  <2> SUFFICES ASSUME p < FileEnd(1) PROVE p \in BytesOf(1)
    BY SizesType
  <2>1. FileStart(1) <= p
    BY <1>0, NextStart
  <2> QED
    BY <1>0, <2>1, SizesType, StartType
<1>2. ASSUME NEW n \in Nat, n \in S PROVE n + 1 \in S
  <2> SUFFICES ASSUME n + 1 + 1 \in FileIds, p < FileEnd(n + 1 + 1)
               PROVE  \E f \in FileIds : p \in BytesOf(f)
    OBVIOUS
  <2> DEFINE g == n + 1
             k == g + 1
  <2>1. g \in FileIds /\ k \in FileIds /\ k = g + 1
    BY SizesType DEF FileIds
  <2>2. p < FileEnd(g) => \E f \in FileIds : p \in BytesOf(f)
    BY <1>2, <2>1
  <2>3. p < FileEnd(k)
    OBVIOUS
  <2> HIDE DEF g, k
  <2>4. FileStart(k) = FileEnd(g) /\ FileEnd(g) \in Nat
    BY <2>1, NextBegins, StartType
  <2>5. CASE p < FileEnd(g)
    BY <2>2, <2>5
  <2>6. CASE FileEnd(g) <= p
    <3>1. p \in BytesOf(k)
      BY <1>0, <2>1, <2>3, <2>4, <2>6, StartType
    <3> QED
      BY <2>1, <3>1
  <2> QED
    BY <1>0, <2>4, <2>5, <2>6
<1> HIDE DEF S
<1>3. \A n \in Nat : n \in S
  BY <1>1, <1>2, SetInduction
<1> DEFINE n == Len(FileSizes) - 1
<1>4. n \in Nat /\ n + 1 = Len(FileSizes) /\ n + 1 \in FileIds /\ p < FileEnd(n + 1)
  BY <1>0, SizesType DEF OriginalFileSize
<1> HIDE DEF n
<1> QED
  BY <1>3, <1>4 DEF S

\* Every byte of the data is in a block, and every block in the data.
LEMMA BlockOfByte ==
  ASSUME JobOK
  PROVE  /\ TotalBlocks \in Nat /\ Blocks = {g \in Nat : g < TotalBlocks}
         /\ \A p \in Bytes : p \in Nat /\ p \div BlockSize \in Blocks
         /\ \A g \in Blocks : g * BlockSize \in Bytes
<1> DEFINE D == OriginalFileSize
           B == BlockSize
           a == D + B - 1
<1>1. D \in Nat /\ B \in Nat \ {0} /\ a \in Nat /\ TotalBlocks = a \div B
  BY DataEnd, SizesType DEF TotalBlocks
<1>2. PICK q \in Nat, r \in 0 .. B - 1 : TotalBlocks = q /\ a = q * B + r
  <2> HIDE DEF a, B, D
  <2> QED
    BY <1>1, Quotient
<1>3. Blocks = {g \in Nat : g < TotalBlocks}
  BY <1>2 DEF Blocks
<1>4. D <= q * B /\ q * B < D + B
  <2> DEFINE x == q * B
  <2>1. x \in Nat /\ D + B - 1 = x + r /\ r <= B - 1 /\ r \in Nat
    BY <1>1, <1>2
  <2> HIDE DEF x, D, B
  <2>2. D <= x /\ x < D + B
    BY <1>1, <2>1
  <2> QED
    BY <2>2 DEF x
<1>5. ASSUME NEW p \in Bytes PROVE p \in Nat /\ p \div BlockSize \in Blocks
  <2>1. p \in Nat /\ p < D
    BY DataEnd
  <2>2. p < q * B
    <3> DEFINE x == q * B
    <3>1. x \in Nat /\ D <= x
      BY <1>1, <1>2, <1>4
    <3> HIDE DEF x, D, B
    <3>2. p < x
      BY <1>1, <2>1, <3>1
    <3> QED
      BY <3>2 DEF x
  <2>3. p \div B < q
    <3> HIDE DEF B
    <3> QED
      BY <1>1, <1>2, <2>1, <2>2, QuotientBelow
  <2>4. p \div B \in Nat
    <3> HIDE DEF B
    <3> QED
      BY <1>1, <2>1, Quotient
  <2> QED
    BY <1>2, <1>3, <2>1, <2>3, <2>4
<1>6. ASSUME NEW g \in Blocks PROVE g * BlockSize \in Bytes
  <2>1. g \in Nat /\ g + 1 <= q
    BY <1>2, <1>3
  <2>2. (g + 1) * B <= q * B /\ (g + 1) * B = g * B + B
    BY <1>1, <1>2, <2>1, Times
  <2> DEFINE x == g * B
             y == q * B
             z == (g + 1) * B
  <2>3. x \in Nat /\ y \in Nat /\ z \in Nat /\ z <= y /\ z = x + B /\ y < D + B
    BY <1>1, <1>2, <1>4, <2>1, <2>2
  <2> HIDE DEF x, y, z, D, B
  <2>4. x < D
    BY <1>1, <2>3
  <2> QED
    BY <2>3, <2>4, DataEnd DEF x, D, B
<1> QED
  BY <1>2, <1>3, <1>5, <1>6

-----------------------------------------------------------------------------
(* The inductive invariant                                                 *)

\* What the streaming loop needs of the manifest: it cuts a block at the end of
\* the file it begins in, and passes over files without bytes.
FilesBeginWithBlocks ==
  Streaming =>
    \A f \in FileIds : FileSizes[f] > 0 /\ FileStart(f) % BlockSize = 0

\* What reading a block needs of the manifest: readBlockFromFiles looks at two
\* files.
BlocksInTwoFiles ==
  \A g \in Blocks : \A p \in BlockBytes(g) : \E f \in ReadFrom(g) : p \in BytesOf(f)

TypeOK ==
  /\ job \in Jobs
  /\ files \in [FileIds -> {"missing", "resized", "size"}]
  /\ good \subseteq Bytes /\ runs \in Nat \ {0}
  /\ pc \in {"analyse", "write", "new", "done"}
  /\ verdict \in {"running", "INTACT", "SUCCESS", "error"}
  /\ corrupted \subseteq Blocks /\ exists \subseteq FileIds
  /\ target \in 0 .. Len(FileSizes) + 1 /\ block \in Nat

\* The loops are where their phase has them.
PhaseInv ==
  /\ pc # "done" => verdict = "running"
  /\ pc = "analyse" => block = 0
  /\ pc = "new" => ~Streaming /\ target \in FileIds \ exists
  /\ pc = "write" /\ ~Streaming => target > 0
  /\ Streaming /\ target > 0 => target \in FileIds /\ BytesOf(target) # {}

Restored(f) == files[f] = "size" /\ BytesOf(f) \subseteq good

\* What is wrong in the file is marked.
Marked(f) == \A p \in BytesOf(f) : p \in good \/ p \div BlockSize \in corrupted

\* File by file: nothing has happened to the files to come, ...
FilesInv ==
  ~Streaming /\ pc \in {"write", "new"} =>
    \A f \in FileIds :
      target < f \/ (target = f /\ pc = "write") => (files[f] = "size" <=> f \in exists)

\* ... and, unless something fails, those behind are restored, what is wrong in
\* those to come is marked, and of the present one what has not been visited.
PatchInv ==
  ~Streaming /\ pc \in {"write", "new"} /\ Faults = {} =>
    /\ \A f \in FileIds : f < target => Restored(f)
    /\ \A f \in exists : target < f => Marked(f)
    /\ target \in exists =>
         \A p \in BytesOf(target) :
           p \in good \/ (p \div BlockSize \in corrupted /\ block <= p \div BlockSize)

\* Block by block: the present file is the one the next block begins in, or that
\* ends where it begins, the files up to it have their size, the blocks behind are
\* right, and what is wrong ahead is marked.
StreamInv ==
  Streaming /\ pc = "write" /\ FilesBeginWithBlocks =>
    /\ block <= TotalBlocks
    /\ target = 0 => block = 0
    /\ target > 0 => FileStart(target) <= block * BlockSize
    /\ target \in 1 .. Len(FileSizes) - 1 => block * BlockSize <= FileEnd(target)
    /\ \A f \in FileIds : f <= target => files[f] = "size"
    /\ \A p \in Bytes : p \div BlockSize < block => p \in good
    /\ \A f \in exists : Marked(f)

OverInv == FilesBeginWithBlocks => SuccessMeansAllRestored

IInv == TypeOK /\ PhaseInv /\ FilesInv /\ PatchInv /\ StreamInv /\ OverInv

-----------------------------------------------------------------------------
(* Initial states and steps                                                *)

\* The layout of a repair can be relied on.
LEMMA JobIsOK ==
  ASSUME job \in Jobs
  PROVE  JobOK
BY RestoreAssumption DEF JobOK, FileSizes

\* Nothing that is made of the job changes.
LEMMA JobSame ==
  ASSUME UNCHANGED job
  PROVE  /\ FileSizes' = FileSizes /\ BlockSize' = BlockSize
         /\ Streaming' = Streaming /\ Faults' = Faults
         /\ FileIds' = FileIds /\ Bytes' = Bytes /\ Blocks' = Blocks
         /\ TotalBlocks' = TotalBlocks
         /\ \A f : /\ FileStart(f)' = FileStart(f) /\ FileEnd(f)' = FileEnd(f)
                   /\ BytesOf(f)' = BytesOf(f)
         /\ FilesBeginWithBlocks' = FilesBeginWithBlocks
         /\ FaultsNoticed' = FaultsNoticed
<1>1. FileSizes' = FileSizes /\ BlockSize' = BlockSize /\ Streaming' = Streaming
      /\ Faults' = Faults /\ FileIds' = FileIds
  BY DEF FileSizes, BlockSize, Streaming, Faults, FileIds
<1>2. \A f : FileStart(f)' = FileStart(f)
  BY <1>1 DEF FileStart
<1>3. \A f : FileEnd(f)' = FileEnd(f) /\ BytesOf(f)' = BytesOf(f)
  BY <1>1, <1>2 DEF FileEnd, BytesOf
<1>4. Bytes' = Bytes /\ TotalBlocks' = TotalBlocks /\ Blocks' = Blocks
  BY <1>1, <1>3 DEF Bytes, OriginalFileSize, TotalBlocks, Blocks
<1>5. FilesBeginWithBlocks' = FilesBeginWithBlocks
  BY <1>1, <1>2 DEF FilesBeginWithBlocks
<1>6. FaultsNoticed' = FaultsNoticed
  BY <1>1 DEF FaultsNoticed
<1> QED
  BY <1>1, <1>2, <1>3, <1>4, <1>5, <1>6

\* Whatever is on disk.
THEOREM InitInv == Init => IInv
<1> SUFFICES ASSUME Init PROVE IInv
  OBVIOUS
<1>1. JobOK
  BY JobIsOK DEF Init
<1>2. TypeOK
  BY <1>1, SizesType DEF Init, FreshRun, TypeOK
<1> QED
  BY <1>2 DEF Init, FreshRun, IInv, PhaseInv, FilesInv, PatchInv, StreamInv, OverInv,
     SuccessMeansAllRestored

\* Hashing marks every block that is not right.
LEMMA AnalyseStep == IInv /\ Analyse => IInv'
<1> SUFFICES ASSUME IInv, Analyse PROVE IInv'
  OBVIOUS
<1>1. /\ UNCHANGED <<job, files, good, runs, block>> /\ pc = "analyse"
      /\ corrupted' = {g \in Blocks : ~Healthy(g)}
      /\ exists' = {f \in FileIds : files[f] = "size"}
      /\ target' = IF Streaming THEN 0 ELSE 1
  BY DEF Analyse, diskVars, WithTheirSize
<1>2. \/ pc' = "done" /\ verdict' = "INTACT"
      \/ pc' = "write" /\ verdict' = verdict
  BY DEF Analyse, Stop
<1>3. TypeOK /\ PhaseInv /\ JobOK
  BY JobIsOK DEF IInv, TypeOK
<1>4. block = 0 /\ verdict = "running"
  BY <1>1, <1>3 DEF PhaseInv
<1>5. TypeOK'
  <2>1. target' \in 0 .. Len(FileSizes) + 1
    BY <1>1, <1>3, SizesType
  <2> QED
    BY <1>1, <1>2, <1>3, <2>1, JobSame DEF TypeOK
<1>6. PhaseInv'
  BY <1>1, <1>2, <1>4, JobSame DEF PhaseInv
<1>7. \A f \in FileIds : Marked(f)'
  <2> SUFFICES ASSUME NEW f \in FileIds, NEW p \in BytesOf(f), p \div BlockSize \notin corrupted'
               PROVE  p \in good
    BY <1>1, JobSame DEF Marked
  <2>1. p \in Bytes /\ p \div BlockSize \in Blocks
    BY <1>3, DataEnd, BlockOfByte
  <2>2. Healthy(p \div BlockSize)
    BY <1>1, <2>1
  <2> QED
    BY <2>1, <2>2 DEF Healthy, BlockBytes
<1>8. FilesInv'
  BY <1>1, JobSame DEF FilesInv
<1>9. PatchInv'
  <2>1. \A f \in FileIds : ~(f < 1)
    BY <1>3, SizesType
  <2>2. 1 \in FileIds => \A p \in BytesOf(1) : p \div BlockSize \in Nat
    BY <1>3, DataEnd, BlockOfByte
  <2>3. 1 \in FileIds
    BY <1>3, SizesType
  <2>4. \A p \in BytesOf(1) : p \in good' \/ (p \div BlockSize \in corrupted' /\ 0 <= p \div BlockSize)
    BY <1>7, <2>2, <2>3, <1>1, JobSame DEF Marked
  <2>5. \A f \in exists' : f \in FileIds
    BY <1>1
  <2> QED
    BY <1>1, <1>4, <1>7, <2>1, <2>4, <2>5, JobSame DEF PatchInv
<1>10. StreamInv'
  <2>1. \A f \in FileIds : ~(f <= 0)
    BY <1>3, SizesType
  <2>2. \A p \in Bytes : ~(p \div BlockSize < 0)
    BY <1>3, BlockOfByte
  <2>3. 0 <= TotalBlocks /\ 0 \notin 1 .. Len(FileSizes) - 1
    BY <1>3, BlockOfByte
  <2>4. SUFFICES ASSUME Streaming PROVE StreamInv'
    BY <1>1, JobSame DEF StreamInv
  <2>5. target' = 0 /\ block' = 0
    BY <1>1, <1>4, <2>4
  <2>6. \A f \in exists' : Marked(f)'
    BY <1>1, <1>7
  <2> QED
    BY <1>1, <2>1, <2>2, <2>3, <2>5, <2>6, JobSame DEF StreamInv
<1>11. OverInv'
  BY <1>2, <1>4 DEF OverInv, SuccessMeansAllRestored
<1> QED
  BY <1>5, <1>6, <1>8, <1>9, <1>10, <1>11 DEF IInv

\* A restart keeps what is on disk.
LEMMA StartAgainStep == IInv /\ StartAgain => IInv'
<1> SUFFICES ASSUME IInv, StartAgain PROVE IInv'
  OBVIOUS
<1>1. /\ UNCHANGED <<job, files, good>> /\ runs' = runs + 1
      /\ pc' = "analyse" /\ corrupted' = {} /\ exists' = {}
      /\ target' = 0 /\ block' = 0 /\ verdict' = "running"
  BY DEF StartAgain
<1>2. TypeOK /\ JobOK
  BY JobIsOK DEF IInv, TypeOK
<1>3. TypeOK'
  <2>1. 0 \in 0 .. Len(FileSizes) + 1
    BY <1>2, SizesType
  <2>2. runs' \in Nat \ {0}
    BY <1>1, <1>2 DEF TypeOK
  <2> QED
    BY <1>1, <1>2, <2>1, <2>2, JobSame DEF TypeOK
<1> QED
  BY <1>1, <1>3, JobSame DEF IInv, PhaseInv, FilesInv, PatchInv, StreamInv, OverInv,
     SuccessMeansAllRestored

\* Without an output loop there is nothing to keep.
LEMMA StopStep ==
  ASSUME IInv, UNCHANGED <<job, files, good, runs, corrupted, exists, target, block>>,
         \/ pc' = "done" /\ verdict' = "error"
         \/ pc' = pc /\ verdict' = verdict
  PROVE  IInv'
<1>1. TypeOK'
  BY JobSame DEF IInv, TypeOK
<1>2. PhaseInv' /\ FilesInv'
  BY JobSame DEF IInv, PhaseInv, FilesInv
<1>3. PatchInv' /\ StreamInv'
  BY JobSame DEF IInv, PatchInv, StreamInv, Restored, Marked
<1>4. OverInv'
  BY JobSame DEF IInv, OverInv, SuccessMeansAllRestored
<1> QED
  BY <1>1, <1>2, <1>3, <1>4 DEF IInv

-----------------------------------------------------------------------------
(* File by file                                                            *)

\* What a file by file step finds.
LEMMA WritingFacts ==
  ASSUME IInv
  PROVE  /\ JobOK /\ TypeOK /\ PhaseInv /\ FilesInv /\ PatchInv
         /\ good \subseteq Bytes /\ exists \subseteq FileIds
         /\ \A f \in FileIds : BytesOf(f) \subseteq Bytes /\ f \in Nat \ {0}
         /\ \A p \in Bytes : p \div BlockSize \in Nat
         /\ Len(FileSizes) \in Nat /\ target \in Nat /\ block \in Nat
<1>1. TypeOK /\ JobOK /\ PhaseInv /\ FilesInv /\ PatchInv
  BY JobIsOK DEF IInv, TypeOK
<1>2. \A p \in Bytes : p \div BlockSize \in Nat
  BY <1>1, BlockOfByte
<1>3. Len(FileSizes) \in Nat /\ \A f \in FileIds : BytesOf(f) \subseteq Bytes /\ f \in Nat \ {0}
  BY <1>1, DataEnd, SizesType
<1>4. target \in Nat /\ block \in Nat /\ good \subseteq Bytes /\ exists \subseteq FileIds
  BY <1>1, <1>3 DEF TypeOK
<1> QED
  BY <1>1, <1>2, <1>3, <1>4

\* A patch rights what is wrong up to its block, unless it fails.
LEMMA PatchBlockStep == IInv /\ PatchBlock => IInv'
<1> SUFFICES ASSUME IInv, PatchBlock PROVE IInv'
  OBVIOUS
<1>1. /\ UNCHANGED <<job, files, runs, pc, corrupted, exists, target, verdict>>
      /\ pc = "write" /\ ~Streaming /\ target \in FileIds /\ target \in exists
  BY DEF PatchBlock, Writing
<1>2. PICK g \in Unpatched :
        /\ \A h \in Unpatched : g <= h
        /\ block' = g + 1
        /\ \/ good' = good \cup Portion(g, target)
           \/ "write" \in Faults /\ UNCHANGED good
  BY DEF PatchBlock
<1>3. g \in corrupted /\ block <= g /\ g \in Nat
  BY <1>2, WritingFacts, BlockOfByte DEF Unpatched, TypeOK
<1>4. good \subseteq good' /\ good' \subseteq Bytes
  BY <1>2, WritingFacts DEF Portion, BlockBytes
<1>5. TypeOK'
  BY <1>1, <1>2, <1>3, <1>4, WritingFacts, JobSame DEF TypeOK
<1>6. PhaseInv' /\ FilesInv'
  BY <1>1, WritingFacts, JobSame DEF PhaseInv, FilesInv
<1>7. PatchInv'
  <2> SUFFICES ASSUME Faults = {} PROVE PatchInv'
    BY <1>1, JobSame DEF PatchInv
  <2>1. good' = good \cup Portion(g, target)
    BY <1>2
  <2>2. \A f \in FileIds : f < target => Restored(f)'
    BY <1>1, <1>4, WritingFacts, JobSame DEF PatchInv, Restored
  <2>3. \A f \in exists : target < f => Marked(f)'
    BY <1>1, <1>4, WritingFacts, JobSame DEF PatchInv, Marked
  <2>4. ASSUME NEW p \in BytesOf(target), p \notin good'
        PROVE  p \div BlockSize \in corrupted /\ block' <= p \div BlockSize
    <3> DEFINE h == p \div BlockSize
    <3>1. p \in Bytes /\ h \in Nat
      BY <1>1, <2>4, WritingFacts
    <3>2. h \in corrupted /\ block <= h
      BY <1>1, <1>4, <2>4, WritingFacts DEF PatchInv
    <3>3. p \in Portion(h, target)
      BY <2>4, <3>1 DEF Portion, BlockBytes
    <3>4. h \in Unpatched
      BY <3>2, <3>3 DEF Unpatched
    <3>5. h # g
      BY <2>1, <2>4, <3>3
    <3>6. g <= h
      BY <1>2, <3>4
    <3> HIDE DEF h
    <3>7. g + 1 <= h
      BY <1>3, <3>1, <3>5, <3>6
    <3> QED
      BY <1>2, <3>2, <3>7 DEF h
  <2> QED
    BY <1>1, <2>2, <2>3, <2>4, JobSame DEF PatchInv
<1>8. StreamInv' /\ OverInv'
  BY <1>1, WritingFacts, JobSame DEF StreamInv, OverInv, SuccessMeansAllRestored, PhaseInv
<1> QED
  BY <1>5, <1>6, <1>7, <1>8 DEF IInv

\* A file that is left is restored, unless it could not be opened.
LEMMA LeaveFileStep == IInv /\ LeaveFile => IInv'
<1> SUFFICES ASSUME IInv, LeaveFile PROVE IInv'
  OBVIOUS
<1>1. /\ UNCHANGED <<job, files, good, runs, pc, corrupted, exists, verdict>>
      /\ pc = "write" /\ ~Streaming /\ target \in FileIds
      /\ target' = target + 1 /\ block' = 0
      /\ (target \in exists /\ Unpatched = {}) \/ "open" \in Faults
  BY DEF LeaveFile, Writing, diskVars
<1>2. target + 1 \in 0 .. Len(FileSizes) + 1
  BY <1>1, WritingFacts DEF FileIds
<1>3. TypeOK'
  BY <1>1, <1>2, WritingFacts, JobSame DEF TypeOK
<1>4. PhaseInv' /\ FilesInv'
  <2>1. target + 1 > 0
    BY WritingFacts
  <2>2. \A f \in FileIds : target + 1 < f \/ target + 1 = f => target < f
    BY WritingFacts
  <2> QED
    BY <1>1, <2>1, <2>2, WritingFacts, JobSame DEF PhaseInv, FilesInv
<1>5. PatchInv'
  <2> SUFFICES ASSUME Faults = {} PROVE PatchInv'
    BY <1>1, JobSame DEF PatchInv
  <2>1. target \in exists /\ Unpatched = {}
    BY <1>1
  <2>2. BytesOf(target) \subseteq good
    <3> SUFFICES ASSUME NEW p \in BytesOf(target), p \notin good PROVE FALSE
      OBVIOUS
    <3> DEFINE h == p \div BlockSize
    <3>1. p \in Bytes /\ h \in corrupted /\ block <= h
      BY <1>1, <2>1, WritingFacts DEF PatchInv
    <3>2. p \in Portion(h, target)
      BY <3>1 DEF Portion, BlockBytes
    <3>3. h \in Unpatched
      BY <3>1, <3>2 DEF Unpatched
    <3> QED
      BY <2>1, <3>3
  <2>3. files[target] = "size"
    BY <1>1, <2>1, WritingFacts DEF FilesInv
  <2>4. ASSUME NEW f \in FileIds, f < target + 1 PROVE Restored(f)'
    <3>1. CASE f = target
      BY <1>1, <2>2, <2>3, <3>1, JobSame DEF Restored
    <3>2. CASE f < target
      BY <1>1, <3>2, WritingFacts, JobSame DEF PatchInv, Restored
    <3> QED
      BY <2>4, <3>1, <3>2, WritingFacts
  <2>5. \A f \in exists : target + 1 <= f => Marked(f)
    BY <1>1, WritingFacts DEF PatchInv
  <2>6. \A f \in exists : target + 1 < f => Marked(f)'
    BY <1>1, <2>5, WritingFacts, JobSame DEF Marked
  <2>7. target + 1 \in exists =>
          \A p \in BytesOf(target + 1) :
            p \in good \/ (p \div BlockSize \in corrupted /\ 0 <= p \div BlockSize)
    <3> SUFFICES ASSUME NEW f \in exists, f = target + 1
                 PROVE  \A p \in BytesOf(f) :
                          p \in good \/ (p \div BlockSize \in corrupted /\ 0 <= p \div BlockSize)
      OBVIOUS
    <3>1. Marked(f) /\ \A p \in BytesOf(f) : p \div BlockSize \in Nat
      BY <2>5, WritingFacts
    <3> QED
      BY <3>1 DEF Marked
  <2> QED
    BY <1>1, <2>4, <2>6, <2>7, JobSame DEF PatchInv
<1>6. StreamInv' /\ OverInv'
  BY <1>1, WritingFacts, JobSame DEF StreamInv, OverInv, SuccessMeansAllRestored, PhaseInv
<1> QED
  BY <1>3, <1>4, <1>5, <1>6 DEF IInv

\* Only a file that has not its size is emptied, which takes nothing from the others.
LEMMA EmptyFileStep == IInv /\ EmptyFile => IInv'
<1> SUFFICES ASSUME IInv, EmptyFile PROVE IInv'
  OBVIOUS
<1>1. /\ UNCHANGED <<job, runs, corrupted, exists, target, block, verdict>>
      /\ pc = "write" /\ ~Streaming /\ target \in FileIds /\ target \notin exists
      /\ files' = [files EXCEPT ![target] = "resized"]
      /\ good' = good \ BytesOf(target)
      /\ pc' = "new"
  BY DEF EmptyFile, Writing
<1>2. \A f \in FileIds : f # target => files'[f] = files[f] /\ BytesOf(f) \cap BytesOf(target) = {}
  BY <1>1, WritingFacts, FilesDisjoint DEF TypeOK
<1>3. TypeOK'
  BY <1>1, WritingFacts, JobSame DEF TypeOK
<1>4. PhaseInv' /\ FilesInv'
  <2>1. \A f \in FileIds : target < f => f # target
    BY WritingFacts
  <2> QED
    BY <1>1, <1>2, <2>1, WritingFacts, JobSame DEF PhaseInv, FilesInv
<1>5. PatchInv'
  <2> SUFFICES ASSUME Faults = {} PROVE PatchInv'
    BY <1>1, JobSame DEF PatchInv
  <2>1. ASSUME NEW f \in FileIds, f < target PROVE Restored(f)'
    <3>1. f # target /\ Restored(f)
      BY <1>1, <2>1, WritingFacts DEF PatchInv
    <3> QED
      BY <1>1, <1>2, <3>1, JobSame DEF Restored
  <2>2. ASSUME NEW f \in exists, target < f PROVE Marked(f)'
    <3>1. f \in FileIds /\ f # target /\ Marked(f)
      BY <1>1, <2>2, WritingFacts DEF PatchInv
    <3> QED
      BY <1>1, <1>2, <3>1, JobSame DEF Marked
  <2> QED
    BY <1>1, <2>1, <2>2, JobSame DEF PatchInv
<1>6. StreamInv' /\ OverInv'
  BY <1>1, WritingFacts, JobSame DEF StreamInv, OverInv, SuccessMeansAllRestored, PhaseInv
<1> QED
  BY <1>3, <1>4, <1>5, <1>6 DEF IInv

\* A file that is written whole is restored.
LEMMA WriteFileStep == IInv /\ WriteFile => IInv'
<1> SUFFICES ASSUME IInv, WriteFile PROVE IInv'
  OBVIOUS
<1>1. /\ UNCHANGED <<job, runs, corrupted, exists, verdict>>
      /\ pc = "new" /\ pc' = "write"
      /\ files' = [files EXCEPT ![target] = "size"]
      /\ good' = good \cup BytesOf(target)
      /\ target' = target + 1 /\ block' = 0
  BY DEF WriteFile
<1>2. ~Streaming /\ target \in FileIds /\ target \notin exists
  BY <1>1, WritingFacts DEF PhaseInv
<1>3. \A f \in FileIds : f # target => files'[f] = files[f]
  BY <1>1, WritingFacts DEF TypeOK
<1>4. TypeOK'
  <2>1. target + 1 \in 0 .. Len(FileSizes) + 1
    BY <1>2, WritingFacts DEF FileIds
  <2> QED
    BY <1>1, <1>2, <2>1, WritingFacts, JobSame DEF TypeOK
<1>5. PhaseInv' /\ FilesInv'
  <2>1. target + 1 > 0
    BY WritingFacts
  <2>2. \A f \in FileIds : target + 1 < f \/ target + 1 = f => target < f /\ f # target
    BY WritingFacts
  <2> QED
    BY <1>1, <1>2, <1>3, <2>1, <2>2, WritingFacts, JobSame DEF PhaseInv, FilesInv
<1>6. PatchInv'
  <2> SUFFICES ASSUME Faults = {} PROVE PatchInv'
    BY <1>1, JobSame DEF PatchInv
  <2>1. ASSUME NEW f \in FileIds, f < target + 1 PROVE Restored(f)'
    <3>1. CASE f = target
      <4>1. files'[target] = "size"
        BY <1>1, <1>2, WritingFacts DEF TypeOK
      <4> QED
        BY <1>1, <3>1, <4>1, JobSame DEF Restored
    <3>2. CASE f < target
      <4>1. f # target /\ Restored(f)
        BY <1>1, <1>2, <3>2, WritingFacts DEF PatchInv
      <4> QED
        BY <1>1, <1>3, <4>1, JobSame DEF Restored
    <3> QED
      BY <2>1, <3>1, <3>2, WritingFacts
  <2>2. \A f \in exists : target + 1 <= f => Marked(f)
    BY <1>1, <1>2, WritingFacts DEF PatchInv
  <2>3. \A f \in exists : target + 1 < f => Marked(f)'
    BY <1>1, <2>2, WritingFacts, JobSame DEF Marked
  <2>4. target + 1 \in exists =>
          \A p \in BytesOf(target + 1) :
            p \in good' \/ (p \div BlockSize \in corrupted /\ 0 <= p \div BlockSize)
    <3> SUFFICES ASSUME NEW f \in exists, f = target + 1
                 PROVE  \A p \in BytesOf(f) :
                          p \in good' \/ (p \div BlockSize \in corrupted /\ 0 <= p \div BlockSize)
      OBVIOUS
    <3>1. Marked(f) /\ \A p \in BytesOf(f) : p \div BlockSize \in Nat
      BY <2>2, WritingFacts
    <3> QED
      BY <1>1, <3>1 DEF Marked
  <2> QED
    BY <1>1, <1>2, <2>1, <2>3, <2>4, JobSame DEF PatchInv
<1>7. StreamInv' /\ OverInv'
  BY <1>1, <1>2, WritingFacts, JobSame DEF StreamInv, OverInv, SuccessMeansAllRestored, PhaseInv
<1> QED
  BY <1>4, <1>5, <1>6, <1>7 DEF IInv

-----------------------------------------------------------------------------
(* Block by block                                                          *)

\* Files that begin with a block are cut between blocks.
LEMMA CutBetween ==
  ASSUME JobOK, Streaming, FilesBeginWithBlocks, NEW f \in FileIds, f # Len(FileSizes),
         NEW g \in Nat, g * BlockSize < FileEnd(f)
  PROVE  (g + 1) * BlockSize <= FileEnd(f)
<1> DEFINE h == f + 1
           B == BlockSize
<1>1. h \in FileIds /\ h = f + 1 /\ B \in Nat \ {0}
  BY SizesType DEF FileIds
<1> HIDE DEF h
<1>2. FileStart(h) = FileEnd(f) /\ FileStart(h) \in Nat /\ FileStart(h) % B = 0
  BY <1>1, NextBegins, StartType DEF FilesBeginWithBlocks
<1> HIDE DEF B
<1>3. PICK m \in Nat, r \in 0 .. B - 1 : FileStart(h) % B = r /\ FileStart(h) = m * B + r
  BY <1>1, <1>2, Quotient
<1>4. FileEnd(f) = m * B
  BY <1>1, <1>2, <1>3
<1>5. g * B < m * B
  BY <1>4 DEF B
<1>6. ~(m <= g)
  <2> SUFFICES ASSUME m <= g PROVE FALSE
    OBVIOUS
  <2>1. m * B <= g * B
    BY <1>1, <1>3, Times
  <2>2. m * B \in Nat /\ g * B \in Nat
    BY <1>1, <1>3
  <2> QED
    BY <1>5, <2>1, <2>2
<1>7. (g + 1) * B <= m * B
  BY <1>1, <1>3, <1>6, Times
<1> QED
  BY <1>4, <1>7 DEF B

\* A block lies in the file it begins in.
LEMMA BlockInFile ==
  ASSUME JobOK, Streaming, FilesBeginWithBlocks, NEW f \in FileIds, NEW g \in Nat,
         FileStart(f) <= g * BlockSize, g * BlockSize < FileEnd(f),
         NEW p \in Bytes, p \div BlockSize = g
  PROVE  p \in BytesOf(f)
<1> DEFINE B == BlockSize
<1>1. B \in Nat \ {0} /\ p \in Nat /\ p < OriginalFileSize
  BY SizesType, DataEnd
<1> HIDE DEF B
<1>2. PICK r \in 0 .. B - 1 : p = g * B + r
  <2>1. p \div B = g
    BY DEF B
  <2> QED
    BY <1>1, <2>1, Quotient
<1> DEFINE x == g * B
           z == (g + 1) * B
<1>3. x \in Nat /\ z \in Nat /\ z = x + B /\ p = x + r
  BY <1>1, <1>2
<1>4. FileStart(f) <= x /\ FileStart(f) \in Nat /\ FileEnd(f) \in Nat
  BY StartType DEF B
<1>5. f # Len(FileSizes) => z <= FileEnd(f)
  BY CutBetween DEF B
<1> HIDE DEF x, z
<1>6. FileStart(f) <= p /\ p < z
  BY <1>1, <1>3, <1>4
<1>7. p < FileEnd(f)
  <2>1. CASE f = Len(FileSizes)
    BY <1>1, <2>1 DEF OriginalFileSize
  <2>2. CASE f # Len(FileSizes)
    BY <1>1, <1>3, <1>4, <1>5, <1>6, <2>2
  <2> QED
    BY <2>1, <2>2
<1> QED
  BY <1>1, <1>6, <1>7, StartType

\* No file is passed over.
LEMMA TargetFollows ==
  ASSUME IInv, NextTarget, FilesBeginWithBlocks, NEW f \in FileIds,
         block * BlockSize \in BytesOf(f)
  PROVE  f = target + 1
<1>1. Streaming /\ pc = "write" /\ block < TotalBlocks
      /\ (target = 0 \/ (target > 0 /\ block * BlockSize >= FileEnd(target)))
  BY DEF NextTarget, TargetBehind
<1>2. /\ target = 0 => block = 0
      /\ target \in 1 .. Len(FileSizes) - 1 => block * BlockSize <= FileEnd(target)
  BY <1>1 DEF IInv, StreamInv
<1>3. \A h \in FileIds : FileSizes[h] > 0
  BY <1>1 DEF FilesBeginWithBlocks
<1>4. \A h \in FileIds : block * BlockSize = FileStart(h) => f = h
  <2> SUFFICES ASSUME NEW h \in FileIds, block * BlockSize = FileStart(h), f # h PROVE FALSE
    OBVIOUS
  <2>1. FileStart(h) \in BytesOf(h)
    BY <1>3, WritingFacts, FirstByte
  <2> QED
    BY <2>1, WritingFacts, FilesDisjoint
<1>5. CASE target = 0
  <2>1. block * BlockSize = 0
    BY <1>2, <1>5, WritingFacts, SizesType
  <2>2. 1 \in FileIds /\ FileStart(1) = 0
    BY WritingFacts, SizesType, NextStart
  <2> QED
    BY <1>4, <1>5, <2>1, <2>2
<1>6. CASE target > 0
  <2>1. target \in FileIds
    BY <1>1, <1>6, WritingFacts DEF PhaseInv
  <2>2. FileEnd(target) \in Nat /\ block * BlockSize \in Nat /\ block * BlockSize < OriginalFileSize
    BY <2>1, WritingFacts, StartType, DataEnd
  <2>3. target # Len(FileSizes)
    BY <1>1, <1>6, <2>2 DEF OriginalFileSize
  <2> DEFINE h == target + 1
  <2>4. h \in FileIds /\ h = target + 1 /\ target \in 1 .. Len(FileSizes) - 1
    BY <2>1, <2>3, WritingFacts DEF FileIds
  <2>5. block * BlockSize = FileEnd(target)
    BY <1>1, <1>2, <1>6, <2>2, <2>4
  <2> HIDE DEF h
  <2>6. FileStart(h) = FileEnd(target)
    BY <2>1, <2>4, WritingFacts, NextBegins
  <2> QED
    BY <1>4, <2>4, <2>5, <2>6
<1> QED
  BY <1>1, <1>5, <1>6

\* The next file gets its size, and keeps what it has.
LEMMA NextTargetStep == IInv /\ NextTarget => IInv'
<1> SUFFICES ASSUME IInv, NextTarget PROVE IInv'
  OBVIOUS
<1>1. /\ UNCHANGED <<job, good, runs, pc, corrupted, exists, block, verdict>>
      /\ pc = "write" /\ Streaming
  BY DEF NextTarget
<1>2. PICK f \in FileIds :
        /\ block * BlockSize \in BytesOf(f)
        /\ target' = f
        /\ files' = [files EXCEPT ![f] = "size"]
  BY DEF NextTarget
<1>3. TypeOK'
  <2>1. f \in 0 .. Len(FileSizes) + 1
    BY WritingFacts DEF FileIds
  <2> QED
    BY <1>1, <1>2, <2>1, WritingFacts, JobSame DEF TypeOK
<1>4. PhaseInv' /\ FilesInv' /\ PatchInv'
  BY <1>1, <1>2, WritingFacts, JobSame DEF PhaseInv, FilesInv, PatchInv
<1>5. StreamInv'
  <2> SUFFICES ASSUME FilesBeginWithBlocks PROVE StreamInv'
    BY <1>1, JobSame DEF StreamInv
  <2>1. StreamInv
    BY DEF IInv
  <2>2. f = target + 1
    BY <1>2, TargetFollows
  <2>3. FileStart(f) <= block * BlockSize /\ block * BlockSize <= FileEnd(f)
    BY <1>2, WritingFacts, StartType
  <2>4. ASSUME NEW h \in FileIds, h <= f PROVE files'[h] = "size"
    <3>1. CASE h = f
      BY <1>2, <3>1, WritingFacts DEF TypeOK
    <3>2. CASE h # f
      <4>1. h <= target
        BY <2>2, <2>4, <3>2, WritingFacts
      <4> QED
        BY <1>1, <1>2, <2>1, <3>2, <4>1, WritingFacts DEF StreamInv, TypeOK
    <3> QED
      BY <3>1, <3>2
  <2>5. f # 0
    BY WritingFacts
  <2> QED
    BY <1>1, <1>2, <2>1, <2>3, <2>4, <2>5, JobSame DEF StreamInv, Marked
<1>6. OverInv'
  BY <1>1, WritingFacts, JobSame DEF OverInv, SuccessMeansAllRestored, PhaseInv
<1> QED
  BY <1>3, <1>4, <1>5, <1>6 DEF IInv

\* A block that is not written is right.
LEMMA StreamBlockStep == IInv /\ StreamBlock => IInv'
<1> SUFFICES ASSUME IInv, StreamBlock PROVE IInv'
  OBVIOUS
<1>1. /\ UNCHANGED <<job, files, runs, pc, corrupted, exists, target, verdict>>
      /\ pc = "write" /\ Streaming /\ block < TotalBlocks
      /\ target # 0 /\ ~(target > 0 /\ block * BlockSize >= FileEnd(target))
      /\ block' = block + 1
      /\ good' = IF ShouldWrite THEN good \cup Portion(block, target) ELSE good
  BY DEF StreamBlock, TargetBehind
<1>2. good \subseteq good' /\ good' \subseteq Bytes
  BY <1>1, WritingFacts DEF Portion, BlockBytes
<1>3. TypeOK'
  BY <1>1, <1>2, WritingFacts, JobSame DEF TypeOK
<1>4. PhaseInv' /\ FilesInv' /\ PatchInv'
  BY <1>1, WritingFacts, JobSame DEF PhaseInv, FilesInv, PatchInv
<1>5. StreamInv'
  <2> SUFFICES ASSUME FilesBeginWithBlocks PROVE StreamInv'
    BY <1>1, JobSame DEF StreamInv
  <2>1. target \in FileIds /\ target > 0
    BY <1>1, WritingFacts DEF PhaseInv
  <2>2. /\ FileStart(target) <= block * BlockSize
        /\ \A f \in FileIds : f <= target => files[f] = "size"
        /\ \A p \in Bytes : p \div BlockSize < block => p \in good
        /\ \A f \in exists : Marked(f)
    BY <1>1, <2>1 DEF IInv, StreamInv
  <2> DEFINE x == block * BlockSize
             z == (block + 1) * BlockSize
  <2>3. /\ x \in Nat /\ z \in Nat /\ x <= z
        /\ FileEnd(target) \in Nat /\ FileStart(target) \in Nat
    <3>1. BlockSize \in Nat \ {0} /\ z = x + BlockSize /\ x \in Nat
      BY WritingFacts, SizesType
    <3>2. FileEnd(target) \in Nat /\ FileStart(target) \in Nat
      BY <2>1, WritingFacts, StartType
    <3> HIDE DEF x, z
    <3> QED
      BY <3>1, <3>2
  <2>4. x < FileEnd(target)
    BY <1>1, <2>1, <2>3
  <2>5. FileStart(target) <= z
    <3>1. FileStart(target) <= x
      BY <2>2
    <3> HIDE DEF x, z
    <3> QED
      BY <2>3, <3>1
  <2>6. target # Len(FileSizes) => z <= FileEnd(target)
    BY <1>1, <2>1, <2>4, WritingFacts, CutBetween
  <2>7. ASSUME NEW p \in Bytes, p \div BlockSize < block + 1 PROVE p \in good'
    <3>1. CASE p \div BlockSize < block
      BY <1>2, <2>2, <3>1
    <3>2. CASE p \div BlockSize = block
      <4>1. p \in BytesOf(target)
        BY <1>1, <2>1, <2>2, <2>4, <3>2, WritingFacts, BlockInFile
      <4>2. p \in Portion(block, target)
        BY <3>2, <4>1 DEF Portion, BlockBytes
      <4>3. CASE ShouldWrite
        BY <1>1, <4>2, <4>3
      <4>4. CASE ~ShouldWrite
        <5>1. target \in exists /\ p \div BlockSize \notin corrupted
          BY <3>2, <4>4 DEF ShouldWrite
        <5> QED
          BY <1>2, <2>2, <4>1, <5>1 DEF Marked
      <4> QED
        BY <4>3, <4>4
    <3>3. p \div BlockSize \in Nat
      BY WritingFacts
    <3> QED
      BY <2>7, <3>1, <3>2, <3>3, WritingFacts
  <2>8. \A f \in exists : Marked(f)'
    BY <1>1, <1>2, <2>2, JobSame DEF Marked
  <2>9. block + 1 <= TotalBlocks
    <3>1. TotalBlocks \in Nat
      BY WritingFacts, BlockOfByte
    <3> QED
      BY <1>1, <3>1, WritingFacts
  <2>10. target \in 1 .. Len(FileSizes) - 1 => z <= FileEnd(target)
    BY <2>6, WritingFacts
  <2> HIDE DEF x
  <2> QED
    BY <1>1, <2>1, <2>2, <2>5, <2>7, <2>8, <2>9, <2>10, JobSame DEF StreamInv
<1>6. OverInv'
  BY <1>1, WritingFacts, JobSame DEF OverInv, SuccessMeansAllRestored, PhaseInv
<1> QED
  BY <1>3, <1>4, <1>5, <1>6 DEF IInv

\* When the loop is over, every byte is right.
LEMMA SucceedStep == IInv /\ Succeed => IInv'
<1> SUFFICES ASSUME IInv, Succeed PROVE IInv'
  OBVIOUS
<1>1. /\ UNCHANGED <<job, files, good, runs, corrupted, exists, target, block>>
      /\ pc = "write" /\ pc' = "done" /\ verdict' = "SUCCESS"
      /\ IF Streaming THEN block = TotalBlocks ELSE target > Len(FileSizes)
  BY DEF Succeed, Stop, diskVars
<1>2. TypeOK' /\ PhaseInv' /\ FilesInv' /\ PatchInv' /\ StreamInv'
  BY <1>1, WritingFacts, JobSame DEF TypeOK, PhaseInv, FilesInv, PatchInv, StreamInv
<1>3. OverInv'
  <2> SUFFICES ASSUME FaultsNoticed, FilesBeginWithBlocks
               PROVE  Bytes \subseteq good /\ \A f \in FileIds : files[f] = "size"
    BY <1>1, WritingFacts, JobSame DEF OverInv, SuccessMeansAllRestored
  <2>1. CASE Streaming
    <3>1. /\ target = 0 => block = 0
          /\ target \in 1 .. Len(FileSizes) - 1 => block * BlockSize <= FileEnd(target)
          /\ \A f \in FileIds : f <= target => files[f] = "size"
          /\ \A p \in Bytes : p \div BlockSize < block => p \in good
      BY <1>1, <2>1 DEF IInv, StreamInv
    <3>2. \A p \in Bytes : p \in Nat /\ p \div BlockSize < block
      BY <1>1, <2>1, WritingFacts, BlockOfByte
    <3> DEFINE n == Len(FileSizes)
    <3>3. n \in FileIds /\ FileStart(n) \in Bytes /\ FileStart(n) \in Nat
      <4>1. n \in FileIds /\ FileSizes[n] > 0
        BY <2>1, WritingFacts, SizesType DEF FilesBeginWithBlocks
      <4>2. FileStart(n) \in BytesOf(n)
        BY <4>1, WritingFacts, FirstByte
      <4> QED
        BY <4>1, <4>2, WritingFacts, StartType
    <3>4. FileStart(n) \div BlockSize < block /\ block \in Nat /\ BlockSize \in Nat \ {0}
      BY <3>2, <3>3, WritingFacts, SizesType
    <3>5. FileStart(n) < block * BlockSize
      BY <3>3, <3>4, QuotientBelow
    <3>6. block # 0
      BY <3>3, <3>4, WritingFacts
    <3>7. target \in FileIds
      BY <2>1, <3>1, <3>6, WritingFacts DEF PhaseInv
    <3>8. target = n
      <4> SUFFICES ASSUME target # n PROVE FALSE
        OBVIOUS
      <4>1. target < n /\ target \in 1 .. n - 1
        BY <3>7, WritingFacts DEF FileIds
      <4>2. FileEnd(target) <= FileStart(n)
        BY <3>3, <3>7, <4>1, WritingFacts, LaterBehind
      <4>3. block * BlockSize <= FileEnd(target) /\ FileEnd(target) \in Nat
            /\ block * BlockSize \in Nat
        BY <3>1, <3>4, <3>7, <4>1, WritingFacts, StartType
      <4> QED
        BY <3>3, <3>5, <4>2, <4>3
    <3>9. \A f \in FileIds : f <= target
      BY <3>8 DEF FileIds
    <3> QED
      BY <3>1, <3>2, <3>9
  <2>2. CASE ~Streaming
    <3>1. Faults = {}
      BY <2>2 DEF FaultsNoticed
    <3>2. \A f \in FileIds : f < target
      BY <1>1, <2>2, WritingFacts DEF FileIds
    <3>3. \A f \in FileIds : Restored(f)
      BY <1>1, <2>2, <3>1, <3>2, WritingFacts DEF PatchInv
    <3> QED
      BY <3>3, WritingFacts, FilesCover DEF Restored
  <2> QED
    BY <2>1, <2>2
<1> QED
  BY <1>2, <1>3 DEF IInv

\* No step breaks the invariant.
THEOREM StepInv == IInv /\ [Next]_vars => IInv'
<1> SUFFICES ASSUME IInv, [Next]_vars PROVE IInv'
  OBVIOUS
<1>1. CASE NextTargetFails
  BY <1>1, StopStep DEF NextTargetFails, Stop, diskVars
<1>2. CASE WriteFileFails
  BY <1>2, StopStep DEF WriteFileFails, Stop, diskVars
<1>3. CASE Ended \/ UNCHANGED vars
  BY <1>3, StopStep DEF Ended, vars, diskVars
<1> QED
  BY <1>1, <1>2, <1>3, AnalyseStep, StartAgainStep, SucceedStep, NextTargetStep,
     StreamBlockStep, PatchBlockStep, LeaveFileStep, EmptyFileStep, WriteFileStep DEF Next

\* The invariant holds for every manifest, either way of writing, and any failures
\* and restarts.
THEOREM Invariance == Spec => []IInv
BY InitInv, StepInv, PTL DEF Spec

-----------------------------------------------------------------------------
(* The properties                                                          *)

\* The success a repair of several files prints (repair.cpp:1270) is true, for
\* every manifest, from whatever a run before left on disk: every file is there,
\* has its size and holds its data.  With --max-mem it takes that every file
\* begins with a block and has bytes.
THEOREM SuccessIsTrue == Spec => [](FilesBeginWithBlocks => SuccessMeansAllRestored)
<1>1. IInv => (FilesBeginWithBlocks => SuccessMeansAllRestored)
  BY DEF IInv, OverInv
<1> QED
  BY <1>1, Invariance, PTL

\* No step of any run takes a right byte from a file that had its size, whatever
\* fails and whenever the run dies (repair.cpp:1060, 1180): only a file of another
\* size is emptied, and emptying it leaves the files beside it alone.
THEOREM RightBytesKept == Spec => RightBytesStay
<1>1. IInv /\ [Next]_vars =>
        [\A f \in FileIds : files[f] = "size" => good \cap BytesOf(f) \subseteq good']_good
  <2> SUFFICES ASSUME IInv, [Next]_vars, NEW f \in FileIds, files[f] = "size",
                      NEW p \in good \cap BytesOf(f)
               PROVE  p \in good'
    OBVIOUS
  <2>1. CASE EmptyFile
    <3>1. target \in FileIds /\ good' = good \ BytesOf(target) /\ files[target] # "size"
      BY <2>1, WritingFacts DEF EmptyFile, Writing, FilesInv
    <3>2. f # target
      BY <3>1
    <3>3. p \notin BytesOf(target)
      BY <3>1, <3>2, WritingFacts, FilesDisjoint
    <3> QED
      BY <3>1, <3>3
  <2>2. CASE ~EmptyFile
    BY <2>2 DEF Next, Analyse, Succeed, NextTarget, NextTargetFails, StreamBlock, PatchBlock,
       LeaveFile, WriteFile, WriteFileFails, StartAgain, Ended, vars, diskVars
  <2> QED
    BY <2>1, <2>2
<1> QED
  BY <1>1, Invariance, PTL DEF Spec, RightBytesStay

\* Reading a block depends on the manifest alone.
LEMMA ReadingSame ==
  ASSUME UNCHANGED job
  PROVE  BlocksInTwoFiles' = BlocksInTwoFiles /\ Bytes' = Bytes
<1>1. /\ FileIds' = FileIds /\ Bytes' = Bytes /\ Blocks' = Blocks /\ BlockSize' = BlockSize
      /\ \A f : BytesOf(f)' = BytesOf(f)
  BY JobSame
<1>2. \A g : BlockBytes(g)' = BlockBytes(g)
  BY <1>1 DEF BlockBytes
<1>3. \A p : FileAt(p)' = FileAt(p)
  BY <1>1 DEF FileAt
<1>4. \A g : ReadFrom(g)' = ReadFrom(g)
  BY <1>1, <1>3 DEF ReadFrom
<1> QED
  BY <1>1, <1>2, <1>4 DEF BlocksInTwoFiles

\* Files that are intact are recognised, for every manifest of which no block
\* touches three files: the first run on them writes nothing (repair.cpp:586-595).
THEOREM IntactFilesRecognised == Spec => [](BlocksInTwoFiles => IntactIsRecognised)
<1> DEFINE I == BlocksInTwoFiles => IntactIsRecognised
<1>1. Init => I
  BY DEF Init, FreshRun, IntactIsRecognised
<1>2. IInv /\ I /\ [Next]_vars => I'
  <2> SUFFICES ASSUME IInv, I, [Next]_vars, BlocksInTwoFiles PROVE IntactIsRecognised'
    <3>1. [Next]_vars => UNCHANGED job
      BY DEF Next, Analyse, Succeed, NextTarget, NextTargetFails, StreamBlock, PatchBlock,
         LeaveFile, EmptyFile, WriteFile, WriteFileFails, StartAgain, Ended, vars
    <3> QED
      BY <3>1, ReadingSame
  <2>0. IntactIsRecognised
    OBVIOUS
  <2>1. CASE Analyse
    <3>1. UNCHANGED <<job, good>>
      BY <2>1 DEF Analyse, diskVars
    <3>2. SUFFICES ASSUME good = Bytes PROVE pc' # "write"
      BY <3>1, ReadingSame DEF IntactIsRecognised
    <3>3. \A g \in Blocks : Healthy(g)
      BY <3>2 DEF Healthy, BlocksInTwoFiles, BlockBytes
    <3> QED
      BY <2>1, <3>3 DEF Analyse, Stop
  <2>2. CASE NextTarget
    <3>1. UNCHANGED <<job, good, runs, pc, block>> /\ pc = "write" /\ Streaming
      BY <2>2 DEF NextTarget
    <3>2. SUFFICES ASSUME good = Bytes, runs = 1, block = 0 PROVE FALSE
      BY <3>1, WritingFacts, ReadingSame DEF IntactIsRecognised, TypeOK
    <3>3. target > 1
      BY <2>0, <3>1, <3>2 DEF IntactIsRecognised
    <3>4. target \in FileIds /\ BytesOf(target) # {} /\ block * BlockSize >= FileEnd(target)
      BY <2>2, <3>1, <3>3, WritingFacts DEF NextTarget, TargetBehind, PhaseInv
    <3>5. PICK p \in BytesOf(target) : TRUE
      BY <3>4
    <3>6. p \in Nat /\ p < FileEnd(target) /\ FileEnd(target) \in Nat
      BY <3>4, <3>5, WritingFacts, StartType
    <3>7. block * BlockSize = 0
      BY <3>2, WritingFacts, SizesType
    <3> QED
      BY <3>4, <3>6, <3>7
  <2>3. CASE StreamBlock \/ PatchBlock
    <3>1. \E g \in Nat : block' = g + 1
      BY <2>3, WritingFacts, BlockOfByte DEF StreamBlock, PatchBlock, Unpatched, TypeOK
    <3> QED
      BY <3>1 DEF IntactIsRecognised
  <2>4. CASE LeaveFile \/ WriteFile
    <3>1. target \in FileIds /\ target' = target + 1
      BY <2>4, WritingFacts DEF LeaveFile, Writing, WriteFile, PhaseInv
    <3>2. target' > 1
      BY <3>1, WritingFacts
    <3> QED
      BY <3>2 DEF IntactIsRecognised
  <2>5. CASE ~(Analyse \/ NextTarget \/ StreamBlock \/ PatchBlock \/ LeaveFile \/ WriteFile)
    <3>1. pc' # "write" \/ UNCHANGED vars
      BY <2>5 DEF Next, Succeed, NextTargetFails, EmptyFile, WriteFileFails, StartAgain,
         Ended, Stop
    <3>2. UNCHANGED vars => IntactIsRecognised'
      BY <2>0, ReadingSame DEF vars, diskVars, IntactIsRecognised
    <3> QED
      BY <3>1, <3>2 DEF IntactIsRecognised
  <2> QED
    BY <2>1, <2>2, <2>3, <2>4, <2>5
<1> QED
  BY <1>1, <1>2, Invariance, PTL DEF Spec
=============================================================================
