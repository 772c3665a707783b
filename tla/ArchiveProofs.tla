---------------------------- MODULE ArchiveProofs ----------------------------
(***************************************************************************)
(* Proofs about ArchiveWriter, for every archive, batch size and schedule: *)
(* errors leave nothing behind, and the promise of ArchiveSpec is kept.    *)
(* Then proofs about ArchiveFile, for every damage: what is believed of an *)
(* archive, and what is found in it, was written.                          *)
(***************************************************************************)
EXTENDS ArchiveFile, InductionLemmas, FiniteSetTheorems, TLAPS

\* The faults after which the code cleans up.  Without stripes it removes neither
\* the temporary file when a read fails (create.cpp:723-732, 807-816), nor the archive
\* when the header cannot be written (create.cpp:293).
FaultsCleanedUp ==
  \A j \in Jobs : ~j.striped => "read" \notin j.faults /\ "disk" \notin j.faults

\* What was there before CreateParity opened parityPath.
Untouched ==
  exists = OldArchive /\ archive = IF OldArchive THEN <<Old>> ELSE <<>>

\* Nothing is written before parityPath is open, ...
UntouchedInv ==
  pc \in {"source", "hash", "open"} => Untouched /\ buffer = <<>> /\ ~badbit

\* ... and no temporary file exists before the sources are joined.
TempInv == pc = "source" => ~tempFile

\* A stream that has failed holds nothing.  It fails with stripes only.
StreamInv == badbit => buffer = <<>> /\ Striped

\* A run that has reported an error has ended, leaves no file, and its stream
\* will not write again.
ErrorInv ==
  report = "error" =>
    /\ pc = "ended" /\ buffer = <<>>
    /\ ~tempFile /\ (~exists \/ Untouched)

IInv ==
  /\ job \in Jobs
  /\ UntouchedInv /\ TempInv /\ StreamInv /\ ErrorInv

invVars == <<job, pc, diskVars, streamVars, report>>

\* Steps of the threads, and of the main thread between them, touch no file.
LEMMA QuietSteps == IInv /\ UNCHANGED invVars => IInv'
BY DEF IInv, UntouchedInv, TempInv, StreamInv, ErrorInv, Untouched, invVars,
       diskVars, streamVars, OldArchive, Striped

\* Before anything is opened.
THEOREM InitInv == Init => IInv
BY DEF Init, IInv, UntouchedInv, TempInv, StreamInv, ErrorInv, Untouched, OldArchive

\* A process that dies reports nothing.
LEMMA DyingSteps == IInv /\ Dies => IInv'
BY DEF IInv, UntouchedInv, TempInv, StreamInv, ErrorInv, Untouched, Dies, Return,
       diskVars, OldArchive, Striped

\* The steps before the batches: every error among them comes before parityPath is
\* open, or removes it.
LEMMA OpeningSteps ==
  ASSUME FaultsCleanedUp, IInv, OpenSource \/ HashSource \/ OpenArchive \/ TellHeaderEnd
  PROVE  IInv'
<1> USE DEF IInv, UntouchedInv, TempInv, StreamInv, ErrorInv, Untouched, Return,
            diskVars, streamVars, encodeVars, OldArchive, Striped
<1>1. CASE OpenSource
  BY <1>1 DEF OpenSource
<1>2. CASE HashSource
  BY <1>2 DEF HashSource, FaultsCleanedUp, Faults
<1>3. CASE OpenArchive
  BY <1>3 DEF OpenArchive, Write
<1>4. CASE TellHeaderEnd
  BY <1>4 DEF TellHeaderEnd, RemoveArchive
<1> QED
  BY <1>1, <1>2, <1>3, <1>4

\* The stream writes when it likes, but nothing is left for it after an error.
LEMMA FlushStep == FaultsCleanedUp /\ IInv /\ Flush => IInv'
BY DEF FaultsCleanedUp, IInv, UntouchedInv, TempInv, StreamInv, ErrorInv, Untouched,
       Flush, OldArchive, Striped, Faults

\* The steps of the batches and the end.
LEMMA WritingSteps ==
  ASSUME IInv,
         \/ WriteTracks \/ WriteStripe \/ StripesWritten
         \/ Abandon \/ WriteMirror \/ Close \/ Finish
  PROVE  IInv'
<1> USE DEF IInv, UntouchedInv, TempInv, StreamInv, ErrorInv, Untouched, Return,
            diskVars, streamVars, OldArchive, Striped, Write, EndBatch
<1>1. CASE WriteTracks
  BY <1>1 DEF WriteTracks
<1>2. CASE WriteStripe
  BY <1>2 DEF WriteStripe
<1>3. CASE StripesWritten
  BY <1>3 DEF StripesWritten
<1>4. CASE Abandon
  BY <1>4 DEF Abandon, BatchesOver, RemoveArchive
<1>5. CASE WriteMirror
  BY <1>5 DEF WriteMirror, BatchesOver
<1>6. CASE Close
  BY <1>6 DEF Close
<1>7. CASE Finish
  BY <1>7 DEF Finish
<1> QED
  BY <1>1, <1>2, <1>3, <1>4, <1>5, <1>6, <1>7

\* No step breaks the invariant.
THEOREM StepInv == FaultsCleanedUp /\ IInv /\ [Next]_vars => IInv'
<1> SUFFICES ASSUME FaultsCleanedUp, IInv, [Next]_vars PROVE IInv'
  OBVIOUS
<1>1. CASE OpenSource \/ HashSource \/ OpenArchive \/ TellHeaderEnd
  BY <1>1, OpeningSteps
<1>2. CASE Flush
  BY <1>2, FlushStep
<1>3. CASE WriteTracks \/ WriteStripe \/ StripesWritten \/ Abandon \/ WriteMirror
           \/ Close \/ Finish
  BY <1>3, WritingSteps
<1>4. CASE ReadThrows \/ JoinThrows \/ Crash
  BY <1>4, DyingSteps DEF ReadThrows, JoinThrows, Crash
<1>5. CASE StartBatch
  <2>1. pc' = "join" /\ pc = "batch" /\ UNCHANGED <<job, diskVars, streamVars, report>>
    BY <1>5 DEF StartBatch, AtBatch
  <2> QED
    BY <2>1 DEF IInv, UntouchedInv, TempInv, StreamInv, ErrorInv, Untouched,
                diskVars, streamVars, OldArchive, Striped
<1>6. CASE ReadFails
  BY <1>6, QuietSteps DEF ReadFails, invVars
<1>7. ASSUME NEW u \in Units, Thread(u) PROVE IInv'
  <2>1. CASE EncoderReadsNothing(u)
    BY <2>1, DyingSteps DEF EncoderReadsNothing
  <2>2. CASE Encode(u) \/ EncoderRefused(u) \/ EncoderThrows(u)
    BY <2>2, QuietSteps DEF Encode, EncoderRefused, EncoderThrows, ThreadVars, invVars
  <2> QED
    BY <1>7, <2>1, <2>2 DEF Thread
<1>8. CASE Ended \/ UNCHANGED vars
  BY <1>8, QuietSteps DEF Ended, vars, invVars
<1> QED
  BY <1>1, <1>2, <1>3, <1>4, <1>5, <1>6, <1>7, <1>8 DEF Next, Main

\* The invariant holds for every archive, if the faults are among those the code
\* cleans up after.
THEOREM Invariance == FaultsCleanedUp => (Spec => []IInv)
<1> SUFFICES ASSUME FaultsCleanedUp PROVE Spec => []IInv
  OBVIOUS
<1>1. IInv /\ [Next]_vars => IInv'
  BY StepInv
<1> QED
  BY <1>1, InitInv, PTL DEF Spec

\* A run that reports an error has left nothing of its own behind, however many
\* threads were running when it failed (create.cpp:285-287, 306-311, 909-914,
\* 964-969), if the faults are among those the code cleans up after.
THEOREM ErrorsLeaveNothing == FaultsCleanedUp => (Spec => []NoLeftovers)
<1> SUFFICES ASSUME FaultsCleanedUp PROVE Spec => []NoLeftovers
  OBVIOUS
<1>1. IInv => NoLeftovers
  BY DEF IInv, ErrorInv, Untouched, NoLeftovers
<1>2. Spec => []IInv
  BY Invariance
<1> QED
  BY <1>1, <1>2, PTL
-----------------------------------------------------------------------------
(* What an archive is made of                                                *)

\* The packets, and what else an archive holds.
Packets == {"packet"} \X Nat \X Nat \X Nat
Parts == {Header, Footer} \cup Packets

\* The parts of an archive, and what is left of the old one, are told apart.
LEMMA PartsDiffer ==
  /\ Header # Footer /\ Header # Old /\ Footer # Old
  /\ Header \notin Packets /\ Footer \notin Packets /\ Old \notin Packets
  /\ Old \notin Parts
<1>1. \A p \in Packets : Len(p) = 4
  BY DEF Packets
<1>2. Len(Header) = 1 /\ Len(Footer) = 1 /\ Len(Old) = 1
  BY DEF Header, Footer, Old
<1>3. Header[1] = "header" /\ Footer[1] = "footer" /\ Old[1] = "old"
  BY DEF Header, Footer, Old
<1>4. Header # Footer /\ Header # Old /\ Footer # Old
  BY <1>3
<1> QED
  BY <1>1, <1>2, <1>4 DEF Parts

\* The number of units.
Count == Len(PacketCounts)

\* The archive up to unit k: what is on the disk and in the stream after it.
Body(k) == <<Header>> \o FlattenSeq([u \in 1 .. k |-> PacketsOf(u)])

\* What the assumption on the jobs says of the one that runs.
LEMMA JobFacts ==
  ASSUME job \in Jobs
  PROVE  /\ Count \in Nat \ {0} /\ Units = 1 .. Count /\ BatchSize \in Nat \ {0}
         /\ Striped \in BOOLEAN
         /\ \A u \in Units : /\ PacketCounts[u] \in Seq(Nat)
                             /\ Len(PacketCounts[u]) \in Nat \ {0}
                             /\ DOMAIN PacketCounts[u] = 1 .. Len(PacketCounts[u])
<1>1. job \in JobType /\ Len(job.packetCounts) > 0
      /\ \A u \in DOMAIN job.packetCounts : Len(job.packetCounts[u]) > 0
  BY WriterAssumption
<1>2. job.packetCounts \in Seq(Seq(Nat)) /\ job.batchSize \in Nat \ {0} /\ job.striped \in BOOLEAN
  BY <1>1 DEF JobType
<1>3. Len(job.packetCounts) \in Nat \ {0} /\ DOMAIN job.packetCounts = 1 .. Len(job.packetCounts)
  BY <1>1, <1>2
<1>4. \A u \in DOMAIN job.packetCounts : job.packetCounts[u] \in Seq(Nat)
  BY <1>2, <1>3
<1> QED
  BY <1>1, <1>2, <1>3, <1>4 DEF Count, Units, PacketCounts, BatchSize, Striped

\* What an encoder gives are packets, ...
LEMMA EncoderPackets ==
  ASSUME job \in Jobs, NEW u \in Units, NEW e \in 1 .. Len(PacketCounts[u])
  PROVE  PacketsOfEncoder(u, e) \in Seq(Packets)
<1>1. PacketCounts[u][e] \in Nat /\ u \in Nat /\ e \in Nat
  BY JobFacts
<1>2. \A i \in 1 .. PacketCounts[u][e] : Packet(u, e, i) \in Packets
  BY <1>1 DEF Packet, Packets
<1> QED
  BY <1>1, <1>2 DEF PacketsOfEncoder

\* ... what a unit gives are packets, ...
LEMMA UnitPackets ==
  ASSUME job \in Jobs, NEW u \in Units
  PROVE  PacketsOf(u) \in Seq(Packets)
<1> DEFINE s == [e \in DOMAIN PacketCounts[u] |-> PacketsOfEncoder(u, e)]
<1>1. s \in Seq(Seq(Packets))
  <2>1. DOMAIN PacketCounts[u] = 1 .. Len(PacketCounts[u]) /\ Len(PacketCounts[u]) \in Nat
    BY JobFacts
  <2>2. \A e \in 1 .. Len(PacketCounts[u]) : PacketsOfEncoder(u, e) \in Seq(Packets)
    BY EncoderPackets
  <2> QED
    BY <2>1, <2>2
<1> HIDE DEF s
<1>2. FlattenSeq(s) \in Seq(Packets)
  BY <1>1, FlattenType
<1> QED
  BY <1>2 DEF s, PacketsOf

\* ... and so do the units in their order.
LEMMA UnitsPackets ==
  ASSUME job \in Jobs, NEW k \in 0 .. Count
  PROVE  [u \in 1 .. k |-> PacketsOf(u)] \in Seq(Seq(Packets))
<1>1. k \in Nat /\ \A u \in 1 .. k : u \in Units
  BY JobFacts
<1> QED
  BY <1>1, UnitPackets

\* The body of an archive holds headers and packets.
LEMMA BodyType ==
  ASSUME job \in Jobs, NEW k \in 0 .. Count
  PROVE  /\ Body(k) \in Seq({Header} \cup Packets)
         /\ Body(k) \in Seq(Parts)
<1> DEFINE f == FlattenSeq([u \in 1 .. k |-> PacketsOf(u)])
<1>1. f \in Seq(Packets)
  BY UnitsPackets, FlattenType
<1> HIDE DEF f
<1>2. f \in Seq({Header} \cup Packets) /\ f \in Seq(Parts)
  BY <1>1 DEF Parts
<1>3. <<Header>> \in Seq({Header} \cup Packets) /\ <<Header>> \in Seq(Parts)
  BY DEF Parts
<1> QED
  BY <1>2, <1>3, ConcatProperties DEF Body, f

\* An archive is its body, the mirrored header and the footer.
LEMMA WholeFacts ==
  ASSUME job \in Jobs
  PROVE  /\ WholeArchive = Body(Count) \o <<Header, Footer>>
         /\ WholeArchive \in Seq(Parts)
         /\ Len(WholeArchive) \in Nat /\ Len(WholeArchive) > 2
         /\ WholeArchive[Len(WholeArchive)] = Footer
<1>1. WholeArchive = Body(Count) \o <<Header, Footer>>
  BY JobFacts DEF WholeArchive, Body
<1>2. Body(Count) \in Seq(Parts) /\ Count \in Nat
  BY JobFacts, BodyType
<1>3. <<Header, Footer>> \in Seq(Parts)
  BY DEF Parts
<1>4. Len(Body(Count)) > 0
  <2> DEFINE f == FlattenSeq([u \in 1 .. Count |-> PacketsOf(u)])
  <2>1. f \in Seq(Packets)
    BY <1>2, UnitsPackets, FlattenType
  <2> HIDE DEF f
  <2>2. Len(<<Header>> \o f) = 1 + Len(f) /\ Len(f) \in Nat
    BY <2>1
  <2> QED
    BY <2>2 DEF Body, f
<1> DEFINE b == Body(Count)
<1> HIDE DEF b
<1>5. b \o <<Header, Footer>> \in Seq(Parts)
      /\ Len(b \o <<Header, Footer>>) = Len(b) + 2
      /\ (b \o <<Header, Footer>>)[Len(b) + 2] = Footer
  BY <1>2, <1>3 DEF b
<1>6. Len(b) \in Nat /\ Len(b) > 0
  BY <1>2, <1>4 DEF b
<1> QED
  BY <1>1, <1>5, <1>6 DEF b

\* The units k + 1 .. k + m written after the first k.
LEMMA BodyGrows ==
  ASSUME job \in Jobs, NEW k \in Nat, NEW m \in Nat, k + m <= Count
  PROVE  Body(k) \o FlattenSeq([i \in 1 .. m |-> PacketsOf(k + i)]) = Body(k + m)
<1> DEFINE s == [u \in 1 .. k |-> PacketsOf(u)]
           t == [i \in 1 .. m |-> PacketsOf(k + i)]
           r == [u \in 1 .. k + m |-> PacketsOf(u)]
<1>1. s \in Seq(Seq(Packets)) /\ r \in Seq(Seq(Packets))
  BY UnitsPackets, JobFacts
<1>2. t \in Seq(Seq(Packets))
  <2>1. \A i \in 1 .. m : k + i \in Units
    BY JobFacts
  <2> QED
    BY <2>1, UnitPackets
<1>3. r = s \o t
  <2>1. Len(s) = k /\ Len(t) = m /\ Len(r) = k + m
    OBVIOUS
  <2>2. \A i \in 1 .. k + m : r[i] = IF i <= k THEN s[i] ELSE t[i - k]
    OBVIOUS
  <2> DEFINE c == s \o t
  <2> HIDE DEF s, t, r
  <2>3. /\ c \in Seq(Seq(Packets)) /\ Len(c) = k + m
        /\ \A i \in 1 .. k + m : c[i] = IF i <= k THEN s[i] ELSE t[i - k]
    BY <1>1, <1>2, <2>1, ConcatProperties
  <2> HIDE DEF c
  <2>4. Len(r) = Len(c) /\ \A i \in 1 .. Len(r) : r[i] = c[i]
    BY <2>1, <2>2, <2>3
  <2>5. r = c
    BY <1>1, <2>3, <2>4, SeqEqual
  <2> QED
    BY <2>5 DEF c
<1> HIDE DEF s, t, r
<1>4. FlattenSeq(r) = FlattenSeq(s) \o FlattenSeq(t)
  BY <1>1, <1>2, <1>3, FlattenConcat
<1>5. FlattenSeq(s) \in Seq(Packets) /\ FlattenSeq(t) \in Seq(Packets)
  BY <1>1, <1>2, FlattenType
<1>6. FlattenSeq(s) \in Seq(Parts) /\ FlattenSeq(t) \in Seq(Parts) /\ <<Header>> \in Seq(Parts)
  BY <1>5 DEF Parts
<1>7. (<<Header>> \o FlattenSeq(s)) \o FlattenSeq(t) = <<Header>> \o (FlattenSeq(s) \o FlattenSeq(t))
  BY <1>6, ConcatAssociative
<1> QED
  BY <1>4, <1>7 DEF Body, s, t, r
-----------------------------------------------------------------------------
(* The invariant                                                           *)

\* What an archive that lacks its footer is made of.
BodyParts == {Header} \cup Packets

\* What has no footer is no whole archive.
LEMMA NotWhole ==
  ASSUME job \in Jobs, NEW s \in Seq(BodyParts)
  PROVE  s # WholeArchive
<1>1. Footer \notin BodyParts
  BY PartsDiffer DEF BodyParts
<1> SUFFICES ASSUME s = WholeArchive PROVE FALSE
  OBVIOUS
<1>2. s[Len(s)] = Footer /\ Len(s) \in Nat /\ Len(s) > 2
  BY WholeFacts
<1> QED
  BY <1>1, <1>2

\* No archive that is written is the old one.
LEMMA NotOld ==
  ASSUME NEW s \in Seq(Parts)
  PROVE  s # <<Old>>
<1> SUFFICES ASSUME s = <<Old>> PROVE FALSE
  OBVIOUS
<1>1. Len(s) = 1 /\ s[1] = Old
  OBVIOUS
<1>2. s[1] \in Parts
  BY <1>1
<1> QED
  BY <1>1, <1>2, PartsDiffer

WriterPcs == {"tell", "batch", "join", "close", "cleanup"}

WriterTypeOK ==
  /\ job \in Jobs
  /\ pc \in {"source", "hash", "open", "ended"} \cup WriterPcs
  /\ report \in {"running", "done", "error", "died"}
  /\ exists \in BOOLEAN /\ badbit \in BOOLEAN /\ encodeFailed \in BOOLEAN
  /\ buffer \in Seq(Parts)
  /\ batchStart \in Nat \ {0} /\ collected \in Nat
  /\ worker \in [Units -> {"idle", "encoding", "done", "thrown"}]
  /\ result \in [Units -> Seq(Seq(Packets))]

\* Before the archive is open nothing has happened to it; after the end nothing
\* will: the stream is empty.
EndsInv ==
  /\ pc = "ended" <=> report # "running"
  /\ pc \in {"source", "hash", "open"} => Untouched /\ ~badbit
  /\ pc \in {"source", "hash", "open", "tell"} => ~encodeFailed /\ batchStart = 1
  /\ pc \notin WriterPcs \ {"cleanup"} => buffer = <<>>
  /\ pc \in WriterPcs => exists /\ archive \in Seq(Parts)
  /\ badbit => buffer = <<>>

\* The footer is written after everything else, and never by a run that has
\* failed; a stream that has failed has lost a part.
FooterInv ==
  /\ pc \in {"tell", "batch", "join"} =>
       archive \in Seq(BodyParts) /\ buffer \in Seq(BodyParts)
  /\ pc \in {"tell", "close", "cleanup"} => ~encodeFailed
  /\ pc \in WriterPcs /\ badbit => archive # WholeArchive

\* Only the threads of the batch are running, and those of the stripes that have
\* been written are not.
ThreadsInv ==
  /\ pc = "join" => batchStart \in Units
  /\ \A u \in Units : worker[u] = "encoding" =>
       \/ report = "died"
       \/ pc = "join" /\ u \in Batch /\ (Striped => batchStart + collected <= u)

\* A thread has the packets of its encoders, in order; all of them when it is done.
ResultInv ==
  \A u \in Units :
    LET n == Len(result[u])
    IN  /\ n <= Len(PacketCounts[u])
        /\ \A e \in 1 .. n : result[u][e] = PacketsOfEncoder(u, e)
        /\ worker[u] = "encoding" => n < Len(PacketCounts[u])
        /\ worker[u] = "done" /\ ~encodeFailed => n = Len(PacketCounts[u])

\* The units that have been written.
WrittenUnits ==
  IF pc = "join" /\ Striped THEN batchStart - 1 + collected
  ELSE IF batchStart - 1 <= Count THEN batchStart - 1 ELSE Count

\* Disk and stream together are the archive so far.
OrderInv ==
  pc \in WriterPcs /\ ~badbit /\ ~encodeFailed =>
    /\ WrittenUnits <= Count
    /\ archive \o buffer = IF pc \in {"close", "cleanup"} THEN WholeArchive ELSE Body(WrittenUnits)

\* What has been announced is there.
DoneInv == report = "done" => exists /\ (badbit \/ archive = WholeArchive)

WriterInv ==
  /\ WriterTypeOK /\ EndsInv /\ FooterInv /\ ThreadsInv /\ ResultInv /\ OrderInv /\ DoneInv
-----------------------------------------------------------------------------
(* Steps                                                                   *)

\* Nothing that is made of the job changes.
LEMMA JobSame ==
  ASSUME job' = job
  PROVE  /\ Units' = Units /\ Count' = Count /\ WholeArchive' = WholeArchive
         /\ Striped' = Striped /\ BatchSize' = BatchSize /\ PacketCounts' = PacketCounts
         /\ OldArchive' = OldArchive
         /\ \A k : Body(k)' = Body(k)
         /\ \A u, e : PacketsOfEncoder(u, e)' = PacketsOfEncoder(u, e)
BY DEF Units, Count, WholeArchive, Striped, BatchSize, PacketCounts, OldArchive, Body,
       PacketsOfEncoder, PacketsOf

\* Before the first unit there is the header.
LEMMA BodyZero == Body(0) = <<Header>>
<1>1. [u \in 1 .. 0 |-> PacketsOf(u)] = <<>>
  OBVIOUS
<1>2. Body(0) = <<Header>> \o <<>>
  BY <1>1, FlattenEmpty DEF Body
<1> QED
  BY <1>2

\* The batch is an interval of units.
LEMMA BatchFacts ==
  ASSUME job \in Jobs, batchStart \in Units
  PROVE  \E last \in Units :
           /\ last = IF batchStart + BatchSize - 1 <= Count THEN batchStart + BatchSize - 1
                     ELSE Count
           /\ batchStart <= last
           /\ Batch = batchStart .. last
           /\ Cardinality(Batch) = last - batchStart + 1
<1>1. Units = 1 .. Count /\ Count \in Nat /\ BatchSize \in Nat \ {0} /\ batchStart \in Int
  BY JobFacts
<1> DEFINE last == IF batchStart + BatchSize - 1 <= Count THEN batchStart + BatchSize - 1
                   ELSE Count
<1>2. last \in Units /\ batchStart <= last /\ last \in Int
  BY <1>1
<1>3. Batch = batchStart .. last
  BY <1>1, <1>2 DEF Batch
<1> HIDE DEF last
<1>4. Cardinality(batchStart .. last) = last - batchStart + 1
  BY <1>1, <1>2, FS_Interval
<1> QED
  BY <1>2, <1>3, <1>4 DEF last

\* A thread that is done, of a batch that has not failed, has the packets of its unit.
LEMMA DoneUnit ==
  ASSUME WriterInv, NEW u \in Units, worker[u] = "done", ~encodeFailed
  PROVE  FlattenSeq(result[u]) = PacketsOf(u)
<1> DEFINE s == result[u]
           t == [e \in DOMAIN PacketCounts[u] |-> PacketsOfEncoder(u, e)]
           n == Len(PacketCounts[u])
<1>1. n \in Nat /\ DOMAIN PacketCounts[u] = 1 .. n
  BY JobFacts DEF WriterInv, WriterTypeOK
<1>2. s \in Seq(Seq(Packets)) /\ Len(s) = n /\ \A e \in 1 .. n : s[e] = PacketsOfEncoder(u, e)
  BY DEF WriterInv, WriterTypeOK, ResultInv
<1>3. \A e \in 1 .. n : PacketsOfEncoder(u, e) \in Seq(Packets)
  BY EncoderPackets DEF WriterInv, WriterTypeOK
<1>4. t \in Seq(Seq(Packets)) /\ Len(t) = n /\ \A e \in 1 .. n : t[e] = PacketsOfEncoder(u, e)
  BY <1>1, <1>3
<1> HIDE DEF s, t, n
<1>5. s = t
  BY <1>2, <1>4, SeqEqual
<1> QED
  BY <1>5 DEF s, t, PacketsOf

\* Before anything is opened.
THEOREM WriterInit == Init => WriterInv
<1> SUFFICES ASSUME Init PROVE WriterInv
  OBVIOUS
<1>1. job \in Jobs /\ Units = 1 .. Count /\ Count \in Nat
  BY JobFacts DEF Init
<1>2. WriterTypeOK
  <2>1. OldArchive \in BOOLEAN
    BY <1>1, WriterAssumption DEF OldArchive, JobType
  <2>2. <<>> \in Seq(Parts) /\ <<>> \in Seq(Seq(Packets))
    OBVIOUS
  <2>3. /\ worker \in [Units -> {"idle", "encoding", "done", "thrown"}]
        /\ result \in [Units -> Seq(Seq(Packets))]
    BY <2>2 DEF Init
  <2> QED
    <3>1. pc = "source" /\ report = "running" /\ batchStart = 1 /\ collected = 0
      BY DEF Init
    <3>2. exists \in BOOLEAN /\ badbit \in BOOLEAN /\ encodeFailed \in BOOLEAN
      BY <2>1 DEF Init
    <3>3. buffer \in Seq(Parts)
      BY <2>2, Zenon DEF Init
    <3> QED
      BY <1>1, <2>3, <3>1, <3>2, <3>3 DEF WriterTypeOK
<1>3. EndsInv /\ FooterInv /\ ThreadsInv /\ OrderInv /\ DoneInv
  BY DEF Init, EndsInv, Untouched, FooterInv, ThreadsInv, OrderInv, WriterPcs, DoneInv
<1>4. ResultInv
  <2> SUFFICES ASSUME NEW u \in Units
               PROVE  /\ Len(result[u]) = 0 /\ worker[u] = "idle"
                      /\ Len(PacketCounts[u]) \in Nat
    BY DEF ResultInv
  <2> QED
    BY <1>1, JobFacts DEF Init
<1> QED
  BY <1>2, <1>3, <1>4 DEF WriterInv

\* The main thread, when no thread runs beside it.
LEMMA ThreadsIdle ==
  ASSUME WriterInv, UNCHANGED <<job, encodeVars>>, pc \notin {"join", "ended"}, pc' # "join"
  PROVE  ResultInv' /\ ThreadsInv'
<1>1. \A u \in Units : worker[u] # "encoding"
  BY DEF WriterInv, ThreadsInv, EndsInv
<1>2. UNCHANGED <<worker, result, encodeFailed, batchStart, collected>>
  BY DEF encodeVars
<1>3. ResultInv'
  BY <1>2, JobSame DEF WriterInv, ResultInv
<1>4. ThreadsInv'
  BY <1>1, <1>2, JobSame DEF WriterInv, ThreadsInv
<1> QED
  BY <1>3, <1>4

\* Opening and hashing the source touches nothing.
LEMMA OpenSourceKeeps == WriterInv /\ (OpenSource \/ HashSource) => WriterInv'
<1> SUFFICES ASSUME WriterInv, OpenSource \/ HashSource PROVE WriterInv'
  OBVIOUS
<1>1. /\ pc \in {"source", "hash"} /\ pc' \in {"hash", "open", "ended"}
      /\ report' \in {"running", "error"} /\ (pc' = "ended" <=> report' # "running")
      /\ UNCHANGED <<job, exists, archive, streamVars, encodeVars>>
  BY DEF OpenSource, HashSource, Return, WriterInv, EndsInv, diskVars
<1>2. ResultInv' /\ ThreadsInv'
  BY <1>1, ThreadsIdle
<1>3. WriterTypeOK'
  BY <1>1, JobSame DEF WriterInv, WriterTypeOK, streamVars, encodeVars
<1>4. EndsInv'
  BY <1>1, JobSame DEF WriterInv, EndsInv, Untouched, WriterPcs, streamVars, encodeVars
<1>5. FooterInv' /\ OrderInv' /\ DoneInv'
  BY <1>1 DEF FooterInv, OrderInv, DoneInv, WriterPcs
<1> QED
  BY <1>2, <1>3, <1>4, <1>5 DEF WriterInv

\* The archive is emptied, and begins with the header.
LEMMA OpenArchiveKeeps == WriterInv /\ OpenArchive => WriterInv'
<1> SUFFICES ASSUME WriterInv, OpenArchive PROVE WriterInv'
  OBVIOUS
<1>1. /\ pc = "open" /\ pc' \in {"tell", "ended"} /\ UNCHANGED <<job, badbit, encodeVars>>
      /\ buffer = <<>> /\ ~badbit /\ ~encodeFailed /\ batchStart = 1
  BY DEF OpenArchive, Return, WriterInv, EndsInv, WriterPcs
<1>2. ResultInv' /\ ThreadsInv'
  BY <1>1, ThreadsIdle
<1>3. <<Header>> \in Seq(Parts) /\ <<Header>> \in Seq(BodyParts)
  BY DEF Parts, BodyParts
<1>4. CASE pc' = "ended"
  <2>1. report' = "error" /\ UNCHANGED <<exists, archive, buffer>>
    BY <1>4 DEF OpenArchive, Return
  <2>2. WriterTypeOK' /\ EndsInv'
    BY <1>1, <1>4, <2>1, JobSame DEF WriterInv, WriterTypeOK, EndsInv, WriterPcs, encodeVars
  <2>3. FooterInv' /\ OrderInv' /\ DoneInv'
    BY <1>4, <2>1 DEF FooterInv, OrderInv, DoneInv, WriterPcs
  <2> QED
    BY <1>2, <2>2, <2>3 DEF WriterInv
<1>5. CASE pc' = "tell"
  <2>1. exists' = TRUE /\ archive' = <<>> /\ buffer' = <<>> \o <<Header>> /\ UNCHANGED report
    BY <1>1, <1>5 DEF OpenArchive, Write, Return
  <2>2. buffer' = <<Header>> /\ archive' \in Seq(Parts) /\ archive' \in Seq(BodyParts)
        /\ archive' \o buffer' = <<Header>>
    BY <2>1, EmptySeq
  <2>3. WriterTypeOK'
    BY <1>1, <1>3, <1>5, <2>1, <2>2, JobSame DEF WriterInv, WriterTypeOK, WriterPcs, encodeVars
  <2>4. EndsInv'
    BY <1>1, <1>5, <2>1, <2>2, JobSame DEF WriterInv, EndsInv, WriterPcs, encodeVars
  <2>5. FooterInv'
    BY <1>1, <1>3, <1>5, <2>2 DEF FooterInv, WriterPcs, encodeVars
  <2>6. OrderInv'
    <3>1. WrittenUnits' = 0 /\ Count' \in Nat
      BY <1>1, <1>5, JobSame, JobFacts DEF WriterInv, WriterTypeOK, WrittenUnits, encodeVars
    <3>2. Body(0) = <<Header>> /\ \A k : Body(k)' = Body(k)
      BY <1>1, JobSame, BodyZero
    <3>3. Body(WrittenUnits)' = <<Header>>
      BY <3>1, <3>2
    <3>4. WrittenUnits' <= Count'
      BY <3>1
    <3>5. archive' \o buffer' = Body(WrittenUnits)'
      BY <2>2, <3>3
    <3> QED
      BY <1>5, <3>4, <3>5, Zenon DEF OrderInv
  <2>7. DoneInv'
    BY <1>1, <2>1 DEF WriterInv, EndsInv, DoneInv
  <2> QED
    BY <1>2, <2>3, <2>4, <2>5, <2>6, <2>7 DEF WriterInv
<1> QED
  BY <1>1, <1>4, <1>5

\* The batches begin, or the header could not be written.
LEMMA TellKeeps == WriterInv /\ TellHeaderEnd => WriterInv'
<1> SUFFICES ASSUME WriterInv, TellHeaderEnd PROVE WriterInv'
  OBVIOUS
<1>1. /\ pc = "tell" /\ pc' \in {"batch", "ended"}
      /\ UNCHANGED <<job, buffer, badbit, encodeVars>>
      /\ ~encodeFailed /\ batchStart = 1
  BY DEF TellHeaderEnd, Return, WriterInv, EndsInv, FooterInv, streamVars
<1>2. ResultInv' /\ ThreadsInv'
  BY <1>1, ThreadsIdle
<1>3. CASE pc' = "ended"
  <2>1. report' = "error" /\ exists' \in BOOLEAN /\ badbit
    BY <1>3 DEF TellHeaderEnd, Return, RemoveArchive, WriterInv, WriterTypeOK, diskVars
  <2>2. WriterTypeOK' /\ EndsInv'
    BY <1>1, <1>3, <2>1, JobSame DEF WriterInv, WriterTypeOK, EndsInv, WriterPcs, encodeVars
  <2>3. FooterInv' /\ OrderInv' /\ DoneInv'
    BY <1>3, <2>1 DEF FooterInv, OrderInv, DoneInv, WriterPcs
  <2> QED
    BY <1>2, <2>2, <2>3 DEF WriterInv
<1>4. CASE pc' = "batch"
  <2>1. UNCHANGED <<report, exists, archive>>
    BY <1>4 DEF TellHeaderEnd, Return, diskVars
  <2>2. WriterTypeOK' /\ EndsInv'
    BY <1>1, <1>4, <2>1, JobSame DEF WriterInv, WriterTypeOK, EndsInv, WriterPcs, encodeVars
  <2>3. FooterInv' /\ DoneInv'
    BY <1>1, <1>4, <2>1, JobSame DEF WriterInv, EndsInv, FooterInv, DoneInv, WriterPcs, encodeVars
  <2>4. OrderInv'
    <3>1. WrittenUnits' = WrittenUnits /\ Count' = Count
      BY <1>1, <1>4, JobSame DEF WrittenUnits, encodeVars
    <3>2. \A k : Body(k)' = Body(k)
      BY <1>1, JobSame
    <3> QED
      BY <1>1, <1>4, <2>1, <3>1, <3>2 DEF WriterInv, OrderInv, WriterPcs, encodeVars
  <2> QED
    BY <1>2, <2>2, <2>3, <2>4 DEF WriterInv
<1> QED
  BY <1>1, <1>3, <1>4

\* The stream writes its first part, or loses all it holds: the archive is then not whole.
LEMMA FlushKeeps == WriterInv /\ Flush => WriterInv'
<1> SUFFICES ASSUME WriterInv, Flush PROVE WriterInv'
  OBVIOUS
<1>1. /\ buffer # <<>> /\ pc \in {"tell", "batch", "join", "close"} /\ ~badbit
      /\ UNCHANGED <<job, pc, exists, encodeVars, report>>
      /\ exists /\ archive \in Seq(Parts) /\ buffer \in Seq(Parts) /\ report = "running"
  BY DEF Flush, WriterInv, WriterTypeOK, EndsInv, WriterPcs
<1>2. ResultInv' /\ ThreadsInv' /\ DoneInv'
  <2>1. UNCHANGED <<worker, result, encodeFailed, batchStart, collected>>
    BY <1>1 DEF encodeVars
  <2>2. Batch' = Batch
    BY <1>1, <2>1, JobSame DEF Batch
  <2> QED
    BY <1>1, <2>1, <2>2, JobSame DEF WriterInv, ResultInv, ThreadsInv, DoneInv
<1>3. WrittenUnits' = WrittenUnits /\ Count' = Count /\ WholeArchive' = WholeArchive /\ Body(WrittenUnits)' = Body(WrittenUnits)
  BY <1>1, JobSame DEF WrittenUnits, encodeVars
<1>4. CASE archive' = Append(archive, Head(buffer)) /\ buffer' = Tail(buffer) /\ UNCHANGED badbit
  <2>1. /\ archive' \in Seq(Parts) /\ buffer' \in Seq(Parts)
        /\ archive' \o buffer' = archive \o buffer
    BY <1>1, <1>4, StreamMoves
  <2>2. WriterTypeOK' /\ EndsInv'
    BY <1>1, <1>4, <2>1, JobSame DEF WriterInv, WriterTypeOK, EndsInv, WriterPcs, encodeVars
  <2>3. FooterInv'
    <3>1. pc \in {"tell", "batch", "join"} => archive' \in Seq(BodyParts) /\ buffer' \in Seq(BodyParts)
      BY <1>1, <1>4, StreamMoves DEF WriterInv, FooterInv
    <3> QED
      BY <1>1, <1>4, <3>1 DEF WriterInv, FooterInv, encodeVars
  <2>4. OrderInv'
    BY <1>1, <1>3, <1>4, <2>1 DEF WriterInv, OrderInv, encodeVars
  <2> QED
    BY <1>2, <2>2, <2>3, <2>4 DEF WriterInv
<1>5. CASE buffer' = <<>> /\ badbit' = TRUE /\ UNCHANGED archive
  <2>1. <<>> \in Seq(Parts) /\ <<>> \in Seq(BodyParts)
    OBVIOUS
  <2>2. buffer' \in Seq(Parts) /\ buffer' \in Seq(BodyParts)
    BY <1>5, <2>1, Zenon
  <2>3. WriterTypeOK' /\ EndsInv'
    BY <1>1, <1>5, <2>2, JobSame DEF WriterInv, WriterTypeOK, EndsInv, WriterPcs, encodeVars
  <2>4. archive # WholeArchive
    <3>1. CASE pc = "close"
      <4>1. archive \o buffer = WholeArchive
        BY <1>1, <3>1 DEF WriterInv, OrderInv, FooterInv, WriterPcs
      <4> QED
        BY <1>1, <4>1, ConcatEqualIffEmpty
    <3>2. CASE pc # "close"
      BY <1>1, <3>2, NotWhole DEF WriterInv, WriterTypeOK, FooterInv
    <3> QED
      BY <3>1, <3>2
  <2>5. FooterInv'
    BY <1>1, <1>3, <1>5, <2>2, <2>4 DEF WriterInv, FooterInv, encodeVars
  <2>6. OrderInv'
    BY <1>5 DEF OrderInv
  <2> QED
    BY <1>2, <2>3, <2>5, <2>6 DEF WriterInv
<1> QED
  BY <1>4, <1>5 DEF Flush

\* A process that dies.
LEMMA DiesKeeps == WriterInv /\ Dies => WriterInv'
<1> SUFFICES ASSUME WriterInv, Dies PROVE WriterInv'
  OBVIOUS
<1>1. /\ pc' = "ended" /\ report' = "died" /\ buffer' = <<>>
      /\ UNCHANGED <<job, exists, archive, badbit, batchStart, collected, worker, result,
                     encodeFailed>>
  BY DEF Dies, Return, diskVars, encodeVars
<1>2. <<>> \in Seq(Parts)
  OBVIOUS
<1>3. buffer' \in Seq(Parts)
  BY <1>1, <1>2, Zenon
<1>4. WriterTypeOK'
  BY <1>1, <1>3, JobSame DEF WriterInv, WriterTypeOK
<1>5. EndsInv' /\ FooterInv' /\ ThreadsInv' /\ OrderInv' /\ DoneInv'
  BY <1>1 DEF EndsInv, FooterInv, ThreadsInv, OrderInv, DoneInv, WriterPcs
<1>6. ResultInv'
  BY <1>1, JobSame DEF WriterInv, ResultInv
<1> QED
  BY <1>4, <1>5, <1>6 DEF WriterInv

\* A batch begins with no packets and nothing collected.
LEMMA StartBatchKeeps == WriterInv /\ StartBatch => WriterInv'
<1> SUFFICES ASSUME WriterInv, StartBatch PROVE WriterInv'
  OBVIOUS
<1>1. /\ pc = "batch" /\ pc' = "join" /\ batchStart \in Units /\ ~encodeFailed /\ collected' = 0
      /\ worker' = [u \in Units |-> IF u \in Batch THEN "encoding" ELSE "idle"]
      /\ result' = [u \in Units |-> <<>>]
      /\ UNCHANGED <<job, exists, archive, buffer, badbit, batchStart, encodeFailed, report>>
  BY DEF StartBatch, AtBatch, diskVars, streamVars
<1>2. WriterTypeOK'
  <2>1. <<>> \in Seq(Seq(Packets))
    OBVIOUS
  <2>2. /\ worker' \in [Units -> {"idle", "encoding", "done", "thrown"}]
        /\ result' \in [Units -> Seq(Seq(Packets))]
    BY <1>1, <2>1
  <2> QED
    BY <1>1, <2>2, JobSame DEF WriterInv, WriterTypeOK, WriterPcs
<1>3. EndsInv' /\ FooterInv' /\ DoneInv'
  BY <1>1, JobSame DEF WriterInv, EndsInv, FooterInv, DoneInv, WriterPcs
<1>4. ThreadsInv'
  <2>1. Batch' = Batch
    BY <1>1, JobSame DEF Batch
  <2>2. \A u \in Batch : u \in Units /\ batchStart + 0 <= u
    BY <1>1, JobFacts DEF Batch, WriterInv, WriterTypeOK
  <2>3. \A u \in Units : worker'[u] = "encoding" => u \in Batch
    BY <1>1
  <2> QED
    BY <1>1, <2>1, <2>2, <2>3, JobSame DEF ThreadsInv
<1>5. ResultInv'
  <2>1. /\ Units' = Units /\ PacketCounts' = PacketCounts
    BY <1>1, JobSame
  <2> SUFFICES ASSUME NEW u \in Units
               PROVE  /\ Len(result'[u]) = 0 /\ worker'[u] # "done"
                      /\ Len(PacketCounts[u]) \in Nat \ {0}
    BY <2>1 DEF ResultInv
  <2> QED
    BY <1>1, JobFacts DEF WriterInv, WriterTypeOK
<1>6. OrderInv'
  <2>1. WrittenUnits = batchStart - 1 /\ WrittenUnits' = batchStart - 1 /\ Count' = Count
    <3>1. /\ batchStart \in Int /\ batchStart <= Count /\ Count' = Count
          /\ batchStart' = batchStart
      BY <1>1, JobSame, JobFacts DEF WriterInv, WriterTypeOK
    <3>2. batchStart - 1 <= Count /\ batchStart - 1 + 0 = batchStart - 1 /\ Count \in Int
      BY <3>1, JobFacts DEF WriterInv, WriterTypeOK
    <3> QED
      BY <1>1, <3>1, <3>2 DEF WrittenUnits
  <2>2. \A k : Body(k)' = Body(k)
    BY <1>1, JobSame
  <2> QED
    BY <1>1, <2>1, <2>2 DEF WriterInv, OrderInv, WriterPcs
<1> QED
  BY <1>2, <1>3, <1>4, <1>5, <1>6 DEF WriterInv

\* A stripe that cannot be read.
LEMMA ReadFailsKeeps == WriterInv /\ ReadFails => WriterInv'
<1> SUFFICES ASSUME WriterInv, ReadFails PROVE WriterInv'
  OBVIOUS
<1>1. /\ pc = "batch" /\ encodeFailed' = TRUE
      /\ UNCHANGED <<job, pc, exists, archive, buffer, badbit, batchStart, collected, worker,
                     result, report>>
  BY DEF ReadFails, AtBatch, diskVars, streamVars
<1>2. WriterTypeOK' /\ EndsInv' /\ FooterInv' /\ DoneInv' /\ OrderInv'
  BY <1>1, JobSame DEF WriterInv, WriterTypeOK, EndsInv, FooterInv, DoneInv, OrderInv, WriterPcs
<1>3. Batch' = Batch
  BY <1>1, JobSame DEF Batch
<1>4. ThreadsInv' /\ ResultInv'
  BY <1>1, <1>3, JobSame DEF WriterInv, ThreadsInv, ResultInv
<1> QED
  BY <1>2, <1>4 DEF WriterInv

\* What a thread does touches nothing but its own result and the failure.
LEMMA ThreadKeeps ==
  ASSUME WriterInv, NEW u \in Units,
         Encode(u) \/ EncoderRefused(u) \/ EncoderThrows(u)
  PROVE  WriterInv'
<1>1. /\ worker[u] = "encoding"
      /\ \/ worker' = worker
         \/ \E w \in {"encoding", "done", "thrown"} : worker' = [worker EXCEPT ![u] = w]
      /\ encodeFailed' \in {encodeFailed, TRUE}
      /\ UNCHANGED <<job, pc, exists, archive, buffer, badbit, batchStart, collected, report>>
  BY DEF Encode, EncoderRefused, EncoderThrows, ThreadVars, diskVars, streamVars
<1>2. \A v \in Units : worker'[v] = "encoding" => worker[v] = "encoding"
  BY <1>1 DEF WriterInv, WriterTypeOK
<1>3. Batch' = Batch /\ Units' = Units /\ Striped' = Striped /\ PacketCounts' = PacketCounts
      /\ WholeArchive' = WholeArchive
      /\ \A v, e : PacketsOfEncoder(v, e)' = PacketsOfEncoder(v, e)
  BY <1>1, JobSame DEF Batch
<1>4. ThreadsInv'
  BY <1>1, <1>2, <1>3 DEF WriterInv, ThreadsInv
<1>5. pc = "join" \/ report = "died"
  BY <1>1 DEF WriterInv, ThreadsInv
<1>6. pc = "join" \/ pc = "ended"
  BY <1>5 DEF WriterInv, EndsInv
<1>7. EndsInv' /\ FooterInv' /\ DoneInv'
  BY <1>1, <1>3, <1>6, JobSame DEF WriterInv, EndsInv, Untouched, FooterInv, DoneInv, WriterPcs
<1>8. OrderInv'
  <2>1. WrittenUnits' = WrittenUnits /\ Count' = Count /\ Body(WrittenUnits)' = Body(WrittenUnits)
    BY <1>1, JobSame DEF WrittenUnits
  <2>2. ~encodeFailed' => ~encodeFailed
    BY DEF Encode, EncoderRefused, EncoderThrows
  <2> QED
    BY <1>1, <1>3, <2>1, <2>2, Zenon DEF WriterInv, OrderInv
<1>9. result' \in [Units -> Seq(Seq(Packets))] /\ ResultInv'
  <2> DEFINE n == Len(result[u])
  <2>0. n \in Nat /\ n < Len(PacketCounts[u]) /\ result[u] \in Seq(Seq(Packets))
        /\ Len(PacketCounts[u]) \in Nat
    BY <1>1, JobFacts DEF WriterInv, WriterTypeOK, ResultInv
  <2>1. CASE Encode(u)
    <3> DEFINE r == Append(result[u], PacketsOfEncoder(u, n + 1))
    <3>1. PacketsOfEncoder(u, n + 1) \in Seq(Packets)
      BY <2>0, EncoderPackets DEF WriterInv, WriterTypeOK
    <3>2. /\ r \in Seq(Seq(Packets)) /\ Len(r) = n + 1
          /\ \A e \in 1 .. n + 1 : r[e] = IF e = n + 1 THEN PacketsOfEncoder(u, n + 1) ELSE result[u][e]
      BY <2>0, <3>1, AppendProperties
    <3>3. /\ result' = [result EXCEPT ![u] = r] /\ encodeFailed' = encodeFailed
          /\ worker' = [worker EXCEPT ![u] = IF n + 1 = Len(PacketCounts[u]) THEN "done" ELSE @]
      BY <2>1 DEF Encode, ThreadVars
    <3> HIDE DEF r
    <3>4. result'[u] = r /\ worker'[u] = IF n + 1 = Len(PacketCounts[u]) THEN "done" ELSE "encoding"
      BY <1>1, <3>3 DEF WriterInv, WriterTypeOK
    <3>5. \A v \in Units : v # u => result'[v] = result[v] /\ worker'[v] = worker[v]
      BY <3>3 DEF WriterInv, WriterTypeOK
    <3>6. \A e \in 1 .. n + 1 : r[e] = PacketsOfEncoder(u, e)
      <4> TAKE e \in 1 .. n + 1
      <4>1. CASE e = n + 1
        BY <2>0, <3>2, <4>1
      <4>2. CASE e # n + 1
        <5>1. e \in 1 .. n /\ e \in 1 .. n + 1
          BY <2>0, <4>2
        <5>2. result[u][e] = PacketsOfEncoder(u, e)
          BY <5>1 DEF WriterInv, ResultInv
        <5> QED
          BY <3>2, <4>2, <5>1, <5>2
      <4> QED
        BY <4>1, <4>2
    <3> HIDE DEF n
    <3>7. result' \in [Units -> Seq(Seq(Packets))]
      BY <3>2, <3>3 DEF WriterInv, WriterTypeOK
    <3>8. ResultInv'
      <4> SUFFICES ASSUME NEW v \in Units
                   PROVE  /\ Len(result'[v]) <= Len(PacketCounts[v])
                          /\ \A e \in 1 .. Len(result'[v]) : result'[v][e] = PacketsOfEncoder(v, e)
                          /\ worker'[v] = "encoding" => Len(result'[v]) < Len(PacketCounts[v])
                          /\ worker'[v] = "done" /\ ~encodeFailed' =>
                               Len(result'[v]) = Len(PacketCounts[v])
        BY <1>3 DEF ResultInv
      <4>1. CASE v = u
        BY <2>0, <3>2, <3>4, <3>6, <4>1
      <4>2. CASE v # u
        BY <3>3, <3>5, <4>2 DEF WriterInv, ResultInv
      <4> QED
        BY <4>1, <4>2
    <3> QED
      BY <3>7, <3>8
  <2>2. CASE EncoderRefused(u) \/ EncoderThrows(u)
    <3>1. result' = result
          /\ \/ worker' = [worker EXCEPT ![u] = "done"] /\ encodeFailed' = TRUE
             \/ worker' = [worker EXCEPT ![u] = "thrown"] /\ encodeFailed' = encodeFailed
      BY <2>2 DEF EncoderRefused, EncoderThrows, ThreadVars
    <3>2. result' \in [Units -> Seq(Seq(Packets))]
      BY <3>1 DEF WriterInv, WriterTypeOK
    <3>3. \A v \in Units : worker'[v] = "done" /\ ~encodeFailed' => worker[v] = "done" /\ ~encodeFailed
      BY <3>1 DEF WriterInv, WriterTypeOK
    <3>4. ResultInv'
      BY <1>2, <1>3, <3>1, <3>3 DEF WriterInv, ResultInv
    <3> QED
      BY <3>2, <3>4
  <2> QED
    BY <2>1, <2>2
<1>10. WriterTypeOK'
  <2>1. worker' \in [Units -> {"idle", "encoding", "done", "thrown"}] /\ encodeFailed' \in BOOLEAN
    BY <1>1 DEF WriterInv, WriterTypeOK
  <2> QED
    BY <1>1, <1>3, <1>9, <2>1 DEF WriterInv, WriterTypeOK
<1> QED
  BY <1>4, <1>7, <1>8, <1>9, <1>10 DEF WriterInv

\* What is written to a stream that has not failed is in it, behind the rest.
LEMMA WriteAppends ==
  ASSUME NEW X, NEW parts \in Seq(X), archive \in Seq(X), buffer \in Seq(X), Write(parts)
  PROVE  /\ buffer' \in Seq(X)
         /\ badbit => buffer' = buffer
         /\ ~badbit => archive \o buffer' = (archive \o buffer) \o parts
<1>1. CASE badbit
  BY <1>1 DEF Write
<1>2. CASE ~badbit
  <2>1. buffer' = buffer \o parts
    BY <1>2 DEF Write
  <2>2. buffer \o parts \in Seq(X)
    BY ConcatProperties
  <2>3. (archive \o buffer) \o parts = archive \o (buffer \o parts)
    BY ConcatAssociative
  <2> QED
    BY <1>2, <2>1, <2>2, <2>3
<1> QED
  BY <1>1, <1>2

\* The packets of a batch whose threads are done.
LEMMA BatchPackets ==
  ASSUME WriterInv, pc = "join", ~encodeFailed, NEW m \in Nat, batchStart - 1 + m <= Count,
         \A i \in 1 .. m : worker[batchStart + i - 1] = "done"
  PROVE  /\ [i \in 1 .. m |-> FlattenSeq(result[batchStart + i - 1])]
              = [i \in 1 .. m |-> PacketsOf((batchStart - 1) + i)]
         /\ FlattenSeq([i \in 1 .. m |-> FlattenSeq(result[batchStart + i - 1])]) \in Seq(BodyParts)
<1>1. /\ job \in Jobs /\ Units = 1 .. Count /\ Count \in Nat /\ batchStart \in 1 .. Count
  BY JobFacts DEF WriterInv, WriterTypeOK, ThreadsInv
<1>2. \A i \in 1 .. m :
        /\ batchStart + i - 1 \in Units
        /\ FlattenSeq(result[batchStart + i - 1]) = PacketsOf(batchStart + i - 1)
        /\ PacketsOf(batchStart + i - 1) \in Seq(Packets)
        /\ batchStart + i - 1 = (batchStart - 1) + i
  <2> TAKE i \in 1 .. m
  <2>1. batchStart + i - 1 \in Units /\ batchStart + i - 1 = (batchStart - 1) + i
    BY <1>1
  <2> QED
    BY <1>1, <2>1, DoneUnit, UnitPackets
<1> DEFINE s == [i \in 1 .. m |-> FlattenSeq(result[batchStart + i - 1])]
<1>3. s = [i \in 1 .. m |-> PacketsOf((batchStart - 1) + i)]
  BY <1>2
<1>4. s \in Seq(Seq(Packets))
  <2>1. \A i \in 1 .. m : FlattenSeq(result[batchStart + i - 1]) \in Seq(Packets)
    BY <1>2
  <2> QED
    BY <2>1
<1> HIDE DEF s
<1>5. FlattenSeq(s) \in Seq(Packets)
  BY <1>4, FlattenType
<1>6. FlattenSeq(s) \in Seq(BodyParts)
  BY <1>5 DEF BodyParts
<1> QED
  BY <1>3, <1>6 DEF s

\* The batch loop goes on to the next batch.
LEMMA NextBatch ==
  ASSUME WriterInv, EndBatch, pc = "join", \A u \in Batch : worker[u] # "encoding",
         buffer' \in Seq(BodyParts), badbit => buffer' = <<>>
  PROVE  /\ WriterTypeOK' /\ EndsInv' /\ FooterInv' /\ ThreadsInv' /\ ResultInv' /\ DoneInv'
         /\ Count' = Count /\ Body(WrittenUnits)' = Body(WrittenUnits')
         /\ WrittenUnits' = IF batchStart + BatchSize - 1 <= Count THEN batchStart + BatchSize - 1 ELSE Count
<1>1. /\ pc' = "batch" /\ batchStart' = batchStart + BatchSize
      /\ UNCHANGED <<job, exists, archive, badbit, collected, worker, result, encodeFailed, report>>
  BY DEF EndBatch, diskVars
<1>2. BatchSize \in Nat \ {0} /\ batchStart \in Nat \ {0} /\ Count \in Nat
  BY JobFacts DEF WriterInv, WriterTypeOK
<1>3. BodyParts \subseteq Parts
  BY DEF BodyParts, Parts
<1>4. buffer' \in Seq(Parts)
  BY <1>3, SeqMonotonic
<1>5. WriterTypeOK' /\ EndsInv'
  BY <1>1, <1>2, <1>4, JobSame DEF WriterInv, WriterTypeOK, EndsInv, WriterPcs
<1>6. FooterInv' /\ DoneInv'
  BY <1>1, JobSame DEF WriterInv, FooterInv, DoneInv, EndsInv, WriterPcs
<1>7. ThreadsInv'
  <2>1. \A u \in Units : worker[u] # "encoding"
    BY DEF WriterInv, ThreadsInv, EndsInv
  <2> QED
    BY <1>1, <2>1, JobSame DEF ThreadsInv
<1>8. ResultInv'
  BY <1>1, JobSame DEF WriterInv, ResultInv
<1>9. Count' = Count /\ \A k : Body(k)' = Body(k)
  BY <1>1, JobSame
<1>10. WrittenUnits' = IF batchStart + BatchSize - 1 <= Count THEN batchStart + BatchSize - 1 ELSE Count
  BY <1>1, <1>2, <1>9 DEF WrittenUnits
<1> QED
  BY <1>5, <1>6, <1>7, <1>8, <1>9, <1>10

\* The packets of a batch of tracks go to the stream.
LEMMA WriteTracksKeeps == WriterInv /\ WriteTracks => WriterInv'
<1> SUFFICES ASSUME WriterInv, WriteTracks PROVE WriterInv'
  OBVIOUS
<1> DEFINE m == Cardinality(Batch)
           s == FlattenSeq([i \in 1 .. m |-> FlattenSeq(result[batchStart + i - 1])])
<1>1. /\ pc = "join" /\ ~Striped /\ EndBatch
      /\ \A u \in Batch : worker[u] = "done"
      /\ IF encodeFailed THEN buffer' = buffer ELSE Write(s)
  BY DEF WriteTracks
<1>2. PICK last \in Units :
        /\ last = IF batchStart + BatchSize - 1 <= Count THEN batchStart + BatchSize - 1 ELSE Count
        /\ batchStart <= last /\ Batch = batchStart .. last /\ m = last - batchStart + 1
  BY <1>1, BatchFacts DEF WriterInv, WriterTypeOK, ThreadsInv
<1>3. /\ batchStart \in 1 .. Count /\ Count \in Nat /\ last \in 1 .. Count /\ BatchSize \in Nat \ {0}
      /\ archive \in Seq(BodyParts) /\ buffer \in Seq(BodyParts) /\ m \in Nat
  <2>1. batchStart \in Units /\ archive \in Seq(BodyParts) /\ buffer \in Seq(BodyParts)
    BY <1>1 DEF WriterInv, ThreadsInv, FooterInv
  <2>2. Count \in Nat /\ BatchSize \in Nat \ {0} /\ Units = 1 .. Count
    <3>1. job \in Jobs
      BY DEF WriterInv, WriterTypeOK
    <3> QED
      BY <3>1, JobFacts
  <2> QED
    BY <1>2, <2>1, <2>2
<1> HIDE DEF m, s
<1>4. ~encodeFailed =>
        /\ s \in Seq(BodyParts)
        /\ s = FlattenSeq([i \in 1 .. m |-> PacketsOf((batchStart - 1) + i)])
  <2>1. batchStart - 1 + m <= Count /\ \A i \in 1 .. m : worker[batchStart + i - 1] = "done"
    BY <1>1, <1>2, <1>3
  <2> QED
    BY <1>1, <1>3, <2>1, BatchPackets DEF s
<1>5. buffer' \in Seq(BodyParts) /\ (badbit => buffer' = <<>>)
  <2>1. CASE encodeFailed
    BY <1>1, <1>3, <2>1 DEF WriterInv, EndsInv
  <2>2. CASE ~encodeFailed
    BY <1>1, <1>3, <1>4, <2>2, WriteAppends DEF WriterInv, EndsInv
  <2> QED
    BY <2>1, <2>2
<1>6. /\ WriterTypeOK' /\ EndsInv' /\ FooterInv' /\ ThreadsInv' /\ ResultInv' /\ DoneInv'
      /\ Count' = Count /\ Body(WrittenUnits)' = Body(WrittenUnits')
      /\ WrittenUnits' = IF batchStart + BatchSize - 1 <= Count THEN batchStart + BatchSize - 1 ELSE Count
  BY <1>1, <1>5, NextBatch
<1>7. OrderInv'
  <2> SUFFICES ASSUME ~badbit', ~encodeFailed'
               PROVE  WrittenUnits' <= Count' /\ archive' \o buffer' = Body(WrittenUnits)'
    BY <1>1 DEF OrderInv, EndBatch
  <2>1. ~badbit /\ ~encodeFailed /\ archive' = archive
    BY <1>1 DEF EndBatch, diskVars
  <2>2. archive \o buffer = Body(batchStart - 1)
    BY <1>1, <1>3, <2>1 DEF WriterInv, OrderInv, WrittenUnits, WriterPcs
  <2>3. archive \o buffer' = Body(batchStart - 1) \o s
    BY <1>1, <1>3, <1>4, <2>1, <2>2, WriteAppends
  <2>4. Body(batchStart - 1) \o s = Body((batchStart - 1) + m)
    <3>1. batchStart - 1 \in Nat /\ (batchStart - 1) + m <= Count
      BY <1>2, <1>3
    <3> QED
      BY <1>3, <1>4, <2>1, <3>1, BodyGrows DEF WriterInv, WriterTypeOK
  <2>5. (batchStart - 1) + m = last /\ WrittenUnits' = last
    BY <1>2, <1>3, <1>6
  <2> QED
    BY SMTT(20), <1>3, <1>6, <2>1, <2>3, <2>4, <2>5
<1> QED
  BY <1>6, <1>7 DEF WriterInv

\* The packets of one stripe go to the stream.
LEMMA WriteStripeKeeps == WriterInv /\ WriteStripe => WriterInv'
<1> SUFFICES ASSUME WriterInv, WriteStripe PROVE WriterInv'
  OBVIOUS
<1> DEFINE u == batchStart + collected
           s == FlattenSeq(result[u])
<1>1. /\ pc = "join" /\ Striped /\ u \in Batch /\ worker[u] = "done" /\ Write(s)
      /\ collected' = collected + 1
      /\ UNCHANGED <<job, pc, exists, archive, badbit, batchStart, worker, result, encodeFailed,
                     report>>
  BY DEF WriteStripe, StripeTurn, diskVars
<1>2. /\ batchStart \in 1 .. Count /\ Count \in Nat /\ collected \in Nat /\ Units = 1 .. Count
      /\ job \in Jobs /\ u \in Units
      /\ archive \in Seq(BodyParts) /\ buffer \in Seq(BodyParts)
      /\ result[u] \in Seq(Seq(Packets))
  BY <1>1, JobFacts DEF WriterInv, WriterTypeOK, ThreadsInv, FooterInv, Batch
<1>3. s \in Seq(Packets) /\ s \in Seq(BodyParts)
  <2>1. s \in Seq(Packets)
    BY <1>2, FlattenType
  <2>2. Packets \subseteq BodyParts
    BY DEF BodyParts
  <2> HIDE DEF s
  <2> QED
    BY <2>1, <2>2, SeqMonotonic
<1>4. ~encodeFailed => s = PacketsOf(u)
  BY <1>1, <1>2, DoneUnit
<1> HIDE DEF s
<1>5. buffer' \in Seq(BodyParts) /\ (badbit => buffer' = <<>>)
  BY <1>1, <1>2, <1>3, WriteAppends DEF WriterInv, EndsInv
<1>6. buffer' \in Seq(Parts)
  <2>1. BodyParts \subseteq Parts
    BY DEF BodyParts, Parts
  <2> QED
    BY <1>5, <2>1, SeqMonotonic
<1>7. WriterTypeOK'
  BY <1>1, <1>2, <1>6, JobSame DEF WriterInv, WriterTypeOK
<1>8. EndsInv' /\ FooterInv' /\ DoneInv'
  BY <1>1, <1>5, JobSame DEF WriterInv, EndsInv, FooterInv, DoneInv, WriterPcs
<1>9. ThreadsInv' /\ ResultInv'
  <2>1. Batch' = Batch
    BY <1>1, JobSame DEF Batch
  <2>2. ASSUME NEW v \in Units, worker[v] = "encoding", batchStart + collected <= v
        PROVE  batchStart' + collected' <= v
    <3>1. v # u
      <4> HIDE DEF u
      <4>1. worker[v] = "encoding" /\ worker[u] = "done"
        BY <1>1, <2>2
      <4>2. worker[v] # worker[u]
        BY <4>1
      <4> QED
        BY <4>2
    <3>2. v \in Int
      BY <1>2
    <3> QED
      BY <1>1, <1>2, <2>2, <3>1, <3>2
  <2> QED
    BY <1>1, <2>1, <2>2, JobSame DEF WriterInv, ThreadsInv, ResultInv
<1>10. OrderInv'
  <2> SUFFICES ASSUME ~badbit', ~encodeFailed'
               PROVE  WrittenUnits' <= Count' /\ archive' \o buffer' = Body(WrittenUnits)'
    BY <1>1 DEF OrderInv
  <2>1. ~badbit /\ ~encodeFailed /\ Striped' = Striped /\ Count' = Count
        /\ \A k : Body(k)' = Body(k)
    BY <1>1, JobSame
  <2> DEFINE k == batchStart - 1 + collected
  <2>2. WrittenUnits = k /\ WrittenUnits' = k + 1 /\ k \in Nat /\ k + 1 <= Count /\ u = k + 1
    BY <1>1, <1>2, <2>1 DEF WrittenUnits
  <2>3. archive \o buffer = Body(k)
    BY <1>1, <2>1, <2>2 DEF WriterInv, OrderInv, WriterPcs
  <2>4. archive \o buffer' = Body(k) \o s
    BY <1>1, <1>2, <1>3, <2>1, <2>3, WriteAppends
  <2> HIDE DEF k
  <2>5. Body(k) \o s = Body(k + 1)
    <3>1. FlattenSeq([i \in 1 .. 1 |-> PacketsOf(k + i)]) = PacketsOf(k + 1)
      <4> DEFINE t == [i \in 1 .. 1 |-> PacketsOf(k + i)]
      <4>1. PacketsOf(k + 1) \in Seq(Packets)
        BY <1>2, <2>2, UnitPackets
      <4>2. t = <<PacketsOf(k + 1)>>
        OBVIOUS
      <4> QED
        BY <4>1, <4>2, FlattenOne
    <3>2. Body(k) \o FlattenSeq([i \in 1 .. 1 |-> PacketsOf(k + i)]) = Body(k + 1)
      BY <1>2, <2>2, BodyGrows
    <3> QED
      BY <1>4, <2>1, <2>2, <3>1, <3>2
  <2> QED
    BY <1>1, <2>1, <2>2, <2>4, <2>5
<1> QED
  BY <1>7, <1>8, <1>9, <1>10 DEF WriterInv

\* All stripes of a batch have been written.
LEMMA StripesWrittenKeeps == WriterInv /\ StripesWritten => WriterInv'
<1> SUFFICES ASSUME WriterInv, StripesWritten PROVE WriterInv'
  OBVIOUS
<1>1. /\ pc = "join" /\ Striped /\ EndBatch /\ collected = Cardinality(Batch)
      /\ UNCHANGED buffer
  BY DEF StripesWritten
<1>2. PICK last \in Units :
        /\ last = IF batchStart + BatchSize - 1 <= Count THEN batchStart + BatchSize - 1 ELSE Count
        /\ batchStart <= last /\ Batch = batchStart .. last
        /\ collected = last - batchStart + 1
  BY <1>1, BatchFacts DEF WriterInv, WriterTypeOK, ThreadsInv
<1>3. /\ batchStart \in 1 .. Count /\ Count \in Nat /\ last \in 1 .. Count
      /\ buffer' \in Seq(BodyParts) /\ (badbit => buffer' = <<>>)
  BY <1>1, <1>2, JobFacts DEF WriterInv, WriterTypeOK, ThreadsInv, FooterInv, EndsInv
<1>4. \A u \in Batch : worker[u] # "encoding"
  <2> SUFFICES ASSUME NEW u \in Batch, worker[u] = "encoding" PROVE FALSE
    OBVIOUS
  <2>1. report = "running" /\ u \in Units
    BY <1>1 DEF WriterInv, EndsInv, Batch
  <2>2. batchStart + collected <= u
    BY <1>1, <2>1 DEF WriterInv, ThreadsInv
  <2> QED
    BY <1>2, <1>3, <2>2
<1>5. /\ WriterTypeOK' /\ EndsInv' /\ FooterInv' /\ ThreadsInv' /\ ResultInv' /\ DoneInv'
      /\ Count' = Count /\ Body(WrittenUnits)' = Body(WrittenUnits')
      /\ WrittenUnits' = IF batchStart + BatchSize - 1 <= Count THEN batchStart + BatchSize - 1 ELSE Count
  BY <1>1, <1>3, <1>4, NextBatch
<1>6. OrderInv'
  <2> SUFFICES ASSUME ~badbit', ~encodeFailed'
               PROVE  WrittenUnits' <= Count' /\ archive' \o buffer' = Body(WrittenUnits)'
    BY <1>1 DEF OrderInv, EndBatch
  <2>1. ~badbit /\ ~encodeFailed /\ archive' = archive
    BY <1>1 DEF EndBatch, diskVars
  <2>2. WrittenUnits = last /\ WrittenUnits' = last
    BY <1>1, <1>2, <1>3, <1>5 DEF WrittenUnits
  <2>3. archive \o buffer = Body(WrittenUnits)
    BY <1>1, <2>1 DEF WriterInv, OrderInv, WriterPcs
  <2> QED
    BY <1>1, <1>3, <1>5, <2>1, <2>2, <2>3
<1> QED
  BY <1>5, <1>6 DEF WriterInv

\* Cleaning up after a failure; mirror, footer and the end.
LEMMA EndKeeps == WriterInv /\ (Abandon \/ WriteMirror \/ Close \/ Finish) => WriterInv'
<1> SUFFICES ASSUME WriterInv, Abandon \/ WriteMirror \/ Close \/ Finish PROVE WriterInv'
  OBVIOUS
<1>1. /\ UNCHANGED <<job, encodeVars, badbit>>
      /\ pc \in {"batch", "close", "cleanup"} /\ pc' \in {"close", "cleanup", "ended"}
  BY DEF Abandon, WriteMirror, Close, Finish, BatchesOver, Return, streamVars
<1>2. ResultInv' /\ ThreadsInv'
  BY <1>1, ThreadsIdle
<1>3. UNCHANGED <<batchStart, collected, worker, result, encodeFailed>>
  BY <1>1 DEF encodeVars
<1>4. CASE Abandon
  <2>1. pc' = "ended" /\ report' = "error" /\ exists' = FALSE /\ buffer' = <<>>
    BY <1>4 DEF Abandon, Return, RemoveArchive
  <2>2. <<>> \in Seq(Parts)
    OBVIOUS
  <2>3. buffer' \in Seq(Parts)
    BY <2>1, <2>2, Zenon
  <2>4. WriterTypeOK'
    BY <1>1, <1>3, <2>1, <2>3, JobSame DEF WriterInv, WriterTypeOK
  <2>5. EndsInv' /\ FooterInv' /\ OrderInv' /\ DoneInv'
    BY <2>1 DEF EndsInv, FooterInv, OrderInv, DoneInv, WriterPcs
  <2> QED
    BY <1>2, <2>4, <2>5 DEF WriterInv
<1>5. CASE WriteMirror
  <2> DEFINE s == <<Header, Footer>>
  <2>1. /\ pc = "batch" /\ ~encodeFailed /\ batchStart \notin Units /\ Write(s) /\ pc' = "close"
        /\ UNCHANGED <<exists, archive, report>>
    BY <1>5 DEF WriteMirror, BatchesOver, diskVars
  <2>2. s \in Seq(Parts)
    BY DEF Parts
  <2> HIDE DEF s
  <2>3. archive \in Seq(Parts) /\ buffer \in Seq(Parts) /\ (badbit => buffer = <<>>)
    BY <2>1 DEF WriterInv, WriterTypeOK, EndsInv, WriterPcs
  <2>4. /\ buffer' \in Seq(Parts) /\ (badbit => buffer' = <<>>)
        /\ ~badbit => archive \o buffer' = (archive \o buffer) \o s
    BY <2>1, <2>2, <2>3, WriteAppends
  <2>5. WriterTypeOK'
    BY <1>1, <1>3, <2>1, <2>4, JobSame DEF WriterInv, WriterTypeOK, WriterPcs
  <2>6. EndsInv' /\ DoneInv'
    BY <1>1, <1>3, <2>1, <2>4, JobSame DEF WriterInv, EndsInv, DoneInv, WriterPcs
  <2>7. FooterInv'
    BY <1>1, <1>3, <2>1, JobSame DEF WriterInv, FooterInv, WriterPcs
  <2>8. OrderInv'
    <3>1. Count' = Count /\ WholeArchive' = WholeArchive /\ Striped' = Striped
      BY <1>1, JobSame
    <3>2. batchStart - 1 >= Count /\ Count \in Nat /\ batchStart \in Nat
      BY <2>1, JobFacts DEF WriterInv, WriterTypeOK
    <3>3. WrittenUnits = Count /\ WrittenUnits' = Count
      BY <1>3, <2>1, <3>1, <3>2 DEF WrittenUnits
    <3>4. ~badbit => archive \o buffer = Body(Count)
      BY <2>1, <3>3 DEF WriterInv, OrderInv, WriterPcs
    <3>5. ~badbit => archive' \o buffer' = WholeArchive'
      BY <2>1, <2>4, <3>1, <3>4, WholeFacts DEF WriterInv, WriterTypeOK, s
    <3>6. WrittenUnits' <= Count'
      BY <3>1, <3>2, <3>3
    <3> QED
      BY <1>1, <2>1, <3>5, <3>6 DEF OrderInv
  <2> QED
    BY <1>2, <2>5, <2>6, <2>7, <2>8 DEF WriterInv
<1>6. CASE Close
  <2>1. pc = "close" /\ pc' = "cleanup" /\ buffer = <<>> /\ UNCHANGED <<exists, archive, buffer, report>>
    BY <1>6 DEF Close, diskVars, streamVars
  <2>2. WriterTypeOK'
    BY <1>1, <1>3, <2>1, JobSame DEF WriterInv, WriterTypeOK, WriterPcs
  <2>3. EndsInv' /\ FooterInv' /\ DoneInv'
    BY <1>1, <1>3, <2>1, JobSame DEF WriterInv, EndsInv, FooterInv, DoneInv, WriterPcs
  <2>4. OrderInv'
    <3>1. WrittenUnits' = WrittenUnits /\ Count' = Count /\ WholeArchive' = WholeArchive
      BY <1>1, <1>3, <2>1, JobSame DEF WrittenUnits
    <3> QED
      BY <1>1, <1>3, <2>1, <3>1 DEF WriterInv, OrderInv, WriterPcs
  <2> QED
    BY <1>2, <2>2, <2>3, <2>4 DEF WriterInv
<1>7. CASE Finish
  <2>1. /\ pc = "cleanup" /\ pc' = "ended" /\ report' = "done"
        /\ UNCHANGED <<exists, archive, buffer>>
    BY <1>7 DEF Finish, Return, streamVars
  <2>2. buffer = <<>> /\ exists /\ archive \in Seq(Parts) /\ ~encodeFailed
    BY <2>1 DEF WriterInv, EndsInv, FooterInv, WriterPcs
  <2>3. WriterTypeOK'
    BY <1>1, <1>3, <2>1, JobSame DEF WriterInv, WriterTypeOK
  <2>4. EndsInv' /\ FooterInv' /\ OrderInv'
    BY <1>1, <1>3, <2>1, <2>2 DEF EndsInv, FooterInv, OrderInv, WriterPcs
  <2>5. DoneInv'
    <3>1. ~badbit => archive \o buffer = WholeArchive
      BY <2>1, <2>2 DEF WriterInv, OrderInv, WriterPcs
    <3>2. archive \o <<>> = archive
      BY <2>2, ConcatEmptySeq
    <3>3. badbit \/ archive = WholeArchive
      BY <2>2, <3>1, <3>2
    <3> QED
      BY <1>1, <2>1, <2>2, <3>3, JobSame DEF DoneInv
  <2> QED
    BY <1>2, <2>3, <2>4, <2>5 DEF WriterInv
<1> QED
  BY <1>4, <1>5, <1>6, <1>7

\* Nothing happens.
LEMMA StutterKeeps == WriterInv /\ UNCHANGED vars => WriterInv'
<1> SUFFICES ASSUME WriterInv, UNCHANGED vars PROVE WriterInv'
  OBVIOUS
<1>1. UNCHANGED <<job, pc, exists, archive, buffer, badbit, batchStart, collected, worker,
                  result, encodeFailed, report>>
  BY DEF vars, diskVars, streamVars, encodeVars
<1>2. WrittenUnits' = WrittenUnits /\ Batch' = Batch
  BY <1>1, JobSame DEF WrittenUnits, Batch
<1> QED
  BY <1>1, <1>2, JobSame DEF WriterInv, WriterTypeOK, EndsInv, Untouched, FooterInv, ThreadsInv,
     ResultInv, OrderInv, DoneInv

\* No step breaks the invariant, with any faults.
THEOREM WriterStep == WriterInv /\ [Next]_vars => WriterInv'
<1> SUFFICES ASSUME WriterInv, [Next]_vars PROVE WriterInv'
  OBVIOUS
<1>1. CASE OpenSource \/ HashSource \/ OpenArchive \/ TellHeaderEnd \/ Flush
  BY <1>1, OpenSourceKeeps, OpenArchiveKeeps, TellKeeps, FlushKeeps
<1>2. CASE StartBatch \/ ReadFails \/ WriteTracks \/ WriteStripe \/ StripesWritten
  BY <1>2, StartBatchKeeps, ReadFailsKeeps, WriteTracksKeeps, WriteStripeKeeps, StripesWrittenKeeps
<1>3. CASE Abandon \/ WriteMirror \/ Close \/ Finish
  BY <1>3, EndKeeps
<1>4. CASE ReadThrows \/ JoinThrows \/ Crash
  BY <1>4, DiesKeeps DEF ReadThrows, JoinThrows, Crash
<1>5. ASSUME NEW u \in Units, Thread(u) PROVE WriterInv'
  <2>1. CASE EncoderReadsNothing(u)
    BY <2>1, DiesKeeps DEF EncoderReadsNothing
  <2> QED
    BY <1>5, <2>1, ThreadKeeps DEF Thread
<1>6. CASE Ended \/ UNCHANGED vars
  BY <1>6, StutterKeeps DEF Ended
<1> QED
  BY <1>1, <1>2, <1>3, <1>4, <1>5, <1>6 DEF Next, Main

\* The invariant holds for every job, whatever fails and in every order of the threads:
\* until a unit fails, disk and stream hold the packets of the units written, in order
\* (create.cpp:156-257, 426-491).
THEOREM WriterInvariance == Spec => []WriterInv
<1>1. WriterInv /\ [Next]_vars => WriterInv'
  BY WriterStep
<1> QED
  BY <1>1, WriterInit, PTL DEF Spec
------------------------------------------------------------------------------
(* The promise                                                             *)

\* What ArchiveSpec sees of the archive and of the report.
Seen ==
  IF ~exists THEN "none"
  ELSE IF archive = <<Old>> THEN "old"
  ELSE IF archive = WholeArchive THEN "whole"
  ELSE "partial"
Told ==
  IF badbit /\ exists /\ report \in {"done", "error"} THEN "died" ELSE report

\* The steps of ArchiveSpec, of what it sees.
Begins == Told = "running" /\ Seen \in {"none", "old"} /\ Seen' = "partial" /\ Told' = Told
Commits == Told = "running" /\ Seen = "partial" /\ Seen' = "whole" /\ Told' = Told
Announces == Told = "running" /\ Seen = "whole" /\ Told' = "done" /\ Seen' = Seen
Fails ==
  /\ Told = "running" /\ Seen # "whole"
  /\ Seen' = IF Seen = "partial" THEN "none" ELSE Seen
  /\ Told' = "error"
Ends == Told = "running" /\ Told' = "died" /\ Seen' = Seen
Stutters == Seen' = Seen /\ Told' = Told

Promised == Begins \/ Commits \/ Announces \/ Fails \/ Ends \/ Stutters

\* These are the steps of ArchiveSpec.
LEMMA PromisedIsPromise == Promised => [Promise!Next]_(Promise!vars)
BY DEF Promised, Begins, Commits, Announces, Fails, Ends, Stutters, Seen, Told,
   Promise!Next, Promise!Begin, Promise!Commit, Promise!Announce, Promise!Fail,
   Promise!Die, Promise!vars

\* Nothing is seen of a step that changes neither the archive nor what is said of it.
LEMMA Unseen ==
  ASSUME UNCHANGED <<job, exists, archive, badbit, report>>
  PROVE  Promised
BY JobSame DEF Promised, Stutters, Seen, Told

\* The new archive is never taken for the old one.
LEMMA SeenNew ==
  ASSUME WriterInv, pc \in WriterPcs
  PROVE  /\ report = "running" /\ Told = "running" /\ exists
         /\ Seen = IF archive = WholeArchive THEN "whole" ELSE "partial"
<1>1. exists /\ archive \in Seq(Parts) /\ report = "running"
  BY DEF WriterInv, EndsInv, WriterPcs
<1>2. archive # <<Old>>
  BY <1>1, NotOld
<1> QED
  BY <1>1, <1>2 DEF Seen, Told

\* Before it is whole the footer has not been written.
LEMMA SeenPartial ==
  ASSUME WriterInv, pc \in {"tell", "batch", "join"}
  PROVE  Seen = "partial"
<1>1. archive \in Seq(BodyParts) /\ job \in Jobs
  BY DEF WriterInv, FooterInv, WriterTypeOK
<1>2. archive # WholeArchive
  BY <1>1, NotWhole
<1> QED
  BY <1>2, SeenNew DEF WriterPcs

\* Before the batches: the archive is begun, or the run fails and leaves the old one.
LEMMA PromiseOpening ==
  ASSUME WriterInv, OpenSource \/ HashSource \/ OpenArchive
  PROVE  Promised
<1>1. /\ pc \in {"source", "hash", "open"} /\ report = "running" /\ UNCHANGED <<job, badbit>>
      /\ Untouched /\ ~badbit /\ OldArchive \in BOOLEAN
  <2>1. pc \in {"source", "hash", "open"} /\ UNCHANGED <<job, badbit>>
    BY DEF OpenSource, HashSource, OpenArchive, streamVars
  <2>2. OldArchive \in BOOLEAN
    BY WriterAssumption DEF WriterInv, WriterTypeOK, OldArchive, JobType
  <2> QED
    BY <2>1, <2>2 DEF WriterInv, EndsInv
<1>2. Told = "running" /\ Seen \in {"none", "old"}
  BY <1>1 DEF Untouched, Seen, Told
<1>3. CASE UNCHANGED <<exists, archive>> /\ report' \in {"running", "error"}
  <2>1. Seen' = Seen
    BY <1>1, <1>3, JobSame DEF Seen
  <2>2. Told' = report'
    BY <1>1 DEF Told
  <2> QED
    BY <1>2, <1>3, <2>1, <2>2 DEF Promised, Fails, Stutters
<1>4. CASE exists' = TRUE /\ archive' = <<>> /\ UNCHANGED report
  <2>1. Len(<<>>) = 0 /\ Len(<<Old>>) = 1 /\ Len(WholeArchive) > 2
    BY <1>1, WholeFacts DEF WriterInv, WriterTypeOK
  <2>2. <<>> # <<Old>> /\ <<>> # WholeArchive
    BY <2>1
  <2>3. Seen' = "partial"
    BY <1>1, <1>4, <2>2, JobSame DEF Seen
  <2>4. Told' = "running"
    BY <1>1, <1>4 DEF Told
  <2> QED
    BY <1>2, <2>3, <2>4 DEF Promised, Begins
<1> QED
  BY <1>1, <1>3, <1>4 DEF OpenSource, HashSource, OpenArchive, Return, diskVars

\* An archive whose header could not be written is removed, or left by a failed stream.
LEMMA PromiseTell ==
  ASSUME WriterInv, TellHeaderEnd
  PROVE  Promised
<1>1. pc = "tell" /\ UNCHANGED <<job, badbit>>
  BY DEF TellHeaderEnd, streamVars
<1>2. report = "running" /\ Told = "running" /\ Seen = "partial" /\ exists
  BY <1>1, SeenNew, SeenPartial DEF WriterPcs
<1>3. CASE ~badbit
  BY <1>1, <1>3, Unseen DEF TellHeaderEnd, diskVars
<1>4. CASE badbit /\ Striped
  <2>1. exists' = FALSE /\ report' = "error"
    BY <1>4 DEF TellHeaderEnd, RemoveArchive, Return
  <2>2. Seen' = "none" /\ Told' = "error"
    BY <2>1 DEF Seen, Told
  <2> QED
    BY <1>2, <2>2 DEF Promised, Fails
<1>5. CASE badbit /\ ~Striped
  <2>1. UNCHANGED <<exists, archive>> /\ report' = "error"
    BY <1>5 DEF TellHeaderEnd, Return
  <2>2. Seen' = Seen /\ Told' = "died"
    BY <1>1, <1>2, <1>5, <2>1, JobSame DEF Seen, Told
  <2> QED
    BY <1>2, <2>2 DEF Promised, Ends
<1> QED
  BY <1>3, <1>4, <1>5

\* The last part to be written makes the archive whole.
LEMMA PromiseFlush ==
  ASSUME WriterInv, WriterInv', Flush
  PROVE  Promised
<1>1. UNCHANGED <<job, pc, exists, report>> /\ buffer # <<>> /\ pc \in WriterPcs /\ pc # "cleanup"
  BY DEF Flush, WriterInv, EndsInv, WriterPcs
<1>2. report = "running" /\ Told = "running" /\ Told' = "running" /\ exists
  BY <1>1, SeenNew DEF Told
<1>3. CASE archive' = archive
  BY <1>1, <1>2, <1>3, JobSame DEF Promised, Stutters, Seen
<1>4. CASE archive' # archive
  <2>1. ~badbit
    BY <1>1 DEF WriterInv, EndsInv
  <2>2. Seen = "partial"
    <3>1. CASE pc \in {"tell", "batch", "join"}
      BY <3>1, SeenPartial
    <3>2. CASE pc = "close"
      <4>1. archive \o buffer = WholeArchive
        BY <2>1, <3>2 DEF WriterInv, OrderInv, FooterInv, WriterPcs
      <4>2. archive \in Seq(Parts) /\ buffer \in Seq(Parts)
        BY <1>1 DEF WriterInv, EndsInv, WriterTypeOK
      <4>3. Len(archive \o buffer) = Len(archive) + Len(buffer) /\ Len(buffer) > 0
            /\ Len(archive) \in Nat /\ Len(buffer) \in Nat
        BY <1>1, <4>2, ConcatProperties, EmptySeq
      <4>4. archive # WholeArchive
        BY <4>1, <4>3
      <4> QED
        BY <1>1, <4>4, SeenNew
    <3> QED
      BY <1>1, <3>1, <3>2 DEF WriterPcs
  <2>3. Seen' \in {"partial", "whole"}
    <3>1. archive' \in Seq(Parts) /\ exists'
      BY <1>1, <1>2 DEF WriterInv, EndsInv, WriterPcs
    <3>2. archive' # <<Old>>
      BY <3>1, NotOld
    <3> QED
      BY <3>1, <3>2 DEF Seen
  <2> QED
    BY <1>2, <2>2, <2>3 DEF Promised, Commits, Stutters
<1> QED
  BY <1>3, <1>4

\* A death.
LEMMA PromiseDies ==
  ASSUME WriterInv, ReadThrows \/ JoinThrows \/ Crash \/ (\E u \in Units : EncoderReadsNothing(u))
  PROVE  Promised
<1>1. /\ UNCHANGED <<job, exists, archive, badbit>> /\ report' = "died"
      /\ report \in {"running", "died"}
  <2>1. Dies
    BY DEF ReadThrows, JoinThrows, Crash, EncoderReadsNothing
  <2>2. report \in {"running", "died"}
    BY DEF ReadThrows, JoinThrows, Crash, EncoderReadsNothing, AtBatch, WriterInv, EndsInv, ThreadsInv
  <2> QED
    BY <2>1, <2>2 DEF Dies, Return, diskVars
<1> QED
  BY <1>1, JobSame DEF Promised, Ends, Stutters, Seen, Told

\* A failure takes the archive along; a success finds it whole.
LEMMA PromiseEnd ==
  ASSUME WriterInv, WriterInv', Abandon \/ Finish
  PROVE  Promised
<1>1. CASE Abandon
  <2>1. pc = "batch" /\ exists' = FALSE /\ report' = "error"
    BY <1>1 DEF Abandon, BatchesOver, RemoveArchive, Return
  <2>2. Told = "running" /\ Seen = "partial"
    BY <2>1, SeenNew, SeenPartial DEF WriterPcs
  <2>3. Told' = "error" /\ Seen' = "none"
    BY <2>1 DEF Told, Seen
  <2> QED
    BY <2>2, <2>3 DEF Promised, Fails
<1>2. CASE Finish
  <2>1. pc = "cleanup" /\ report' = "done" /\ UNCHANGED <<job, exists, archive, badbit>>
    BY <1>2 DEF Finish, Return, streamVars
  <2>2. Told = "running" /\ exists /\ Seen = IF archive = WholeArchive THEN "whole" ELSE "partial"
    BY <2>1, SeenNew DEF WriterPcs
  <2>3. Seen' = Seen
    BY <2>1, JobSame DEF Seen
  <2>4. Told' = IF badbit THEN "died" ELSE "done"
    BY <2>1, <2>2 DEF Told
  <2>5. badbit \/ archive = WholeArchive
    BY <2>1, JobSame DEF WriterInv, DoneInv
  <2> QED
    BY <2>2, <2>3, <2>4, <2>5 DEF Promised, Ends, Announces
<1> QED
  BY <1>1, <1>2

\* Every step is one of ArchiveSpec or cannot be seen.
LEMMA PromiseStep ==
  ASSUME WriterInv, WriterInv', [Next]_vars
  PROVE  Promised
<1>1. CASE OpenSource \/ HashSource \/ OpenArchive
  BY <1>1, PromiseOpening
<1>2. CASE TellHeaderEnd \/ Flush
  BY <1>2, PromiseTell, PromiseFlush
<1>3. CASE Abandon \/ Finish
  BY <1>3, PromiseEnd
<1>4. CASE ReadThrows \/ JoinThrows \/ Crash \/ (\E u \in Units : EncoderReadsNothing(u))
  BY <1>4, PromiseDies
<1>5. CASE StartBatch \/ ReadFails \/ WriteTracks \/ WriteStripe \/ StripesWritten
           \/ WriteMirror \/ Close \/ Ended \/ UNCHANGED vars
  <2>1. UNCHANGED <<job, exists, archive, badbit, report>>
    BY <1>5 DEF StartBatch, ReadFails, WriteTracks, WriteStripe, StripesWritten,
       WriteMirror, Close, Ended, EndBatch, vars, diskVars, streamVars
  <2> QED
    BY <2>1, Unseen
<1>6. ASSUME NEW u \in Units, Encode(u) \/ EncoderRefused(u) \/ EncoderThrows(u)
      PROVE  Promised
  <2>1. UNCHANGED <<job, exists, archive, badbit, report>>
    BY <1>6 DEF Encode, EncoderRefused, EncoderThrows, ThreadVars, diskVars, streamVars
  <2> QED
    BY <2>1, Unseen
<1> QED
  BY <1>1, <1>2, <1>3, <1>4, <1>5, <1>6 DEF Next, Main, Thread

\* The archive is none or an old one.
LEMMA PromiseInit == Init => Promise!Init
<1> SUFFICES ASSUME Init PROVE Promise!Init
  OBVIOUS
<1>1. OldArchive \in BOOLEAN
  BY WriterAssumption DEF Init, OldArchive, JobType
<1> QED
  BY <1>1 DEF Init, Promise!Init

\* Creating an archive implements ArchiveSpec for every job: whatever fails, wherever the
\* process dies, however batches and threads run, what is announced is whole, has each
\* packet of each encoder in its place, and a reported error leaves no part of an archive.
\* A run whose stream has failed counts as one that died (create.cpp:313-320).
THEOREM KeepsPromise == Spec => PromiseSpec
<1>1. WriterInv /\ WriterInv' /\ [Next]_vars => [Promise!Next]_(Promise!vars)
  BY PromiseStep, PromisedIsPromise
<1> QED
  BY <1>1, PromiseInit, WriterInvariance, PTL DEF Spec, PromiseSpec, Promise!Spec
-----------------------------------------------------------------------------
(* What is on the disk when the process has ended                            *)

\* The packets of the units there are, and what is written of them.
OfJob == {p \in Packets : p[2] \in Units /\ p[3] \in DOMAIN PacketCounts[p[2]]}
JobParts == {Header, Footer} \cup OfJob

\* The disk and the stream hold parts of this archive; the footer is there only
\* when all of it is.
DiskInv ==
  /\ buffer \in Seq(JobParts)
  /\ archive = <<Old>> \/ archive \in Seq(JobParts)
  /\ \A k \in DOMAIN archive : archive[k] = Footer => archive = WholeArchive

\* The footer is the last part of an archive and no other.
LEMMA FooterAtEnd ==
  ASSUME job \in Jobs, NEW k \in DOMAIN WholeArchive, WholeArchive[k] = Footer
  PROVE  k = Len(WholeArchive)
<1> DEFINE b == Body(Count)
           t == <<Header, Footer>>
           w == WholeArchive
<1>1. w = b \o t /\ w \in Seq(Parts)
  BY WholeFacts
<1>2. b \in Seq({Header} \cup Packets) /\ b \in Seq(Parts)
  BY JobFacts, BodyType
<1>3. t \in Seq(Parts) /\ Len(t) = 2 /\ t[1] = Header
  BY DEF Parts
<1> HIDE DEF b, t, w
<1>4. /\ Len(w) = Len(b) + 2
      /\ \A i \in 1 .. Len(b) : w[i] = b[i]
      /\ \A i \in 1 .. 2 : w[Len(b) + i] = t[i]
  <2>1. /\ Len(w) = Len(b) + Len(t)
        /\ \A i \in 1 .. Len(b) : w[i] = b[i]
        /\ \A i \in 1 .. Len(t) : w[Len(b) + i] = t[i]
    <3>1. PICK c, d : c = b /\ d = t
      OBVIOUS
    <3>2. c \in Seq(Parts) /\ d \in Seq(Parts) /\ w = c \o d
      BY <1>1, <1>2, <1>3, <3>1
    <3>3. /\ Len(w) = Len(c) + Len(d)
          /\ \A i \in 1 .. Len(c) : w[i] = c[i]
          /\ \A i \in 1 .. Len(d) : w[Len(c) + i] = d[i]
      BY <3>2, ConcatPlaces
    <3> QED
      BY <3>1, <3>3
  <2> QED
    BY <1>3, <2>1
<1>5. k \in 1 .. Len(w) /\ Len(b) \in Nat /\ w[k] = Footer
  BY <1>1, <1>2 DEF w
<1>6. k > Len(b)
  <2> SUFFICES ASSUME k <= Len(b) PROVE FALSE
    BY <1>5
  <2>1. k \in 1 .. Len(b) /\ w[k] = b[k]
    BY <1>4, <1>5
  <2>2. b[k] \in {Header} \cup Packets
    BY <1>2, <2>1
  <2> QED
    BY <1>5, <2>1, <2>2, PartsDiffer
<1>7. k # Len(b) + 1
  <2> SUFFICES ASSUME k = Len(b) + 1 PROVE FALSE
    OBVIOUS
  <2>1. w[k] = t[1]
    BY <1>4, <1>5
  <2> QED
    BY <1>3, <1>5, <2>1, PartsDiffer
<1> QED
  BY <1>4, <1>5, <1>6, <1>7 DEF w

\* What a beginning of an archive holds behind which nothing is missing.
LEMMA BeginningWithFooter ==
  ASSUME job \in Jobs, NEW a \in Seq(Parts), NEW b \in Seq(Parts), a \o b = WholeArchive,
         NEW k \in DOMAIN a, a[k] = Footer
  PROVE  a = WholeArchive
<1> DEFINE w == a \o b
<1>1. /\ w \in Seq(Parts) /\ Len(w) = Len(a) + Len(b)
      /\ \A i \in 1 .. Len(a) : w[i] = a[i]
      /\ Len(a) \in Nat /\ Len(b) \in Nat /\ k \in 1 .. Len(a)
  <2> HIDE DEF w
  <2>1. w = a \o b
    BY DEF w
  <2> QED
    BY SMTT(20), <2>1, ConcatPlaces
<1> HIDE DEF w
<1>2. w = WholeArchive
  BY DEF w
<1>3. k \in DOMAIN w /\ w[k] = Footer
  BY <1>1
<1>4. k = Len(w)
  BY <1>2, <1>3, FooterAtEnd
<1>5. Len(b) = 0
  BY <1>1, <1>4
<1>6. b = <<>>
  BY <1>5, EmptySeq
<1>7. a \o <<>> = a
  BY ConcatEmptySeq
<1> QED
  BY <1>6, <1>7

\* What the threads have made are packets of their units.
LEMMA ResultsOfJob ==
  ASSUME WriterInv, NEW u \in Units
  PROVE  result[u] \in Seq(Seq(OfJob))
<1> DEFINE n == Len(result[u])
<1>1. /\ result[u] \in Seq(Seq(Packets)) /\ n \in Nat /\ n <= Len(PacketCounts[u])
      /\ \A e \in 1 .. n : result[u][e] = PacketsOfEncoder(u, e)
      /\ DOMAIN PacketCounts[u] = 1 .. Len(PacketCounts[u]) /\ Len(PacketCounts[u]) \in Nat
      /\ job \in Jobs
  BY JobFacts DEF WriterInv, WriterTypeOK, ResultInv
<1>2. \A e \in 1 .. n : result[u][e] \in Seq(OfJob)
  <2> SUFFICES ASSUME NEW e \in 1 .. n PROVE PacketsOfEncoder(u, e) \in Seq(OfJob)
    BY <1>1
  <2>1. e \in 1 .. Len(PacketCounts[u])
    BY <1>1
  <2>2. PacketCounts[u][e] \in Nat /\ u \in Nat
    BY SMTT(20), <1>1, <2>1, JobFacts
  <2>3. \A i \in 1 .. PacketCounts[u][e] : Packet(u, e, i) \in OfJob
    BY SMTT(20), <1>1, <2>1, <2>2 DEF Packet, Packets, OfJob
  <2> QED
    BY <2>2, <2>3 DEF PacketsOfEncoder
<1> QED
  BY <1>1, <1>2

\* What is written becomes a part of the stream.
LEMMA WritesJobParts ==
  ASSUME NEW s \in Seq(JobParts), buffer \in Seq(JobParts), Write(s)
  PROVE  buffer' \in Seq(JobParts)
<1>1. buffer \o s \in Seq(JobParts)
  BY ConcatProperties
<1> QED
  BY <1>1 DEF Write

\* Nothing changes but the stream.
LEMMA DiskSame ==
  ASSUME DiskInv, UNCHANGED <<job, archive>>, buffer' \in Seq(JobParts)
  PROVE  DiskInv'
<1>1. JobParts' = JobParts /\ WholeArchive' = WholeArchive
  BY JobSame DEF JobParts, OfJob
<1> QED
  BY <1>1 DEF DiskInv

\* The archive is removed or emptied.
LEMMA DiskEmpty ==
  ASSUME job' = job, archive' = <<>>, buffer' \in Seq(JobParts)
  PROVE  DiskInv'
<1>1. JobParts' = JobParts
  BY JobSame DEF JobParts, OfJob
<1>2. <<>> \in Seq(JobParts) /\ DOMAIN <<>> = {}
  OBVIOUS
<1>3. archive' \in Seq(JobParts)' /\ DOMAIN archive' = {}
  BY <1>1, <1>2, Zenon
<1> QED
  BY <1>1, <1>3 DEF DiskInv

\* The stream writes its first part.
LEMMA DiskFlush ==
  ASSUME WriterInv, DiskInv, Flush
  PROVE  DiskInv'
<1>1. /\ buffer # <<>> /\ pc \in {"tell", "batch", "join", "close"} /\ ~badbit /\ job' = job
      /\ archive \in Seq(Parts) /\ buffer \in Seq(Parts) /\ buffer \in Seq(JobParts)
      /\ job \in Jobs
  BY DEF Flush, WriterInv, WriterTypeOK, EndsInv, WriterPcs, DiskInv
<1>2. archive \in Seq(JobParts)
  BY <1>1, NotOld DEF DiskInv
<1>3. JobParts' = JobParts /\ WholeArchive' = WholeArchive
  BY <1>1, JobSame DEF JobParts, OfJob
<1>4. CASE archive' = Append(archive, Head(buffer)) /\ buffer' = Tail(buffer)
  <2>1. archive' \in Seq(JobParts) /\ buffer' \in Seq(JobParts)
    BY <1>1, <1>2, <1>4, StreamMoves
  <2>2. archive' \in Seq(Parts) /\ buffer' \in Seq(Parts) /\ archive' \o buffer' = archive \o buffer
    BY <1>1, <1>4, StreamMoves
  <2>3. ASSUME NEW k \in DOMAIN archive', archive'[k] = Footer PROVE archive' = WholeArchive
    <3>1. CASE pc = "close"
      <4>1. archive \o buffer = WholeArchive
        BY <1>1, <3>1 DEF WriterInv, OrderInv, FooterInv, WriterPcs
      <4> QED
        BY <1>1, <2>2, <2>3, <4>1, BeginningWithFooter
    <3>2. CASE pc # "close"
      <4>1. archive' \in Seq(BodyParts)
        BY <1>1, <1>4, <3>2, StreamMoves DEF WriterInv, FooterInv
      <4>2. archive'[k] \in BodyParts
        BY <2>3, <4>1
      <4> QED
        BY <2>3, <4>2, PartsDiffer DEF BodyParts
    <3> QED
      BY <3>1, <3>2
  <2> QED
    BY <1>3, <2>1, <2>3 DEF DiskInv
<1>5. CASE archive' = archive /\ buffer' = <<>>
  <2>1. <<>> \in Seq(JobParts)
    OBVIOUS
  <2>2. buffer' \in Seq(JobParts)
    BY <1>5, <2>1, Zenon
  <2> QED
    BY <1>1, <1>5, <2>2, DiskSame
<1> QED
  BY <1>4, <1>5 DEF Flush

\* A batch of tracks, or one stripe, goes to the stream.
LEMMA DiskWrites ==
  ASSUME WriterInv, DiskInv, WriteTracks \/ WriteStripe
  PROVE  DiskInv'
<1>1. UNCHANGED <<job, archive>> /\ pc = "join" /\ buffer \in Seq(JobParts) /\ job \in Jobs
  BY DEF WriteTracks, WriteStripe, EndBatch, diskVars, DiskInv, WriterInv, WriterTypeOK
<1>2. ASSUME NEW s, s \in Seq(OfJob), Write(s) PROVE buffer' \in Seq(JobParts)
  <2>1. OfJob \subseteq JobParts
    BY DEF JobParts
  <2>2. s \in Seq(JobParts)
    BY <1>2, <2>1, SeqMonotonic
  <2> QED
    BY <1>1, <1>2, <2>2, WritesJobParts
<1>3. CASE WriteStripe
  <2>1. PICK u \in Batch : Write(FlattenSeq(result[u]))
    BY <1>3 DEF WriteStripe
  <2>2. FlattenSeq(result[u]) \in Seq(OfJob)
    BY ResultsOfJob, FlattenType DEF Batch
  <2>3. buffer' \in Seq(JobParts)
    BY <1>2, <2>1, <2>2
  <2> QED
    BY <1>1, <2>3, DiskSame
<1>4. CASE WriteTracks /\ encodeFailed
  <2>1. buffer' = buffer
    BY <1>4 DEF WriteTracks
  <2> QED
    BY <1>1, <2>1, DiskSame
<1>5. CASE WriteTracks /\ ~encodeFailed
  <2> DEFINE s == [i \in 1 .. Cardinality(Batch) |-> FlattenSeq(result[batchStart + i - 1])]
  <2>1. Write(FlattenSeq(s))
    BY <1>5 DEF WriteTracks
  <2>2. PICK last \in Units : /\ batchStart <= last
                              /\ Cardinality(Batch) = last - batchStart + 1
    BY <1>1, BatchFacts DEF WriterInv, ThreadsInv
  <2>3. batchStart \in Units /\ Units = 1 .. Count /\ Count \in Nat
    BY <1>1, JobFacts DEF WriterInv, ThreadsInv
  <2>4. \A i \in 1 .. Cardinality(Batch) : batchStart + i - 1 \in Units
    BY <2>2, <2>3
  <2>5. \A i \in 1 .. Cardinality(Batch) : FlattenSeq(result[batchStart + i - 1]) \in Seq(OfJob)
    <3> TAKE i \in 1 .. Cardinality(Batch)
    <3> DEFINE v == batchStart + i - 1
    <3>1. v \in Units
      BY <2>4
    <3> HIDE DEF v
    <3>2. result[v] \in Seq(Seq(OfJob))
      BY <3>1, ResultsOfJob
    <3>3. FlattenSeq(result[v]) \in Seq(OfJob)
      BY <3>2, FlattenType
    <3> QED
      BY <3>3 DEF v
  <2>6. s \in Seq(Seq(OfJob))
    BY <2>2, <2>3, <2>5
  <2> HIDE DEF s
  <2>7. FlattenSeq(s) \in Seq(OfJob)
    BY <2>6, FlattenType
  <2>8. buffer' \in Seq(JobParts)
    BY <1>2, <2>1, <2>7
  <2> QED
    BY <1>1, <2>8, DiskSame
<1> QED
  BY <1>3, <1>4, <1>5

\* No step of the writer breaks the invariant.
LEMMA DiskStep ==
  ASSUME WriterInv, DiskInv, [Next]_vars
  PROVE  DiskInv'
<1>1. /\ buffer \in Seq(JobParts) /\ <<>> \in Seq(JobParts)
      /\ <<Header>> \in Seq(JobParts) /\ <<Header, Footer>> \in Seq(JobParts)
  BY DEF DiskInv, JobParts
<1>2. buffer' = <<>> => buffer' \in Seq(JobParts)
  BY <1>1, Zenon
<1>3. CASE UNCHANGED <<job, archive>> /\ buffer' \in {buffer, <<>>}
  BY <1>1, <1>2, <1>3, DiskSame
<1>4. CASE OpenArchive
  <2>1. CASE archive' = <<>> /\ Write(<<Header>>) /\ job' = job
    BY <1>1, <2>1, WritesJobParts, DiskEmpty
  <2>2. CASE UNCHANGED <<job, archive, buffer>>
    BY <1>3, <2>2
  <2> QED
    BY <1>4, <2>1, <2>2 DEF OpenArchive
<1>5. CASE TellHeaderEnd
  <2>1. UNCHANGED <<job, buffer>> /\ (archive' = <<>> \/ archive' = archive)
    BY <1>5 DEF TellHeaderEnd, RemoveArchive, diskVars, streamVars
  <2> QED
    BY <1>1, <1>3, <2>1, DiskEmpty
<1>6. CASE Abandon
  <2>1. job' = job /\ buffer' = <<>> /\ archive' = <<>>
    BY <1>6 DEF Abandon, RemoveArchive
  <2> QED
    BY <1>2, <2>1, DiskEmpty
<1>7. CASE WriteMirror
  <2>1. UNCHANGED <<job, archive>> /\ Write(<<Header, Footer>>)
    BY <1>7 DEF WriteMirror, diskVars
  <2> QED
    BY <1>1, <2>1, WritesJobParts, DiskSame
<1>8. CASE ReadThrows \/ JoinThrows \/ Crash \/ (\E u \in Units : EncoderReadsNothing(u))
  <2>1. Dies
    BY <1>8 DEF ReadThrows, JoinThrows, Crash, EncoderReadsNothing
  <2> QED
    BY <1>3, <2>1 DEF Dies, diskVars
<1>9. CASE \/ OpenSource \/ HashSource \/ StartBatch \/ ReadFails \/ StripesWritten
           \/ Close \/ Finish \/ Ended \/ UNCHANGED vars
  <2>1. UNCHANGED <<job, archive, buffer>>
    BY <1>9 DEF OpenSource, HashSource, StartBatch, ReadFails, StripesWritten, EndBatch,
       Close, Finish, Ended, vars, diskVars, streamVars
  <2> QED
    BY <1>3, <2>1
<1>10. ASSUME NEW u \in Units, Encode(u) \/ EncoderRefused(u) \/ EncoderThrows(u)
       PROVE  DiskInv'
  <2>1. UNCHANGED <<job, archive, buffer>>
    BY <1>10 DEF Encode, EncoderRefused, EncoderThrows, ThreadVars, diskVars, streamVars
  <2> QED
    BY <1>3, <2>1
<1> QED
  BY <1>4, <1>5, <1>6, <1>7, <1>8, <1>9, <1>10, DiskFlush, DiskWrites
     DEF Next, Main, Thread

\* Before the archive is open.
LEMMA DiskInit == Init => DiskInv
<1> SUFFICES ASSUME Init PROVE DiskInv
  OBVIOUS
<1>1. <<>> \in Seq(JobParts) /\ DOMAIN <<>> = {}
  OBVIOUS
<1>2. buffer \in Seq(JobParts)
  BY <1>1, Zenon DEF Init
<1>3. CASE archive = <<>>
  BY <1>1, <1>2, <1>3, Zenon DEF DiskInv
<1>4. CASE archive = <<Old>>
  <2>1. \A k \in DOMAIN archive : archive[k] = Old
    BY <1>4
  <2> QED
    BY <1>2, <1>4, <2>1, PartsDiffer DEF DiskInv
<1> QED
  BY <1>3, <1>4 DEF Init
-----------------------------------------------------------------------------
(* Cells                                                                     *)

\* What an archive of this job is made of, and what damage makes of it.
PlainCells == {Num(v) : v \in Nat}
BlockCell(a, b, c) == [n |-> 3, of |-> << Num(a), Num(b), Num(c) >>]
BlockCells == {BlockCell(a, b, c) : a \in Nat, b \in Nat, c \in Nat}
BlockHashes == {HashOf(<<b>>) : b \in BlockCells}
Cells == PlainCells \cup BlockCells \cup BlockHashes \cup {HashOf(BodyCells)}

\* There are fewer tracks than a header has cells.  The footer is a number like any
\* other: a torn archive that ends with such a number would be believed.
FewTracks == \A j \in Jobs : Len(IF j.striped THEN j.packetCounts[1] ELSE j.packetCounts) < 12

\* What there is when only the footer is the size of a header.
OtherCells == {c \in Cells : c.n # 12}

\* The tracks of the packets are below their number.
LEMMA TrackFacts ==
  ASSUME job \in Jobs
  PROVE  /\ Tracks \in Nat \ {0}
         /\ \A p \in OfJob : PacketTrack(p) \in Nat /\ PacketTrack(p) < Tracks
<1>1. /\ Units = 1 .. Count /\ Count \in Nat \ {0} /\ 1 \in Units
      /\ \A u \in Units : Len(PacketCounts[u]) \in Nat \ {0}
                          /\ DOMAIN PacketCounts[u] = 1 .. Len(PacketCounts[u])
  BY JobFacts
<1>2. Striped => \A u \in Units : Len(PacketCounts[u]) <= Len(PacketCounts[1])
  BY WriterAssumption DEF Striped, Units, PacketCounts
<1>3. Tracks = IF Striped THEN Len(PacketCounts[1]) ELSE Count
  BY DEF Tracks, Count
<1>4. ASSUME NEW p \in OfJob PROVE PacketTrack(p) \in Nat /\ PacketTrack(p) < Tracks
  <2>1. PICK u, e : /\ u \in Units /\ e \in 1 .. Len(PacketCounts[u])
                    /\ p[2] = u /\ p[3] = e
    BY <1>1 DEF OfJob
  <2>2. CASE Striped
    <3>1. PacketTrack(p) = e - 1 /\ Tracks = Len(PacketCounts[1])
      BY <2>1, <2>2, <1>3 DEF PacketTrack
    <3>2. Len(PacketCounts[u]) <= Len(PacketCounts[1]) /\ Len(PacketCounts[u]) \in Nat
          /\ Len(PacketCounts[1]) \in Nat
      BY <1>1, <1>2, <2>1, <2>2
    <3> QED
      BY <2>1, <3>1, <3>2
  <2>3. CASE ~Striped
    <3>1. PacketTrack(p) = u - 1 /\ Tracks = Count
      BY <2>1, <2>3, <1>3 DEF PacketTrack
    <3> QED
      BY <1>1, <2>1, <3>1
  <2> QED
    BY <2>2, <2>3
<1> QED
  BY <1>1, <1>3, <1>4

\* The header, cell by cell.
LEMMA HeaderFacts ==
  ASSUME job \in Jobs
  PROVE  /\ HeaderSize = 12 /\ Len(HeaderCells) = 12 /\ DOMAIN HeaderCells = 1 .. 12
         /\ Len(BodyCells) = 11 /\ DOMAIN BodyCells = 1 .. 11 /\ BodyCells \in Seq(PlainCells)
         /\ \A i \in 1 .. 11 : HeaderCells[i] = BodyCells[i]
         /\ HeaderCells[12] = HashOf(BodyCells)
         /\ BodyCells[1] = Num(90) /\ BodyCells[3] = Num(Tracks) /\ BodyCells[5] = Num(1)
         /\ BodyCells[7] = Num(1) /\ BodyCells[8] = Num(1) /\ BodyCells[9] = Num(1)
         /\ \A i \in {1, 2, 4, 5, 6, 7, 8, 9, 10, 11} : BodyCells[i].n # 12
<1>1. Tracks \in Nat
  BY TrackFacts
<1>2. \A v \in Nat : Num(v) \in PlainCells /\ Num(v).n = v
  BY DEF PlainCells, Num
<1>3. /\ Len(BodyCells) = 11 /\ BodyCells[1] = Num(90) /\ BodyCells[2] = Num(1)
      /\ BodyCells[3] = Num(Tracks) /\ BodyCells[4] = Num(0) /\ BodyCells[5] = Num(1)
      /\ BodyCells[6] = Num(70) /\ BodyCells[7] = Num(1) /\ BodyCells[8] = Num(1)
      /\ BodyCells[9] = Num(1) /\ BodyCells[10] = Num(71) /\ BodyCells[11] = Num(72)
  BY DEF BodyCells, WHPAR_MAGIC
<1>4. BodyCells \in Seq(PlainCells)
  BY <1>1, <1>2 DEF BodyCells, WHPAR_MAGIC
<1>5. /\ Len(HeaderCells) = 12
      /\ \A i \in 1 .. 11 : HeaderCells[i] = BodyCells[i]
      /\ HeaderCells[12] = HashOf(BodyCells)
  <2>1. PICK b, h, X : b = BodyCells /\ h = HashOf(BodyCells) /\ X = PlainCells \cup {h}
    OBVIOUS
  <2>2. b \in Seq(X) /\ h \in X /\ Len(b) = 11 /\ HeaderCells = Append(b, h)
    BY <1>3, <1>4, <2>1 DEF HeaderCells
  <2>3. /\ Len(Append(b, h)) = 11 + 1
        /\ \A i \in 1 .. 11 : Append(b, h)[i] = b[i]
        /\ Append(b, h)[11 + 1] = h
    <3>1. b \in Seq(X) /\ h \in X
      BY <2>2
    <3>2. /\ Len(Append(b, h)) = Len(b) + 1
          /\ \A i \in 1 .. Len(b) : Append(b, h)[i] = b[i]
          /\ Append(b, h)[Len(b) + 1] = h
      BY <3>1, AppendProperties
    <3> QED
      BY <2>2, <3>2
  <2> QED
    BY <2>1, <2>2, <2>3
<1>6. DOMAIN HeaderCells = 1 .. 12
  <2>1. HeaderCells \in Seq(PlainCells \cup {HashOf(BodyCells)})
    BY <1>4 DEF HeaderCells
  <2> QED
    BY <1>5, <2>1
<1>7. \A i \in {1, 2, 4, 5, 6, 7, 8, 9, 10, 11} : BodyCells[i].n # 12
  BY <1>2, <1>3
<1> QED
  BY <1>3, <1>4, <1>5, <1>6, <1>7 DEF HeaderSize

\* A packet, cell by cell.
LEMMA PacketFacts ==
  ASSUME job \in Jobs, NEW p \in OfJob
  PROVE  /\ PacketCells(p) \in Seq(Cells) /\ Len(PacketCells(p)) = 5
         /\ PacketCells(p)[1] = Num(91) /\ PacketCells(p)[2] = Num(1)
         /\ PacketCells(p)[3] = Num(PacketTrack(p)) /\ PacketCells(p)[4] = HashOf(Block(p))
         /\ PacketCells(p)[5] = Block(p)[1]
         /\ Len(Block(p)) = 1 /\ Block(p) = <<Block(p)[1]>>
         /\ Block(p)[1] \in BlockCells /\ HashOf(Block(p)) \in BlockHashes
<1>1. PacketTrack(p) \in Nat
  BY TrackFacts
<1>2. PICK k \in Nat, l \in Nat, m \in Nat : k = p[2] /\ l = p[3] /\ m = p[4]
  BY DEF OfJob, Packets
<1> PICK b : b = BlockCell(k, l, m)
  OBVIOUS
<1>3. b \in BlockCells /\ Block(p) = <<b>>
  <2>1. b \in BlockCells
    BY DEF BlockCells
  <2>2. Block(p) = <<BlockCell(p[2], p[3], p[4])>>
    BY DEF Block, BlockCell
  <2> QED
    BY <1>2, <2>1, <2>2, Zenon
<1>4. HashOf(<<b>>) \in BlockHashes
  BY <1>3 DEF BlockHashes
<1>5. Num(91) \in Cells /\ Num(1) \in Cells /\ Num(PacketTrack(p)) \in Cells
      /\ HashOf(<<b>>) \in Cells /\ b \in Cells
  BY <1>1, <1>3, <1>4 DEF Cells, PlainCells
<1>6. PICK X, a, d, w : /\ X = Cells /\ d = <<b>> /\ w = PacketCells(p)
                        /\ a = << Num(91), Num(1), Num(PacketTrack(p)), HashOf(<<b>>) >>
  OBVIOUS
<1>7. a \in Seq(X) /\ d \in Seq(X) /\ Len(a) = 4 /\ Len(d) = 1 /\ d[1] = b
  BY <1>5, <1>6
<1>8. w = a \o d
  BY <1>3, <1>6 DEF PacketCells, WHPAR_PKT_MAGIC
<1>9. /\ w \in Seq(X) /\ Len(w) = 4 + 1
      /\ \A i \in 1 .. 4 : w[i] = a[i]
      /\ \A i \in 1 .. 1 : w[4 + i] = d[i]
  <2>1. /\ w \in Seq(X) /\ Len(w) = Len(a) + Len(d)
        /\ \A i \in 1 .. Len(a) : w[i] = a[i]
        /\ \A i \in 1 .. Len(d) : w[Len(a) + i] = d[i]
    <3>1. a \in Seq(X) /\ d \in Seq(X) /\ w = a \o d
      BY <1>7, <1>8
    <3> QED
      BY <3>1, ConcatPlaces
  <2> QED
    BY <1>7, <2>1
<1>10. w[1] = a[1] /\ w[2] = a[2] /\ w[3] = a[3] /\ w[4] = a[4] /\ w[5] = d[1]
  <2>1. w[4 + 1] = d[1] /\ 4 + 1 = 5
    BY <1>9
  <2> QED
    BY <1>9, <2>1
<1> QED
  BY <1>3, <1>4, <1>6, <1>7, <1>9, <1>10
-----------------------------------------------------------------------------
(* Where everything is in a whole archive                                    *)

\* The packets of an encoder, of a unit, and of all units.
LEMMA JobPackets ==
  ASSUME job \in Jobs
  PROVE  FlattenSeq([u \in Units |-> PacketsOf(u)]) \in Seq(OfJob)
<1>1. ASSUME NEW u \in Units, NEW e \in DOMAIN PacketCounts[u]
      PROVE  PacketsOfEncoder(u, e) \in Seq(OfJob)
  <2>1. u \in Nat /\ e \in Nat /\ PacketCounts[u][e] \in Nat
    BY JobFacts
  <2>2. \A i \in 1 .. PacketCounts[u][e] : Packet(u, e, i) \in OfJob
    BY <1>1, <2>1 DEF Packet, Packets, OfJob
  <2> QED
    BY <2>1, <2>2 DEF PacketsOfEncoder
<1>2. ASSUME NEW u \in Units PROVE PacketsOf(u) \in Seq(OfJob)
  <2>1. PICK n \in Nat : DOMAIN PacketCounts[u] = 1 .. n
    BY JobFacts
  <2>2. [e \in DOMAIN PacketCounts[u] |-> PacketsOfEncoder(u, e)] \in Seq(Seq(OfJob))
    BY <1>1, <2>1
  <2> QED
    BY <2>2, FlattenType DEF PacketsOf
<1>3. PICK n \in Nat : Units = 1 .. n
  BY JobFacts
<1>4. [u \in Units |-> PacketsOf(u)] \in Seq(Seq(OfJob))
  BY <1>2, <1>3
<1> QED
  BY <1>4, FlattenType

\* A header, the packets, and the mirrored header with the footer.
LEMMA WholeParts ==
  ASSUME job \in Jobs
  PROVE  /\ PacketParts \in Seq(OfJob) /\ Len(PacketParts) \in Nat
         /\ DOMAIN PacketParts = 1 .. Len(PacketParts)
         /\ WholeArchive \in Seq(JobParts)
         /\ Len(WholeArchive) = Len(PacketParts) + 3
         /\ WholeArchive[1] = Header
         /\ \A k \in 1 .. Len(PacketParts) : WholeArchive[k + 1] = PacketParts[k]
         /\ WholeArchive[Len(PacketParts) + 2] = Header
         /\ WholeArchive[Len(PacketParts) + 3] = Footer
<1>1. PICK f, h, t, X, g, w : /\ f = FlattenSeq([u \in Units |-> PacketsOf(u)])
                              /\ h = <<Header>> /\ t = <<Header, Footer>> /\ X = JobParts
                              /\ g = h \o f /\ w = WholeArchive
  OBVIOUS
<1>2. f \in Seq(OfJob)
  BY <1>1, JobPackets
<1>3. OfJob \subseteq X /\ Header \in X /\ Footer \in X
  BY <1>1 DEF JobParts
<1>4. f \in Seq(X)
  BY <1>2, <1>3, SeqMonotonic
<1>5. /\ h \in Seq(X) /\ Len(h) = 1 /\ h[1] = Header
      /\ t \in Seq(X) /\ Len(t) = 2 /\ t[1] = Header /\ t[2] = Footer
  BY <1>1, <1>3
<1>6. w = g \o t
  BY <1>1 DEF WholeArchive
<1>7. PICK n \in Nat : n = Len(f)
  BY <1>2
<1>8. /\ g \in Seq(X) /\ Len(g) = n + 1 /\ g[1] = Header
      /\ \A k \in 1 .. n : g[1 + k] = f[k]
  <2>1. h \in Seq(X) /\ f \in Seq(X) /\ g = h \o f
    BY <1>1, <1>4, <1>5
  <2>2. /\ g \in Seq(X) /\ Len(g) = Len(h) + Len(f)
        /\ \A i \in 1 .. Len(h) : g[i] = h[i]
        /\ \A i \in 1 .. Len(f) : g[Len(h) + i] = f[i]
    BY <2>1, ConcatPlaces
  <2> QED
    BY <1>5, <1>7, <2>2
<1>9. /\ w \in Seq(X) /\ Len(w) = n + 3
      /\ \A i \in 1 .. n + 1 : w[i] = g[i]
      /\ w[n + 2] = Header /\ w[n + 3] = Footer
  <2>1. g \in Seq(X) /\ t \in Seq(X) /\ w = g \o t
    BY <1>5, <1>6, <1>8
  <2>2. /\ w \in Seq(X) /\ Len(w) = Len(g) + Len(t)
        /\ \A i \in 1 .. Len(g) : w[i] = g[i]
        /\ \A i \in 1 .. Len(t) : w[Len(g) + i] = t[i]
    BY <2>1, ConcatPlaces
  <2>3. w[(n + 1) + 1] = t[1] /\ w[(n + 1) + 2] = t[2]
    BY <1>5, <1>8, <2>2
  <2>4. (n + 1) + 1 = n + 2 /\ (n + 1) + 2 = n + 3
    OBVIOUS
  <2> QED
    BY <1>5, <1>8, <2>2, <2>3, <2>4
<1>10. PacketParts = f
  <2>1. PacketParts = SubSeq(w, 2, Len(w) - 2)
    BY <1>1 DEF PacketParts
  <2>2. Len(w) - 2 = n + 1
    BY <1>9
  <2>3. SubSeq(w, 2, n + 1) = [i \in 1 .. n |-> w[i + 1]]
    <3>1. SubSeq(w, 2, n + 1) = [i \in 1 .. (1 + (n + 1) - 2) |-> w[i + 2 - 1]]
      BY DEF SubSeq
    <3>2. 1 + (n + 1) - 2 = n /\ \A i \in 1 .. n : i + 2 - 1 = i + 1
      OBVIOUS
    <3> QED
      BY <3>1, <3>2
  <2>4. \A i \in 1 .. n : w[i + 1] = f[i]
    <3> TAKE i \in 1 .. n
    <3>1. i + 1 \in 1 .. n + 1 /\ i + 1 = 1 + i
      OBVIOUS
    <3> QED
      BY <1>8, <1>9, <3>1
  <2>5. f = [i \in 1 .. n |-> f[i]]
    BY <1>2, <1>7
  <2> QED
    BY <2>1, <2>2, <2>3, <2>4, <2>5
<1>11. \A k \in 1 .. n : w[k + 1] = f[k]
  <2> TAKE k \in 1 .. n
  <2>1. k + 1 \in 1 .. n + 1 /\ k + 1 = 1 + k
    OBVIOUS
  <2> QED
    BY <1>8, <1>9, <2>1
<1>12. w[1] = Header /\ DOMAIN f = 1 .. n
  BY <1>2, <1>7, <1>8, <1>9
<1> QED
  BY <1>1, <1>2, <1>7, <1>9, <1>10, <1>11, <1>12

\* What each part is written as.
LEMMA PartCells ==
  ASSUME job \in Jobs
  PROVE  /\ CellsOf(Header) = HeaderCells /\ HeaderCells \in Seq(Cells)
         /\ CellsOf(Footer) = <<Num(12)>> /\ <<Num(12)>> \in Seq(Cells)
         /\ \A p \in OfJob : CellsOf(p) = PacketCells(p) /\ PacketCells(p) \in Seq(Cells)
<1>1. HeaderCells \in Seq(Cells)
  <2>1. BodyCells \in Seq(PlainCells) /\ PlainCells \subseteq Cells /\ HashOf(BodyCells) \in Cells
    BY HeaderFacts DEF Cells
  <2>2. BodyCells \in Seq(Cells)
    BY <2>1, SeqMonotonic
  <2>3. PICK b, h, X : b = BodyCells /\ h = HashOf(BodyCells) /\ X = Cells
    OBVIOUS
  <2>4. b \in Seq(X) /\ h \in X
    BY <2>1, <2>2, <2>3
  <2>5. Append(b, h) \in Seq(X)
    BY <2>4
  <2> QED
    BY <2>3, <2>5 DEF HeaderCells
<1>2. <<Num(12)>> \in Seq(Cells)
  <2>1. Num(12) \in Cells
    BY DEF Cells, PlainCells
  <2> QED
    BY <2>1
<1>3. CellsOf(Header) = HeaderCells /\ CellsOf(Footer) = <<Num(12)>>
  BY HeaderFacts, PartsDiffer DEF CellsOf
<1>4. ASSUME NEW p \in OfJob PROVE CellsOf(p) = PacketCells(p)
  BY PartsDiffer DEF CellsOf, OfJob
<1> QED
  BY <1>1, <1>2, <1>3, <1>4, PacketFacts

\* The size of a packet and the places of the packets.
LEMMA Places ==
  ASSUME job \in Jobs
  PROVE  /\ HeaderSize = 12 /\ PacketSize = 5
         /\ \A k \in Int : PacketStart(k) = 12 + (k - 1) * 5
BY HeaderFacts DEF PacketSize, PacketHeaderSize, PacketStart

\* The cells of a whole archive.
LEMMA WholeCells ==
  ASSUME job \in Jobs, NEW n \in Nat, n = Len(PacketParts)
  PROVE  /\ Whole \in Seq(Cells) /\ Len(Whole) = 25 + 5 * n /\ MirrorStart = 12 + 5 * n
         /\ \A j \in 1 .. 12 : Whole[j] = HeaderCells[j] /\ Whole[12 + 5 * n + j] = HeaderCells[j]
         /\ Whole[25 + 5 * n] = Num(12)
         /\ \A k \in 1 .. n : \A j \in 1 .. 5 :
              Whole[12 + (k - 1) * 5 + j] = PacketCells(PacketParts[k])[j]
<1> DEFINE s == [k \in DOMAIN WholeArchive |-> CellsOf(WholeArchive[k])]
           place == [k \in 0 .. n + 3 |->
                       IF k = 0 THEN 0
                       ELSE IF k <= n + 1 THEN 12 + (k - 1) * 5
                       ELSE IF k = n + 2 THEN 24 + 5 * n ELSE 25 + 5 * n]
<1>1. /\ DOMAIN WholeArchive = 1 .. n + 3 /\ WholeArchive[1] = Header
      /\ WholeArchive[n + 2] = Header /\ WholeArchive[n + 3] = Footer
      /\ \A k \in 1 .. n : WholeArchive[k + 1] = PacketParts[k] /\ PacketParts[k] \in OfJob
  BY WholeParts
<1>2. /\ s[1] = HeaderCells /\ s[n + 2] = HeaderCells /\ s[n + 3] = <<Num(12)>>
      /\ \A k \in 1 .. n : s[k + 1] = PacketCells(PacketParts[k])
  BY <1>1, PartCells
<1> HIDE DEF s
<1>3. /\ Len(s[1]) = 12 /\ Len(s[n + 2]) = 12 /\ Len(s[n + 3]) = 1
       /\ s[1] \in Seq(Cells) /\ s[n + 2] \in Seq(Cells) /\ s[n + 3] \in Seq(Cells)
  <2>1. Len(HeaderCells) = 12 /\ HeaderCells \in Seq(Cells) /\ <<Num(12)>> \in Seq(Cells)
        /\ Len(<<Num(12)>>) = 1
    BY HeaderFacts, PartCells
  <2> QED
    BY <1>2, <2>1
<1>4. ASSUME NEW k \in 1 .. n PROVE Len(s[k + 1]) = 5 /\ s[k + 1] \in Seq(Cells)
  <2>1. PacketParts[k] \in OfJob /\ s[k + 1] = PacketCells(PacketParts[k])
    BY <1>1, <1>2
  <2> QED
    BY <2>1, PacketFacts
<1>5. ASSUME NEW k \in 1 .. n + 3
      PROVE  /\ s[k] \in Seq(Cells)
             /\ Len(s[k]) = IF k = 1 \/ k = n + 2 THEN 12 ELSE IF k = n + 3 THEN 1 ELSE 5
  <2>1. CASE k = 1 \/ k = n + 2 \/ k = n + 3
    BY <1>3, <2>1
  <2>3. CASE k # 1 /\ k # n + 2 /\ k # n + 3
    <3>1. PICK l \in 1 .. n : k = l + 1
      BY <2>3
    <3>2. Len(s[k]) = 5 /\ s[k] \in Seq(Cells)
      BY <1>4, <3>1
    <3> QED
      BY <2>3, <3>2
  <2> QED
    BY <2>1, <2>3
<1>6. s \in Seq(Seq(Cells)) /\ Len(s) = n + 3
  BY <1>1, <1>5 DEF s
<1>7. place \in [0 .. n + 3 -> Nat] /\ place[0] = 0
  OBVIOUS
<1>8. \A k \in 1 .. n + 3 : place[k] = place[k - 1] + Len(s[k])
  <2> TAKE k \in 1 .. n + 3
  <2>1. Len(s[k]) = IF k = 1 \/ k = n + 2 THEN 12 ELSE IF k = n + 3 THEN 1 ELSE 5
    BY <1>5
  <2> QED
    BY SMTT(20), <2>1
<1>9. Whole = FlattenSeq(s)
  BY DEF Whole, s
<1>10. /\ place[0] = 0 /\ place[n + 1] = 12 + 5 * n /\ place[n + 2] = 24 + 5 * n
      /\ place[n + 3] = 25 + 5 * n /\ \A k \in 1 .. n : place[k] = 12 + (k - 1) * 5
  OBVIOUS
<1> HIDE DEF place
<1>11. PICK w, X : w = Whole /\ X = Cells
  OBVIOUS
<1>12. /\ w \in Seq(X) /\ Len(w) = place[n + 3]
       /\ \A k \in 1 .. n + 3 : \A j \in 1 .. Len(s[k]) : w[place[k - 1] + j] = s[k][j]
  <2>1. s \in Seq(Seq(X)) /\ place \in [0 .. Len(s) -> Nat] /\ place[0] = 0
        /\ \A k \in 1 .. Len(s) : place[k] = place[k - 1] + Len(s[k])
    BY <1>6, <1>7, <1>8, <1>11
  <2>2. /\ FlattenSeq(s) \in Seq(X) /\ Len(FlattenSeq(s)) = place[Len(s)]
        /\ \A k \in 1 .. Len(s) : \A j \in 1 .. Len(s[k]) :
             FlattenSeq(s)[place[k - 1] + j] = s[k][j]
    BY ZenonT(40), <2>1, FlattenPlaces
  <2> QED
    BY <1>6, <1>9, <1>11, <2>2
<1>13. \A j \in 1 .. 12 : w[j] = HeaderCells[j]
  <2>1. 1 \in 1 .. n + 3 /\ Len(s[1]) = 12
    BY <1>3
  <2> TAKE j \in 1 .. 12
  <2>2. w[place[1 - 1] + j] = s[1][j]
    BY <1>12, <2>1
  <2>3. place[1 - 1] + j = j
    BY <1>10
  <2> QED
    BY <1>2, <2>2, <2>3
<1>14. \A j \in 1 .. 12 : w[12 + 5 * n + j] = HeaderCells[j]
  <2>1. n + 2 \in 1 .. n + 3 /\ Len(s[n + 2]) = 12 /\ (n + 2) - 1 = n + 1
    BY <1>3
  <2> TAKE j \in 1 .. 12
  <2>2. w[place[(n + 2) - 1] + j] = s[n + 2][j]
    BY <1>12, <2>1
  <2>3. place[(n + 2) - 1] = 12 + 5 * n
    BY <1>10, <2>1
  <2> QED
    BY <1>2, <2>2, <2>3
<1>15. w[25 + 5 * n] = Num(12)
  <2>1. n + 3 \in 1 .. n + 3 /\ Len(s[n + 3]) = 1 /\ (n + 3) - 1 = n + 2
    BY <1>3
  <2>2. w[place[(n + 3) - 1] + 1] = s[n + 3][1]
    BY <1>12, <2>1
  <2>3. 24 + 5 * n + 1 = 25 + 5 * n
    OBVIOUS
  <2> QED
    BY <1>2, <1>10, <2>1, <2>2, <2>3
<1>16. ASSUME NEW k \in 1 .. n, NEW j \in 1 .. 5
       PROVE  w[12 + (k - 1) * 5 + j] = PacketCells(PacketParts[k])[j]
  <2>1. k + 1 \in 1 .. n + 3 /\ (k + 1) - 1 = k
    OBVIOUS
  <2>2. s[k + 1] = PacketCells(PacketParts[k]) /\ Len(s[k + 1]) = 5
    BY <1>2, <1>4
  <2>3. w[place[(k + 1) - 1] + j] = s[k + 1][j]
    BY <1>12, <2>1, <2>2
  <2> QED
    BY <1>10, <2>1, <2>2, <2>3
<1>17. Len(Whole) = 25 + 5 * n
  BY <1>10, <1>11, <1>12
<1>18. MirrorStart = 12 + 5 * n
  BY <1>17, Places DEF MirrorStart
<1> QED
  BY <1>11, <1>12, <1>13, <1>14, <1>15, <1>16, <1>17, <1>18

\* No number of a track is the size of a header.
LEMMA TracksAreFew ==
  ASSUME job \in Jobs, FewTracks
  PROVE  Tracks < 12
BY DEF FewTracks, Tracks, Striped, PacketCounts

\* A sequence with all its elements in another set.
LEMMA SeqInto ==
  ASSUME NEW X, NEW Y, NEW s \in Seq(X), \A i \in 1 .. Len(s) : s[i] \in Y
  PROVE  s \in Seq(Y)
OBVIOUS

\* Without its footer an archive holds no such number.
LEMMA PartOtherCells ==
  ASSUME job \in Jobs, FewTracks, NEW p \in {Header} \cup OfJob
  PROVE  CellsOf(p) \in Seq(OtherCells)
<1>1. /\ Tracks \in Nat /\ Tracks < 12 /\ \A v \in Nat : Num(v) \in PlainCells /\ Num(v).n = v
      /\ \A c : HashOf(c).n = 95
  BY TracksAreFew, TrackFacts DEF PlainCells, Num, HashOf
<1>2. CASE p = Header
  <2>1. CellsOf(p) \in Seq(Cells) /\ Len(CellsOf(p)) = 12 /\ CellsOf(p) = HeaderCells
    BY <1>2, PartCells, HeaderFacts
  <2>2. ASSUME NEW i \in 1 .. 12 PROVE HeaderCells[i].n # 12
    <3>1. CASE i = 12
      BY <1>1, <3>1, HeaderFacts
    <3>2. CASE i = 3
      BY <1>1, <3>2, HeaderFacts
    <3>3. CASE i \in {1, 2, 4, 5, 6, 7, 8, 9, 10, 11}
      BY <3>3, HeaderFacts
    <3> QED
      BY <3>1, <3>2, <3>3
  <2>3. PICK w : w = CellsOf(p)
    OBVIOUS
  <2>4. w \in Seq(Cells) /\ Len(w) = 12 /\ \A i \in 1 .. 12 : w[i].n # 12
    BY <2>1, <2>2, <2>3
  <2>5. ASSUME NEW i \in 1 .. Len(w) PROVE w[i] \in OtherCells
    <3>1. w[i] \in Cells
      BY <2>4, ElementOfSeq
    <3>2. w[i].n # 12
      BY <2>4
    <3> QED
      BY <3>1, <3>2 DEF OtherCells
  <2> QED
    BY <2>3, <2>4, <2>5, SeqInto
<1>3. CASE p \in OfJob
  <2>1. PICK w : w = CellsOf(p)
    OBVIOUS
  <2>2. /\ w \in Seq(Cells) /\ Len(w) = 5 /\ w[1] = Num(91) /\ w[2] = Num(1)
        /\ w[3] = Num(PacketTrack(p)) /\ w[4] = HashOf(Block(p)) /\ w[5] \in BlockCells
    BY <1>3, <2>1, PartCells, PacketFacts
  <2>3. PacketTrack(p) \in Nat /\ PacketTrack(p) < 12
    BY <1>1, <1>3, TrackFacts
  <2>4. \A c \in BlockCells : c.n = 3
    BY DEF BlockCells, BlockCell
  <2>5. w[1].n = 91 /\ w[2].n = 1 /\ w[3].n # 12 /\ w[4].n = 95 /\ w[5].n = 3
    BY <1>1, <2>2, <2>3, <2>4
  <2>6. ASSUME NEW i \in 1 .. Len(w) PROVE w[i] \in OtherCells
    <3>1. w[i] \in Cells
      BY <2>2, ElementOfSeq
    <3>2. w[i].n # 12
      <4>1. i \in {1, 2, 3, 4, 5}
        BY <2>2
      <4> QED
        BY <2>5, <4>1
    <3> QED
      BY <3>1, <3>2 DEF OtherCells
  <2> QED
    BY <2>1, <2>2, <2>6, SeqInto
<1> QED
  BY <1>2, <1>3

\* What is on the disk of an archive that is not whole.
LEMMA OnDiskCells ==
  ASSUME job \in Jobs, DiskInv, archive # <<Old>>, archive # WholeArchive
  PROVE  /\ OnDisk \in Seq(Cells)
         /\ FewTracks => OnDisk \in Seq(OtherCells)
<1>1. PICK n \in Nat : archive \in Seq(JobParts) /\ DOMAIN archive = 1 .. n
  BY DEF DiskInv
<1>2. \A k \in 1 .. n : archive[k] \in {Header} \cup OfJob
  BY <1>1 DEF DiskInv, JobParts
<1>3. \A k \in 1 .. n : CellsOf(archive[k]) \in Seq(Cells)
  BY <1>2, PartCells
<1> DEFINE s == [k \in DOMAIN archive |-> CellsOf(archive[k])]
<1>4. s \in Seq(Seq(Cells))
  BY <1>1, <1>3
<1>5. ASSUME FewTracks PROVE s \in Seq(Seq(OtherCells))
  <2>1. \A k \in 1 .. n : CellsOf(archive[k]) \in Seq(OtherCells)
    BY <1>2, <1>5, PartOtherCells
  <2> QED
    BY <1>1, <2>1
<1>6. OnDisk = FlattenSeq(s)
  BY DEF OnDisk
<1> HIDE DEF s
<1> QED
  BY <1>4, <1>5, <1>6, FlattenType
-----------------------------------------------------------------------------
(* What is read                                                              *)

\* What damage leaves in a cell.
Leavings == {Num(v) : v \in Nat \ {95}}

\* The file holds the whole archive, but for the damage, ...
IsDamagedWhole ==
  /\ archive = WholeArchive /\ Len(bytes) = Len(Whole)
  /\ \A p \in 0 .. Len(Whole) - 1 :
       bytes[p + 1] = Whole[p + 1] \/ (p \in damaged /\ bytes[p + 1] \in Leavings)

\* ... or less, which does not end like a whole archive.
IsTorn ==
  /\ archive # WholeArchive \/ Len(bytes) # Len(Whole)
  /\ FewTracks => bytes = <<>> \/ bytes[Len(bytes)].n # 12

\* The reader changes nothing of this.
ReadInv ==
  at # "idle" =>
    /\ job \in Jobs /\ bytes \in Seq(Cells) /\ maxBlockSize \in Nat
    /\ IsDamagedWhole \/ IsTorn

\* What is torn off a whole archive.
LEMMA TornWhole ==
  ASSUME job \in Jobs, NEW torn \in 1 .. 5
  PROVE  /\ Len(Whole) - torn \in 1 .. Len(Whole)
         /\ Whole[Len(Whole) - torn].n # 12
<1>1. PICK n \in Nat : n = Len(PacketParts)
  BY WholeParts
<1>2. PICK j \in 8 .. 12 : j = 13 - torn
  OBVIOUS
<1>3. Len(Whole) = 25 + 5 * n /\ \A i \in 1 .. 12 : Whole[12 + 5 * n + i] = HeaderCells[i]
  BY <1>1, WholeCells
<1>4. Len(Whole) - torn = 12 + 5 * n + j
  BY <1>2, <1>3
<1>5. Whole[Len(Whole) - torn] = HeaderCells[j]
  <2>1. j \in 1 .. 12
    BY <1>2
  <2>2. Whole[12 + 5 * n + j] = HeaderCells[j]
    BY <1>3, <2>1, Zenon
  <2> QED
    BY <1>4, <2>2
<1>6. HeaderCells[j].n # 12
  <2>1. CASE j = 12
    BY <2>1, HeaderFacts DEF HashOf
  <2>2. CASE j \in {8, 9, 10, 11}
    BY <2>2, HeaderFacts
  <2> QED
    BY <2>1, <2>2
<1>7. Len(Whole) - torn \in 1 .. Len(Whole)
  BY SMTT(20), <1>3
<1> QED
  BY <1>5, <1>6, <1>7

\* What belongs to the job alone.
LEMMA FileSame ==
  ASSUME job' = job
  PROVE  /\ WholeArchive' = WholeArchive /\ Whole' = Whole /\ Cells' = Cells
         /\ BodyCells' = BodyCells /\ HeaderCells' = HeaderCells /\ Tracks' = Tracks
         /\ PacketParts' = PacketParts /\ MirrorStart' = MirrorStart
         /\ HeaderSize' = HeaderSize
         /\ \A k : PacketStart(k)' = PacketStart(k)
         /\ \A p : PacketTrack(p)' = PacketTrack(p)
<1>1. WholeArchive' = WholeArchive /\ Striped' = Striped /\ PacketCounts' = PacketCounts
  BY JobSame
<1>2. Tracks' = Tracks
  BY <1>1 DEF Tracks
<1>3. BodyCells' = BodyCells
  BY <1>2 DEF BodyCells
<1>4. HeaderCells' = HeaderCells /\ HeaderSize' = HeaderSize
  BY <1>3 DEF HeaderCells, HeaderSize
<1>5. Cells' = Cells
  BY <1>3 DEF Cells
<1>6. \A p : PacketTrack(p)' = PacketTrack(p)
  BY <1>1 DEF PacketTrack
<1>7. \A p : PacketCells(p)' = PacketCells(p)
  BY <1>6 DEF PacketCells
<1>8. \A p : CellsOf(p)' = CellsOf(p)
  BY <1>4, <1>7 DEF CellsOf
<1>9. Whole' = Whole
  BY <1>1, <1>8 DEF Whole
<1>10. PacketParts' = PacketParts /\ MirrorStart' = MirrorStart
       /\ \A k : PacketStart(k)' = PacketStart(k)
  BY <1>1, <1>4, <1>9 DEF PacketParts, MirrorStart, PacketStart
<1> QED
  BY <1>1, <1>2, <1>3, <1>4, <1>5, <1>6, <1>9, <1>10

\* Damage leaves numbers.
LEMMA DamageLeaves ==
  ASSUME NEW d \in Damages
  PROVE  Num(d[2]) \in Leavings
<1>1. \A v \in DamageValues \cup {0, 40} : v \in Nat \ {95}
  BY DamageAssumption
<1>2. d[2] \in DamageValues \cup {0, 40}
  BY DEF Damages
<1> QED
  BY <1>1, <1>2 DEF Leavings

\* A damaged archive.
LEMMA DamagedBytes ==
  ASSUME job \in Jobs, NEW d \in Damages, NEW b, NEW dam,
         b = [p \in DOMAIN Whole |-> IF p \in d[1] THEN Num(d[2]) ELSE Whole[p]],
         dam = {p \in 0 .. (Len(Whole) - 1) : b[p + 1] # Whole[p + 1]}
  PROVE  /\ b \in Seq(Cells) /\ Len(b) = Len(Whole)
         /\ \A p \in 0 .. Len(Whole) - 1 :
              b[p + 1] = Whole[p + 1] \/ (p \in dam /\ b[p + 1] \in Leavings)
<1>1. PICK w, m : /\ m \in Nat /\ w = Whole /\ w \in Seq(Cells) /\ m = Len(w)
                          /\ DOMAIN w = 1 .. m /\ \A p \in 1 .. m : w[p] \in Cells
  <2>1. PICK n \in Nat : n = Len(PacketParts)
    BY WholeParts
  <2>2. Whole \in Seq(Cells)
    BY <2>1, WholeCells
  <2>3. PICK w : w = Whole
    OBVIOUS
  <2>4. Len(w) \in Nat /\ DOMAIN w = 1 .. Len(w) /\ \A p \in 1 .. Len(w) : w[p] \in Cells
    BY <2>2, <2>3
  <2> QED
    BY <2>2, <2>3, <2>4
<1>2. Leavings \subseteq Cells
  BY DEF Leavings, Cells, PlainCells
<1>3. \A p \in 1 .. m : b[p] = w[p] \/ b[p] \in Leavings
  BY <1>1, DamageLeaves
<1>4. b = [p \in 1 .. m |-> b[p]] /\ \A p \in 1 .. m : b[p] \in Cells
  BY <1>1, <1>2, <1>3
<1>5. b \in Seq(Cells) /\ Len(b) = m
  <2> HIDE DEF Cells
  <2>1. PICK c : c = [p \in 1 .. m |-> b[p]]
    OBVIOUS
  <2>2. c \in [1 .. m -> Cells]
    BY <1>4, <2>1
  <2>3. c \in Seq(Cells) /\ Len(c) = m
    BY <1>1, <2>2
  <2> QED
    BY <1>4, <2>1, <2>3
<1>6. \A p \in 0 .. m - 1 : p + 1 \in 1 .. m
  BY <1>1
<1>7. dam = {p \in 0 .. (m - 1) : b[p + 1] # w[p + 1]}
  BY <1>1
<1>8. ASSUME NEW p \in 0 .. m - 1
      PROVE  b[p + 1] = w[p + 1] \/ (p \in dam /\ b[p + 1] \in Leavings)
  <2>1. b[p + 1] = w[p + 1] \/ b[p + 1] \in Leavings
    BY <1>3, <1>6
  <2>2. b[p + 1] # w[p + 1] => p \in dam
    BY <1>7
  <2> QED
    BY <2>1, <2>2
<1> QED
  BY <1>1, <1>5, <1>8

\* A torn one.
LEMMA TornBytes ==
  ASSUME NEW X, NEW s \in Seq(X), NEW torn \in Nat, torn <= Len(s), NEW b,
         b = SubSeq(s, 1, Len(s) - torn)
  PROVE  /\ b \in Seq(X) /\ Len(b) = Len(s) - torn
         /\ \A i \in 1 .. Len(b) : b[i] = s[i]
         /\ torn = 0 => b = s
<1>1. PICK m \in Nat : m = Len(s) - torn
  <2>1. Len(s) \in Nat
    OBVIOUS
  <2>2. Len(s) - torn \in Nat
    BY <2>1
  <2> QED
    BY <2>2, Zenon
<1>2. b = [i \in 1 .. m |-> s[i]]
  <2>1. SubSeq(s, 1, m) = [i \in 1 .. (1 + m - 1) |-> s[i + 1 - 1]]
    BY DEF SubSeq
  <2>2. 1 + m - 1 = m /\ \A i \in 1 .. m : i + 1 - 1 = i
    OBVIOUS
  <2> QED
    BY <1>1, <2>1, <2>2
<1>3. \A i \in 1 .. m : s[i] \in X
  BY <1>1
<1>4. b \in Seq(X) /\ Len(b) = m /\ \A i \in 1 .. m : b[i] = s[i]
  BY <1>2, <1>3
<1>5. ASSUME torn = 0 PROVE b = s
  <2>1. m = Len(s)
    BY <1>1, <1>5
  <2>2. s = [i \in 1 .. m |-> s[i]]
    BY <2>1
  <2> QED
    BY <1>2, <2>2
<1> QED
  BY <1>1, <1>4, <1>5

\* A part of what is on the disk: all of a whole archive, or less than that.
LEMMA TornOnDisk ==
  ASSUME job \in Jobs, DiskInv, archive # <<Old>>, NEW torn \in 0 .. 5, torn <= Len(OnDisk),
         NEW b, b = SubSeq(OnDisk, 1, Len(OnDisk) - torn)
  PROVE  /\ b \in Seq(Cells)
         /\ \/ archive = WholeArchive /\ b = Whole
            \/ /\ archive # WholeArchive \/ Len(b) # Len(Whole)
               /\ FewTracks => b = <<>> \/ b[Len(b)].n # 12
<1>1. CASE archive = WholeArchive
  <2>1. PICK n \in Nat : n = Len(PacketParts)
    BY WholeParts
  <2>2. OnDisk = Whole /\ Whole \in Seq(Cells)
    BY <1>1, <2>1, WholeCells DEF OnDisk, Whole
  <2>3. PICK w : w = Whole
    OBVIOUS
  <2>4. /\ w \in Seq(Cells) /\ torn \in Nat /\ torn <= Len(w) /\ Len(w) \in Nat
        /\ b = SubSeq(w, 1, Len(w) - torn)
    BY <2>2, <2>3
  <2>5. /\ b \in Seq(Cells) /\ Len(b) = Len(w) - torn
        /\ \A i \in 1 .. Len(b) : b[i] = w[i]
        /\ torn = 0 => b = w
    BY <2>4, TornBytes
  <2>6. CASE torn = 0
    BY <1>1, <2>3, <2>5, <2>6
  <2>7. CASE torn # 0
    <3>1. torn \in 1 .. 5
      BY <2>7
    <3>2. Len(w) - torn \in 1 .. Len(w) /\ w[Len(w) - torn].n # 12
      BY <2>3, <3>1, TornWhole
    <3>3. Len(b) \in 1 .. Len(b) /\ Len(b) # Len(w)
      BY <2>4, <2>5, <3>1, <3>2
    <3>4. b[Len(b)] = w[Len(b)]
      BY <2>5, <3>3, Zenon
    <3> QED
      BY <2>3, <2>5, <3>2, <3>3, <3>4
  <2> QED
    BY <2>6, <2>7
<1>2. CASE archive # WholeArchive
  <2>1. PICK w : w = OnDisk
    OBVIOUS
  <2>2. w \in Seq(Cells) /\ torn \in Nat /\ torn <= Len(w) /\ b = SubSeq(w, 1, Len(w) - torn)
    BY <1>2, <2>1, OnDiskCells
  <2>3. b \in Seq(Cells)
    BY <2>2, TornBytes
  <2>4. ASSUME FewTracks, b # <<>> PROVE b[Len(b)].n # 12
    <3>1. w \in Seq(OtherCells)
      BY <1>2, <2>1, <2>4, OnDiskCells
    <3>2. b \in Seq(OtherCells)
      BY <2>2, <3>1, TornBytes
    <3>3. Len(b) \in 1 .. Len(b)
      BY <2>4, <3>2, EmptySeq
    <3>4. b[Len(b)] \in OtherCells
      BY <3>2, <3>3, ElementOfSeq
    <3> QED
      BY <3>4 DEF OtherCells
  <2> QED
    BY <1>2, <2>3, <2>4
<1> QED
  BY <1>1, <1>2

\* What is found when the writer has ended.
LEMMA ReadKeeps ==
  ASSUME WriterInv, DiskInv, Read
  PROVE  ReadInv'
<1>1. /\ job \in Jobs /\ UNCHANGED <<job, archive>> /\ archive # <<Old>> /\ PacketSize = 5
      /\ maxBlockSize' \in Nat
  BY Places, WriterAssumption DEF Read, diskVars, WriterInv, WriterTypeOK, JobType
<1>2. /\ Cells' = Cells /\ Whole' = Whole /\ WholeArchive' = WholeArchive
  BY <1>1, FileSame
<1>3. PICK b, dam : b = bytes' /\ dam = damaged'
  OBVIOUS
<1>4. CASE /\ archive = WholeArchive
           /\ \E whole \in {Whole} : \E d \in Damages :
                /\ bytes' = [p \in DOMAIN whole |-> IF p \in d[1] THEN Num(d[2]) ELSE whole[p]]
                /\ damaged' = {p \in 0..(Len(whole) - 1) : bytes'[p + 1] # whole[p + 1]}
  <2>1. PICK d \in Damages :
          /\ b = [p \in DOMAIN Whole |-> IF p \in d[1] THEN Num(d[2]) ELSE Whole[p]]
          /\ dam = {p \in 0..(Len(Whole) - 1) : b[p + 1] # Whole[p + 1]}
    BY <1>3, <1>4
  <2>2. /\ b \in Seq(Cells) /\ Len(b) = Len(Whole)
        /\ \A p \in 0 .. Len(Whole) - 1 :
             b[p + 1] = Whole[p + 1] \/ (p \in dam /\ b[p + 1] \in Leavings)
    BY <1>1, <2>1, DamagedBytes
  <2>3. IsDamagedWhole'
    BY <1>1, <1>2, <1>3, <1>4, <2>2 DEF IsDamagedWhole, Leavings
  <2> QED
    BY <1>1, <1>2, <1>3, <2>2, <2>3 DEF ReadInv
<1>5. CASE \E torn \in 0..PacketSize : torn <= Len(OnDisk)
                                       /\ bytes' = SubSeq(OnDisk, 1, Len(OnDisk) - torn)
  <2>1. PICK torn \in 0 .. 5 : torn <= Len(OnDisk) /\ b = SubSeq(OnDisk, 1, Len(OnDisk) - torn)
    BY <1>1, <1>3, <1>5
  <2>2. /\ b \in Seq(Cells)
        /\ \/ archive = WholeArchive /\ b = Whole
           \/ /\ archive # WholeArchive \/ Len(b) # Len(Whole)
              /\ FewTracks => b = <<>> \/ b[Len(b)].n # 12
    BY <1>1, <2>1, TornOnDisk
  <2>3. CASE archive = WholeArchive /\ b = Whole
    <3>1. IsDamagedWhole'
      BY <1>1, <1>2, <1>3, <2>3 DEF IsDamagedWhole
    <3> QED
      BY <1>1, <1>2, <1>3, <2>2, <3>1 DEF ReadInv
  <2>4. CASE /\ archive # WholeArchive \/ Len(b) # Len(Whole)
             /\ FewTracks => b = <<>> \/ b[Len(b)].n # 12
    <3>1. IsTorn'
      BY <1>1, <1>2, <1>3, <2>4 DEF IsTorn, FewTracks
    <3> QED
      BY <1>1, <1>2, <1>3, <2>2, <3>1 DEF ReadInv
  <2> QED
    BY <2>2, <2>3, <2>4
<1> QED
  BY <1>4, <1>5 DEF Read

\* The reader leaves the file as it is.
LEMMA ReadSame ==
  ASSUME ReadInv, at # "idle", UNCHANGED <<job, archive, bytes, maxBlockSize, damaged>>
  PROVE  ReadInv'
<1>1. /\ Cells' = Cells /\ Whole' = Whole /\ WholeArchive' = WholeArchive
  BY FileSame
<1>2. IsDamagedWhole' = IsDamagedWhole /\ IsTorn' = IsTorn
  BY <1>1 DEF IsDamagedWhole, IsTorn, FewTracks, Leavings
<1> QED
  BY <1>1, <1>2 DEF ReadInv
-----------------------------------------------------------------------------
(* The headers that are believed                                             *)

\* The footer leads to a header.
FooterFits ==
  fileSize >= 1 /\ headerBlockSize >= 4 /\ headerBlockSize <= fileSize - 1 /\ headerEndOffset > 0

\* An archive that is believed.
Accepted == IsDamagedWhole /\ meta = BodyCells /\ headerBlockSize = 12

\* How far the reader is, and what it has seen by then.
ParseInv ==
  /\ at \in {"idle", "footer", "main"} => ~failed
  /\ at \in {"idle", "footer"} => ~mainOk /\ ~mirrorOk
  /\ at \in {"main", "mirror", "choose"} => FooterFits
  /\ mainOk => verifyHeaderEcc(0)
  /\ mirrorOk => verifyHeaderEcc(headerEndOffset)
  /\ at \in {"idle", "footer", "main", "mirror", "choose"} => parsed = "none"
  /\ at = "walk" => parsed = "valid"
  /\ parsed = "valid" => at \in {"walk", "ended"} /\ Accepted
  /\ parsed # "valid" => found = <<>>

\* Every cell has a number; of the hashes one only is that of a long sequence.
LEMMA CellFacts ==
  ASSUME job \in Jobs, NEW c \in Cells
  PROVE  /\ c.n \in Nat
         /\ \A X : \A s \in Seq(X) : c = HashOf(s) /\ Len(s) >= 2 => s = BodyCells
<1>1. CASE c \in PlainCells
  <2>1. PICK v \in Nat : c = Num(v)
    BY <1>1 DEF PlainCells
  <2>2. ASSUME NEW X, NEW s \in Seq(X), c = HashOf(s) PROVE Len(s) = 0
    <3>1. c.of = s /\ c.of = <<>>
      BY <2>1, <2>2 DEF HashOf, Num
    <3> QED
      BY <3>1
  <2> QED
    BY <2>1, <2>2 DEF Num
<1>2. CASE c \in BlockCells
  <2>1. c.n = 3
    BY <1>2 DEF BlockCells, BlockCell
  <2> QED
    BY <2>1 DEF HashOf
<1>3. CASE c \in BlockHashes
  <2>1. PICK b : c = HashOf(<<b>>)
    BY <1>3 DEF BlockHashes
  <2>2. c.n = 95 /\ c.of = <<b>>
    BY <2>1 DEF HashOf
  <2>3. ASSUME NEW X, NEW s \in Seq(X), c = HashOf(s) PROVE Len(s) = 1
    <3>1. s = <<b>>
      BY <2>2, <2>3 DEF HashOf
    <3> QED
      BY <3>1
  <2>4. \A X : \A s \in Seq(X) : ~(c = HashOf(s) /\ Len(s) >= 2)
    <3> SUFFICES ASSUME NEW X, NEW s \in Seq(X), c = HashOf(s), Len(s) >= 2 PROVE FALSE
      BY Zenon
    <3>1. Len(s) = 1
      BY <2>3
    <3> QED
      BY <3>1
  <2> QED
    BY <2>2, <2>4
<1>4. CASE c = HashOf(BodyCells)
  BY <1>4 DEF HashOf
<1> QED
  BY <1>1, <1>2, <1>3, <1>4 DEF Cells

\* The number in a cell of the file.
LEMMA NumberType ==
  ASSUME ReadInv, at # "idle", NEW p \in 0 .. fileSize - 1
  PROVE  NumberAt(p) \in Nat
<1>1. job \in Jobs /\ bytes \in Seq(Cells) /\ p + 1 \in 1 .. Len(bytes)
  BY DEF ReadInv, fileSize
<1>2. bytes[p + 1] \in Cells
  BY <1>1, ElementOfSeq
<1> QED
  BY <1>1, <1>2, CellFacts DEF NumberAt

\* A header with the right checksum is that of the job, and in a whole archive.
LEMMA GoodHeader ==
  ASSUME FewTracks, ReadInv, at # "idle", FooterFits, NEW pos \in {0, headerEndOffset},
         verifyHeaderEcc(pos)
  PROVE  HeaderBody(pos) = BodyCells /\ headerBlockSize = 12 /\ IsDamagedWhole
<1>1. PICK m, b : m \in Nat /\ b = bytes /\ m = Len(b) /\ b \in Seq(Cells) /\ job \in Jobs
  BY DEF ReadInv
<1>2. m >= 1 /\ m - 1 \in 0 .. fileSize - 1 /\ fileSize = m
  BY <1>1 DEF FooterFits, fileSize
<1>3. PICK h \in Nat : h = headerBlockSize
  BY <1>2, NumberType DEF headerBlockSize
<1>4. h >= 4 /\ h <= m - 1 /\ headerEndOffset = m - 1 - h /\ pos \in {0, m - 1 - h}
  BY <1>1, <1>3 DEF FooterFits, headerEndOffset, fileSize
<1>5. pos + h \in 1 .. m /\ pos \in Nat
  BY <1>1, <1>3, <1>4
<1>6. PICK s : s = HeaderBody(pos)
  OBVIOUS
<1>7. s \in Seq(Cells) /\ Len(s) = h - 1
  <2>1. s = SubSeq(b, pos + 1, pos + h - 1)
    BY <1>1, <1>3, <1>6 DEF HeaderBody
  <2>2. pos + 1 \in 1 .. Len(b) + 1 /\ pos + h - 1 \in 0 .. Len(b) /\ pos + 1 <= pos + h
    BY <1>1, <1>4, <1>5
  <2>3. \A i \in (pos + 1) .. (pos + h - 1) : i \in 1 .. Len(b)
    BY <2>2, <1>1, <1>5
  <2>4. SubSeq(b, pos + 1, pos + h - 1) = [i \in 1 .. h - 1 |-> b[i + pos]]
    <3>1. SubSeq(b, pos + 1, pos + h - 1)
            = [i \in 1 .. (1 + (pos + h - 1) - (pos + 1)) |-> b[i + (pos + 1) - 1]]
      BY DEF SubSeq
    <3>2. 1 + (pos + h - 1) - (pos + 1) = h - 1 /\ \A i \in 1 .. h - 1 : i + (pos + 1) - 1 = i + pos
      BY <1>5
    <3> QED
      BY <3>1, <3>2
  <2>5. \A i \in 1 .. h - 1 : i + pos \in 1 .. Len(b)
    BY <1>1, <1>4, <1>5
  <2>6. \A i \in 1 .. h - 1 : b[i + pos] \in Cells
    BY <1>1, <2>5, ElementOfSeq
  <2>7. h - 1 \in Nat
    BY <1>4
  <2> QED
    BY <2>1, <2>4, <2>6, <2>7
<1>8. b[pos + h] \in Cells /\ b[pos + h] = HashOf(s)
  BY <1>1, <1>3, <1>5, <1>6, ElementOfSeq DEF verifyHeaderEcc
<1>9. s = BodyCells
  BY <1>1, <1>4, <1>7, <1>8, CellFacts
<1>10. h = 12
  <2>1. Len(BodyCells) = 11
    BY <1>1, HeaderFacts
  <2>2. h - 1 = 11
    BY <1>7, <1>9, <2>1
  <2> QED
    BY <2>2
<1>11. ~IsTorn
  <2>1. b[m].n = 12
    <3>1. headerBlockSize = bytes[(m - 1) + 1].n /\ (m - 1) + 1 = m
      BY <1>1, <1>2 DEF headerBlockSize, NumberAt
    <3> QED
      BY <1>1, <1>3, <1>10, <3>1
  <2>2. b # <<>>
    BY <1>1, <1>2
  <2> QED
    BY <1>1, <2>1, <2>2 DEF IsTorn
<1> QED
  BY <1>3, <1>6, <1>9, <1>10, <1>11 DEF ReadInv

\* What belongs to the file alone.
LEMMA BytesSame ==
  ASSUME bytes' = bytes
  PROVE  /\ fileSize' = fileSize /\ headerBlockSize' = headerBlockSize
         /\ headerEndOffset' = headerEndOffset /\ dataSz' = dataSz
         /\ \A p : NumberAt(p)' = NumberAt(p)
         /\ \A p : verifyHeaderEcc(p)' = verifyHeaderEcc(p)
         /\ \A p : HeaderBody(p)' = HeaderBody(p)
         /\ FooterFits' = FooterFits
BY DEF fileSize, headerBlockSize, headerEndOffset, dataSz, NumberAt, verifyHeaderEcc,
       HeaderBody, FooterFits

\* No step of the reader touches the file.
LEMMA ReaderActs ==
  ASSUME ReaderNext
  PROVE  bytes' = bytes /\ maxBlockSize' = maxBlockSize /\ at # "idle"
BY DEF ReaderNext, ReadFooter, ReadMain, ReadMirror, ChooseHeader, PassHeader, PassForeign,
       PassUnfit, TakePacket, WalkEnds, AtPacket, GoTo

\* An archive that was believed stays so.
LEMMA AcceptedSame ==
  ASSUME UNCHANGED <<job, archive, bytes, damaged, meta>>
  PROVE  Accepted' = Accepted
BY FileSame, BytesSame DEF Accepted, IsDamagedWhole, Leavings

\* The steps of the reader keep to what the file holds.
LEMMA ParseKeeps ==
  ASSUME FewTracks, ReadInv, ParseInv, ReaderNext, UNCHANGED <<job, archive, damaged>>
  PROVE  ParseInv'
<1>1. bytes' = bytes /\ at # "idle"
  BY ReaderActs
<1>2. /\ headerEndOffset' = headerEndOffset /\ FooterFits' = FooterFits
      /\ \A p : verifyHeaderEcc(p)' = verifyHeaderEcc(p)
  BY <1>1, BytesSame
<1>3. meta' = meta => Accepted' = Accepted
  BY <1>1, AcceptedSame
<1>4. CASE ReadFooter
  <2>1. CASE at' = "main" /\ UNCHANGED <<failed, mainOk, mirrorOk, parsed, meta, found>>
    <3>1. FooterFits
      <4>1. /\ ~(fileSize < 1) /\ ~(headerBlockSize < 4) /\ ~(headerBlockSize > fileSize - 1)
            /\ ~(headerEndOffset <= 0)
        BY <1>4, <2>1 DEF ReadFooter, ParseEnds, PacketHeaderSize
      <4>2. fileSize \in Nat
        BY <1>1 DEF ReadInv, fileSize
      <4>3. headerBlockSize \in Nat
        BY <1>1, <4>1, <4>2, NumberType DEF headerBlockSize
      <4>4. headerEndOffset \in Int
        BY <4>2, <4>3 DEF headerEndOffset
      <4> QED
        BY <4>1, <4>2, <4>3, <4>4 DEF FooterFits
    <3> QED
      BY <1>2, <1>3, <1>4, <2>1, <3>1 DEF ParseInv, ReadFooter
  <2>2. CASE ParseEnds("invalid") /\ found' = found
    BY <1>2, <1>3, <1>4, <2>2 DEF ParseInv, ReadFooter, ParseEnds
  <2> QED
    BY <1>4, <2>1, <2>2 DEF ReadFooter, parseVars, walkVars
<1>5. CASE ReadMain
  <2>1. CASE /\ mainOk' = HeaderOk(0) /\ at' = "mirror"
             /\ UNCHANGED <<mirrorOk, parsed, meta, found>>
    <3>1. mainOk' => verifyHeaderEcc(0)
      BY <2>1 DEF HeaderOk
    <3> QED
      BY <1>2, <1>3, <1>5, <2>1, <3>1 DEF ParseInv, ReadMain
  <2>2. CASE ParseEnds("died") /\ found' = found
    BY <1>2, <1>3, <1>5, <2>2 DEF ParseInv, ReadMain, ParseEnds
  <2> QED
    BY <1>5, <2>1, <2>2 DEF ReadMain, walkVars
<1>6. CASE ReadMirror
  <2>1. CASE /\ mirrorOk' = HeaderOk(headerEndOffset) /\ at' = "choose"
             /\ UNCHANGED <<mainOk, parsed, meta, found>>
    <3>1. mirrorOk' => verifyHeaderEcc(headerEndOffset)
      BY <2>1 DEF HeaderOk
    <3> QED
      BY <1>2, <1>3, <1>6, <2>1, <3>1 DEF ParseInv, ReadMirror
  <2>2. CASE ParseEnds("died") /\ found' = found
    BY <1>2, <1>3, <1>6, <2>2 DEF ParseInv, ReadMirror, ParseEnds
  <2> QED
    BY <1>6, <2>1, <2>2 DEF ReadMirror, MirrorAt, walkVars
<1>7. CASE ChooseHeader
  <2>1. CASE /\ mainOk \/ mirrorOk
             /\ parsed' = "valid" /\ at' = "walk"
             /\ meta' = IF mirrorOk /\ (mainOk => Hashes(0) = Hashes(MirrorAt))
                        THEN HeaderBody(MirrorAt) ELSE HeaderBody(0)
             /\ UNCHANGED <<failed, mainOk, mirrorOk, found>>
    <3>1. PICK pos \in {0, headerEndOffset} : verifyHeaderEcc(pos) /\ meta' = HeaderBody(pos)
      BY <2>1 DEF ParseInv, MirrorAt
    <3>2. FooterFits
      BY <1>7 DEF ParseInv, ChooseHeader
    <3>3. meta' = BodyCells /\ headerBlockSize = 12 /\ IsDamagedWhole
      BY <1>1, <3>1, <3>2, GoodHeader
    <3>4. Accepted'
      BY <1>1, <3>3, FileSame, BytesSame DEF Accepted, IsDamagedWhole, Leavings
    <3> QED
      BY <1>2, <2>1, <3>4 DEF ParseInv
  <2>2. CASE ParseEnds("invalid") /\ found' = found
    BY <1>2, <1>3, <1>7, <2>2 DEF ParseInv, ChooseHeader, ParseEnds
  <2> QED
    BY <1>7, <2>1, <2>2 DEF ChooseHeader, walkVars
<1>8. CASE PassHeader \/ PassForeign \/ PassUnfit \/ TakePacket
  <2>1. at = "walk" /\ UNCHANGED <<at, failed, mainOk, mirrorOk, parsed, meta>>
    BY <1>8 DEF PassHeader, PassForeign, PassUnfit, TakePacket, GoTo, AtPacket, parseVars
  <2> QED
    BY <1>2, <1>3, <2>1 DEF ParseInv
<1>9. CASE WalkEnds
  BY <1>2, <1>3, <1>9 DEF ParseInv, WalkEnds, parseVars, walkVars
<1> QED
  BY <1>4, <1>5, <1>6, <1>7, <1>8, <1>9 DEF ReaderNext
-----------------------------------------------------------------------------
(* The end of a header                                                       *)

\* f gives the place behind each entry of a manifest.
IsEnds(f, first, limit, n) ==
  f = [k \in 0 .. n |-> IF k = 0 THEN first
                        ELSE IF f[k - 1] >= limit THEN limit + 1
                        ELSE f[k - 1] + NumberAt(f[k - 1]) + 2]

\* There is such a function.
LEMMA EndsExist ==
  ASSUME NEW first, NEW limit, NEW n \in Nat
  PROVE  \E f : IsEnds(f, first, limit, n)
<1> DEFINE Behind1(x) == IF x >= limit THEN limit + 1 ELSE x + NumberAt(x) + 2
           S == {m \in Nat : \E f : IsEnds(f, first, limit, m)}
<1>1. 0 \in S
  <2> DEFINE f == [k \in 0 .. 0 |-> first]
  <2>1. \A k \in 0 .. 0 : k = 0
    OBVIOUS
  <2>2. IsEnds(f, first, limit, 0)
    BY <2>1 DEF IsEnds
  <2> HIDE DEF f
  <2> QED
    BY <2>2
<1>2. ASSUME NEW m \in Nat, m \in S PROVE m + 1 \in S
  <2>1. PICK f : IsEnds(f, first, limit, m)
    BY <1>2
  <2> DEFINE u == [k \in 0 .. m + 1 |-> IF k = 0 THEN first ELSE Behind1(f[k - 1])]
  <2>2. \A k \in 0 .. m : u[k] = f[k]
    BY <2>1 DEF IsEnds
  <2>3. \A k \in 0 .. m + 1 : u[k] = IF k = 0 THEN first ELSE Behind1(u[k - 1])
    <3> SUFFICES ASSUME NEW k \in 0 .. m + 1
                 PROVE  u[k] = IF k = 0 THEN first ELSE Behind1(u[k - 1])
      OBVIOUS
    <3>1. u[k] = IF k = 0 THEN first ELSE Behind1(f[k - 1])
      OBVIOUS
    <3> HIDE DEF u, Behind1
    <3>2. k # 0 => k - 1 \in 0 .. m
      OBVIOUS
    <3>3. k # 0 => u[k - 1] = f[k - 1]
      BY <2>2, <3>2
    <3> QED
      BY <3>1, <3>3
  <2>4. IsEnds(u, first, limit, m + 1)
    BY <2>3 DEF IsEnds
  <2> HIDE DEF u
  <2> QED
    BY <2>4
<1> HIDE DEF S
<1>3. n \in S
  BY <1>1, <1>2, SetInduction
<1> QED
  BY <1>3 DEF S

\* The definition of HeaderEnd chooses such a function.
LEMMA HeaderEndDef ==
  ASSUME NEW pos, NEW limit, NEW flag, NEW count \in Nat,
         flag = pos + 4 + 1 + NumberAt(pos + 4), count = NumberAt(flag + 1)
  PROVE  \E f : /\ IsEnds(f, flag + 2, limit, count)
                /\ HeaderEnd(pos, limit) = IF flag >= limit THEN limit + 1
                                           ELSE IF NumberAt(flag) = 0 THEN flag + 1
                                           ELSE IF flag + 1 >= limit THEN limit + 1
                                           ELSE f[count]
<1> DEFINE f == CHOOSE g : IsEnds(g, flag + 2, limit, count)
<1>1. IsEnds(f, flag + 2, limit, count)
  BY EndsExist
<1>2. HeaderEnd(pos, limit) = IF flag >= limit THEN limit + 1
                              ELSE IF NumberAt(flag) = 0 THEN flag + 1
                              ELSE IF flag + 1 >= limit THEN limit + 1
                              ELSE f[count]
  BY DEF HeaderEnd, IsEnds, PacketHeaderSize
<1> HIDE DEF f
<1> QED
  BY <1>1, <1>2

\* A header ends behind its beginning, wherever it is read.
LEMMA HeaderEndType ==
  ASSUME ReadInv, at # "idle", NEW pos \in Nat, NEW limit \in Nat, limit <= fileSize,
         pos + 4 < limit
  PROVE  HeaderEnd(pos, limit) \in Nat /\ HeaderEnd(pos, limit) > pos
<1>1. fileSize \in Nat /\ \A p \in 0 .. fileSize - 1 : NumberAt(p) \in Nat
  BY NumberType DEF ReadInv, fileSize
<1>2. NumberAt(pos + 4) \in Nat
  BY <1>1
<1>3. PICK flag \in Nat : flag = pos + 4 + 1 + NumberAt(pos + 4)
  BY <1>2
<1>4. PICK end : end = HeaderEnd(pos, limit)
  OBVIOUS
<1>5. CASE flag >= limit
  <2>1. HeaderEnd(pos, limit) = limit + 1
    BY <1>3, <1>5 DEF HeaderEnd, PacketHeaderSize
  <2> QED
    BY <2>1
<1>6. CASE flag < limit /\ flag + 1 >= limit
  <2>1. end \in {flag + 1, limit + 1}
    <3>1. ~(flag >= limit)
      BY <1>6
    <3> QED
      BY <1>3, <1>4, <1>6, <3>1 DEF HeaderEnd, PacketHeaderSize
  <2> QED
    BY <1>3, <1>4, <1>2, <2>1
<1>7. CASE flag + 1 < limit
  <2>1. PICK count \in Nat : count = NumberAt(flag + 1)
    BY <1>1, <1>7
  <2>2. PICK f : /\ IsEnds(f, flag + 2, limit, count)
                 /\ end = IF flag >= limit THEN limit + 1
                          ELSE IF NumberAt(flag) = 0 THEN flag + 1
                          ELSE IF flag + 1 >= limit THEN limit + 1
                          ELSE f[count]
    BY <1>3, <1>4, <2>1, HeaderEndDef
  <2>3. end \in {flag + 1, f[count]}
    BY <1>7, <2>2
  <2> DEFINE S == {k \in Nat : k <= count => f[k] \in Nat /\ f[k] >= flag + 2}
  <2>4. 0 \in S
    BY <2>2 DEF IsEnds
  <2>5. ASSUME NEW k \in Nat, k \in S PROVE k + 1 \in S
    <3> SUFFICES ASSUME k + 1 <= count PROVE f[k + 1] \in Nat /\ f[k + 1] >= flag + 2
      OBVIOUS
    <3>1. PICK a \in Nat : a = f[k] /\ a >= flag + 2
      BY <2>5
    <3>2. f[k + 1] = IF a >= limit THEN limit + 1 ELSE a + NumberAt(a) + 2
      <4>1. k + 1 \in 0 .. count /\ k + 1 # 0 /\ (k + 1) - 1 = k
        OBVIOUS
      <4> QED
        BY <2>2, <3>1, <4>1 DEF IsEnds
    <3>3. a < limit => NumberAt(a) \in Nat
      BY <1>1
    <3> QED
      BY <1>7, <3>1, <3>2, <3>3
  <2> HIDE DEF S
  <2>6. count \in S
    BY <2>4, <2>5, SetInduction
  <2>7. f[count] \in Nat /\ f[count] >= flag + 2
    BY <2>6 DEF S
  <2> QED
    BY <1>2, <1>3, <1>4, <2>3, <2>7
<1> QED
  BY <1>5, <1>6, <1>7

\* The header of one block and one file ends before its checksum.
LEMMA HeaderEndOfGood ==
  ASSUME NEW pos \in Nat, NEW limit \in Nat, pos + 8 < limit,
         NumberAt(pos + 4) = 1, NumberAt(pos + 6) = 1, NumberAt(pos + 7) = 1,
         NumberAt(pos + 8) = 1
  PROVE  HeaderEnd(pos, limit) = pos + 11
<1>1. PICK flag \in Nat, count \in Nat : flag = pos + 6 /\ count = 1
  OBVIOUS
<1>2. flag = pos + 4 + 1 + NumberAt(pos + 4) /\ count = NumberAt(flag + 1)
  <2>1. flag + 1 = pos + 7
    BY <1>1
  <2> QED
    BY <1>1, <2>1
<1>3. PICK f : /\ IsEnds(f, flag + 2, limit, count)
               /\ HeaderEnd(pos, limit) = IF flag >= limit THEN limit + 1
                                          ELSE IF NumberAt(flag) = 0 THEN flag + 1
                                          ELSE IF flag + 1 >= limit THEN limit + 1
                                          ELSE f[count]
  <2>1. ASSUME NEW x, NEW y \in Nat, x = pos + 4 + 1 + NumberAt(pos + 4), y = NumberAt(x + 1)
        PROVE  \E f : /\ IsEnds(f, x + 2, limit, y)
                      /\ HeaderEnd(pos, limit) = IF x >= limit THEN limit + 1
                                                 ELSE IF NumberAt(x) = 0 THEN x + 1
                                                 ELSE IF x + 1 >= limit THEN limit + 1
                                                 ELSE f[y]
    BY <2>1, HeaderEndDef
  <2> QED
    BY <1>2, <2>1
<1>4. HeaderEnd(pos, limit) = f[1]
  <2>1. ~(flag >= limit) /\ ~(flag + 1 >= limit) /\ NumberAt(flag) = 1
    BY <1>1
  <2> QED
    BY <1>1, <1>3, <2>1
<1>5. f[0] = pos + 8
  <2>1. 0 \in 0 .. count /\ flag + 2 = pos + 8
    BY <1>1
  <2> QED
    BY <1>3, <2>1 DEF IsEnds
<1>6. f[1] = IF f[0] >= limit THEN limit + 1 ELSE f[0] + NumberAt(f[0]) + 2
  <2>1. 1 \in 0 .. count /\ 1 - 1 = 0 /\ 1 # 0
    BY <1>1
  <2> QED
    BY <1>3, <2>1 DEF IsEnds
<1> QED
  BY <1>4, <1>5, <1>6
-----------------------------------------------------------------------------
(* The two copies                                                            *)

\* The archive is whole and its footer good.
Located == IsDamagedWhole /\ IsIntact(Len(Whole) - 1, 1)

\* What a good copy of the header, and a good footer, bring the reader to.
CopyInv ==
  /\ at \in {"idle", "footer", "main"} => ~failed
  /\ at \in {"idle", "footer", "main", "mirror", "choose"} => parsed = "none"
  /\ Located /\ at \in {"mirror", "choose"} /\ IsIntact(0, HeaderSize) => mainOk
  /\ Located /\ at = "choose" /\ ~failed /\ IsIntact(MirrorStart, HeaderSize) => mirrorOk
  /\ Located /\ parsed = "invalid" =>
       /\ ~IsIntact(0, HeaderSize)
       /\ ~failed => ~IsIntact(MirrorStart, HeaderSize)

\* Where there is no damage the archive is as it was.
LEMMA IntactBytes ==
  ASSUME IsDamagedWhole, job \in Jobs, NEW pos \in Nat, NEW size \in Nat, IsIntact(pos, size),
         pos + size <= Len(Whole)
  PROVE  \A j \in 1 .. size : bytes[pos + j] = Whole[pos + j]
<1>1. PICK n \in Nat : n = Len(PacketParts)
  BY WholeParts
<1>2. Len(Whole) = 25 + 5 * n
  BY <1>1, WholeCells
<1>3. SUFFICES ASSUME NEW j \in 1 .. size PROVE bytes[pos + j] = Whole[pos + j]
  OBVIOUS
<1>4. PICK p \in 0 .. Len(Whole) - 1 : p = pos + j - 1 /\ p \in pos .. pos + size - 1
  BY <1>2
<1>5. p \notin damaged /\ p + 1 = pos + j
  BY <1>4 DEF IsIntact
<1>6. bytes[p + 1] = Whole[p + 1]
  BY <1>4, <1>5 DEF IsDamagedWhole
<1> QED
  BY <1>5, <1>6

\* The sizes, when the footer is good.
LEMMA FooterGood ==
  ASSUME Located, job \in Jobs, NEW n \in Nat, n = Len(PacketParts)
  PROVE  /\ fileSize = 25 + 5 * n /\ headerBlockSize = 12 /\ headerEndOffset = 12 + 5 * n
         /\ MirrorStart = 12 + 5 * n
<1>1. Len(Whole) = 25 + 5 * n /\ Whole[25 + 5 * n] = Num(12) /\ MirrorStart = 12 + 5 * n
  BY WholeCells
<1>2. fileSize = 25 + 5 * n
  BY <1>1 DEF Located, IsDamagedWhole, fileSize
<1>3. PICK m \in Nat : m = 24 + 5 * n
  OBVIOUS
<1>4. IsIntact(m, 1) /\ m + 1 <= Len(Whole) /\ m + 1 = 25 + 5 * n
  BY <1>1, <1>3 DEF Located
<1>5. bytes[m + 1] = Whole[m + 1]
  <2>1. IsDamagedWhole
    BY DEF Located
  <2>2. \A j \in 1 .. 1 : bytes[m + j] = Whole[m + j]
    BY <1>4, <2>1, IntactBytes
  <2> QED
    BY <2>2
<1>6. headerBlockSize = 12
  <2>1. (fileSize - 1) + 1 = m + 1
    BY <1>2, <1>3
  <2> QED
    BY <1>1, <1>4, <1>5, <2>1 DEF headerBlockSize, NumberAt, Num
<1> QED
  BY <1>1, <1>2, <1>6 DEF headerEndOffset

\* A good copy of the header, read by a stream that has not failed.
LEMMA GoodCopy ==
  ASSUME ReadInv, at # "idle", Located, NEW pos \in {0, headerEndOffset},
         IsIntact(pos, HeaderSize)
  PROVE  /\ HasHeader(pos) /\ verifyHeaderEcc(pos)
         /\ HeaderEnd(pos, fileSize) = pos + 11 /\ HeaderEnd(pos, fileSize) <= fileSize
<1>1. job \in Jobs
  BY DEF ReadInv
<1>2. PICK n \in Nat : n = Len(PacketParts)
  BY <1>1, WholeParts
<1>3. /\ fileSize = 25 + 5 * n /\ headerBlockSize = 12 /\ pos \in {0, 12 + 5 * n}
      /\ HeaderSize = 12 /\ Len(Whole) = 25 + 5 * n
  BY <1>1, <1>2, FooterGood, HeaderFacts, WholeCells
<1>4. pos \in Nat /\ pos + 12 <= Len(Whole) /\ IsIntact(pos, 12)
  BY <1>3
<1>5. ASSUME NEW j \in 1 .. 12 PROVE bytes[pos + j] = HeaderCells[j]
  <2>1. bytes[pos + j] = Whole[pos + j]
    BY <1>1, <1>4, IntactBytes DEF Located
  <2>2. Whole[j] = HeaderCells[j] /\ Whole[12 + 5 * n + j] = HeaderCells[j]
    BY <1>1, <1>2, WholeCells
  <2>3. CASE pos = 0
    BY <2>1, <2>2, <2>3
  <2>4. CASE pos = 12 + 5 * n
    BY <2>1, <2>2, <2>4
  <2> QED
    BY <1>3, <2>3, <2>4
<1>6. \A p \in {0, 4, 6, 7, 8} : NumberAt(pos + p) = HeaderCells[p + 1].n
  <2> SUFFICES ASSUME NEW p \in {0, 4, 6, 7, 8} PROVE NumberAt(pos + p) = HeaderCells[p + 1].n
    OBVIOUS
  <2>1. p + 1 \in 1 .. 12 /\ (pos + p) + 1 = pos + (p + 1)
    BY <1>4
  <2> QED
    BY <1>5, <2>1 DEF NumberAt
<1>7. /\ HeaderCells[1].n = 90 /\ HeaderCells[5].n = 1 /\ HeaderCells[7].n = 1
      /\ HeaderCells[8].n = 1 /\ HeaderCells[9].n = 1
  BY <1>1, HeaderFacts DEF Num
<1>8. /\ NumberAt(pos) = 90 /\ NumberAt(pos + 4) = 1 /\ NumberAt(pos + 6) = 1
      /\ NumberAt(pos + 7) = 1 /\ NumberAt(pos + 8) = 1
  <2>1. NumberAt(pos + 0) = HeaderCells[0 + 1].n
    BY <1>6
  <2>2. pos + 0 = pos
    BY <1>4
  <2> QED
    BY <1>6, <1>7, <2>1, <2>2
<1>9. HasHeader(pos)
  <2>1. NumberAt(pos + 4) <= fileSize - pos - 4 - 2
    BY <1>3, <1>8
  <2> QED
    BY <1>8, <2>1 DEF HasHeader, PacketHeaderSize, WHPAR_MAGIC
<1>10. HeaderEnd(pos, fileSize) = pos + 11
  <2>1. pos + 8 < fileSize /\ fileSize \in Nat
    BY <1>3
  <2> QED
    BY <1>4, <1>8, <2>1, HeaderEndOfGood
<1>11. HeaderBody(pos) = BodyCells
  <2>1. HeaderBody(pos) = SubSeq(bytes, pos + 1, pos + 11)
    <3>1. pos + 12 - 1 = pos + 11
      BY <1>4
    <3> QED
      BY <1>3, <3>1 DEF HeaderBody
  <2>2. SubSeq(bytes, pos + 1, pos + 11) = [i \in 1 .. 11 |-> bytes[i + pos]]
    <3>1. SubSeq(bytes, pos + 1, pos + 11)
            = [i \in 1 .. (1 + (pos + 11) - (pos + 1)) |-> bytes[i + (pos + 1) - 1]]
      BY DEF SubSeq
    <3>2. 1 + (pos + 11) - (pos + 1) = 11 /\ \A i \in 1 .. 11 : i + (pos + 1) - 1 = i + pos
      BY <1>4
    <3> QED
      BY <3>1, <3>2
  <2>3. ASSUME NEW i \in 1 .. 11 PROVE bytes[i + pos] = BodyCells[i]
    <3>1. i \in 1 .. 12 /\ i + pos = pos + i
      BY <1>4
    <3>2. HeaderCells[i] = BodyCells[i]
      BY <1>1, HeaderFacts
    <3> QED
      BY <1>5, <3>1, <3>2
  <2>4. BodyCells = [i \in 1 .. 11 |-> BodyCells[i]]
    BY <1>1, HeaderFacts
  <2> QED
    BY <2>1, <2>2, <2>3, <2>4
<1>12. verifyHeaderEcc(pos)
  <2>1. bytes[pos + 12] = HeaderCells[12] /\ HeaderCells[12] = HashOf(BodyCells)
    BY <1>1, <1>5, HeaderFacts
  <2> QED
    BY <1>3, <1>11, <2>1 DEF verifyHeaderEcc
<1> QED
  BY <1>3, <1>9, <1>10, <1>12

\* The steps of the reader lead from a good copy to a valid archive.
LEMMA CopyKeeps ==
  ASSUME ReadInv, CopyInv, ReaderNext, UNCHANGED <<job, archive, damaged>>
  PROVE  CopyInv'
<1>1. bytes' = bytes /\ at # "idle" /\ job \in Jobs
  BY ReaderActs DEF ReadInv
<1>2. /\ Located' = Located
      /\ IsIntact(0, HeaderSize)' = IsIntact(0, HeaderSize)
      /\ IsIntact(MirrorStart, HeaderSize)' = IsIntact(MirrorStart, HeaderSize)
  BY <1>1, FileSame DEF Located, IsDamagedWhole, IsIntact, Leavings
<1>3. PICK n \in Nat : n = Len(PacketParts)
  BY <1>1, WholeParts
<1>4. Located => /\ fileSize = 25 + 5 * n /\ headerBlockSize = 12
                 /\ headerEndOffset = 12 + 5 * n /\ MirrorStart = headerEndOffset
  BY <1>1, <1>3, FooterGood
<1>5. CASE ReadFooter
  <2>1. CASE at' = "main" /\ UNCHANGED <<failed, mainOk, mirrorOk, parsed>>
    BY <1>2, <1>5, <2>1 DEF CopyInv, ReadFooter
  <2>2. CASE /\ \/ fileSize < 1
                \/ headerBlockSize < PacketHeaderSize \/ headerBlockSize > fileSize - 1
                \/ headerEndOffset <= 0
             /\ ParseEnds("invalid")
    <3>1. ~Located
      BY <1>4, <2>2 DEF PacketHeaderSize
    <3> QED
      BY <1>2, <1>5, <2>2, <3>1 DEF CopyInv, ReadFooter, ParseEnds
  <2> QED
    BY <1>5, <2>1, <2>2 DEF ReadFooter, parseVars
<1>6. CASE ReadMain
  <2>1. CASE /\ mainOk' = HeaderOk(0) /\ at' = "mirror" /\ UNCHANGED <<mirrorOk, parsed, meta>>
    <3>1. ASSUME Located, IsIntact(0, HeaderSize) PROVE HeaderOk(0)
      <4>1. /\ HasHeader(0) /\ verifyHeaderEcc(0) /\ HeaderEnd(0, fileSize) = 0 + 11
        BY <1>1, <3>1, GoodCopy
      <4>2. ~failed
        BY <1>6 DEF CopyInv, ReadMain
      <4>3. ~(HeaderEnd(0, fileSize) > fileSize)
        BY <1>4, <3>1, <4>1
      <4> QED
        BY <4>1, <4>2, <4>3 DEF HeaderOk, RunsOver
    <3> QED
      BY <1>2, <1>6, <2>1, <3>1 DEF CopyInv, ReadMain
  <2>2. CASE ParseEnds("died")
    BY <1>2, <1>6, <2>2 DEF CopyInv, ReadMain, ParseEnds
  <2> QED
    BY <1>6, <2>1, <2>2 DEF ReadMain
<1>7. CASE ReadMirror
  <2>1. CASE /\ mirrorOk' = HeaderOk(headerEndOffset) /\ at' = "choose"
             /\ failed' = (failed \/ RunsOver(headerEndOffset))
             /\ UNCHANGED <<mainOk, parsed, meta>>
    <3>1. ASSUME Located, ~failed', IsIntact(MirrorStart, HeaderSize)
          PROVE  HeaderOk(headerEndOffset)
      <4>1. IsIntact(headerEndOffset, HeaderSize)
        BY <1>4, <3>1
      <4>2. HasHeader(headerEndOffset) /\ verifyHeaderEcc(headerEndOffset)
        BY <1>1, <3>1, <4>1, GoodCopy
      <4> QED
        BY <2>1, <3>1, <4>2 DEF HeaderOk
    <3> QED
      BY <1>2, <1>7, <2>1, <3>1 DEF CopyInv, ReadMirror
  <2>2. CASE ParseEnds("died")
    BY <1>2, <1>7, <2>2 DEF CopyInv, ReadMirror, ParseEnds
  <2> QED
    BY <1>7, <2>1, <2>2 DEF ReadMirror, MirrorAt
<1>8. CASE ChooseHeader
  <2>1. CASE parsed' = "valid" /\ at' = "walk"
    BY <1>2, <1>8, <2>1 DEF CopyInv
  <2>2. CASE ~mainOk /\ ~mirrorOk /\ ParseEnds("invalid")
    BY <1>2, <1>8, <2>2 DEF CopyInv, ChooseHeader, ParseEnds
  <2> QED
    BY <1>8, <2>1, <2>2 DEF ChooseHeader
<1>9. CASE PassHeader \/ PassForeign \/ PassUnfit \/ TakePacket \/ WalkEnds
  <2>1. at = "walk" /\ at' \in {"walk", "ended"} /\ UNCHANGED <<failed, parsed>>
    BY <1>9 DEF PassHeader, PassForeign, PassUnfit, TakePacket, WalkEnds, GoTo, AtPacket,
       parseVars
  <2> QED
    BY <1>2, <2>1 DEF CopyInv
<1> QED
  BY <1>5, <1>6, <1>7, <1>8, <1>9 DEF ReaderNext

\* The property of the runs follows.
LEMMA CopySuffices == ReadInv /\ at # "idle" /\ CopyInv => OneCopySuffices
<1> SUFFICES ASSUME ReadInv, at # "idle", CopyInv, parsed = "invalid", archive = WholeArchive,
                    Len(bytes) = Len(Whole), IsIntact(Len(Whole) - 1, 1)
             PROVE  ~(IsIntact(0, HeaderSize)
                      \/ (~failed /\ IsIntact(MirrorStart, HeaderSize)))
  BY DEF OneCopySuffices
<1>1. Located
  BY DEF Located, ReadInv, IsTorn
<1> QED
  BY <1>1 DEF CopyInv
-----------------------------------------------------------------------------
(* The walk                                                                  *)

\* What is given of packet k when it is as it was written.
PacketOf(k) ==
  [track |-> PacketTrack(PacketParts[k]), payload |-> Block(PacketParts[k]), valid |-> TRUE]

\* A packet without damage, and not too large, that the walk comes to in step.
IsReached(k) ==
  BlocksFit /\ IsIntact(PacketStart(k), PacketSize) /\ \A j \in 1 .. (k - 1) : ~LosesStep(j)

\* Of the first packets, all that are reached have been given.
AreGiven(number) == \A k \in 1 .. number : IsReached(k) => PacketOf(k) \in ToSet(found)

\* The walk is at the beginning of a packet or behind the last one and has given
\* what it has passed, or it can reach no more.
InStep ==
  \E m \in 1 .. Len(PacketParts) + 1 : bufOff = (m - 1) * 5 /\ AreGiven(m - 1)

Found == [track : Nat, payload : Seq(Cells), valid : BOOLEAN]

WalkInv ==
  /\ found \in Seq(Found) /\ bufOff \in Nat
  /\ at \in {"idle", "footer", "main", "mirror", "choose"} => bufOff = 0
  /\ at = "walk" => InStep \/ AreGiven(Len(PacketParts))
  /\ at = "ended" /\ parsed = "valid" => AreGiven(Len(PacketParts))
  /\ ValidIsWritten

\* One element more.
LEMMA ToSetAppend ==
  ASSUME NEW X, NEW s \in Seq(X), NEW x \in X
  PROVE  ToSet(Append(s, x)) = ToSet(s) \cup {x}
<1>1. PICK n \in Nat : n = Len(s)
  OBVIOUS
<1>2. PICK t : t = Append(s, x)
  OBVIOUS
<1>3. /\ DOMAIN s = 1 .. n /\ DOMAIN t = 1 .. n + 1
      /\ \A i \in 1 .. n : t[i] = s[i]
      /\ t[n + 1] = x
  BY <1>2, <1>1
<1>4. ASSUME NEW y \in ToSet(t) PROVE y \in ToSet(s) \cup {x}
  <2>1. PICK i \in 1 .. n + 1 : y = t[i]
    BY <1>3, <1>4 DEF ToSet
  <2>2. CASE i = n + 1
    BY <1>3, <2>1, <2>2
  <2>3. CASE i # n + 1
    <3>1. i \in 1 .. n
      BY <2>3
    <3> QED
      BY <1>3, <2>1, <3>1 DEF ToSet
  <2> QED
    BY <2>2, <2>3
<1>5. ASSUME NEW y \in ToSet(s) PROVE y \in ToSet(t)
  <2>1. PICK i \in 1 .. n : y = s[i]
    BY <1>3, <1>5 DEF ToSet
  <2>2. i \in 1 .. n + 1 /\ y = t[i]
    BY <1>3, <2>1
  <2> QED
    BY <1>3, <2>2 DEF ToSet
<1>6. x \in ToSet(t)
  <2>1. n + 1 \in 1 .. n + 1
    OBVIOUS
  <2> QED
    BY <1>3, <2>1 DEF ToSet
<1>7. ToSet(t) = ToSet(s) \cup {x}
  BY <1>4, <1>5, <1>6
<1> QED
  BY <1>2, <1>7

\* The sizes, when the archive is believed.
LEMMA AcceptedSizes ==
  ASSUME ReadInv, at # "idle", Accepted, NEW n \in Nat, n = Len(PacketParts)
  PROVE  /\ fileSize = 25 + 5 * n /\ headerBlockSize = 12 /\ headerEndOffset = 12 + 5 * n
         /\ dataSz = 5 * n /\ totalTracks = Tracks /\ job \in Jobs
<1>1. job \in Jobs
  BY DEF ReadInv
<1>2. fileSize = 25 + 5 * n
  BY <1>1, WholeCells DEF Accepted, IsDamagedWhole, fileSize
<1>3. headerBlockSize = 12 /\ headerEndOffset = 12 + 5 * n /\ dataSz = 5 * n
  BY <1>2 DEF Accepted, headerEndOffset, dataSz
<1>4. totalTracks = Tracks
  <2>1. meta[3].n = Tracks /\ Tracks # 0
    BY <1>1, HeaderFacts, TrackFacts DEF Accepted, Num
  <2> QED
    BY <2>1 DEF totalTracks
<1> QED
  BY <1>1, <1>2, <1>3, <1>4

\* A cell of a packet: as it was written, or damaged.
LEMMA PacketCell ==
  ASSUME job \in Jobs, IsDamagedWhole, NEW k \in 1 .. Len(PacketParts), NEW i \in 0 .. 4,
         NEW p, p = PacketStart(k) + i
  PROVE  /\ PacketStart(k) = 12 + (k - 1) * 5 /\ p \in Nat
         /\ \/ bytes[p + 1] = PacketCells(PacketParts[k])[i + 1]
            \/ p \in damaged /\ bytes[p + 1] \in Leavings
<1>1. PICK n \in Nat : n = Len(PacketParts)
  BY WholeParts
<1>2. k \in 1 .. n /\ Len(Whole) = 25 + 5 * n
  BY <1>1, WholeCells
<1>3. PacketStart(k) = 12 + (k - 1) * 5
  BY <1>2, Places
<1>4. p \in 0 .. Len(Whole) - 1
  BY <1>2, <1>3
<1>5. bytes[p + 1] = Whole[p + 1] \/ (p \in damaged /\ bytes[p + 1] \in Leavings)
  BY <1>4 DEF IsDamagedWhole
<1>6. Whole[p + 1] = PacketCells(PacketParts[k])[i + 1]
  <2>1. PICK j \in 1 .. 5 : j = i + 1
    OBVIOUS
  <2>2. Whole[12 + (k - 1) * 5 + j] = PacketCells(PacketParts[k])[j]
    BY <1>1, <1>2, WholeCells
  <2>3. p + 1 = 12 + (k - 1) * 5 + j
    BY <1>2, <1>3, <2>1
  <2> QED
    BY <2>1, <2>2, <2>3
<1> QED
  BY <1>3, <1>4, <1>5, <1>6

\* What the reader sees of a packet when it is in step.
LEMMA PacketSeen ==
  ASSUME ReadInv, at # "idle", Accepted, NEW k \in 1 .. Len(PacketParts),
         bufOff = (k - 1) * 5
  PROVE  /\ Place = PacketStart(k) /\ Behind = (k - 1) * 5 + 4
         /\ ~LosesStep(k) => BlockSize = 1 /\ NumberAt(Place) # WHPAR_MAGIC
         /\ PacketStart(k) + 2 \notin damaged => Track = PacketTrack(PacketParts[k])
         /\ IsIntact(PacketStart(k), PacketSize) =>
              /\ ~LosesStep(k) /\ IsPacket /\ (BlocksFit => ~IsUnfit)
              /\ [track |-> Track, payload |-> Payload, valid |-> PayloadHashed] = PacketOf(k)
<1>1. PICK n \in Nat, p \in OfJob : n = Len(PacketParts) /\ p = PacketParts[k] /\ k \in 1 .. n
  <2>1. PacketParts \in Seq(OfJob) /\ Len(PacketParts) \in Nat
    BY WholeParts DEF ReadInv
  <2>2. PacketParts[k] \in OfJob
    BY <2>1, ElementOfSeq
  <2> QED
    BY <2>1, <2>2
<1>2. /\ headerBlockSize = 12 /\ totalTracks = Tracks /\ job \in Jobs /\ IsDamagedWhole
      /\ PacketSize = 5
  BY <1>1, AcceptedSizes, Places DEF Accepted
<1>3. PICK start \in Nat : start = PacketStart(k) /\ start = 12 + (k - 1) * 5
  BY <1>1, <1>2, Places
<1>4. Place = start /\ Behind = (k - 1) * 5 + 4 /\ bufOff = start - 12
  BY <1>1, <1>2, <1>3 DEF Place, Behind, PacketHeaderSize
<1>5. \A i \in 0 .. 4 : start + i \notin damaged => bytes[start + i + 1] = PacketCells(p)[i + 1]
  BY <1>1, <1>2, <1>3, PacketCell
<1>6. /\ PacketCells(p)[1] = Num(91) /\ PacketCells(p)[2] = Num(1)
      /\ PacketCells(p)[3] = Num(PacketTrack(p)) /\ PacketCells(p)[4] = HashOf(Block(p))
      /\ PacketCells(p)[5] = Block(p)[1]
      /\ Len(Block(p)) = 1 /\ Block(p) = <<Block(p)[1]>>
      /\ PacketTrack(p) \in Nat /\ PacketTrack(p) < Tracks /\ Tracks \in Nat
  BY <1>1, <1>2, PacketFacts, TrackFacts
<1>7. start + 1 \notin damaged => BlockSize = 1
  <2> SUFFICES ASSUME start + 1 \notin damaged PROVE BlockSize = 1
    OBVIOUS
  <2>1. bytes[start + 1 + 1] = PacketCells(p)[1 + 1]
    BY <1>5
  <2> QED
    BY SMTT(20), <1>4, <1>6, <2>1 DEF BlockSize, NumberAt, Num
<1>8. start + 2 \notin damaged => Track = PacketTrack(p)
  <2> SUFFICES ASSUME start + 2 \notin damaged PROVE Track = PacketTrack(p)
    OBVIOUS
  <2>1. bytes[start + 2 + 1] = PacketCells(p)[2 + 1]
    BY <1>5
  <2> QED
    BY SMTT(20), <1>4, <1>6, <2>1 DEF Track, NumberAt, Num
<1>9. ~LosesStep(k) => BlockSize = 1 /\ NumberAt(Place) # WHPAR_MAGIC
  BY <1>3, <1>4, <1>7 DEF LosesStep
<1>10. ASSUME IsIntact(PacketStart(k), PacketSize)
       PROVE  /\ ~LosesStep(k) /\ IsPacket /\ (BlocksFit => ~IsUnfit)
              /\ [track |-> Track, payload |-> Payload, valid |-> PayloadHashed] = PacketOf(k)
  <2>1. \A i \in 0 .. 4 : start + i \notin damaged
    <3> TAKE i \in 0 .. 4
    <3>1. start + i \in start .. (start + 5 - 1)
      OBVIOUS
    <3> QED
      BY <1>2, <1>3, <1>10, <3>1 DEF IsIntact
  <2>2. /\ bytes[start + 1] = Num(91) /\ bytes[start + 4] = HashOf(Block(p))
        /\ bytes[start + 5] = Block(p)[1]
    <3>1. /\ bytes[start + 0 + 1] = PacketCells(p)[0 + 1]
          /\ bytes[start + 3 + 1] = PacketCells(p)[3 + 1]
          /\ bytes[start + 4 + 1] = PacketCells(p)[4 + 1]
      BY <1>5, <2>1
    <3> QED
      BY SMTT(20), <1>6, <3>1
  <2>3. NumberAt(Place) = 91
    BY <1>4, <2>2 DEF NumberAt, Num
  <2>4. BlockSize = 1 /\ Track = PacketTrack(p)
    BY <1>7, <1>8, <2>1
  <2>5. ~LosesStep(k)
    BY <1>3, <1>4, <2>1, <2>3 DEF LosesStep, WHPAR_MAGIC
  <2>6. IsPacket /\ (BlocksFit => ~IsUnfit)
    <3>1. IsPacket
      BY <2>3 DEF IsPacket, WHPAR_PKT_MAGIC
    <3>2. maxBlockSize \in Nat
      BY DEF ReadInv
    <3>3. ASSUME BlocksFit PROVE ~IsUnfit
      BY <1>2, <1>6, <2>4, <3>2, <3>3 DEF IsUnfit, BlocksFit
    <3> QED
      BY <3>1, <3>3
  <2>7. Payload = Block(p)
    <3>1. headerBlockSize + Behind + 1 = start + 5 /\ headerBlockSize + Behind + BlockSize = start + 5
      BY <1>2, <1>3, <1>4, <2>4
    <3>2. Payload = SubSeq(bytes, start + 5, start + 5)
      BY <3>1 DEF Payload
    <3>3. SubSeq(bytes, start + 5, start + 5)
            = [i \in 1 .. (1 + (start + 5) - (start + 5)) |-> bytes[i + (start + 5) - 1]]
      BY DEF SubSeq
    <3>4. 1 + (start + 5) - (start + 5) = 1 /\ 1 + (start + 5) - 1 = start + 5
      OBVIOUS
    <3>5. [i \in 1 .. 1 |-> bytes[i + (start + 5) - 1]] = <<bytes[start + 5]>>
      BY <3>4
    <3> QED
      BY <1>6, <2>2, <3>2, <3>3, <3>4, <3>5
  <2>8. PayloadHashed
    <3>1. Place + 4 = start + 4 /\ (Place + 3) + 1 = start + 4
      BY <1>4
    <3> QED
      BY <2>2, <2>7, <3>1 DEF PayloadHashed, NumberAt, HashOf
  <2>9. PayloadHashed = TRUE
    BY <2>8 DEF PayloadHashed
  <2> QED
    BY <1>1, <2>4, <2>5, <2>6, <2>7, <2>9 DEF PacketOf
<1> QED
  BY <1>1, <1>3, <1>4, <1>8, <1>9, <1>10

\* The walk looks at nothing outside the packets.
LEMMA WalkPlaces ==
  ASSUME ReadInv, at # "idle", Accepted, AtPacket, bufOff \in Nat,
         NEW n \in Nat, n = Len(PacketParts)
  PROVE  /\ bufOff + 4 <= 5 * n /\ Behind = bufOff + 4 /\ Place = 12 + bufOff
         /\ BlockSize \in Nat /\ Track \in Nat
<1>1. fileSize = 25 + 5 * n /\ headerBlockSize = 12 /\ dataSz = 5 * n
  BY AcceptedSizes
<1>2. Behind = bufOff + 4 /\ Place = 12 + bufOff /\ bufOff + 4 <= 5 * n
  BY <1>1 DEF Behind, Place, AtPacket, PacketHeaderSize
<1>3. Place + 1 \in 0 .. fileSize - 1 /\ Place + 2 \in 0 .. fileSize - 1
  BY <1>1, <1>2
<1>4. BlockSize \in Nat
  BY <1>3, NumberType DEF BlockSize
<1>5. Track \in Nat
  BY <1>3, NumberType DEF Track
<1> QED
  BY <1>2, <1>4, <1>5

\* It never goes back behind the first header.
LEMMA WalkType ==
  ASSUME ReadInv, Accepted, bufOff \in Nat,
         PassHeader \/ PassForeign \/ PassUnfit \/ TakePacket
  PROVE  bufOff' \in Nat
<1>1. at # "idle" /\ AtPacket
  BY DEF PassHeader, PassForeign, PassUnfit, TakePacket, AtPacket
<1>2. PICK n \in Nat : n = Len(PacketParts)
  BY <1>1, WholeParts DEF ReadInv
<1>3. /\ bufOff + 4 <= 5 * n /\ Behind = bufOff + 4 /\ Place = 12 + bufOff
      /\ BlockSize \in Nat
  BY <1>1, <1>2, WalkPlaces
<1>4. CASE PassForeign \/ PassUnfit \/ TakePacket
  <2>1. bufOff' = Behind + BlockSize
    BY <1>4 DEF PassForeign, BehindForeign, PassUnfit, TakePacket, GoTo
  <2> QED
    BY <1>3, <2>1
<1>5. CASE PassHeader
  <2>1. /\ fileSize = 25 + 5 * n /\ headerBlockSize = 12 /\ dataSz = 5 * n
        /\ headerEndOffset = 12 + 5 * n
    BY <1>1, <1>2, AcceptedSizes
  <2>2. CASE Behind + 1 > dataSz
    <3>1. bufOff' = dataSz
      BY <1>5, <2>2 DEF PassHeader, GoTo
    <3> QED
      BY <2>1, <3>1
  <2>3. CASE ~(Behind + 1 > dataSz)
    <3>1. bufOff' = HeaderEnd(Place, headerEndOffset) - headerBlockSize
      BY <1>5, <2>3 DEF PassHeader, GoTo
    <3>2. PICK pos \in Nat, limit \in Nat : pos = Place /\ limit = headerEndOffset
      BY <1>3, <2>1
    <3>3. limit <= fileSize /\ pos + 4 < limit /\ pos >= 12
      BY <1>3, <2>1, <2>3, <3>2
    <3>4. HeaderEnd(pos, limit) \in Nat /\ HeaderEnd(pos, limit) > pos
      BY <1>1, <3>3, HeaderEndType
    <3> QED
      BY <2>1, <3>1, <3>2, <3>3, <3>4
  <2> QED
    BY <2>2, <2>3
<1> QED
  BY <1>4, <1>5

\* A part of the file.
LEMMA PayloadType ==
  ASSUME ReadInv, Accepted, bufOff \in Nat, TakePacket
  PROVE  Payload \in Seq(Cells)
<1>1. at # "idle" /\ AtPacket
  BY DEF TakePacket, AtPacket
<1>2. PICK n \in Nat : n = Len(PacketParts)
  BY <1>1, WholeParts DEF ReadInv
<1>3. /\ Behind = bufOff + 4 /\ BlockSize \in Nat
  BY <1>1, <1>2, WalkPlaces
<1>4. /\ fileSize = 25 + 5 * n /\ headerBlockSize = 12 /\ dataSz = 5 * n
  BY <1>1, <1>2, AcceptedSizes
<1>5. PICK a \in Nat, c \in Nat : a = 16 + bufOff /\ c = BlockSize
  BY <1>3
<1>6. a + c <= fileSize
  BY <1>3, <1>4, <1>5 DEF TakePacket
<1>7. Payload = SubSeq(bytes, a + 1, a + c)
  BY <1>3, <1>4, <1>5 DEF Payload
<1>8. SubSeq(bytes, a + 1, a + c) = [i \in 1 .. c |-> bytes[i + a]]
  <2>1. SubSeq(bytes, a + 1, a + c) = [i \in 1 .. (1 + (a + c) - (a + 1)) |-> bytes[i + (a + 1) - 1]]
    BY DEF SubSeq
  <2>2. 1 + (a + c) - (a + 1) = c /\ \A i \in 1 .. c : i + (a + 1) - 1 = i + a
    OBVIOUS
  <2> QED
    BY <2>1, <2>2
<1>9. ASSUME NEW i \in 1 .. c PROVE bytes[i + a] \in Cells
  <2>1. bytes \in Seq(Cells) /\ i + a \in 1 .. Len(bytes)
    BY <1>1, <1>6 DEF ReadInv, fileSize
  <2> QED
    BY <2>1, ElementOfSeq
<1> QED
  BY <1>7, <1>8, <1>9

\* A hash that is right is that of a packet.
LEMMA HashedIsWritten ==
  ASSUME FewTracks, ReadInv, Accepted, bufOff \in Nat, TakePacket, PayloadHashed
  PROVE  \E k \in DOMAIN PacketParts :
           /\ Payload = Block(PacketParts[k])
           /\ Track = PacketTrack(PacketParts[k]) \/ PacketStart(k) + 2 \in damaged
<1>1. at # "idle" /\ AtPacket /\ job \in Jobs /\ IsDamagedWhole
  BY DEF TakePacket, AtPacket, ReadInv, Accepted
<1>2. PICK n \in Nat : n = Len(PacketParts) /\ DOMAIN PacketParts = 1 .. n
  BY <1>1, WholeParts
<1>3. bufOff + 4 <= 5 * n /\ Place = 12 + bufOff
  BY <1>1, <1>2, WalkPlaces
<1>4. PICK l \in Nat, i \in 0 .. 4 : bufOff + 3 = l * 5 + i
  <2>1. bufOff + 3 \in Nat /\ 5 \in Nat \ {0}
    OBVIOUS
  <2>2. PICK q \in Nat, r \in 0 .. 5 - 1 : bufOff + 3 = q * 5 + r
    BY <2>1, Quotient
  <2> QED
    BY <2>2
<1>5. PICK k \in 1 .. n : k = l + 1
  BY <1>3, <1>4
<1>6. PICK p \in Nat : p = PacketStart(k) + i /\ PacketStart(k) = 12 + (k - 1) * 5
  <2>1. PacketStart(k) = 12 + (k - 1) * 5 /\ 12 + (k - 1) * 5 + i \in Nat
    BY <1>1, <1>2, Places
  <2> QED
    BY <2>1, Zenon
<1>7. p = Place + 3
  BY <1>3, <1>4, <1>5, <1>6
<1>8. bytes[p + 1].n = 95 /\ bytes[p + 1] = HashOf(Payload)
  <2>1. Place + 4 = p + 1
    BY <1>3, <1>7
  <2> QED
    BY <1>7, <2>1 DEF PayloadHashed, NumberAt
<1>9. bytes[p + 1] = PacketCells(PacketParts[k])[i + 1]
  <2>1. \/ bytes[p + 1] = PacketCells(PacketParts[k])[i + 1]
        \/ bytes[p + 1] \in Leavings
    BY <1>1, <1>2, <1>6, PacketCell
  <2>2. \A c \in Leavings : c.n # 95
    BY DEF Leavings, Num
  <2> QED
    BY <1>8, <2>1, <2>2
<1>10. PICK part \in OfJob : part = PacketParts[k]
  <2>1. PacketParts \in Seq(OfJob) /\ k \in 1 .. Len(PacketParts)
    BY <1>1, <1>2, WholeParts
  <2> QED
    BY <2>1, ElementOfSeq
<1>11. i = 3
  <2>1. PICK w : w = PacketCells(part)
    OBVIOUS
  <2>2. /\ w[1] = Num(91) /\ w[2] = Num(1) /\ w[3] = Num(PacketTrack(part))
        /\ w[5] \in BlockCells /\ PacketTrack(part) < Tracks /\ Tracks < 12
        /\ PacketTrack(part) \in Nat /\ Tracks \in Nat
    BY <1>1, <2>1, PacketFacts, TrackFacts, TracksAreFew
  <2>3. w[1].n = 91 /\ w[2].n = 1 /\ w[3].n = PacketTrack(part) /\ w[5].n = 3
    BY <2>2 DEF BlockCells, BlockCell, Num
  <2>4. w[i + 1].n = 95
    BY <1>8, <1>9, <1>10, <2>1
  <2>5. i # 0 /\ i # 1 /\ i # 2 /\ i # 4
    BY <2>2, <2>3, <2>4
  <2> QED
    BY <2>5
<1>12. Payload = Block(part)
  <2>1. bytes[p + 1] = HashOf(Block(part))
    <3>1. PacketCells(part)[3 + 1] = HashOf(Block(part))
      BY <1>1, PacketFacts
    <3> QED
      BY <1>9, <1>10, <1>11, <3>1
  <2> QED
    BY <1>8, <2>1 DEF HashOf
<1>13. Track = PacketTrack(part) \/ PacketStart(k) + 2 \in damaged
  <2>1. bufOff = (k - 1) * 5
    BY <1>4, <1>5, <1>11
  <2>2. PacketStart(k) + 2 \notin damaged => Track = PacketTrack(PacketParts[k])
    BY <1>1, <1>2, <2>1, PacketSeen
  <2> QED
    BY <1>10, <2>2
<1> QED
  BY <1>2, <1>10, <1>12, <1>13

\* What the walk is measured by stays the same.
LEMMA WalkSame ==
  ASSUME UNCHANGED <<job, bytes, maxBlockSize, damaged>>
  PROVE  /\ PacketParts' = PacketParts
         /\ \A k : IsReached(k)' = IsReached(k) /\ PacketOf(k)' = PacketOf(k)
         /\ \A k : PacketStart(k)' = PacketStart(k)
         /\ \A p : PacketTrack(p)' = PacketTrack(p)
         /\ Cells' = Cells /\ Found' = Found
<1>1. /\ PacketParts' = PacketParts /\ \A k : PacketStart(k)' = PacketStart(k)
      /\ \A p : PacketTrack(p)' = PacketTrack(p)
      /\ Cells' = Cells
  BY FileSame
<1>2. \A p : NumberAt(p)' = NumberAt(p)
  BY BytesSame
<1>3. \A k : LosesStep(k)' = LosesStep(k)
  BY <1>1, <1>2 DEF LosesStep
<1>4. \A k : IsReached(k)' = IsReached(k)
  BY <1>1, <1>3 DEF IsReached, IsIntact, BlocksFit
<1>5. \A k : PacketOf(k)' = PacketOf(k)
  BY <1>1 DEF PacketOf
<1>6. Found' = Found
  BY <1>1 DEF Found
<1> QED
  BY <1>1, <1>4, <1>5, <1>6

\* The packet that is given.
Given == [track |-> Track, payload |-> Payload, valid |-> PayloadHashed]

\* A packet that is given is valid only if it was written.
LEMMA GiveKeeps ==
  ASSUME FewTracks, ReadInv, Accepted, WalkInv, TakePacket,
         UNCHANGED <<job, bytes, maxBlockSize, damaged>>
  PROVE  /\ found' \in Seq(Found) /\ ToSet(found') = ToSet(found) \cup {Given}
         /\ ValidIsWritten'
<1>1. at # "idle" /\ AtPacket /\ bufOff \in Nat /\ found \in Seq(Found)
  BY DEF TakePacket, AtPacket, WalkInv
<1>2. PICK n \in Nat : n = Len(PacketParts)
  BY <1>1, WholeParts DEF ReadInv
<1>3. Given \in Found
  <2>1. Track \in Nat
    BY <1>1, <1>2, WalkPlaces
  <2>2. Payload \in Seq(Cells)
    BY <1>1, PayloadType
  <2>3. PayloadHashed \in BOOLEAN
    BY DEF PayloadHashed
  <2> QED
    BY <2>1, <2>2, <2>3 DEF Given, Found
<1>4. found' = Append(found, Given)
  BY DEF TakePacket, Given
<1>5. found' \in Seq(Found)
  BY <1>1, <1>3, <1>4
<1>6. ToSet(found') = ToSet(found) \cup {Given}
  BY <1>1, <1>3, <1>4, ToSetAppend
<1>7. ASSUME NEW f \in ToSet(found'), f.valid
      PROVE  \E k \in DOMAIN PacketParts :
               /\ f.payload = Block(PacketParts[k])
               /\ f.track = PacketTrack(PacketParts[k]) \/ PacketStart(k) + 2 \in damaged
  <2>1. CASE f \in ToSet(found)
    BY <1>7, <2>1 DEF WalkInv, ValidIsWritten
  <2>2. CASE f = Given
    <3>1. f.track = Track /\ f.payload = Payload /\ f.valid = PayloadHashed
      BY <2>2 DEF Given
    <3>2. PayloadHashed
      BY <1>7, <3>1
    <3> QED
      BY <1>1, <3>1, <3>2, HashedIsWritten
  <2> QED
    BY <1>6, <1>7, <2>1, <2>2
<1>8. ValidIsWritten'
  <2>1. /\ PacketParts' = PacketParts /\ damaged' = damaged
        /\ \A k : PacketStart(k)' = PacketStart(k)
        /\ \A p : PacketTrack(p)' = PacketTrack(p)
        /\ \A p : Block(p)' = Block(p)
    BY WalkSame DEF Block
  <2> QED
    BY <1>7, <2>1 DEF ValidIsWritten
<1> QED
  BY <1>5, <1>6, <1>8

\* Behind a packet that leads the walk astray nothing is reached.
LEMMA Astray ==
  ASSUME NEW n \in Nat, NEW m \in 1 .. n, AreGiven(m - 1), LosesStep(m), ~IsReached(m)
  PROVE  AreGiven(n)
<1> SUFFICES ASSUME NEW k \in 1 .. n, IsReached(k) PROVE PacketOf(k) \in ToSet(found)
  BY DEF AreGiven
<1>1. CASE k < m
  <2>1. k \in 1 .. (m - 1)
    BY <1>1
  <2> QED
    BY <2>1 DEF AreGiven
<1>2. CASE k = m
  BY <1>2
<1>3. CASE k > m
  <2>1. m \in 1 .. (k - 1)
    BY <1>3
  <2> QED
    BY <2>1 DEF IsReached
<1> QED
  BY <1>1, <1>2, <1>3

\* One step of a walk that is in step.
LEMMA StepByStep ==
  ASSUME ReadInv, Accepted, NEW n \in Nat, n = Len(PacketParts),
         NEW m \in 1 .. n + 1, bufOff = (m - 1) * 5, AreGiven(m - 1),
         PassHeader \/ PassForeign \/ PassUnfit \/ TakePacket
  PROVE  \/ AreGiven(n)
         \/ /\ m <= n /\ bufOff' = m * 5
            /\ IsReached(m) => TakePacket /\ Given = PacketOf(m)
<1>1. at # "idle" /\ AtPacket /\ bufOff \in Nat
  BY DEF PassHeader, PassForeign, PassUnfit, TakePacket, AtPacket
<1>2. bufOff + 4 <= 5 * n
  BY <1>1, WalkPlaces
<1>3. m \in 1 .. n
  BY <1>2
<1>4. /\ Behind = (m - 1) * 5 + 4
      /\ ~LosesStep(m) => BlockSize = 1 /\ NumberAt(Place) # WHPAR_MAGIC
      /\ IsIntact(PacketStart(m), PacketSize) =>
           ~LosesStep(m) /\ IsPacket /\ (BlocksFit => ~IsUnfit) /\ Given = PacketOf(m)
  BY <1>1, <1>3, PacketSeen DEF Given
<1>5. CASE LosesStep(m)
  <2>1. ~IsReached(m)
    BY <1>4, <1>5 DEF IsReached
  <2> QED
    BY <1>3, <1>5, <2>1, Astray
<1>6. CASE ~LosesStep(m)
  <2>1. ~PassHeader
    BY <1>4, <1>6 DEF PassHeader
  <2>2. bufOff' = Behind + BlockSize
    BY <2>1 DEF PassForeign, BehindForeign, PassUnfit, TakePacket, GoTo
  <2>3. bufOff' = m * 5
    BY <1>4, <1>6, <2>2
  <2>4. ASSUME IsReached(m) PROVE TakePacket /\ Given = PacketOf(m)
    <3>1. IsPacket /\ ~IsUnfit /\ Given = PacketOf(m)
      BY <1>4, <2>4 DEF IsReached
    <3>2. ~PassForeign /\ ~PassUnfit
      BY <3>1 DEF PassForeign, PassUnfit, IsPacket
    <3> QED
      BY <2>1, <3>1, <3>2
  <2> QED
    BY <1>3, <2>3, <2>4
<1> QED
  BY <1>5, <1>6

\* It ends behind the last packet, or astray.
LEMMA EndOfWalk ==
  ASSUME ReadInv, Accepted, NEW n \in Nat, n = Len(PacketParts),
         NEW m \in 1 .. n + 1, bufOff = (m - 1) * 5, AreGiven(m - 1), WalkEnds
  PROVE  AreGiven(n)
<1>1. at = "walk" /\ at # "idle" /\ bufOff \in Nat
  BY DEF WalkEnds
<1>2. CASE m = n + 1
  <2>1. m - 1 = n
    BY <1>2
  <2> QED
    BY <2>1
<1>3. CASE m # n + 1
  <2>1. m \in 1 .. n
    BY <1>3
  <2>2. /\ Behind = (m - 1) * 5 + 4
        /\ ~LosesStep(m) => BlockSize = 1 /\ NumberAt(Place) # WHPAR_MAGIC
        /\ IsIntact(PacketStart(m), PacketSize) => ~LosesStep(m)
    BY <1>1, <2>1, PacketSeen
  <2>3. dataSz = 5 * n
    BY <1>1, AcceptedSizes
  <2>4. AtPacket
    BY <1>1, <2>1, <2>2, <2>3 DEF AtPacket
  <2>5. Behind + BlockSize > dataSz
    BY <2>4 DEF WalkEnds
  <2>6. LosesStep(m)
    BY <2>1, <2>2, <2>3, <2>5
  <2>7. ~IsReached(m)
    BY <2>2, <2>6 DEF IsReached
  <2> QED
    BY <2>1, <2>6, <2>7, Astray
<1> QED
  BY <1>2, <1>3

\* No step of the reader breaks the invariant of the walk.
LEMMA WalkKeeps ==
  ASSUME FewTracks, ReadInv, ParseInv, WalkInv, ReaderNext, UNCHANGED <<job, archive, damaged>>
  PROVE  WalkInv'
<1>1. bytes' = bytes /\ maxBlockSize' = maxBlockSize /\ at # "idle" /\ job \in Jobs
  BY ReaderActs DEF ReadInv
<1>2. PICK n \in Nat : n = Len(PacketParts)
  BY <1>1, WholeParts
<1>3. /\ PacketParts' = PacketParts /\ Found' = Found
      /\ \A k : IsReached(k)' = IsReached(k) /\ PacketOf(k)' = PacketOf(k)
  BY <1>1, WalkSame
<1>4. ASSUME UNCHANGED <<found, bufOff>>
      PROVE  /\ \A k : AreGiven(k)' = AreGiven(k)
             /\ InStep' = InStep /\ ValidIsWritten' = ValidIsWritten
             /\ found' \in Seq(Found)' /\ bufOff' \in Nat
  <2>1. \A k : AreGiven(k)' = AreGiven(k)
    BY <1>3, <1>4 DEF AreGiven
  <2>2. InStep' = InStep
    BY <1>3, <1>4, <2>1 DEF InStep
  <2>3. ValidIsWritten' = ValidIsWritten
    BY <1>1, <1>4, WalkSame DEF ValidIsWritten, Block
  <2> QED
    BY <1>3, <1>4, <2>1, <2>2, <2>3 DEF WalkInv
<1>5. CASE /\ UNCHANGED <<found, bufOff>> /\ at' \in {"main", "mirror", "choose", "ended"}
           /\ at \in {"footer", "main", "mirror", "choose"}
           /\ at' = "ended" => parsed' # "valid"
  BY <1>4, <1>5 DEF WalkInv
<1>6. CASE ReadFooter \/ ReadMain \/ ReadMirror
  BY <1>5, <1>6 DEF ReadFooter, ReadMain, ReadMirror, ParseEnds, parseVars, walkVars
<1>7. CASE ChooseHeader
  <2>1. UNCHANGED <<found, bufOff>> /\ at = "choose"
    BY <1>7 DEF ChooseHeader, walkVars
  <2>2. CASE ParseEnds("invalid")
    BY <1>5, <2>1, <2>2 DEF ParseEnds
  <2>3. CASE at' = "walk"
    <3>1. bufOff = 0
      BY <2>1 DEF WalkInv
    <3>2. AreGiven(0)
      BY DEF AreGiven
    <3>3. 1 \in 1 .. n + 1 /\ (1 - 1) * 5 = 0 /\ 1 - 1 = 0
      OBVIOUS
    <3>4. InStep
      BY <1>2, <3>1, <3>2, <3>3 DEF InStep
    <3> QED
      BY <1>4, <2>1, <2>3, <3>4 DEF WalkInv
  <2> QED
    BY <1>7, <2>2, <2>3 DEF ChooseHeader
<1>8. CASE WalkEnds
  <2>1. UNCHANGED <<found, bufOff>> /\ at = "walk" /\ at' = "ended" /\ Accepted
    BY <1>8 DEF WalkEnds, walkVars, ParseInv
  <2>2. AreGiven(n)
    <3>1. CASE AreGiven(Len(PacketParts))
      BY <1>2, <3>1
    <3>2. CASE InStep
      <4>1. PICK m \in 1 .. n + 1 : bufOff = (m - 1) * 5 /\ AreGiven(m - 1)
        BY <1>2, <3>2 DEF InStep
      <4> QED
        BY <1>2, <1>8, <2>1, <4>1, EndOfWalk
    <3> QED
      BY <2>1, <3>1, <3>2 DEF WalkInv
  <2> QED
    BY <1>2, <1>3, <1>4, <2>1, <2>2 DEF WalkInv
<1>9. CASE PassHeader \/ PassForeign \/ PassUnfit \/ TakePacket
  <2>1. at = "walk" /\ at' = "walk" /\ Accepted /\ bufOff \in Nat
    BY <1>9 DEF PassHeader, PassForeign, PassUnfit, TakePacket, AtPacket, GoTo, ParseInv, WalkInv
  <2>2. bufOff' \in Nat
    BY <1>9, <2>1, WalkType
  <2>3. /\ found' \in Seq(Found) /\ ValidIsWritten' /\ ToSet(found) \subseteq ToSet(found')
        /\ TakePacket => Given \in ToSet(found')
    <3>1. CASE TakePacket
      <4>1. /\ found' \in Seq(Found) /\ ToSet(found') = ToSet(found) \cup {Given}
            /\ ValidIsWritten'
        BY <1>1, <2>1, <3>1, GiveKeeps
      <4> QED
        BY <4>1
    <3>2. CASE ~TakePacket
      <4>1. found' = found
        BY <1>9, <3>2 DEF PassHeader, PassForeign, PassUnfit, GoTo
      <4>2. ValidIsWritten'
        BY <1>1, <4>1, WalkSame DEF WalkInv, ValidIsWritten, Block
      <4> QED
        BY <3>2, <4>1, <4>2 DEF WalkInv
    <3> QED
      BY <3>1, <3>2
  <2>4. \A k : AreGiven(k) => AreGiven(k)'
    BY <1>3, <2>3 DEF AreGiven
  <2>5. InStep' \/ AreGiven(n)'
    <3>1. CASE AreGiven(n)
      BY <2>4, <3>1
    <3>2. CASE InStep /\ ~AreGiven(n)
      <4>1. PICK m \in 1 .. n + 1 : bufOff = (m - 1) * 5 /\ AreGiven(m - 1)
        BY <1>2, <3>2 DEF InStep
      <4>2. /\ m <= n /\ bufOff' = m * 5
            /\ IsReached(m) => TakePacket /\ Given = PacketOf(m)
        BY <1>1, <1>2, <1>9, <2>1, <3>2, <4>1, StepByStep
      <4>3. AreGiven(m)'
        <5>1. ASSUME NEW k \in 1 .. m, IsReached(k) PROVE PacketOf(k) \in ToSet(found')
          <6>1. CASE k = m
            BY <2>3, <4>2, <5>1, <6>1
          <6>2. CASE k # m
            <7>1. k \in 1 .. (m - 1)
              BY <6>2
            <7> QED
              BY <2>3, <4>1, <5>1, <7>1 DEF AreGiven
          <6> QED
            BY <6>1, <6>2
        <5> QED
          BY <1>3, <5>1 DEF AreGiven
      <4>4. PICK l \in 1 .. n + 1 : l = m + 1 /\ l - 1 = m
        BY <4>2
      <4>5. bufOff' = (l - 1) * 5 /\ AreGiven(l - 1)'
        BY <4>2, <4>3, <4>4
      <4> QED
        BY <1>2, <1>3, <4>5 DEF InStep
    <3> QED
      BY <1>2, <2>1, <3>1, <3>2 DEF WalkInv
  <2> QED
    BY <1>2, <1>3, <2>1, <2>2, <2>3, <2>5 DEF WalkInv
<1> QED
  BY <1>6, <1>7, <1>8, <1>9 DEF ReaderNext
-----------------------------------------------------------------------------
(* The theorems                                                              *)

\* The reader has not begun.
Unread ==
  ~failed /\ ~mainOk /\ ~mirrorOk /\ parsed = "none" /\ found = <<>> /\ bufOff = 0

\* What holds from the first write to the end of the walk.
FileInv ==
  /\ at = "idle" => WriterInv /\ DiskInv /\ Unread
  /\ ReadInv /\ CopyInv
  /\ FewTracks => ParseInv /\ WalkInv

\* The reader before its first step.
LEMMA ReaderUntouched ==
  ASSUME at' \in {"idle", "footer"}, Unread'
  PROVE  CopyInv' /\ ParseInv' /\ WalkInv'
<1>1. CopyInv' /\ ParseInv' /\ found' = <<>> /\ bufOff' = 0
  BY DEF CopyInv, ParseInv, Unread
<1>2. found' \in Seq(Found)'
  <2>1. <<>> \in Seq(Found')
    OBVIOUS
  <2> QED
    BY <1>1, <2>1, Zenon
<1>3. ToSet(found') = {}
  <2>1. ToSet(<<>>) = {}
    BY DEF ToSet
  <2> QED
    BY <1>1, <2>1, Zenon
<1>4. ValidIsWritten'
  BY <1>3 DEF ValidIsWritten
<1> QED
  BY <1>1, <1>2, <1>4 DEF WalkInv

\* Before anything is written, ...
LEMMA FileInitInv == FileInit => FileInv
<1> SUFFICES ASSUME FileInit PROVE FileInv
  OBVIOUS
<1>1. at = "idle" /\ Unread /\ found = <<>> /\ bufOff = 0
  BY DEF FileInit, ReaderInit, Unread
<1>2. WriterInv /\ DiskInv
  BY WriterInit, DiskInit DEF FileInit
<1>3. ToSet(found) = {} /\ found \in Seq(Found)
  <2>1. <<>> \in Seq(Found) /\ ToSet(<<>>) = {}
    BY DEF ToSet
  <2> QED
    BY <1>1, <2>1, Zenon
<1>4. CopyInv /\ ParseInv /\ WalkInv
  BY <1>1, <1>3 DEF CopyInv, ParseInv, WalkInv, ValidIsWritten, Unread
<1> QED
  BY <1>1, <1>2, <1>4 DEF FileInv, ReadInv

\* ... when nothing changes, ...
LEMMA FileStutter == FileInv /\ UNCHANGED fileVars => FileInv'
<1> SUFFICES ASSUME FileInv, UNCHANGED fileVars PROVE FileInv'
  OBVIOUS
<1>1. /\ UNCHANGED <<bytes, maxBlockSize, at, failed, mainOk, mirrorOk, parsed, meta, bufOff,
                     found, damaged>>
      /\ UNCHANGED vars /\ UNCHANGED <<job, archive>>
  BY DEF fileVars, readerVars, parseVars, walkVars, vars, diskVars
<1>2. at' = "idle" => WriterInv' /\ DiskInv' /\ Unread'
  BY <1>1, WriterStep, DiskStep DEF FileInv, Unread
<1>3. ReadInv'
  <2>1. CASE at = "idle"
    BY <1>1, <2>1 DEF ReadInv
  <2>2. CASE at # "idle"
    BY <1>1, <2>2, ReadSame DEF FileInv
  <2> QED
    BY <2>1, <2>2
<1>4. CopyInv'
  <2>1. /\ Located' = Located
        /\ IsIntact(0, HeaderSize)' = IsIntact(0, HeaderSize)
        /\ IsIntact(MirrorStart, HeaderSize)' = IsIntact(MirrorStart, HeaderSize)
    BY <1>1, FileSame DEF Located, IsDamagedWhole, IsIntact, Leavings
  <2> QED
    BY <1>1, <2>1 DEF FileInv, CopyInv
<1>5. ASSUME FewTracks PROVE ParseInv'
  <2>1. /\ headerEndOffset' = headerEndOffset /\ FooterFits' = FooterFits
        /\ \A p : verifyHeaderEcc(p)' = verifyHeaderEcc(p)
        /\ Accepted' = Accepted
    BY <1>1, BytesSame, AcceptedSame
  <2> QED
    BY <1>1, <1>5, <2>1 DEF FileInv, ParseInv
<1>6. ASSUME FewTracks PROVE WalkInv'
  <2>1. /\ PacketParts' = PacketParts /\ Found' = Found
        /\ \A k : IsReached(k)' = IsReached(k) /\ PacketOf(k)' = PacketOf(k)
    BY <1>1, WalkSame
  <2>2. \A k : AreGiven(k)' = AreGiven(k)
    BY <1>1, <2>1 DEF AreGiven
  <2>3. InStep' = InStep
    BY <1>1, <2>1, <2>2 DEF InStep
  <2>4. ValidIsWritten' = ValidIsWritten
    BY <1>1, WalkSame DEF ValidIsWritten, Block
  <2> QED
    BY <1>1, <1>6, <2>1, <2>2, <2>3, <2>4 DEF FileInv, WalkInv
<1> QED
  BY <1>2, <1>3, <1>4, <1>5, <1>6 DEF FileInv, FewTracks

\* ... and with every step of the writer, of the world and of the reader.
LEMMA FileStep == FileInv /\ [FileNext]_fileVars => FileInv'
<1> SUFFICES ASSUME FileInv, [FileNext]_fileVars PROVE FileInv'
  OBVIOUS
<1>1. CASE at = "idle" /\ Next /\ UNCHANGED <<readerVars, damaged>>
  <2>1. at' = "idle" /\ Unread'
    BY <1>1 DEF FileInv, Unread, readerVars, parseVars, walkVars
  <2>2. WriterInv' /\ DiskInv'
    BY <1>1, WriterStep, DiskStep DEF FileInv
  <2> QED
    BY <2>1, <2>2, ReaderUntouched DEF FileInv, ReadInv, FewTracks
<1>2. CASE Read
  <2>1. at' = "footer" /\ Unread'
    BY <1>2 DEF Read, FileInv, Unread, parseVars, walkVars
  <2>2. ReadInv'
    BY <1>2, ReadKeeps DEF FileInv, Read
  <2> QED
    BY <2>1, <2>2, ReaderUntouched DEF FileInv, FewTracks
<1>3. CASE ReaderNext /\ UNCHANGED <<vars, damaged>>
  <2>1. /\ bytes' = bytes /\ maxBlockSize' = maxBlockSize /\ at # "idle" /\ at' # "idle"
        /\ UNCHANGED <<job, archive, damaged>>
    <3>1. at' # "idle"
      BY <1>3 DEF ReaderNext, ReadFooter, ReadMain, ReadMirror, ChooseHeader, ParseEnds,
         PassHeader, PassForeign, PassUnfit, TakePacket, WalkEnds, AtPacket, GoTo
    <3> QED
      BY <1>3, <3>1, ReaderActs DEF vars, diskVars
  <2>2. ReadInv' /\ CopyInv'
    BY <1>3, <2>1, ReadSame, CopyKeeps DEF FileInv
  <2>3. ASSUME FewTracks PROVE ParseInv' /\ WalkInv'
    BY <1>3, <2>1, <2>3, ParseKeeps, WalkKeeps DEF FileInv
  <2> QED
    BY <2>1, <2>2, <2>3 DEF FileInv, FewTracks
<1> QED
  BY <1>1, <1>2, <1>3, FileStutter DEF FileNext

\* Whatever fails, whenever the writer dies and whatever is damaged later
\* (create.cpp:285-316, 909-976; repair.cpp:72-318).
THEOREM FileInvariance == FileSpec => []FileInv
<1>1. FileInv /\ [FileNext]_fileVars => FileInv'
  BY FileStep
<1> QED
  BY <1>1, FileInitInv, PTL DEF FileSpec

\* An archive that is believed is whole, and its metadata are those that were
\* written (create.cpp:306-316, 964-976; repair.cpp:72-217), where the number of a
\* track cannot be taken for a footer.
THEOREM OnlyWhole == FewTracks => (FileSpec => []OnlyWholeIsAccepted)
<1> SUFFICES ASSUME FewTracks PROVE FileSpec => []OnlyWholeIsAccepted
  OBVIOUS
<1>1. FileInv => OnlyWholeIsAccepted
  BY DEF FileInv, ParseInv, Accepted, IsDamagedWhole, OnlyWholeIsAccepted
<1> QED
  BY <1>1, FileInvariance, PTL

\* One good copy of the header is enough, with a good footer, as long as the stream
\* has not failed on the other (repair.cpp:155-217).
THEOREM OneCopy == FileSpec => []OneCopySuffices
<1>1. FileInv => OneCopySuffices
  <2>1. CASE at = "idle"
    BY <2>1 DEF FileInv, Unread, OneCopySuffices
  <2>2. CASE at # "idle"
    BY <2>2, CopySuffices DEF FileInv
  <2> QED
    BY <2>1, <2>2
<1> QED
  BY <1>1, FileInvariance, PTL

\* A damaged packet costs no other packet, unless its size is hit, in every archive
\* whose blocks have 2 MiB or less (repair.cpp:265-318).  The walk takes no packet of
\* larger blocks, which -b allows (main.cpp:181, repair.cpp:309).
THEOREM DamageLocal == FewTracks => (FileSpec => []DamageStaysLocal)
<1> SUFFICES ASSUME FewTracks PROVE FileSpec => []DamageStaysLocal
  OBVIOUS
<1>1. FileInv => DamageStaysLocal
  <2> SUFFICES ASSUME FileInv, at = "ended", parsed = "valid",
                      NEW k \in DOMAIN PacketParts, IsReached(k)
               PROVE  PacketOf(k) \in ToSet(found)
    BY DEF DamageStaysLocal, IsReached, PacketOf
  <2>1. job \in Jobs /\ AreGiven(Len(PacketParts))
    BY DEF FileInv, ReadInv, WalkInv
  <2>2. k \in 1 .. Len(PacketParts)
    BY <2>1, WholeParts
  <2> QED
    BY <2>1, <2>2 DEF AreGiven
<1> QED
  BY <1>1, FileInvariance, PTL

\* What the hash lets through was written, even when the walk is out of step
\* (repair.cpp:316, 652).
THEOREM OnlyWritten == FewTracks => (FileSpec => []ValidIsWritten)
<1> SUFFICES ASSUME FewTracks PROVE FileSpec => []ValidIsWritten
  OBVIOUS
<1>1. FileInv => ValidIsWritten
  BY DEF FileInv, WalkInv
<1> QED
  BY <1>1, FileInvariance, PTL
==============================================================================
