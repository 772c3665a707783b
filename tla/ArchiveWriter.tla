---------------------------- MODULE ArchiveWriter ----------------------------
(***************************************************************************)
(* How CreateParity writes an archive (create.cpp): the temporary file     *)
(* that joins several sources, the output stream, the batches of encoding  *)
(* threads and the cleanup.  A unit of work is a track (writeParityOutput, *)
(* encodeTrackParityToFile) or, with --max-mem, a stripe                   *)
(* (processAllStripeBatches).  What finalOut accepts reaches the disk in   *)
(* order but at a time of its own; the process may die at any step.        *)
(***************************************************************************)
EXTENDS Integers, Sequences, FiniteSets, SequencesExt

CONSTANT Jobs  \* what CreateParity is asked for and what befalls it, see JobType

FaultKinds == {"temp",    \* os::CreateNew of the temporary file
               "copy",    \* copying the sources to it
               "source",  \* os::OpenRead of the source
               "read",    \* reading the source
               "open",    \* opening parityPath
               "create",  \* wirehair_encoder_create
               "throw",   \* an allocation
               "disk"}    \* writing parityPath

\* striped: stripeCount > 1; packetCounts: for each unit, the packets of each
\* encoder it runs; batchSize: BATCH_SIZE or STRIPE_BATCH; multiSource: several
\* source files; oldArchive: parityPath exists; walkLimit: how many blocks make the
\* 2 MiB that repair takes in a packet, none if -b has made them larger.
JobType ==
  [striped : BOOLEAN, packetCounts : Seq(Seq(Nat)), batchSize : Nat \ {0},
   multiSource : BOOLEAN, oldArchive : BOOLEAN, walkLimit : Nat,
   faults : SUBSET FaultKinds]

ASSUME WriterAssumption ==
  /\ Jobs \subseteq JobType
  /\ \A j \in Jobs :
       /\ Len(j.packetCounts) > 0
       /\ \A u \in DOMAIN j.packetCounts :
            /\ Len(j.packetCounts[u]) > 0
            /\ ~j.striped => Len(j.packetCounts[u]) = 1
            \* No stripe has more blocks than the first, nor more tracks.
            /\ j.striped => Len(j.packetCounts[u]) <= Len(j.packetCounts[1])

VARIABLES
  job,          \* the parameters of CreateParity
  pc,           \* the main thread
  source,       \* the data: "file" (hReadFile), "memory" (allDataFallback), "short" (the
                \* same without some of the files), "none"
  tempFile,     \* tempFilePath exists
  exists,       \* parityPath exists
  archive,      \* what parityPath holds
  buffer,       \* what finalOut has accepted and not written
  badbit,       \* finalOut has failed
  batchStart,
  collected,    \* units of the batch whose result has been written
  worker,       \* the thread of each unit: "idle", "encoding", "done", "thrown"
  result,       \* of each unit: the packets of each encoder that has finished
  encodeFailed,
  report        \* "running", "done", "error" or "died"

diskVars == <<tempFile, exists, archive>>
streamVars == <<buffer, badbit>>
encodeVars == <<batchStart, collected, worker, result, encodeFailed>>
vars == <<job, pc, source, diskVars, streamVars, encodeVars, report>>

Striped == job.striped
PacketCounts == job.packetCounts
BatchSize == job.batchSize
MultiSource == job.multiSource
OldArchive == job.oldArchive
Faults == job.faults

Units == DOMAIN PacketCounts

\* The parts of an archive.
Header == <<"header">>
Footer == <<"footer">>
Old == <<"old">>
Packet(u, e, i) == <<"packet", u, e, i>>

PacketsOfEncoder(u, e) == [i \in 1 .. PacketCounts[u][e] |-> Packet(u, e, i)]
PacketsOf(u) ==
  FlattenSeq([e \in DOMAIN PacketCounts[u] |-> PacketsOfEncoder(u, e)])
WholeArchive ==
  <<Header>> \o FlattenSeq([u \in Units |-> PacketsOf(u)]) \o <<Header, Footer>>

Init ==
  /\ job \in Jobs
  /\ pc = "source"
  /\ source = "none" /\ tempFile = FALSE
  /\ exists = OldArchive /\ archive = IF OldArchive THEN <<Old>> ELSE <<>>
  /\ buffer = <<>> /\ badbit = FALSE
  /\ batchStart = 1 /\ collected = 0
  /\ worker = [u \in Units |-> "idle"]
  /\ result = [u \in Units |-> <<>>]
  /\ encodeFailed = FALSE
  /\ report = "running"

\* finalOut.write: a stream that has failed accepts nothing, and says nothing.
Write(parts) == buffer' = IF badbit THEN buffer ELSE buffer \o parts

Return(verdict) == pc' = "ended" /\ report' = verdict

\* The process dies: what finalOut has not written is lost.
Dies ==
  /\ Return("died")
  /\ buffer' = <<>>
  /\ UNCHANGED <<job, source, diskVars, badbit, encodeVars>>

RemoveArchive == exists' = FALSE /\ archive' = <<>>
-----------------------------------------------------------------------------
\* Open the source; join several sources in a temporary file.  If that fails they are
\* read to memory, but for the files that cannot be opened: those are passed over.
OpenSource ==
  /\ pc = "source"
  /\ \/ /\ source' = "file" /\ tempFile' = MultiSource
        /\ pc' = "hash" /\ UNCHANGED report
     \/ /\ MultiSource /\ "temp" \in Faults
        /\ Return("error")
        /\ UNCHANGED <<source, tempFile>>
     \/ /\ MultiSource /\ "copy" \in Faults
        /\ source' \in {"memory", "short", "none"} /\ tempFile' = TRUE
        /\ pc' = "hash" /\ UNCHANGED report
     \/ /\ ~MultiSource /\ "source" \in Faults
        /\ source' = "none" /\ UNCHANGED tempFile
        /\ pc' = "hash" /\ UNCHANGED report
  /\ UNCHANGED <<job, exists, archive, streamVars, encodeVars>>

\* Hash the blocks; without stripes, keep them in the track buffers.  With
\* stripes the fallback is released here although the stripes are read from it.
\* Without some of the files it is read over its end: the process dies of it
\* (Crash) or takes what lies there.
HashSource ==
  /\ pc = "hash"
  /\ \/ /\ pc' = "open" /\ UNCHANGED report
        /\ source' = IF Striped /\ source # "file" THEN "none" ELSE source
     \/ /\ "read" \in Faults /\ ~Striped /\ source = "file"
        /\ Return("error")
        /\ UNCHANGED source
  /\ UNCHANGED <<job, diskVars, streamVars, encodeVars>>

\* Open parityPath, which empties it, and write the first header.
OpenArchive ==
  /\ pc = "open"
  /\ \/ /\ pc' = "tell" /\ UNCHANGED <<report, tempFile>>
        /\ exists' = TRUE /\ archive' = <<>>
        /\ Write(<<Header>>)
     \/ /\ "open" \in Faults
        /\ Return("error")
        /\ tempFile' = FALSE
        /\ UNCHANGED <<exists, archive, buffer>>
  /\ UNCHANGED <<job, source, badbit, encodeVars>>

\* tellp() is negative when the header could not be written.  Only the striped
\* path removes the archive then.
TellHeaderEnd ==
  /\ pc = "tell"
  /\ IF badbit
     THEN /\ Return("error")
          /\ tempFile' = FALSE
          /\ IF Striped THEN RemoveArchive ELSE UNCHANGED <<exists, archive>>
     ELSE pc' = "batch" /\ UNCHANGED <<report, diskVars>>
  /\ UNCHANGED <<job, source, streamVars, encodeVars>>

\* The stream writes a part of what it holds, or fails and drops it.
Flush ==
  /\ buffer # <<>>
  /\ \/ /\ archive' = Append(archive, Head(buffer))
        /\ buffer' = Tail(buffer)
        /\ UNCHANGED badbit
     \/ /\ "disk" \in Faults
        /\ buffer' = <<>> /\ badbit' = TRUE
        /\ UNCHANGED archive
  /\ UNCHANGED <<job, pc, source, tempFile, exists, encodeVars, report>>
-----------------------------------------------------------------------------
Batch == {u \in Units : batchStart <= u /\ u < batchStart + BatchSize}

\* The batch loop goes on.
AtBatch == pc = "batch" /\ batchStart \in Units /\ ~encodeFailed

\* Start the threads of the next batch; with stripes, read its data first.
StartBatch ==
  /\ AtBatch
  /\ pc' = "join"
  /\ collected' = 0
  /\ worker' = [u \in Units |-> IF u \in Batch THEN "encoding" ELSE "idle"]
  /\ result' = [u \in Units |-> <<>>]
  /\ UNCHANGED <<job, source, diskVars, streamVars, batchStart, encodeFailed, report>>

\* A stripe that cannot be read ends the loop.
ReadFails ==
  /\ AtBatch
  /\ Striped /\ source = "file" /\ "read" \in Faults
  /\ encodeFailed' = TRUE
  /\ UNCHANGED <<job, pc, source, diskVars, streamVars, batchStart, collected, worker,
                 result, report>>

\* An allocation that fails before the threads run is caught by nobody.
ReadThrows ==
  /\ AtBatch
  /\ Striped /\ source = "file" /\ "throw" \in Faults
  /\ Dies

ThreadVars == <<job, pc, source, diskVars, streamVars, batchStart, collected, report>>

\* The thread of unit u runs its next encoder.  wirehair_encode does not fail for an
\* encoder that exists and a buffer of blockSize bytes, so that the packet that a
\* failure would leave out (create.cpp:189, 455) is always written.
Encode(u) ==
  LET e == Len(result[u]) + 1
  IN  /\ worker[u] = "encoding" /\ source # "none"
      /\ result' = [result EXCEPT ![u] = Append(@, PacketsOfEncoder(u, e))]
      /\ worker' = [worker EXCEPT ![u] =
                      IF e = Len(PacketCounts[u]) THEN "done" ELSE @]
      /\ UNCHANGED <<ThreadVars, encodeFailed>>

\* Bug: the thread gives up without a word.
EncoderRefusedSilently(u) ==
  /\ worker[u] = "encoding" /\ "create" \in Faults
  /\ worker' = [worker EXCEPT ![u] = "done"]
  /\ UNCHANGED <<ThreadVars, result, encodeFailed>>

\* wirehair_encoder_create returns null: on a fault, or for the empty buffer of
\* a source that could not be opened.
EncoderRefused(u) ==
  /\ worker[u] = "encoding"
  /\ "create" \in Faults \/ (source = "none" /\ ~Striped)
  /\ worker' = [worker EXCEPT ![u] = "done"]
  /\ encodeFailed' = TRUE
  /\ UNCHANGED <<ThreadVars, result>>

\* A thread throws: a stripe catches it, a track leaves it in its future.
EncoderThrows(u) ==
  /\ worker[u] = "encoding" /\ "throw" \in Faults
  /\ IF Striped
     THEN worker' = [worker EXCEPT ![u] = "done"] /\ encodeFailed' = TRUE
     ELSE worker' = [worker EXCEPT ![u] = "thrown"] /\ UNCHANGED encodeFailed
  /\ UNCHANGED <<ThreadVars, result>>

\* With stripes and no source rawData is empty, and is read all the same.
EncoderReadsNothing(u) ==
  /\ worker[u] = "encoding" /\ source = "none" /\ Striped
  /\ Dies

EndBatch ==
  /\ pc' = "batch"
  /\ batchStart' = batchStart + BatchSize
  /\ UNCHANGED <<job, source, diskVars, badbit, collected, worker, result,
                 encodeFailed, report>>

\* f.get() of every track, then the packets of the batch in track order.
WriteTracks ==
  /\ pc = "join" /\ ~Striped
  /\ \A u \in Batch : worker[u] = "done"
  /\ IF encodeFailed
     THEN UNCHANGED buffer
     ELSE Write(FlattenSeq([i \in 1 .. Cardinality(Batch) |->
                              FlattenSeq(result[batchStart + i - 1])]))
  /\ EndBatch

\* f.get() throws again what the thread has thrown.
JoinThrows ==
  /\ pc = "join" /\ ~Striped
  /\ \E u \in Batch : worker[u] = "thrown"
                      /\ \A v \in Batch : v < u => worker[v] = "done"
  /\ Dies

\* Bug: a stripe is written before its thread has ended.
StripeUnawaited(u) == u \in Batch /\ u = batchStart + collected
\* f.get() of one stripe after the other, in order, each written at once.
StripeTurn(u) == u = batchStart + collected /\ worker[u] = "done"

WriteStripe ==
  /\ pc = "join" /\ Striped
  /\ \E u \in Batch :
       /\ StripeTurn(u)
       /\ Write(FlattenSeq(result[u]))
  /\ collected' = collected + 1
  /\ UNCHANGED <<job, pc, source, diskVars, badbit, batchStart, worker, result,
                 encodeFailed, report>>

StripesWritten ==
  /\ pc = "join" /\ Striped
  /\ collected = Cardinality(Batch)
  /\ UNCHANGED buffer
  /\ EndBatch
-----------------------------------------------------------------------------
BatchesOver == pc = "batch" /\ (batchStart \notin Units \/ encodeFailed)

\* Bug: the temporary file is forgotten.
AbandonKeepsTemp ==
  /\ BatchesOver /\ encodeFailed
  /\ Return("error")
  /\ RemoveArchive /\ UNCHANGED tempFile
  /\ buffer' = <<>>
  /\ UNCHANGED <<job, source, badbit, encodeVars>>

\* encodeFailed: the partial archive and the temporary file are removed.
Abandon ==
  /\ BatchesOver /\ encodeFailed
  /\ Return("error")
  /\ RemoveArchive /\ tempFile' = FALSE
  /\ buffer' = <<>>
  /\ UNCHANGED <<job, source, badbit, encodeVars>>

\* The mirrored header and the footer that locates it come last.
WriteMirror ==
  /\ BatchesOver /\ ~encodeFailed
  /\ Write(<<Header, Footer>>)
  /\ pc' = "close"
  /\ UNCHANGED <<job, source, diskVars, badbit, encodeVars, report>>

\* finalOut.close() writes the rest; its failure is not asked for.
Close ==
  /\ pc = "close" /\ buffer = <<>>
  /\ pc' = "cleanup"
  /\ UNCHANGED <<job, source, diskVars, streamVars, encodeVars, report>>

\* The temporary file is removed, the success printed.
Finish ==
  /\ pc = "cleanup"
  /\ tempFile' = FALSE
  /\ Return("done")
  /\ UNCHANGED <<job, source, exists, archive, streamVars, encodeVars>>

Crash == pc # "ended" /\ Dies

Ended == pc = "ended" /\ UNCHANGED vars

Main ==
  \/ OpenSource \/ HashSource \/ OpenArchive \/ TellHeaderEnd
  \/ StartBatch \/ ReadFails \/ ReadThrows
  \/ WriteTracks \/ JoinThrows \/ WriteStripe \/ StripesWritten
  \/ Abandon \/ WriteMirror \/ Close \/ Finish

Thread(u) ==
  \/ Encode(u) \/ EncoderRefused(u) \/ EncoderThrows(u) \/ EncoderReadsNothing(u)

Next == Main \/ Flush \/ (\E u \in Units : Thread(u)) \/ Crash \/ Ended

Spec == Init /\ [][Next]_vars
-----------------------------------------------------------------------------
\* A run that ends with an error message has removed what it had begun: the
\* temporary file, and the new archive (create.cpp:285-287, 306-311, 909-914,
\* 964-969).
NoLeftovers ==
  report = "error" =>
    ~tempFile /\ (~exists \/ (OldArchive /\ archive = <<Old>>))

\* Seen from the disk, CreateParity is ArchiveSpec.  A run whose stream has failed
\* and that leaves an archive counts as one that died, whatever it says.
Promise == INSTANCE ArchiveSpec WITH
             archive <- IF ~exists THEN "none"
                        ELSE IF archive = <<Old>> THEN "old"
                        ELSE IF archive = WholeArchive THEN "whole"
                        ELSE "partial",
             report <- IF badbit /\ exists /\ report \in {"done", "error"}
                       THEN "died" ELSE report
PromiseSpec == Promise!Spec
=============================================================================
