--------------------------- MODULE MCArchiveFile ----------------------------
(* Model checking of ArchiveFile: the work of small archives, and what may
   befall them afterwards. *)
EXTENDS ArchiveFile

\* Five tracks in two batches of three.
MCTracks == <<<<2>>, <<1>>, <<1>>, <<2>>, <<1>>>>

\* Four stripes in two batches of three; the last one is too short for two tracks.
MCStripes == <<<<1, 2>>, <<1, 1>>, <<1, 1>>, <<1>>>>

Job(striped, counts, multi, old, limit, faults) ==
  [striped |-> striped, packetCounts |-> counts, batchSize |-> 3,
   multiSource |-> multi, oldArchive |-> old, walkLimit |-> limit, faults |-> faults]

\* With and without stripes, over an old archive or not.  The reads and the disk
\* of an archive without stripes do not fail.  The last archive has blocks of more than
\* 2 MiB.
MCJobs ==
  {Job(FALSE, MCTracks, TRUE, TRUE, 8, {"temp", "copy", "open", "create", "throw"}),
   Job(FALSE, MCTracks, FALSE, FALSE, 8, {"source", "open", "create", "throw"}),
   Job(TRUE, MCStripes, TRUE, FALSE, 8,
       {"temp", "copy", "read", "open", "create", "throw"}),
   Job(TRUE, MCStripes, FALSE, TRUE, 8, {"source", "read", "create", "throw", "disk"}),
   Job(FALSE, <<<<2>>, <<1>>>>, FALSE, FALSE, 0, {})}
=============================================================================
