------------------------------ MODULE MCRestore ------------------------------
(* Model checking of Restore: manifests of three or four small files. *)
EXTENDS Restore

Job(sizes, size, streaming, faults) ==
  [fileSizes |-> sizes, blockSize |-> size, streaming |-> streaming,
   faults |-> faults]

\* Blocks of two bytes: files that begin and end in the middle of a block, and
\* an empty one.
MCUneven == <<3, 1, 0, 3>>

\* Every file begins with a block.
MCAligned == <<2, 4, 1>>

\* File by file, with and without failures; streamed, files that begin with a
\* block.
MCJobs ==
  {Job(MCUneven, 2, FALSE, {}), Job(MCUneven, 2, FALSE, {"open", "write"}),
   Job(MCAligned, 2, FALSE, {"write"}), Job(MCAligned, 2, TRUE, {"open"})}
=============================================================================
