----------------------------- MODULE RepairSpec -----------------------------
(***************************************************************************)
(* What a repair promises about the file it repairs, whatever the number   *)
(* of tracks, stripes and worker threads: damage only ever shrinks, block  *)
(* by block, across crashes and repeated runs, and a run may report that   *)
(* all is well only when nothing is damaged.                               *)
(***************************************************************************)
EXTENDS Integers

CONSTANT NumBlocks

VARIABLES
  damaged,   \* the blocks of the file that differ from the protected data
  report     \* what the run in progress has told its user

Blocks == 0 .. NumBlocks - 1

vars == <<damaged, report>>

Init == damaged \in SUBSET Blocks /\ report = "running"

\* Some damaged blocks are rewritten with the original data.
Restore ==
  /\ report = "running"
  /\ damaged' \in SUBSET damaged
  /\ UNCHANGED report

\* A run ends; success may be claimed only of an undamaged file.
Report ==
  /\ report = "running"
  /\ \/ damaged = {} /\ report' \in {"INTACT", "SUCCESS"}
     \/ report' = "FAILURE"
  /\ UNCHANGED damaged

\* The program is started again, after a crash or after a failure.
Rerun == report' = "running" /\ UNCHANGED damaged

Next == Restore \/ Report \/ Rerun

Spec == Init /\ [][Next]_vars
=============================================================================
