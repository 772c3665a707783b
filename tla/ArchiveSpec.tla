---------------------------- MODULE ArchiveSpec ----------------------------
(***************************************************************************)
(* What creating an archive promises to whoever has the file: an archive   *)
(* becomes whole in one step, stays whole, and only a whole archive is     *)
(* announced.  The archive of an earlier run is lost when the new one is   *)
(* begun.                                                                  *)
(***************************************************************************)

VARIABLES
  archive,   \* "none", "old", "partial" or "whole"
  report     \* "running", "done", "error" or "died"

vars == <<archive, report>>

Init == archive \in {"none", "old"} /\ report = "running"

Begin ==
  /\ report = "running" /\ archive \in {"none", "old"}
  /\ archive' = "partial"
  /\ UNCHANGED report

\* The archive is there at once: nobody sees one that lacks a packet.
Commit ==
  /\ report = "running" /\ archive = "partial"
  /\ archive' = "whole"
  /\ UNCHANGED report

Announce ==
  /\ report = "running" /\ archive = "whole"
  /\ report' = "done"
  /\ UNCHANGED archive

\* A run that reports an error takes its partial archive with it.
Fail ==
  /\ report = "running" /\ archive # "whole"
  /\ archive' = IF archive = "partial" THEN "none" ELSE archive
  /\ report' = "error"

\* A crash leaves what is there.
Die ==
  /\ report = "running"
  /\ report' = "died"
  /\ UNCHANGED archive

Next == Begin \/ Commit \/ Announce \/ Fail \/ Die

Spec == Init /\ [][Next]_vars
=============================================================================
