----------------------------- MODULE Primitives -----------------------------
(***************************************************************************)
(* What the codec is built from: Gf256 and MatrixRow, which share nothing. *)
(* Rows are looked at on one processor only.                               *)
(***************************************************************************)
EXTENDS Gf256, MatrixRow

PrimitivesInit == Init /\ RowInit

PrimitivesNext == \/ blocks = 0 /\ Next /\ UNCHANGED rowVars
                  \/ processor = "word" /\ ~initialized /\ RowNext /\ UNCHANGED vars

PrimitivesSpec == PrimitivesInit /\ [][PrimitivesNext]_<<vars, rowVars>>
=============================================================================
