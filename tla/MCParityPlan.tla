---------------------------- MODULE MCParityPlan ----------------------------
(* Model checking of ParityPlan: the inputs are small intervals. *)
EXTENDS ParityPlan

CONSTANTS MaxFile, MaxJobs, MaxMem

MCFileSizes == 1 .. MaxFile
MCJobs == 1 .. MaxJobs
MCMemLimits == 0 .. MaxMem
=============================================================================
