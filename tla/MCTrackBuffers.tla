--------------------------- MODULE MCTrackBuffers ---------------------------
(* Model checking of TrackBuffers: the inputs are small intervals. *)
EXTENDS TrackBuffers

CONSTANTS MaxFile, MaxTracks, MaxStripes

MCFileSizes == 1 .. MaxFile
MCTrackCounts == 2 .. MaxTracks
MCStripeCounts == 1 .. MaxStripes
=============================================================================
