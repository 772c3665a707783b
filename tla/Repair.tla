------------------------------- MODULE Repair -------------------------------
(***************************************************************************)
(* The decoding engine of RepairDataset (repair.cpp).  The main thread     *)
(* hashes the damaged file, validates the parity packets it can find and   *)
(* then, stripe by stripe and batch by batch, launches one worker thread   *)
(* per track and joins the batch.  A worker feeds a Wirehair decoder with  *)
(* the healthy blocks of its track, then with the valid packets, recovers  *)
(* the track and, when the repair is in place, rewrites the corrupted      *)
(* blocks of its track under writeMutex.  The machine may crash at any     *)
(* step; only the file and the packets survive.                            *)
(***************************************************************************)
EXTENDS Integers, FiniteSets

CONSTANTS
  NumBlocks,        \* blocks of the protected data (totalBlocks)
  Tracks,           \* totalTracks
  StripeCount,      \* stripeCount
  BlocksPerStripe,  \* blocksPerStripe
  BatchSize,        \* BATCH_SIZE: worker threads running at once
  PacketsPerTrack,  \* parity packets of every track in every stripe
  Slack,            \* the decoder never needs more than Slack rows too many
  InPlace,          \* the output file is the damaged file
  Faults,           \* what may fail: "read", "create", "recover", "open", "write"
  MaxRuns           \* bound: how many times the program is started

ASSUME SizeAssumption ==
  /\ NumBlocks \in Nat \ {0}
  /\ Tracks \in Nat \ {0}
  /\ StripeCount \in Nat \ {0}
  /\ BlocksPerStripe \in Nat \ {0}
  /\ BatchSize \in Nat \ {0}
  /\ PacketsPerTrack \in Nat
  /\ Slack \in Nat
  /\ MaxRuns \in Nat \ {0}

ASSUME ModeAssumption ==
  /\ InPlace \in BOOLEAN
  /\ Faults \subseteq {"read", "create", "recover", "open", "write"}

\* The stripes of an archive cover its blocks: create.cpp divides, rounding up.
ASSUME CoverAssumption == NumBlocks <= StripeCount * BlocksPerStripe

VARIABLES
  file,              \* on disk: each block holds the "original" or "damaged" data
  packets,           \* on disk: the parity packets whose payload is intact
  runs,              \* times the program has been started
  pc,                \* the main thread
  stripe,            \* s of the stripe loop
  batchStart,        \* batchStart of the batch loop
  blockCorrupted,    \* blocks whose hash did not match
  trackPacketValid,  \* packets whose payload hash matched
  worker,            \* the worker thread of each track
  fedBlocks,         \* healthy blocks fed to the decoder of each track
  fedPackets,        \* packets fed to the decoder of each track
  clean,             \* every row fed to the track's decoder held original data
  cursor,            \* g of the in-place writing loop of each track
  writeMutex,        \* the track that holds writeMutex, or NoTrack
  recoveredTracks,   \* per track: the stripe copied at each block offset
  trackWriteOffsets, \* per track: the next offset in recoveredTracks
  trackFailedStripes,\* per track: the stripes that could not be solved
  executionSuccess,
  verdict            \* what the program has told its user

diskVars == <<file, packets, runs>>
mainVars == <<pc, stripe, batchStart, blockCorrupted, trackPacketValid, verdict>>
decoderVars == <<fedBlocks, fedPackets, clean>>
resultVars ==
  <<recoveredTracks, trackWriteOffsets, trackFailedStripes, executionSuccess>>
vars ==
  <<diskVars, mainVars, worker, decoderVars, cursor, writeMutex, resultVars>>

Blocks == 0 .. NumBlocks - 1
TrackIds == 0 .. Tracks - 1
StripeIds == 0 .. StripeCount - 1
NoTrack == -1
NoStripe == -1
Packets == TrackIds \X StripeIds \X (0 .. PacketsPerTrack - 1)

Striped == StripeCount > 1
TrackOf(g) == g % Tracks
StripeOf(g) == IF Striped THEN g \div BlocksPerStripe ELSE 0

\* The message of the decoder of track t in stripe s: trackSizes[t], or
\* stripeTrackSizes[t] when the archive is striped.
Own(s, t) == {g \in Blocks : StripeOf(g) = s /\ TrackOf(g) = t}
OwnPackets(s, t) == {p \in trackPacketValid : p[1] = t /\ p[2] = s}

\* CAT_WIREHAIR_MIN_N: Wirehair refuses messages of fewer blocks.
MinN == 2

\* The tracks of the current batch.
Batch == {t \in TrackIds : batchStart <= t /\ t < batchStart + BatchSize}
Launched == {t \in Batch : Striped => Own(stripe, t) # {}}
-----------------------------------------------------------------------------
\* The memory of a run that has just started.
FreshRun ==
  /\ pc = "analyse"
  /\ stripe = 0 /\ batchStart = 0
  /\ blockCorrupted = {} /\ trackPacketValid = {}
  /\ worker = [t \in TrackIds |-> "idle"]
  /\ fedBlocks = [t \in TrackIds |-> {}]
  /\ fedPackets = [t \in TrackIds |-> {}]
  /\ clean = [t \in TrackIds |-> TRUE]
  /\ cursor = [t \in TrackIds |-> 0]
  /\ writeMutex = NoTrack
  /\ recoveredTracks = [t \in TrackIds |-> [i \in Blocks |-> NoStripe]]
  /\ trackWriteOffsets = [t \in TrackIds |-> 0]
  /\ trackFailedStripes = [t \in TrackIds |-> {}]
  /\ executionSuccess = TRUE
  /\ verdict = "running"

Init ==
  /\ file \in [Blocks -> {"original", "damaged"}]
  /\ packets \in SUBSET Packets
  /\ runs = 1
  /\ FreshRun

\* Hash every block in place, mark those that differ from the reference.
Analyse ==
  /\ pc = "analyse"
  /\ blockCorrupted' = {g \in Blocks : file[g] # "original"}
  /\ \/ /\ blockCorrupted' = {}
        /\ pc' = "done" /\ verdict' = "INTACT"
     \/ /\ blockCorrupted' # {}
        /\ pc' = "inject" /\ UNCHANGED verdict
  /\ UNCHANGED <<diskVars, stripe, batchStart, trackPacketValid, worker,
                 decoderVars, cursor, writeMutex, resultVars>>

\* The file is there and cannot be opened: no block is found corrupted.
AnalyseNothing ==
  /\ "read" \in Faults
  /\ pc = "analyse"
  /\ pc' = "done" /\ verdict' = "INTACT"
  /\ UNCHANGED <<diskVars, stripe, batchStart, blockCorrupted, trackPacketValid,
                 worker, decoderVars, cursor, writeMutex, resultVars>>

\* Bug: the packets are believed, whatever their hash.
InjectUnverified ==
  /\ pc = "inject"
  /\ trackPacketValid' = Packets
  /\ pc' = "launch"
  /\ UNCHANGED <<diskVars, stripe, batchStart, blockCorrupted, verdict, worker,
                 decoderVars, cursor, writeMutex, resultVars>>

\* Walk the archives and keep the packets whose payload hash matches.
Inject ==
  /\ pc = "inject"
  /\ trackPacketValid' = packets
  /\ pc' = "launch"
  /\ UNCHANGED <<diskVars, stripe, batchStart, blockCorrupted, verdict, worker,
                 decoderVars, cursor, writeMutex, resultVars>>

\* Start the worker threads of the next batch.
Launch ==
  /\ pc = "launch"
  /\ executionSuccess /\ stripe < StripeCount
  /\ pc' = "join"
  /\ worker' = [t \in TrackIds |-> IF t \in Launched THEN "create" ELSE "idle"]
  /\ fedBlocks' = [t \in TrackIds |-> {}]
  /\ fedPackets' = [t \in TrackIds |-> {}]
  /\ clean' = [t \in TrackIds |-> TRUE]
  /\ cursor' = [t \in TrackIds |-> 0]
  /\ UNCHANGED <<diskVars, stripe, batchStart, blockCorrupted, trackPacketValid,
                 verdict, writeMutex, resultVars>>

\* Advance the batch loop and, around it, the stripe loop.
NextBatch ==
  IF batchStart + BatchSize < Tracks
  THEN batchStart' = batchStart + BatchSize /\ UNCHANGED stripe
  ELSE batchStart' = 0 /\ stripe' = stripe + 1

\* Bug: the write offset advances by the size of the longest track of a stripe.
AdvanceLongest ==
  trackWriteOffsets' =
    [t \in TrackIds |->
       IF t \in Batch /\ stripe \notin trackFailedStripes[t]
       THEN trackWriteOffsets[t] + Cardinality(Own(0, 0))
       ELSE trackWriteOffsets[t]]

\* The tracks of the batch that did not fail this stripe: the next stripe is
\* copied behind this one.
AdvanceOffsets ==
  trackWriteOffsets' =
    [t \in TrackIds |->
       IF t \in Batch /\ stripe \notin trackFailedStripes[t]
       THEN trackWriteOffsets[t] + Cardinality(Own(stripe, t))
       ELSE trackWriteOffsets[t]]

\* All futures of the batch are ready: advance the write offsets of the tracks
\* that did not fail this stripe and the two loops.
Join ==
  /\ pc = "join"
  /\ \A t \in Launched : worker[t] = "exit"
  /\ AdvanceOffsets
  /\ NextBatch
  /\ pc' = "launch"
  /\ UNCHANGED <<diskVars, blockCorrupted, trackPacketValid, verdict, worker,
                 decoderVars, cursor, writeMutex, recoveredTracks,
                 trackFailedStripes, executionSuccess>>

\* Bug: the stripes that failed are forgotten.
AllButStripes == executionSuccess

\* Nothing failed: no worker, and no stripe of a track.
AllRecovered == executionSuccess /\ \A t \in TrackIds : trackFailedStripes[t] = {}

\* The loops are over: report.  A stripe that failed turns the run into a
\* failure only here.
Report ==
  /\ pc = "launch"
  /\ ~executionSuccess \/ stripe = StripeCount
  /\ executionSuccess' = AllRecovered
  /\ verdict' = IF executionSuccess' THEN "SUCCESS" ELSE "FAILURE"
  /\ pc' = "done"
  /\ UNCHANGED <<diskVars, stripe, batchStart, blockCorrupted, trackPacketValid,
                 worker, decoderVars, cursor, writeMutex, recoveredTracks,
                 trackWriteOffsets, trackFailedStripes>>
-----------------------------------------------------------------------------
\* The worker of track t.

Moves(t, from, to) == worker[t] = from /\ worker' = [worker EXCEPT ![t] = to]

\* wirehair_decoder_create returns null for a message Wirehair refuses.
CreateFails(t) ==
  /\ Cardinality(Own(stripe, t)) < MinN \/ "create" \in Faults
  /\ Moves(t, "create", "exit")
  /\ executionSuccess' = FALSE
  /\ UNCHANGED <<diskVars, mainVars, decoderVars, cursor, writeMutex,
                 recoveredTracks, trackWriteOffsets, trackFailedStripes>>

Create(t) ==
  /\ Cardinality(Own(stripe, t)) >= MinN
  /\ Moves(t, "create", "feed")
  /\ UNCHANGED <<diskVars, mainVars, decoderVars, cursor, writeMutex, resultVars>>

\* wirehair_decode: no fewer than N rows ever suffice; N original rows always
\* do, and so do N + Slack rows; in between it depends on the rows.
RowCount(t) == Cardinality(fedBlocks[t]) + Cardinality(fedPackets[t])
MaySolve(t) == RowCount(t) >= Cardinality(Own(stripe, t))
MustSolve(t) ==
  \/ fedBlocks[t] = Own(stripe, t)
  \/ RowCount(t) >= Cardinality(Own(stripe, t)) + Slack

Decode(t) ==
  \/ MaySolve(t)' /\ worker' = [worker EXCEPT ![t] = "solved"]
  \/ ~MustSolve(t)' /\ UNCHANGED worker

UnfedBlocks(t) == (Own(stripe, t) \ blockCorrupted) \ fedBlocks[t]

\* Bug: the packet loop starts at the second packet.
UnfedPacketsButFirst(t) == {p \in OwnPackets(stripe, t) \ fedPackets[t] : p[3] > 0}
UnfedPackets(t) == OwnPackets(stripe, t) \ fedPackets[t]

\* Feed the next healthy block, read again from the file.
FeedHealthy(t) ==
  /\ worker[t] = "feed"
  /\ \E g \in UnfedBlocks(t) :
       /\ \A h \in UnfedBlocks(t) : g <= h
       /\ fedBlocks' = [fedBlocks EXCEPT ![t] = @ \cup {g}]
       /\ clean' = [clean EXCEPT ![t] = @ /\ file[g] = "original"]
  /\ UNCHANGED <<diskVars, mainVars, fedPackets, cursor, writeMutex, resultVars>>
  /\ Decode(t)

\* Feed the next valid packet of this stripe.
FeedPacket(t) ==
  /\ worker[t] = "feed"
  /\ UnfedBlocks(t) = {}
  /\ \E p \in UnfedPackets(t) :
       /\ \A q \in UnfedPackets(t) : p[3] <= q[3]
       /\ fedPackets' = [fedPackets EXCEPT ![t] = @ \cup {p}]
       /\ clean' = [clean EXCEPT ![t] = @ /\ p \in packets]
  /\ UNCHANGED <<diskVars, mainVars, fedBlocks, cursor, writeMutex, resultVars>>
  /\ Decode(t)

\* Bug: a track that cannot be solved is skipped without a word.
GiveUpSilently(t) ==
  /\ UnfedBlocks(t) = {} /\ UnfedPackets(t) = {}
  /\ Moves(t, "feed", "exit")
  /\ UNCHANGED <<diskVars, mainVars, decoderVars, cursor, writeMutex, resultVars>>

\* Bug: a stripe that cannot be solved stops the whole repair.
GiveUpAll(t) ==
  /\ UnfedBlocks(t) = {} /\ UnfedPackets(t) = {}
  /\ Moves(t, "feed", "exit")
  /\ executionSuccess' = FALSE
  /\ UNCHANGED <<diskVars, mainVars, decoderVars, cursor, writeMutex,
                 recoveredTracks, trackWriteOffsets, trackFailedStripes>>

\* Everything was fed and the decoder still needs more.
GiveUp(t) ==
  /\ UnfedBlocks(t) = {} /\ UnfedPackets(t) = {}
  /\ Moves(t, "feed", "exit")
  /\ IF Striped
     THEN /\ trackFailedStripes' = [trackFailedStripes EXCEPT ![t] = @ \cup {stripe}]
          /\ UNCHANGED executionSuccess
     ELSE /\ executionSuccess' = FALSE
          /\ UNCHANGED trackFailedStripes
  /\ UNCHANGED <<diskVars, mainVars, decoderVars, cursor, writeMutex,
                 recoveredTracks, trackWriteOffsets>>

\* wirehair_recover, and the copy to recoveredTracks[t] at the write offset.
\* (An in-place repair drops recoveredTracks once the blocks are written;
\* nothing reads it afterwards, so the model keeps it.)
Recover(t) ==
  /\ Moves(t, "solved", IF InPlace THEN "recovered" ELSE "exit")
  /\ recoveredTracks' = [recoveredTracks EXCEPT ![t][trackWriteOffsets[t]] = stripe]
  /\ UNCHANGED <<diskVars, mainVars, decoderVars, cursor, writeMutex,
                 trackWriteOffsets, trackFailedStripes, executionSuccess>>

\* wirehair_recover refuses.
RecoverFails(t) ==
  /\ "recover" \in Faults
  /\ Moves(t, "solved", "exit")
  /\ executionSuccess' = FALSE
  /\ UNCHANGED <<diskVars, mainVars, decoderVars, cursor, writeMutex,
                 recoveredTracks, trackWriteOffsets, trackFailedStripes>>
-----------------------------------------------------------------------------
\* In-place writing, under writeMutex.

OpenFile(t) ==
  /\ writeMutex = NoTrack
  /\ Moves(t, "recovered", "open")
  /\ writeMutex' = t
  /\ UNCHANGED <<diskVars, mainVars, decoderVars, cursor, resultVars>>

\* OpenReadWrite failed: nothing is written and nothing is said.
OpenFails(t) ==
  /\ "open" \in Faults
  /\ writeMutex = NoTrack
  /\ Moves(t, "recovered", "exit")
  /\ UNCHANGED <<diskVars, mainVars, decoderVars, cursor, writeMutex, resultVars>>

\* Bug: healthy blocks are rewritten as well.
UnwrittenAll(t) == {g \in Own(stripe, t) : cursor[t] <= g}

\* The corrupted blocks the writing loop has still to visit.
Unwritten(t) == {g \in Own(stripe, t) \cap blockCorrupted : cursor[t] <= g}

\* A write has started: until it ends the block on disk is neither the old
\* one nor the new one.
BeginWrite(t) ==
  /\ Moves(t, "open", "writing")
  /\ \E g \in Unwritten(t) :
       /\ \A h \in Unwritten(t) : g <= h
       /\ cursor' = [cursor EXCEPT ![t] = g]
       /\ file' = [file EXCEPT ![g] = "damaged"]
  /\ UNCHANGED <<packets, runs, mainVars, decoderVars, writeMutex, resultVars>>

\* Bug: the loop never moves on from the block it has written.
EndWriteStays(t) ==
  /\ Moves(t, "writing", "open")
  /\ file' = [file EXCEPT ![cursor[t]] = IF clean[t] THEN "original" ELSE "damaged"]
  /\ UNCHANGED <<packets, runs, mainVars, decoderVars, cursor, writeMutex, resultVars>>

EndWrite(t) ==
  /\ Moves(t, "writing", "open")
  /\ file' = [file EXCEPT ![cursor[t]] = IF clean[t] THEN "original" ELSE "damaged"]
  /\ cursor' = [cursor EXCEPT ![t] = @ + 1]
  /\ UNCHANGED <<packets, runs, mainVars, decoderVars, writeMutex, resultVars>>

\* Write failed: the unstriped loop stops and reports, the striped one
\* ignores the result.
WriteFails(t) ==
  /\ "write" \in Faults
  /\ worker[t] = "writing"
  /\ IF Striped
     THEN /\ worker' = [worker EXCEPT ![t] = "open"]
          /\ cursor' = [cursor EXCEPT ![t] = @ + 1]
          /\ UNCHANGED <<writeMutex, executionSuccess>>
     ELSE /\ worker' = [worker EXCEPT ![t] = "exit"]
          /\ writeMutex' = NoTrack
          /\ executionSuccess' = FALSE
          /\ UNCHANGED cursor
  /\ UNCHANGED <<diskVars, mainVars, decoderVars, recoveredTracks,
                 trackWriteOffsets, trackFailedStripes>>

CloseFile(t) ==
  /\ Unwritten(t) = {}
  /\ Moves(t, "open", "exit")
  /\ writeMutex' = NoTrack
  /\ UNCHANGED <<diskVars, mainVars, decoderVars, cursor, resultVars>>

Worker(t) ==
  \/ Create(t) \/ CreateFails(t)
  \/ FeedHealthy(t) \/ FeedPacket(t) \/ GiveUp(t)
  \/ Recover(t) \/ RecoverFails(t)
  \/ OpenFile(t) \/ OpenFails(t)
  \/ BeginWrite(t) \/ EndWrite(t) \/ WriteFails(t) \/ CloseFile(t)
-----------------------------------------------------------------------------
\* The memory is fresh again.
Restart ==
  /\ pc' = "analyse"
  /\ stripe' = 0 /\ batchStart' = 0
  /\ blockCorrupted' = {} /\ trackPacketValid' = {}
  /\ worker' = [t \in TrackIds |-> "idle"]
  /\ fedBlocks' = [t \in TrackIds |-> {}]
  /\ fedPackets' = [t \in TrackIds |-> {}]
  /\ clean' = [t \in TrackIds |-> TRUE]
  /\ cursor' = [t \in TrackIds |-> 0]
  /\ writeMutex' = NoTrack
  /\ recoveredTracks' = [t \in TrackIds |-> [i \in Blocks |-> NoStripe]]
  /\ trackWriteOffsets' = [t \in TrackIds |-> 0]
  /\ trackFailedStripes' = [t \in TrackIds |-> {}]
  /\ executionSuccess' = TRUE
  /\ verdict' = "running"

\* The process dies and is started again on what is on disk.
Crash ==
  /\ pc # "done"
  /\ runs < MaxRuns
  /\ runs' = runs + 1
  /\ Restart
  /\ UNCHANGED <<file, packets>>

\* After a failure the user adds parity (if any) and repairs again.
Rerun ==
  /\ verdict = "FAILURE"
  /\ runs < MaxRuns
  /\ runs' = runs + 1
  /\ packets' \in {packets, Packets}
  /\ Restart
  /\ UNCHANGED file

\* The program has ended and is not started again.
Ended == pc = "done" /\ UNCHANGED vars

Main == Analyse \/ AnalyseNothing \/ Inject \/ Launch \/ Join \/ Report

Next == Main \/ (\E t \in TrackIds : Worker(t)) \/ Crash \/ Rerun \/ Ended

\* std::launch::async gives every worker its own thread, and the operating
\* system runs every thread.  Nothing makes a user start the program again.
Fairness == WF_vars(Main) /\ \A t \in TrackIds : WF_vars(Worker(t))

Spec == Init /\ [][Next]_vars
FairSpec == Spec /\ Fairness
-----------------------------------------------------------------------------
TypeOK ==
  /\ file \in [Blocks -> {"original", "damaged"}]
  /\ packets \in SUBSET Packets
  /\ runs \in 1 .. MaxRuns
  /\ pc \in {"analyse", "inject", "launch", "join", "done"}
  /\ stripe \in 0 .. StripeCount
  /\ batchStart \in TrackIds
  /\ blockCorrupted \in SUBSET Blocks
  /\ trackPacketValid \in SUBSET Packets
  /\ worker \in [TrackIds -> {"idle", "create", "feed", "solved", "recovered",
                             "open", "writing", "exit"}]
  /\ fedBlocks \in [TrackIds -> SUBSET Blocks]
  /\ fedPackets \in [TrackIds -> SUBSET Packets]
  /\ clean \in [TrackIds -> BOOLEAN]
  /\ cursor \in [TrackIds -> 0 .. NumBlocks]
  /\ writeMutex \in TrackIds \cup {NoTrack}
  /\ recoveredTracks \in [TrackIds -> [Blocks -> StripeIds \cup {NoStripe}]]
  /\ trackWriteOffsets \in [TrackIds -> Nat]
  /\ trackFailedStripes \in [TrackIds -> SUBSET StripeIds]
  /\ executionSuccess \in BOOLEAN
  /\ verdict \in {"running", "INTACT", "SUCCESS", "FAILURE"}

\* A block that holds the original data is never touched again: not by the
\* worker of another track, not by a second run, not by a crash in the middle
\* of a write (repair.cpp:817-819, 978-980 write only what blockCorrupted marks).
HealthyUntouched ==
  [][\A g \in Blocks : file[g] = "original" => file'[g] = "original"]_file

\* "SUCCESS: Data fully recovered." (repair.cpp:1270) and "File is already
\* intact" (repair.cpp:592) are printed only when every block of the file
\* repaired in place holds the original data.
SuccessMeansRestored ==
  InPlace /\ verdict \in {"INTACT", "SUCCESS"}
    => \A g \in Blocks : file[g] = "original"

\* When a repair succeeds, recoveredTracks has held every stripe of every track at
\* the offset its blocks have in the track, which is what the output loops of
\* repair.cpp:1057-1257 read when the repair is not in place: stripes of uneven
\* tracks and the batches they are decoded in never shift one another.
StripeOffset(s, t) == Cardinality({g \in Blocks : TrackOf(g) = t /\ StripeOf(g) < s})
RecoveredInOrder ==
  verdict = "SUCCESS" =>
    \A t \in TrackIds : \A s \in StripeIds :
      Own(s, t) # {} => recoveredTracks[t][StripeOffset(s, t)] = s

\* What is on disk suffices to decode track t of stripe s.
Enough(s, t) ==
  LET healthy == {g \in Own(s, t) : file[g] = "original"}
      intact  == {p \in packets : p[1] = t /\ p[2] = s}
  IN  \/ Own(s, t) = healthy
      \/ Cardinality(healthy) + Cardinality(intact) >= Cardinality(Own(s, t)) + Slack

\* A failed repair of a striped archive still restores whatever could be
\* restored: the failure of a stripe of one track (repair.cpp:952-957) takes
\* nothing away from other tracks and from later stripes.
FailureIsContained ==
  /\ InPlace /\ Striped /\ Faults = {} /\ verdict = "FAILURE"
  /\ \A s \in StripeIds, t \in TrackIds : Cardinality(Own(s, t)) # 1
  => \A s \in StripeIds, t \in TrackIds :
       Enough(s, t) => \A g \in Own(s, t) : file[g] = "original"

\* A repair that starts on a file and archives that suffice for every track
\* ends with the file restored, even when runs crash halfway and the next run
\* finds a half repaired file.
EnoughLeadsToSuccess ==
  (pc = "analyse" /\ \A s \in StripeIds, t \in TrackIds : Enough(s, t))
    ~> verdict \in {"INTACT", "SUCCESS"}

\* The program ends: no order of workers, lock and failures leaves the main
\* thread waiting in f.get() forever.
Termination == <>[](pc = "done")

\* Seen from the file, an in-place repair is RepairSpec.
Promise == INSTANCE RepairSpec WITH
             damaged <- {g \in Blocks : file[g] # "original"},
             report <- verdict
PromiseSpec == Promise!Spec
-----------------------------------------------------------------------------
(***************************************************************************)
(* The inductive invariant behind HealthyUntouched and SuccessMeansRestored*)
(***************************************************************************)

Active == {"create", "feed", "solved", "recovered", "open", "writing"}

\* This run will not write block g any more.
Processed(g) ==
  \/ StripeOf(g) < stripe
  \/ StripeOf(g) = stripe /\ TrackOf(g) < batchStart
  \/ /\ StripeOf(g) = stripe /\ TrackOf(g) \in Batch /\ pc = "join"
     /\ \/ worker[TrackOf(g)] = "exit"
        \/ worker[TrackOf(g)] \in {"open", "writing"} /\ g < cursor[TrackOf(g)]

\* Worker threads exist only between Launch and Join.
ThreadsInv ==
  /\ pc = "analyse" => stripe = 0 /\ batchStart = 0
  /\ pc = "join" => stripe < StripeCount
  /\ \A t \in TrackIds : worker[t] \in Active => pc = "join" /\ t \in Launched

\* blockCorrupted covers the damage, and a block it marks stays damaged until
\* its worker gets to it.
MarksInv ==
  /\ pc = "analyse" => blockCorrupted = {}
  /\ pc \in {"inject", "launch", "join"} =>
       \A g \in Blocks : g \notin blockCorrupted => file[g] = "original"
  /\ \A g \in blockCorrupted : file[g] = "damaged" \/ Processed(g)

\* A decoder has only seen original data.
CleanInv ==
  /\ trackPacketValid \subseteq packets
  /\ \A t \in TrackIds : clean[t]

\* A worker writes inside its own track, on blocks that were corrupted, and
\* starts with the first one.
WritingInv ==
  \A t \in TrackIds :
    /\ worker[t] = "writing" => cursor[t] \in Own(stripe, t) \cap blockCorrupted
    /\ worker[t] \in Active \ {"open", "writing"} => cursor[t] = 0

\* The failures the program notices: every one but those to open the file, for
\* reading or for writing, and in striped archives Seek and Write.
FaultsNoticed ==
  {"read", "open"} \cap Faults = {} /\ (Striped => "write" \notin Faults)

RestoredInv ==
  /\ InPlace /\ FaultsNoticed /\ executionSuccess =>
       \A g \in blockCorrupted :
         Processed(g) /\ StripeOf(g) \notin trackFailedStripes[TrackOf(g)]
           => file[g] = "original"
  /\ verdict = "running" <=> pc # "done"
  /\ FaultsNoticed => SuccessMeansRestored

IInv ==
  TypeOK /\ ThreadsInv /\ MarksInv /\ CleanInv /\ WritingInv /\ RestoredInv
=============================================================================
