---------------------------- MODULE RepairProofs ----------------------------
(***************************************************************************)
(* Proofs about Repair, for every number of blocks, tracks and stripes;    *)
(* then what becomes of every stripe of every track: where its blocks are  *)
(* copied, and what the failure of another one takes from it.              *)
(***************************************************************************)
EXTENDS Repair, FiniteSetTheorems, TLAPS

USE DEF Blocks, TrackIds, StripeIds, NoTrack, NoStripe, Striped

\* Every block belongs to one track and one stripe of the archive.
LEMMA LayoutTotal ==
  ASSUME NEW g \in Blocks
  PROVE  TrackOf(g) \in TrackIds /\ StripeOf(g) \in StripeIds
<1> USE SizeAssumption, CoverAssumption
<1>1. TrackOf(g) \in TrackIds
  BY DEF TrackOf
<1>2. CASE ~Striped
  BY <1>1, <1>2 DEF StripeOf
<1>3. CASE Striped
  <2> DEFINE q == g \div BlocksPerStripe
             r == g % BlocksPerStripe
  <2>1. q \in Int /\ r \in 0 .. BlocksPerStripe - 1 /\ g = BlocksPerStripe * q + r
    OBVIOUS
  <2>2. q >= 0
    OBVIOUS
  <2>3. q < StripeCount
    <3>1. SUFFICES ASSUME q >= StripeCount PROVE FALSE
      BY <2>1
    <3> HIDE DEF q, r
    <3>2. BlocksPerStripe * q >= BlocksPerStripe * StripeCount
      BY <2>1, <3>1
    <3> QED
      BY <2>1, <3>2
  <2> QED
    BY <1>1, <1>3, <2>1, <2>2, <2>3 DEF StripeOf
<1> QED
  BY <1>2, <1>3

\* The message of a decoder is a finite set of blocks.
LEMMA CardinalityOwn ==
  ASSUME NEW s, NEW t
  PROVE  IsFiniteSet(Own(s, t)) /\ Cardinality(Own(s, t)) \in Nat
<1>1. IsFiniteSet(Blocks)
  BY SizeAssumption, FS_Interval
<1>2. Own(s, t) \subseteq Blocks
  BY DEF Own
<1> QED
  BY <1>1, <1>2, FS_Subset, FS_CardinalityType

\* A program that has just started, on any damage and any packets, satisfies
\* the invariant.
THEOREM InitInv == Init => IInv
<1> SUFFICES ASSUME Init PROVE IInv
  OBVIOUS
<1> USE SizeAssumption DEF Init, FreshRun
<1>1. TypeOK
  BY DEF TypeOK
<1>2. ThreadsInv
  BY DEF ThreadsInv, Active
<1>3. MarksInv
  BY DEF MarksInv
<1>4. CleanInv
  BY DEF CleanInv
<1>5. WritingInv
  BY DEF WritingInv
<1>6. RestoredInv
  BY DEF RestoredInv, SuccessMeansRestored
<1> QED
  BY <1>1, <1>2, <1>3, <1>4, <1>5, <1>6 DEF IInv

\* Only these steps change the file.
LEMMA FileSteps ==
  ASSUME IInv, [Next]_vars
  PROVE  \/ UNCHANGED file
         \/ \E t \in TrackIds : BeginWrite(t) \/ EndWrite(t)
<1>1. CASE UNCHANGED vars
  BY <1>1 DEF vars, diskVars
<1>2. CASE Main
  BY <1>2 DEF Main, Analyse, AnalyseNothing, Inject, Launch, Join, Report, diskVars
<1>3. CASE \E t \in TrackIds : Worker(t)
  BY <1>3 DEF Worker, Create, CreateFails, RecoverFails, FeedHealthy, FeedPacket, GiveUp,
     Recover, OpenFile, OpenFails, WriteFails, CloseFile, diskVars
<1>4. CASE Crash \/ Rerun \/ Ended
  BY <1>4 DEF Crash, Rerun, Ended, vars, diskVars
<1> QED
  BY <1>1, <1>2, <1>3, <1>4 DEF Next

\* Feeding a row leaves the worker feeding or takes it to "solved".
LEMMA DecodeWorkers ==
  ASSUME TypeOK, NEW t \in TrackIds, Decode(t)
  PROVE  /\ worker' \in [TrackIds -> {"idle", "create", "feed", "solved",
                                    "recovered", "open", "writing", "exit"}]
         /\ \A u \in TrackIds : worker'[u] \in {worker[u], "solved"}
         /\ \A u \in TrackIds : u # t => worker'[u] = worker[u]
  BY DEF TypeOK, Decode

\* Every step keeps the types of the variables.
LEMMA TypeStep == IInv /\ [Next]_vars => TypeOK'
<1> SUFFICES ASSUME IInv, [Next]_vars PROVE TypeOK'
  OBVIOUS
<1> USE SizeAssumption, ModeAssumption
<1>0. TypeOK
  BY DEF IInv
<1>1. CASE UNCHANGED vars \/ Ended
  BY <1>0, <1>1 DEF Ended, TypeOK, vars, diskVars, mainVars, decoderVars, resultVars
<1>2. CASE Analyse \/ AnalyseNothing
  BY <1>0, <1>2 DEF Analyse, AnalyseNothing, TypeOK, diskVars, decoderVars, resultVars
<1>3. CASE Inject
  BY <1>0, <1>3 DEF Inject, TypeOK, diskVars, decoderVars, resultVars
<1>4. CASE Launch
  BY <1>0, <1>4 DEF Launch, TypeOK, diskVars, resultVars
<1>5. CASE Join
  <2>1. trackWriteOffsets' \in [TrackIds -> Nat]
    BY <1>0, <1>5, CardinalityOwn DEF Join, AdvanceOffsets, TypeOK
  <2>2. stripe' \in 0 .. StripeCount /\ batchStart' \in TrackIds
    BY <1>0, <1>5 DEF Join, NextBatch, TypeOK, IInv, ThreadsInv
  <2> QED
    BY <1>0, <1>5, <2>1, <2>2 DEF Join, TypeOK, diskVars, decoderVars
<1>6. CASE Report
  BY <1>0, <1>6 DEF Report, AllRecovered, TypeOK, diskVars, decoderVars
<1>7. ASSUME NEW t \in TrackIds, Worker(t) PROVE TypeOK'
  <2> USE DEF Moves, diskVars, mainVars, decoderVars, resultVars
  <2>1. CASE Create(t) \/ CreateFails(t) \/ RecoverFails(t)
    <3>1. CASE Create(t)
      BY <1>0, <3>1 DEF Create, TypeOK
    <3>2. CASE CreateFails(t)
      BY <1>0, <3>2 DEF CreateFails, TypeOK
    <3>3. CASE RecoverFails(t)
      BY <1>0, <3>3 DEF RecoverFails, TypeOK
    <3> QED
      BY <2>1, <3>1, <3>2, <3>3
  <2>2. CASE FeedHealthy(t)
    <3>1. PICK g \in UnfedBlocks(t) :
            /\ fedBlocks' = [fedBlocks EXCEPT ![t] = @ \cup {g}]
            /\ clean' = [clean EXCEPT ![t] = @ /\ file[g] = "original"]
      BY <2>2 DEF FeedHealthy
    <3>2. g \in Blocks
      BY DEF UnfedBlocks, Own
    <3>3. fedBlocks' \in [TrackIds -> SUBSET Blocks]
      BY <1>0, <3>1, <3>2 DEF TypeOK
    <3>4. clean' \in [TrackIds -> BOOLEAN]
      BY <1>0, <3>1 DEF TypeOK
    <3> QED
      BY <1>0, <2>2, <3>3, <3>4, DecodeWorkers DEF FeedHealthy, TypeOK
  <2>3. CASE FeedPacket(t)
    <3>1. PICK p \in UnfedPackets(t) :
            /\ fedPackets' = [fedPackets EXCEPT ![t] = @ \cup {p}]
            /\ clean' = [clean EXCEPT ![t] = @ /\ p \in packets]
      BY <2>3 DEF FeedPacket
    <3>2. p \in Packets
      BY <1>0 DEF UnfedPackets, OwnPackets, TypeOK
    <3>3. fedPackets' \in [TrackIds -> SUBSET Packets]
      BY <1>0, <3>1, <3>2 DEF TypeOK
    <3>4. clean' \in [TrackIds -> BOOLEAN]
      BY <1>0, <3>1 DEF TypeOK
    <3> QED
      BY <1>0, <2>3, <3>3, <3>4, DecodeWorkers DEF FeedPacket, TypeOK
  <2>4. CASE GiveUp(t)
    <3>1. stripe \in StripeIds
      BY <1>0, <2>4 DEF GiveUp, TypeOK, IInv, ThreadsInv, Active
    <3>2. trackFailedStripes' \in [TrackIds -> SUBSET StripeIds]
      <4>1. CASE Striped
        <5>1. trackFailedStripes' =
                [trackFailedStripes EXCEPT ![t] = @ \cup {stripe}]
          BY <2>4, <4>1 DEF GiveUp
        <5> QED
          BY <1>0, <3>1, <5>1 DEF TypeOK
      <4>2. CASE ~Striped
        BY <1>0, <2>4, <4>2 DEF GiveUp, TypeOK
      <4> QED
        BY <4>1, <4>2
    <3>3. executionSuccess' \in BOOLEAN
      BY <1>0, <2>4 DEF GiveUp, TypeOK
    <3> QED
      BY <1>0, <2>4, <3>2, <3>3 DEF GiveUp, TypeOK
  <2>5. CASE Recover(t)
    <3>1. stripe \in StripeIds
      BY <1>0, <2>5 DEF Recover, TypeOK, IInv, ThreadsInv, Active
    <3>2. recoveredTracks' \in [TrackIds -> [Blocks -> StripeIds \cup {NoStripe}]]
      BY <1>0, <2>5, <3>1 DEF Recover, TypeOK
    <3>3. worker' \in [TrackIds -> {"idle", "create", "feed", "solved",
                                   "recovered", "open", "writing", "exit"}]
      BY <1>0, <2>5 DEF Recover, TypeOK
    <3> QED
      BY <1>0, <2>5, <3>2, <3>3 DEF Recover, TypeOK
  <2>6. CASE OpenFile(t) \/ OpenFails(t) \/ CloseFile(t)
    <3>1. CASE OpenFile(t)
      BY <1>0, <3>1 DEF OpenFile, TypeOK
    <3>2. CASE OpenFails(t)
      BY <1>0, <3>2 DEF OpenFails, TypeOK
    <3>3. CASE CloseFile(t)
      BY <1>0, <3>3 DEF CloseFile, TypeOK
    <3> QED
      BY <2>6, <3>1, <3>2, <3>3
  <2>7. CASE BeginWrite(t)
    <3>1. PICK g \in Unwritten(t) :
            /\ cursor' = [cursor EXCEPT ![t] = g]
            /\ file' = [file EXCEPT ![g] = "damaged"]
      BY <2>7 DEF BeginWrite
    <3>2. g \in Blocks
      BY DEF Unwritten, Own
    <3>3. cursor' \in [TrackIds -> 0 .. NumBlocks]
      BY <1>0, <3>1, <3>2 DEF TypeOK
    <3>4. file' \in [Blocks -> {"original", "damaged"}]
      BY <1>0, <3>1, <3>2 DEF TypeOK
    <3> QED
      BY <1>0, <2>7, <3>3, <3>4 DEF BeginWrite, TypeOK
  <2>8. CASE EndWrite(t)
    <3>1. cursor[t] \in Blocks
      BY <2>8 DEF EndWrite, IInv, WritingInv, Own
    <3>2. cursor' \in [TrackIds -> 0 .. NumBlocks]
      BY <1>0, <2>8, <3>1 DEF EndWrite, TypeOK
    <3>3. file' \in [Blocks -> {"original", "damaged"}]
      BY <1>0, <2>8, <3>1 DEF EndWrite, TypeOK
    <3> QED
      BY <1>0, <2>8, <3>2, <3>3 DEF EndWrite, TypeOK
  <2>9. CASE WriteFails(t)
    <3>1. cursor[t] \in Blocks
      BY <2>9 DEF WriteFails, IInv, WritingInv, Own
    <3>2. cursor' \in [TrackIds -> 0 .. NumBlocks]
      <4>1. CASE Striped
        <5>1. cursor' = [cursor EXCEPT ![t] = @ + 1]
          BY <2>9, <4>1 DEF WriteFails
        <5> QED
          BY <1>0, <3>1, <5>1 DEF TypeOK
      <4>2. CASE ~Striped
        BY <1>0, <2>9, <4>2 DEF WriteFails, TypeOK
      <4> QED
        BY <4>1, <4>2
    <3>3. /\ worker' \in [TrackIds -> {"idle", "create", "feed", "solved",
                                     "recovered", "open", "writing", "exit"}]
          /\ writeMutex' \in TrackIds \cup {NoTrack}
          /\ executionSuccess' \in BOOLEAN
      BY <1>0, <2>9 DEF WriteFails, TypeOK
    <3> QED
      BY <1>0, <2>9, <3>2, <3>3 DEF WriteFails, TypeOK
  <2> QED
    BY <1>7, <2>1, <2>2, <2>3, <2>4, <2>5, <2>6, <2>7, <2>8, <2>9 DEF Worker
<1>8. CASE Crash
  BY <1>0, <1>8 DEF Crash, Restart, TypeOK
<1>9. CASE Rerun
  BY <1>0, <1>9 DEF Rerun, Restart, TypeOK
<1> QED
  BY <1>1, <1>2, <1>3, <1>4, <1>5, <1>6, <1>7, <1>8, <1>9 DEF Next, Main

\* A failed write either goes on with the next block or ends the worker.
LEMMA WriteFailsMoves ==
  ASSUME NEW t \in TrackIds, WriteFails(t)
  PROVE  \/ /\ worker' = [worker EXCEPT ![t] = "open"]
            /\ cursor' = [cursor EXCEPT ![t] = @ + 1]
            /\ UNCHANGED executionSuccess
            /\ Striped
         \/ /\ worker' = [worker EXCEPT ![t] = "exit"]
            /\ UNCHANGED cursor
            /\ executionSuccess' = FALSE
            /\ ~Striped
  BY DEF WriteFails

\* What a step of one worker leaves alone.
LEMMA WorkerFrame ==
  ASSUME TypeOK, NEW t \in TrackIds, Worker(t)
  PROVE  /\ UNCHANGED <<pc, stripe, batchStart, blockCorrupted, trackPacketValid,
                        verdict, packets>>
         /\ worker[t] \in Active
         /\ \A u \in TrackIds : u # t =>
              /\ worker'[u] = worker[u]
              /\ cursor'[u] = cursor[u]
              /\ clean'[u] = clean[u]
              /\ trackFailedStripes'[u] = trackFailedStripes[u]
         /\ Batch' = Batch
         /\ Launched' = Launched
         /\ \A s, u : Own(s, u)' = Own(s, u)
<1> USE DEF Moves
<1>1. UNCHANGED <<pc, stripe, batchStart, blockCorrupted, trackPacketValid,
                  verdict, packets>>
  BY DEF Worker, Create, CreateFails, RecoverFails, FeedHealthy, FeedPacket, GiveUp,
     Recover, OpenFile, OpenFails, BeginWrite, EndWrite, WriteFails, CloseFile,
     mainVars, diskVars
<1>2. worker[t] \in Active
  BY DEF Worker, Create, CreateFails, RecoverFails, FeedHealthy, FeedPacket, GiveUp,
     Recover, OpenFile, OpenFails, BeginWrite, EndWrite, WriteFails, CloseFile,
     Active
<1>3. ASSUME NEW u \in TrackIds, u # t
      PROVE  /\ worker'[u] = worker[u]
             /\ cursor'[u] = cursor[u]
             /\ clean'[u] = clean[u]
             /\ trackFailedStripes'[u] = trackFailedStripes[u]
  <2>1. worker'[u] = worker[u]
    <3>1. CASE WriteFails(t)
      BY <1>3, <3>1, WriteFailsMoves DEF TypeOK
    <3>2. CASE FeedHealthy(t) \/ FeedPacket(t)
      BY <1>3, <3>2, DecodeWorkers DEF FeedHealthy, FeedPacket
    <3> QED
      BY <1>3, <3>1, <3>2 DEF Worker, Create, CreateFails, RecoverFails, GiveUp, Recover,
         OpenFile, OpenFails, BeginWrite, EndWrite, CloseFile, TypeOK
  <2>2. cursor'[u] = cursor[u]
    BY <1>3 DEF Worker, Create, CreateFails, RecoverFails, FeedHealthy,
       FeedPacket, GiveUp, Recover, OpenFile, OpenFails, BeginWrite, EndWrite,
       WriteFails, CloseFile, TypeOK
  <2>3. clean'[u] = clean[u]
    BY <1>3 DEF Worker, Create, CreateFails, RecoverFails, FeedHealthy,
       FeedPacket, GiveUp, Recover, OpenFile, OpenFails, BeginWrite, EndWrite,
       WriteFails, CloseFile, decoderVars, TypeOK
  <2>4. trackFailedStripes'[u] = trackFailedStripes[u]
    BY <1>3 DEF Worker, Create, CreateFails, RecoverFails, FeedHealthy,
       FeedPacket, GiveUp, Recover, OpenFile, OpenFails, BeginWrite, EndWrite,
       WriteFails, CloseFile, resultVars, TypeOK
  <2> QED
    BY <2>1, <2>2, <2>3, <2>4
<1>4. /\ Batch' = Batch
      /\ \A s, u : Own(s, u)' = Own(s, u)
  BY <1>1 DEF Batch, Own
<1>5. Launched' = Launched
  BY <1>1, <1>4 DEF Launched
<1> QED
  BY <1>1, <1>2, <1>3, <1>4, <1>5

\* Every step keeps the worker threads inside their batch.
LEMMA ThreadsStep == IInv /\ [Next]_vars => ThreadsInv'
<1> SUFFICES ASSUME IInv, [Next]_vars PROVE ThreadsInv'
  OBVIOUS
<1> USE SizeAssumption DEF ThreadsInv, Active
<1>0. TypeOK /\ ThreadsInv
  BY DEF IInv
<1>1. CASE UNCHANGED vars \/ Ended
  <2>1. UNCHANGED <<pc, stripe, batchStart, worker>>
    BY <1>1 DEF Ended, vars, mainVars
  <2>2. Launched' = Launched
    BY <2>1 DEF Launched, Batch, Own, StripeOf, TrackOf
  <2> QED
    BY <1>0, <2>1, <2>2
<1>2. CASE Analyse \/ AnalyseNothing \/ Inject \/ Report
  BY <1>0, <1>2 DEF Analyse, AnalyseNothing, Inject, Report, TypeOK
<1>3. CASE Launch
  <2>1. Launched' = Launched
    BY <1>3 DEF Launch, Launched, Batch, Own
  <2> QED
    BY <1>0, <1>3, <2>1 DEF Launch, TypeOK
<1>4. CASE Join
  <2>1. ASSUME NEW t \in TrackIds PROVE worker[t] \notin Active
    <3>1. CASE t \in Launched
      BY <1>4, <3>1 DEF Join
    <3>2. CASE t \notin Launched
      BY <1>0, <3>2
    <3> QED
      BY <3>1, <3>2
  <2> QED
    BY <1>4, <2>1 DEF Join
<1>5. ASSUME NEW t \in TrackIds, Worker(t) PROVE ThreadsInv'
  BY <1>0, <1>5, WorkerFrame
<1>6. CASE Crash \/ Rerun
  BY <1>6 DEF Crash, Rerun, Restart
<1> QED
  BY <1>1, <1>2, <1>3, <1>4, <1>5, <1>6 DEF Next, Main

\* A worker never takes back that a block has been processed.
LEMMA WorkerProcessed ==
  ASSUME IInv, NEW t \in TrackIds, Worker(t), NEW g \in Blocks, Processed(g)
  PROVE  Processed(g)'
<1>0. TypeOK /\ ThreadsInv
  BY DEF IInv
<1>1. /\ UNCHANGED <<pc, stripe, batchStart>> /\ Batch' = Batch
      /\ \A u \in TrackIds : u # t =>
           worker'[u] = worker[u] /\ cursor'[u] = cursor[u]
      /\ worker[t] \in Active
  BY <1>0, WorkerFrame
<1>2. TrackOf(g)' = TrackOf(g) /\ StripeOf(g)' = StripeOf(g) /\ TrackOf(g) \in TrackIds
  BY LayoutTotal DEF TrackOf, StripeOf
<1>3. ASSUME worker[t] \in {"open", "writing"}, g < cursor[t]
      PROVE  \/ worker'[t] = "exit"
             \/ worker'[t] \in {"open", "writing"} /\ g < cursor'[t]
  <2> USE <1>0, <1>3 DEF Moves, TypeOK
  <2>1. CASE BeginWrite(t)
    <3>1. PICK h \in Unwritten(t) : cursor' = [cursor EXCEPT ![t] = h]
      BY <2>1 DEF BeginWrite
    <3>2. cursor[t] <= h /\ h \in Int
      BY DEF Unwritten, Own
    <3> QED
      BY <2>1, <3>1, <3>2 DEF BeginWrite
  <2>2. CASE EndWrite(t)
    BY <2>2 DEF EndWrite
  <2>3. CASE WriteFails(t)
    <3>1. CASE worker' = [worker EXCEPT ![t] = "open"]
      <4>1. cursor'[t] = cursor[t] + 1
        BY <2>3, <3>1, WriteFailsMoves
      <4> QED
        BY <3>1, <4>1
    <3>2. CASE worker' = [worker EXCEPT ![t] = "exit"]
      BY <3>2
    <3> QED
      BY <2>3, <3>1, <3>2, WriteFailsMoves
  <2>4. CASE CloseFile(t)
    BY <2>4 DEF CloseFile
  <2> QED
    BY <1>3, <2>1, <2>2, <2>3, <2>4 DEF Worker, Create, CreateFails, RecoverFails, FeedHealthy,
       FeedPacket, GiveUp, Recover, OpenFile, OpenFails
<1>4. CASE TrackOf(g) = t
  BY <1>1, <1>2, <1>3, <1>4 DEF Processed, Active
<1>5. CASE TrackOf(g) # t
  BY <1>1, <1>2, <1>5 DEF Processed
<1> QED
  BY <1>4, <1>5

\* Nor does joining a batch.
LEMMA JoinProcessed ==
  ASSUME IInv, Join, NEW g \in Blocks, Processed(g)
  PROVE  Processed(g)'
<1>0. TypeOK
  BY DEF IInv
<1> USE SizeAssumption
<1>1. TrackOf(g) \in TrackIds /\ StripeOf(g) \in StripeIds
  BY LayoutTotal
<1>2. TrackOf(g)' = TrackOf(g) /\ StripeOf(g)' = StripeOf(g)
  BY DEF TrackOf, StripeOf
<1>3. \/ StripeOf(g) < stripe
      \/ StripeOf(g) = stripe /\ TrackOf(g) < batchStart + BatchSize
  BY <1>0, <1>1 DEF Processed, Batch, TypeOK
<1>4. \/ batchStart' = batchStart + BatchSize /\ stripe' = stripe
      \/ batchStart + BatchSize >= Tracks /\ stripe' = stripe + 1
  <2>1. batchStart \in Int /\ BatchSize \in Int /\ Tracks \in Int
    BY <1>0 DEF TypeOK
  <2> QED
    BY <2>1 DEF Join, NextBatch
<1>5. \/ StripeOf(g) < stripe'
      \/ StripeOf(g) = stripe' /\ TrackOf(g) < batchStart'
  BY <1>0, <1>1, <1>3, <1>4 DEF TypeOK
<1> QED
  BY <1>2, <1>5 DEF Processed

\* Every step keeps blockCorrupted a cover of the damage, exact on the blocks
\* no worker has got to.
LEMMA MarksStep == IInv /\ [Next]_vars => MarksInv'
<1> SUFFICES ASSUME IInv, [Next]_vars PROVE MarksInv'
  OBVIOUS
<1>0. TypeOK /\ ThreadsInv /\ MarksInv /\ CleanInv /\ WritingInv
  BY DEF IInv
<1> USE SizeAssumption
<1>1. CASE UNCHANGED vars \/ Ended
  <2>1. \A g \in Blocks : Processed(g)' = Processed(g)
    BY <1>1 DEF Ended, vars, mainVars, Processed, Batch, StripeOf, TrackOf
  <2> QED
    BY <1>0, <1>1, <2>1 DEF Ended, MarksInv, vars, mainVars, diskVars, TypeOK
<1>2. CASE Analyse \/ AnalyseNothing
  BY <1>0, <1>2 DEF Analyse, AnalyseNothing, MarksInv, TypeOK, diskVars
<1>3. CASE Inject \/ Launch \/ Report
  <2>1. /\ UNCHANGED <<stripe, batchStart, blockCorrupted, file>>
        /\ pc # "join" /\ pc # "analyse" /\ pc' # "analyse"
        /\ pc \in {"inject", "launch"}
    BY <1>3 DEF Inject, Launch, Report, diskVars
  <2>2. \A g \in Blocks : Processed(g) => Processed(g)'
    BY <2>1 DEF Processed, StripeOf, TrackOf
  <2> QED
    BY <1>0, <2>1, <2>2 DEF MarksInv, TypeOK
<1>4. CASE Join
  <2>1. \A g \in Blocks : Processed(g) => Processed(g)'
    BY <1>4, JoinProcessed
  <2> QED
    BY <1>0, <1>4, <2>1 DEF Join, NextBatch, MarksInv, TypeOK, diskVars
<1>5. ASSUME NEW t \in TrackIds, Worker(t) PROVE MarksInv'
  <2>1. UNCHANGED <<pc, blockCorrupted>> /\ worker[t] \in Active
    BY <1>0, <1>5, WorkerFrame
  <2>2. \A g \in Blocks : Processed(g) => Processed(g)'
    BY <1>5, WorkerProcessed
  <2>3. CASE BeginWrite(t)
    <3>1. PICK g \in Unwritten(t) : file' = [file EXCEPT ![g] = "damaged"]
      BY <2>3 DEF BeginWrite
    <3>2. g \in Blocks /\ g \in blockCorrupted
      BY DEF Unwritten, Own
    <3> QED
      BY <1>0, <2>1, <2>2, <3>1, <3>2 DEF MarksInv, TypeOK
  <2>4. CASE EndWrite(t)
    <3>0. PICK g \in Blocks : g = cursor[t]
      BY <1>0, <2>4 DEF EndWrite, Moves, WritingInv, Own
    <3>1. g \in Own(stripe, t) /\ g \in blockCorrupted
      BY <1>0, <2>4, <3>0 DEF EndWrite, Moves, WritingInv, Own
    <3>2. Processed(g)'
      <4>1. pc = "join" /\ t \in Batch
        BY <1>0, <2>1 DEF ThreadsInv, Launched
      <4>2. /\ worker'[t] = "open" /\ cursor'[t] = g + 1
            /\ UNCHANGED <<pc, stripe, batchStart>>
        BY <1>0, <2>4, <3>0 DEF EndWrite, Moves, TypeOK, mainVars
      <4>3. StripeOf(g) = stripe /\ TrackOf(g) = t
        BY <3>1 DEF Own
      <4>4. StripeOf(g)' = stripe' /\ TrackOf(g)' = t
        BY <4>2, <4>3 DEF StripeOf, TrackOf
      <4> QED
        BY <4>1, <4>2, <4>4 DEF Processed, Batch
    <3>3. file' = [file EXCEPT ![g] = "original"]
      BY <1>0, <2>4, <3>0 DEF EndWrite, CleanInv
    <3> QED
      BY <1>0, <2>1, <2>2, <3>0, <3>1, <3>2, <3>3 DEF MarksInv, TypeOK
  <2>5. CASE UNCHANGED file
    BY <1>0, <2>1, <2>2, <2>5 DEF MarksInv, TypeOK
  <2> QED
    BY <1>5, <2>3, <2>4, <2>5 DEF Worker, Create, CreateFails, RecoverFails, FeedHealthy,
       FeedPacket, GiveUp, Recover, OpenFile, OpenFails, WriteFails, CloseFile,
       diskVars
<1>6. CASE Crash \/ Rerun
  BY <1>6 DEF Crash, Rerun, Restart, MarksInv
<1> QED
  BY <1>1, <1>2, <1>3, <1>4, <1>5, <1>6 DEF Next, Main

\* No step feeds a decoder with data that is not the original.
LEMMA CleanStep == IInv /\ [Next]_vars => CleanInv'
<1> SUFFICES ASSUME IInv, [Next]_vars PROVE CleanInv'
  OBVIOUS
<1>0. TypeOK /\ ThreadsInv /\ MarksInv /\ CleanInv
  BY DEF IInv
<1>1. CASE UNCHANGED vars \/ Ended
  BY <1>0, <1>1 DEF Ended, CleanInv, vars, diskVars, mainVars, decoderVars
<1>2. CASE Main
  BY <1>0, <1>2 DEF Main, Analyse, AnalyseNothing, Inject, Launch, Join, Report, CleanInv,
     diskVars, decoderVars
<1>3. ASSUME NEW t \in TrackIds, Worker(t) PROVE CleanInv'
  <2>1. /\ UNCHANGED <<trackPacketValid, packets>>
        /\ worker[t] \in Active
        /\ \A u \in TrackIds : u # t => clean'[u] = clean[u]
    BY <1>0, <1>3, WorkerFrame
  <2>2. CASE FeedHealthy(t)
    <3>1. PICK g \in UnfedBlocks(t) :
            clean' = [clean EXCEPT ![t] = @ /\ file[g] = "original"]
      BY <2>2 DEF FeedHealthy
    <3>2. g \in Blocks /\ g \notin blockCorrupted
      BY DEF UnfedBlocks, Own
    <3>3. pc = "join"
      BY <1>0, <2>1 DEF ThreadsInv
    <3>4. file[g] = "original"
      BY <1>0, <3>2, <3>3 DEF MarksInv
    <3>5. clean'[t]
      BY <1>0, <3>1, <3>4 DEF TypeOK, CleanInv
    <3> QED
      BY <1>0, <2>1, <3>5 DEF CleanInv
  <2>3. CASE FeedPacket(t)
    <3>1. PICK p \in UnfedPackets(t) :
            clean' = [clean EXCEPT ![t] = @ /\ p \in packets]
      BY <2>3 DEF FeedPacket
    <3>2. p \in packets
      BY <1>0 DEF UnfedPackets, OwnPackets, CleanInv
    <3>3. clean'[t]
      BY <1>0, <3>1, <3>2 DEF TypeOK, CleanInv
    <3> QED
      BY <1>0, <2>1, <3>3 DEF CleanInv
  <2>4. CASE UNCHANGED clean
    BY <1>0, <2>1, <2>4 DEF CleanInv
  <2> QED
    BY <1>3, <2>2, <2>3, <2>4 DEF Worker, Create, CreateFails, RecoverFails, GiveUp, Recover,
       OpenFile, OpenFails, BeginWrite, EndWrite, WriteFails, CloseFile,
       decoderVars
<1>4. CASE Crash \/ Rerun
  BY <1>4 DEF Crash, Rerun, Restart, CleanInv
<1> QED
  BY <1>1, <1>2, <1>3, <1>4 DEF Next

\* Every step keeps the writing loop of a worker inside its own track and on
\* corrupted blocks.
LEMMA WritingStep == IInv /\ [Next]_vars => WritingInv'
<1> SUFFICES ASSUME IInv, [Next]_vars PROVE WritingInv'
  OBVIOUS
<1>0. TypeOK /\ ThreadsInv /\ WritingInv
  BY DEF IInv
<1>1. CASE UNCHANGED vars \/ Ended
  <2>1. \A s, u : Own(s, u)' = Own(s, u)
    BY DEF Own, StripeOf, TrackOf
  <2>2. UNCHANGED <<worker, cursor, stripe, blockCorrupted>>
    BY <1>1 DEF Ended, vars, mainVars
  <2> QED
    BY <1>0, <2>1, <2>2 DEF WritingInv
<1>2. CASE Launch
  BY <1>2 DEF Launch, WritingInv
<1>3. CASE Analyse \/ AnalyseNothing \/ Inject \/ Report \/ Join
  <2>1. ASSUME NEW t \in TrackIds PROVE worker'[t] \notin Active
    <3>1. CASE Join
      <4>1. CASE t \in Launched
        BY <3>1, <4>1 DEF Join, Active
      <4>2. CASE t \notin Launched
        BY <1>0, <3>1, <4>2 DEF Join, ThreadsInv
      <4> QED
        BY <4>1, <4>2
    <3>2. CASE Analyse \/ AnalyseNothing \/ Inject \/ Report
      BY <1>0, <3>2 DEF Analyse, AnalyseNothing, Inject, Report, ThreadsInv
    <3> QED
      BY <1>3, <3>1, <3>2
  <2> QED
    BY <2>1 DEF WritingInv, Active
<1>4. ASSUME NEW t \in TrackIds, Worker(t) PROVE WritingInv'
  <2>1. /\ UNCHANGED <<stripe, blockCorrupted>>
        /\ \A u \in TrackIds : u # t =>
             worker'[u] = worker[u] /\ cursor'[u] = cursor[u]
        /\ \A s, u : Own(s, u)' = Own(s, u)
    BY <1>0, <1>4, WorkerFrame
  <2>2. ASSUME worker'[t] = "writing"
        PROVE  cursor'[t] \in Own(stripe, t) \cap blockCorrupted
    <3>1. BeginWrite(t)
      <4>1. CASE FeedHealthy(t) \/ FeedPacket(t)
        BY <1>0, <2>2, <4>1, DecodeWorkers DEF FeedHealthy, FeedPacket
      <4>2. CASE WriteFails(t)
        BY <1>0, <2>2, <4>2, WriteFailsMoves DEF TypeOK
      <4> QED
        BY <1>0, <1>4, <2>2, <4>1, <4>2 DEF Worker, Create, CreateFails, RecoverFails, GiveUp,
           Recover, OpenFile, OpenFails, EndWrite, CloseFile, Moves, TypeOK
    <3>2. PICK g \in Unwritten(t) : cursor' = [cursor EXCEPT ![t] = g]
      BY <3>1 DEF BeginWrite
    <3> QED
      BY <1>0, <3>2 DEF Unwritten, TypeOK
  <2>3. ASSUME worker'[t] \in Active \ {"open", "writing"}
        PROVE  cursor'[t] = 0
    <3>1. CASE FeedHealthy(t) \/ FeedPacket(t)
      BY <1>0, <3>1 DEF FeedHealthy, FeedPacket, WritingInv, Active
    <3>2. CASE Create(t) \/ Recover(t)
      BY <1>0, <3>2 DEF Create, Recover, Moves, WritingInv, Active
    <3>3. CASE WriteFails(t)
      BY <1>0, <2>3, <3>3, WriteFailsMoves DEF TypeOK, Active
    <3> QED
      BY <1>0, <1>4, <2>3, <3>1, <3>2, <3>3 DEF Worker, CreateFails, RecoverFails, GiveUp,
         OpenFile, OpenFails, BeginWrite, EndWrite, CloseFile, Moves, TypeOK,
         Active
  <2> QED
    BY <1>0, <2>1, <2>2, <2>3 DEF WritingInv
<1>5. CASE Crash \/ Rerun
  BY <1>5 DEF Crash, Rerun, Restart, WritingInv, Active
<1> QED
  BY <1>1, <1>2, <1>3, <1>4, <1>5 DEF Next, Main

\* No step of the system damages a block that holds the original data.
LEMMA HealthyStep ==
  ASSUME IInv, [Next]_vars, NEW g \in Blocks, file[g] = "original"
  PROVE  file'[g] = "original"
<1>0. TypeOK /\ ThreadsInv /\ MarksInv /\ CleanInv
  BY DEF IInv
<1>1. CASE UNCHANGED file
  BY <1>1
<1>2. ASSUME NEW t \in TrackIds, BeginWrite(t) PROVE file'[g] = "original"
  <2>1. PICK h \in Unwritten(t) : file' = [file EXCEPT ![h] = "damaged"]
    BY <1>2 DEF BeginWrite
  <2>2. /\ h \in Blocks /\ h \in blockCorrupted /\ cursor[t] <= h
        /\ StripeOf(h) = stripe /\ TrackOf(h) = t
    BY DEF Unwritten, Own
  <2>3. worker[t] = "open" /\ pc = "join" /\ t \in Batch /\ batchStart <= t
    BY <1>0, <1>2 DEF BeginWrite, Moves, ThreadsInv, Active, Launched, Batch
  <2>4. h \in Int /\ cursor[t] \in Int /\ stripe \in Int /\ batchStart \in Int
    BY <1>0, <2>2 DEF TypeOK
  <2>5. ~Processed(h)
    BY <2>2, <2>3, <2>4 DEF Processed
  <2>6. file[h] = "damaged"
    BY <1>0, <2>2, <2>5 DEF MarksInv
  <2> QED
    BY <1>0, <2>1, <2>6 DEF TypeOK
<1>3. ASSUME NEW t \in TrackIds, EndWrite(t) PROVE file'[g] = "original"
  BY <1>0, <1>3 DEF EndWrite, CleanInv, TypeOK
<1> QED
  BY <1>1, <1>2, <1>3, FileSteps

\* The first conjunct of RestoredInv, for one block.
RestoredBlock(g) ==
  /\ InPlace /\ FaultsNoticed /\ executionSuccess
  /\ Processed(g) /\ StripeOf(g) \notin trackFailedStripes[TrackOf(g)]
  => file[g] = "original"

\* The only way a worker processes a block without an exit that the program
\* notices is to write it.
LEMMA WorkerRestores ==
  ASSUME IInv, [Next]_vars, NEW t \in TrackIds, Worker(t),
         NEW g \in blockCorrupted, RestoredBlock(g)
  PROVE  RestoredBlock(g)'
<1>0. TypeOK /\ ThreadsInv /\ CleanInv /\ WritingInv /\ g \in Blocks
  BY DEF IInv, TypeOK
<1>1. /\ UNCHANGED <<pc, stripe, batchStart, blockCorrupted>>
      /\ worker[t] \in Active
      /\ \A u \in TrackIds : u # t =>
           /\ worker'[u] = worker[u] /\ cursor'[u] = cursor[u]
           /\ trackFailedStripes'[u] = trackFailedStripes[u]
      /\ Batch' = Batch
  BY <1>0, WorkerFrame
<1>2. pc = "join" /\ t \in Batch
  BY <1>0, <1>1 DEF ThreadsInv, Launched
<1>3. TrackOf(g) \in TrackIds /\ TrackOf(g)' = TrackOf(g) /\ StripeOf(g)' = StripeOf(g)
  BY <1>0, LayoutTotal DEF TrackOf, StripeOf
<1>4. SUFFICES ASSUME InPlace, FaultsNoticed, executionSuccess', Processed(g)',
                      StripeOf(g) \notin trackFailedStripes'[TrackOf(g)]
               PROVE  file'[g] = "original"
  BY <1>3 DEF RestoredBlock, FaultsNoticed
<1>5. executionSuccess
  BY <1>4 DEF Worker, Create, CreateFails, RecoverFails, FeedHealthy, FeedPacket, GiveUp,
     Recover, OpenFile, OpenFails, BeginWrite, EndWrite, WriteFails, CloseFile,
     resultVars
<1>6. CASE Processed(g)
  <2>1. trackFailedStripes[TrackOf(g)] \subseteq trackFailedStripes'[TrackOf(g)]
    <3>1. CASE GiveUp(t)
      <4> DEFINE more == [trackFailedStripes EXCEPT ![t] = @ \cup {stripe}]
      <4>1. trackFailedStripes' = more \/ trackFailedStripes' = trackFailedStripes
        BY <3>1 DEF GiveUp
      <4>2. trackFailedStripes[TrackOf(g)] \subseteq more[TrackOf(g)]
        BY <1>0, <1>3 DEF TypeOK
      <4> HIDE DEF more
      <4> QED
        BY <4>1, <4>2
    <3> QED
      BY <3>1 DEF Worker, Create, CreateFails, RecoverFails, FeedHealthy, FeedPacket, Recover,
         OpenFile, OpenFails, BeginWrite, EndWrite, WriteFails, CloseFile, resultVars
  <2>2. file[g] = "original"
    BY <1>4, <1>5, <1>6, <2>1 DEF RestoredBlock
  <2> QED
    BY <1>0, <2>2, HealthyStep
<1>7. CASE ~Processed(g)
  <2>1. StripeOf(g) = stripe /\ TrackOf(g) = t
    BY <1>1, <1>2, <1>3, <1>4, <1>7 DEF Processed
  <2>2. \/ worker'[t] = "exit"
        \/ worker'[t] \in {"open", "writing"} /\ g < cursor'[t]
    BY <1>1, <1>2, <1>3, <1>4, <1>7, <2>1 DEF Processed
  <2>3. ~(worker[t] \in {"open", "writing"} /\ g < cursor[t])
    BY <1>2, <1>7, <2>1 DEF Processed
  <2>4. g \in Int /\ cursor[t] \in Int /\ g >= 0
    BY <1>0 DEF TypeOK
  <2>5. g \in Own(stripe, t)
    BY <1>0, <2>1 DEF Own
  <2>6. CASE Create(t) \/ FeedHealthy(t) \/ FeedPacket(t)
    <3>1. worker'[t] \in {"feed", "solved"}
      BY <1>0, <2>6, DecodeWorkers DEF Create, FeedHealthy, FeedPacket, Moves, TypeOK
    <3> QED
      BY <2>2, <3>1
  <2>7. CASE CreateFails(t) \/ RecoverFails(t) \/ OpenFails(t) \/ WriteFails(t)
    BY <1>4, <2>7 DEF CreateFails, RecoverFails, OpenFails, WriteFails, FaultsNoticed
  <2>8. CASE GiveUp(t)
    <3>1. Striped /\ stripe \in trackFailedStripes'[t]
      <4>1. trackFailedStripes \in [TrackIds -> SUBSET StripeIds]
        BY <1>0 DEF TypeOK
      <4>2. Striped => trackFailedStripes' =
                         [trackFailedStripes EXCEPT ![t] = @ \cup {stripe}]
        BY <2>8 DEF GiveUp
      <4>3. Striped
        BY <1>4, <2>8 DEF GiveUp
      <4> QED
        BY <4>1, <4>2, <4>3
    <3> QED
      BY <1>4, <2>1, <3>1
  <2>9. CASE Recover(t) \/ OpenFile(t)
    <3>1. worker'[t] \in {"recovered", "open"} /\ cursor'[t] = 0
      BY <1>0, <1>4, <2>9 DEF Recover, OpenFile, Moves, WritingInv, Active, TypeOK
    <3> QED
      BY <2>2, <2>4, <3>1
  <2>10. CASE BeginWrite(t)
    <3>1. PICK h \in Unwritten(t) : /\ \A k \in Unwritten(t) : h <= k
                                   /\ cursor' = [cursor EXCEPT ![t] = h]
      BY <2>10 DEF BeginWrite
    <3>2. g \in Unwritten(t)
      BY <2>3, <2>4, <2>5, <2>10 DEF Unwritten, BeginWrite, Moves
    <3>3. worker'[t] = "writing" /\ cursor'[t] = h /\ h \in Int
      BY <1>0, <2>10, <3>1 DEF BeginWrite, Moves, TypeOK, Unwritten, Own
    <3> QED
      BY <2>2, <2>4, <3>1, <3>2, <3>3
  <2>11. CASE EndWrite(t)
    <3>1. worker[t] = "writing" /\ worker'[t] = "open" /\ cursor'[t] = cursor[t] + 1
      BY <1>0, <2>11 DEF EndWrite, Moves, TypeOK
    <3>2. g = cursor[t]
      BY <2>2, <2>3, <2>4, <3>1
    <3> QED
      BY <1>0, <2>11, <3>2 DEF EndWrite, CleanInv, TypeOK
  <2>12. CASE CloseFile(t)
    BY <2>3, <2>4, <2>5, <2>12 DEF CloseFile, Unwritten, Moves
  <2> QED
    BY <2>6, <2>7, <2>8, <2>9, <2>10, <2>11, <2>12 DEF Worker
<1> QED
  BY <1>6, <1>7

\* Every step keeps the promise that what was processed without a failure is
\* restored.
LEMMA RestoredStep == IInv /\ [Next]_vars => RestoredInv'
<1> SUFFICES ASSUME IInv, [Next]_vars PROVE RestoredInv'
  OBVIOUS
<1>0. /\ TypeOK /\ ThreadsInv /\ MarksInv /\ CleanInv /\ WritingInv /\ RestoredInv
      /\ \A g \in blockCorrupted : RestoredBlock(g)
  BY DEF IInv, RestoredInv, RestoredBlock
<1> USE SizeAssumption
<1>a. SUFFICES /\ \A g \in blockCorrupted' : RestoredBlock(g)'
               /\ (verdict = "running" <=> pc # "done")'
               /\ FaultsNoticed => SuccessMeansRestored'
  BY DEF RestoredInv, RestoredBlock, FaultsNoticed
<1>1. CASE UNCHANGED vars \/ Ended
  <2>1. UNCHANGED <<file, pc, verdict, stripe, batchStart, worker, cursor,
                    blockCorrupted, trackFailedStripes, executionSuccess>>
    BY <1>1 DEF Ended, vars, diskVars, mainVars, resultVars
  <2>2. \A g \in Blocks : RestoredBlock(g)' = RestoredBlock(g)
    BY <2>1 DEF RestoredBlock, Processed, Batch, StripeOf, TrackOf, FaultsNoticed
  <2> QED
    BY <1>0, <2>1, <2>2 DEF RestoredInv, SuccessMeansRestored, TypeOK
<1>2. CASE Analyse \/ AnalyseNothing
  <2>1. ASSUME NEW g \in Blocks PROVE ~Processed(g)'
    <3>1. TrackOf(g) \in TrackIds /\ StripeOf(g) \in StripeIds
      BY LayoutTotal
    <3>2. TrackOf(g)' = TrackOf(g) /\ StripeOf(g)' = StripeOf(g)
      BY DEF TrackOf, StripeOf
    <3>3. stripe' = 0 /\ batchStart' = 0 /\ pc' # "join"
      BY <1>0, <1>2 DEF Analyse, AnalyseNothing, ThreadsInv
    <3> QED
      BY <3>1, <3>2, <3>3 DEF Processed
  <2>2. blockCorrupted' \subseteq Blocks
    BY <1>0, <1>2 DEF Analyse, AnalyseNothing, TypeOK
  <2>3. (verdict = "running" <=> pc # "done")'
    BY <1>0, <1>2 DEF Analyse, AnalyseNothing, RestoredInv
  <2>4. FaultsNoticed => SuccessMeansRestored'
    BY <1>0, <1>2 DEF Analyse, AnalyseNothing, RestoredInv, SuccessMeansRestored,
       FaultsNoticed, diskVars
  <2> QED
    BY <2>1, <2>2, <2>3, <2>4 DEF RestoredBlock
<1>3. CASE Inject \/ Launch
  <2>1. /\ UNCHANGED <<stripe, batchStart, blockCorrupted, file, verdict,
                        trackFailedStripes, executionSuccess>>
        /\ pc # "done" /\ pc' # "done"
    BY <1>3 DEF Inject, Launch, diskVars, resultVars
  <2>2. ASSUME NEW g \in Blocks, Processed(g)' PROVE Processed(g)
    <3>1. pc' = "join" => worker'[TrackOf(g)] \in {"create", "idle"}
      BY <1>3, LayoutTotal DEF Inject, Launch
    <3>2. TrackOf(g)' = TrackOf(g) /\ StripeOf(g)' = StripeOf(g)
      BY DEF TrackOf, StripeOf
    <3> QED
      BY <2>1, <2>2, <3>1, <3>2 DEF Processed
  <2>3. \A g \in Blocks : RestoredBlock(g) => RestoredBlock(g)'
    BY <2>1, <2>2 DEF RestoredBlock, FaultsNoticed, TrackOf, StripeOf
  <2> QED
    BY <1>0, <2>1, <2>3 DEF RestoredInv, SuccessMeansRestored, TypeOK
<1>4. CASE Join
  <2>1. /\ UNCHANGED <<blockCorrupted, file, verdict, worker,
                        trackFailedStripes, executionSuccess>>
        /\ pc = "join" /\ pc' = "launch"
    BY <1>4 DEF Join, diskVars
  <2>2. ASSUME NEW g \in Blocks, Processed(g)' PROVE Processed(g)
    <3>1. TrackOf(g) \in TrackIds /\ StripeOf(g) \in StripeIds
      BY LayoutTotal
    <3>2. TrackOf(g)' = TrackOf(g) /\ StripeOf(g)' = StripeOf(g)
      BY DEF TrackOf, StripeOf
    <3>3. \/ StripeOf(g) < stripe'
          \/ StripeOf(g) = stripe' /\ TrackOf(g) < batchStart'
      BY <2>1, <2>2, <3>2 DEF Processed
    <3>4. \/ batchStart' = batchStart + BatchSize /\ stripe' = stripe
          \/ /\ batchStart + BatchSize >= Tracks
             /\ batchStart' = 0 /\ stripe' = stripe + 1
      <4>1. batchStart \in Int /\ BatchSize \in Int /\ Tracks \in Int
        BY <1>0 DEF TypeOK
      <4> QED
        BY <1>4, <4>1 DEF Join, NextBatch
    <3>5. \/ StripeOf(g) < stripe
          \/ StripeOf(g) = stripe /\ TrackOf(g) < batchStart
          \/ StripeOf(g) = stripe /\ TrackOf(g) \in Batch
      <4> DEFINE s == StripeOf(g)
                 t == TrackOf(g)
      <4>1. s \in Int /\ t \in TrackIds /\ t \in Int /\ 0 <= t /\ t < Tracks
        BY <3>1, SizeAssumption DEF TrackIds, StripeIds
      <4>2. stripe \in Int /\ batchStart \in Int /\ BatchSize \in Int /\ Tracks \in Int
        BY <1>0, SizeAssumption DEF TypeOK
      <4>3. s < stripe' \/ (s = stripe' /\ t < batchStart')
        BY <3>3
      <4>4. batchStart <= t /\ t < batchStart + BatchSize => t \in Batch
        BY <4>1 DEF Batch
      <4> HIDE DEF s, t
      <4>5. CASE batchStart' = batchStart + BatchSize /\ stripe' = stripe
        BY <4>1, <4>2, <4>3, <4>4, <4>5 DEF s, t
      <4>6. CASE /\ batchStart + BatchSize >= Tracks
                 /\ batchStart' = 0 /\ stripe' = stripe + 1
        BY <4>1, <4>2, <4>3, <4>4, <4>6 DEF s, t
      <4> QED
        BY <3>4, <4>5, <4>6
    <3>6. ASSUME StripeOf(g) = stripe, TrackOf(g) \in Batch PROVE Processed(g)
      <4>1. TrackOf(g) \in Launched
        BY <3>6 DEF Launched, Own
      <4> QED
        BY <1>4, <3>6, <4>1 DEF Join, Processed
    <3> QED
      BY <3>5, <3>6 DEF Processed
  <2>3. \A g \in Blocks : RestoredBlock(g) => RestoredBlock(g)'
    BY <2>1, <2>2 DEF RestoredBlock, FaultsNoticed, TrackOf, StripeOf
  <2> QED
    BY <1>0, <2>1, <2>3 DEF RestoredInv, SuccessMeansRestored, TypeOK
<1>5. CASE Report
  <2>1. /\ UNCHANGED <<stripe, batchStart, blockCorrupted, file, trackFailedStripes>>
        /\ executionSuccess' => executionSuccess
        /\ pc = "launch" /\ pc' = "done" /\ verdict' \in {"SUCCESS", "FAILURE"}
    BY <1>5 DEF Report, AllRecovered, diskVars
  <2>2. \A g \in Blocks : Processed(g)' = Processed(g)
    BY <2>1 DEF Processed, TrackOf, StripeOf
  <2>3. \A g \in Blocks : RestoredBlock(g) => RestoredBlock(g)'
    BY <2>1, <2>2 DEF RestoredBlock, FaultsNoticed, TrackOf, StripeOf
  <2>4. ASSUME FaultsNoticed PROVE SuccessMeansRestored'
    <3>1. SUFFICES ASSUME InPlace, verdict' = "SUCCESS", NEW g \in Blocks
                   PROVE  file[g] = "original"
      BY <2>1 DEF SuccessMeansRestored
    <3>2. /\ executionSuccess /\ stripe = StripeCount
          /\ \A t \in TrackIds : trackFailedStripes[t] = {}
      BY <1>5, <3>1 DEF Report, AllRecovered
    <3>3. TrackOf(g) \in TrackIds /\ StripeOf(g) \in StripeIds
      BY LayoutTotal
    <3>4. Processed(g)
      BY <3>2, <3>3 DEF Processed
    <3>5. CASE g \in blockCorrupted
      BY <1>0, <2>4, <3>1, <3>2, <3>3, <3>4, <3>5 DEF RestoredBlock
    <3>6. CASE g \notin blockCorrupted
      BY <1>0, <2>1, <3>6 DEF MarksInv
    <3> QED
      BY <3>5, <3>6
  <2> QED
    BY <1>0, <2>1, <2>3, <2>4 DEF TypeOK
<1>6. ASSUME NEW t \in TrackIds, Worker(t)
      PROVE  /\ \A g \in blockCorrupted' : RestoredBlock(g)'
             /\ (verdict = "running" <=> pc # "done")'
             /\ FaultsNoticed => SuccessMeansRestored'
  <2>1. /\ UNCHANGED <<pc, stripe, batchStart, blockCorrupted, verdict>>
        /\ worker[t] \in Active
        /\ \A u \in TrackIds : u # t =>
             /\ worker'[u] = worker[u] /\ cursor'[u] = cursor[u]
             /\ trackFailedStripes'[u] = trackFailedStripes[u]
        /\ Batch' = Batch
    BY <1>0, <1>6, WorkerFrame
  <2>2. pc = "join" /\ t \in Batch /\ verdict = "running"
    BY <1>0, <2>1 DEF ThreadsInv, Launched, RestoredInv
  <2>3. ASSUME NEW g \in blockCorrupted, RestoredBlock(g) PROVE RestoredBlock(g)'
    BY <1>0, <1>6, <2>1, <2>2, <2>3, WorkerRestores DEF TypeOK
  <2> QED
    BY <1>0, <2>1, <2>2, <2>3 DEF SuccessMeansRestored
<1>7. CASE Crash \/ Rerun
  BY <1>7 DEF Crash, Rerun, Restart, SuccessMeansRestored
<1> QED
  BY <1>1, <1>2, <1>3, <1>4, <1>5, <1>6, <1>7 DEF Next, Main

\* IInv holds in every reachable state.
THEOREM Invariance == Spec => []IInv
<1>1. IInv /\ [Next]_vars => IInv'
  BY TypeStep, ThreadsStep, MarksStep, CleanStep, WritingStep, RestoredStep DEF IInv
<1> QED
  BY <1>1, InitInv, PTL DEF Spec

\* Every variable keeps its type.
THEOREM TypeCorrect == Spec => []TypeOK
<1>1. IInv => TypeOK
  BY DEF IInv
<1> QED
  BY <1>1, Invariance, PTL

\* Whatever fails and whenever the process dies, no run of the program ever
\* damages a block of the file that holds the original data.
THEOREM HealthyNeverTouched == Spec => HealthyUntouched
<1>1. IInv /\ [Next]_vars =>
        [\A g \in Blocks : file[g] = "original" => file'[g] = "original"]_file
  BY HealthyStep
<1> QED
  BY <1>1, Invariance, PTL DEF Spec, HealthyUntouched

\* When the only failures are those the program notices, it reports success of
\* an in-place repair only if every block of the file is the original one.
THEOREM SuccessIsTrue ==
  ASSUME FaultsNoticed
  PROVE  Spec => []SuccessMeansRestored
<1>1. IInv => SuccessMeansRestored
  BY FaultsNoticed DEF IInv, RestoredInv
<1> QED
  BY <1>1, Invariance, PTL

\* Every step of a repair in place that notices its failures restores some
\* damaged blocks, ends the run with a verdict that is true, starts the program
\* again, or cannot be seen in the file.
LEMMA PromiseStep ==
  ASSUME FaultsNoticed, InPlace, IInv, IInv', [Next]_vars
  PROVE  [Promise!Next]_(Promise!vars)
<1> DEFINE Damage == {g \in Blocks : file[g] # "original"}
<1>0. TypeOK /\ TypeOK' /\ (verdict = "running" <=> pc # "done")
  BY DEF IInv, RestoredInv
<1>1. Damage' \in SUBSET Damage
  BY HealthyStep
<1>2. verdict' \in {"INTACT", "SUCCESS"} => Damage' = {}
  BY FaultsNoticed, InPlace DEF IInv, RestoredInv, SuccessMeansRestored, FaultsNoticed
<1>3. CASE UNCHANGED <<file, verdict>>
  BY <1>3 DEF Promise!vars
<1>4. CASE Analyse \/ AnalyseNothing \/ Report
  <2>1. UNCHANGED file /\ verdict = "running"
    BY <1>0, <1>4 DEF Analyse, AnalyseNothing, Report, diskVars
  <2>2. verdict' \in {"running", "INTACT", "SUCCESS", "FAILURE"}
    BY <1>0 DEF TypeOK
  <2>3. Damage' = Damage
    BY <2>1
  <2> QED
    BY <1>2, <2>1, <2>2, <2>3
       DEF Promise!Next, Promise!Report, Promise!Restore, Promise!vars
<1>5. ASSUME NEW t \in TrackIds, Worker(t) PROVE Promise!Restore
  <2>1. UNCHANGED verdict /\ worker[t] \in Active
    BY <1>0, <1>5, WorkerFrame
  <2>2. verdict = "running"
    BY <1>0, <2>1 DEF IInv, ThreadsInv
  <2> QED
    BY <1>1, <2>1, <2>2 DEF Promise!Restore
<1>6. CASE Crash \/ Rerun
  <2>1. verdict' = "running" /\ UNCHANGED file
    BY <1>6 DEF Crash, Rerun, Restart
  <2> QED
    BY <2>1 DEF Promise!Next, Promise!Rerun
<1>7. CASE UNCHANGED vars \/ Ended \/ Inject \/ Launch \/ Join
  <2>1. UNCHANGED <<file, verdict>>
    BY <1>7 DEF Ended, Inject, Launch, Join, vars, diskVars, mainVars
  <2> QED
    BY <1>3, <2>1
<1> QED
  BY <1>4, <1>5, <1>6, <1>7 DEF Next, Main, Promise!Next

\* An in-place repair whose failures are noticed implements RepairSpec.
THEOREM KeepsPromise ==
  ASSUME FaultsNoticed, InPlace
  PROVE  Spec => PromiseSpec
<1>1. Init => Promise!Init
  BY DEF Init, FreshRun, Promise!Init, Promise!Blocks
<1>2. IInv /\ IInv' /\ [Next]_vars => [Promise!Next]_(Promise!vars)
  BY FaultsNoticed, InPlace, PromiseStep
<1> QED
  BY <1>1, <1>2, Invariance, PTL DEF Spec, PromiseSpec, Promise!Spec

-----------------------------------------------------------------------------
(* Offsets                                                                 *)

\* The blocks of track t in the stripes before s.
Before(s, t) == {g \in Blocks : TrackOf(g) = t /\ StripeOf(g) < s}

\* There are finitely many of them.
LEMMA BeforeFinite ==
  ASSUME NEW s, NEW t
  PROVE  /\ IsFiniteSet(Before(s, t))
         /\ StripeOffset(s, t) = Cardinality(Before(s, t))
         /\ StripeOffset(s, t) \in 0 .. NumBlocks
<1>1. IsFiniteSet(Blocks) /\ Cardinality(Blocks) = NumBlocks
  <2> DEFINE last == NumBlocks - 1
  <2>1. 0 \in Int /\ last \in Int /\ ~(0 > last) /\ last - 0 + 1 = NumBlocks
    BY SizeAssumption
  <2>2. Blocks = 0 .. last
    OBVIOUS
  <2> HIDE DEF last, Blocks
  <2> QED
    BY <2>1, <2>2, FS_Interval
<1> HIDE DEF Blocks
<1>2. Before(s, t) \in SUBSET Blocks
  BY DEF Before
<1>3. StripeOffset(s, t) = Cardinality(Before(s, t))
  BY DEF StripeOffset, Before
<1>4. /\ IsFiniteSet(Before(s, t))
      /\ Cardinality(Before(s, t)) <= NumBlocks
  BY <1>1, <1>2, FS_Subset
<1>5. Cardinality(Before(s, t)) \in Nat
  BY <1>4, FS_CardinalityType
<1> QED
  BY <1>3, <1>4, <1>5, SizeAssumption

\* The stripe 0 is copied to the start of the track.
LEMMA FirstOffset ==
  ASSUME NEW t
  PROVE  StripeOffset(0, t) = 0
<1>1. ASSUME NEW g \in Blocks PROVE ~(StripeOf(g) < 0)
  BY LayoutTotal, SizeAssumption
<1>2. Before(0, t) = {}
  BY <1>1 DEF Before
<1>3. StripeOffset(0, t) = Cardinality(Before(0, t))
  BY BeforeFinite
<1> QED
  BY <1>2, <1>3, FS_EmptySet

\* A stripe is copied right behind the one before it.
LEMMA NextOffset ==
  ASSUME NEW s \in Nat, NEW r, r = s + 1, NEW t
  PROVE  StripeOffset(r, t) = StripeOffset(s, t) + Cardinality(Own(s, t))
<1>1. Before(r, t) = Before(s, t) \cup Own(s, t)
  <2>1. ASSUME NEW g \in Blocks
        PROVE  StripeOf(g) < r <=> StripeOf(g) < s \/ StripeOf(g) = s
    <3>1. StripeOf(g) \in Int
      BY LayoutTotal, SizeAssumption
    <3> QED
      BY <3>1
  <2> QED
    BY <2>1, Zenon DEF Before, Own
<1>2. Before(s, t) \cap Own(s, t) = {}
  <2>1. ASSUME NEW g \in Blocks PROVE ~(StripeOf(g) < s /\ StripeOf(g) = s)
    OBVIOUS
  <2> QED
    BY <2>1, Zenon DEF Before, Own
<1>3. /\ IsFiniteSet(Before(s, t)) /\ IsFiniteSet(Own(s, t))
      /\ Cardinality(Own(s, t)) \in Int
  BY BeforeFinite, CardinalityOwn
<1>4. Cardinality(Before(s, t) \cup Own(s, t))
        = Cardinality(Before(s, t)) + Cardinality(Own(s, t))
            - Cardinality(Before(s, t) \cap Own(s, t))
  BY <1>3, FS_Union
<1>5. Cardinality(Before(s, t) \cap Own(s, t)) = 0
  BY <1>2, FS_EmptySet
<1>6. /\ StripeOffset(s, t) = Cardinality(Before(s, t))
      /\ StripeOffset(r, t) = Cardinality(Before(r, t))
      /\ StripeOffset(s, t) \in Int
  BY BeforeFinite
<1>7. Cardinality(Before(r, t)) = Cardinality(Before(s, t) \cup Own(s, t))
  BY <1>1, Zenon
<1>8. Cardinality(Before(r, t)) = Cardinality(Before(s, t)) + Cardinality(Own(s, t))
  <2> DEFINE both == Cardinality(Before(s, t) \cup Own(s, t))
             shared == Cardinality(Before(s, t) \cap Own(s, t))
  <2>1. /\ Cardinality(Before(r, t)) = both /\ shared = 0
        /\ both = Cardinality(Before(s, t)) + Cardinality(Own(s, t)) - shared
    BY <1>4, <1>5, <1>7, Zenon
  <2>2. Cardinality(Before(s, t)) \in Int /\ Cardinality(Own(s, t)) \in Int
    BY <1>3, <1>6
  <2> HIDE DEF both, shared
  <2> QED
    BY <2>1, <2>2
<1> QED
  BY <1>6, <1>8

\* Two stripes of a track are copied to different places: a stripe with blocks
\* fits before every later one, and in the track.
LEMMA OffsetsApart ==
  ASSUME NEW s \in StripeIds, NEW r \in Nat, s < r, NEW t, Own(s, t) # {}
  PROVE  StripeOffset(s, t) < StripeOffset(r, t) /\ StripeOffset(s, t) \in Blocks
<1> DEFINE n == s + 1
<1>1. s \in Nat /\ n \in Nat /\ n <= r /\ n = s + 1
  BY SizeAssumption
<1> HIDE DEF n
<1>2. Cardinality(Own(s, t)) \in Nat /\ Cardinality(Own(s, t)) # 0
  BY CardinalityOwn, FS_EmptySet
<1>3. StripeOffset(n, t) = StripeOffset(s, t) + Cardinality(Own(s, t))
  BY <1>1, NextOffset
<1>4. Before(n, t) \in SUBSET Before(r, t)
  <2>1. ASSUME NEW g \in Blocks, StripeOf(g) < n PROVE StripeOf(g) < r
    BY <1>1, <2>1, LayoutTotal, SizeAssumption
  <2> QED
    BY <2>1, Zenon DEF Before
<1>5. Cardinality(Before(n, t)) <= Cardinality(Before(r, t))
  BY <1>4, BeforeFinite, FS_Subset
<1>6. /\ StripeOffset(s, t) \in 0 .. NumBlocks
      /\ StripeOffset(r, t) = Cardinality(Before(r, t))
      /\ StripeOffset(r, t) \in 0 .. NumBlocks
      /\ StripeOffset(n, t) = Cardinality(Before(n, t))
  BY BeforeFinite
<1> QED
  BY <1>2, <1>3, <1>5, <1>6, SizeAssumption

-----------------------------------------------------------------------------
(* Every stripe is copied to its place                                     *)

\* The stripes of track t whose batch has been joined.
Joined(t) == IF t < batchStart THEN stripe + 1 ELSE stripe

\* A worker in one of these states has copied its stripe or failed.
Over == {"recovered", "open", "writing", "exit"}

\* Stripe s of track t has been copied, or a failure has been noted.
Copied(s, t) ==
  \/ s < Joined(t)
  \/ s = stripe /\ pc = "join" /\ t \in Batch /\ worker[t] \in Over

\* As long as nothing failed for track t, its stripes are where they belong and
\* the write offset is where the next one does.
InOrder(t) ==
  executionSuccess /\ trackFailedStripes[t] = {} =>
    /\ trackWriteOffsets[t] = StripeOffset(Joined(t), t)
    /\ \A s \in StripeIds :
         Own(s, t) # {} /\ Copied(s, t) => recoveredTracks[t][StripeOffset(s, t)] = s

\* A run that reports success has been through every stripe.
OverInv ==
  verdict = "SUCCESS" =>
    /\ executionSuccess /\ stripe = StripeCount
    /\ \A t \in TrackIds : trackFailedStripes[t] = {}

OrderInv == OverInv /\ \A t \in TrackIds : InOrder(t)

\* The layout does not change.
LEMMA LayoutSame ==
  /\ \A s, t : StripeOffset(s, t)' = StripeOffset(s, t)
  /\ \A s, t : Own(s, t)' = Own(s, t)
  BY DEF StripeOffset, Own, StripeOf, TrackOf

\* What InOrder says of the next state.
LEMMA InOrderNext ==
  ASSUME NEW t, NEW j, j = Joined(t)',
         executionSuccess' /\ trackFailedStripes'[t] = {} =>
           /\ trackWriteOffsets'[t] = StripeOffset(j, t)
           /\ \A s \in StripeIds :
                Own(s, t) # {} /\ Copied(s, t)'
                  => recoveredTracks'[t][StripeOffset(s, t)] = s
  PROVE  InOrder(t)'
  BY LayoutSame DEF InOrder

\* What a worker does to the results.
LEMMA WorkerResults ==
  ASSUME TypeOK, NEW t \in TrackIds, Worker(t)
  PROVE  /\ UNCHANGED trackWriteOffsets
         /\ executionSuccess' => executionSuccess
         /\ trackFailedStripes'[t] = {} => trackFailedStripes[t] = {}
         /\ \A u \in TrackIds : u # t => recoveredTracks'[u] = recoveredTracks[u]
         /\ Recover(t) \/ UNCHANGED recoveredTracks
         /\ /\ executionSuccess' /\ trackFailedStripes'[t] = {} /\ worker'[t] \in Over
            => worker[t] \in Over \/ Recover(t)
<1>1. CASE GiveUp(t)
  <2>1. UNCHANGED <<trackWriteOffsets, recoveredTracks>>
    BY <1>1 DEF GiveUp
  <2>2. CASE Striped
    <3>1. /\ trackFailedStripes' = [trackFailedStripes EXCEPT ![t] = @ \cup {stripe}]
          /\ UNCHANGED executionSuccess
      BY <1>1, <2>2 DEF GiveUp
    <3>2. trackFailedStripes'[t] # {}
      BY <3>1 DEF TypeOK
    <3> QED
      BY <2>1, <3>1, <3>2
  <2>3. CASE ~Striped
    <3>1. executionSuccess' = FALSE /\ UNCHANGED trackFailedStripes
      BY <1>1, <2>3 DEF GiveUp
    <3> QED
      BY <2>1, <3>1
  <2> QED
    BY <2>2, <2>3
<1>2. CASE Recover(t)
  BY <1>2 DEF Recover, TypeOK
<1>3. CASE CreateFails(t) \/ RecoverFails(t)
  BY <1>3 DEF CreateFails, RecoverFails
<1>4. CASE FeedHealthy(t) \/ FeedPacket(t)
  BY <1>4, DecodeWorkers DEF FeedHealthy, FeedPacket, resultVars, Over
<1>5. CASE Create(t) \/ OpenFile(t) \/ OpenFails(t) \/ BeginWrite(t) \/ EndWrite(t)
           \/ CloseFile(t)
  <2>1. UNCHANGED resultVars
    BY <1>5 DEF Create, OpenFile, OpenFails, BeginWrite, EndWrite, CloseFile
  <2>2. worker'[t] \in Over => worker[t] \in Over
    BY <1>5 DEF Create, OpenFile, OpenFails, BeginWrite, EndWrite, CloseFile, Moves,
       Over, TypeOK
  <2> QED
    BY <2>1, <2>2 DEF resultVars
<1>6. CASE WriteFails(t)
  BY <1>6 DEF WriteFails, Over
<1> QED
  BY <1>1, <1>2, <1>3, <1>4, <1>5, <1>6 DEF Worker

\* The worker of a track keeps its stripes in order.
LEMMA WorkerOrder ==
  ASSUME IInv, NEW t \in TrackIds, Worker(t), NEW u \in TrackIds, InOrder(u)
  PROVE  InOrder(u)'
<1>0. TypeOK /\ ThreadsInv
  BY DEF IInv
<1>1. /\ UNCHANGED <<pc, stripe, batchStart>> /\ Batch' = Batch
      /\ worker[t] \in Active
      /\ \A v \in TrackIds : v # t =>
           worker'[v] = worker[v] /\ trackFailedStripes'[v] = trackFailedStripes[v]
  BY <1>0, WorkerFrame
<1>2. Joined(u)' = Joined(u)
  BY <1>1 DEF Joined
<1> DEFINE j == Joined(u)
<1>3. /\ pc = "join" /\ t \in Batch /\ batchStart <= t /\ stripe \in StripeIds
      /\ stripe \in Nat /\ batchStart \in Int
  BY <1>0, <1>1, SizeAssumption DEF ThreadsInv, Launched, Batch, TypeOK
<1>4. SUFFICES ASSUME executionSuccess', trackFailedStripes'[u] = {}
               PROVE  /\ trackWriteOffsets'[u] = StripeOffset(j, u)
                      /\ \A s \in StripeIds :
                           Own(s, u) # {} /\ Copied(s, u)'
                             => recoveredTracks'[u][StripeOffset(s, u)] = s
  BY <1>2, InOrderNext
<1>5. executionSuccess /\ trackFailedStripes[u] = {}
  BY <1>0, <1>1, <1>4, WorkerResults
<1>6. /\ trackWriteOffsets[u] = StripeOffset(j, u)
      /\ \A s \in StripeIds :
           Own(s, u) # {} /\ Copied(s, u) => recoveredTracks[u][StripeOffset(s, u)] = s
  BY <1>5 DEF InOrder
<1>7. UNCHANGED trackWriteOffsets
  BY <1>0, WorkerResults
<1>8. ASSUME NEW s \in StripeIds, Own(s, u) # {}, Copied(s, u)'
      PROVE  recoveredTracks'[u][StripeOffset(s, u)] = s
  <2>1. CASE u = t /\ Recover(t)
    <3>1. j = stripe
      BY <1>3, <2>1 DEF Joined
    <3>2. recoveredTracks' = [recoveredTracks EXCEPT ![t][trackWriteOffsets[t]] = stripe]
      BY <2>1 DEF Recover
    <3>3. trackWriteOffsets[t] = StripeOffset(stripe, t)
      BY <1>6, <2>1, <3>1
    <3>4. s < stripe \/ s = stripe
      BY <1>1, <1>2, <1>8, <3>1 DEF Copied
    <3>5. CASE s = stripe
      <4>1. StripeOffset(stripe, t) \in Blocks
        <5> DEFINE next == stripe + 1
        <5>1. next \in Nat /\ stripe < next
          BY <1>3
        <5> HIDE DEF next, Blocks
        <5> QED
          BY <1>3, <1>8, <2>1, <3>5, <5>1, OffsetsApart
      <4> HIDE DEF Blocks
      <4>2. recoveredTracks'[t][trackWriteOffsets[t]] = stripe
        BY <1>0, <3>2, <3>3, <4>1 DEF TypeOK
      <4> QED
        BY <2>1, <3>3, <3>5, <4>2
    <3>6. CASE s < stripe
      <4>1. /\ StripeOffset(s, t) < StripeOffset(stripe, t)
            /\ StripeOffset(s, t) \in Blocks
        BY <1>3, <1>8, <2>1, <3>6, OffsetsApart
      <4>2. StripeOffset(s, t) \in Int /\ StripeOffset(stripe, t) \in 0 .. NumBlocks
        BY <4>1, BeforeFinite
      <4>3. StripeOffset(s, t) # trackWriteOffsets[t]
        BY <3>3, <4>1, <4>2
      <4>4. Copied(s, u)
        BY <3>1, <3>6 DEF Copied
      <4>5. recoveredTracks[t][StripeOffset(s, t)] = s
        BY <1>6, <1>8, <2>1, <4>4
      <4> HIDE DEF Blocks
      <4>6. recoveredTracks'[t][StripeOffset(s, t)] = recoveredTracks[t][StripeOffset(s, t)]
        BY <1>0, <3>2, <4>1, <4>3 DEF TypeOK
      <4> QED
        BY <2>1, <4>5, <4>6
    <3> QED
      BY <3>4, <3>5, <3>6
  <2>2. CASE ~(u = t /\ Recover(t))
    <3>1. recoveredTracks'[u] = recoveredTracks[u]
      BY <1>0, <2>2, WorkerResults
    <3>2. Copied(s, u)
      <4>1. CASE s < Joined(u)
        BY <4>1 DEF Copied
      <4>2. CASE s = stripe /\ u \in Batch /\ worker'[u] \in Over
        <5>1. worker[u] \in Over
          BY <1>0, <1>1, <1>4, <2>2, <4>2, WorkerResults
        <5> QED
          BY <1>3, <4>2, <5>1 DEF Copied
      <4> QED
        BY <1>1, <1>2, <1>8, <4>1, <4>2 DEF Copied
    <3> QED
      BY <1>6, <1>8, <3>1, <3>2
  <2> QED
    BY <2>1, <2>2
<1> QED
  BY <1>6, <1>7, <1>8

\* Joining a batch moves the write offset of its tracks behind the stripe.
LEMMA JoinOrder ==
  ASSUME IInv, Join, NEW t \in TrackIds, InOrder(t)
  PROVE  InOrder(t)'
<1>0. TypeOK /\ ThreadsInv
  BY DEF IInv
<1>1. /\ UNCHANGED <<recoveredTracks, trackFailedStripes, executionSuccess>>
      /\ pc = "join" /\ pc' = "launch" /\ stripe \in StripeIds /\ stripe \in Nat
  BY <1>0, SizeAssumption DEF Join, ThreadsInv, TypeOK
<1> DEFINE j == IF t < batchStart + BatchSize THEN stripe + 1 ELSE stripe
<1>2. Joined(t)' = j
  <2>1. batchStart \in Int /\ BatchSize \in Int /\ Tracks \in Int /\ t \in Int /\ t < Tracks
        /\ t >= 0
    BY <1>0, SizeAssumption DEF TypeOK
  <2>2. CASE batchStart + BatchSize < Tracks
    BY <2>1, <2>2 DEF Joined, Join, NextBatch
  <2>3. CASE ~(batchStart + BatchSize < Tracks)
    <3>1. batchStart' = 0 /\ stripe' = stripe + 1
      BY <2>3 DEF Join, NextBatch
    <3>2. ~(t < batchStart') /\ t < batchStart + BatchSize
      BY <2>1, <2>3, <3>1
    <3> QED
      BY <3>1, <3>2 DEF Joined
  <2> QED
    BY <2>2, <2>3
<1>3. SUFFICES ASSUME executionSuccess, trackFailedStripes[t] = {}
               PROVE  /\ trackWriteOffsets'[t] = StripeOffset(j, t)
                      /\ \A s \in StripeIds :
                           Own(s, t) # {} /\ Copied(s, t)'
                             => recoveredTracks'[t][StripeOffset(s, t)] = s
  BY <1>1, <1>2, InOrderNext
<1>4. /\ trackWriteOffsets[t] = StripeOffset(Joined(t), t)
      /\ \A s \in StripeIds :
           Own(s, t) # {} /\ Copied(s, t) => recoveredTracks[t][StripeOffset(s, t)] = s
  BY <1>3 DEF InOrder
<1>5. batchStart \in Int /\ BatchSize \in Int /\ BatchSize > 0 /\ t \in Int
  BY <1>0, SizeAssumption DEF TypeOK
<1>6. CASE t \in Batch
  <2>1. j = stripe + 1 /\ Joined(t) = stripe
    BY <1>5, <1>6 DEF Batch, Joined
  <2>2. trackWriteOffsets'[t] = trackWriteOffsets[t] + Cardinality(Own(stripe, t))
    BY <1>3, <1>6 DEF Join, AdvanceOffsets
  <2>3. trackWriteOffsets'[t] = StripeOffset(j, t)
    <3> HIDE DEF j
    <3> QED
      BY <1>1, <1>4, <2>1, <2>2, NextOffset
  <2>4. ASSUME NEW s \in StripeIds, Own(s, t) # {}, Copied(s, t)' PROVE Copied(s, t)
    <3>1. s < stripe + 1
      BY <1>1, <1>2, <2>1, <2>4 DEF Copied
    <3>2. CASE s = stripe
      <4>1. t \in Launched
        BY <1>6, <2>4, <3>2 DEF Launched
      <4>2. worker[t] = "exit"
        BY <4>1 DEF Join
      <4> QED
        BY <1>1, <1>6, <3>2, <4>2 DEF Copied, Over
    <3>3. CASE s # stripe
      <4>1. s < stripe
        BY <1>1, <3>1, <3>3
      <4> QED
        BY <2>1, <4>1 DEF Copied
    <3> QED
      BY <3>2, <3>3
  <2> QED
    BY <1>1, <1>4, <2>3, <2>4
<1>7. CASE t \notin Batch
  <2>1. j = Joined(t)
    BY <1>5, <1>7 DEF Batch, Joined
  <2>2. trackWriteOffsets'[t] = trackWriteOffsets[t]
    BY <1>7 DEF Join, AdvanceOffsets
  <2>3. ASSUME NEW s \in StripeIds, Copied(s, t)' PROVE Copied(s, t)
    BY <1>1, <1>2, <2>1, <2>3 DEF Copied
  <2> QED
    BY <1>1, <1>4, <2>1, <2>2, <2>3
<1> QED
  BY <1>6, <1>7

\* The other steps of the main thread copy nothing.
LEMMA MainOrder ==
  ASSUME IInv, Analyse \/ AnalyseNothing \/ Inject \/ Launch \/ Report,
         NEW t \in TrackIds, InOrder(t)
  PROVE  InOrder(t)'
<1>1. /\ UNCHANGED <<stripe, batchStart, recoveredTracks, trackWriteOffsets,
                     trackFailedStripes>>
      /\ executionSuccess' => executionSuccess
      /\ pc # "join"
      /\ pc' = "join" => worker'[t] \notin Over
  <2>1. CASE Report
    BY <2>1 DEF Report, AllRecovered
  <2>2. CASE Launch
    <3>1. worker'[t] \in {"create", "idle"}
      BY <2>2 DEF Launch
    <3> QED
      BY <2>2, <3>1 DEF Launch, resultVars, Over
  <2>3. CASE Analyse \/ AnalyseNothing \/ Inject
    BY <2>3 DEF Analyse, AnalyseNothing, Inject, resultVars
  <2> QED
    BY <2>1, <2>2, <2>3
<1>2. Joined(t)' = Joined(t)
  BY <1>1 DEF Joined
<1>3. \A s : Copied(s, t)' => Copied(s, t)
  BY <1>1, <1>2 DEF Copied
<1> DEFINE j == Joined(t)
<1>4. SUFFICES ASSUME executionSuccess', trackFailedStripes'[t] = {}
               PROVE  /\ trackWriteOffsets'[t] = StripeOffset(j, t)
                      /\ \A s \in StripeIds :
                           Own(s, t) # {} /\ Copied(s, t)'
                             => recoveredTracks'[t][StripeOffset(s, t)] = s
  BY <1>2, InOrderNext
<1>5. /\ trackWriteOffsets[t] = StripeOffset(j, t)
      /\ \A s \in StripeIds :
           Own(s, t) # {} /\ Copied(s, t) => recoveredTracks[t][StripeOffset(s, t)] = s
  BY <1>1, <1>4 DEF InOrder
<1> QED
  BY <1>1, <1>3, <1>5

\* A program that has just started has copied nothing and will begin at the
\* start of every track.
LEMMA FreshOrder ==
  (FreshRun => OrderInv) /\ (Restart => OrderInv')
<1>1. ASSUME FreshRun PROVE OrderInv
  <2>1. ASSUME NEW t \in TrackIds PROVE InOrder(t)
    <3>1. Joined(t) = 0 /\ trackWriteOffsets[t] = 0
      BY <1>1 DEF FreshRun, Joined
    <3>2. \A s \in StripeIds : ~Copied(s, t)
      BY <1>1, <3>1, SizeAssumption DEF FreshRun, Copied
    <3> QED
      BY <3>1, <3>2, FirstOffset DEF InOrder
  <2>2. OverInv
    BY <1>1 DEF FreshRun, OverInv
  <2> QED
    BY <2>1, <2>2 DEF OrderInv
<1>2. ASSUME Restart PROVE OrderInv'
  <2>1. ASSUME NEW t \in TrackIds PROVE InOrder(t)'
    <3>1. Joined(t)' = 0 /\ trackWriteOffsets'[t] = 0
      BY <1>2 DEF Restart, Joined
    <3>2. \A s \in StripeIds : ~Copied(s, t)'
      BY <1>2, <3>1, SizeAssumption DEF Restart, Copied
    <3> DEFINE j == 0
    <3>3. j = Joined(t)' /\ trackWriteOffsets'[t] = StripeOffset(j, t)
      BY <3>1, FirstOffset
    <3> HIDE DEF j
    <3> QED
      BY <3>2, <3>3, InOrderNext
  <2>2. OverInv'
    BY <1>2 DEF Restart, OverInv
  <2> QED
    BY <2>1, <2>2 DEF OrderInv
<1> QED
  BY <1>1, <1>2

\* Every step keeps the recovered stripes in order.
LEMMA OrderStep == IInv /\ OrderInv /\ [Next]_vars => OrderInv'
<1> SUFFICES ASSUME IInv, OrderInv, [Next]_vars PROVE OrderInv'
  OBVIOUS
<1>0. OverInv /\ (\A t \in TrackIds : InOrder(t)) /\ TypeOK /\ ThreadsInv
      /\ (verdict = "running" <=> pc # "done")
  BY DEF OrderInv, IInv, RestoredInv
<1>1. CASE UNCHANGED vars \/ Ended
  <2>1. UNCHANGED <<pc, stripe, batchStart, worker, verdict, resultVars>>
    BY <1>1 DEF Ended, vars, mainVars
  <2>2. ASSUME NEW t \in TrackIds PROVE InOrder(t)'
    <3>1. Joined(t)' = Joined(t) /\ (\A s : Copied(s, t)' => Copied(s, t))
      BY <2>1 DEF Joined, Copied, Batch
    <3> QED
      BY <1>0, <2>1, <3>1, InOrderNext DEF InOrder, resultVars
  <2>3. OverInv'
    BY <1>0, <2>1 DEF OverInv, resultVars
  <2> QED
    BY <2>2, <2>3 DEF OrderInv
<1>2. CASE Analyse \/ AnalyseNothing \/ Inject \/ Launch \/ Report
  <2>1. OverInv'
    <3>1. CASE Report
      BY <3>1 DEF Report, AllRecovered, OverInv
    <3>2. CASE Analyse \/ AnalyseNothing \/ Inject \/ Launch
      BY <1>0, <3>2 DEF Analyse, AnalyseNothing, Inject, Launch, OverInv
    <3> QED
      BY <1>2, <3>1, <3>2
  <2> QED
    BY <1>0, <1>2, <2>1, MainOrder DEF OrderInv
<1>3. CASE Join
  <2>1. OverInv'
    BY <1>0, <1>3 DEF Join, OverInv
  <2> QED
    BY <1>0, <1>3, <2>1, JoinOrder DEF OrderInv
<1>4. ASSUME NEW t \in TrackIds, Worker(t) PROVE OrderInv'
  <2>1. OverInv'
    BY <1>0, <1>4, WorkerFrame DEF OverInv, ThreadsInv
  <2> QED
    BY <1>0, <1>4, <2>1, WorkerOrder DEF OrderInv
<1>5. CASE Crash \/ Rerun
  BY <1>5, FreshOrder DEF Crash, Rerun
<1> QED
  BY <1>1, <1>2, <1>3, <1>4, <1>5 DEF Next, Main

\* Whatever fails, and however the stripes of a track are cut and its batches
\* run, a repair that reports success has copied every stripe of every track to
\* the offset its blocks have in the track.
THEOREM StripesInOrder == Spec => []RecoveredInOrder
<1>1. Init => OrderInv
  BY FreshOrder DEF Init
<1>2. IInv /\ OrderInv /\ [Next]_vars => OrderInv'
  BY OrderStep
<1>3. IInv /\ OrderInv => RecoveredInOrder
  <2> SUFFICES ASSUME IInv, OrderInv, verdict = "SUCCESS",
                      NEW t \in TrackIds, NEW s \in StripeIds, Own(s, t) # {}
               PROVE  recoveredTracks[t][StripeOffset(s, t)] = s
    BY DEF RecoveredInOrder
  <2>1. executionSuccess /\ stripe = StripeCount /\ trackFailedStripes[t] = {}
    BY DEF OrderInv, OverInv
  <2>2. s < Joined(t)
    BY <2>1, SizeAssumption DEF Joined
  <2> QED
    BY <2>1, <2>2 DEF OrderInv, InOrder, Copied
<1> QED
  BY <1>1, <1>2, <1>3, Invariance, PTL DEF Spec

-----------------------------------------------------------------------------
(* What a failure takes away                                               *)

\* The decoder of track t has been fed with rows of its own message only, and
\* while the worker goes on feeding they did not suffice.
Fed(t) ==
  /\ worker[t] = "create" => fedBlocks[t] = {} /\ fedPackets[t] = {}
  /\ worker[t] = "feed" =>
       /\ fedBlocks[t] \subseteq Own(stripe, t) \ blockCorrupted
       /\ fedPackets[t] \subseteq OwnPackets(stripe, t)
       /\ ~MustSolve(t)

\* Every intact packet is a valid one.
FeedInv ==
  /\ pc \in {"launch", "join"} => trackPacketValid = packets
  /\ \A t \in TrackIds : Fed(t)

\* What is on disk does not suffice for stripe s of track t, and this run will
\* not touch its blocks any more.
Lost(s, t) == ~Enough(s, t) /\ \A g \in Own(s, t) : Processed(g)

FailedInv == \A t \in TrackIds : \A s \in trackFailedStripes[t] : Lost(s, t)

\* The repairs FailureIsContained is about.
Contained ==
  /\ InPlace /\ Striped /\ Faults = {}
  /\ \A s \in StripeIds, t \in TrackIds : Cardinality(Own(s, t)) # 1

\* Such a repair goes through every stripe and restores all but those that failed.
SalvageInv ==
  Contained =>
    /\ pc # "done" => executionSuccess
    /\ verdict = "FAILURE" =>
         \A g \in Blocks :
           StripeOf(g) \notin trackFailedStripes[TrackOf(g)] => file[g] = "original"

\* What this run has processed stays as it is.
LEMMA ProcessedStays ==
  ASSUME IInv, [Next]_vars, ~Crash, ~Rerun, NEW g \in Blocks, Processed(g)
  PROVE  Processed(g)' /\ file'[g] = file[g] /\ UNCHANGED packets
<1>0. TypeOK /\ ThreadsInv /\ WritingInv
  BY DEF IInv
<1>1. Processed(g)' /\ UNCHANGED packets
  <2>1. CASE UNCHANGED vars \/ Ended
    <3>1. UNCHANGED <<pc, stripe, batchStart, worker, cursor, packets>>
      BY <2>1 DEF Ended, vars, mainVars, diskVars
    <3> QED
      BY <3>1 DEF Processed, Batch, StripeOf, TrackOf
  <2>2. CASE Analyse \/ AnalyseNothing \/ Inject \/ Launch \/ Report
    <3>1. UNCHANGED <<stripe, batchStart, packets>> /\ pc # "join"
      BY <2>2 DEF Analyse, AnalyseNothing, Inject, Launch, Report, diskVars
    <3> QED
      BY <3>1 DEF Processed, StripeOf, TrackOf
  <2>3. CASE Join
    BY <2>3, JoinProcessed DEF Join, diskVars
  <2>4. ASSUME NEW t \in TrackIds, Worker(t) PROVE Processed(g)' /\ UNCHANGED packets
    BY <1>0, <2>4, WorkerProcessed, WorkerFrame
  <2> QED
    BY <2>1, <2>2, <2>3, <2>4 DEF Next, Main
<1>2. ASSUME NEW t \in TrackIds, worker[t] \in {"open", "writing"},
             NEW h \in Own(stripe, t), cursor[t] <= h
      PROVE  h # g
  <2>1. h \in Int /\ cursor[t] \in Int /\ stripe \in Int /\ batchStart \in Int /\ t \in Int
    BY <1>0, SizeAssumption DEF TypeOK, Own
  <2>2. pc = "join" /\ t \in Batch /\ batchStart <= t
    BY <1>0, <1>2 DEF ThreadsInv, Active, Launched, Batch
  <2>3. StripeOf(h) = stripe /\ TrackOf(h) = t
    BY DEF Own
  <2>4. ~Processed(h)
    BY <1>2, <2>1, <2>2, <2>3 DEF Processed
  <2> QED
    BY <2>4
<1>3. file'[g] = file[g]
  <2>1. CASE UNCHANGED file
    BY <2>1
  <2>2. ASSUME NEW t \in TrackIds, BeginWrite(t) PROVE file'[g] = file[g]
    <3>1. PICK h \in Unwritten(t) : file' = [file EXCEPT ![h] = "damaged"]
      BY <2>2 DEF BeginWrite
    <3>2. h \in Own(stripe, t) /\ cursor[t] <= h /\ worker[t] = "open"
      BY <2>2 DEF Unwritten, BeginWrite, Moves
    <3>3. h # g
      BY <1>2, <3>2
    <3> QED
      BY <1>0, <3>1, <3>3 DEF TypeOK
  <2>3. ASSUME NEW t \in TrackIds, EndWrite(t) PROVE file'[g] = file[g]
    <3>1. PICK h \in Blocks : h = cursor[t]
      BY <1>0, <2>3 DEF EndWrite, Moves, WritingInv, Own
    <3>2. h \in Own(stripe, t) /\ cursor[t] <= h /\ worker[t] = "writing"
      BY <1>0, <2>3, <3>1, SizeAssumption DEF EndWrite, Moves, WritingInv
    <3>3. h # g
      BY <1>2, <3>2
    <3> QED
      BY <1>0, <2>3, <3>1, <3>3 DEF EndWrite, TypeOK
  <2> QED
    BY <2>1, <2>2, <2>3, FileSteps
<1> QED
  BY <1>1, <1>3

\* What cannot be decoded any more stays so.
LEMMA LostStays ==
  ASSUME IInv, [Next]_vars, ~Crash, ~Rerun, NEW s, NEW t, Lost(s, t), UNCHANGED packets
  PROVE  Lost(s, t)'
<1>1. ASSUME NEW g \in Own(s, t) PROVE Processed(g)' /\ file'[g] = file[g]
  <2>1. g \in Blocks /\ Processed(g)
    BY DEF Own, Lost
  <2> QED
    BY <2>1, ProcessedStays
<1>2. Own(s, t)' = Own(s, t)
  BY LayoutSame
<1> DEFINE healthy == {g \in Own(s, t) : file[g] = "original"}
           intact == {p \in packets : p[1] = t /\ p[2] = s}
<1>3. healthy' = healthy /\ intact' = intact
  BY <1>1, <1>2
<1>4. Enough(s, t)' => Enough(s, t)
  <2>1. Enough(s, t) <=>
          \/ Own(s, t) = healthy
          \/ Cardinality(healthy) + Cardinality(intact) >= Cardinality(Own(s, t)) + Slack
    BY Zenon DEF Enough
  <2>2. Enough(s, t)' <=>
          \/ Own(s, t)' = healthy'
          \/ Cardinality(healthy') + Cardinality(intact') >= Cardinality(Own(s, t)') + Slack
    BY Zenon DEF Enough
  <2> HIDE DEF healthy, intact
  <2> QED
    BY <1>2, <1>3, <2>1, <2>2, Zenon
<1> QED
  BY <1>1, <1>2, <1>4 DEF Lost

\* A worker that gives up has fed all there is: what is on disk does not suffice.
LEMMA GivenUpIsLost ==
  ASSUME IInv, FeedInv, NEW t \in TrackIds, GiveUp(t)
  PROVE  ~Enough(stripe, t)
<1>0. TypeOK /\ ThreadsInv /\ MarksInv
  BY DEF IInv
<1>1. worker[t] = "feed" /\ UnfedBlocks(t) = {} /\ UnfedPackets(t) = {}
  BY DEF GiveUp, Moves
<1>2. pc = "join" /\ t \in Launched
  BY <1>0, <1>1 DEF ThreadsInv, Active
<1>3. /\ fedBlocks[t] \subseteq Own(stripe, t) \ blockCorrupted
      /\ fedPackets[t] \subseteq OwnPackets(stripe, t)
      /\ ~MustSolve(t) /\ trackPacketValid = packets
  BY <1>1, <1>2 DEF FeedInv, Fed
<1> DEFINE healthy == {g \in Own(stripe, t) : file[g] = "original"}
           intact == {p \in packets : p[1] = t /\ p[2] = stripe}
<1>4. ASSUME NEW g \in Own(stripe, t) PROVE file[g] = "original" <=> g \notin blockCorrupted
  <2>1. g \in Blocks /\ StripeOf(g) = stripe /\ TrackOf(g) = t
    BY DEF Own
  <2>2. stripe \in Int /\ batchStart \in Int /\ t \in Int /\ batchStart <= t
    BY <1>0, <1>2, SizeAssumption DEF TypeOK, Launched, Batch
  <2>3. ~Processed(g)
    BY <1>1, <2>1, <2>2 DEF Processed
  <2>4. g \notin blockCorrupted => file[g] = "original"
    BY <1>0, <1>2, <2>1 DEF MarksInv
  <2>5. g \in blockCorrupted => file[g] = "damaged"
    BY <1>0, <2>3 DEF MarksInv
  <2> QED
    BY <2>4, <2>5
<1>5. healthy = Own(stripe, t) \ blockCorrupted
  BY <1>4
<1>6. healthy = fedBlocks[t]
  BY <1>1, <1>3, <1>5 DEF UnfedBlocks
<1>7. intact = fedPackets[t]
  BY <1>1, <1>3 DEF UnfedPackets, OwnPackets
<1>8. /\ fedBlocks[t] # Own(stripe, t)
      /\ ~(RowCount(t) >= Cardinality(Own(stripe, t)) + Slack)
  BY <1>3 DEF MustSolve
<1>9. RowCount(t) = Cardinality(healthy) + Cardinality(intact)
  <2> HIDE DEF healthy, intact
  <2> QED
    BY <1>6, <1>7 DEF RowCount
<1>10. ~(Own(stripe, t) = healthy)
  BY <1>6, <1>8
<1>11. Enough(stripe, t) =>
         \/ Own(stripe, t) = healthy
         \/ Cardinality(healthy) + Cardinality(intact)
              >= Cardinality(Own(stripe, t)) + Slack
  BY Zenon DEF Enough
<1> HIDE DEF healthy, intact
<1> QED
  BY <1>8, <1>9, <1>10, <1>11

\* Only a worker that gives up adds to the failed stripes, and only the one it
\* is in.
LEMMA FailedGrow ==
  ASSUME NEW t \in TrackIds, Worker(t), TypeOK, NEW u \in TrackIds,
         NEW s \in trackFailedStripes'[u]
  PROVE  s \in trackFailedStripes[u] \/ (GiveUp(t) /\ u = t /\ s = stripe)
<1>1. CASE GiveUp(t)
  <2> DEFINE more == [trackFailedStripes EXCEPT ![t] = @ \cup {stripe}]
  <2>1. trackFailedStripes' = more \/ trackFailedStripes' = trackFailedStripes
    BY <1>1 DEF GiveUp
  <2>2. \A r \in more[u] : r \in trackFailedStripes[u] \/ (u = t /\ r = stripe)
    BY DEF TypeOK
  <2> HIDE DEF more
  <2> QED
    BY <1>1, <2>1, <2>2
<1>2. CASE ~GiveUp(t)
  <2>1. UNCHANGED trackFailedStripes
    BY <1>2 DEF Worker, Create, CreateFails, FeedHealthy, FeedPacket, Recover,
       RecoverFails, OpenFile, OpenFails, BeginWrite, EndWrite, WriteFails,
       CloseFile, resultVars
  <2> QED
    BY <2>1
<1> QED
  BY <1>1, <1>2

\* Every step leaves the failed stripes lost.
LEMMA FailedStep == IInv /\ FeedInv /\ FailedInv /\ [Next]_vars => FailedInv'
<1> SUFFICES ASSUME IInv, FeedInv, FailedInv, [Next]_vars PROVE FailedInv'
  OBVIOUS
<1>0. TypeOK /\ ThreadsInv
  BY DEF IInv
<1>1. CASE Crash \/ Rerun
  BY <1>1 DEF Crash, Rerun, Restart, FailedInv
<1>2. CASE ~Crash /\ ~Rerun
  <2>0. UNCHANGED packets
    BY <1>0, <1>2, WorkerFrame DEF Next, Main, Analyse, AnalyseNothing, Inject, Launch,
       Join, Report, Ended, vars, diskVars
  <2>1. SUFFICES ASSUME NEW u \in TrackIds, NEW s \in trackFailedStripes'[u]
                 PROVE  Lost(s, u)'
    BY DEF FailedInv
  <2>2. CASE s \in trackFailedStripes[u]
    BY <1>2, <2>0, <2>2, LostStays DEF FailedInv
  <2>3. CASE s \notin trackFailedStripes[u]
    <3>1. PICK t \in TrackIds : Worker(t)
      BY <1>2, <2>3 DEF Next, Main, Analyse, AnalyseNothing, Inject, Launch, Join,
         Report, Ended, vars, resultVars
    <3>2. GiveUp(t) /\ u = t /\ s = stripe
      BY <1>0, <2>3, <3>1, FailedGrow
    <3>3. ~Enough(stripe, t)
      BY <3>2, GivenUpIsLost
    <3>4. ASSUME NEW g \in Own(stripe, t) PROVE Processed(g)'
      <4>1. pc = "join" /\ t \in Batch
        BY <1>0, <3>2 DEF GiveUp, Moves, ThreadsInv, Active, Launched
      <4>2. StripeOf(g) = stripe /\ TrackOf(g) = t
        BY DEF Own
      <4>3. /\ worker'[t] = "exit"
            /\ UNCHANGED <<pc, stripe, batchStart>>
        BY <1>0, <3>2 DEF GiveUp, Moves, TypeOK, mainVars
      <4>4. StripeOf(g)' = stripe' /\ TrackOf(g)' = t
        BY <4>2, <4>3 DEF StripeOf, TrackOf
      <4> QED
        BY <4>1, <4>3, <4>4 DEF Processed, Batch
    <3>5. UNCHANGED <<file, packets, stripe>>
      BY <3>2 DEF GiveUp, diskVars, mainVars
    <3>6. Enough(stripe, t)' => Enough(stripe, t)
      BY <3>5 DEF Enough, Own, StripeOf, TrackOf
    <3>7. Lost(stripe, t)'
      BY <3>3, <3>4, <3>5, <3>6, LayoutSame DEF Lost
    <3>8. s = stripe /\ s = stripe' /\ u = t
      BY <3>2, <3>5
    <3> QED
      BY <3>7, <3>8 DEF Lost, Enough, Own
  <2> QED
    BY <2>2, <2>3
<1> QED
  BY <1>1, <1>2

\* A worker feeds its decoder with rows of its own message.
LEMMA WorkerFeeds ==
  ASSUME IInv, NEW t \in TrackIds, Worker(t), NEW u \in TrackIds, Fed(u)
  PROVE  Fed(u)'
<1>0. TypeOK
  BY DEF IInv
<1>1. /\ UNCHANGED <<stripe, blockCorrupted, trackPacketValid>>
      /\ \A v \in TrackIds : v # t => worker'[v] = worker[v]
  BY <1>0, WorkerFrame
<1>2. \A v : OwnPackets(stripe, v)' = OwnPackets(stripe, v)
  BY <1>1 DEF OwnPackets
<1>3. \A v : Own(stripe, v)' = Own(stripe, v)
  BY <1>1 DEF Own, StripeOf, TrackOf
<1>4. CASE u # t
  <2>1. fedBlocks'[u] = fedBlocks[u] /\ fedPackets'[u] = fedPackets[u]
    BY <1>0, <1>4 DEF Worker, Create, CreateFails, FeedHealthy, FeedPacket, GiveUp, Recover,
       RecoverFails, OpenFile, OpenFails, BeginWrite, EndWrite, WriteFails,
       CloseFile, decoderVars, TypeOK
  <2>2. MustSolve(u)' => MustSolve(u)
    BY <1>3, <2>1 DEF MustSolve, RowCount
  <2> QED
    BY <1>1, <1>2, <1>3, <1>4, <2>1, <2>2 DEF Fed
<1>5. CASE u = t /\ Create(t)
  <2>1. /\ worker[t] = "create" /\ worker'[t] = "feed"
        /\ UNCHANGED <<fedBlocks, fedPackets>>
        /\ Cardinality(Own(stripe, t)) >= MinN
    BY <1>0, <1>5 DEF Create, Moves, decoderVars, TypeOK
  <2>2. fedBlocks[t] = {} /\ fedPackets[t] = {}
    BY <1>5, <2>1 DEF Fed
  <2>3. Cardinality(Own(stripe, t)) >= 2 /\ Cardinality(Own(stripe, t)) \in Nat
    BY <2>1, CardinalityOwn DEF MinN
  <2>4. Cardinality({}) = 0
    BY FS_EmptySet
  <2>5. Own(stripe, t) # {}
    BY <2>3, <2>4
  <2>6. RowCount(t) = 0
    <3>1. Cardinality(fedBlocks[t]) = 0 /\ Cardinality(fedPackets[t]) = 0
      BY <2>2, <2>4
    <3> QED
      BY <3>1 DEF RowCount
  <2>7. ~MustSolve(t)
    BY <2>2, <2>3, <2>5, <2>6, SizeAssumption DEF MustSolve
  <2>8. ~MustSolve(t)'
    BY <1>3, <2>1, <2>7 DEF MustSolve, RowCount
  <2> QED
    BY <1>5, <2>1, <2>2, <2>8 DEF Fed
<1>6. CASE u = t /\ FeedHealthy(t)
  <2>1. PICK g \in UnfedBlocks(t) : fedBlocks' = [fedBlocks EXCEPT ![t] = @ \cup {g}]
    BY <1>6 DEF FeedHealthy
  <2>2. g \in Own(stripe, t) \ blockCorrupted
    BY DEF UnfedBlocks
  <2>3. /\ worker[t] = "feed" /\ UNCHANGED fedPackets
        /\ worker'[t] = "solved" \/ (worker'[t] = "feed" /\ ~MustSolve(t)')
    BY <1>0, <1>6 DEF FeedHealthy, Decode, TypeOK
  <2>4. fedBlocks'[t] = fedBlocks[t] \cup {g}
    BY <1>0, <2>1 DEF TypeOK
  <2>5. /\ fedBlocks[t] \subseteq Own(stripe, t) \ blockCorrupted
        /\ fedPackets[t] \subseteq OwnPackets(stripe, t)
    BY <1>6, <2>3 DEF Fed
  <2> QED
    BY <1>1, <1>2, <1>3, <1>6, <2>2, <2>3, <2>4, <2>5 DEF Fed
<1>7. CASE u = t /\ FeedPacket(t)
  <2>1. PICK p \in UnfedPackets(t) : fedPackets' = [fedPackets EXCEPT ![t] = @ \cup {p}]
    BY <1>7 DEF FeedPacket
  <2>2. p \in OwnPackets(stripe, t)
    BY DEF UnfedPackets
  <2>3. /\ worker[t] = "feed" /\ UNCHANGED fedBlocks
        /\ worker'[t] = "solved" \/ (worker'[t] = "feed" /\ ~MustSolve(t)')
    BY <1>0, <1>7 DEF FeedPacket, Decode, TypeOK
  <2>4. fedPackets'[t] = fedPackets[t] \cup {p}
    BY <1>0, <2>1 DEF TypeOK
  <2>5. /\ fedBlocks[t] \subseteq Own(stripe, t) \ blockCorrupted
        /\ fedPackets[t] \subseteq OwnPackets(stripe, t)
    BY <1>7, <2>3 DEF Fed
  <2> QED
    BY <1>1, <1>2, <1>3, <1>7, <2>2, <2>3, <2>4, <2>5 DEF Fed
<1>8. CASE u = t /\ ~Create(t) /\ ~FeedHealthy(t) /\ ~FeedPacket(t)
  <2>1. worker'[t] \notin {"create", "feed"}
    <3>1. CASE WriteFails(t)
      BY <1>0, <3>1, WriteFailsMoves DEF TypeOK
    <3> QED
      BY <1>0, <1>8, <3>1 DEF Worker, CreateFails, GiveUp, Recover, RecoverFails, OpenFile,
         OpenFails, BeginWrite, EndWrite, CloseFile, Moves, TypeOK
  <2> QED
    BY <1>8, <2>1 DEF Fed
<1> QED
  BY <1>4, <1>5, <1>6, <1>7, <1>8

\* Every step keeps the decoders fed with what is theirs.
LEMMA FeedStep == IInv /\ FeedInv /\ [Next]_vars => FeedInv'
<1> SUFFICES ASSUME IInv, FeedInv, [Next]_vars PROVE FeedInv'
  OBVIOUS
<1>0. TypeOK /\ ThreadsInv
  BY DEF IInv
<1>1. CASE UNCHANGED vars \/ Ended
  <2>1. UNCHANGED <<pc, stripe, blockCorrupted, trackPacketValid, packets, worker,
                    fedBlocks, fedPackets>>
    BY <1>1 DEF Ended, vars, mainVars, diskVars, decoderVars
  <2>2. \A t : MustSolve(t)' => MustSolve(t)
    BY <2>1 DEF MustSolve, RowCount, Own, StripeOf, TrackOf
  <2>3. \A t : Fed(t) => Fed(t)'
    BY <2>1, <2>2 DEF Fed, Own, StripeOf, TrackOf, OwnPackets
  <2> QED
    BY <2>1, <2>3 DEF FeedInv
<1>2. CASE Launch
  <2>1. ASSUME NEW t \in TrackIds PROVE Fed(t)'
    <3>1. /\ worker'[t] \in {"create", "idle"}
          /\ fedBlocks'[t] = {} /\ fedPackets'[t] = {}
      BY <1>2 DEF Launch
    <3> QED
      BY <3>1 DEF Fed
  <2> QED
    BY <1>2, <2>1 DEF FeedInv, Launch, diskVars
<1>3. CASE Analyse \/ AnalyseNothing \/ Inject \/ Join \/ Report
  <2>1. ASSUME NEW t \in TrackIds PROVE worker'[t] \notin {"create", "feed"}
    <3>1. UNCHANGED worker
      BY <1>3 DEF Analyse, AnalyseNothing, Inject, Join, Report
    <3>2. CASE Join
      BY <1>0, <3>1, <3>2 DEF Join, ThreadsInv, Active
    <3>3. CASE pc # "join"
      BY <1>0, <3>1, <3>3 DEF ThreadsInv, Active
    <3> QED
      BY <1>3, <3>2, <3>3 DEF Analyse, AnalyseNothing, Inject, Report
  <2>2. \A t \in TrackIds : Fed(t)'
    BY <2>1 DEF Fed
  <2>3. pc' \in {"launch", "join"} => trackPacketValid' = packets'
    BY <1>3 DEF Analyse, AnalyseNothing, Inject, Join, Report, FeedInv, diskVars
  <2> QED
    BY <2>2, <2>3 DEF FeedInv
<1>4. ASSUME NEW t \in TrackIds, Worker(t) PROVE FeedInv'
  <2>1. UNCHANGED <<pc, trackPacketValid, packets>>
    BY <1>0, <1>4, WorkerFrame
  <2> QED
    BY <1>4, <2>1, WorkerFeeds DEF FeedInv
<1>5. CASE Crash \/ Rerun
  BY <1>5 DEF Crash, Rerun, Restart, FeedInv, Fed
<1> QED
  BY <1>1, <1>2, <1>3, <1>4, <1>5 DEF Next, Main

\* Nothing but a stripe that cannot be solved fails in such a repair, and no
\* stripe is too small for a decoder.
LEMMA ContainedSucceeds ==
  ASSUME IInv, Contained, NEW t \in TrackIds, Worker(t)
  PROVE  executionSuccess' = executionSuccess
<1>0. TypeOK /\ ThreadsInv
  BY DEF IInv
<1>1. CASE CreateFails(t)
  <2>1. t \in Launched /\ stripe \in StripeIds
    BY <1>0, <1>1, SizeAssumption
       DEF CreateFails, Moves, ThreadsInv, Active, TypeOK
  <2>2. Own(stripe, t) # {}
    BY <2>1 DEF Launched, Contained
  <2>3. /\ Cardinality(Own(stripe, t)) \in Nat /\ Cardinality(Own(stripe, t)) # 0
        /\ Cardinality(Own(stripe, t)) # 1
    BY <2>1, <2>2, CardinalityOwn, FS_EmptySet DEF Contained
  <2> QED
    BY <1>1, <2>3 DEF CreateFails, MinN, Contained
<1>2. CASE GiveUp(t)
  BY <1>2 DEF GiveUp, Contained
<1>3. CASE RecoverFails(t) \/ WriteFails(t)
  BY <1>3 DEF RecoverFails, WriteFails, Contained
<1> QED
  BY <1>1, <1>2, <1>3 DEF Worker, Create, FeedHealthy, FeedPacket, Recover, OpenFile,
     OpenFails, BeginWrite, EndWrite, CloseFile, resultVars

\* Every step of such a repair keeps what can be restored on its way.
LEMMA SalvageStep == IInv /\ SalvageInv /\ [Next]_vars => SalvageInv'
<1> SUFFICES ASSUME IInv, SalvageInv, [Next]_vars, Contained
             PROVE  /\ pc' # "done" => executionSuccess'
                    /\ verdict' = "FAILURE" =>
                         \A g \in Blocks :
                           StripeOf(g) \notin trackFailedStripes'[TrackOf(g)]
                             => file'[g] = "original"
  <2>1. Contained' => Contained
    BY DEF Contained, Own, StripeOf, TrackOf
  <2>2. \A g : StripeOf(g)' = StripeOf(g) /\ TrackOf(g)' = TrackOf(g)
    BY DEF StripeOf, TrackOf
  <2> QED
    BY <2>1, <2>2 DEF SalvageInv
<1>0. /\ pc # "done" => executionSuccess
      /\ verdict = "FAILURE" =>
           \A g \in Blocks :
             StripeOf(g) \notin trackFailedStripes[TrackOf(g)] => file[g] = "original"
      /\ verdict = "running" <=> pc # "done"
      /\ TypeOK /\ ThreadsInv /\ MarksInv /\ RestoredInv
  BY DEF SalvageInv, IInv, RestoredInv
<1>1. CASE UNCHANGED vars \/ Ended
  <2>1. UNCHANGED <<pc, verdict, file, executionSuccess, trackFailedStripes>>
    BY <1>1 DEF Ended, vars, mainVars, diskVars, resultVars
  <2> QED
    BY <1>0, <2>1
<1>2. CASE Analyse \/ AnalyseNothing \/ Inject \/ Launch \/ Join
  <2>1. /\ UNCHANGED executionSuccess
        /\ pc # "done" /\ verdict' # "FAILURE"
    BY <1>0, <1>2 DEF Analyse, AnalyseNothing, Inject, Launch, Join, resultVars
  <2> QED
    BY <1>0, <2>1
<1>3. CASE Report
  <2>1. /\ pc' = "done" /\ pc = "launch" /\ UNCHANGED <<file, trackFailedStripes>>
        /\ executionSuccess /\ stripe = StripeCount
    BY <1>0, <1>3 DEF Report, diskVars
  <2>2. ASSUME NEW g \in Blocks, StripeOf(g) \notin trackFailedStripes[TrackOf(g)]
        PROVE  file[g] = "original"
    <3>1. StripeOf(g) < stripe
      BY <2>1, LayoutTotal, SizeAssumption
    <3>2. Processed(g)
      BY <3>1 DEF Processed
    <3>3. InPlace /\ FaultsNoticed
      BY DEF Contained, FaultsNoticed
    <3>4. CASE g \in blockCorrupted
      BY <1>0, <2>1, <2>2, <3>2, <3>3, <3>4 DEF RestoredInv
    <3>5. CASE g \notin blockCorrupted
      BY <1>0, <2>1, <3>5 DEF MarksInv
    <3> QED
      BY <3>4, <3>5
  <2> QED
    BY <2>1, <2>2
<1>4. ASSUME NEW t \in TrackIds, Worker(t)
      PROVE  executionSuccess' /\ verdict' # "FAILURE"
  <2>1. UNCHANGED <<pc, verdict>> /\ pc # "done"
    BY <1>0, <1>4, WorkerFrame DEF ThreadsInv
  <2>2. executionSuccess' = executionSuccess
    BY <1>4, ContainedSucceeds
  <2> QED
    BY <1>0, <2>1, <2>2
<1>5. CASE Crash \/ Rerun
  BY <1>5 DEF Crash, Rerun, Restart
<1> QED
  BY <1>1, <1>2, <1>3, <1>4, <1>5 DEF Next, Main

\* In a striped archive without a message of a single block, a repair in place
\* in which nothing else fails leaves no stripe damaged that could be decoded,
\* whatever stripes of other tracks could not.
THEOREM FailuresStayLocal == Spec => []FailureIsContained
<1> DEFINE Inv == FeedInv /\ FailedInv /\ SalvageInv
<1>1. Init => Inv
  <2> SUFFICES ASSUME Init PROVE Inv
    OBVIOUS
  <2>1. FeedInv
    BY DEF Init, FreshRun, FeedInv, Fed
  <2>2. FailedInv
    BY DEF Init, FreshRun, FailedInv
  <2>3. SalvageInv
    BY DEF Init, FreshRun, SalvageInv
  <2> QED
    BY <2>1, <2>2, <2>3
<1>2. IInv /\ Inv /\ [Next]_vars => Inv'
  BY FeedStep, FailedStep, SalvageStep
<1>3. IInv /\ Inv => FailureIsContained
  <2> SUFFICES ASSUME FailedInv, SalvageInv, Contained, verdict = "FAILURE",
                      NEW s \in StripeIds, NEW t \in TrackIds, Enough(s, t),
                      NEW g \in Own(s, t)
               PROVE  file[g] = "original"
    BY DEF FailureIsContained, Contained
  <2>1. g \in Blocks /\ StripeOf(g) = s /\ TrackOf(g) = t
    BY DEF Own
  <2>2. s \notin trackFailedStripes[t]
    BY DEF FailedInv, Lost
  <2> QED
    BY <2>1, <2>2 DEF SalvageInv
<1> HIDE DEF Inv
<1> QED
  BY <1>1, <1>2, <1>3, Invariance, PTL DEF Spec
=============================================================================
