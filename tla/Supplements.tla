----------------------------- MODULE Supplements -----------------------------
(***************************************************************************)
(* The archives of one directory: those made by -c, those AddParity        *)
(* (create.cpp) adds to them, and the ones RepairDataset finds when it is  *)
(* given one of them (repair.cpp).  A file name is a sequence of pieces: a *)
(* piece of text, ".pNN", "+NN", or one that only begins like ".pNN", such *)
(* as ".part1".  What an archive holds is determined by the data it        *)
(* protects, the stripes and the overhead it was made with.                *)
(***************************************************************************)
EXTENDS Integers, Sequences, FiniteSetsExt, SequencesExt

CONSTANTS
  Stems,        \* the names of the data sets, without extension
  NumBlocks,    \* blocks of each data set
  Tracks,       \* totalTracks of each archive
  Layouts,      \* how many blocks the user's --max-mem leaves to a stripe
  Percents,     \* overheads the user asks for
  Damages,      \* what may be left whole of a data set
  MaxArchives,  \* bound: archives in the directory
  MaxTotal      \* bound: overhead of a chain, in percent

Pieces == {"text", "part", "p", "+"} \X Nat

ASSUME SupplementsAssumption ==
  /\ Stems \subseteq Seq(Pieces) /\ \A stem \in Stems : stem # <<>>
  /\ NumBlocks \in Nat \ {0} /\ Tracks \in Nat \ {0}
  /\ Layouts \subseteq Nat \ {0}
  /\ Percents \subseteq 1 .. 99
  /\ Damages \subseteq SUBSET (0 .. NumBlocks - 1)
  /\ MaxArchives \in Nat /\ MaxTotal \in Nat

VARIABLES
  archives,   \* records: name, stem, layout, percent, and the total of its chain
  healthy,    \* the blocks of the data that are still whole, for each stem
  told,       \* the missing overhead the user has been told, for each stem, or 0
  answered    \* stems whose user has since added what was missing

vars == <<archives, healthy, told, answered>>

Blocks == 0 .. NumBlocks - 1
Own(layout, s, t) == {g \in Blocks : g \div layout = s /\ g % Tracks = t}
StripesOf(layout) == {g \div layout : g \in Blocks}
TrackIds == 0 .. Tracks - 1
Striped(layout) == layout < NumBlocks

\* Data of one track are not striped, whatever --max-mem says, nor are those that fit
\* in one stripe.
blocksPerStripe(layout) ==
  IF Tracks = 1 \/ layout >= NumBlocks THEN NumBlocks ELSE layout

BlockCount(layout, s, t) == Cardinality(Own(layout, s, t))
BlocksUpTo(layout, s, t) == MapThenSumSet(LAMBDA u : BlockCount(layout, s, u), 0 .. t)

\* What track t gets when the fraction is carried from track to track: see
\* ParityPlan.
PacketCount(layout, s, t, percent) ==
  LET share == (percent * BlocksUpTo(layout, s, t)) \div 100
               - (percent * BlocksUpTo(layout, s, t - 1)) \div 100
  IN  IF share = 0 /\ BlockCount(layout, s, t) > 0 THEN 1 ELSE share

\* fountainId begins at the number of blocks of the track in every archive;
\* blockSequence is the stripe, 0 when there is one.
PacketsOf(a) ==
  UNION {{[matrixTrack |-> t, blockSequence |-> s,
           fountainId |-> BlockCount(a.layout, s, t) + i] :
            i \in 0 .. PacketCount(a.layout, s, t, a.percent) - 1} :
         t \in TrackIds, s \in StripesOf(a.layout)}
-----------------------------------------------------------------------------
\* Names.

LikeP == {"p", "part"}
Plus == {"+"}
PieceP(percent) == <<"p", percent>>
PiecePlus(percent) == <<"+", percent>>

\* Where the first, and the last, piece of one of the kinds is; 0 for nowhere.
FirstOf(name, kinds) == SelectInSeq(name, LAMBDA piece : piece[1] \in kinds)
LastOf(name, kinds) == SelectLastInSeq(name, LAMBDA piece : piece[1] \in kinds)

\* What is in front of it.
BeforeFirst(name, kinds) ==
  IF FirstOf(name, kinds) = 0 THEN name ELSE SubSeq(name, 1, FirstOf(name, kinds) - 1)
BeforeLast(name, kinds) ==
  IF LastOf(name, kinds) <= 1 THEN name ELSE SubSeq(name, 1, LastOf(name, kinds) - 1)

\* Bug: only the number behind ".p" is read.
parseExistingPct(name) ==
  LET i == FirstOf(name, LikeP)
  IN  IF i = 0 \/ name[i][1] # "p" THEN 0 ELSE name[i][2]

\* The number behind the first ".p" and all numbers behind a plus after it.
parseCumulativeBasePct(name) ==
  LET i == FirstOf(name, LikeP)
      added == {j \in DOMAIN name : j > i /\ name[j][1] = "+"}
  IN  IF i = 0 \/ name[i][1] # "p" THEN 0
      ELSE name[i][2] + MapThenSumSet(LAMBDA j : name[j][2], added)

\* Bug: what is added is not told apart from what was there.
SupplementNameMerged(name, percent) ==
  BeforeFirst(name, LikeP) \o <<PieceP(percent)>>

\* The name of a supplement to the archive of that name.
SupplementName(name, percent) ==
  BeforeFirst(name, LikeP)
    \o <<PieceP(parseCumulativeBasePct(name)), PiecePlus(percent)>>

\* Bug: the base name ends at the first piece of text.
BaseNameShort(name) == SubSeq(name, 1, 1)

\* What the names of supplements have to begin with.
BaseName(name) == BeforeLast(BeforeFirst(name, Plus), LikeP)

\* scanSupplementArchives: the names that begin with the base name and hold a plus.
FoundBeside(a) ==
  {b \in archives : /\ b.name # a.name
                    /\ FirstOf(b.name, Plus) > 0
                    /\ IsPrefix(BaseName(a.name), b.name)}
-----------------------------------------------------------------------------
\* What repair makes of the packets of the archives it has read, of which a is
\* the one its user has named.

\* The stripe a packet is given to: it bears the number of a stripe of the archive b it
\* comes from, which is one of a only if both have the same stripes.
StripeIndex(a, p) == IF Striped(a.layout) THEN p.blockSequence ELSE 0

Gathered(a) == {a} \cup FoundBeside(a)

\* The packets for a decoder: one that is there twice brings nothing new.  Those of
\* an archive with other stripes are counted as rows too, though they are rows of
\* another message.
IdsFor(a, s, t) ==
  {p.fountainId : p \in {q \in UNION {PacketsOf(b) : b \in Gathered(a)} :
                           q.matrixTrack = t /\ StripeIndex(a, q) = s}}

\* No decoder lacks rows.
Sufficient(a) ==
  \A s \in StripesOf(a.layout), t \in TrackIds :
    LET own == Own(a.layout, s, t)
    IN  Cardinality(own \cap healthy[a.stem]) + Cardinality(IdsFor(a, s, t))
          >= Cardinality(own)

HealthyOf(a, t) == Cardinality({g \in healthy[a.stem] : g % Tracks = t})
PacketsSeen(a, t) ==
  MapThenSumSet(LAMBDA b : Cardinality({p \in PacketsOf(b) : p.matrixTrack = t}), Gathered(a))

\* needEstimate: for each track one more than its healthy blocks, less the packets
\* that were seen for it.
NeedOfTrack(a, t) ==
  IF PacketsSeen(a, t) < HealthyOf(a, t) + 1
  THEN HealthyOf(a, t) + 1 - PacketsSeen(a, t) ELSE 0

\* The same as an overhead of totalBlocks, rounded up by its reader.
extraPct(a) ==
  (100 * MapThenSumSet(LAMBDA t : NeedOfTrack(a, t), TrackIds) + NumBlocks - 1)
    \div NumBlocks
-----------------------------------------------------------------------------
Init ==
  /\ archives = {}
  /\ healthy \in [Stems -> Damages]
  /\ told = [stem \in Stems |-> 0]
  /\ answered = {}

\* The archive replaces one of the same name.
Put(a) ==
  /\ archives' = {b \in archives : b.name # a.name} \cup {a}
  /\ Cardinality(archives') <= MaxArchives

\* An encoder fails: the archive that was begun is removed, and with it one of the
\* same name that it has replaced.
Lose(name) ==
  /\ archives' = {b \in archives : b.name # name}
  /\ UNCHANGED <<healthy, told, answered>>

\* -c: an archive of the data, which is whole.
Create(stem, layout, percent) ==
  /\ Put([name |-> Append(stem, PieceP(percent)), stem |-> stem,
          layout |-> blocksPerStripe(layout), percent |-> percent, total |-> percent])
  /\ UNCHANGED <<healthy, told, answered>>

CreateFails(stem, percent) == Lose(Append(stem, PieceP(percent)))

\* -a, by a user who still has the data: only the size of the data is looked at,
\* and the stripes follow from the --max-mem of this call.
AddParity(a, layout, percent) ==
  /\ a.total + percent <= MaxTotal
  /\ Put([name |-> SupplementName(a.name, percent), stem |-> a.stem,
          layout |-> blocksPerStripe(layout), percent |-> percent,
          total |-> a.total + percent])
  /\ answered' = IF told[a.stem] > 0 /\ percent >= told[a.stem]
                 THEN answered \cup {a.stem} ELSE answered
  /\ UNCHANGED <<healthy, told>>

AddParityFails(a, percent) == Lose(SupplementName(a.name, percent))

\* A repair that fails says how much parity is missing.
RepairFails(a) ==
  /\ ~Sufficient(a) /\ told[a.stem] = 0
  /\ told' = [told EXCEPT ![a.stem] = extraPct(a)]
  /\ UNCHANGED <<archives, healthy, answered>>

Next ==
  \/ \E stem \in Stems, layout \in Layouts, percent \in Percents :
       Create(stem, layout, percent)
  \/ \E stem \in Stems, percent \in Percents : CreateFails(stem, percent)
  \/ \E a \in archives, layout \in Layouts, percent \in Percents :
       AddParity(a, layout, percent)
  \/ \E a \in archives, percent \in Percents : AddParityFails(a, percent)
  \/ \E a \in archives : RepairFails(a)

Spec == Init /\ [][Next]_vars
-----------------------------------------------------------------------------
Primary(a) == FirstOf(a.name, Plus) = 0

\* "keep the primary and all supplements together" (README.md:205): repair given
\* an archive finds every supplement of its data in the directory, the chained
\* ones too, and no supplement of other data.
FindsItsSupplements ==
  \A a \in archives : FoundBeside(a) =
    {b \in archives : b.stem = a.stem /\ ~Primary(b) /\ b # a}

\* The number behind ".p" is the overhead of the whole chain the supplement was
\* made from (README.md:160).
NamesTellTheChain ==
  \A a \in archives : parseCumulativeBasePct(a.name) = a.total

\* "The original archive is never modified" (README.md:244): -a, whether it succeeds
\* or fails, leaves the archive it extends and every primary archive as they were,
\* although it replaces or removes what is there under the name it has made up.
OriginalsStay ==
  [][\A a \in archives, percent \in Percents :
       \/ \E layout \in Layouts : AddParity(a, layout, percent)
       \/ AddParityFails(a, percent)
       => {b \in archives : b = a \/ Primary(b)} \subseteq archives']_archives

\* "create a new supplement with the shortfall (or more) using -a, then re-run
\* repair with all archives present" (README.md:232): a user who adds as much as
\* the failed repair has asked for can repair.
ShortfallIsMet ==
  \A a \in archives : Primary(a) /\ a.stem \in answered => Sufficient(a)
=============================================================================
