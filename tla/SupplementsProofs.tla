-------------------------- MODULE SupplementsProofs --------------------------
(***************************************************************************)
(* What the names of archives tell, for every number of data sets, archives*)
(* and additions to them.                                                  *)
(***************************************************************************)
EXTENDS Supplements, SequenceTheorems, TLAPS

-----------------------------------------------------------------------------
(* The shapes of names                                                     *)

\* No name of a data set holds a piece that -c and -a append.
PlainStems ==
  \A stem \in Stems : \A i \in 1 .. Len(stem) : stem[i][1] \notin LikeP \cup Plus

\* No name of a data set begins with the name of another.
StemsApart == \A stem, other \in Stems : IsPrefix(stem, other) => stem = other

\* The name of a data set, and what it is of.
LEMMA StemPieces ==
  ASSUME NEW stem \in Stems
  PROVE  /\ stem \in Seq(Pieces) /\ Len(stem) \in Nat /\ Len(stem) # 0
         /\ \A i \in 1 .. Len(stem) : stem[i] \in Pieces
<1>1. stem \in Seq(Pieces) /\ stem # <<>>
  BY SupplementsAssumption
<1> HIDE DEF Pieces
<1> QED
  BY <1>1

\* The name begins with that of the data set, and an overhead.
Begins(name, stem, base) ==
  /\ name \in Seq(Pieces) /\ Len(name) > Len(stem)
  /\ \A i \in 1 .. Len(stem) : name[i] = stem[i]
  /\ name[Len(stem) + 1] = PieceP(base)

IsPrimaryName(name, stem, base) ==
  Begins(name, stem, base) /\ Len(name) = Len(stem) + 1

IsSupplementName(name, stem, base, percent) ==
  /\ Begins(name, stem, base) /\ Len(name) = Len(stem) + 2
  /\ name[Len(stem) + 2] = PiecePlus(percent)

IsName(name, stem, base) ==
  \/ IsPrimaryName(name, stem, base)
  \/ \E percent \in Nat : IsSupplementName(name, stem, base, percent)

\* -c makes names of the first shape, -a of the second.
LEMMA NamesMade ==
  ASSUME NEW stem \in Stems, NEW base \in Nat, NEW percent \in Nat
  PROVE  /\ IsPrimaryName(Append(stem, PieceP(base)), stem, base)
         /\ IsSupplementName(stem \o <<PieceP(base), PiecePlus(percent)>>,
                             stem, base, percent)
<1>1. /\ stem \in Seq(Pieces) /\ Len(stem) \in Nat
      /\ PieceP(base) \in Pieces /\ PiecePlus(percent) \in Pieces
  BY StemPieces DEF Pieces, PieceP, PiecePlus
<1> DEFINE tail == <<PieceP(base), PiecePlus(percent)>>
           p == PieceP(base)
           plus == PiecePlus(percent)
<1> HIDE DEF Pieces, p, plus
<1>2. IsPrimaryName(Append(stem, p), stem, base)
  <2>1. p \in Pieces /\ p = PieceP(base)
    BY <1>1 DEF p
  <2> QED
    BY <1>1, <2>1 DEF IsPrimaryName, Begins
<1>3. tail \in Seq(Pieces) /\ Len(tail) = 2 /\ tail[1] = p /\ tail[2] = plus
  BY <1>1 DEF p, plus
<1> HIDE DEF tail
<1>4. /\ stem \o tail \in Seq(Pieces) /\ Len(stem \o tail) = Len(stem) + Len(tail)
      /\ \A i \in 1 .. Len(stem) + Len(tail) :
           (stem \o tail)[i] = IF i <= Len(stem) THEN stem[i] ELSE tail[i - Len(stem)]
  <2>1. tail \in Seq(Pieces)
    BY <1>3
  <2> QED
    BY <1>1, <2>1, ConcatProperties, Zenon
<1>5. \A i \in 1 .. Len(stem) : (stem \o tail)[i] = stem[i]
  BY <1>1, <1>3, <1>4
<1>6. /\ (stem \o tail)[Len(stem) + 1] = tail[1]
      /\ (stem \o tail)[Len(stem) + 2] = tail[2]
  BY <1>1, <1>3, <1>4
<1>7. /\ (stem \o tail)[Len(stem) + 1] = p
      /\ (stem \o tail)[Len(stem) + 2] = plus
  BY <1>3, <1>6
<1>8. IsSupplementName(stem \o tail, stem, base, percent)
  BY <1>1, <1>3, <1>4, <1>5, <1>7 DEF IsSupplementName, Begins, p, plus
<1> QED
  BY <1>2, <1>8 DEF tail, p

\* Where the pieces of such a name are.
LEMMA NamePieces ==
  ASSUME PlainStems, NEW stem \in Stems, NEW base \in Nat, NEW name,
         IsName(name, stem, base)
  PROVE  /\ \A i \in 1 .. Len(stem) : name[i][1] \notin LikeP \cup Plus
         /\ name[Len(stem) + 1][1] = "p" /\ name[Len(stem) + 1][2] = base
         /\ Len(name) \in Nat /\ Len(name) \in {Len(stem) + 1, Len(stem) + 2}
         /\ Len(name) = Len(stem) + 2 => name[Len(stem) + 2][1] = "+"
<1>1. Len(stem) \in Nat
  BY StemPieces
<1>2. \A i \in 1 .. Len(stem) : name[i] = stem[i]
  BY DEF IsName, IsPrimaryName, IsSupplementName, Begins
<1>3. name[Len(stem) + 1] = <<"p", base>>
  BY DEF IsName, IsPrimaryName, IsSupplementName, Begins, PieceP
<1>4. \/ Len(name) = Len(stem) + 1
      \/ Len(name) = Len(stem) + 2 /\ \E q : name[Len(stem) + 2] = <<"+", q>>
  BY DEF IsName, IsPrimaryName, IsSupplementName, PiecePlus
<1> QED
  BY <1>1, <1>2, <1>3, <1>4 DEF PlainStems

-----------------------------------------------------------------------------
(* What the functions on names make of them                                *)

\* Where the pieces of some kinds are.
Places(name, kinds) == {i \in 1 .. Len(name) : name[i][1] \in kinds}

\* A piece that is there once is the first one and the last one.
LEMMA OnePlace ==
  ASSUME NEW name, NEW kinds, NEW k \in Int, Places(name, kinds) = {k}
  PROVE  FirstOf(name, kinds) = k /\ LastOf(name, kinds) = k
<1>1. Min({k}) = k /\ Max({k}) = k
  BY DEF Min, Max
<1>2. /\ FirstOf(name, kinds) =
           IF Places(name, kinds) # {} THEN Min(Places(name, kinds)) ELSE 0
      /\ LastOf(name, kinds) =
           IF Places(name, kinds) # {} THEN Max(Places(name, kinds)) ELSE 0
  BY DEF FirstOf, LastOf, SelectInSeq, SelectLastInSeq, Places
<1> QED
  BY <1>1, <1>2, Zenon

\* A piece that is not there is nowhere.
LEMMA NoPlace ==
  ASSUME NEW name, NEW kinds, Places(name, kinds) = {}
  PROVE  FirstOf(name, kinds) = 0 /\ LastOf(name, kinds) = 0
  BY DEF FirstOf, LastOf, SelectInSeq, SelectLastInSeq, Places

\* The beginning of a sequence up to the length of another that it begins with is
\* that other.
LEMMA BeginningIs ==
  ASSUME NEW name \in Seq(Pieces), NEW stem \in Seq(Pieces), Len(stem) <= Len(name),
         \A i \in 1 .. Len(stem) : name[i] = stem[i]
  PROVE  SubSeq(name, 1, Len(stem)) = stem
<1> DEFINE n == Len(stem)
           cut == SubSeq(name, 1, n)
<1> HIDE DEF Pieces
<1>1. n \in Nat /\ n <= Len(name) /\ Len(name) \in Nat
  OBVIOUS
<1>2. cut \in Seq(Pieces) /\ Len(cut) = n /\ \A i \in 1 .. n : cut[i] = name[i]
  <2> HIDE DEF n
  <2> QED
    BY <1>1
<1>3. \A i \in 1 .. Len(stem) : cut[i] = stem[i]
  BY <1>2
<1> HIDE DEF cut
<1> QED
  BY <1>2, <1>3 DEF cut

\* The first overhead is behind the name of the data set, and what is in front of
\* it is that name.
LEMMA NameOfStem ==
  ASSUME PlainStems, NEW stem \in Stems, NEW base \in Nat, NEW name,
         IsName(name, stem, base)
  PROVE  /\ FirstOf(name, LikeP) = Len(stem) + 1
         /\ BeforeFirst(name, LikeP) = stem /\ BeforeLast(name, LikeP) = stem
<1> DEFINE n == Len(stem)
           k == n + 1
<1>1. /\ \A i \in 1 .. n : name[i][1] \notin LikeP \cup Plus
      /\ name[n + 1][1] = "p" /\ Len(name) \in Nat /\ Len(name) \in {n + 1, n + 2}
      /\ Len(name) = n + 2 => name[n + 2][1] = "+"
  BY NamePieces
<1>2. /\ stem \in Seq(Pieces) /\ name \in Seq(Pieces) /\ n \in Nat /\ n # 0
      /\ \A i \in 1 .. n : name[i] = stem[i]
  BY StemPieces DEF IsName, IsPrimaryName, IsSupplementName, Begins
<1>3. k \in Int /\ k # 0 /\ k - 1 = n
  BY <1>2
<1>4. Places(name, LikeP) = {k}
  <2>1. ASSUME NEW i \in 1 .. Len(name) PROVE name[i][1] \in LikeP <=> i = k
    <3>1. i \in 1 .. n \/ i = n + 1 \/ (i = n + 2 /\ Len(name) = n + 2)
      BY <1>1, <1>2
    <3>2. i \in 1 .. n => name[i][1] \notin LikeP
      BY <1>1
    <3>3. i = n + 2 /\ Len(name) = n + 2 => name[i][1] \notin LikeP
      BY <1>1 DEF LikeP
    <3>4. i = n + 1 => name[i][1] \in LikeP
      BY <1>1 DEF LikeP
    <3> QED
      BY <1>2, <3>1, <3>2, <3>3, <3>4
  <2>2. k \in 1 .. Len(name)
    BY <1>1, <1>2
  <2> HIDE DEF k
  <2> QED
    BY <2>1, <2>2 DEF Places
<1> HIDE DEF k
<1>5. FirstOf(name, LikeP) = k /\ LastOf(name, LikeP) = k
  BY <1>3, <1>4, OnePlace
<1>6. SubSeq(name, 1, n) = stem
  BY <1>1, <1>2, BeginningIs
<1>7. /\ BeforeFirst(name, LikeP) = SubSeq(name, 1, k - 1)
      /\ BeforeLast(name, LikeP) = SubSeq(name, 1, k - 1)
  <2>1. ~(k <= 1)
    BY <1>2, <1>3
  <2> QED
    BY <1>3, <1>5, <2>1 DEF BeforeFirst, BeforeLast
<1> QED
  BY <1>3, <1>5, <1>6, <1>7 DEF k

-----------------------------------------------------------------------------
(* Sums over the places of a plus                                          *)

SumOf(name, S) == MapThenSumSet(LAMBDA j : name[j][2], S)

\* The sum over nothing, and over one place.
LEMMA SumsOfFew ==
  ASSUME NEW name, NEW k, name[k][2] \in Int
  PROVE  SumOf(name, {}) = 0 /\ SumOf(name, {k}) = name[k][2]
<1> DEFINE IsIter(iter, S) ==
             iter = [s \in SUBSET S |->
               IF s = {} THEN 0
               ELSE name[CHOOSE x \in s : TRUE][2] + iter[s \ {CHOOSE x \in s : TRUE}]]
           none == [s \in SUBSET {} |-> 0]
           one == [s \in SUBSET {k} |-> IF s = {} THEN 0 ELSE name[k][2]]
<1>1. \A S : SumOf(name, S) = (CHOOSE iter : IsIter(iter, S))[S]
  BY DEF SumOf, MapThenSumSet, MapThenFoldSet
<1>2. SUBSET {} = {{}} /\ SUBSET {k} = {{}, {k}} /\ {k} # {}
  OBVIOUS
<1>3. IsIter(none, {})
  BY <1>2
<1>4. IsIter(one, {k})
  <2>1. ASSUME NEW s \in SUBSET {k}
        PROVE  one[s] = IF s = {} THEN 0
                        ELSE name[CHOOSE x \in s : TRUE][2] + one[s \ {CHOOSE x \in s : TRUE}]
    <3>1. CASE s = {}
      BY <3>1
    <3>2. CASE s = {k}
      <4>1. (CHOOSE x \in {k} : TRUE) = k /\ {k} \ {k} = {} /\ {} \in SUBSET {k}
        OBVIOUS
      <4>2. one[{}] = 0 /\ one[{k}] = name[k][2]
        BY <1>2
      <4> HIDE DEF one
      <4> QED
        BY <3>2, <4>1, <4>2, <1>2
    <3> QED
      BY <1>2, <3>1, <3>2
  <2> QED
    BY <2>1
<1>5. \A iter : IsIter(iter, {}) => iter[{}] = 0
  BY <1>2
<1>6. \A iter : IsIter(iter, {k}) => iter[{k}] = name[k][2]
  <2> SUFFICES ASSUME NEW iter, IsIter(iter, {k}) PROVE iter[{k}] = name[k][2]
    OBVIOUS
  <2>1. (CHOOSE x \in {k} : TRUE) = k /\ {k} \ {k} = {}
    OBVIOUS
  <2>2. iter[{}] = 0
    BY <1>2
  <2>3. iter[{k}] = name[CHOOSE x \in {k} : TRUE][2] + iter[{k} \ {CHOOSE x \in {k} : TRUE}]
    BY <1>2
  <2> QED
    BY <2>1, <2>2, <2>3
<1> HIDE DEF IsIter, none, one
<1>7. IsIter(CHOOSE iter : IsIter(iter, {}), {})
  BY <1>3
<1>8. IsIter(CHOOSE iter : IsIter(iter, {k}), {k})
  BY <1>4
<1>9. SumOf(name, {}) = 0
  BY <1>1, <1>5, <1>7
<1>10. SumOf(name, {k}) = name[k][2]
  BY <1>1, <1>6, <1>8
<1> QED
  BY <1>9, <1>10

-----------------------------------------------------------------------------
(* What the names of archives tell                                         *)

\* A plus is at the end of the name of a supplement, and nowhere else.
LEMMA PlaceOfPlus ==
  ASSUME PlainStems, NEW stem \in Stems, NEW base \in Nat, NEW name,
         IsName(name, stem, base)
  PROVE  /\ Len(name) = Len(stem) + 1 => FirstOf(name, Plus) = 0
         /\ Len(name) = Len(stem) + 2 =>
              /\ Places(name, Plus) = {Len(stem) + 2}
              /\ FirstOf(name, Plus) = Len(stem) + 2
<1> DEFINE n == Len(stem)
           k == n + 2
<1>1. /\ \A i \in 1 .. n : name[i][1] \notin LikeP \cup Plus
      /\ name[n + 1][1] = "p" /\ Len(name) \in Nat
      /\ Len(name) = n + 2 => name[n + 2][1] = "+"
  BY NamePieces
<1>2. n \in Nat
  BY StemPieces
<1>3. k \in Int
  BY <1>2
<1>4. \A i \in 1 .. n + 1 : name[i][1] \notin Plus
  <2>1. "p" \notin Plus
    BY DEF Plus
  <2>2. \A i \in 1 .. n + 1 : i \in 1 .. n \/ i = n + 1
    BY <1>2
  <2> QED
    BY <1>1, <2>1, <2>2
<1>5. CASE Len(name) = n + 1
  <2>1. Places(name, Plus) = {}
    BY <1>4, <1>5 DEF Places
  <2>2. FirstOf(name, Plus) = 0
    BY <2>1, NoPlace
  <2>3. Len(name) # n + 2
    BY <1>2, <1>5
  <2> QED
    BY <2>2, <2>3
<1>6. CASE Len(name) = n + 2
  <2>1. \A i \in 1 .. Len(name) : i \in 1 .. n + 1 \/ i = k
    BY <1>2, <1>6
  <2>2. k \in 1 .. Len(name) /\ name[k][1] \in Plus
    BY <1>1, <1>2, <1>6 DEF Plus
  <2> HIDE DEF k
  <2>3. Places(name, Plus) = {k}
    <3>1. \A i \in 1 .. Len(name) : name[i][1] \in Plus => i = k
      BY <1>4, <2>1
    <3> QED
      BY <2>2, <3>1 DEF Places
  <2>4. FirstOf(name, Plus) = k
    BY <1>3, <2>3, OnePlace
  <2>5. Len(name) # n + 1
    BY <1>2, <1>6
  <2> QED
    BY <2>3, <2>4, <2>5 DEF k
<1> QED
  BY <1>5, <1>6

\* The base name of an archive is the name of the data set.
LEMMA BaseNameIs ==
  ASSUME PlainStems, NEW stem \in Stems, NEW base \in Nat, NEW name,
         IsName(name, stem, base)
  PROVE  BaseName(name) = stem
<1> DEFINE n == Len(stem)
           m == n + 1
           cut == BeforeFirst(name, Plus)
<1>1. /\ name \in Seq(Pieces) /\ n \in Nat /\ n # 0 /\ Len(name) \in {n + 1, n + 2}
      /\ \A i \in 1 .. n : name[i] = stem[i]
      /\ name[n + 1] = PieceP(base)
  BY StemPieces, NamePieces DEF IsName, IsPrimaryName, IsSupplementName, Begins
<1>2. IsPrimaryName(cut, stem, base)
  <2>1. CASE Len(name) = n + 1
    <3>1. cut = name
      BY <2>1, PlaceOfPlus DEF BeforeFirst
    <3> QED
      BY <1>1, <2>1, <3>1 DEF IsPrimaryName, Begins
  <2>2. CASE Len(name) = n + 2
    <3>1. FirstOf(name, Plus) = n + 2
      BY <2>2, PlaceOfPlus
    <3>2. n + 2 # 0 /\ n + 2 - 1 = m /\ m \in Nat /\ m <= Len(name) /\ n < m
          /\ 1 .. n \subseteq 1 .. m /\ m \in 1 .. m
      BY <1>1, <2>2
    <3>3. cut = SubSeq(name, 1, m)
      BY <3>1, <3>2 DEF BeforeFirst
    <3> HIDE DEF Pieces, m
    <3>4. /\ SubSeq(name, 1, m) \in Seq(Pieces) /\ Len(SubSeq(name, 1, m)) = m
          /\ \A i \in 1 .. m : SubSeq(name, 1, m)[i] = name[i]
      BY <1>1, <3>2
    <3> HIDE DEF cut
    <3>5. /\ cut \in Seq(Pieces) /\ Len(cut) = m
          /\ \A i \in 1 .. n : cut[i] = stem[i]
          /\ cut[m] = PieceP(base)
      <4>1. name[m] = PieceP(base)
        BY <1>1 DEF m
      <4> QED
        BY <1>1, <3>2, <3>3, <3>4, <4>1
    <3> QED
      BY <1>1, <3>2, <3>5 DEF IsPrimaryName, Begins, m
  <2> QED
    BY <1>1, <2>1, <2>2
<1> HIDE DEF cut
<1>3. IsName(cut, stem, base)
  BY <1>2 DEF IsName
<1>4. BeforeLast(cut, LikeP) = stem
  BY <1>3, NameOfStem
<1> QED
  BY <1>4 DEF BaseName, cut

\* The overheads in a name are added up.
LEMMA TotalIs ==
  ASSUME PlainStems, NEW stem \in Stems, NEW base \in Nat, NEW name
  PROVE  /\ IsPrimaryName(name, stem, base) => parseCumulativeBasePct(name) = base
         /\ \A percent \in Nat : IsSupplementName(name, stem, base, percent) =>
              parseCumulativeBasePct(name) = base + percent
<1> DEFINE n == Len(stem)
           i == n + 1
           k == n + 2
           added == {j \in DOMAIN name : j > FirstOf(name, LikeP) /\ name[j][1] = "+"}
<1>1. n \in Nat
  BY StemPieces
<1>2. ASSUME IsName(name, stem, base)
      PROVE  /\ parseCumulativeBasePct(name) = base + SumOf(name, added)
             /\ Len(name) = n + 1 => added = {}
             /\ Len(name) = n + 2 => added = {k}
  <2>1. /\ name[i][1] = "p" /\ name[i][2] = base
        /\ FirstOf(name, LikeP) = i
    BY <1>2, NamePieces, NameOfStem
  <2>2. name \in Seq(Pieces) /\ Len(name) \in Nat /\ DOMAIN name = 1 .. Len(name)
    BY <1>2, NamePieces DEF IsName, IsPrimaryName, IsSupplementName, Begins
  <2>3. parseCumulativeBasePct(name) = base + SumOf(name, added)
    <3>1. i # 0
      BY <1>1
    <3>2. parseCumulativeBasePct(name) =
            IF FirstOf(name, LikeP) = 0 \/ name[FirstOf(name, LikeP)][1] # "p" THEN 0
            ELSE name[FirstOf(name, LikeP)][2] + SumOf(name, added)
      BY DEF parseCumulativeBasePct, SumOf
    <3> HIDE DEF added, i
    <3> QED
      BY <2>1, <3>1, <3>2
  <2>4. Len(name) = n + 1 => added = {}
    BY <1>1, <2>1, <2>2
  <2>5. ASSUME Len(name) = n + 2 PROVE added = {k}
    <3>1. name[k][1] = "+"
      BY <1>2, <2>5, NamePieces
    <3>2. k \in DOMAIN name /\ k > i
      BY <1>1, <2>2, <2>5
    <3>3. \A j \in DOMAIN name : j > i => j = k
      BY <1>1, <2>2, <2>5
    <3> HIDE DEF k, i
    <3> QED
      BY <2>1, <3>1, <3>2, <3>3
  <2> QED
    BY <2>3, <2>4, <2>5
<1> HIDE DEF added
<1>3. ASSUME IsPrimaryName(name, stem, base) PROVE parseCumulativeBasePct(name) = base
  <2>1. IsName(name, stem, base) /\ Len(name) = n + 1
    BY <1>3 DEF IsName, IsPrimaryName
  <2>2. name[i][2] \in Int
    BY <2>1, NamePieces
  <2>3. SumOf(name, {}) = 0
    BY <2>2, SumsOfFew
  <2>4. parseCumulativeBasePct(name) = base + SumOf(name, {})
    BY <1>2, <2>1
  <2> QED
    BY <2>3, <2>4
<1>4. ASSUME NEW percent \in Nat, IsSupplementName(name, stem, base, percent)
      PROVE  parseCumulativeBasePct(name) = base + percent
  <2>1. IsName(name, stem, base) /\ Len(name) = n + 2 /\ name[k] = <<"+", percent>>
    BY <1>4 DEF IsName, IsSupplementName, PiecePlus
  <2>2. name[k][2] = percent
    BY <2>1
  <2> HIDE DEF k
  <2>3. SumOf(name, {k}) = percent
    BY <2>2, SumsOfFew
  <2>4. parseCumulativeBasePct(name) = base + SumOf(name, {k})
    BY <1>2, <2>1 DEF k
  <2> QED
    BY <2>3, <2>4
<1> QED
  BY <1>3, <1>4

\* What -a calls a supplement begins with the name of the data set.
LEMMA SupplementNameIs ==
  ASSUME PlainStems, NEW stem \in Stems, NEW base \in Nat, NEW name,
         IsName(name, stem, base), NEW percent \in Nat,
         parseCumulativeBasePct(name) \in Nat
  PROVE  IsSupplementName(SupplementName(name, percent), stem,
                          parseCumulativeBasePct(name), percent)
<1>1. BeforeFirst(name, LikeP) = stem
  BY NameOfStem
<1> QED
  BY <1>1, NamesMade DEF SupplementName

-----------------------------------------------------------------------------
(* The inductive invariant                                                 *)

\* An archive of -c has the overhead it was made with in its name, one of -a that of
\* the chain it was made from and its own.
NameInv ==
  \A a \in archives :
    /\ a.stem \in Stems
    /\ a.percent \in Percents /\ a.total \in Nat
    /\ \/ IsPrimaryName(a.name, a.stem, a.total)
       \/ /\ a.percent <= a.total
          /\ IsSupplementName(a.name, a.stem, a.total - a.percent, a.percent)

\* There is one file of a name.
UniqueInv == \A a, b \in archives : a.name = b.name => a = b

\* Overheads are not nothing.
LEMMA PercentsArePositive == \A percent \in Percents : percent \in Nat \ {0}
<1>1. Percents \subseteq 1 .. 99
  BY SupplementsAssumption
<1> QED
  BY <1>1

\* The name of an archive is one.
LEMMA ArchiveName ==
  ASSUME NameInv, NEW a \in archives
  PROVE  /\ a.stem \in Stems /\ a.percent \in Nat \ {0} /\ a.total \in Nat
         /\ \E base \in Nat : IsName(a.name, a.stem, base)
<1>1. /\ a.stem \in Stems /\ a.percent \in Percents /\ a.total \in Nat
      /\ \/ IsPrimaryName(a.name, a.stem, a.total)
         \/ /\ a.percent <= a.total
            /\ IsSupplementName(a.name, a.stem, a.total - a.percent, a.percent)
  BY DEF NameInv
<1>2. a.percent \in Nat \ {0}
  BY <1>1, PercentsArePositive
<1>3. CASE IsPrimaryName(a.name, a.stem, a.total)
  BY <1>1, <1>2, <1>3 DEF IsName
<1>4. CASE /\ a.percent <= a.total
           /\ IsSupplementName(a.name, a.stem, a.total - a.percent, a.percent)
  <2>1. a.total - a.percent \in Nat
    BY <1>1, <1>2, <1>4
  <2>2. IsName(a.name, a.stem, a.total - a.percent)
    BY <1>2, <1>4 DEF IsName
  <2> QED
    BY <1>1, <1>2, <2>1, <2>2, Zenon
<1> QED
  BY <1>1, <1>3, <1>4

\* The overhead in the name of an archive is that of its chain.
LEMMA NameTellsTotal ==
  ASSUME PlainStems, NameInv, NEW a \in archives
  PROVE  parseCumulativeBasePct(a.name) = a.total
<1> DEFINE base == a.total - a.percent
<1>1. a.stem \in Stems /\ a.percent \in Nat /\ a.total \in Nat
  BY ArchiveName
<1>2. \/ IsPrimaryName(a.name, a.stem, a.total)
      \/ a.percent <= a.total /\ IsSupplementName(a.name, a.stem, base, a.percent)
  BY DEF NameInv
<1>3. ASSUME IsPrimaryName(a.name, a.stem, a.total)
      PROVE  parseCumulativeBasePct(a.name) = a.total
  BY <1>1, <1>3, TotalIs
<1>4. ASSUME a.percent <= a.total, IsSupplementName(a.name, a.stem, base, a.percent)
      PROVE  parseCumulativeBasePct(a.name) = a.total
  <2>1. base \in Nat /\ base + a.percent = a.total
    BY <1>1, <1>4
  <2> HIDE DEF base
  <2> QED
    BY <1>1, <1>4, <2>1, TotalIs
<1> QED
  BY <1>2, <1>3, <1>4

\* What -a calls an addition to an archive.
LEMMA AdditionName ==
  ASSUME PlainStems, NameInv, NEW a \in archives, NEW percent \in Percents
  PROVE  IsSupplementName(SupplementName(a.name, percent), a.stem, a.total, percent)
<1>1. a.stem \in Stems /\ a.total \in Nat /\ percent \in Nat
  BY ArchiveName, PercentsArePositive
<1>2. PICK base \in Nat : IsName(a.name, a.stem, base)
  BY ArchiveName
<1>3. parseCumulativeBasePct(a.name) = a.total
  BY NameTellsTotal
<1> QED
  BY <1>1, <1>2, <1>3, SupplementNameIs, Zenon

\* What one archive more, or less, does to the invariant.
LEMMA PutKeeps ==
  ASSUME NameInv, UniqueInv, NEW a, Put(a),
         /\ a.stem \in Stems
         /\ a.percent \in Percents /\ a.total \in Nat
         /\ \/ IsPrimaryName(a.name, a.stem, a.total)
            \/ /\ a.percent <= a.total
               /\ IsSupplementName(a.name, a.stem, a.total - a.percent, a.percent)
  PROVE  NameInv' /\ UniqueInv'
<1>1. archives' = {b \in archives : b.name # a.name} \cup {a}
  BY DEF Put
<1>2. UniqueInv'
  BY <1>1 DEF UniqueInv
<1>3. NameInv'
  <2> SUFFICES ASSUME NEW b \in archives'
               PROVE  /\ b.stem \in Stems
                      /\ b.percent \in Percents /\ b.total \in Nat
                      /\ \/ IsPrimaryName(b.name, b.stem, b.total)
                         \/ /\ b.percent <= b.total
                            /\ IsSupplementName(b.name, b.stem, b.total - b.percent, b.percent)
    BY DEF NameInv
  <2>1. b \in archives \/ b = a
    BY <1>1
  <2> QED
    BY <2>1 DEF NameInv
<1> QED
  BY <1>2, <1>3

\* Every step keeps it.
LEMMA Step ==
  ASSUME PlainStems, NameInv, UniqueInv, [Next]_vars
  PROVE  NameInv' /\ UniqueInv'
<1>1. ASSUME archives' \subseteq archives PROVE NameInv' /\ UniqueInv'
  BY <1>1 DEF NameInv, UniqueInv
<1>2. CASE UNCHANGED vars \/ \E a \in archives : RepairFails(a)
  <2>1. archives' = archives
    BY <1>2 DEF vars, RepairFails
  <2> QED
    BY <1>1, <2>1
<1>3. ASSUME NEW stem \in Stems, NEW layout \in Layouts, NEW percent \in Percents,
             Create(stem, layout, percent)
      PROVE  NameInv' /\ UniqueInv'
  <2> DEFINE a == [name |-> Append(stem, PieceP(percent)), stem |-> stem,
                   layout |-> blocksPerStripe(layout), percent |-> percent,
                   total |-> percent]
  <2>1. Put(a)
    BY <1>3 DEF Create
  <2>2. percent \in Nat
    BY SupplementsAssumption
  <2>3. /\ a.name = Append(stem, PieceP(percent)) /\ a.stem = stem
        /\ a.percent = percent /\ a.total = percent
    OBVIOUS
  <2> HIDE DEF a
  <2>4. IsPrimaryName(Append(stem, PieceP(percent)), stem, percent)
    BY <2>2, NamesMade
  <2>5. IsPrimaryName(a.name, a.stem, a.total)
    BY <2>3, <2>4
  <2> QED
    BY <2>1, <2>2, <2>3, <2>5, PutKeeps
<1>4. ASSUME NEW a \in archives, NEW layout \in Layouts, NEW percent \in Percents,
             AddParity(a, layout, percent)
      PROVE  NameInv' /\ UniqueInv'
  <2> DEFINE b == [name |-> SupplementName(a.name, percent), stem |-> a.stem,
                   layout |-> blocksPerStripe(layout), percent |-> percent,
                   total |-> a.total + percent]
  <2>1. Put(b)
    BY <1>4 DEF AddParity
  <2>2. percent \in Nat /\ a.total \in Nat /\ a.stem \in Stems
    BY ArchiveName, PercentsArePositive
  <2>3. /\ b.name = SupplementName(a.name, percent) /\ b.stem = a.stem
        /\ b.percent = percent /\ b.total = a.total + percent
    OBVIOUS
  <2> HIDE DEF b
  <2>4. IsSupplementName(SupplementName(a.name, percent), a.stem, a.total, percent)
    BY AdditionName
  <2>5. /\ b.total \in Nat /\ b.percent <= b.total /\ b.total - b.percent = a.total
    BY <2>2, <2>3
  <2>6. IsSupplementName(b.name, b.stem, b.total - b.percent, b.percent)
    BY <2>3, <2>4, <2>5, Zenon
  <2> QED
    BY <2>1, <2>2, <2>3, <2>5, <2>6, PutKeeps
<1>5. CASE \/ \E stem \in Stems, percent \in Percents : CreateFails(stem, percent)
           \/ \E a \in archives, percent \in Percents : AddParityFails(a, percent)
  <2>1. archives' \subseteq archives
    BY <1>5 DEF CreateFails, AddParityFails, Lose
  <2> QED
    BY <1>1, <2>1
<1> QED
  BY <1>2, <1>3, <1>4, <1>5 DEF Next

\* The names of all archives of a directory are of the two shapes, and no two are
\* alike.
LEMMA NamesInvariance ==
  ASSUME PlainStems
  PROVE  Spec => [](NameInv /\ UniqueInv)
<1>1. Init => NameInv /\ UniqueInv
  BY DEF Init, NameInv, UniqueInv
<1>2. NameInv /\ UniqueInv /\ [Next]_vars => (NameInv /\ UniqueInv)'
  BY Step
<1> QED
  BY <1>1, <1>2, PTL DEF Spec

-----------------------------------------------------------------------------
(* Theorems                                                                *)

\* The number behind ".p" in the name of an addition is the overhead of everything it
\* was added to, however long the chain (create.cpp:1008-1036, 1140-1156).
THEOREM NamesTell ==
  ASSUME PlainStems
  PROVE  Spec => []NamesTellTheChain
<1>1. NameInv => NamesTellTheChain
  BY NameTellsTotal DEF NamesTellTheChain
<1> QED
  BY <1>1, NamesInvariance, PTL

\* Whether an archive is a supplement shows in its name.
LEMMA PrimaryIs ==
  ASSUME PlainStems, NameInv, NEW a \in archives
  PROVE  /\ Primary(a) \/ FirstOf(a.name, Plus) > 0
         /\ Primary(a) <=> Len(a.name) = Len(a.stem) + 1
<1>1. PICK base \in Nat : IsName(a.name, a.stem, base)
  BY ArchiveName
<1>2. /\ a.stem \in Stems /\ Len(a.stem) \in Nat
      /\ Len(a.name) \in {Len(a.stem) + 1, Len(a.stem) + 2}
  BY <1>1, ArchiveName, StemPieces, NamePieces
<1>3. /\ Len(a.name) = Len(a.stem) + 1 => FirstOf(a.name, Plus) = 0
      /\ Len(a.name) = Len(a.stem) + 2 => FirstOf(a.name, Plus) = Len(a.stem) + 2
  BY <1>1, <1>2, PlaceOfPlus
<1> QED
  BY <1>2, <1>3 DEF Primary

\* The name of an archive begins with the name of a data set only if that is its own.
LEMMA BeginsWithItsStem ==
  ASSUME PlainStems, StemsApart, NEW stem \in Stems, NEW other \in Stems,
         NEW base \in Nat, NEW name, IsName(name, other, base)
  PROVE  IsPrefix(stem, name) <=> stem = other
<1> DEFINE n == Len(stem)
           m == Len(other)
<1>1. /\ stem \in Seq(Pieces) /\ other \in Seq(Pieces) /\ name \in Seq(Pieces)
      /\ n \in Nat /\ m \in Nat /\ n # 0 /\ Len(name) \in Nat /\ m < Len(name)
      /\ \A i \in 1 .. m : name[i] = other[i]
      /\ name[m + 1][1] = "p"
  BY StemPieces, NamePieces DEF IsName, IsPrimaryName, IsSupplementName, Begins
<1>2. SubSeq(name, 1, m) = other /\ SubSeq(other, 1, m) = other
  BY <1>1, BeginningIs
<1>3. ASSUME stem = other PROVE IsPrefix(stem, name)
  BY <1>1, <1>2, <1>3 DEF IsPrefix
<1>4. ASSUME IsPrefix(stem, name) PROVE stem = other
  <2>1. n <= Len(name) /\ SubSeq(stem, 1, n) = SubSeq(name, 1, n)
    BY <1>4 DEF IsPrefix
  <2>2. ASSUME NEW i \in 1 .. n PROVE stem[i] = name[i]
    <3> HIDE DEF Pieces
    <3>1. SubSeq(stem, 1, n)[i] = stem[i] /\ SubSeq(name, 1, n)[i] = name[i]
      BY <1>1, <2>1
    <3> QED
      BY <2>1, <3>1
  <2>3. n <= m
    <3> SUFFICES ASSUME m < n PROVE FALSE
      BY <1>1
    <3>1. m + 1 \in 1 .. n
      BY <1>1
    <3>2. stem[m + 1][1] \in LikeP
      BY <1>1, <2>2, <3>1 DEF LikeP
    <3> QED
      BY <3>1, <3>2 DEF PlainStems
  <2>4. \A i \in 1 .. n : other[i] = stem[i]
    BY <1>1, <2>2, <2>3
  <2>5. SubSeq(other, 1, n) = stem /\ SubSeq(stem, 1, n) = stem
    BY <1>1, <2>3, <2>4, BeginningIs
  <2>6. IsPrefix(stem, other)
    BY <2>3, <2>5 DEF IsPrefix
  <2> QED
    BY <2>6 DEF StemsApart
<1> QED
  BY <1>3, <1>4

\* What is found beside an archive is what it should be.
LEMMA FoundIs ==
  ASSUME PlainStems, StemsApart, NameInv, UniqueInv, NEW a \in archives, NEW b \in archives
  PROVE  b \in FoundBeside(a) <=> b.stem = a.stem /\ ~Primary(b) /\ b # a
<1>1. PICK base \in Nat : IsName(a.name, a.stem, base)
  BY ArchiveName
<1>2. PICK basis \in Nat : IsName(b.name, b.stem, basis)
  BY ArchiveName
<1>3. a.stem \in Stems /\ b.stem \in Stems
  BY ArchiveName
<1>4. BaseName(a.name) = a.stem
  BY <1>1, <1>3, BaseNameIs
<1>5. IsPrefix(a.stem, b.name) <=> a.stem = b.stem
  BY <1>2, <1>3, BeginsWithItsStem
<1>6. FirstOf(b.name, Plus) > 0 <=> ~Primary(b)
  <2>1. Primary(b) \/ FirstOf(b.name, Plus) > 0
    BY PrimaryIs
  <2> QED
    BY <2>1 DEF Primary
<1>7. b.name # a.name <=> b # a
  BY DEF UniqueInv
<1>8. b \in FoundBeside(a) <=> /\ b.name # a.name /\ FirstOf(b.name, Plus) > 0
                              /\ IsPrefix(BaseName(a.name), b.name)
  BY DEF FoundBeside
<1>9. IsPrefix(BaseName(a.name), b.name) <=> a.stem = b.stem
  BY <1>4, <1>5, Zenon
<1> QED
  BY <1>6, <1>7, <1>8, <1>9, Zenon

\* Repair finds every supplement of its data that lies beside the archive it is given,
\* and no other (repair.cpp:326-362).
THEOREM FindsThem ==
  ASSUME PlainStems, StemsApart
  PROVE  Spec => []FindsItsSupplements
<1>1. NameInv /\ UniqueInv => FindsItsSupplements
  <2> SUFFICES ASSUME NameInv, UniqueInv, NEW a \in archives
               PROVE  FoundBeside(a) =
                        {b \in archives : b.stem = a.stem /\ ~Primary(b) /\ b # a}
    BY DEF FindsItsSupplements
  <2>1. FoundBeside(a) \subseteq archives
    BY DEF FoundBeside
  <2>2. \A b \in archives : b \in FoundBeside(a) <=>
          b.stem = a.stem /\ ~Primary(b) /\ b # a
    BY FoundIs
  <2> QED
    BY <2>1, <2>2
<1> QED
  BY <1>1, NamesInvariance, PTL

\* What -a makes is not called as the archive it is made from, nor as a primary one.
LEMMA AdditionIsNew ==
  ASSUME PlainStems, NameInv, NEW a \in archives, NEW percent \in Percents,
         NEW b \in archives, b = a \/ Primary(b)
  PROVE  b.name # SupplementName(a.name, percent)
<1> DEFINE name == SupplementName(a.name, percent)
<1>1. IsSupplementName(name, a.stem, a.total, percent)
  BY AdditionName
<1>2. a.stem \in Stems /\ Len(a.stem) \in Nat /\ a.total \in Nat
      /\ percent \in Nat \ {0}
  BY ArchiveName, StemPieces, PercentsArePositive
<1> HIDE DEF name
<1>3. IsName(name, a.stem, a.total) /\ Len(name) = Len(a.stem) + 2
  BY <1>1, <1>2 DEF IsName, IsSupplementName
<1>4. FirstOf(name, Plus) = Len(a.stem) + 2 /\ Len(a.stem) + 2 # 0
  BY <1>2, <1>3, PlaceOfPlus
<1>5. CASE Primary(b)
  BY <1>4, <1>5 DEF Primary, name
<1>6. CASE b = a
  <2>1. parseCumulativeBasePct(name) = a.total + percent
    BY <1>1, <1>2, TotalIs
  <2>2. parseCumulativeBasePct(a.name) = a.total
    BY NameTellsTotal
  <2>3. a.total + percent # a.total
    BY <1>2
  <2> QED
    BY <1>6, <2>1, <2>2, <2>3 DEF name
<1> QED
  BY <1>5, <1>6

\* No name of a supplement is that of a primary archive, nor that of the archive it is
\* made from: -a, whether it succeeds or fails, leaves those alone
\* (create.cpp:1140-1156, 1498-1503).
THEOREM OriginalsLast ==
  ASSUME PlainStems
  PROVE  Spec => OriginalsStay
<1>1. ASSUME NameInv, NEW a \in archives, NEW percent \in Percents,
             \/ \E layout \in Layouts : AddParity(a, layout, percent)
             \/ AddParityFails(a, percent)
      PROVE  {b \in archives : b = a \/ Primary(b)} \subseteq archives'
  <2>1. {b \in archives : b.name # SupplementName(a.name, percent)} \subseteq archives'
    BY <1>1 DEF AddParity, AddParityFails, Put, Lose
  <2> QED
    BY <1>1, <2>1, AdditionIsNew
<1>2. NameInv /\ [Next]_vars =>
        [\A a \in archives, percent \in Percents :
           \/ \E layout \in Layouts : AddParity(a, layout, percent)
           \/ AddParityFails(a, percent)
           => {b \in archives : b = a \/ Primary(b)} \subseteq archives']_archives
  BY <1>1
<1> QED
  BY <1>2, NamesInvariance, PTL DEF Spec, OriginalsStay
=============================================================================
