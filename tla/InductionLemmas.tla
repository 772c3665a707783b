--------------------------- MODULE InductionLemmas --------------------------
(* What the proofs need to know of numbers, sequences and sets of any size.  *)
(* The induction is over a set of numbers: the theorem WFMin of the library  *)
(* needs no operator for a parameter, unlike NatInduction.                   *)
EXTENDS SequencesExt, SequenceTheorems, FiniteSetTheorems, WellFoundedInduction, TLAPS

-----------------------------------------------------------------------------
(* Induction                                                               *)

\* The order of the numbers, as a relation.
LEMMA LessThan == \A x, y \in Nat : x < y => <<x, y>> \in OpToRel(<, Nat)
BY DEF OpToRel

\* A set of numbers that contains zero and the successors of its elements
\* contains them all.
LEMMA SetInduction ==
  ASSUME NEW S, 0 \in S, \A n \in Nat : n \in S => n + 1 \in S
  PROVE  \A n \in Nat : n \in S
<1> DEFINE T == Nat \ S
<1>1. SUFFICES ASSUME T # {} PROVE FALSE
  OBVIOUS
<1>2. PICK x \in T : \A y \in T : ~ (<<y, x>> \in OpToRel(<, Nat))
  <2> HIDE DEF T
  <2>1. T \subseteq Nat
    BY DEF T
  <2> QED
    BY <1>1, <2>1, NatLessThanWellFounded, WFMin
<1>3. \A y \in T : ~ (y < x)
  <2>1. x \in Nat /\ T \subseteq Nat
    OBVIOUS
  <2> HIDE DEF T
  <2> QED
    BY <1>2, <2>1, LessThan, Zenon
<1>4. x \in Nat /\ x \notin S /\ x # 0
  OBVIOUS
<1>5. x - 1 \in Nat /\ x - 1 < x
  BY <1>4
<1>6. x - 1 \in S
  BY <1>3, <1>5
<1> QED
  BY <1>4, <1>5, <1>6

-----------------------------------------------------------------------------
(* Sums                                                                    *)

\* s[h] is the sum of what comes before h.
IsSums(s, sizes, n) ==
  s = [h \in 1 .. n |-> IF h = 1 THEN 0 ELSE s[h - 1] + sizes[h - 1]]

\* There is such a function.
LEMMA SumsExist ==
  ASSUME NEW sizes, NEW n \in Nat
  PROVE  \E s : IsSums(s, sizes, n)
<1> DEFINE S == {m \in Nat : \E s : IsSums(s, sizes, m)}
<1>1. 0 \in S
  <2> DEFINE s == [h \in 1 .. 0 |-> 0]
  <2>1. IsSums(s, sizes, 0)
    BY DEF IsSums
  <2> HIDE DEF s
  <2> QED
    BY <2>1
<1>2. ASSUME NEW m \in Nat, m \in S PROVE m + 1 \in S
  <2>1. PICK s : IsSums(s, sizes, m)
    BY <1>2
  <2> DEFINE u == [h \in 1 .. m + 1 |-> IF h = 1 THEN 0 ELSE s[h - 1] + sizes[h - 1]]
  <2>2. \A h \in 1 .. m : u[h] = s[h]
    BY <2>1 DEF IsSums
  <2>3. \A h \in 1 .. m + 1 : u[h] = IF h = 1 THEN 0 ELSE u[h - 1] + sizes[h - 1]
    <3> SUFFICES ASSUME NEW h \in 1 .. m + 1
                 PROVE  u[h] = IF h = 1 THEN 0 ELSE u[h - 1] + sizes[h - 1]
      OBVIOUS
    <3>1. u[h] = IF h = 1 THEN 0 ELSE s[h - 1] + sizes[h - 1]
      OBVIOUS
    <3> HIDE DEF u
    <3>2. h # 1 => h - 1 \in 1 .. m
      OBVIOUS
    <3>3. h # 1 => u[h - 1] = s[h - 1]
      BY <2>2, <3>2
    <3> QED
      BY <3>1, <3>3
  <2>4. IsSums(u, sizes, m + 1)
    BY <2>3 DEF IsSums
  <2> HIDE DEF u
  <2> QED
    BY <2>4
<1> HIDE DEF S
<1>3. n \in S
  BY <1>1, <1>2, SetInduction
<1> QED
  BY <1>3 DEF S

-----------------------------------------------------------------------------
(* FlattenSeq                                                              *)

Join(x, y) == x \o y

\* f joins the first n sequences of s, from the left.
IsFlatten(f, s, n) ==
  f = [i \in 1 .. n |-> IF i = 1 THEN s[i] ELSE Join(f[i - 1], s[i])]

\* There is such a function, ...
LEMMA FlattenExists ==
  ASSUME NEW s, NEW n \in Nat
  PROVE  \E f : IsFlatten(f, s, n)
<1> DEFINE S == {m \in Nat : \E f : IsFlatten(f, s, m)}
<1>1. 0 \in S
  <2> DEFINE f == [i \in 1 .. 0 |-> 0]
  <2>1. IsFlatten(f, s, 0)
    BY DEF IsFlatten
  <2> HIDE DEF f
  <2> QED
    BY <2>1
<1>2. ASSUME NEW m \in Nat, m \in S PROVE m + 1 \in S
  <2>1. PICK f : IsFlatten(f, s, m)
    BY <1>2
  <2> DEFINE g == [i \in 1 .. m + 1 |-> IF i = 1 THEN s[i] ELSE Join(f[i - 1], s[i])]
  <2>2. \A i \in 1 .. m : g[i] = f[i]
    BY <2>1 DEF IsFlatten
  <2>3. \A i \in 1 .. m + 1 : g[i] = IF i = 1 THEN s[i] ELSE Join(g[i - 1], s[i])
    <3> SUFFICES ASSUME NEW i \in 1 .. m + 1
                 PROVE  g[i] = IF i = 1 THEN s[i] ELSE Join(g[i - 1], s[i])
      OBVIOUS
    <3>1. i # 1 => g[i - 1] = f[i - 1]
      <4> HIDE DEF g
      <4>1. i # 1 => i - 1 \in 1 .. m
        OBVIOUS
      <4> QED
        BY <2>2, <4>1
    <3> QED
      BY <3>1
  <2>4. IsFlatten(g, s, m + 1)
    BY <2>3 DEF IsFlatten
  <2> HIDE DEF g
  <2> QED
    BY <2>4
<1> HIDE DEF S
<1>3. n \in S
  BY <1>1, <1>2, SetInduction
<1> QED
  BY <1>3 DEF S

\* ... and two of them agree where both are defined.
LEMMA FlattenUnique ==
  ASSUME NEW s, NEW t, NEW m \in Nat, NEW n \in Nat, NEW f, NEW g,
         IsFlatten(f, s, m), IsFlatten(g, t, n), m <= n,
         \A i \in 1 .. m : s[i] = t[i]
  PROVE  \A i \in 1 .. m : f[i] = g[i]
<1> DEFINE S == {i \in Nat : i \in 1 .. m => f[i] = g[i]}
<1>1. 0 \in S
  OBVIOUS
<1>2. ASSUME NEW i \in Nat, i \in S PROVE i + 1 \in S
  <2> SUFFICES ASSUME i + 1 \in 1 .. m PROVE f[i + 1] = g[i + 1]
    OBVIOUS
  <2>1. /\ f[i + 1] = IF i + 1 = 1 THEN s[i + 1] ELSE Join(f[i], s[i + 1])
        /\ g[i + 1] = IF i + 1 = 1 THEN t[i + 1] ELSE Join(g[i], t[i + 1])
    BY DEF IsFlatten
  <2>2. i + 1 # 1 => f[i] = g[i]
    BY <1>2
  <2> QED
    BY <2>1, <2>2
<1> HIDE DEF S
<1>3. \A i \in Nat : i \in S
  BY <1>1, <1>2, SetInduction
<1> QED
  BY <1>3 DEF S

\* The definition of FlattenSeq chooses such a function.
LEMMA FlattenDef ==
  ASSUME NEW s, Len(s) \in Nat \ {0}
  PROVE  \E f : IsFlatten(f, s, Len(s)) /\ FlattenSeq(s) = f[Len(s)]
<1> DEFINE f == CHOOSE g : IsFlatten(g, s, Len(s))
<1>1. IsFlatten(f, s, Len(s))
  BY FlattenExists
<1>2. FlattenSeq(s) = f[Len(s)]
  BY DEF FlattenSeq, IsFlatten, Join
<1> HIDE DEF f
<1> QED
  BY <1>1, <1>2

\* Nothing is joined to nothing, ...
LEMMA FlattenEmpty == FlattenSeq(<<>>) = <<>>
BY DEF FlattenSeq

\* ... and one sequence to itself.
LEMMA FlattenOne ==
  ASSUME NEW X, NEW x \in Seq(X)
  PROVE  FlattenSeq(<<x>>) = x
<1> DEFINE t == <<x>>
<1>1. Len(t) = 1 /\ t[1] = x
  OBVIOUS
<1> HIDE DEF t
<1>2. PICK f : IsFlatten(f, t, Len(t)) /\ FlattenSeq(t) = f[Len(t)]
  <2>1. Len(t) \in Nat \ {0}
    BY <1>1
  <2> QED
    BY <2>1, FlattenDef, Zenon
<1>3. f[1] = t[1]
  BY <1>1, <1>2 DEF IsFlatten
<1> QED
  BY <1>1, <1>2, <1>3 DEF t

\* A longer sequence joins the beginning alike.
LEMMA FlattenPrefix ==
  ASSUME NEW s, NEW t, NEW n \in Nat, NEW f, NEW g,
         IsFlatten(f, s, n), IsFlatten(g, t, n + 1), \A i \in 1 .. n : s[i] = t[i]
  PROVE  \A i \in 1 .. n : f[i] = g[i]
<1>1. n + 1 \in Nat /\ n <= n + 1
  OBVIOUS
<1> QED
  BY <1>1, FlattenUnique

\* A sequence at the end is joined last.
LEMMA FlattenLast ==
  ASSUME NEW s, NEW t, NEW n \in Nat,
         Len(s) = n, Len(t) = n + 1, \A i \in 1 .. n : s[i] = t[i]
  PROVE  FlattenSeq(t) = IF n = 0 THEN t[1] ELSE Join(FlattenSeq(s), t[n + 1])
<1>1. PICK g : IsFlatten(g, t, n + 1) /\ FlattenSeq(t) = g[n + 1]
  BY FlattenDef
<1>2. g[n + 1] = IF n + 1 = 1 THEN t[1] ELSE Join(g[n], t[n + 1])
  BY <1>1 DEF IsFlatten
<1>3. CASE n = 0
  BY <1>1, <1>2, <1>3
<1>4. CASE n # 0
  <2>1. PICK f : IsFlatten(f, s, n) /\ FlattenSeq(s) = f[n]
    BY <1>4, FlattenDef
  <2>2. IsFlatten(f, s, n) /\ IsFlatten(g, t, n + 1)
    BY <1>1, <2>1
  <2>3. \A i \in 1 .. n : f[i] = g[i]
    BY <2>2, FlattenPrefix, SMTT(60)
  <2>4. f[n] = g[n]
    BY <1>4, <2>3
  <2> QED
    BY <1>1, <1>2, <1>4, <2>1, <2>4
<1> QED
  BY <1>3, <1>4

\* A sequence appended is joined at the end.
LEMMA FlattenAppend ==
  ASSUME NEW X, NEW s \in Seq(Seq(X)), NEW x \in Seq(X)
  PROVE  FlattenSeq(Append(s, x)) = FlattenSeq(s) \o x
<1> DEFINE t == Append(s, x)
           n == Len(s)
<1>1. n \in Nat /\ Len(t) = n + 1 /\ t[n + 1] = x /\ \A i \in 1 .. n : s[i] = t[i]
  OBVIOUS
<1>2. n = 0 => s = <<>> /\ <<>> \o x = x
  OBVIOUS
<1> HIDE DEF t
<1>3. FlattenSeq(t) = IF n = 0 THEN t[1] ELSE Join(FlattenSeq(s), t[n + 1])
  BY <1>1, FlattenLast
<1> HIDE DEF n
<1> QED
  BY <1>1, <1>2, <1>3, FlattenEmpty DEF t, Join

\* The elements of the joined sequence are those of its parts.
LEMMA FlattenType ==
  ASSUME NEW X, NEW s \in Seq(Seq(X))
  PROVE  FlattenSeq(s) \in Seq(X)
<1> DEFINE S == {n \in Nat : \A u \in Seq(Seq(X)) : Len(u) = n => FlattenSeq(u) \in Seq(X)}
<1>1. 0 \in S
  <2> SUFFICES ASSUME NEW u \in Seq(Seq(X)), Len(u) = 0 PROVE FlattenSeq(u) \in Seq(X)
    OBVIOUS
  <2>1. u = <<>>
    OBVIOUS
  <2> QED
    BY <2>1, FlattenEmpty, EmptySeq
<1>2. ASSUME NEW n \in Nat, n \in S PROVE n + 1 \in S
  <2> SUFFICES ASSUME NEW u \in Seq(Seq(X)), Len(u) = n + 1 PROVE FlattenSeq(u) \in Seq(X)
    OBVIOUS
  <2> DEFINE v == SubSeq(u, 1, n)
  <2>1. v \in Seq(Seq(X)) /\ Len(v) = n /\ u[n + 1] \in Seq(X) /\ u = Append(v, u[n + 1])
    OBVIOUS
  <2>2. FlattenSeq(v) \in Seq(X)
    BY <1>2, <2>1
  <2> HIDE DEF v
  <2>3. FlattenSeq(u) = FlattenSeq(v) \o u[n + 1]
    BY <2>1, FlattenAppend
  <2> QED
    BY <2>1, <2>2, <2>3
<1> HIDE DEF S
<1>3. \A n \in Nat : n \in S
  BY <1>1, <1>2, SetInduction
<1> QED
  BY <1>3 DEF S

\* One sequence more makes no difference to joining in two parts.
LEMMA ConcatOneMore ==
  ASSUME NEW X, NEW s \in Seq(Seq(X)), NEW v \in Seq(Seq(X)), NEW x \in Seq(X),
         FlattenSeq(s \o v) = FlattenSeq(s) \o FlattenSeq(v)
  PROVE  FlattenSeq(s \o Append(v, x)) = FlattenSeq(s) \o FlattenSeq(Append(v, x))
<1> DEFINE a == FlattenSeq(s)
           b == FlattenSeq(v)
<1>1. a \in Seq(X) /\ b \in Seq(X)
  BY FlattenType
<1>2. s \o Append(v, x) = Append(s \o v, x) /\ s \o v \in Seq(Seq(X))
  OBVIOUS
<1>3. FlattenSeq(Append(s \o v, x)) = FlattenSeq(s \o v) \o x
  BY <1>2, FlattenAppend
<1>4. FlattenSeq(Append(v, x)) = b \o x
  BY FlattenAppend
<1> HIDE DEF a, b
<1>5. (a \o b) \o x = a \o (b \o x)
  BY <1>1, ConcatAssociative, SMTT(60)
<1> QED
  BY <1>2, <1>3, <1>4, <1>5 DEF a, b

\* Joining in two parts makes no difference.
LEMMA FlattenConcat ==
  ASSUME NEW X, NEW s \in Seq(Seq(X)), NEW t \in Seq(Seq(X))
  PROVE  FlattenSeq(s \o t) = FlattenSeq(s) \o FlattenSeq(t)
<1> DEFINE S == {n \in Nat : \A u \in Seq(Seq(X)) :
                   Len(u) = n => FlattenSeq(s \o u) = FlattenSeq(s) \o FlattenSeq(u)}
<1>1. 0 \in S
  <2> SUFFICES ASSUME NEW u \in Seq(Seq(X)), Len(u) = 0
               PROVE  FlattenSeq(s \o u) = FlattenSeq(s) \o FlattenSeq(u)
    OBVIOUS
  <2>1. u = <<>> /\ s \o u = s
    OBVIOUS
  <2>2. FlattenSeq(s) \in Seq(X)
    BY FlattenType
  <2> QED
    BY <2>1, <2>2, FlattenEmpty, ConcatEmptySeq
<1>2. ASSUME NEW n \in Nat, n \in S PROVE n + 1 \in S
  <2> SUFFICES ASSUME NEW u \in Seq(Seq(X)), Len(u) = n + 1
               PROVE  FlattenSeq(s \o u) = FlattenSeq(s) \o FlattenSeq(u)
    OBVIOUS
  <2> DEFINE v == SubSeq(u, 1, n)
             x == u[n + 1]
  <2>1. v \in Seq(Seq(X)) /\ Len(v) = n /\ x \in Seq(X) /\ u = Append(v, x)
    OBVIOUS
  <2>2. FlattenSeq(s \o v) = FlattenSeq(s) \o FlattenSeq(v)
    BY <1>2, <2>1
  <2> HIDE DEF v, x
  <2> QED
    BY <2>1, <2>2, ConcatOneMore
<1> HIDE DEF S
<1>3. \A n \in Nat : n \in S
  BY <1>1, <1>2, SetInduction
<1> QED
  BY <1>3 DEF S

\* Two sequences joined.
LEMMA ConcatPlaces ==
  ASSUME NEW X, NEW a \in Seq(X), NEW b \in Seq(X), NEW w, w = a \o b
  PROVE  /\ w \in Seq(X) /\ Len(w) = Len(a) + Len(b) /\ Len(a) \in Nat /\ Len(b) \in Nat
         /\ DOMAIN w = 1 .. Len(a) + Len(b)
         /\ \A i \in 1 .. Len(a) : w[i] = a[i]
         /\ \A i \in 1 .. Len(b) : w[Len(a) + i] = b[i]
<1>1. Len(a) \in Nat /\ Len(b) \in Nat
  OBVIOUS
<1>2. w \in Seq(X) /\ Len(w) = Len(a) + Len(b)
  BY ConcatProperties
<1>3. \A i \in 1 .. Len(a) + Len(b) : w[i] = IF i <= Len(a) THEN a[i] ELSE b[i - Len(a)]
  BY ConcatProperties
<1>4. \A i \in 1 .. Len(b) : w[Len(a) + i] = b[i]
  <2> TAKE i \in 1 .. Len(b)
  <2> DEFINE m == Len(a) + i
  <2>1. m \in 1 .. Len(a) + Len(b) /\ ~(m <= Len(a)) /\ m - Len(a) = i
    BY <1>1
  <2> HIDE DEF m
  <2>2. w[m] = b[i]
    BY <1>3, <2>1
  <2> QED
    BY <2>2 DEF m
<1>5. \A i \in 1 .. Len(a) : w[i] = a[i]
  BY <1>1, <1>3
<1> QED
  BY <1>1, <1>2, <1>4, <1>5

\* Where the parts of a joined sequence are: place[k] is the sum of the lengths of
\* the first k.
LEMMA FlattenPlaces ==
  ASSUME NEW X, NEW s \in Seq(Seq(X)), NEW place \in [0 .. Len(s) -> Nat], place[0] = 0,
         \A k \in 1 .. Len(s) : place[k] = place[k - 1] + Len(s[k])
  PROVE  /\ FlattenSeq(s) \in Seq(X) /\ Len(FlattenSeq(s)) = place[Len(s)]
         /\ \A k \in 1 .. Len(s) : \A j \in 1 .. Len(s[k]) :
              FlattenSeq(s)[place[k - 1] + j] = s[k][j]
<1> DEFINE FirstOf(m) == [i \in 1 .. m |-> s[i]]
           Placed(g, m) == /\ g \in Seq(X) /\ Len(g) = place[m]
                           /\ \A k \in 1 .. m : /\ place[k] <= place[m]
                                                /\ \A j \in 1 .. Len(s[k]) :
                                                     g[place[k - 1] + j] = s[k][j]
           S == {m \in Nat : m <= Len(s) => Placed(FlattenSeq(FirstOf(m)), m)}
<1> HIDE DEF Placed, FirstOf
<1>1. 0 \in S
  <2>1. FirstOf(0) = <<>> /\ <<>> \in Seq(X) /\ Len(<<>>) = 0
    BY DEF FirstOf
  <2>2. FlattenSeq(FirstOf(0)) = <<>>
    BY <2>1, FlattenEmpty
  <2>3. Placed(<<>>, 0)
    BY <2>1 DEF Placed
  <2> QED
    BY <2>2, <2>3
<1>2. ASSUME NEW m \in Nat, m \in S PROVE m + 1 \in S
  <2> SUFFICES ASSUME m + 1 <= Len(s) PROVE Placed(FlattenSeq(FirstOf(m + 1)), m + 1)
    OBVIOUS
  <2>1. PICK g : g = FlattenSeq(FirstOf(m))
    OBVIOUS
  <2>2. PICK x : x = s[m + 1]
    OBVIOUS
  <2>3. PICK h : h = FlattenSeq(FirstOf(m + 1))
    OBVIOUS
  <2>4. /\ g \in Seq(X) /\ Len(g) = place[m] /\ x \in Seq(X) /\ Len(x) \in Nat
        /\ \A k \in 1 .. m : /\ place[k] <= place[m]
                             /\ \A j \in 1 .. Len(s[k]) : g[place[k - 1] + j] = s[k][j]
    <3>1. Placed(g, m) /\ m + 1 \in 1 .. Len(s) /\ x \in Seq(X)
      BY <1>2, <2>1, <2>2
    <3>2. Len(x) \in Nat
      BY <3>1
    <3> QED
      BY <3>1, <3>2, Zenon DEF Placed
  <2>5. h = g \o x
    <3>1. FirstOf(m) \in Seq(Seq(X)) /\ FirstOf(m + 1) = Append(FirstOf(m), x)
      BY <2>2 DEF FirstOf
    <3> QED
      BY <2>1, <2>3, <2>4, <3>1, FlattenAppend
  <2>6. /\ h \in Seq(X) /\ Len(h) = Len(g) + Len(x) /\ Len(g) \in Nat
        /\ \A i \in 1 .. Len(g) : h[i] = g[i]
        /\ \A i \in 1 .. Len(x) : h[Len(g) + i] = x[i]
    <3>1. g \in Seq(X) /\ x \in Seq(X) /\ h = g \o x
      BY <2>4, <2>5
    <3> QED
      BY <3>1, ConcatPlaces
  <2>7. place[m] \in Nat /\ Len(g) = place[m] /\ place[m + 1] = place[m] + Len(x)
    <3>1. m \in 0 .. Len(s) /\ (m + 1) - 1 = m
      BY <2>4
    <3> QED
      BY <2>2, <2>4, <3>1
  <2>8. ASSUME NEW k \in 1 .. m + 1
        PROVE  /\ place[k] <= place[m + 1]
               /\ \A j \in 1 .. Len(s[k]) : h[place[k - 1] + j] = s[k][j]
    <3>1. CASE k = m + 1
      <4>1. k - 1 = m /\ s[k] = x
        BY <2>2, <3>1
      <4> QED
        BY <2>6, <2>7, <3>1, <4>1
    <3>2. CASE k # m + 1
      <4>1. /\ k \in 1 .. m /\ k \in 0 .. Len(s) /\ k - 1 \in 0 .. Len(s) /\ k \in 1 .. Len(s)
            /\ place[k] \in Nat /\ place[k - 1] \in Nat
        <5>1. k \in 1 .. m /\ k \in 0 .. Len(s) /\ k - 1 \in 0 .. Len(s) /\ k \in 1 .. Len(s)
          BY <3>2
        <5> QED
          BY <5>1
      <4>2. /\ place[k] <= place[m] /\ place[k] = place[k - 1] + Len(s[k])
            /\ \A j \in 1 .. Len(s[k]) : g[place[k - 1] + j] = s[k][j]
        BY <2>4, <4>1
      <4>3. Len(s[k]) \in Nat
        BY <4>1
      <4>4. ASSUME NEW j \in 1 .. Len(s[k]) PROVE h[place[k - 1] + j] = s[k][j]
        <5>1. PICK i : i = place[k - 1] + j
          OBVIOUS
        <5>2. g[i] = s[k][j]
          BY <4>2, <5>1, Zenon
        <5>3. PICK l \in Nat, a \in Nat, b \in Nat, c \in Nat :
                l = Len(s[k]) /\ a = place[k - 1] /\ b = place[k] /\ c = place[m]
          BY <2>7, <4>1, <4>3
        <5>4. j \in 1 .. l /\ b = a + l /\ b <= c /\ i = a + j /\ Len(g) = c
          BY <2>7, <4>2, <5>1, <5>3
        <5>5. i \in 1 .. Len(g)
          BY <5>4
        <5> QED
          BY <2>6, <5>1, <5>2, <5>5
      <4> QED
        BY SMTT(20), <2>4, <2>7, <4>1, <4>2, <4>4
    <3> QED
      BY <3>1, <3>2
  <2> QED
    BY <2>3, <2>6, <2>7, <2>8 DEF Placed
<1>3. FirstOf(Len(s)) = s /\ Len(s) \in Nat
  BY DEF FirstOf
<1> HIDE DEF S
<1>4. Len(s) \in S
  BY <1>1, <1>2, <1>3, SetInduction
<1> QED
  BY <1>3, <1>4 DEF S, Placed

-----------------------------------------------------------------------------
(* Queues                                                                    *)

\* Moving the head of one sequence to the end of another keeps both together.
LEMMA StreamMoves ==
  ASSUME NEW X, NEW a \in Seq(X), NEW b \in Seq(X), b # <<>>
  PROVE  /\ Append(a, Head(b)) \in Seq(X) /\ Tail(b) \in Seq(X)
         /\ Append(a, Head(b)) \o Tail(b) = a \o b
<1> DEFINE h == <<Head(b)>>
           d == Tail(b)
           y == h \o d
<1>1. /\ Head(b) \in X /\ Head(b) = b[1]
      /\ d \in Seq(X) /\ Len(d) = Len(b) - 1 /\ \A i \in 1 .. Len(d) : d[i] = b[i + 1]
      /\ Len(b) \in Nat \ {0}
  BY HeadTailProperties, EmptySeq
<1>2. h \in Seq(X) /\ Len(h) = 1 /\ h[1] = b[1]
  BY <1>1
<1>3. Append(a, Head(b)) = a \o h /\ Append(a, Head(b)) \in Seq(X)
  BY <1>1, AppendIsConcat
<1> HIDE DEF h, d
<1>4. /\ y \in Seq(X) /\ Len(y) = Len(b)
      /\ \A i \in 1 .. Len(b) : y[i] = IF i <= 1 THEN h[i] ELSE d[i - 1]
  <2>1. h \in Seq(X) /\ d \in Seq(X)
    BY <1>1, <1>2
  <2>2. /\ y \in Seq(X) /\ Len(y) = Len(h) + Len(d)
        /\ \A i \in 1 .. Len(h) + Len(d) : y[i] = IF i <= Len(h) THEN h[i] ELSE d[i - Len(h)]
    BY <2>1, ConcatProperties, Zenon
  <2>3. Len(h) + Len(d) = Len(b)
    BY <1>1, <1>2
  <2> QED
    BY <1>2, <2>2, <2>3
<1> HIDE DEF y
<1>5. \A i \in 1 .. Len(b) : y[i] = b[i]
  BY <1>1, <1>2, <1>4
<1>6. y = b
  BY <1>4, <1>5, SeqEqual
<1>7. (a \o h) \o d = a \o (h \o d)
  <2>1. h \in Seq(X) /\ d \in Seq(X)
    BY <1>1, <1>2
  <2> QED
    BY <2>1, ConcatAssociative
<1> QED
  BY <1>1, <1>3, <1>6, <1>7 DEF d, y

-----------------------------------------------------------------------------
(* Quotients                                                               *)

\* A factor keeps the order.
LEMMA Times ==
  ASSUME NEW a \in Int, NEW b \in Int, NEW c \in Nat, a <= b
  PROVE  a * c <= b * c
OBVIOUS

\* Quotient and remainder.
LEMMA Quotient ==
  ASSUME NEW a \in Nat, NEW b \in Nat \ {0}
  PROVE  \E q \in Nat : \E r \in 0 .. b - 1 :
           a \div b = q /\ a % b = r /\ a = q * b + r
<1> DEFINE q == a \div b
           r == a % b
<1>1. q \in Int /\ r \in 0 .. b - 1 /\ a = b * q + r
  OBVIOUS
<1>2. q >= 0
  OBVIOUS
<1>3. a \div b = q /\ a % b = r
  OBVIOUS
<1> HIDE DEF q, r
<1>4. q \in Nat /\ a = q * b + r
  BY <1>1, <1>2
<1> QED
  BY <1>1, <1>3, <1>4

\* They are the only ones.
LEMMA DivisionUnique ==
  ASSUME NEW a \in Nat, NEW b \in Nat \ {0}, NEW q \in Int, NEW r \in 0 .. b - 1,
         a = q * b + r
  PROVE  a \div b = q /\ a % b = r
<1>1. PICK p \in Nat, s \in 0 .. b - 1 : a \div b = p /\ a % b = s /\ a = p * b + s
  BY Quotient
<1>2. ~(p + 1 <= q)
  <2> SUFFICES ASSUME p + 1 <= q PROVE FALSE
    OBVIOUS
  <2>1. (p + 1) * b <= q * b
    BY <1>1, Times
  <2>2. (p + 1) * b = p * b + b
    BY <1>1
  <2> DEFINE x == p * b
             y == q * b
             z == (p + 1) * b
  <2>3. x \in Int /\ y \in Int /\ z \in Int /\ z <= y /\ z = x + b /\ a = x + s /\ a = y + r
    BY <1>1, <2>1, <2>2
  <2> HIDE DEF x, y, z
  <2> QED
    BY <1>1, <2>3
<1>3. ~(q + 1 <= p)
  <2> SUFFICES ASSUME q + 1 <= p PROVE FALSE
    OBVIOUS
  <2>1. (q + 1) * b <= p * b
    BY <1>1, Times
  <2>2. (q + 1) * b = q * b + b
    BY <1>1
  <2> DEFINE x == p * b
             y == q * b
             z == (q + 1) * b
  <2>3. x \in Int /\ y \in Int /\ z \in Int /\ z <= x /\ z = y + b /\ a = x + s /\ a = y + r
    BY <1>1, <2>1, <2>2
  <2> HIDE DEF x, y, z
  <2> QED
    BY <1>1, <2>3
<1>4. p = q
  BY <1>1, <1>2, <1>3
<1>5. s = r
  BY <1>1, <1>4
<1> QED
  BY <1>1, <1>4, <1>5

\* One divisor more gives one more, and the same rest.
LEMMA DivisionStep ==
  ASSUME NEW a \in Nat, NEW b \in Nat \ {0}
  PROVE  (a + b) \div b = a \div b + 1 /\ (a + b) % b = a % b
<1>1. PICK q \in Nat, r \in 0 .. b - 1 : a \div b = q /\ a % b = r /\ a = q * b + r
  BY Quotient
<1>2. a + b = (q + 1) * b + r /\ a + b \in Nat /\ q + 1 \in Int
  BY <1>1
<1>3. (a + b) \div b = q + 1 /\ (a + b) % b = r
  BY <1>1, <1>2, DivisionUnique
<1> QED
  BY <1>1, <1>3

\* Numbers of the same rest are a divisor apart at least.
LEMMA SameRest ==
  ASSUME NEW a \in Nat, NEW c \in Nat, NEW b \in Nat \ {0}, a < c, a % b = c % b
  PROVE  a + b <= c
<1>1. PICK p \in Nat, r \in 0 .. b - 1 : a % b = r /\ a = p * b + r
  BY Quotient
<1>2. PICK q \in Nat, s \in 0 .. b - 1 : c % b = s /\ c = q * b + s
  BY Quotient
<1>3. s = r
  BY <1>1, <1>2
<1>4. p < q
  <2> SUFFICES ASSUME q <= p PROVE FALSE
    BY <1>1, <1>2, <1>3
  <2>1. q * b <= p * b
    BY <1>1, Times
  <2> DEFINE x == p * b
             y == q * b
  <2>2. x \in Int /\ y \in Int /\ y <= x /\ a = x + r /\ c = y + r
    BY <1>1, <1>2, <1>3, <2>1
  <2> HIDE DEF x, y
  <2> QED
    BY <1>1, <2>2
<1>5. (p + 1) * b <= q * b /\ (p + 1) * b = p * b + b
  BY <1>1, <1>4, Times
<1> DEFINE x == p * b
           y == q * b
           z == (p + 1) * b
<1>6. x \in Int /\ y \in Int /\ z \in Int /\ z <= y /\ z = x + b /\ a = x + r /\ c = y + r
  BY <1>1, <1>2, <1>3, <1>5
<1> HIDE DEF x, y, z
<1> QED
  BY <1>1, <1>6

\* A number lies below n divisors when its quotient lies below n.
LEMMA QuotientBelow ==
  ASSUME NEW a \in Nat, NEW b \in Nat \ {0}, NEW n \in Nat
  PROVE  a \div b < n <=> a < n * b
<1>1. PICK q \in Nat, r \in 0 .. b - 1 : a \div b = q /\ a = q * b + r
  BY Quotient
<1> DEFINE x == q * b
           y == n * b
<1>2. x \in Nat /\ y \in Nat /\ a = x + r
  BY <1>1
<1>3. CASE q < n
  <2>1. (q + 1) * b <= y
    BY <1>1, <1>3, Times
  <2>2. (q + 1) * b = x + b
    BY <1>1
  <2> HIDE DEF x, y
  <2>3. a < y
    BY <1>1, <1>2, <2>1, <2>2
  <2> QED
    BY <1>1, <1>3, <2>3 DEF y
<1>4. CASE n <= q
  <2>1. y <= x
    BY <1>1, <1>4, Times
  <2> HIDE DEF x, y
  <2>2. ~(a < y)
    BY <1>1, <1>2, <2>1
  <2> QED
    BY <1>1, <1>4, <2>2 DEF y
<1> QED
  BY <1>1, <1>3, <1>4

-----------------------------------------------------------------------------
(* Counting                                                                *)

\* The numbers from a to c that have the rest of c.
SameRestBefore(a, c, b) == {h \in a .. c - 1 : h % b = c % b}

\* There is one in each divisor's length.
LEMMA CountSameRest ==
  ASSUME NEW b \in Nat \ {0}, NEW a \in Nat, NEW c \in Nat, a <= c
  PROVE  /\ IsFiniteSet(SameRestBefore(a, c, b))
         /\ Cardinality(SameRestBefore(a, c, b)) = (c - a) \div b
<1> DEFINE Counted(d) == /\ IsFiniteSet(SameRestBefore(a, d, b))
                         /\ Cardinality(SameRestBefore(a, d, b)) = (d - a) \div b
           S == {k \in Nat : \A d \in Nat : a <= d /\ (d - a) \div b = k => Counted(d)}
<1>1. 0 \in S
  <2> SUFFICES ASSUME NEW d \in Nat, a <= d, (d - a) \div b = 0 PROVE Counted(d)
    OBVIOUS
  <2>1. d - a \in Nat /\ d - a < b
    <3>1. d - a \in Nat
      OBVIOUS
    <3>2. PICK r \in 0 .. b - 1 : d - a = 0 * b + r
      BY <3>1, Quotient
    <3> QED
      BY <3>1, <3>2
  <2>2. SameRestBefore(a, d, b) = {}
    <3> SUFFICES ASSUME NEW h \in a .. d - 1, h % b = d % b PROVE FALSE
      BY DEF SameRestBefore
    <3>1. h \in Nat /\ h < d
      OBVIOUS
    <3>2. h + b <= d
      BY <3>1, SameRest
    <3> QED
      BY <2>1, <3>1, <3>2
  <2> QED
    BY <2>2, FS_EmptySet
<1>2. ASSUME NEW k \in Nat, k \in S PROVE k + 1 \in S
  <2> SUFFICES ASSUME NEW d \in Nat, a <= d, (d - a) \div b = k + 1 PROVE Counted(d)
    OBVIOUS
  <2> DEFINE e == d - b
  <2>1. d - a \in Nat /\ b <= d - a
    <3>1. d - a \in Nat
      OBVIOUS
    <3>2. PICK r \in 0 .. b - 1 : d - a = (k + 1) * b + r
      BY <3>1, Quotient
    <3>3. 1 * b <= (k + 1) * b
      BY Times
    <3> QED
      BY <3>1, <3>2, <3>3
  <2>2. e \in Nat /\ a <= e /\ e + b = d /\ (e - a) + b = d - a /\ e - a \in Nat
    BY <2>1
  <2> HIDE DEF e
  <2>3. (e - a) \div b = k
    <3>1. (e - a + b) \div b = (e - a) \div b + 1 /\ (e - a) \div b \in Nat
      BY <2>2, DivisionStep, Quotient
    <3> QED
      BY <2>2, <3>1
  <2>4. e % b = d % b
    BY <2>2, DivisionStep
  <2>5. Counted(e)
    BY <1>2, <2>2, <2>3
  <2>6. SameRestBefore(a, d, b) = SameRestBefore(a, e, b) \cup {e}
    <3>1. ASSUME NEW h \in SameRestBefore(a, d, b)
          PROVE  h \in SameRestBefore(a, e, b) \cup {e}
      <4>1. h \in Nat /\ a <= h /\ h < d /\ h % b = d % b
        BY <3>1 DEF SameRestBefore
      <4>2. h + b <= d
        BY <4>1, SameRest
      <4>3. h <= e
        BY <2>2, <4>1, <4>2
      <4> QED
        BY <2>2, <2>4, <4>1, <4>3 DEF SameRestBefore
    <3>2. ASSUME NEW h \in SameRestBefore(a, e, b) \cup {e}
          PROVE  h \in SameRestBefore(a, d, b)
      BY <2>2, <2>4, <3>2 DEF SameRestBefore
    <3> QED
      BY <3>1, <3>2
  <2>7. e \notin SameRestBefore(a, e, b)
    BY <2>2 DEF SameRestBefore
  <2>8. /\ IsFiniteSet(SameRestBefore(a, d, b))
        /\ Cardinality(SameRestBefore(a, d, b)) = Cardinality(SameRestBefore(a, e, b)) + 1
    BY <2>5, <2>6, <2>7, FS_AddElement
  <2> QED
    BY <2>3, <2>5, <2>8
<1> HIDE DEF S
<1>3. (c - a) \div b \in Nat
  BY Quotient
<1>4. (c - a) \div b \in S
  BY <1>1, <1>2, <1>3, SetInduction
<1> QED
  BY <1>4 DEF S
=============================================================================
