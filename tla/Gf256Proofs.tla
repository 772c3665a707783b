----------------------------- MODULE Gf256Proofs -----------------------------
(* Proofs about Gf256: the loops of an operation do to every byte what the   *)
(* operation promises, for every length, processor, factor and content.      *)
EXTENDS Gf256, FiniteSetTheorems, TLAPS

\* What the run finds of the tables, factor by factor (FieldIsExact, and the
\* products by one of the start-up test, gf256.cpp:493-513).
FieldHolds ==
  /\ \A y, a \in Byte : /\ MUL_TABLE[y][a] = LongProduct(a, y)
                        /\ Shuffled(y, a) = MUL_TABLE[y][a]
  /\ \A a \in Byte : MUL_TABLE[1][a] = a

\* The buffers hold bytes.
ContentsAreBytes ==
  \A i \in Nat : /\ Contents("z", i) \in Byte
                 /\ Contents("x", i) \in Byte

\* Adding zero to the number of four bits changes nothing, ...
LEMMA NibbleXorZero == \A n \in 0..15 : NibbleXor[n][0] = n
<1> SUFFICES ASSUME NEW n \in 0..15 PROVE NibbleXor[n][0] = n
  OBVIOUS
<1>1. NibbleXor[n][0] = BitXor(n, 0) + 2 * BitXor(n \div 2, 0 \div 2)
        + 4 * BitXor(n \div 4, 0 \div 4) + 8 * BitXor(n \div 8, 0 \div 8)
  BY DEF NibbleXor
<1> QED
  BY <1>1 DEF BitXor

\* ... nor does adding zero to a byte.
LEMMA ByteXorZero == \A a \in Byte : ByteXor(a, 0) = a
<1> SUFFICES ASSUME NEW a \in 0..255 PROVE ByteXor(a, 0) = a
  BY DEF Byte
<1> DEFINE q == a \div 16
           r == a % 16
<1>1. q \in 0..15 /\ r \in 0..15 /\ a = 16 * q + r
  OBVIOUS
<1>2. 0 \div 16 = 0 /\ 0 % 16 = 0
  OBVIOUS
<1> HIDE DEF q, r
<1>3. NibbleXor[q][0] = q /\ NibbleXor[r][0] = r
  BY <1>1, NibbleXorZero
<1> QED
  BY <1>1, <1>2, <1>3 DEF ByteXor, q, r

-----------------------------------------------------------------------------
(* The loops                                                                 *)

\* The loops of an operation end with one so narrow that the bits looked at behind
\* the loops hold all that is left (gf256.cpp:700-860 and 866-1560).
LEMMA LoopsEndNarrow ==
  ASSUME NEW op \in Operations, NEW cpu \in {"avx2", "ssse3", "sse2", "neon", "word"}
  PROVE  /\ DOMAIN Loops(op, cpu) \subseteq 1..4
         /\ \A k \in DOMAIN Loops(op, cpu) : Loops(op, cpu)[k] \in Nat \ {0}
         /\ \E k \in DOMAIN Loops(op, cpu) :
              Loops(op, cpu)[k] <= IF op \in {"mul", "muladd"} THEN 8 ELSE 16
<1> DEFINE narrow == IF op \in {"mul", "muladd"} THEN 8 ELSE 16
           Fine(t) == /\ DOMAIN t \subseteq 1..4
                      /\ \A k \in DOMAIN t : t[k] \in Nat \ {0}
                      /\ \E k \in DOMAIN t : t[k] <= narrow
<1>1. CASE op = "add"
  <2>1. Fine(<<128, 32, 16>>) /\ Fine(<<64, 16>>) /\ Fine(<<8>>)
    BY <1>1
  <2> QED
    BY <1>1, <2>1 DEF Loops, AddLoopsAvx2
<1>2. CASE op = "add2"
  <2>1. Fine(<<32, 16>>) /\ Fine(<<16>>) /\ Fine(<<8>>)
    BY <1>2
  <2> QED
    BY <1>2, <2>1 DEF Loops
<1>3. CASE op = "addset"
  <2>1. Fine(<<64, 16>>) /\ Fine(<<32, 16>>) /\ Fine(<<8>>)
    BY <1>3
  <2> QED
    BY <1>3, <2>1 DEF Loops
<1>4. CASE op = "mul"
  <2>1. Fine(<<32, 16, 8>>) /\ Fine(<<16, 8>>) /\ Fine(<<8>>)
    BY <1>4
  <2> QED
    BY <1>4, <2>1 DEF Loops
<1>5. CASE op = "muladd"
  <2>1. Fine(<<64, 32, 16, 8>>) /\ Fine(<<32, 16, 8>>) /\ Fine(<<16, 8>>) /\ Fine(<<8>>)
    BY <1>5
  <2> QED
    BY <1>5, <2>1 DEF Loops
<1>6. CASE op = "swap"
  <2>1. Fine(<<16>>) /\ Fine(<<8>>)
    BY <1>6
  <2> QED
    BY <1>6, <2>1 DEF Loops
<1> QED
  BY <1>1, <1>2, <1>3, <1>4, <1>5, <1>6 DEF Operations

\* A call, as Dispatched makes it and Forward leaves it.
CallType ==
  [asked : Operations, op : Operations, y : Byte, loops : Seq(Nat),
   bytes : Nat, at : Nat, done : BOOLEAN]

CallInv(c) ==
  /\ c \in CallType
  /\ c.op = IF c.asked = "muladd" /\ c.y = 1 THEN "add" ELSE c.asked
  /\ c.loops = Loops(c.op, processor)
  /\ c.at <= c.bytes
  /\ c.done => c.at = c.bytes
  /\ IsSpecial(c) /\ ~c.done => c.at = 0

\* A word ends where the buffer ends, and the last one ends there.
LEMMA WordsFit ==
  ASSUME NEW c, CallInv(c), processor \in Processors
  PROVE  /\ Width(c) \in Nat /\ c.at + Width(c) <= c.bytes
         /\ IsLast(c) => c.at + Width(c) = c.bytes
<1>1. /\ c.op \in Operations /\ c.at \in Nat /\ c.bytes \in Nat /\ c.at <= c.bytes
      /\ c.loops = Loops(c.op, processor)
  BY DEF CallInv, CallType
<1>2. processor \in {"avx2", "ssse3", "sse2", "neon", "word"}
  BY GfAssumption
<1> DEFINE t == c.loops
           n == Left(c)
<1>3. /\ DOMAIN t \subseteq 1..4
      /\ \A k \in DOMAIN t : t[k] \in Nat \ {0}
      /\ \E k \in DOMAIN t : t[k] <= IF c.op \in {"mul", "muladd"} THEN 8 ELSE 16
  BY <1>1, <1>2, LoopsEndNarrow
<1>4. n \in Nat /\ n = c.bytes - c.at
  BY <1>1 DEF Left
<1> HIDE DEF t, n
<1>5. CASE IsLast(c)
  <2>1. \A k \in DOMAIN t : t[k] > n
    BY <1>3, <1>4, <1>5 DEF IsLast, Fitting, t, n
  <2>2. n < IF c.op \in {"mul", "muladd"} THEN 8 ELSE 16
    BY <1>3, <1>4, <2>1
  <2>3. TailWidth(c) = n
    BY <1>4, <2>2 DEF TailWidth, n
  <2>4. Width(c) = n
    BY <1>5, <2>3 DEF Width
  <2> QED
    BY <1>1, <1>4, <2>4
<1>6. CASE ~IsLast(c)
  <2> DEFINE S == Fitting(c)
  <2>1. S \subseteq 1..4 /\ S # {} /\ \A k \in S : k \in DOMAIN t /\ t[k] <= n
    BY <1>3, <1>6 DEF IsLast, Fitting, t, n
  <2> HIDE DEF S
  <2>2. Min(S) \in S
    <3>1. \E k \in S : \A l \in S : k =< l
      <4>1. CASE 1 \in S
        BY <2>1, <4>1
      <4>2. CASE 1 \notin S /\ 2 \in S
        BY <2>1, <4>2
      <4>3. CASE 1 \notin S /\ 2 \notin S /\ 3 \in S
        BY <2>1, <4>3
      <4>4. CASE 1 \notin S /\ 2 \notin S /\ 3 \notin S
        <5>1. \A l \in S : l \in 1..4 /\ l # 1 /\ l # 2 /\ l # 3
          BY <2>1, <4>4
        <5>2. \A l \in S : l = 4
          BY <5>1
        <5>3. PICK k \in S : TRUE
          BY <2>1
        <5> QED
          BY <5>2, <5>3
      <4> QED
        BY <4>1, <4>2, <4>3, <4>4
    <3> QED
      BY <3>1 DEF Min
  <2>3. Width(c) = t[Min(S)]
    BY <1>6 DEF Width, S, t
  <2>4. Width(c) \in Nat /\ Width(c) <= n
    BY <1>3, <2>1, <2>2, <2>3
  <2> QED
    BY <1>1, <1>4, <1>6, <2>4
<1> QED
  BY <1>5, <1>6

\* What a word of any width leaves of a byte is what was promised.
LEMMA BytesKept ==
  ASSUME FieldHolds, ContentsAreBytes, NEW c, CallInv(c), NEW i \in Nat, NEW width \in Nat
  PROVE  << ByteAfter(c.op, width, c.y, Contents("z", i), Contents("x", i),
                      Contents("v", i)),
            IF c.op = "swap" THEN Contents("z", i) ELSE Contents("x", i) >>
         = Promised(c.asked, c.y, i)
<1> DEFINE a == Contents("z", i)
           b == Contents("x", i)
           v == Contents("v", i)
<1>1. a \in Byte /\ b \in Byte
  BY DEF ContentsAreBytes
<1>2. /\ c.asked \in Operations /\ c.y \in Byte
      /\ c.op = IF c.asked = "muladd" /\ c.y = 1 THEN "add" ELSE c.asked
  BY DEF CallInv, CallType
<1>3. \A op : Product(op, width, c.y, b) = LongProduct(b, c.y)
  BY <1>1, <1>2 DEF Product, FieldHolds
<1>4. LongProduct(b, 1) = b
  <2>1. 1 \in Byte
    BY DEF Byte
  <2> QED
    BY <1>1, <2>1 DEF FieldHolds
<1> HIDE DEF a, b, v
<1>5. Promised(c.asked, c.y, i) =
        CASE c.asked = "add" -> << ByteXor(a, b), b >>
          [] c.asked = "add2" -> << ByteXor(a, ByteXor(b, v)), b >>
          [] c.asked = "addset" -> << ByteXor(b, v), b >>
          [] c.asked = "mul" -> << LongProduct(b, c.y), b >>
          [] c.asked = "muladd" -> << ByteXor(a, LongProduct(b, c.y)), b >>
          [] c.asked = "swap" -> << b, a >>
  BY DEF Promised, a, b, v
<1>6. ByteAfter(c.op, width, c.y, a, b, v) =
        CASE c.op = "add" -> ByteXor(a, b)
          [] c.op = "add2" -> ByteXor(a, ByteXor(b, v))
          [] c.op = "addset" -> ByteXor(b, v)
          [] c.op = "mul" -> Product(c.op, width, c.y, b)
          [] c.op = "muladd" -> ByteXor(a, Product(c.op, width, c.y, b))
          [] c.op = "swap" -> b
  BY DEF ByteAfter
<1>7. << ByteAfter(c.op, width, c.y, a, b, v), IF c.op = "swap" THEN a ELSE b >>
        = Promised(c.asked, c.y, i)
  BY <1>2, <1>3, <1>4, <1>5, <1>6 DEF Operations
<1> QED
  BY <1>7 DEF a, b, v

-----------------------------------------------------------------------------
(* The invariant                                                             *)

\* What has been passed is as promised, what comes behind is untouched.
Halfway(c) ==
  /\ DOMAIN z = 0..(c.bytes + Guard - 1) /\ DOMAIN x = 0..(c.bytes + Guard - 1)
  /\ \A i \in DOMAIN z :
       << z[i], x[i] >> = IF i < c.at THEN Promised(c.asked, c.y, i)
                          ELSE << Contents("z", i), Contents("x", i) >>

BuffersInv ==
  /\ processor \in Processors
  /\ call # <<>> => /\ call = << call[1] >>
                    /\ CallInv(call[1])
                    /\ Halfway(call[1])

\* At the start nothing is under way.
LEMMA BuffersInit == Init => BuffersInv
BY DEF Init, BuffersInv

\* A call begins with fresh buffers, and with the shortcut for the factor one.
LEMMA BeginStep ==
  ASSUME BuffersInv, Begin
  PROVE  BuffersInv'
<1>1. processor' = processor /\ processor \in Processors
  BY DEF BuffersInv, Begin
<1>2. PICK d \in Calls : /\ call' = << Dispatched(d.op, processor, d.y, d.bytes) >>
                         /\ Buffers(d.bytes)
  BY DEF Begin
<1>3. d.op \in Operations /\ d.y \in Byte /\ d.bytes \in Nat /\ Guard \in Nat
  BY GfAssumption DEF Operations, Byte
<1> DEFINE op == IF d.op = "muladd" /\ d.y = 1 THEN "add" ELSE d.op
<1>4. PICK c : c = [asked |-> d.op, op |-> op, y |-> d.y, loops |-> Loops(op, processor),
                    bytes |-> d.bytes, at |-> 0, done |-> FALSE]
  OBVIOUS
<1>5. op \in Operations
  BY <1>3 DEF Operations
<1>6. Loops(op, processor) \in Seq(Nat)
  <2>1. processor \in {"avx2", "ssse3", "sse2", "neon", "word"}
    BY <1>1, GfAssumption
  <2> HIDE DEF op
  <2>2. op \in {"add", "add2", "addset", "mul", "muladd", "swap"}
    BY <1>5 DEF Operations
  <2>3. CASE op \in {"add", "add2", "addset"}
    BY <2>1, <2>3 DEF Loops, AddLoopsAvx2
  <2>4. CASE op = "mul"
    BY <2>1, <2>4 DEF Loops
  <2>5. CASE op = "muladd"
    BY <2>1, <2>5 DEF Loops
  <2>6. CASE op = "swap"
    BY <2>1, <2>6 DEF Loops
  <2> QED
    BY <2>2, <2>3, <2>4, <2>5, <2>6
<1>7. call' = << c >> /\ call'[1] = c
  BY <1>2, <1>4 DEF Dispatched, Call
<1>8. CallInv(c)'
  <2>1. c \in CallType
    <3> HIDE DEF op
    <3> QED
      BY <1>3, <1>4, <1>5, <1>6 DEF CallType
  <2>2. c.asked = d.op /\ c.op = op /\ c.y = d.y /\ c.loops = Loops(op, processor)
        /\ c.bytes = d.bytes /\ c.at = 0 /\ c.done = FALSE
    BY <1>4
  <2> QED
    BY <1>1, <1>3, <2>1, <2>2 DEF CallInv
<1>9. Halfway(c)'
  <2>1. c.bytes = d.bytes /\ c.at = 0
    BY <1>4
  <2>2. /\ z' = [i \in 0..(d.bytes + Guard - 1) |-> Contents("z", i)]
        /\ x' = [i \in 0..(d.bytes + Guard - 1) |-> Contents("x", i)]
    BY <1>2 DEF Buffers, Filled
  <2> QED
    BY <1>3, <2>1, <2>2 DEF Halfway
<1> QED
  BY <1>1, <1>7, <1>8, <1>9 DEF BuffersInv

\* The factors that need no loop: nothing is promised but zeros or a copy.
LEMMA SpecialStep ==
  ASSUME FieldHolds, ContentsAreBytes, BuffersInv, SpecialFactor
  PROVE  BuffersInv'
<1> PICK c : c = call[1]
  OBVIOUS
<1>1. /\ CallInv(c) /\ Halfway(c) /\ processor' = processor /\ processor \in Processors
      /\ IsSpecial(c) /\ ~c.done
  BY DEF BuffersInv, SpecialFactor
<1>2. /\ c \in CallType /\ c.bytes \in Nat /\ c.at \in 0..c.bytes /\ c.y \in Byte
      /\ c.asked \in Operations /\ c.op = IF c.asked = "muladd" /\ c.y = 1 THEN "add" ELSE c.asked
      /\ Guard \in Nat
  BY <1>1, GfAssumption DEF CallInv, CallType
<1>3. c.at = 0 /\ ((c.op = "muladd" /\ c.y = 0) \/ (c.op = "mul" /\ c.y \in 0..1))
  BY <1>1 DEF CallInv, IsSpecial
<1>4. PICK d : d = [c EXCEPT !.at = c.at + c.bytes, !.done = TRUE]
  OBVIOUS
<1>5. call' = << d >> /\ call'[1] = d /\ x' = x
  BY <1>4 DEF SpecialFactor
<1>6. /\ d \in CallType /\ d.asked = c.asked /\ d.op = c.op /\ d.y = c.y /\ d.loops = c.loops
      /\ d.bytes = c.bytes /\ d.at = c.bytes /\ d.done = TRUE
  <2>1. c.at + c.bytes = c.bytes
    BY <1>2, <1>3
  <2>2. PICK n : n = c.bytes
    OBVIOUS
  <2>3. c \in CallType /\ n \in Nat /\ d = [c EXCEPT !.at = n, !.done = TRUE]
    BY <1>2, <1>4, <2>1, <2>2
  <2> QED
    BY <2>2, <2>3 DEF CallType
<1>7. CallInv(d)'
  BY <1>1, <1>2, <1>6 DEF CallInv
<1> DEFINE N == 0..(c.bytes + Guard - 1)
<1>8. /\ DOMAIN z = N /\ DOMAIN x = N
      /\ \A i \in N : z[i] = Contents("z", i) /\ x[i] = Contents("x", i)
  <2>1. DOMAIN z = N /\ DOMAIN x = N
    BY <1>1 DEF Halfway
  <2>2. ASSUME NEW i \in N PROVE z[i] = Contents("z", i) /\ x[i] = Contents("x", i)
    <3>1. ~(i < c.at)
      BY <1>2, <1>3
    <3>2. << z[i], x[i] >> = << Contents("z", i), Contents("x", i) >>
      BY <1>1, <2>1, <3>1 DEF Halfway
    <3> QED
      BY <3>2
  <2> QED
    BY <2>1, <2>2
<1>9. \A i \in N : i \in Nat /\ Contents("z", i) \in Byte /\ Contents("x", i) \in Byte
  BY <1>2 DEF ContentsAreBytes
<1>10. \A b \in Byte : LongProduct(b, 0) = 0 /\ LongProduct(b, 1) = b
  <2>1. \A b \in Byte : MUL_TABLE[0][b] = 0
    BY DEF MUL_TABLE, Byte
  <2>2. 0 \in Byte /\ 1 \in Byte
    BY DEF Byte
  <2> QED
    BY <2>1, <2>2 DEF FieldHolds
<1>11. CASE c.op = "muladd"
  <2>1. c.asked = "muladd" /\ c.y = 0 /\ z' = z
    BY <1>2, <1>3, <1>11 DEF SpecialFactor, Operations
  <2>2. \A i \in N : Promised(c.asked, c.y, i) = << Contents("z", i), Contents("x", i) >>
    <3> SUFFICES ASSUME NEW i \in N
                 PROVE  Promised(c.asked, c.y, i) = << Contents("z", i), Contents("x", i) >>
      OBVIOUS
    <3>1. ByteXor(Contents("z", i), 0) = Contents("z", i)
      BY <1>9, ByteXorZero
    <3>2. LongProduct(Contents("x", i), 0) = 0
      BY <1>9, <1>10
    <3> QED
      BY <2>1, <3>1, <3>2 DEF Promised
  <2>3. Halfway(d)'
    BY <1>2, <1>5, <1>6, <1>8, <2>1, <2>2 DEF Halfway
  <2> QED
    BY <1>1, <1>5, <1>7, <2>3 DEF BuffersInv
<1>12. CASE c.op = "mul"
  <2> DEFINE f == [i \in DOMAIN z |-> IF i >= c.bytes THEN z[i] ELSE IF c.y = 0 THEN 0 ELSE x[i]]
  <2>1. c.asked = "mul" /\ c.y \in 0..1 /\ z' = f
    BY <1>2, <1>3, <1>12 DEF SpecialFactor, Operations
  <2>2. /\ DOMAIN z' = N
        /\ \A i \in N : z'[i] = IF i < c.bytes THEN f[i] ELSE z[i]
    BY <1>2, <1>8, <2>1
  <2>3. \A i \in N : i < c.bytes => Promised(c.asked, c.y, i) = << f[i], Contents("x", i) >>
    <3> SUFFICES ASSUME NEW i \in N, i < c.bytes
                 PROVE  Promised(c.asked, c.y, i) = << f[i], Contents("x", i) >>
      OBVIOUS
    <3>1. f[i] = IF c.y = 0 THEN 0 ELSE Contents("x", i)
      BY <1>2, <1>8
    <3>2. LongProduct(Contents("x", i), c.y) = IF c.y = 0 THEN 0 ELSE Contents("x", i)
      BY <1>9, <1>10, <2>1
    <3> QED
      BY <2>1, <3>1, <3>2 DEF Promised
  <2>4. Halfway(d)'
    <3> HIDE DEF f
    <3> QED
      BY <1>2, <1>5, <1>6, <1>8, <2>2, <2>3 DEF Halfway
  <2> QED
    BY <1>1, <1>5, <1>7, <2>4 DEF BuffersInv
<1> QED
  BY <1>3, <1>11, <1>12

\* One pass of a loop takes the next word from what was there to what was promised.
LEMMA PassStep ==
  ASSUME FieldHolds, ContentsAreBytes, BuffersInv, Pass
  PROVE  BuffersInv'
<1> PICK c : c = call[1]
  OBVIOUS
<1>1. /\ CallInv(c) /\ Halfway(c) /\ processor' = processor /\ processor \in Processors
      /\ ~IsSpecial(c) /\ ~c.done /\ call = << c >>
  BY DEF BuffersInv, Pass
<1>2. c \in CallType /\ c.bytes \in Nat /\ c.at \in 0..c.bytes /\ Guard \in Nat
  BY <1>1, GfAssumption DEF CallInv, CallType
<1> PICK width : width = Width(c)
  OBVIOUS
<1>3. width \in Nat /\ c.at + width <= c.bytes /\ (IsLast(c) => c.at + width = c.bytes)
  BY <1>1, WordsFit
<1> PICK d : d = [c EXCEPT !.at = c.at + width, !.done = IsLast(c)]
  OBVIOUS
<1>4. call' = << d >> /\ call'[1] = d
  BY DEF Pass, Forward
<1>5. /\ d \in CallType /\ d.asked = c.asked /\ d.op = c.op /\ d.y = c.y /\ d.loops = c.loops
      /\ d.bytes = c.bytes /\ d.at = c.at + width /\ d.done = IsLast(c)
  <2>1. PICK n, b : n = c.at + width /\ b = IsLast(c)
    OBVIOUS
  <2>2. c \in CallType /\ n \in Nat /\ b \in BOOLEAN /\ d = [c EXCEPT !.at = n, !.done = b]
    BY <1>2, <1>3, <2>1 DEF IsLast
  <2> QED
    BY <2>1, <2>2 DEF CallType
<1>6. CallInv(d)'
  BY <1>1, <1>3, <1>5 DEF CallInv, IsSpecial
<1> DEFINE N == 0..(c.bytes + Guard - 1)
           word == c.at..(c.at + width - 1)
<1>7. ToSet(call) = {c}
  BY <1>1 DEF ToSet
<1>8. /\ z' = [i \in DOMAIN z |->
                  IF i \in word THEN ByteAfter(c.op, width, c.y, z[i], x[i], Contents("v", i))
                  ELSE z[i]]
      /\ x' = [i \in DOMAIN x |-> IF i \in word /\ c.op = "swap" THEN z[i] ELSE x[i]]
  BY <1>7 DEF Pass, Word
<1>9. DOMAIN z = N /\ DOMAIN x = N /\ N \subseteq Nat
  BY <1>1, <1>2 DEF Halfway
<1>10. ASSUME NEW i \in N
       PROVE  << z'[i], x'[i] >> = IF i < d.at THEN Promised(c.asked, c.y, i)
                                   ELSE << Contents("z", i), Contents("x", i) >>
  <2>1. << z[i], x[i] >> = IF i < c.at THEN Promised(c.asked, c.y, i)
                           ELSE << Contents("z", i), Contents("x", i) >>
    BY <1>1, <1>9 DEF Halfway
  <2>2. i \in Nat /\ (i \in word <=> c.at <= i /\ i < d.at) /\ c.at <= d.at
    BY <1>2, <1>3, <1>5, <1>9
  <2>3. CASE i \in word
    <3>1. z[i] = Contents("z", i) /\ x[i] = Contents("x", i)
      BY <1>2, <2>1, <2>2, <2>3
    <3>2. << z'[i], x'[i] >> =
            << ByteAfter(c.op, width, c.y, Contents("z", i), Contents("x", i),
                         Contents("v", i)),
               IF c.op = "swap" THEN Contents("z", i) ELSE Contents("x", i) >>
      BY <1>8, <1>9, <2>3, <3>1
    <3>3. << z'[i], x'[i] >> = Promised(c.asked, c.y, i)
      BY <1>1, <1>3, <2>2, <3>2, BytesKept
    <3> QED
      BY <2>2, <2>3, <3>3
  <2>4. CASE i \notin word
    <3>1. z'[i] = z[i] /\ x'[i] = x[i]
      BY <1>8, <1>9, <2>4
    <3>2. i < d.at <=> i < c.at
      BY <1>2, <1>3, <1>5, <2>2, <2>4
    <3> QED
      BY <2>1, <3>1, <3>2
  <2> QED
    BY <2>3, <2>4
<1>11. DOMAIN z' = N /\ DOMAIN x' = N
  BY <1>8, <1>9
<1>12. Halfway(d)'
  BY <1>5, <1>10, <1>11 DEF Halfway
<1> QED
  BY <1>1, <1>4, <1>6, <1>12 DEF BuffersInv

\* No step breaks the invariant, if the tables hold the field.
THEOREM BuffersStep ==
  FieldHolds /\ ContentsAreBytes /\ BuffersInv /\ [Next]_vars => BuffersInv'
<1> SUFFICES ASSUME FieldHolds, ContentsAreBytes, BuffersInv, [Next]_vars
             PROVE  BuffersInv'
  OBVIOUS
<1>1. CASE Begin
  BY <1>1, BeginStep
<1>2. CASE SpecialFactor
  BY <1>2, SpecialStep
<1>3. CASE Pass
  BY <1>3, PassStep
<1>4. CASE Return \/ gf256_init_
  <2>1. processor' = processor /\ call' = <<>>
    BY <1>4 DEF Return, gf256_init_
  <2> QED
    BY <2>1 DEF BuffersInv
<1>5. CASE UNCHANGED vars
  BY <1>5 DEF BuffersInv, vars, CallInv, Halfway
<1> QED
  BY <1>1, <1>2, <1>3, <1>4, <1>5 DEF Next

\* For every length, factor and processor and whatever the buffers hold, an
\* operation does to every byte what it promises, once, and leaves the bytes behind
\* the buffers alone (gf256.cpp:700-1560), if the tables hold the field.
THEOREM BuffersExact ==
  FieldHolds /\ ContentsAreBytes => (Spec => []BuffersAreExact)
<1> SUFFICES ASSUME FieldHolds, ContentsAreBytes PROVE Spec => []BuffersAreExact
  OBVIOUS
<1>1. BuffersInv => BuffersAreExact
  BY DEF BuffersInv, BuffersAreExact, CallInv, CallType, Halfway
<1>2. BuffersInv /\ [Next]_vars => BuffersInv'
  BY BuffersStep
<1> QED
  BY <1>1, <1>2, BuffersInit, PTL DEF Spec
=============================================================================
