------------------------------- MODULE Gf256 -------------------------------
(***************************************************************************)
(* Arithmetic in the field of 256 elements (src/src/gf256.cpp): its        *)
(* tables, built once at start-up, and the operations on whole buffers,    *)
(* each a series of loops over ever narrower words that depends on the     *)
(* processor.                                                              *)
(*                                                                         *)
(* A byte is a number, and stands for the polynomial over GF(2) of its     *)
(* bits.  Adding is exclusive or.                                          *)
(*                                                                         *)
(* A step is a call of gf256_init_, the call of an operation, or one pass  *)
(* of its loops over the next word.                                        *)
(***************************************************************************)
EXTENDS Integers, Sequences, FiniteSets, SequencesExt

CONSTANTS Processors,   \* which of "avx2", "ssse3", "sse2", "neon", "word" to look at
          Calls,        \* the calls to look at: operation, factor, length
          Guard,        \* bytes behind the buffers, which no operation may touch
          Contents(_, _)    \* buffer, position -> the byte there before the call

ASSUME GfAssumption ==
    /\ Processors \subseteq {"avx2", "ssse3", "sse2", "neon", "word"}
    /\ Calls \subseteq [op : {"add", "add2", "addset", "mul", "muladd", "swap"},
                        y : 0..255, bytes : Nat]
    /\ Guard \in Nat

Byte == 0..255

BitXor(a, b) == (a + b) % 2
NibbleXor == [a \in 0..15 |-> [b \in 0..15 |->
    BitXor(a, b) + 2 * BitXor(a \div 2, b \div 2)
        + 4 * BitXor(a \div 4, b \div 4) + 8 * BitXor(a \div 8, b \div 8)]]
ByteXor(a, b) == 16 * NibbleXor[a \div 16][b \div 16] + NibbleXor[a % 16][b % 16]

----------------------------------------------------------------------------
(* Tables                                                                  *)

\* kDefaultPolynomialIndex names 0xa6, which is shifted and gets its last bit.
\* The ninth bit, which every generator has, is the one that is reduced away.
Polynomial == 2 * 166 + 1

\* One past 0xff is reduced.
Doubled ==
    [a \in Byte |-> IF 2 * a < 256 THEN 2 * a ELSE ByteXor(2 * a - 256, Polynomial - 256)]

\* Places from 0 to 4 * 255 - 1: one period, another, a one, and zeros.
Period ==
    LET power[j \in 0..254] == IF j = 0 THEN 1 ELSE Doubled[power[j - 1]]
    IN  [j \in 0..254 |-> power[j]]
EXP_TABLE ==
    [j \in 0..(4 * 255 - 1) |->
        IF j < 2 * 255 THEN Period[j % 255] ELSE IF j = 2 * 255 THEN 1 ELSE 0]

\* The logarithm of one is 255, for the last place written to wins; that of
\* zero is 512, where EXP_TABLE holds nothing but zeros.
LOG_TABLE ==
    [a \in Byte |-> IF a = 0 THEN 512
                    ELSE IF a = 1 THEN 255
                    ELSE CHOOSE j \in 1..254 : EXP_TABLE[j] = a]

\* The first index is the factor or the divisor.
MUL_TABLE ==
    [y \in Byte |-> [x \in Byte |->
        IF y = 0 \/ x = 0 THEN 0 ELSE EXP_TABLE[LOG_TABLE[x] + LOG_TABLE[y]]]]

\* Bug: the logarithm is subtracted from the size of the table.
LogarithmOf256(y) == 256 - LOG_TABLE[y]

\* log_yn
InverseLogarithm(y) == 255 - LOG_TABLE[y]

DIV_TABLE ==
    [y \in Byte |-> [x \in Byte |->
        IF y = 0 \/ x = 0 THEN 0 ELSE EXP_TABLE[LOG_TABLE[x] + InverseLogarithm(y)]]]

INV_TABLE == [x \in Byte |-> DIV_TABLE[x][1]]
SQR_TABLE == [x \in Byte |-> MUL_TABLE[x][x]]

\* The products of the halves of a byte, looked up 16 or 32 at a time.
TABLE_LO_Y == [y \in Byte |-> [x \in 0..15 |-> MUL_TABLE[y][x]]]
TABLE_HI_Y == [y \in Byte |-> [x \in 0..15 |-> MUL_TABLE[y][16 * x]]]

Shuffled(y, x) == ByteXor(TABLE_LO_Y[y][x % 16], TABLE_HI_Y[y][x \div 16])

----------------------------------------------------------------------------
(* Buffer operations                                                       *)

Operations == {"add", "add2", "addset", "mul", "muladd", "swap"}

\* Bug: the loop over 16 bytes is left to the other branch.
AddLoopsNoSixteen == <<128, 32>>
AddLoopsAvx2 == <<128, 32, 16>>

\* The widths of the loops that run as long as the width fits, in order.
Loops(op, cpu) ==
    CASE op = "add" /\ cpu = "avx2" -> AddLoopsAvx2
      [] op \in {"add", "addset"} /\ cpu \in {"ssse3", "sse2", "neon"} -> <<64, 16>>
      [] op \in {"add2", "addset"} /\ cpu = "avx2" -> <<32, 16>>
      [] op = "add2" /\ cpu \in {"ssse3", "sse2", "neon"} -> <<16>>
      [] op = "swap" /\ cpu \in {"avx2", "ssse3", "sse2"} -> <<16>>
      [] op = "swap" /\ cpu \in {"neon", "word"} -> <<8>>
      [] op \in {"add", "add2", "addset"} /\ cpu = "word" -> <<8>>
      [] op = "mul" /\ cpu = "avx2" -> <<32, 16, 8>>
      [] op = "muladd" /\ cpu = "avx2" -> <<64, 32, 16, 8>>
      [] op = "mul" /\ cpu \in {"ssse3", "neon"} -> <<16, 8>>
      [] op = "muladd" /\ cpu = "ssse3" -> <<32, 16, 8>>
      [] op = "muladd" /\ cpu = "neon" -> <<16, 8>>
      [] op \in {"mul", "muladd"} /\ cpu \in {"sse2", "word"} -> <<8>>

\* A vector loop multiplies through the tables of halves.
Product(op, width, y, x) ==
    IF width >= 16 THEN Shuffled(y, x) ELSE MUL_TABLE[y][x]

\* The byte that a word of that width leaves in the buffer it writes, from the
\* bytes of all three buffers; swapping writes the second one as well.
ByteAfter(op, width, y, z, x, v) ==
    CASE op = "add" -> ByteXor(z, x)
      [] op = "add2" -> ByteXor(z, ByteXor(x, v))
      [] op = "addset" -> ByteXor(x, v)
      [] op = "mul" -> Product(op, width, y, x)
      [] op = "muladd" -> ByteXor(z, Product(op, width, y, x))
      [] op = "swap" -> x

\* A call: what was asked for, what is done for it, its loops, all bytes and
\* those behind it.
Call(asked, op, cpu, y, bytes) ==
    [asked |-> asked, op |-> op, y |-> y, loops |-> Loops(op, cpu),
     bytes |-> bytes, at |-> 0, done |-> FALSE]

\* Adding a product has a shortcut for the factor one.
Dispatched(op, cpu, y, bytes) ==
    Call(op, IF op = "muladd" /\ y = 1 THEN "add" ELSE op, cpu, y, bytes)

\* gf256_mul_mem and gf256_muladd_mem return early for these factors.
IsSpecial(c) == \/ c.op = "mul" /\ c.y \in 0..1
                \/ c.op = "muladd" /\ c.y = 0

\* gf256_div_mem multiplies with this byte.
Divisor(y) == IF y = 1 THEN 1 ELSE INV_TABLE[y]

Left(c) == c.bytes - c.at

\* The loops, by their number, whose word fits into what is left.
Fitting(c) == {k \in DOMAIN c.loops : c.loops[k] <= Left(c)}
IsLast(c) == Fitting(c) = {}

\* Behind the loops the bits 8, 4 and 3 of what is left are looked at, or only
\* 4 and 3 where a loop over 8 bytes has come before.
TailWidth(c) == IF c.op \in {"mul", "muladd"} THEN Left(c) % 8 ELSE Left(c) % 16
Width(c) == IF IsLast(c) THEN TailWidth(c) ELSE c.loops[Min(Fitting(c))]

Word(c) == c.at..(c.at + Width(c) - 1)

Forward(c) == [c EXCEPT !.at = @ + Width(c), !.done = IsLast(c)]

\* The words of a call from the byte on at which it stands.
Words(c) ==
    LET at(n) == [c EXCEPT !.at = n]
        from[n \in 0..c.bytes] ==
            << [word |-> Word(at(n)), width |-> Width(at(n))] >>
                \o (IF IsLast(at(n)) THEN <<>> ELSE from[n + Width(at(n))])
    IN  from[c.at]

\* The start-up test: products and quotients of all bytes, and each operation
\* but swapping on kTestBufferBytes bytes of one value and one that must stay.
kTestBufferBytes == 32 + 16 + 8 + 4 + 2 + 1
TestFactor == 108
TestZ == 31
TestX == 247
TestV == 113

\* Byte i after a call for a whole test buffer.
TestByte(op, cpu, i) ==
    FoldLeft(LAMBDA byte, w : ByteAfter(op, w.width, TestFactor, byte, TestX, TestV),
             TestZ,
             SelectSeq(Words(Call(op, op, cpu, TestFactor, kTestBufferBytes)),
                       LAMBDA w : i \in w.word))

gf256_self_test(cpu) ==
    /\ \A i, j \in Byte :
         LET prod == MUL_TABLE[j][i]
         IN  /\ i # 0 /\ j # 0 => DIV_TABLE[i][prod] = j /\ DIV_TABLE[j][prod] = i
             /\ i = 0 \/ j = 0 => prod = 0
             /\ j = 1 => prod = i
    /\ \A op \in Operations \ {"swap"} :
         /\ TestByte(op, cpu, kTestBufferBytes) = TestZ
         /\ \A i \in 0..(kTestBufferBytes - 1) :
              TestByte(op, cpu, i) = ByteAfter(op, 1, TestFactor, TestZ, TestX, TestV)

----------------------------------------------------------------------------
None == "none"

VARIABLES processor,     \* what gf256_architecture_init has found
          initialized,   \* Initialized
          returned,      \* what gf256_init_ has returned last
          call,          \* << the operation under way >>, empty between calls
          z, x           \* the buffers it writes and reads

vars == <<processor, initialized, returned, call, z, x>>

Filled(buffer, bytes) == [i \in 0..(bytes + Guard - 1) |-> Contents(buffer, i)]
Buffers(bytes) == z' = Filled("z", bytes) /\ x' = Filled("x", bytes)

Init == /\ processor \in Processors /\ initialized = FALSE /\ returned = None
        /\ call = <<>> /\ z = Filled("z", 0) /\ x = Filled("x", 0)

\* The flag is set before the test, and is never taken back: a second call
\* returns zero whatever came of the first.
gf256_init_ ==
    /\ call = <<>>
    /\ initialized' = TRUE
    /\ returned' = IF initialized \/ gf256_self_test(processor) THEN "ready" ELSE "failed"
    /\ UNCHANGED <<processor, call, z, x>>

\* Nobody multiplies before the start has succeeded.
Begin ==
    /\ returned = "ready" /\ call = <<>>
    /\ \E c \in Calls : /\ call' = << Dispatched(c.op, processor, c.y, c.bytes) >>
                        /\ Buffers(c.bytes)
    /\ UNCHANGED <<processor, initialized, returned>>

\* memset, memcpy, or nothing
SpecialFactor ==
    /\ call # <<>> /\ IsSpecial(call[1]) /\ ~call[1].done
    /\ call' = << [call[1] EXCEPT !.at = @ + call[1].bytes, !.done = TRUE] >>
    /\ z' = IF call[1].op = "muladd" THEN z
            ELSE [i \in DOMAIN z |-> IF i >= call[1].bytes THEN z[i]
                                      ELSE IF call[1].y = 0 THEN 0 ELSE x[i]]
    /\ UNCHANGED <<processor, initialized, returned, x>>

\* One turn of a loop, or the bytes behind the loops.
Pass ==
    /\ call # <<>> /\ ~IsSpecial(call[1]) /\ ~call[1].done
    /\ \E c \in ToSet(call) : \E width \in {Width(c)} : \E word \in {Word(c)} :
         /\ z' = [i \in DOMAIN z |->
                     IF i \in word THEN ByteAfter(c.op, width, c.y, z[i], x[i], Contents("v", i))
                     ELSE z[i]]
         /\ x' = [i \in DOMAIN x |-> IF i \in word /\ c.op = "swap" THEN z[i] ELSE x[i]]
    /\ call' = << Forward(call[1]) >>
    /\ UNCHANGED <<processor, initialized, returned>>

Return ==
    /\ call # <<>> /\ call[1].done
    /\ call' = <<>> /\ Buffers(0)
    /\ UNCHANGED <<processor, initialized, returned>>

Next == \/ gf256_init_
        \/ Begin
        \/ SpecialFactor
        \/ Pass
        \/ Return

Spec == Init /\ [][Next]_vars

----------------------------------------------------------------------------
(* Properties                                                              *)

\* The product of two polynomials over GF(2) modulo Polynomial, by adding a
\* for every bit of b, the highest first.
HasBit(b, j) == (b \div 2^j) % 2 = 1
LongProduct(a, b) ==
    LET sum[j \in 0..8] ==
            IF j = 8 THEN 0
            ELSE LET p == Doubled[sum[j + 1]] IN IF HasBit(b, j) THEN ByteXor(p, a) ELSE p
    IN  sum[0]

\* The tables hold the field: products of polynomials modulo an irreducible one,
\* quotients that undo them, inverses and squares; the tables of halves agree with
\* the table of bytes.  The logarithms take two detours (the log of one is 255,
\* the log of zero 512) that the tables of gf256.cpp:379-467 must survive.
FieldIsExact ==
    call # <<>> /\ call[1].asked = "mul" /\ call[1].bytes = 0 =>
      LET y == call[1].y
      IN  /\ \A a \in Byte :
               /\ MUL_TABLE[y][a] = LongProduct(a, y)
               /\ Shuffled(y, a) = MUL_TABLE[y][a]
               /\ y # 0 => DIV_TABLE[y][MUL_TABLE[y][a]] = a
               /\ y # 0 => MUL_TABLE[Divisor(y)][a] = DIV_TABLE[y][a]
          /\ SQR_TABLE[y] = LongProduct(y, y)

\* What an operation promises of a byte of each buffer.
Promised(op, y, i) ==
    LET a == Contents("z", i)
        b == Contents("x", i)
        v == Contents("v", i)
    IN  CASE op = "add" -> << ByteXor(a, b), b >>
          [] op = "add2" -> << ByteXor(a, ByteXor(b, v)), b >>
          [] op = "addset" -> << ByteXor(b, v), b >>
          [] op = "mul" -> << LongProduct(b, y), b >>
          [] op = "muladd" -> << ByteXor(a, LongProduct(b, y)), b >>
          [] op = "swap" -> << b, a >>

\* Whatever the length, the factor and the processor, an operation has done to
\* every byte of its buffers what it promises, once, and has left the bytes behind
\* them alone.  The start-up test has a single length, 63, which the loops over 64
\* and 128 bytes never run for.
BuffersAreExact ==
    call # <<>> /\ call[1].done =>
      \A i \in DOMAIN z :
        << z[i], x[i] >> = IF i < call[1].bytes THEN Promised(call[1].asked, call[1].y, i)
                           ELSE << Contents("z", i), Contents("x", i) >>
=============================================================================
