-------------------------------- MODULE Samples --------------------------------
(* What the library does with buffers of samples once they were read: scaling, *)
(* sums, products, windows, multiplexing, look-up tables and conversions       *)
(* (the ...Data functions of getdata.c, putdata.c and common.c, and            *)
(* _GD_ConvertType).  A buffer is a sequence; what lies beyond what was read   *)
(* into it is Junk, whatever the memory happened to hold.  The C code has one  *)
(* loop per data type; here there is one, over numbers.  Rounding is left out: *)
(* instances choose samples and parameters whose quotients are whole.          *)
EXTENDS Integers, Sequences

CONSTANTS
  NaN, Junk,   \* not a number; the contents of memory nobody wrote
  Byte, Word,  \* the numbers of values of 8-bit and of 64-bit types
  IntBits      \* 32: bits of an int

Odd(x) == x = NaN \/ x = Junk

(* Junk and NaN spoil every result they enter.                                *)
Lift(Op(_), x) == IF Odd(x) THEN x ELSE Op(x)

Lift2(Op(_, _), x, y) == IF Odd(x) THEN x ELSE IF Odd(y) THEN y ELSE Op(x, y)

Plus(x, y)  == Lift2(LAMBDA a, b : a + b, x, y)
Times(x, y) == Lift2(LAMBDA a, b : a * b, x, y)
Over(x, y)  == Lift2(LAMBDA a, b : IF b = 0 THEN NaN ELSE
                        IF b < 0 THEN (0 - a) \div (0 - b) ELSE a \div b, x, y)

Item(buf, i) == IF i \in 1..Len(buf) THEN buf[i] ELSE Junk

(* Sample i of a buffer read at spfA samples per frame goes with this one of  *)
(* a buffer read at spfB, both starting in the same place.                    *)
With(i, spfA, spfB) == ((i - 1) * spfB) \div spfA + 1

Map(Op(_), buf) == [i \in 1..Len(buf) |-> Op(buf[i])]

-------------------------------------------------------------------------------
(* Integers wrap to the width of the type they are converted to; FLOAT64      *)
(* holds NaN, which as an integer is whatever the machine makes of it.        *)
Modulus(type) == IF type \in {"UINT8", "INT8"} THEN Byte ELSE Word

Wrapped(x, type) ==
  LET m == Modulus(type)
  IN IF type \in {"INT8", "INT64"} THEN ((x + m \div 2) % m) - m \div 2 ELSE x % m

ConvertType(x, type) ==
  IF type = "FLOAT64" THEN x
  ELSE IF Odd(x) THEN Junk ELSE Wrapped(x, type)

FillZero(type) == IF type = "FLOAT64" THEN NaN ELSE 0

FillFileFrame(first, n) == [i \in 1..n |-> first + i - 1]

(* Representations of a purely real sample; the argument is 0 or pi, 3 in an  *)
(* integer.                                                                   *)
ExtractRepr(x, repr) ==
  Lift(LAMBDA a : CASE repr = "m" -> IF a < 0 THEN 0 - a ELSE a
                    [] repr = "a" -> IF a < 0 THEN 3 ELSE 0
                    [] repr = "i" -> 0
                    [] OTHER      -> a, x)

LincomTerm(m, b, x) == Plus(Times(x, m), b)

(* The first input is in the output buffer; the others were read from the     *)
(* sample of theirs that goes with the first one.                             *)
LincomData(m, b, bufs, spf, n) ==
  LET Term(k, i) == LincomTerm(m[k], b[k], Item(bufs[k], With(i, spf[1], spf[k])))
  IN [i \in 1..n |-> IF Len(m) = 1 THEN Term(1, i)
                     ELSE IF Len(m) = 2 THEN Plus(Term(1, i), Term(2, i))
                     ELSE Plus(Plus(Term(1, i), Term(2, i)), Term(3, i))]

MultiplyData(A, spfA, B, spfB, n) ==
  [i \in 1..n |-> Times(Item(A, i), Item(B, With(i, spfA, spfB)))]

DivideData(A, spfA, B, spfB, n) ==
  [i \in 1..n |-> Over(Item(A, i), Item(B, With(i, spfA, spfB)))]

InvertData(buf, dividend) == Map(LAMBDA x : Over(dividend, x), buf)

(* Powers are multiplied out, highest first, up to the fifth.                 *)
PolynomData(buf, a) ==
  LET Power[x \in Int, k \in 0..5] == IF k = 0 THEN 1 ELSE x * Power[x, k - 1]
      Sum[x \in Int, k \in 0..5] ==
        a[k + 1] * Power[x, k] + (IF k = 0 THEN 0 ELSE Sum[x, k - 1])
  IN Map(LAMBDA x : Lift(LAMBDA v : Sum[v, Len(a) - 1], x), buf)

Unsigned(x) == x % Word

BitAnd(x, y) ==
  LET F[a \in Nat, b \in Nat] ==
        IF a = 0 \/ b = 0 THEN 0
        ELSE (a % 2) * (b % 2) + 2 * F[a \div 2, b \div 2]
  IN F[x, y]

WindowHolds(op, x, threshold) ==
  CASE op = "EQ"  -> x = threshold
    [] op = "NE"  -> x # threshold
    [] op = "GE"  -> x >= threshold
    [] op = "GT"  -> x > threshold
    [] op = "LE"  -> x <= threshold
    [] op = "LT"  -> x < threshold
    [] op = "SET" -> BitAnd(Unsigned(x), Unsigned(threshold)) # 0
    [] op = "CLR" -> BitAnd(Word - 1 - Unsigned(x), Unsigned(threshold)) # 0

(* A comparison with NaN is false.                                            *)
WindowData(A, spfA, B, spfB, op, threshold, type, n) ==
  LET Check(i) == Item(B, With(i, spfA, spfB))
  IN [i \in 1..n |->
        IF Check(i) = Junk THEN Junk
        ELSE IF Check(i) # NaN /\ WindowHolds(op, Check(i), threshold)
        THEN Item(A, i) ELSE FillZero(type)]

(* Slip: the held value is not replaced by the samples that match.            *)
MplexDataHolds(A, spfA, B, spfB, val, start, n) ==
  [i \in 1..n |-> IF Item(B, With(i, spfA, spfB)) = val THEN Item(A, i) ELSE start]

(* The last sample whose count was val, start before the first of them.       *)
MplexData(A, spfA, B, spfB, val, start, n) ==
  LET Out[i \in 0..n] ==
        IF i = 0 THEN start
        ELSE LET c == Item(B, With(i, spfA, spfB))
             IN IF c = Junk THEN Junk
                ELSE IF c = val THEN Item(A, i) ELSE Out[i - 1]
  IN [i \in 1..n |-> Out[i]]

(* Writing: samples of A whose count is val are replaced by those of C.  The  *)
(* buffer whose index is scaled is C, not the counts B.                       *)
MplexOutData(A, spfA, B, spfB, C, val) ==
  [i \in 1..Len(A) |->
     IF Item(B, i) = val THEN Item(C, With(i, spfA, spfB)) ELSE A[i]]

-------------------------------------------------------------------------------
(* Bit fields: shift, mask, and for SBIT extend the sign.  The constant that  *)
(* extends it is shifted as an int, which is undefined when it does not fit.  *)
Mask(numbits) == 2 ^ numbits - 1

BitField(x, bitnum, numbits) == BitAnd(Unsigned(x) \div 2 ^ bitnum, Mask(numbits))

BitData(buf, bitnum, numbits) ==
  Map(LAMBDA x : Lift(LAMBDA v : BitField(v, bitnum, numbits), x), buf)

SbitData(buf, bitnum, numbits) ==
  LET Half == 2 ^ (numbits - 1)
      Extend(v) == IF numbits > IntBits THEN Junk
                   ELSE IF v >= Half THEN v - 2 * Half ELSE v
  IN Map(LAMBDA x : Lift(LAMBDA v : Extend(BitField(v, bitnum, numbits)), x), buf)

BitOutData(old, new, bitnum, numbits) ==
  [i \in 1..Len(new) |->
     LET keep == IF i \in 1..Len(old) THEN old[i] ELSE 0
     IN Lift2(LAMBDA o, v : Unsigned(o) - BitField(o, bitnum, numbits) * 2 ^ bitnum
                            + BitAnd(Unsigned(v), Mask(numbits)) * 2 ^ bitnum,
              keep, new[i])]

-------------------------------------------------------------------------------
(* Look-up tables are sequences of pairs <<x, y>>.  A table is sorted after   *)
(* it was read, unless its x run one way all along.                           *)
OneWay(t) == \/ \A i \in 1..(Len(t) - 1) : t[i][1] <= t[i + 1][1]
             \/ \A i \in 1..(Len(t) - 1) : t[i][1] >= t[i + 1][1]

SortTable(t) ==
  LET Rank(i) == 1 + Len(SelectSeq([j \in 1..Len(t) |-> j],
                    LAMBDA j : t[j][1] < t[i][1] \/ (t[j][1] = t[i][1] /\ j < i)))
  IN IF OneWay(t) THEN t
     ELSE [k \in 1..Len(t) |-> t[CHOOSE i \in 1..Len(t) : Rank(i) = k]]

TableMonotonic(t) == LET swap == [i \in 1..Len(t) |-> <<t[i][2], t[i][1]>>]
                     IN OneWay(swap)

(* The segment for x is looked for from the one last used: up while x is      *)
(* above its start, then down while x is below.                               *)
TableIndex(t, x, idx) ==
  LET Up[i \in 1..Len(t)]   == IF i < Len(t) - 1 /\ x > t[i][1] THEN Up[i + 1] ELSE i
      Down[i \in 1..Len(t)] == IF i > 1 /\ x < t[i][1] THEN Down[i - 1] ELSE i
  IN Down[Up[idx]]

LinterpData(buf, t) ==
  LET Idx[i \in 0..Len(buf)] ==
        IF i = 0 THEN 1 ELSE IF Odd(buf[i]) THEN Idx[i - 1]
        ELSE TableIndex(t, buf[i], Idx[i - 1])
      Along(x, k) == t[k][2] + ((t[k + 1][2] - t[k][2]) * (x - t[k][1]))
                                \div (t[k + 1][1] - t[k][1])
  IN [i \in 1..Len(buf) |-> Lift(LAMBDA x : Along(x, Idx[i]), buf[i])]

Swapped(t) == [i \in 1..Len(t) |-> <<t[i][2], t[i][1]>>]
===============================================================================
