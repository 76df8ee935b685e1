-------------------------------- MODULE Formula --------------------------------
(* What a field is, as dirfile-format(5) defines it: sample n of a RAW field  *)
(* is in its file, sample n of any other field is a function of the samples   *)
(* of its inputs that belong to the same instant.  There are no buffers, no   *)
(* positions and no caches here; Derived is checked against this.             *)
(*                                                                            *)
(* def maps names to definitions, files maps RAW fields to their samples.     *)
(* A field that is not given at n has no value there: the set of its values   *)
(* is empty.  An input that is sampled faster than the first one has to be    *)
(* given for all of the time of a sample.  There can be two: an MPLEX field   *)
(* whose value was last given before the reader is told to look has either    *)
(* no value or that one.                                                      *)
EXTENDS Samples

CONSTANTS
  All,         \* GD_LOOKBACK_ALL
  Cycle        \* GD_MPLEX_CYCLE

OneInput  == {"RECIP", "BIT", "SBIT", "PHASE", "LINTERP", "POLYNOM"}
TwoInputs == {"MULTIPLY", "DIVIDE", "WINDOW", "MPLEX"}
Vectors   == OneInput \cup TwoInputs \cup {"RAW", "INDEX", "LINCOM"}

RECURSIVE Spf(_, _), Values(_, _, _, _, _, _)

Spf(def, f) ==
  CASE def[f].type = "RAW"   -> def[f].spf
    [] def[f].type = "INDEX" -> 1
    [] OTHER                 -> Spf(def, def[f].in[1].field)

(* Two's complement digits of x from bitnum on, written without masks.        *)
Digits(x, bitnum, numbits) == ((x % Word) \div 2 ^ bitnum) % 2 ^ numbits

SignedDigits(x, bitnum, numbits) ==
  ((Digits(x, bitnum, numbits) + 2 ^ (numbits - 1)) % 2 ^ numbits)
    - 2 ^ (numbits - 1)

Polynomial(a, x) ==
  LET H[k \in 1..(Len(a) + 1)] == IF k > Len(a) THEN 0 ELSE a[k] + x * H[k + 1]
  IN H[1]

(* Straight lines between the points of the table, the first and the last     *)
(* continued beyond them.                                                     *)
Interpolated(t, x) ==
  LET Next(k)  == CHOOSE j \in 1..Len(t) :
                    /\ t[j][1] > t[k][1]
                    /\ \A i \in 1..Len(t) : t[i][1] > t[k][1] => t[i][1] >= t[j][1]
      top(k)   == \A j \in 1..Len(t) : t[j][1] <= t[k][1]
      Lefts   == {k \in 1..Len(t) : ~top(k)}
      from     == IF \E k \in Lefts : t[k][1] <= x
                  THEN CHOOSE k \in Lefts :
                         /\ t[k][1] <= x
                         /\ \A j \in Lefts : t[j][1] <= x => t[j][1] <= t[k][1]
                  ELSE CHOOSE k \in Lefts : \A j \in Lefts : t[j][1] >= t[k][1]
      to       == Next(from)
  IN t[from][2] + ((t[to][2] - t[from][2]) * (x - t[from][1]))
                  \div (t[to][1] - t[from][1])

Same(def, f, k, n) ==
  (n * Spf(def, def[f].in[k].field)) \div Spf(def, def[f].in[1].field)

(* The last sample of input k that falls in the time of sample n.             *)
SameEnd(def, f, k, n) ==
  ((n + 1) * Spf(def, def[f].in[k].field) - 1) \div Spf(def, def[f].in[1].field)

Combine(Op(_, _), S, T) == {Op(x, y) : x \in S, y \in T}

(* The sample of the count field decides which sample of the input holds.     *)
Held(def, files, f, n, from, look, In(_, _)) ==
  LET e      == def[f]
      cycle  == IF e.max # 0 THEN e.max
                ELSE IF 2 * e.val > Cycle THEN 2 * e.val ELSE Cycle
      floor  == IF look = All THEN 0
                ELSE IF from - look * cycle < 0 THEN 0 ELSE from - look * cycle
      Given  == {m \in 0..n : In(2, m) = {e.val}}
      Recent == {m \in Given : m >= floor}
      Last(S) == CHOOSE m \in S : \A k \in S : k <= m
  IN IF In(2, n) = {} \/ In(1, n) = {} THEN {}
     ELSE IF Recent # {} THEN In(1, Last(Recent))
     ELSE IF Given # {} THEN {NaN} \cup In(1, Last(Given)) ELSE {NaN}

(* The values sample n of field f may have for a reader who starts at from.   *)
Values(def, files, f, n, from, look) ==
  LET e == def[f]
      Of(k, m) == Values(def, files, e.in[k].field, m, Same(def, f, k, from), look)
      In(k, m) == IF k > 1 /\ Of(k, SameEnd(def, f, k, m)) = {} THEN {}
                  ELSE {ExtractRepr(x, e.in[k].repr) : x \in Of(k, Same(def, f, k, m))}
      On1(Op(_)) == {Lift(Op, x) : x \in In(1, n)}
  IN CASE e.type = "RAW" ->
            LET k == n - e.spf * e.offset
            IN IF k < 0 THEN {FillZero(e.data)}
               ELSE IF k < Len(files[f]) THEN {files[f][k + 1]} ELSE {}
       [] e.type = "INDEX"  -> {n}
       [] e.type = "PHASE"  ->
            {ExtractRepr(x, e.in[1].repr) :
               x \in Values(def, files, e.in[1].field, n + e.shift,
                            from + e.shift, look)}
       [] e.type = "LINCOM" ->
            LET T(k) == {LincomTerm(e.m[k], e.b[k], x) : x \in In(k, n)}
            IN IF Len(e.m) = 1 THEN T(1)
               ELSE IF Len(e.m) = 2 THEN Combine(Plus, T(1), T(2))
               ELSE Combine(Plus, Combine(Plus, T(1), T(2)), T(3))
       [] e.type = "MULTIPLY" -> Combine(Times, In(1, n), In(2, n))
       [] e.type = "DIVIDE"   -> Combine(Over, In(1, n), In(2, n))
       [] e.type = "RECIP"    -> On1(LAMBDA x : Over(e.dividend, x))
       [] e.type = "BIT"      -> On1(LAMBDA x : Digits(x, e.bitnum, e.numbits))
       [] e.type = "SBIT"     -> On1(LAMBDA x : SignedDigits(x, e.bitnum, e.numbits))
       [] e.type = "POLYNOM"  -> On1(LAMBDA x : Polynomial(e.a, x))
       [] e.type = "LINTERP"  -> On1(LAMBDA x : Interpolated(e.table, x))
       [] e.type = "WINDOW"   ->
            Combine(LAMBDA x, c : IF c # NaN /\ WindowHolds(e.op, c, e.threshold)
                                  THEN x ELSE NaN, In(1, n), In(2, n))
       [] e.type = "MPLEX"    -> Held(def, files, f, n, from, look, In)

Given(def, files, f, limit) ==
  {n \in 0..limit : Values(def, files, f, n, n, All) # {}}

(* A field begins where the last of its inputs does, but not before 0.        *)
RECURSIVE Begin(_, _)
Begin(def, f) ==
  LET e == def[f]
      InFirst(k) == LET spf1 == Spf(def, e.in[1].field)
                        spfk == Spf(def, e.in[k].field)
                    IN (Begin(def, e.in[k].field) * spf1 + spfk - 1) \div spfk
      Begins == {InFirst(k) : k \in DOMAIN e.in}
  IN CASE e.type = "RAW"   -> e.spf * e.offset
       [] e.type = "INDEX" -> 0
       [] e.type = "PHASE" -> LET b == InFirst(1) - e.shift IN IF b < 0 THEN 0 ELSE b
       [] OTHER -> CHOOSE b \in Begins : \A c \in Begins : c <= b
===============================================================================
