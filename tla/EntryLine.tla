----------------------------- MODULE EntryLine -----------------------------
(* A field as the library holds it (gd_entry_t) and the line of a format file *)
(* that defines it: how _GD_FieldSpec (flush.c) writes the line, and how the  *)
(* parsers of parse.c make an entry of it.  A line is a sequence of words;    *)
(* a number is a word of its own kind, so that digits need not be modelled,   *)
(* and free text, which only ends a line, is kept byte by byte.               *)
(*                                                                            *)
(* The field is f, or the metafield f of the field p.                         *)
EXTENDS Tokens

None == "(null)"      \* the null pointer, where a string is expected
Keep == ""            \* the empty string: of an alteration, no change

GD_MAX_LINCOM == 3
GD_MAX_POLYORD == 5

Complex(x, y) == [re |-> x, im |-> y]
Real(x) == Complex(x, 0)
Zero == Real(0)

(* field_type; data_type, const_type or windop; n_fields, poly_ord or         *)
(* array_len; in_fields; the numerical parameters and the scalars that stand  *)
(* for them: LINCOM has its m from 0 and its b from GD_MAX_LINCOM; comp_scal; *)
(* e->calculated; the values of a CONST or CARRAY; the value of a STRING or   *)
(* the path of a LINTERP table; hidden.                                       *)
Slots == 0..GD_MAX_POLYORD
Blank ==
  [type |-> "NONE", sub |-> None, n |-> 0, in |-> [i \in 0..GD_MAX_LINCOM - 1 |-> None],
   lit |-> [i \in Slots |-> Zero], scalar |-> [i \in Slots |-> None],
   cs |-> FALSE, calc |-> FALSE, data |-> <<>>, text |-> <<>>, hidden |-> FALSE]

(* The parameters of a field, in the order they are calculated.               *)
Used(E) ==
  CASE E.type = "LINCOM" ->
         [k \in 1..2 * E.n |-> IF k % 2 = 1 THEN k \div 2 ELSE GD_MAX_LINCOM - 1 + (k \div 2)]
    [] E.type = "POLYNOM" -> [k \in 1..E.n + 1 |-> k - 1]
    [] E.type \in {"BIT", "SBIT", "MPLEX"} -> <<0, 1>>
    [] E.type \in {"RAW", "RECIP", "PHASE", "WINDOW"} -> <<0>>
    [] OTHER -> <<>>
Params(E) == {Used(E)[k] : k \in DOMAIN Used(E)}
Inputs(E) ==
  CASE E.type = "LINCOM" -> 0..E.n - 1
    [] E.type \in {"MULTIPLY", "DIVIDE", "WINDOW", "MPLEX"} -> 0..1
    [] E.type \in {"RAW", "CONST", "CARRAY", "STRING", "NONE"} -> {}
    [] OTHER -> {0}
ComplexTypes == {"LINCOM", "POLYNOM", "RECIP"}

-----------------------------------------------------------------------------
(* Data types.                                                                *)
Unsigned == {"UINT8", "UINT16", "UINT32", "UINT64"}
Signed == {"INT8", "INT16", "INT32", "INT64"}
Floats == {"FLOAT32", "FLOAT64"}
Complexes == {"COMPLEX64", "COMPLEX128"}
DataTypes == Unsigned \cup Signed \cup Floats \cup Complexes

ConstType(t) ==
  CASE t \in Unsigned -> "UINT64" [] t \in Signed -> "INT64"
    [] t \in Floats -> "FLOAT64" [] OTHER -> "COMPLEX128"
ConvertTo(t, z) == IF t \in Complexes THEN z ELSE Real(z.re)

OldName ==
  [t \in {"UINT8", "UINT16", "INT16", "UINT32", "INT32", "FLOAT32", "FLOAT64"} |->
    CASE t = "UINT8" -> "c" [] t = "UINT16" -> "u" [] t = "INT16" -> "s" [] t = "UINT32" -> "U"
      [] t = "INT32" -> "S" [] t = "FLOAT32" -> "f" [] OTHER -> "d"]
OldTypeName(t) == OldName[t]
TypeName(t) == t

LegacyType ==
  [c \in {"n", "c", "u", "s", "U", "i", "S", "f", "d"} |->
    IF c = "n" THEN "NULL" ELSE IF c = "i" THEN "INT32"
    ELSE CHOOSE t \in DOMAIN OldName : OldName[t] = c]

(* The type a word of a line names, as far as the version knows it.           *)
RawType(w, standards, pedantic) ==
  IF w \in DOMAIN LegacyType /\ (~pedantic \/ standards < 8) THEN LegacyType[w]
  ELSE IF pedantic /\ standards < 5 THEN "UNKNOWN"
  ELSE IF w \in (DataTypes \ Complexes) \cup {"NULL"} THEN w
  ELSE IF w = "FLOAT" THEN "FLOAT32"
  ELSE IF w = "DOUBLE" THEN "FLOAT64"
  ELSE IF w \in Complexes /\ ~(pedantic /\ standards < 7) THEN w
  ELSE "UNKNOWN"

Windops == {"EQ", "GE", "GT", "LE", "LT", "NE", "SET", "CLR"}
WindopName(op) == op
WindOp(w) == IF w \in Windops THEN w ELSE "UNK"
ThresholdType(op) ==
  CASE op \in {"EQ", "NE"} -> "INT64" [] op \in {"SET", "CLR"} -> "UINT64" [] OTHER -> "FLOAT64"

-----------------------------------------------------------------------------
(* Writing.                                                                   *)
Token(kind, word, num, text) == [kind |-> kind, word |-> word, num |-> num, text |-> text]
Word(w) == Token("word", w, Zero, <<>>)
Number(x) == Token("number", None, Real(x), <<>>)
Pair(z) == Token("pair", None, z, <<>>)
Text(t) == Token("text", None, Zero, t)

Value(t, z) == IF t = "COMPLEX128" THEN Pair(z) ELSE Number(z.re)
WriteConst(E, i, t) == IF E.scalar[i] # None THEN Word(E.scalar[i]) ELSE Value(t, E.lit[i])
Coefficient(E, i) == WriteConst(E, i, IF E.cs THEN "COMPLEX128" ELSE "FLOAT64")
Written(text, standards) == Text(StringEscapeise(text, standards >= 6))

PadField(meta, standards) ==
  IF ~meta THEN <<Word("f")>>
  ELSE IF standards < 7 THEN <<Word("META"), Word("p"), Word("f")>>
  ELSE <<Word("p/f")>>

Parameters(E, standards) ==
  LET In(i) == Word(E.in[i])
  IN CASE E.type = "RAW" ->
            <<Word(IF standards >= 5 THEN TypeName(E.sub) ELSE OldTypeName(E.sub)),
              WriteConst(E, 0, "UINT16")>>
       [] E.type = "LINCOM" ->
            <<Number(E.n)>> \o FlattenSeq([i \in 1..E.n |->
              <<In(i - 1), Coefficient(E, i - 1), Coefficient(E, i - 1 + GD_MAX_LINCOM)>>])
       [] E.type = "LINTERP" -> <<In(0), Written(E.text, standards)>>
       [] E.type \in {"BIT", "SBIT"} -> <<In(0), WriteConst(E, 0, "INT32"), WriteConst(E, 1, "INT32")>>
       [] E.type \in {"MULTIPLY", "DIVIDE"} -> <<In(0), In(1)>>
       [] E.type = "RECIP" -> <<In(0), WriteConst(E, 0, "COMPLEX128")>>
       [] E.type = "PHASE" -> <<In(0), WriteConst(E, 0, "INT64")>>
       [] E.type = "POLYNOM" -> <<In(0)>> \o [i \in 1..E.n + 1 |-> Coefficient(E, i - 1)]
       [] E.type = "WINDOW" ->
            <<In(0), In(1), Word(WindopName(E.sub)), WriteConst(E, 0, ThresholdType(E.sub))>>
       [] E.type = "MPLEX" ->
            <<In(0), In(1), WriteConst(E, 0, "INT32")>>
              \o (IF E.lit[1].re > 0 \/ E.scalar[1] # None THEN <<WriteConst(E, 1, "INT32")>> ELSE <<>>)
       [] E.type \in {"CONST", "CARRAY"} ->
            <<Word(TypeName(E.sub))>> \o [i \in DOMAIN E.data |-> Value(ConstType(E.sub), E.data[i])]
       [] E.type = "STRING" -> <<Written(E.text, standards)>>

(* Slip: the second count of an MPLEX is forgotten.                           *)
FieldSpecNoMax(E, meta, standards) ==
  IF E.type = "NONE" THEN <<>>
  ELSE PadField(meta, standards) \o <<Word(E.type)>>
         \o Parameters(IF E.type = "MPLEX" THEN [E EXCEPT !.lit[1] = Zero] ELSE E, standards)
FieldSpec(E, meta, standards) ==
  IF E.type = "NONE" THEN <<>>
  ELSE PadField(meta, standards) \o <<Word(E.type)>> \o Parameters(E, standards)
=============================================================================
