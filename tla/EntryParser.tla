---------------------------- MODULE EntryParser ----------------------------
(* How a line of a format file becomes an entry: _GD_ParseFieldSpec and the   *)
(* parsers of the field types (parse.c), and the version a field needs, as    *)
(* _GD_FindVersion (flush.c) works it out.                                    *)
EXTENDS EntryLine

(* What a parser has made so far: the entry, and whether the line is wrong.   *)
New(type) == [E |-> [Blank EXCEPT !.type = type], error |-> FALSE]
Wrong(S) == [S EXCEPT !.error = TRUE]
WrongIf(S, bad) == [S EXCEPT !.error = @ \/ bad]
In(S, i, w) == [S EXCEPT !.E.in[i] = w.word]

(* Is there anything but numbers in the parameters?                           *)
ScalarIn(E) == \E i \in Slots : E.scalar[i] # None

(* A number as a parameter of some type; the other types are wide enough.     *)
Cast(x, t) == IF t = "UINT16" THEN x % 65536 ELSE x

(* Words taken as the parameters of some type at some slots: what is no       *)
(* number is the name of a scalar field.                                      *)
SetScalars(S, words, t) ==
  LET Pair_(w) == w.kind = "pair"
      Name(w) == IF w.kind # "number" /\ ~Pair_(w) THEN w.word
                 ELSE IF Pair_(w) /\ t \notin {"FLOAT64", "COMPLEX128"} THEN "re;im" ELSE None
      num == {i \in DOMAIN words : Name(words[i]) = None /\ (Pair_(words[i]) => t = "COMPLEX128")}
  IN WrongIf([S EXCEPT
       !.E.scalar = [i \in Slots |-> IF i \in DOMAIN words /\ Name(words[i]) # None THEN Name(words[i]) ELSE @[i]],
       !.E.lit = [i \in Slots |->
                   IF i \notin num THEN @[i]
                   ELSE Complex(Cast(words[i].num.re, t), IF Pair_(words[i]) THEN words[i].num.im ELSE 0)],
       !.E.cs = @ \/ \E i \in num : Pair_(words[i])],
       t = "FLOAT64" /\ \E i \in DOMAIN words : Pair_(words[i]))
SetScalar(S, i, w, t) == SetScalars(S, [k \in {i} |-> w], t)

ParseRaw(c, standards, pedantic, meta) ==
  LET t == RawType(c[3].word, standards, pedantic)
      S == SetScalar([New("RAW") EXCEPT !.E.sub = t], 0, c[4], "UINT16")
  IN IF Len(c) < 4 \/ meta THEN Wrong(New("RAW"))
     ELSE WrongIf([S EXCEPT !.E.calc = ~ScalarIn(S.E)],
                  t \notin DataTypes \/ (~ScalarIn(S.E) /\ S.E.lit[0].re <= 0))

(* The number of fields may be left out.                                      *)
ParseLincom(c, standards, pedantic) ==
  LET told == c[3].kind = "number"
      n == IF told THEN c[3].num.re ELSE (Len(c) - 2) \div 3
      first == IF told THEN 3 ELSE 2
      Word3(i, k) == c[first + 3 * i + k]
      T == [New("LINCOM") EXCEPT !.E.in = [i \in DOMAIN @ |-> IF i < n THEN Word3(i, 1).word ELSE @[i]]]
      S == SetScalars(T, [i \in {s \in Slots : s % GD_MAX_LINCOM < n} |->
                            Word3(i % GD_MAX_LINCOM, 2 + (i \div GD_MAX_LINCOM))], "COMPLEX128")
  IN IF \/ Len(c) < 3
        \/ ~told /\ Len(c) % 3 # 2
        \/ n \notin 1..GD_MAX_LINCOM
        \/ told /\ Len(c) < n * 3 + 3
     THEN Wrong(New("LINCOM"))
     ELSE [S EXCEPT !.E.n = n, !.E.calc = ~ScalarIn(S.E)]

ParseLinterp(c) ==
  IF Len(c) < 4 THEN Wrong(New("LINTERP"))
  ELSE [In(New("LINTERP"), 0, c[3]) EXCEPT !.E.text = c[4].text, !.E.calc = TRUE]

TwoInputs(type, c) == In(In(New(type), 0, c[3]), 1, c[4])
ParseMultiply(c) == IF Len(c) < 4 THEN Wrong(New("MULTIPLY")) ELSE [TwoInputs("MULTIPLY", c) EXCEPT !.E.calc = TRUE]
ParseDivide(c) == IF Len(c) < 4 THEN Wrong(New("DIVIDE")) ELSE TwoInputs("DIVIDE", c)

ParseRecip(c) ==
  LET S == SetScalar(In(New("RECIP"), 0, c[3]), 0, c[4], "COMPLEX128")
  IN IF Len(c) < 4 THEN Wrong(New("RECIP"))
     ELSE [S EXCEPT !.E.cs = S.E.lit[0].im # 0]

ParseWindow(c) ==
  LET op == WindOp(c[5].word)
      S == SetScalar(TwoInputs("WINDOW", c), 0, c[6], ThresholdType(op))
  IN IF Len(c) < 6 THEN Wrong(New("WINDOW"))
     ELSE IF op = "UNK" THEN Wrong(New("WINDOW"))
     ELSE [S EXCEPT !.E.sub = op]

(* The largest count may be left out.                                         *)
ParseMplex(c) ==
  LET T == SetScalar(TwoInputs("MPLEX", c), 0, c[5], "UINT16")
      S == IF Len(c) > 5 THEN SetScalar(T, 1, c[6], "UINT16") ELSE T
      val == S.E.lit[0].re
      max == S.E.lit[1].re
  IN IF Len(c) < 5 THEN Wrong(New("MPLEX"))
     ELSE WrongIf(S, max < 0 \/ (~ScalarIn(S.E) /\ (val < 0 \/ (max > 0 /\ val >= max))))

ParseBit(type, c) ==
  LET T == SetScalar(In(New(type), 0, c[3]), 0, c[4], "INT32")
      S == IF Len(c) > 4 THEN SetScalar(T, 1, c[5], "INT32") ELSE [T EXCEPT !.E.lit[1] = Real(1)]
      bitnum == S.E.lit[0].re
      numbits == S.E.lit[1].re
  IN IF Len(c) < 4 THEN Wrong(New(type))
     ELSE WrongIf([S EXCEPT !.E.calc = ~ScalarIn(S.E)],
                  \/ S.E.scalar[1] = None /\ numbits < 1
                  \/ S.E.scalar[0] = None /\ bitnum < 0
                  \/ ~ScalarIn(S.E) /\ bitnum + numbits - 1 > 63)

ParsePhase(c) ==
  LET S == SetScalar(In(New("PHASE"), 0, c[3]), 0, c[4], "INT64")
  IN IF Len(c) < 4 THEN Wrong(New("PHASE")) ELSE [S EXCEPT !.E.calc = ~ScalarIn(S.E)]

(* Words after the last coefficient there can be are ignored.                 *)
ParsePolynom(c) ==
  LET n == IF Len(c) - 4 \in 1..GD_MAX_POLYORD THEN Len(c) - 4 ELSE GD_MAX_POLYORD
      S == SetScalars(In(New("POLYNOM"), 0, c[3]), [i \in 0..n |-> c[i + 4]], "COMPLEX128")
  IN IF Len(c) < 5 THEN Wrong(New("POLYNOM"))
     ELSE [S EXCEPT !.E.n = n, !.E.calc = ~ScalarIn(S.E)]

(* The values of a CONST or CARRAY, which must be numbers.  After a wrong     *)
(* value a CARRAY goes on with memory it has freed (parse.c:1314); here the   *)
(* line is only wrong.                                                        *)
Values(S, c, last) ==
  LET t == ConstType(S.E.sub)
      V == [i \in 4..last |-> SetScalar(S, 0, c[i], t)]
  IN WrongIf([S EXCEPT !.E.calc = TRUE, !.E.data = [i \in 1..last - 3 |-> V[i + 3].E.lit[0]]],
             \E i \in 4..last : V[i].error \/ ScalarIn(V[i].E))
ParseConst(c, standards, pedantic) ==
  LET S == [New("CONST") EXCEPT !.E.sub = RawType(c[3].word, standards, pedantic)]
  IN IF Len(c) < 4 THEN Wrong(New("CONST"))
     ELSE IF S.E.sub \notin DataTypes THEN Wrong(S) ELSE Values(S, c, 4)
ParseCarray(c, standards, pedantic) ==
  LET S == [New("CARRAY") EXCEPT !.E.sub = RawType(c[3].word, standards, pedantic), !.E.n = Len(c) - 3]
  IN IF Len(c) < 4 THEN Wrong(New("CARRAY"))
     ELSE IF S.E.sub \notin DataTypes THEN Wrong(S) ELSE Values(S, c, Len(c))

ParseString(c) ==
  IF Len(c) < 3 THEN Wrong(New("STRING"))
  ELSE [New("STRING") EXCEPT !.E.text = c[3].text, !.E.calc = TRUE]

(* The version from which on a type of field is known.                        *)
Since(type) ==
  CASE type = "MULTIPLY" -> 2
    [] type = "PHASE" -> 4
    [] type \in {"CONST", "STRING"} -> 6
    [] type \in {"POLYNOM", "SBIT"} -> 7
    [] type \in {"DIVIDE", "RECIP", "CARRAY"} -> 8
    [] type \in {"WINDOW", "MPLEX"} -> 9
    [] OTHER -> 0

(* The words of a field specification, the name first.                        *)
ParseFieldSpec(c, standards, pedantic, meta) ==
  LET type == c[2].word
  IN IF Len(c) < 2 THEN Wrong(New("NONE"))
     ELSE IF pedantic /\ standards < Since(type) THEN Wrong(New("NONE"))
     ELSE CASE type = "RAW" -> ParseRaw(c, standards, pedantic, meta)
            [] type = "LINCOM" -> ParseLincom(c, standards, pedantic)
            [] type = "LINTERP" -> ParseLinterp(c)
            [] type = "MULTIPLY" -> ParseMultiply(c)
            [] type = "DIVIDE" -> ParseDivide(c)
            [] type = "RECIP" -> ParseRecip(c)
            [] type = "WINDOW" -> ParseWindow(c)
            [] type = "MPLEX" -> ParseMplex(c)
            [] type \in {"BIT", "SBIT"} -> ParseBit(type, c)
            [] type = "PHASE" -> ParsePhase(c)
            [] type = "POLYNOM" -> ParsePolynom(c)
            [] type = "CONST" -> ParseConst(c, standards, pedantic)
            [] type = "CARRAY" -> ParseCarray(c, standards, pedantic)
            [] type = "STRING" -> ParseString(c)
            [] OTHER -> Wrong(New("NONE"))

(* The words of a line as it is in the file: the text at its end is split and *)
(* rid of its escapes.                                                        *)
Words(line, escapes) ==
  LET last == line[Len(line)]
      t == Tokenise(last.text \o <<Newline>>, escapes)
  IN IF line = <<>> \/ last.kind # "text" THEN [c |-> line, error |-> FALSE]
     ELSE [c |-> Front(line) \o [i \in DOMAIN t.cols |-> Text(t.cols[i])], error |-> t.error]

(* A whole line: META, a name with the parent in it, or a plain field.        *)
Directive(c) == c[1].word = "META"
Specification(c) == IF Directive(c) THEN Tail(Tail(c)) ELSE c
Known_(c, standards) ==
  IF Directive(c) THEN standards \in 6..7 ELSE c[1].word = "p/f" => standards >= 7
Found(S, meta) == [meta |-> meta, E |-> S.E, error |-> S.error]
ReadWords(c, standards, pedantic, meta) ==
  Found(WrongIf(ParseFieldSpec(Specification(c), standards, pedantic, meta), pedantic /\ ~Known_(c, standards)), meta)
ReadLine(line, standards, pedantic) ==
  LET Read_(w) ==
        IF w.error THEN Found(Wrong(New("NONE")), FALSE)
        ELSE ReadWords(w.c, standards, pedantic, Directive(w.c) \/ w.c[1].word = "p/f")
  IN Read_(Words(line, ~pedantic \/ standards >= 6))

-----------------------------------------------------------------------------
(* Slip: a metafield is taken for any field.                                  *)
EarliestLoose(E, meta) ==
  LET type ==
        IF E.hidden THEN 9
        ELSE IF E.type = "RAW" THEN
          IF E.sub \in Complexes THEN 7 ELSE IF E.sub \in {"INT8", "INT64", "UINT64"} THEN 5 ELSE 0
        ELSE IF E.type = "CONST" /\ E.sub \in Complexes THEN 7
        ELSE IF E.type = "BIT" THEN
          IF E.lit[1].re > 1 THEN 1 ELSE IF E.lit[0].re + E.lit[1].re - 1 > 32 THEN 5 ELSE 0
        ELSE IF E.type \in {"LINCOM", "LINTERP", "NONE"} THEN 0
        ELSE Since(E.type)
  IN type

(* The first version in which a field can be written.                         *)
Earliest(E, meta) ==
  LET type ==
        IF E.hidden THEN 9
        ELSE IF E.type = "RAW" THEN
          IF E.sub \in Complexes THEN 7 ELSE IF E.sub \in {"INT8", "INT64", "UINT64"} THEN 5 ELSE 0
        ELSE IF E.type = "CONST" /\ E.sub \in Complexes THEN 7
        ELSE IF E.type = "BIT" THEN
          IF E.lit[1].re > 1 THEN 1 ELSE IF E.lit[0].re + E.lit[1].re - 1 > 32 THEN 5 ELSE 0
        ELSE IF E.type \in {"LINCOM", "LINTERP", "NONE"} THEN 0
        ELSE Since(E.type)
  IN IF meta /\ type < 6 THEN 6 ELSE type
=============================================================================
