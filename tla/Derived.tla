-------------------------------- MODULE Derived --------------------------------
(* Reading, writing and seeking fields that are computed from other fields:   *)
(* the recursion over a field's definition in getdata.c (_GD_DoField and the  *)
(* functions it calls), putdata.c (_GD_DoFieldOut), fpos.c, flush.c, spf.c,   *)
(* native.c and flimits.c.                                                    *)
(*                                                                            *)
(* The RAW fields at the bottom are those of the module Field: samples and a  *)
(* pointer.  What lies above keeps state of its own between calls: the last   *)
(* sample of each MPLEX field and the depth of the recursion.  Formula says   *)
(* what the samples should be.  Inputs are taken to be resolved and tables    *)
(* to be read; both happen once, on first use.                                *)
EXTENDS Formula, FiniteSets

CONSTANTS
  Dirfiles,    \* the dirfiles that may be opened: their fields and their samples
  Broken,      \* RAW fields whose file may fail to be opened or read
  Types,       \* data types callers ask for
  Starts,      \* sample numbers callers pass
  Counts,      \* numbers of samples
  NewSamples,  \* samples written
  Trials,      \* samples whose writing is considered in every state
  Probes,      \* samples looked through for one a field turns into another
  Lookbacks,   \* arguments of gd_mplex_lookback
  MaxLevel,    \* GD_MAX_RECURSE_LEVEL
  MaxLen,      \* bound: samples a RAW file may grow to
  BufferSize,  \* GD_BUFFER_SIZE: counts an MPLEX field looks at in one go
  Careful      \* leave out the calls that are known to go wrong

Here == -1     \* GD_HERE

ASSUME DerivedAssumption ==
  /\ MaxLevel \in Nat /\ MaxLen \in Nat
  /\ Starts \subseteq Nat /\ Counts \subseteq Nat
  /\ Careful \in BOOLEAN

VARIABLES
  def,       \* the definition of each field
  raw,       \* of each RAW field: samples, whether there is a file, open, pointer
  index,     \* e->u.index_pos of INDEX
  cache,     \* of each MPLEX field: type, sample, d
  level,     \* D->recurse_level
  lookback   \* D->lookback

vars == <<def, raw, index, cache, level, lookback>>

Fields  == DOMAIN def
OfType(T) == {f \in Fields : def[f].type \in T}
Scalars == {"CONST", "STRING"}
Files(r) == [f \in DOMAIN r |-> r[f].data]
NoCache == [type |-> "none", sample |-> 0, d |-> 0]

-------------------------------------------------------------------------------
(* A call is a chain of steps on a record: the state, and what the function   *)
(* called last returned, v, and left in the output buffer, buf.  Steps        *)
(* after an error are skipped.                                                *)

Now(broken) ==
  [raw |-> raw, index |-> index, cache |-> cache, level |-> level, err |-> "OK", v |-> 0, buf |-> <<>>, broken |-> broken]

Ok(st) == st.err = "OK"
Stop(st) == [st EXCEPT !.v = 0, !.buf = <<>>]
Err(st, e) == [Stop(st) EXCEPT !.err = e]
Let(x, Step(_)) == Step(x)
Then(st, Step(_)) == IF Ok(st) THEN Step(st) ELSE Stop(st)
Return(st, v) == [st EXCEPT !.v = v]
Give(st, buf) == [st EXCEPT !.v = Len(buf), !.buf = buf]

(* Slip: an error is returned without counting the level down.                *)
LeaveUnlessError(st) == IF Ok(st) THEN [st EXCEPT !.level = @ - 1] ELSE st
Leave(st) == [st EXCEPT !.level = @ - 1]

TooDeep(st) == st.level + 1 >= MaxLevel

Enter(st, Body(_)) ==
  IF TooDeep(st) THEN Err(st, "RECURSE_LEVEL")
  ELSE Leave(Body([st EXCEPT !.level = @ + 1]))

(* Scalar parameters given by name are looked up when first needed.           *)
CalculateEntry(st, f) == IF def[f].scalars THEN st ELSE Err(st, "BAD_SCALAR")

In(f, k) == def[f].in[k].field
Repr(f, k) == def[f].in[k].repr

(* An input has to exist; a scalar field is no input.                         *)
BadInput(st, f, k) ==
  IF In(f, k) \notin Fields THEN Err(st, "BAD_CODE")
  ELSE IF def[In(f, k)].type \in Scalars THEN Err(st, "DIMENSION") ELSE st

RECURSIVE GetSPF(_, _), NativeType(_, _), GetFilePos(_, _, _), Seek(_, _, _, _),
          Flush(_, _, _), GetEOF(_, _), GetBOF(_, _), DoField(_, _, _, _, _, _),
          LookIn(_, _, _, _), DoFieldOut(_, _, _, _, _, _)

GetSPF(st, f) ==
  Enter(st, LAMBDA s0 :
    CASE def[f].type = "RAW" ->
           Then(CalculateEntry(s0, f), LAMBDA s : Return(s, def[f].spf))
      [] def[f].type = "INDEX" -> Return(s0, 1)
      [] OTHER -> Then(BadInput(s0, f, 1), LAMBDA s : GetSPF(s, In(f, 1))))

(* A table that cannot be read.                                               *)
ReadLinterpFile(st, f) ==
  IF def[f].table = <<>> THEN Err(st, "OPEN_LINFILE") ELSE st

(* All fields here are real, so that of the native type only the errors on    *)
(* the way to it are left.                                                    *)
NativeType(st, f) ==
  LET Of(s0, k) == Then(BadInput(s0, f, k), LAMBDA s : NativeType(s, In(f, k)))
  IN Enter(st, LAMBDA s0 :
       CASE def[f].type \in {"RAW", "INDEX", "BIT", "SBIT"} -> s0
         [] def[f].type = "LINTERP" ->
              ReadLinterpFile(s0, f)
         [] def[f].type = "LINCOM" ->
              LET Each[k \in 0..Len(def[f].in)] ==
                    IF k = 0 THEN CalculateEntry(s0, f)
                    ELSE Then(Each[k - 1], LAMBDA s : Of(s, k))
              IN Each[Len(def[f].in)]
         [] def[f].type \in {"MULTIPLY", "DIVIDE"} ->
              Then(BadInput(s0, f, 1), LAMBDA s1 :
              Then(BadInput(s1, f, 2), LAMBDA s2 :
              Then(Of(s2, 1), LAMBDA s : Of(s, 2))))
         [] OTHER -> Then(CalculateEntry(s0, f), LAMBDA s : Of(s, 1)))

-------------------------------------------------------------------------------
(* RAW fields: opening starts at the first sample of the file.                *)
Bof(f) == def[f].spf * def[f].offset
Eof(st, f) == Bof(f) + Len(st.raw[f].data)

InitRawIO(st, f, mode) ==
  IF st.raw[f].open THEN st
  ELSE IF f \in st.broken \/ (mode = "READ" /\ ~st.raw[f].exists)
  THEN Err(st, "RAW_IO")
  ELSE [st EXCEPT !.raw[f].open = TRUE, !.raw[f].exists = TRUE, !.raw[f].pos = Bof(f)]

Least(a, b) == IF a < b THEN a ELSE b
Greatest(a, b) == IF a < b THEN b ELSE a

SampleAt(st, f, n) ==
  IF n < Bof(f) THEN FillZero(def[f].data) ELSE st.raw[f].data[n - Bof(f) + 1]

(* Padding before the first sample needs no file.  The position of a file     *)
(* that is not open does not outlive its opening, and is left at 0.           *)
DoRaw(st, f, first, n, type) ==
  LET pad  == Greatest(0, Bof(f) - first)
      got  == Least(n, Greatest(0, Eof(st, f) - first))
      Out(m) == [i \in 1..m |-> ConvertType(SampleAt(st, f, first + i - 1), type)]
      s0   == IF pad > 0 /\ st.raw[f].open THEN [st EXCEPT !.raw[f].pos = first + Least(pad, n)] ELSE st
  IN IF n <= pad THEN Give(s0, Out(n))
     ELSE Then(InitRawIO(s0, f, "READ"), LAMBDA s :
            IF f \in s.broken THEN Err(s, "RAW_IO")
            ELSE [Give(s, Out(got)) EXCEPT !.raw[f].pos = first + got])

DoRawOut(st, f, first, vals) ==
  LET k == first - Bof(f)
      Cell(i) == IF i > k /\ i <= k + Len(vals)
                 THEN ConvertType(vals[i - k], def[f].data)
                 ELSE IF i <= Len(st.raw[f].data) THEN st.raw[f].data[i] ELSE 0
  IN IF first < Bof(f) THEN Err(st, "RANGE")
     ELSE Then(InitRawIO(st, f, "WRITE"), LAMBDA s :
            IF f \in s.broken THEN Err(s, "RAW_IO")
            ELSE [Return(s, Len(vals)) EXCEPT
                    !.raw[f].pos = first + Len(vals),
                    !.raw[f].data =
                      [i \in 1..Greatest(Len(@), k + Len(vals)) |-> Cell(i)]])

(* Where reading or writing with GD_HERE starts.  The second input of a       *)
(* two-input field is not asked; the shift of a PHASE field is added.         *)
GetFilePos(st, f, index_pos) ==
  Enter(st, LAMBDA s0 :
    CASE def[f].type = "RAW" ->
           Then(InitRawIO(s0, f, "READ"), LAMBDA s : Return(s, s.raw[f].pos))
      [] def[f].type = "INDEX" ->
           Return(s0, IF index_pos = -1 THEN s0.index ELSE index_pos)
      [] def[f].type = "PHASE" ->
           Then(BadInput(s0, f, 1), LAMBDA s1 :
           Then(GetFilePos(s1, In(f, 1), -1), LAMBDA s :
             Return(s, IF s.v >= 0 THEN s.v + def[f].shift ELSE s.v)))
      [] def[f].type = "LINCOM" ->
           LET Each[k \in 1..Len(def[f].in)] ==
                 IF k = 1
                 THEN Then(BadInput(s0, f, 1), LAMBDA s : GetFilePos(s, In(f, 1), -1))
                 ELSE Then(Each[k - 1], LAMBDA p :
                      Then(BadInput(p, f, k), LAMBDA b :
                      Then(GetFilePos(b, In(f, k), p.v), LAMBDA s :
                        IF s.v = p.v THEN s ELSE Err(s, "DOMAIN"))))
           IN Each[Len(def[f].in)]
      [] def[f].type \in TwoInputs ->
           Then(BadInput(s0, f, 1), LAMBDA s1 :
           Then(BadInput(s1, f, 2), LAMBDA s2 :
           Then(GetFilePos(s2, In(f, 1), 0), LAMBDA p :
           Then(GetFilePos(p, In(f, 1), p.v), LAMBDA s :
             IF s.v = p.v THEN s ELSE Err(s, "DOMAIN")))))
      [] OTHER ->
           Then(BadInput(s0, f, 1), LAMBDA s : GetFilePos(s, In(f, 1), -1)))

Seek(st, f, offset, mode) ==
  Enter(st, LAMBDA s0 :
    CASE def[f].type = "RAW" ->
           Then(InitRawIO(s0, f, mode), LAMBDA s : [s EXCEPT !.raw[f].pos = offset])
      [] def[f].type = "INDEX" -> [s0 EXCEPT !.index = offset]
      [] def[f].type = "PHASE" ->
           Then(BadInput(s0, f, 1), LAMBDA s :
             Seek(s, In(f, 1), offset + def[f].shift, mode))
      [] def[f].type = "LINCOM" ->
           LET Input(p, k) == Then(BadInput([p EXCEPT !.err = "OK"], f, k),
                                   LAMBDA t : Seek(t, In(f, k), offset, mode))
               Kept(s, err) == [s EXCEPT !.err = IF Ok(s) THEN err ELSE @]
               Each[k \in 0..Len(def[f].in)] ==
                 IF k = 0 THEN s0
                 ELSE Let(Each[k - 1], LAMBDA p :
                        IF \E j \in 1..(k - 1) : ~Ok(BadInput(s0, f, j)) THEN p
                        ELSE Kept(Input(p, k), p.err))
           IN Each[Len(def[f].in)]   \* a seek that fails stops no other
      [] def[f].type \in TwoInputs ->
           Then(BadInput(s0, f, 2), LAMBDA s1 :
           Then(Seek(s1, In(f, 2), offset, mode), LAMBDA s2 :
           Then(BadInput(s2, f, 1), LAMBDA s : Seek(s, In(f, 1), offset, mode))))
      [] OTHER ->
           Then(BadInput(s0, f, 1), LAMBDA s : Seek(s, In(f, 1), offset, mode)))

(* Closing the files below a field: the second input of a LINCOM field that   *)
(* has only one is a null pointer.                                            *)
Flush(st, f, close) ==
  LET Input(s, k) == Then(s, LAMBDA t : IF k <= Len(def[f].in)
                                        THEN Flush(t, In(f, k), close)
                                        ELSE Err(t, "CRASH"))
  IN Enter(st, LAMBDA s0 :
       CASE def[f].type = "RAW"    -> IF close THEN [s0 EXCEPT !.raw[f].open = FALSE,
                                                          !.raw[f].pos = 0]
                                     ELSE s0
         [] def[f].type = "LINCOM" ->
              Input(Input(IF Len(def[f].in) = 3 THEN Input(s0, 3) ELSE s0, 2), 1)
         [] def[f].type \in TwoInputs -> Input(Input(s0, 2), 1)
         [] def[f].type \in OneInput  -> Input(s0, 1)
         [] OTHER -> s0)

-------------------------------------------------------------------------------
(* Where a field ends and begins.  INDEX has no end: the others come first.   *)
(* v is the end, buf is <<"INDEX">> as long as only INDEX was met.            *)
NoEnd(st) == st.buf = <<"INDEX">>

Trunc(a, b) == IF a >= 0 THEN a \div b ELSE 0 - ((0 - a) \div b)
CeilDiv(a, b) == (a + b - 1) \div b

(* Slip: the end of the second input is not converted to samples of the first.*)
EndInFirstUnscaled(ns, spf0, spf1) == ns
EndInFirst(ns, spf0, spf1) == (ns * spf0) \div spf1

(* The end so far, in samples of the first input, and that of input k.        *)
GetEOFNext(st, f, k) ==
  Then(GetSPF(st, In(f, 1)), LAMBDA p0 :
  Then(BadInput(p0, f, k), LAMBDA b :
  Then(GetEOF(b, In(f, k)), LAMBDA e1 :
    IF NoEnd(e1) THEN [e1 EXCEPT !.v = st.v, !.buf = st.buf]
    ELSE Then(GetSPF(e1, In(f, k)), LAMBDA p1 :
           LET ns1 == EndInFirst(e1.v, p0.v, p1.v)
           IN IF NoEnd(st) \/ ns1 < st.v THEN [p1 EXCEPT !.v = ns1, !.buf = <<>>]
              ELSE [p1 EXCEPT !.v = st.v, !.buf = <<>>]))))

GetEOF(st, f) ==
  Enter(st, LAMBDA s0 :
    CASE def[f].type = "RAW" ->
           IF ~s0.raw[f].exists \/ f \in s0.broken THEN Err(s0, "RAW_IO")
           ELSE [s0 EXCEPT !.v = Eof(s0, f), !.buf = <<>>]
      [] def[f].type = "INDEX" -> [s0 EXCEPT !.v = -1, !.buf = <<"INDEX">>]
      [] def[f].type = "PHASE" ->
           Then(BadInput(s0, f, 1), LAMBDA s1 :
           Then(GetEOF(s1, In(f, 1)), LAMBDA s :
             [s EXCEPT !.v = Greatest(0, IF NoEnd(s) THEN s.v
                                         ELSE s.v - def[f].shift)]))
      [] def[f].type = "LINCOM" \/ def[f].type \in TwoInputs ->
           LET Each[k \in 1..Len(def[f].in)] ==
                 IF k = 1
                 THEN Then(BadInput(s0, f, 1), LAMBDA s : GetEOF(s, In(f, 1)))
                 ELSE Then(Each[k - 1], LAMBDA s : GetEOFNext(s, f, k))
           IN Each[Len(def[f].in)]
      [] OTHER ->
           Then(BadInput(s0, f, 1), LAMBDA s : GetEOF(s, In(f, 1))))

(* The beginning is kept as a frame and samples: v = <<bof, spf, ds>>.        *)
Later(a, b) == a[1] > b[1] \/ (a[1] = b[1] /\ a[3] * b[2] > b[3] * a[2])

GetBOF(st, f) ==
  Enter(st, LAMBDA s0 :
    CASE def[f].type = "RAW"   -> Return(s0, <<def[f].offset, def[f].spf, 0>>)
      [] def[f].type = "INDEX" -> Return(s0, <<0, 1, 0>>)
      [] def[f].type = "PHASE" ->
           Then(BadInput(s0, f, 1), LAMBDA s1 :
           Then(GetBOF(s1, In(f, 1)), LAMBDA s :
             LET d == s.v[3] - def[f].shift
             IN Return(s, <<Greatest(0, s.v[1] + d \div s.v[2]), s.v[2],
                            d % s.v[2]>>)))
      [] def[f].type = "LINCOM" \/ def[f].type \in TwoInputs ->
           LET Each[k \in 1..Len(def[f].in)] ==
                 IF k = 1
                 THEN Then(BadInput(s0, f, 1), LAMBDA s : GetBOF(s, In(f, 1)))
                 ELSE Then(Each[k - 1], LAMBDA p :
                      Then(BadInput(p, f, k), LAMBDA b :
                      Then(GetBOF(b, In(f, k)), LAMBDA s :
                        Return(s, IF Later(s.v, p.v)
                                  THEN <<s.v[1], p.v[2], (s.v[3] * p.v[2]) \div s.v[2]>>
                                  ELSE p.v))))
           IN Each[Len(def[f].in)]
      [] OTHER ->
           Then(BadInput(s0, f, 1), LAMBDA s : GetBOF(s, In(f, 1))))

-------------------------------------------------------------------------------
(* Reading.  The first input is read where and for as long as was asked, the  *)
(* second for the time that took, and the shorter of the two counts.          *)

(* Slip: what is missing of the second input is not missed.                   *)
TogetherLong(n1, spf1, n2, spf2) == n1
Together(n1, spf1, n2, spf2) ==
  IF n2 > 0 /\ n2 * spf1 < n1 * spf2 THEN (n2 * spf1) \div spf2 ELSE n1

(* Slip: the second input is read from the same sample number.                *)
SecondSampleSame(first, spf1, spf2) == first
SecondSample(first, spf1, spf2) == Trunc(first * spf2, spf1)

SecondCount(n, spf1, spf2) == CeilDiv(n * spf2, spf1)

(* Both inputs, handed to Out; nothing if nothing of the first one was read.  *)
Paired(st, f, first, n, type, type2, Out(_, _, _, _)) ==
  Then(BadInput(st, f, 1), LAMBDA b1 :
  Then(BadInput(b1, f, 2), LAMBDA b2 :
  Then(GetSPF(b2, In(f, 1)), LAMBDA p1 :
  Then(DoField(p1, In(f, 1), Repr(f, 1), first, n, type), LAMBDA A :
    IF A.v = 0 THEN A
    ELSE Then(GetSPF(A, In(f, 2)), LAMBDA p2 :
         Then(DoField(p2, In(f, 2), Repr(f, 2), SecondSample(first, p1.v, p2.v),
                      SecondCount(A.v, p1.v, p2.v), type2), LAMBDA B :
           Out(A.buf, p1.v, B, p2.v)))))))

DoMultiply(st, f, first, n, type) ==
  Paired(st, f, first, n, type, "FLOAT64", LAMBDA A, spf1, B, spf2 :
    Give(B, MultiplyData(A, spf1, B.buf, spf2, Together(Len(A), spf1, B.v, spf2))))

DoDivide(st, f, first, n, type) ==
  Paired(st, f, first, n, type, "FLOAT64", LAMBDA A, spf1, B, spf2 :
    Give(B, DivideData(A, spf1, B.buf, spf2, Together(Len(A), spf1, B.v, spf2))))

CheckType(op) == CASE op \in {"EQ", "NE"} -> "INT64"
                   [] op \in {"SET", "CLR"} -> "UINT64"
                   [] OTHER -> "FLOAT64"

DoWindow(st, f, first, n, type) ==
  Paired(st, f, first, n, type, CheckType(def[f].op), LAMBDA A, spf1, B, spf2 :
    Give(B, WindowData(A, spf1, B.buf, spf2, def[f].op, def[f].threshold, type,
                       Together(Len(A), spf1, B.v, spf2))))

(* All rates first, then the inputs one by one, as long as there are samples. *)
LincomReady(st, f) ==
  LET Ready[k \in 0..Len(def[f].in)] ==
        IF k = 0 THEN [st |-> st, spf |-> <<>>]
        ELSE Let(Ready[k - 1], LAMBDA p :
             Let(Then(Then(p.st, LAMBDA t : BadInput(t, f, k)),
                      LAMBDA t : GetSPF(t, In(f, k))), LAMBDA s :
               [st |-> s, spf |-> Append(p.spf, s.v)]))
  IN Ready[Len(def[f].in)]

LincomRead(st, f, spf, first, n, type) ==
  LET Input(s, k, p) ==
        [st |-> s, bufs |-> Append(p.bufs, s.buf),
         n  |-> IF k = 1 THEN s.v
                ELSE IF s.v * spf[1] # p.n * spf[k]
                THEN (s.v * spf[1]) \div spf[k] ELSE p.n]
      Read[k \in 0..Len(def[f].in)] ==
        IF k = 0 THEN [st |-> st, n |-> n, bufs |-> <<>>]
        ELSE Let(Read[k - 1], LAMBDA p :
               IF k > 1 /\ p.n = 0 THEN [p EXCEPT !.st = Stop(@)]
               ELSE Input(DoField(p.st, In(f, k), Repr(f, k),
                                  SecondSample(first, spf[1], spf[k]),
                                  SecondCount(p.n, spf[1], spf[k]),
                                  IF k = 1 THEN type ELSE "FLOAT64"), k, p))
  IN Read[Len(def[f].in)]

DoLincom(st, f, first, n, type) ==
  Let(LincomReady(st, f), LAMBDA ready :
    IF ~Ok(ready.st) THEN Stop(ready.st)
    ELSE Let(LincomRead(ready.st, f, ready.spf, first, n, type), LAMBDA read :
         Then(read.st, LAMBDA s :
           Give(s, LincomData(def[f].m, def[f].b, read.bufs, ready.spf, read.n)))))

(* Fields of one input: what becomes of the samples of the input, read as in. *)
DoOne(st, f, first, n, in, Out(_)) ==
  Then(BadInput(st, f, 1), LAMBDA b :
  Then(DoField(b, In(f, 1), Repr(f, 1), first, n, in), LAMBDA s : Give(s, Out(s.buf))))

Converted(buf, type) == Map(LAMBDA x : ConvertType(x, type), buf)

DoBit(st, f, first, n, type) ==
  DoOne(st, f, first, n, "UINT64", LAMBDA buf :
    Converted(BitData(buf, def[f].bitnum, def[f].numbits), type))

DoSbit(st, f, first, n, type) ==
  DoOne(st, f, first, n, "INT64", LAMBDA buf :
    Converted(SbitData(buf, def[f].bitnum, def[f].numbits), type))

DoRecip(st, f, first, n, type) ==
  DoOne(st, f, first, n, type, LAMBDA buf : InvertData(buf, def[f].dividend))

DoPolynom(st, f, first, n, type) ==
  DoOne(st, f, first, n, type, LAMBDA buf : PolynomData(buf, def[f].a))

(* Slip: the shift is applied the other way.                                  *)
DoPhaseBack(st, f, first, n, type) ==
  DoOne(st, f, first - def[f].shift, n, type, LAMBDA buf : buf)
DoPhase(st, f, first, n, type) ==
  DoOne(st, f, first + def[f].shift, n, type, LAMBDA buf : buf)

(* It is an error to ask for a buffer of no samples.                          *)
Table(f) == SortTable(def[f].table)

AllocFor(st, n) == IF n = 0 THEN Err(st, "INTERNAL") ELSE st

DoLinterp(st, f, first, n, type) ==
  Then(ReadLinterpFile(st, f), LAMBDA t :
  Then(BadInput(t, f, 1), LAMBDA b :
  Then(AllocFor(b, n), LAMBDA a :
    DoOne(a, f, first, n, "FLOAT64", LAMBDA buf :
      Converted(LinterpData(buf, Table(f)), type)))))

-------------------------------------------------------------------------------
(* MPLEX: the sample before the first one read is remembered from the last    *)
(* read, or looked for backwards in chunks of the count field.  A chunk of    *)
(* which nothing can be read is searched from before its start.               *)
LookIn(st, f, end, floor) ==
  LET size == Least(end - floor, BufferSize)
      Found(buf) == {i \in 1..Len(buf) : buf[i] = def[f].val}
      Last(S) == CHOOSE i \in S : \A j \in S : j <= i
  IN Then(AllocFor(st, size), LAMBDA a :
     Then(DoField(a, In(f, 2), Repr(f, 2), end - size, size, "INT"), LAMBDA s :
       IF s.v = 0 THEN Err(s, "CRASH")
       ELSE IF Found(s.buf) # {} THEN Return(s, end - size + Last(Found(s.buf)) - 1)
       ELSE IF end - size > floor THEN LookIn(s, f, end - size, floor)
       ELSE Return(s, -1)))

LookBackFloor(f, first2) ==
  LET cycle == IF def[f].max # 0 THEN def[f].max ELSE Greatest(2 * def[f].val, Cycle)
  IN IF lookback = All THEN 0 ELSE Greatest(0, first2 - lookback * cycle)

(* Slip: the value that was remembered is used wherever reading starts.       *)
RememberedAnywhere(st, f, first, type) == st.cache[f].type = type
Remembered(st, f, first, type) ==
  st.cache[f].type = type /\ st.cache[f].sample = first

(* After a look back the inputs are put where reading left them.              *)
(* Slip: the first input stays where the value was found.                     *)
PutBackSecond(st, f, end, end2) == Seek(st, In(f, 2), end2, "READ")
PutBack(st, f, end, end2) ==
  Then(Seek(st, In(f, 1), end, "READ"), LAMBDA s : Seek(s, In(f, 2), end2, "READ"))

(* The value held when the read starts, in v.                                 *)
MplexStart(st, f, first, n1, spf1, B, spf2, type) ==
  LET first2 == SecondSample(first, spf1, spf2)
      Back(s) == PutBack(s, f, first + n1, first2 + B.v)
      At(s) == DoField(s, In(f, 1), Repr(f, 1), Trunc(s.v * spf1, spf2), 1, type)
  IN IF Remembered(st, f, first, type) THEN Return(B, B.cache[f].d)
     ELSE IF Item(B.buf, 1) = def[f].val \/ lookback = 0 THEN Return(B, FillZero(type))
     ELSE Then(LookIn(B, f, first2, LookBackFloor(f, first2)), LAMBDA s :
            IF s.v = -1 THEN Then(Back(s), LAMBDA t : Return(t, FillZero(type)))
            ELSE Then(At(s), LAMBDA x :
                 Then(Back(x), LAMBDA t :
                   Return(t, IF x.v = 0 THEN FillZero(type) ELSE x.buf[1]))))

Remember(st, f, first, type) ==
  IF st.v = 0 THEN st
  ELSE [st EXCEPT !.cache[f] = [type |-> type, sample |-> first + st.v,
                                d |-> st.buf[st.v]]]

DoMplex(st, f, first, n, type) ==
  Paired(st, f, first, n, type, "INT", LAMBDA A, spf1, B, spf2 :
    Then(MplexStart(st, f, first, Len(A), spf1, B, spf2, type), LAMBDA s :
      LET m   == Together(Len(A), spf1, B.v, spf2)
          out == MplexData(A, spf1, B.buf, spf2, def[f].val, s.v, m)
      IN Remember(Give(s, out), f, first, type)))

(* The switch of _GD_DoField.                                                 *)
DoVector(st, f, first, n, type) ==
  CASE def[f].type = "RAW"      -> DoRaw(st, f, first, n, type)
    [] def[f].type = "INDEX"    -> Give(st, FillFileFrame(first, n))
    [] def[f].type = "LINCOM"   -> DoLincom(st, f, first, n, type)
    [] def[f].type = "LINTERP"  -> DoLinterp(st, f, first, n, type)
    [] def[f].type = "BIT"      -> DoBit(st, f, first, n, type)
    [] def[f].type = "SBIT"     -> DoSbit(st, f, first, n, type)
    [] def[f].type = "RECIP"    -> DoRecip(st, f, first, n, type)
    [] def[f].type = "POLYNOM"  -> DoPolynom(st, f, first, n, type)
    [] def[f].type = "PHASE"    -> DoPhase(st, f, first, n, type)
    [] def[f].type = "MULTIPLY" -> DoMultiply(st, f, first, n, type)
    [] def[f].type = "DIVIDE"   -> DoDivide(st, f, first, n, type)
    [] def[f].type = "WINDOW"   -> DoWindow(st, f, first, n, type)
    [] def[f].type = "MPLEX"    -> DoMplex(st, f, first, n, type)

(* The early returns, one of them not an error, leave the level counted up.   *)
(* A read that starts at sample -1 is taken to mean "from here".              *)
DoField(st, f, repr, first, n, type) ==
  IF TooDeep(st) THEN Err(st, "RECURSE_LEVEL")
  ELSE Then(CalculateEntry([st EXCEPT !.level = @ + 1], f), LAMBDA in :
       Then(NativeType(in, f), LAMBDA native :
       Then(IF first = Here THEN GetFilePos(native, f, -1)
            ELSE Return(native, first), LAMBDA at :
         IF repr = "i" THEN Give(at, [i \in 1..n |-> 0])
         ELSE Leave(Then(DoVector(at, f, at.v, n, type), LAMBDA s :
                      Give(s, Map(LAMBDA x : ExtractRepr(x, repr), s.buf)))))))

-------------------------------------------------------------------------------
(* Writing goes down through the one input a field has.                       *)
PutOne(st, f, first, vals, type) ==
  Then(BadInput(st, f, 1), LAMBDA s :
    DoFieldOut(s, In(f, 1), Repr(f, 1), first, vals, type))

Unscaled(vals, m, b) == Map(LAMBDA y : Over(Plus(y, 0 - b), m), vals)

DoLincomOut(st, f, first, vals, type) ==
  IF Len(def[f].in) > 1 THEN Err(st, "BAD_FIELD_TYPE")
  ELSE PutOne(st, f, first, Unscaled(vals, def[f].m[1], def[f].b[1]), type)

DoPolynomOut(st, f, first, vals, type) ==
  IF Len(def[f].a) > 2 THEN Err(st, "BAD_FIELD_TYPE")
  ELSE PutOne(st, f, first, Unscaled(vals, def[f].a[2], def[f].a[1]), type)

DoRecipOut(st, f, first, vals, type) ==
  PutOne(st, f, first, InvertData(vals, def[f].dividend), type)

(* Slip: samples are written where they are asked for.                        *)
DoPhaseOutHere(st, f, first, vals, type) == PutOne(st, f, first, vals, type)
DoPhaseOut(st, f, first, vals, type) ==
  PutOne(st, f, first + def[f].shift, vals, type)

DoLinterpOut(st, f, first, vals, type) ==
  Then(BadInput(st, f, 1), LAMBDA b :
  Then(ReadLinterpFile(b, f), LAMBDA t :
    IF ~TableMonotonic(Table(f)) THEN Err(t, "DOMAIN")
    ELSE PutOne(t, f, first, LinterpData(vals, Swapped(Table(f))), "FLOAT64")))

(* Slip: the other bits are not read first.                                   *)
DoBitOutBlind(st, f, first, vals, type) ==
  PutOne(st, f, first, BitOutData(<<>>, vals, def[f].bitnum, def[f].numbits), "UINT64")

(* Samples of the input that are not there yet are taken to be 0.             *)
DoBitOut(st, f, first, vals, type) ==
  Then(BadInput(st, f, 1), LAMBDA b :
  Then(DoField(b, In(f, 1), Repr(f, 1), first, Len(vals), "UINT64"), LAMBDA s :
    PutOne(s, f, first,
           BitOutData(s.buf, vals, def[f].bitnum, def[f].numbits), "UINT64")))

Padded(buf, m) == [i \in 1..m |-> IF i <= Len(buf) THEN buf[i] ELSE 0]

DoMplexOut(st, f, first, vals, type) ==
  LET n == Len(vals)
  IN Then(BadInput(st, f, 1), LAMBDA b1 :
     Then(BadInput(b1, f, 2), LAMBDA b2 :
     Then(GetSPF(b2, In(f, 1)), LAMBDA p1 :
     Then(GetSPF(p1, In(f, 2)), LAMBDA p2 :
     Then(DoField(p2, In(f, 1), Repr(f, 1), first, n, type), LAMBDA A :
     Then(DoField(A, In(f, 2), Repr(f, 2), SecondSample(first, p1.v, p2.v),
                  SecondCount(n, p1.v, p2.v), "INT"), LAMBDA B :
       PutOne(B, f, first,
              MplexOutData(Padded(A.buf, n), p1.v,
                           Padded(B.buf, SecondCount(n, p1.v, p2.v)), p2.v, vals,
                           def[f].val), type)))))))

DoVectorOut(st, f, first, vals, type) ==
  CASE def[f].type = "RAW"     -> DoRawOut(st, f, first, vals)
    [] def[f].type = "LINCOM"  -> DoLincomOut(st, f, first, vals, type)
    [] def[f].type = "LINTERP" -> DoLinterpOut(st, f, first, vals, type)
    [] def[f].type \in {"BIT", "SBIT"} -> DoBitOut(st, f, first, vals, type)
    [] def[f].type = "RECIP"   -> DoRecipOut(st, f, first, vals, type)
    [] def[f].type = "POLYNOM" -> DoPolynomOut(st, f, first, vals, type)
    [] def[f].type = "PHASE"   -> DoPhaseOut(st, f, first, vals, type)
    [] def[f].type = "MPLEX"   -> DoMplexOut(st, f, first, vals, type)
    [] OTHER                   -> Err(st, "BAD_FIELD_TYPE")

(* Here too some returns leave the level counted up; so do the functions      *)
(* called after the position could not be found, which are called all the     *)
(* same and return at once.                                                   *)
LevelsLost(f) == CASE def[f].type = "MPLEX" -> 2
                   [] def[f].type \in {"BIT", "SBIT", "PHASE"} -> 1
                   [] OTHER -> 0

DoFieldOut(st, f, repr, first, vals, type) ==
  IF TooDeep(st) THEN Err(st, "RECURSE_LEVEL")
  ELSE Then(CalculateEntry([st EXCEPT !.level = @ + 1], f), LAMBDA in :
         IF repr # "none" THEN Err(in, "BAD_REPR")
         ELSE Let(IF first = Here THEN GetFilePos(in, f, -1) ELSE Return(in, first),
                  LAMBDA at :
                IF ~Ok(at) THEN [Leave(Stop(at)) EXCEPT !.level = @ + LevelsLost(f)]
                ELSE Leave(DoVectorOut(at, f, at.v, vals, type))))

-------------------------------------------------------------------------------
(* The calls of the interface.  Frames are converted to samples.              *)
NotScalar(st, f) == IF def[f].type \in Scalars THEN Err(st, "DIMENSION") ELSE st

InSamples(st, f, frame, samp, frames, samps) ==
  LET fr == IF frame = Here \/ samp = Here THEN 0 ELSE frame
      sa == IF frame = Here \/ samp = Here THEN Here ELSE samp
  IN Then(IF fr > 0 \/ frames > 0 THEN GetSPF(st, f) ELSE Return(st, 0), LAMBDA s :
       Let(sa + s.v * fr, LAMBDA first :
         IF first < 0 /\ (first # Here \/ fr # 0) THEN Err(s, "RANGE")
         ELSE Return(s, <<first, samps + s.v * frames>>)))

GetData(st, f, repr, frame, samp, frames, samps, type) ==
  Then(NotScalar(st, f), LAMBDA s0 :
  Then(InSamples(s0, f, frame, samp, frames, samps), LAMBDA s :
    DoField(s, f, repr, s.v[1], s.v[2], type)))

PutData(st, f, repr, frame, samp, frames, vals, type) ==
  Then(NotScalar(st, f), LAMBDA s0 :
  Then(InSamples(s0, f, frame, samp, frames, Len(vals)), LAMBDA s :
    IF s.v[2] = 0 THEN Return(s, 0)
    ELSE DoFieldOut(s, f, repr, s.v[1], vals, type)))

Tell(st, f) == Then(NotScalar(st, f), LAMBDA s : GetFilePos(s, f, -1))

EndOf(st, f) ==
  Then(GetEOF(st, f), LAMBDA e : IF NoEnd(e) THEN Err(e, "BAD_FIELD_TYPE") ELSE e)

SeekTo(st, f, frame, samp, whence, mode) ==
  Then(NotScalar(st, f), LAMBDA s0 :
  Then(IF frame # 0 THEN GetSPF(s0, f) ELSE Return(s0, 0), LAMBDA p :
  Then(CASE whence = "SET" -> Return(p, 0)
         [] whence = "CUR" -> GetFilePos(p, f, 1)
         [] whence = "END" -> EndOf([p EXCEPT !.buf = <<>>], f),
       LAMBDA at :
  Then(Seek(at, f, samp + frame * p.v + at.v, mode), LAMBDA s : GetFilePos(s, f, 1)))))

BeginOf(st, f) ==
  Then(GetBOF(st, f), LAMBDA s : Return(s, s.v[1] * s.v[2] + s.v[3]))

NFrames(st) ==
  LET r == CHOOSE f \in OfType({"RAW"}) : def[f].reference
  IN IF ~st.raw[r].exists THEN Err(st, "RAW_IO")
     ELSE Return(st, Len(st.raw[r].data) \div def[r].spf + def[r].offset)

-------------------------------------------------------------------------------
(* Which calls a careful program makes.  Without these restrictions the       *)
(* properties below do not hold: the README says what goes wrong.             *)
RECURSIVE Sound(_, _, _), Streams(_)

Has(f, first, n) ==
  Let(GetEOF(Now({}), f),
      LAMBDA e : IF NoEnd(e) THEN n ELSE Greatest(0, Least(n, e.v - first)))

(* A second input is in step when sample numbers divide evenly, so much of    *)
(* the first was read that the same holds for the count, and there is         *)
(* something to read.                                                         *)
InStep(f, k, first, n) ==
  LET spf1   == Spf(def, In(f, 1))
      spf2   == Spf(def, In(f, k))
      first2 == SecondSample(first, spf1, spf2)
      n2     == SecondCount(n, spf1, spf2)
  IN n > 0 => /\ (first * spf2) % spf1 = 0
              /\ def[f].type = "LINCOM" => (n * spf2) % spf1 = 0
              /\ Has(In(f, k), first2, n2) > 0
              /\ Sound(In(f, k), first2, n2)

(* Looking back from the first sample, where there is nothing behind.         *)
LooksBackFromStart(f, first) ==
  /\ lookback # 0
  /\ SecondSample(first, Spf(def, In(f, 1)), Spf(def, In(f, 2))) = 0
  /\ Has(In(f, 2), 0, 1) > 0
  /\ def[f].val \notin Values(def, Files(raw), In(f, 2), 0, 0, All)

Resolves(f) == /\ def[f].scalars
               /\ \A k \in DOMAIN def[f].in :
                    /\ In(f, k) \in Fields /\ Repr(f, k) # "i"
                    /\ def[In(f, k)].type \notin Scalars

(* No sample -1, no imaginary part of a real input, no input that cannot be   *)
(* resolved, no table that cannot be read, no field too wide for an int.      *)
Sound(f, first, n) ==
  /\ first # Here /\ Resolves(f)
  /\ CASE def[f].type \in {"RAW", "INDEX"} -> TRUE
       [] def[f].type = "PHASE" -> Sound(In(f, 1), first + def[f].shift, n)
       [] def[f].type = "LINTERP" ->
            n > 0 /\ def[f].table # <<>> /\ Sound(In(f, 1), first, n)
       [] def[f].type = "SBIT" -> def[f].numbits <= IntBits /\ Sound(In(f, 1), first, n)
       [] def[f].type = "LINCOM" \/ def[f].type \in TwoInputs ->
            /\ Sound(In(f, 1), first, n)
            /\ \A k \in 2..Len(def[f].in) :
                 InStep(f, k, first, Has(In(f, 1), first, n))
            /\ def[f].type = "MPLEX" =>
                 /\ first >= 0 /\ ~LooksBackFromStart(f, first)
                 /\ Sound(In(f, 1), 0, 1) /\ Sound(In(f, 2), 0, 1)
       [] OTHER -> Sound(In(f, 1), first, n)

(* Reading on from here: INDEX does not move, and PHASE adds its shift when   *)
(* it should take it away.                                                    *)
Streams(f) == /\ def[f].type \notin {"INDEX", "PHASE"} \cup Scalars
              /\ \A k \in DOMAIN def[f].in : In(f, k) \in Fields /\ Streams(In(f, k))

Files0(st) == Files(st.raw)

(* The sample an MPLEX field remembers is still its sample.                   *)
Fresh(st) ==
  \A f \in OfType({"MPLEX"}) :
    LET last == st.cache[f].sample - 1
    IN st.cache[f].type # "none" =>
         Values(def, Files0(st), f, last, last, All)
           = Values(def, Files(raw), f, last, last, All)

MayRead(f, first, n) == Careful => Sound(f, first, n)
MayStream(f) == Careful => Streams(f) /\ Resolves(f)
MayPut(f, first, n, after) ==
  Careful => /\ Sound(f, first, n) /\ Fresh(after)
             /\ def[f].type = "MPLEX" => Spf(def, In(f, 1)) = Spf(def, In(f, 2))

-------------------------------------------------------------------------------
Commit(s) ==
  /\ raw' = s.raw /\ index' = s.index /\ cache' = s.cache /\ level' = s.level
  /\ UNCHANGED <<def, lookback>>

Init ==
  /\ \E d \in Dirfiles :
       /\ def = d.def
       /\ raw = [f \in DOMAIN d.data |->
                   [data |-> d.data[f], exists |-> d.data[f] # <<>>, open |-> FALSE,
                    pos |-> 0]]
       /\ cache = [f \in {g \in DOMAIN d.def : d.def[g].type = "MPLEX"} |-> NoCache]
  /\ index = 0 /\ level = 0
       /\ lookback \in IF DOMAIN cache = {} THEN {0} ELSE Lookbacks

Repeat(x, n) == [i \in 1..n |-> x]

gd_getdata ==
  \E f \in Fields, first \in Starts, n \in Counts, type \in Types,
     b \in SUBSET (Broken \cap Fields) :
    /\ MayRead(f, first, n)
    /\ Commit(GetData(Now(b), f, "none", 0, first, 0, n, type))

gd_getdata_here ==
  \E f \in Fields, n \in Counts :
    /\ MayStream(f) /\ Has(f, 0, 1) > 0
    /\ \A at \in {Tell(Now({}), f)} :
         /\ Ok(at) => MayRead(f, at.v, n)
         /\ Careful => Ok(at)
    /\ Commit(GetData(Now({}), f, "none", 0, Here, 0, n, "FLOAT64"))

gd_putdata ==
  \E f \in Fields, first \in Starts, x \in NewSamples, n \in Counts :
    \E s \in {PutData(Now({}), f, "none", 0, first, 0, Repeat(x, n), "FLOAT64")} :
      /\ MayPut(f, first, n, s)
      /\ \A g \in DOMAIN raw : Len(s.raw[g].data) <= MaxLen
      /\ Commit(s)

gd_seek ==
  \E f \in Fields, n \in Starts, whence \in {"SET", "CUR", "END"} :
    \E s \in {SeekTo(Now({}), f, 0, n, whence, "READ")} :
      /\ MayStream(f)
      /\ \A g \in DOMAIN raw : s.raw[g].pos <= MaxLen
      /\ Commit(s)

(* gd_flush and gd_raw_close                                                  *)
gd_flush ==
  \E f \in Fields :
    \E s \in {Flush(Now({}), f, TRUE)} : (Careful => s.err # "CRASH") /\ Commit(s)

(* gd_tell opens the files it asks for their positions.                       *)
gd_tell ==
  \E f \in Fields : \E s \in {Tell(Now({}), f)} : (Careful => Ok(s)) /\ Commit(s)

gd_mplex_lookback ==
  \E l \in Lookbacks :
    /\ cache # <<>> /\ lookback' = l
    /\ Careful => \A f \in DOMAIN cache : cache[f] = NoCache
    /\ UNCHANGED <<def, raw, index, cache, level>>

(* The program that acquires the data adds to a file.                         *)
Grow ==
  \E r \in DOMAIN raw, x \in NewSamples :
    /\ Len(raw[r].data) < MaxLen
    /\ raw' = [raw EXCEPT ![r].data = Append(@, x), ![r].exists = TRUE]
    /\ UNCHANGED <<def, index, cache, level, lookback>>

Next == \/ gd_getdata \/ gd_getdata_here \/ gd_putdata \/ gd_seek \/ gd_flush
        \/ gd_tell \/ gd_mplex_lookback \/ Grow

Spec == Init /\ [][Next]_vars

-------------------------------------------------------------------------------
RECURSIVE Exist(_), CanHold(_, _), ClearBegin(_)

Exist(f) == /\ def[f].type = "RAW" => raw[f].exists
            /\ \A k \in DOMAIN def[f].in : Exist(In(f, k))

ReadOf(f, first, n) == GetData(Now({}), f, "none", 0, first, 0, n, "FLOAT64")

Vector(f) == def[f].type \notin Scalars

(* Whatever was read, written, sought, flushed or acquired before, a read     *)
(* returns the samples the definition of the field gives, as many of them as  *)
(* there are (_GD_DoField and all that it calls).                             *)
ReadsMean ==
  \A f \in Fields, first \in Starts, n \in Counts :
    (Vector(f) /\ MayRead(f, first, n) /\ Exist(f)) =>
      \E s \in {ReadOf(f, first, n)},
         V \in {[m \in first..(first + n - 1) |->
                  Values(def, Files(raw), f, m, first, lookback)]} :
        /\ Ok(s) /\ Len(s.buf) = Cardinality({m \in DOMAIN V : V[m] # {}})
        /\ \A i \in 1..Len(s.buf) : s.buf[i] \in V[first + i - 1]

(* Reading from here goes on where the last read stopped, and starts where a  *)
(* seek went to, for every field that is told one position                    *)
(* (_GD_GetFilePos, _GD_Seek, and the positions left by _GD_DoField).         *)
One(st, f, first) == GetData(st, f, "none", 0, first, 0, 1, "FLOAT64")

HereContinues ==
  \A f \in Fields, first \in Starts, n \in Counts :
    (Vector(f) /\ MayStream(f) /\ MayRead(f, first, n) /\ Exist(f)) =>
      \E s \in {ReadOf(f, first, n)}, k \in {SeekTo(Now({}), f, 0, first, "SET", "READ")} :
        \A c \in {<<s, first + s.v>>, <<k, first>>} :
          (MayRead(f, c[2], 1) /\ Ok(Tell(c[1], f))) =>
             One(c[1], f, Here).buf = One(c[1], f, c[2]).buf

(* The numbers a field can hold, down to the file.                            *)
CanHold(f, y) ==
  LET On1(Op(_)) == \E x \in Probes : Op(x) = y /\ CanHold(In(f, 1), x)
  IN CASE def[f].type = "RAW"     -> ConvertType(y, def[f].data) = y
       [] def[f].type = "LINCOM"  -> On1(LAMBDA x : x * def[f].m[1] + def[f].b[1])
       [] def[f].type = "POLYNOM" -> On1(LAMBDA x : Polynomial(def[f].a, x))
       [] def[f].type = "RECIP"   -> On1(LAMBDA x : IF x = 0 THEN NaN
                                                    ELSE IF x * y = def[f].dividend
                                                         THEN y ELSE NaN)
       [] def[f].type = "LINTERP" -> On1(LAMBDA x : Interpolated(Table(f), x))
       [] def[f].type = "BIT"     -> y \in 0..Mask(def[f].numbits)
       [] def[f].type = "SBIT"    -> y = SignedDigits(y, 0, def[f].numbits)
       [] OTHER                   -> CanHold(In(f, 1), y)

Apart(f, g) ==
  /\ {def[f].type, def[g].type} \subseteq {"BIT", "SBIT"} /\ In(f, 1) = In(g, 1)
  /\ \/ def[f].bitnum + def[f].numbits <= def[g].bitnum
     \/ def[g].bitnum + def[g].numbits <= def[f].bitnum

(* What is written to a field is what is then read from it, where the count   *)
(* is right if it is MPLEX; samples before and after it are as they were,     *)
(* and so are the other bits (_GD_DoFieldOut and all that it calls).          *)
Counted(st, f, m) ==
  def[f].type = "MPLEX" =>
    Values(def, Files0(st), In(f, 2), Same(def, f, 2, m), m, All) = {def[f].val}

PutsRead ==
  \A f \in Fields, first \in Starts, x \in Trials, n \in Counts :
    \A s \in {PutData(Now({}), f, "none", 0, first, 0, Repeat(x, n), "FLOAT64")} :
      (/\ Vector(f) /\ MayPut(f, first, n, s) /\ Ok(s)
       /\ \A r \in DOMAIN raw : Len(s.raw[r].data) <= MaxLen) =>
        \A g \in Fields, m \in 0..(2 * MaxLen) :
          (g = f \/ Apart(f, g)) =>
            \E before \in {Values(def, Files(raw), g, m, m, All)},
               after \in {Values(def, Files0(s), g, m, m, All)} :
              IF g = f /\ m \in first..(first + n - 1)
              THEN (Counted(s, f, m) /\ CanHold(f, x)) => after = {x}
              ELSE (Counted(s, f, m) /\ before # {}) => after = before

(* A shift that takes the beginning to before frame 0 leaves it some samples  *)
(* too far on, and fractions of samples are dropped.                          *)
ClearBegin(f) ==
  LET spf(k) == Spf(def, In(f, k))
      Begins(k) == Begin(def, In(f, k))
  IN /\ \A k \in DOMAIN def[f].in :
          ClearBegin(In(f, k)) /\ (Begins(k) * spf(1)) % spf(k) = 0
     /\ def[f].type = "PHASE" => \/ Begins(1) >= def[f].shift
                                 \/ (Begins(1) - def[f].shift) % spf(1) = 0

(* The end of a field is where its samples end, and it begins with the first  *)
(* of them that every input has from its own beginning on                     *)
(* (_GD_GetEOF, _GD_GetBOF), unless a shift moved its beginning to before     *)
(* the first frame or between two samples.                                    *)
LimitsAgree ==
  \A f \in Fields :
    (Vector(f) /\ Resolves(f) /\ Exist(f)) =>
      \E e \in {EndOf(Now({}), f)} :
        /\ Ok(e) => e.v = Cardinality(Given(def, Files(raw), f, 4 * MaxLen))
        /\ (Careful => ClearBegin(f)) => BeginOf(Now({}), f).v = Begin(def, f)

(* The depth of the recursion is back at none between calls.                  *)
LevelRestored == level = 0
===============================================================================
