----------------------------- MODULE FieldSpec -----------------------------
(* One field's definition: the calls that define it (add.c), change it        *)
(* (mod.c), hide it and fetch its parameters (entry.c), choose the version of *)
(* the Dirfile Standards (flush.c), and the format file it is written to and  *)
(* read from again (flush.c, parse.c, open.c).                                *)
(*                                                                            *)
(* The dirfile is open read-write, has one fragment, unprotected and without  *)
(* affixes, and beside the field f, which may be a metafield of a RAW field   *)
(* p, some CONST fields.  What the library holds of the field is D.E; what    *)
(* the callers of the calls that succeeded were promised is due.              *)
EXTENDS EntryParser, EntryChange, Definitions

CONSTANTS
  Args,      \* by call, the arguments that are tried
  Consts,    \* the sets of CONST fields the dirfile may have, with their values
  Samples,   \* the samples written to a RAW field
  Tables,    \* the look-up tables there are, by path
  Calls,     \* the bound on the number of calls
  Relaxed    \* the one precaution the callers do not take, or "none"

IsNumber(z) == z = Complex(z.re, z.im)
Numbers(list) == DOMAIN list = 1..Len(list) /\ \A i \in DOMAIN list : IsNumber(list[i])

(* An entry a caller makes.  Only fields of the complex types have numbers    *)
(* that are not real, and few have a data type or a count.                    *)
IsGiven(N) ==
  /\ DOMAIN N = DOMAIN Blank
  /\ DOMAIN N.lit = Slots /\ DOMAIN N.scalar = Slots /\ DOMAIN N.in = DOMAIN Blank.in
  /\ \A i \in Slots : IsNumber(N.lit[i]) /\ (N.lit[i].im # 0 => N.type \in ComplexTypes)
  /\ N.n \in Nat /\ (N.n # 0 => N.type \in {"LINCOM", "POLYNOM", "CARRAY"})
  /\ N.sub # None => N.type \in {"RAW", "WINDOW", "CONST", "CARRAY"}
  /\ {N.cs, N.hidden} \subseteq BOOLEAN

(* A scalar may be the number of samples in a frame, which is not 0.          *)
ASSUME FieldSpecAssumption ==
  /\ Calls \in Nat
  /\ \A consts \in Consts : \A c \in DOMAIN consts : IsNumber(consts[c]) /\ consts[c].re \in Nat \ {0}
  /\ \A N \in Args.entry : IsGiven(N)
  /\ \A N \in Args.altered : IsGiven(N) /\ (N.type = "POLYNOM" => N.n <= GD_MAX_POLYORD)
  /\ \A a \in Args.lincom \cup Args.alter_lincom : a[1] \in Nat /\ Numbers(a[3]) /\ Numbers(a[4])
  /\ \A a \in Args.polynom \cup Args.alter_polynom : a[1] \in Nat /\ Numbers(a[3])
  /\ \A a \in Args.recip \cup Args.alter_recip : IsNumber(a[2])
  /\ \A a \in Args.carray : Numbers(a[2])

Versions == 0..9
LatestVersion == 9
GD_VERSION_CURRENT == -1
GD_VERSION_LATEST == -2
GD_VERSION_EARLIEST == -3

VARIABLES
  D,      \* the dirfile in memory, and the data and table files
  disk,   \* the format file
  due,    \* what the field should be
  saved   \* what it was when the format file was written

vars == <<D, disk, due, saved>>

-----------------------------------------------------------------------------
(* The versions the dirfile conforms to.                                      *)
FindVersion(d) ==
  {v \in Versions : v >= Earliest(d.E, d.meta)
                    /\ \A c \in DOMAIN d.consts : v >= (IF d.consts[c].im = 0 THEN 6 ELSE 7)}
Known(d) == IF d.have THEN d ELSE [d EXCEPT !.av = FindVersion(d), !.have = TRUE]
(* Slip: one too many.                                                        *)
NewestPast(S) == 1 + CHOOSE v \in S : \A w \in S : w <= v
Newest(S) == CHOOSE v \in S : \A w \in S : w <= v
Oldest(S) == CHOOSE v \in S : \A w \in S : w >= v

(* A format file, and what is found when it is opened.  Metafields are left   *)
(* out of one that cannot have any.  Without a /VERSION line it is read       *)
(* leniently.                                                                 *)
FlushFragment(d) ==
  [version |-> d.standards, told |-> d.standards >= 5,
   line |-> IF d.meta /\ d.standards < 6 THEN <<>> ELSE FieldSpec(d.E, d.meta, d.standards),
   hidden |-> d.E.hidden /\ d.standards >= 9]
Hiding(file, S, known) == WrongIf([S EXCEPT !.E.hidden = file.hidden], file.hidden /\ ~known)
ReadAt(file, v, pedantic) ==
  IF file.line = <<>> THEN Found(New("NONE"), FALSE)
  ELSE Hiding(file, ReadLine(file.line, v, pedantic), ~pedantic \/ v >= 9)
Read(file) == ReadAt(file, IF file.told THEN file.version ELSE LatestVersion, file.told)

-----------------------------------------------------------------------------
(* entry.c: fetching the scalars.  The first that is not there ends it, with  *)
(* comp_scal as far as it got.                                                *)
CalculateEntry(d) ==
  LET E == d.E
      used == Used(E)
      Missing(k) == E.scalar[used[k]] # None /\ E.scalar[used[k]] \notin DOMAIN d.consts
      missing == {k \in DOMAIN used : Missing(k)}
      last == IF missing = {} THEN Len(used) ELSE Oldest(missing) - 1
      fetched == {used[k] : k \in 1..last}
      lit == [i \in Slots |->
               IF i \notin fetched \/ E.scalar[i] = None THEN E.lit[i]
               ELSE IF E.type \in ComplexTypes THEN d.consts[E.scalar[i]]
               ELSE Real(d.consts[E.scalar[i]].re)]
      looked == IF missing = {} THEN Params(E)
                ELSE IF E.type = "LINCOM" THEN {used[k] : k \in 1..last + 1 + ((last + 1) % 2)}
                ELSE {used[k] : k \in 1..last + 1}
      cs == E.type \in ComplexTypes /\ \E i \in looked : lit[i].im # 0
  IN [d EXCEPT !.E.lit = lit, !.E.cs = cs, !.E.calc = missing = {}, !.error = missing # {}]

gd_entry_(d) == IF d.E.calc THEN [d EXCEPT !.error = FALSE] ELSE CalculateEntry(d)

-----------------------------------------------------------------------------
(* add.c: the entry made from the one the caller gives.                       *)
Given_(N, i) == IF N.cs THEN N.lit[i] ELSE Real(N.lit[i].re)
Copy(N) ==
  LET last == IF N.type = "POLYNOM" THEN N.n - 1 ELSE GD_MAX_POLYORD
      E == [Blank EXCEPT !.type = N.type, !.hidden = N.hidden]
      used == IF N.n > GD_MAX_POLYORD THEN {} ELSE Params(N)
      lit == [i \in Slots |->
               IF i \notin used THEN Zero
               ELSE IF N.type \in ComplexTypes THEN Given_(N, i) ELSE Real(N.lit[i].re)]
  IN [E EXCEPT !.sub = N.sub, !.n = N.n, !.in = N.in, !.text = N.text, !.lit = lit,
        !.cs = N.type \in ComplexTypes /\ \E i \in used : lit[i].im # 0,
        !.scalar = [i \in Slots |-> IF i \in used /\ i <= last THEN N.scalar[i] ELSE None],
        !.data = [i \in 1..(CASE N.type = "CONST" -> 1 [] N.type = "CARRAY" -> N.n [] OTHER -> 0) |-> Zero]]

Refused(N, meta) ==
  LET x == N.lit[0].re
      y == N.lit[1].re
  IN CASE N.type = "RAW" -> meta \/ x = 0 \/ N.sub \notin DataTypes
       [] N.type = "LINCOM" -> N.n \notin 1..GD_MAX_LINCOM
       [] N.type = "POLYNOM" -> N.n \notin 1..GD_MAX_POLYORD
       [] N.type \in {"BIT", "SBIT"} -> y < 1 \/ x < 0 \/ x + y - 1 > 63
       [] N.type = "WINDOW" -> N.sub \notin Windops
       [] N.type = "MPLEX" -> y < 0 \/ (y > 0 /\ x >= y)
       [] N.type \in {"CONST", "CARRAY"} -> N.sub \notin DataTypes
       [] OTHER -> FALSE

(* A field enters the dirfile.                                                *)
Install(d, E, meta) ==
  [d EXCEPT !.E = E, !.meta = meta, !.dirty = TRUE, !.have = FALSE, !.error = FALSE]

Failed(d) == [d EXCEPT !.error = TRUE]
Spend(d) == [d EXCEPT !.room = @ - 1]
MayCall == D.room > 0

(* Adding is for a name that is free.  A scalar for the last coefficient of a *)
(* POLYNOM is forgotten (add.c:471), an array of no elements is written as a  *)
(* line that cannot be read, and the counts of an MPLEX, which are not        *)
(* checked (add.c:376), are read as numbers of 16 bits.                       *)
Unreadable(N) ==
  N.type = "MPLEX" /\ \E i \in 0..1 : N.scalar[i] = None /\ N.lit[i].re \notin 0..65535
MayAdd(N) ==
  /\ MayCall /\ D.E.type = "NONE"
  /\ N.type = "POLYNOM" /\ N.n \in 1..GD_MAX_POLYORD => N.scalar[N.n] = None
  /\ N.type = "CARRAY" => N.n > 0
  /\ ~Unreadable(N)

(* _GD_Add, and the value that is put in a scalar field at once.              *)
Stored(E, N, values) ==
  IF values = <<>> THEN E
  ELSE IF E.type = "STRING" THEN [E EXCEPT !.text = values]
  ELSE [E EXCEPT !.data = [i \in DOMAIN values |-> ConvertTo(ConstType(N.sub), values[i])]]
AddWith(N, values, meta) ==
  /\ MayAdd(N)
  /\ IF Refused(N, meta) THEN D' = Spend(Failed(D)) /\ UNCHANGED due
     ELSE /\ D' = Spend(Install(D, Stored(Copy(N), N, values), meta))
          /\ due' = [due EXCEPT !.def =
                       IF N.type = "STRING" THEN [Wanted(N, <<>>) EXCEPT !.text = values]
                       ELSE Wanted(N, values)]
  /\ UNCHANGED <<disk, saved>>
Add(N, meta) == AddWith(N, <<>>, meta)

Ask(type) == [Blank EXCEPT !.type = type]
In1(N, a) == [N EXCEPT !.in[0] = a]
In2(N, a, b) == [N EXCEPT !.in[0] = a, !.in[1] = b]
Lit1(N, x) == [N EXCEPT !.lit[0] = x]
Lit2(N, x, y) == [N EXCEPT !.lit[0] = Real(x), !.lit[1] = Real(y)]
(* Lists of the right length, given to a call for LINCOM or POLYNOM.          *)
WithIn(N, in) == [N EXCEPT !.in = [i \in DOMAIN @ |-> IF i + 1 \in DOMAIN in THEN in[i + 1] ELSE None]]
WithLit(N, first, z) ==
  [N EXCEPT !.lit = [i \in Slots |-> IF i - first + 1 \in DOMAIN z THEN z[i - first + 1] ELSE @[i]]]

Lincom(n, in, m, b, cs) ==
  [WithLit(WithLit(WithIn(Ask("LINCOM"), in), 0, m), GD_MAX_LINCOM, b) EXCEPT !.n = n, !.cs = cs]
Polynom(n, in, a, cs) == [WithLit(In1(Ask("POLYNOM"), in), 0, a) EXCEPT !.n = n, !.cs = cs]
Linterp(in, table) == [In1(Ask("LINTERP"), in) EXCEPT !.text = table]
Bit(type, in, bitnum, numbits) == Lit2(In1(Ask(type), in), bitnum, numbits)
Recip(in, z, cs) == [Lit1(In1(Ask("RECIP"), in), z) EXCEPT !.cs = cs]
Window(in, check, op, x) == [Lit1(In2(Ask("WINDOW"), in, check), Real(x)) EXCEPT !.sub = op]
Mplex(in, count, val, max) == Lit2(In2(Ask("MPLEX"), in, count), val, max)
Scalar(type, sub, n) == [Ask(type) EXCEPT !.sub = sub, !.n = n]

(* What a call refuses before it has looked at the field.                     *)
Refuse == MayCall /\ D' = Spend(Failed(D)) /\ UNCHANGED <<disk, due, saved>>
AddIf(ok, N, meta) == IF ok THEN Add(N, meta) ELSE D.E.type = "NONE" /\ Refuse

gd_add(N) == Add(N, FALSE)
gd_add_raw(type, spf) == Add([Lit1(Ask("RAW"), Real(spf)) EXCEPT !.sub = type], FALSE)
gd_add_lincom(n, in, m, b) == AddIf(n \in 1..GD_MAX_LINCOM, Lincom(n, in, m, b, FALSE), FALSE)
gd_add_clincom(n, in, m, b) == AddIf(n \in 1..GD_MAX_LINCOM, Lincom(n, in, m, b, TRUE), FALSE)
gd_add_linterp(in, table) == Add(Linterp(in, table), FALSE)
gd_add_bit(in, bitnum, numbits) == Add(Bit("BIT", in, bitnum, numbits), FALSE)
gd_add_sbit(in, bitnum, numbits) == Add(Bit("SBIT", in, bitnum, numbits), FALSE)
gd_add_multiply(a, b) == Add(In2(Ask("MULTIPLY"), a, b), FALSE)
gd_add_divide(a, b) == Add(In2(Ask("DIVIDE"), a, b), FALSE)
gd_add_recip(in, z) == Add(Recip(in, z, FALSE), FALSE)
gd_add_crecip(in, z) == Add(Recip(in, z, TRUE), FALSE)
gd_add_crecip89(in, z) == Add(Recip(in, z, TRUE), FALSE)
gd_add_phase(in, shift) == Add(Lit1(In1(Ask("PHASE"), in), Real(shift)), FALSE)
gd_add_window(in, check, op, x) == Add(Window(in, check, op, x), FALSE)
gd_add_mplex(in, count, val, max) == Add(Mplex(in, count, val, max), FALSE)
gd_add_string(text) == AddWith(Ask("STRING"), text, FALSE)
gd_add_const(type, z) == AddWith(Scalar("CONST", type, 0), <<z>>, FALSE)
gd_add_carray(type, values) == AddWith(Scalar("CARRAY", type, Len(values)), values, FALSE)
(* The order is compared with the largest number of fields of a LINCOM.       *)
gd_add_polynom(n, in, a) == AddIf(n \in 1..GD_MAX_LINCOM, Polynom(n, in, a, FALSE), FALSE)
gd_add_cpolynom(n, in, a) == AddIf(n \in 1..GD_MAX_LINCOM, Polynom(n, in, a, TRUE), FALSE)

gd_madd(N) == Add(N, TRUE)
gd_madd_lincom(n, in, m, b) == AddIf(n \in 1..GD_MAX_LINCOM, Lincom(n, in, m, b, FALSE), TRUE)
gd_madd_clincom(n, in, m, b) == AddIf(n \in 1..GD_MAX_LINCOM, Lincom(n, in, m, b, TRUE), TRUE)
gd_madd_linterp(in, table) == Add(Linterp(in, table), TRUE)
gd_madd_bit(in, bitnum, numbits) == Add(Bit("BIT", in, bitnum, numbits), TRUE)
gd_madd_sbit(in, bitnum, numbits) == Add(Bit("SBIT", in, bitnum, numbits), TRUE)
gd_madd_multiply(a, b) == Add(In2(Ask("MULTIPLY"), a, b), TRUE)
gd_madd_divide(a, b) == Add(In2(Ask("DIVIDE"), a, b), TRUE)
gd_madd_recip(in, z) == Add(Recip(in, z, FALSE), TRUE)
gd_madd_crecip(in, z) == Add(Recip(in, z, TRUE), TRUE)
gd_madd_crecip89(in, z) == Add(Recip(in, z, TRUE), TRUE)
gd_madd_phase(in, shift) == Add(Lit1(In1(Ask("PHASE"), in), Real(shift)), TRUE)
gd_madd_window(in, check, op, x) == Add(Window(in, check, op, x), TRUE)
gd_madd_mplex(in, count, val, max) == Add(Mplex(in, count, val, max), TRUE)
gd_madd_string(text) == AddWith(Ask("STRING"), text, TRUE)
gd_madd_const(type, z) == AddWith(Scalar("CONST", type, 0), <<z>>, TRUE)
gd_madd_carray(type, values) == AddWith(Scalar("CARRAY", type, Len(values)), values, TRUE)
gd_madd_polynom(n, in, a) == AddIf(n \in 1..GD_MAX_POLYORD, Polynom(n, in, a, FALSE), TRUE)
gd_madd_cpolynom(n, in, a) == AddIf(n \in 1..GD_MAX_POLYORD, Polynom(n, in, a, TRUE), TRUE)

(* A line of text, read as pedantically as it can be.                         *)
Parsed(line, standards, meta) ==
  LET Parse_(w) == IF w.error THEN Wrong(New("NONE")) ELSE ParseFieldSpec(w.c, standards, TRUE, meta)
  IN Parse_(Words(line, TRUE))
AddSpec(line, meta) ==
  LET Enter(S) ==
        /\ MayAdd(S.E)
        /\ IF S.error THEN D' = Spend(Failed(D)) /\ UNCHANGED due
           ELSE /\ D' = Spend(Install(D, S.E, meta))
                /\ due' = [due EXCEPT !.def = Meaning(S.E)]
        /\ UNCHANGED <<disk, saved>>
  IN Enter(Parsed(line, D.standards, meta))
gd_add_spec(line) == AddSpec(line, FALSE)
gd_madd_spec(line) == AddSpec(line, TRUE)

-----------------------------------------------------------------------------
(* mod.c: alteration.  What the callers must know of the code that does it:   *)


(* - of a LINCOM that shrank the freed names may not be used again, and more  *)
(*   fields or coefficients take lists of them (mod.c:403); of a POLYNOM that *)
(*   shrank the names are still there, and are not to be kept (mod.c:639);    *)
MayGrow(E, N, flags) ==
  /\ N.type = "LINCOM" /\ N.n > E.n =>
       /\ flags = {1, 2, 4}
       /\ \A i \in E.n..N.n - 1 :
            N.in[i] # None /\ {E.in[i], E.scalar[i], E.scalar[i + GD_MAX_LINCOM]} = {None}
  /\ N.type = "POLYNOM" /\ N.n > E.n =>
       1 \in flags /\ \A i \in E.n + 1..N.n : N.scalar[i] = Keep => E.scalar[i] = None
(* - a list of real coefficients given to a complex field may be taken for no *)
(*   change (mod.c:441), and without a list a POLYNOM loses its imaginary     *)
(*   parts (mod.c:655);                                                       *)
MayBeReal(E, N, flags) ==
  CASE ~E.cs -> TRUE
    [] N.type = "LINCOM" -> N.cs \/ flags \subseteq {1}
    [] N.type = "POLYNOM" -> N.cs /\ 1 \in flags
    [] N.type = "RECIP" -> N.cs \/ (N.scalar[0] # Keep /\ N.lit[0].re # 0)
    [] OTHER -> TRUE
(* - of a WINDOW a scalar is fetched for one kind of threshold (mod.c:697);   *)
(* - the scalars of an MPLEX are mixed up (mod.c:750);                        *)
(* - a CONST does not become a FLOAT64, nor a CARRAY what it is (mod.c:824,   *)
(*   900);                                                                    *)
(* - samples on file are not read as another type (mod.c:254);                *)
(* - the bits of a BIT and the counts of an MPLEX are not checked (mod.c:518).*)
MayBecome(E, N, flags, Q) ==
  CASE N.type = "WINDOW" ->
         N.scalar[0] = Keep /\ E.scalar[0] # None => ThresholdType(Q.sub) = ThresholdType(E.sub)
    [] N.type = "MPLEX" -> ~ScalarIn(E) /\ ~ScalarIn(Q) /\ ~Refused(Q, FALSE) /\ ~Unreadable(Q)
    [] N.type \in {"BIT", "SBIT"} ->
         /\ N.lit[0].re = -1 \/ N.lit[0].re >= 0
         /\ N.lit[1].re = 0 \/ N.lit[1].re >= 1
         /\ ScalarIn(Q) \/ ~Refused(Q, FALSE)
    [] N.type = "CONST" -> Q.data # <<Garbage>>
    [] N.type = "CARRAY" -> Q.n # E.n \/ Q.sub # E.sub
    [] N.type = "RAW" -> flags # {} \/ Q.sub = E.sub \/ D.file = <<>>
    [] OTHER -> TRUE
(* - a scalar is taken out only when it has been fetched (mod.c:67).          *)
MayAlter(N, flags) ==
  LET E == D.E
      MayPut(S) == S.error \/ MayBecome(E, N, flags, S.Q)
  IN /\ MayCall /\ E.type # "NONE"
     /\ E.type = N.type =>
          /\ E.calc \/ ~ScalarIn(E)
          /\ MayGrow(E, N, flags) /\ MayBeReal(E, N, flags)
          /\ MayPut(Changed(Work(D), N, flags, D.consts))

(* Most of the calls leave an earlier error as it is, and fail.               *)
Clear(d) == [d EXCEPT !.error = FALSE]
AlterAs(d, N, flags, meant) ==
  LET moved == N.type = "LINTERP" /\ flags # {} /\ N.text # <<>>
      recoded == flags # {} /\ N.type = "RAW"
  IN /\ MayAlter(N, flags)
     /\ D' = Spend(Change(d, N, flags))
     /\ due' = IF D'.error THEN due
               ELSE [def |-> Amended(due.def, N, meant, D.consts),
                     file |-> IF recoded THEN Resampled(due.file, D.E.lit[0].re, D'.E.lit[0].re) ELSE due.file,
                     tables |-> IF moved THEN Moved(due.tables, due.def.text, N.text) ELSE due.tables]
     /\ UNCHANGED <<disk, saved>>
Alter(d, N, flags) == AlterAs(d, N, flags, flags)

(* Of a LINCOM or POLYNOM, the lists that are not null are given, with as     *)
(* many elements as there are to be, or as there are when none are named.     *)
Lists(first, second, third) ==
  (IF first # <<>> THEN {1} ELSE {}) \cup (IF second # <<>> THEN {2} ELSE {}) \cup (IF third # <<>> THEN {4} ELSE {})
Kept(N, slots) == [N EXCEPT !.scalar = [i \in Slots |-> IF i \in slots THEN Keep ELSE @[i]]]
Count(n) == IF n = 0 THEN D.E.n ELSE n
AlterIf(ok, N, flags) == IF ok THEN Alter(Clear(D), N, flags) ELSE D.E.type # "NONE" /\ Refuse
(* The number of fields or the order is taken from the field as if it were    *)
(* one of the type (mod.c:1024).                                              *)
MayCount(type, n, sizes) ==
  /\ n = 0 => D.E.type = type
  /\ sizes \subseteq {0, IF type = "LINCOM" THEN Count(n) ELSE Count(n) + 1}

AlterLincom(n, in, m, b, cs) ==
  LET unset == (IF m = <<>> THEN 0..GD_MAX_LINCOM - 1 ELSE {})
                 \cup (IF b = <<>> THEN GD_MAX_LINCOM..GD_MAX_POLYORD ELSE {})
  IN /\ MayCount("LINCOM", n, {Len(in), Len(m), Len(b)})
     /\ AlterIf(n \in 0..GD_MAX_LINCOM, Kept(Lincom(Count(n), in, m, b, cs), unset), Lists(in, m, b))
AlterPolynom(n, in, a, cs) ==
  /\ MayCount("POLYNOM", n, {Len(a)})
  /\ AlterIf(n \in 0..GD_MAX_POLYORD,
             Kept(Polynom(Count(n), in, a, cs), IF a = <<>> THEN Slots ELSE {}), Lists(a, <<>>, <<>>))
AlterBit(type, in, bitnum, numbits) ==
  Alter(D, Kept(Bit(type, in, bitnum, numbits),
                (IF bitnum = -1 THEN {0} ELSE {}) \cup (IF numbits = 0 THEN {1} ELSE {})), {})
AlterRecip(in, z, cs) == Alter(D, Kept(Recip(in, z, cs), IF z = Zero THEN {0} ELSE {}), {})
File(move) == IF move THEN {1} ELSE {}

gd_alter_entry(N, move) ==
  Alter(D, N, IF N.type \in {"LINCOM", "POLYNOM"} THEN {1, 2, 4} ELSE File(move))
gd_alter_raw(type, spf, move) ==
  Alter(Clear(D), Kept([Lit1(Ask("RAW"), Real(spf)) EXCEPT !.sub = type], IF spf = 0 THEN {0} ELSE {}), File(move))
gd_alter_lincom(n, in, m, b) == AlterLincom(n, in, m, b, FALSE)
gd_alter_clincom(n, in, m, b) == AlterLincom(n, in, m, b, TRUE)
gd_alter_linterp(in, table, move) == Alter(D, Linterp(in, table), File(move))
gd_alter_bit(in, bitnum, numbits) == AlterBit("BIT", in, bitnum, numbits)
gd_alter_sbit(in, bitnum, numbits) == AlterBit("SBIT", in, bitnum, numbits)
gd_alter_recip(in, z) == AlterRecip(in, z, FALSE)
gd_alter_crecip(in, z) == AlterRecip(in, z, TRUE)
gd_alter_crecip89(in, z) == AlterRecip(in, z, TRUE)
gd_alter_divide(a, b) == Alter(D, In2(Ask("DIVIDE"), a, b), {})
gd_alter_multiply(a, b) == Alter(D, In2(Ask("MULTIPLY"), a, b), {})
gd_alter_phase(in, shift) == Alter(D, Lit1(In1(Ask("PHASE"), in), Real(shift)), {})
gd_alter_const(type) == Alter(D, Scalar("CONST", type, 0), {})
gd_alter_carray(type, n) == Alter(D, Scalar("CARRAY", type, n), {})
gd_alter_polynom(n, in, a) == AlterPolynom(n, in, a, FALSE)
gd_alter_cpolynom(n, in, a) == AlterPolynom(n, in, a, TRUE)
gd_alter_window(in, check, op, x) == Alter(D, Window(in, check, op, x), {})
gd_alter_mplex(in, count, val, max) == Alter(D, Mplex(in, count, val, max), {})

(* An alteration written as a line.  What should only say that a file is to   *)
(* be changed too decides whether the coefficients of a POLYNOM are looked at *)
(* (mod.c:1697), so it is given for them.                                     *)
SpecFlags(type, recode) == IF type = "LINCOM" THEN {1, 2, 4} ELSE File(recode)
Meant(type, recode) == IF type = "POLYNOM" THEN {1, 2, 4} ELSE SpecFlags(type, recode)
AlterParsed(d, S, recode) ==
  /\ S.E.type = "POLYNOM" => recode \/ Relaxed = "recode"
  /\ IF S.error THEN MayCall /\ D' = Spend(Failed(d)) /\ UNCHANGED <<disk, due, saved>>
     ELSE AlterAs(d, S.E, SpecFlags(S.E.type, recode), Meant(S.E.type, recode))
AlterSpec(line, recode) ==
  LET Parse_(d) == AlterParsed(d, Parsed(line, IF d.av # {} THEN d.standards ELSE LatestVersion, D.meta), recode)
  IN Parse_(Known(Clear(D)))
gd_alter_spec(line, recode) == (D.meta => D.standards >= 7) /\ D.E.type # "NONE" /\ AlterSpec(line, recode)
(* A line that cannot be read is used all the same (mod.c:1757).              *)
gd_malter_spec(line, recode) ==
  /\ D.meta
  /\ \A v \in {D.standards, LatestVersion} : ~Parsed(line, v, TRUE).error
  /\ AlterSpec(line, recode)

-----------------------------------------------------------------------------
(* The other calls.                                                           *)
Quietly == UNCHANGED <<disk, due, saved>>

(* The scalars of a complex field are all there (entry.c:225), or the field   *)
(* is taken for a real one when it is written.                                *)
gd_entry ==
  /\ MayCall /\ D.E.type # "NONE"
  /\ CalculateEntry(D).error => ~D.E.cs
  /\ D' = Spend(gd_entry_(D)) /\ Quietly

(* The versions are not worked out again (entry.c:679), so that this is done  *)
(* before they have been.                                                     *)
(*                                                                            *)
(* Slip: unhiding is forgotten.                                              *)
SetHiddenForgets(hidden) ==
  /\ MayCall /\ D.E.type # "NONE" /\ ~D.have
  /\ D' = Spend([Clear(D) EXCEPT !.E.hidden = hidden, !.dirty = @ \/ hidden])
  /\ due' = [due EXCEPT !.def.hidden = hidden]
  /\ UNCHANGED <<disk, saved>>
SetHidden(hidden) ==
  /\ MayCall /\ D.E.type # "NONE" /\ ~D.have
  /\ D' = Spend([Clear(D) EXCEPT !.E.hidden = hidden, !.dirty = @ \/ D.E.hidden # hidden])
  /\ due' = [due EXCEPT !.def.hidden = hidden]
  /\ UNCHANGED <<disk, saved>>
gd_hide == SetHidden(TRUE)
gd_unhide == SetHidden(FALSE)

gd_dirfile_standards(vers) ==
  LET d == Known(Clear(D))
      v == CASE vers = GD_VERSION_CURRENT -> d.standards
             [] vers = GD_VERSION_LATEST -> Newest(d.av)
             [] vers = GD_VERSION_EARLIEST -> Oldest(d.av)
             [] OTHER -> vers
  IN /\ MayCall
     /\ D' = Spend(IF v \in d.av THEN [d EXCEPT !.standards = v] ELSE Failed(d))
     /\ Quietly

(* Metadata are written in the version that is set, whether the dirfile       *)
(* conforms to it or not, and not every text is written as it is read.        *)
MayFlush ==
  /\ D.standards \in FindVersion(D) \/ Relaxed = "flush"
  /\ \A i \in DOMAIN D.E.text : IF D.standards < 6 THEN Plain(D.E.text[i]) ELSE Survives(D.E.text[i])
Clean(d) == [d EXCEPT !.dirty = FALSE]
gd_metaflush ==
  /\ MayCall /\ D.dirty /\ MayFlush
  /\ D' = Spend(Clean(Clear(D)))
  /\ disk' = FlushFragment(D) /\ saved' = due.def
  /\ UNCHANGED due

(* The dirfile is closed, which writes what has not been written, and opened. *)
Opened(file) ==
  LET Holding(S) == [Clean(Clear(D)) EXCEPT !.E = S.E, !.meta = S.meta, !.have = FALSE]
      Latest(d) == [d EXCEPT !.standards = Newest(d.av)]
  IN IF file.told THEN [Holding(Read(file)) EXCEPT !.standards = file.version]
     ELSE Latest(Known(Holding(Read(file))))
Reopen ==
  /\ MayCall /\ D.E.type # "NONE" /\ (D.dirty => MayFlush)
  /\ disk' = IF D.dirty THEN FlushFragment(D) ELSE disk
  /\ saved' = IF D.dirty THEN due.def ELSE saved
  /\ D' = Spend(Opened(disk'))
  /\ UNCHANGED due

(* Somebody writes the samples of the field.                                  *)
Produce ==
  /\ MayCall /\ D.E.type = "RAW" /\ D.file = <<>>
  /\ D' = Spend([D EXCEPT !.file = Samples]) /\ due' = [due EXCEPT !.file = Samples]
  /\ UNCHANGED <<disk, saved>>
-----------------------------------------------------------------------------
Init ==
  /\ \E consts \in Consts :
       D = [E |-> Blank, meta |-> FALSE, consts |-> consts, standards |-> LatestVersion, av |-> {},
            have |-> FALSE, dirty |-> FALSE, error |-> FALSE, room |-> Calls,
            file |-> <<>>, tables |-> Tables]
  /\ disk = FlushFragment(D)
  /\ due = [def |-> Meaning(Blank), file |-> <<>>, tables |-> Tables]
  /\ saved = due.def

Adding ==
  \/ \E N \in Args.entry : gd_add(N)
  \/ \E a \in Args.raw : gd_add_raw(a[1], a[2])
  \/ \E a \in Args.lincom : gd_add_lincom(a[1], a[2], a[3], a[4])
  \/ \E a \in Args.lincom : gd_add_clincom(a[1], a[2], a[3], a[4])
  \/ \E a \in Args.linterp : gd_add_linterp(a[1], a[2])
  \/ \E a \in Args.bit : gd_add_bit(a[1], a[2], a[3])
  \/ \E a \in Args.bit : gd_add_sbit(a[1], a[2], a[3])
  \/ \E a \in Args.inputs : gd_add_multiply(a[1], a[2])
  \/ \E a \in Args.inputs : gd_add_divide(a[1], a[2])
  \/ \E a \in Args.recip : gd_add_recip(a[1], a[2])
  \/ \E a \in Args.recip : gd_add_crecip(a[1], a[2])
  \/ \E a \in Args.recip : gd_add_crecip89(a[1], a[2])
  \/ \E a \in Args.phase : gd_add_phase(a[1], a[2])
  \/ \E a \in Args.window : gd_add_window(a[1], a[2], a[3], a[4])
  \/ \E a \in Args.mplex : gd_add_mplex(a[1], a[2], a[3], a[4])
  \/ \E a \in Args.string : gd_add_string(a)
  \/ \E a \in Args.const : gd_add_const(a[1], a[2])
  \/ \E a \in Args.carray : gd_add_carray(a[1], a[2])
  \/ \E a \in Args.polynom : gd_add_polynom(a[1], a[2], a[3])
  \/ \E a \in Args.polynom : gd_add_cpolynom(a[1], a[2], a[3])
  \/ \E line \in Args.line : gd_add_spec(line)

AddingMeta ==
  \/ \E N \in Args.entry : gd_madd(N)
  \/ \E a \in Args.lincom : gd_madd_lincom(a[1], a[2], a[3], a[4])
  \/ \E a \in Args.lincom : gd_madd_clincom(a[1], a[2], a[3], a[4])
  \/ \E a \in Args.linterp : gd_madd_linterp(a[1], a[2])
  \/ \E a \in Args.bit : gd_madd_bit(a[1], a[2], a[3])
  \/ \E a \in Args.bit : gd_madd_sbit(a[1], a[2], a[3])
  \/ \E a \in Args.inputs : gd_madd_multiply(a[1], a[2])
  \/ \E a \in Args.inputs : gd_madd_divide(a[1], a[2])
  \/ \E a \in Args.recip : gd_madd_recip(a[1], a[2])
  \/ \E a \in Args.recip : gd_madd_crecip(a[1], a[2])
  \/ \E a \in Args.recip : gd_madd_crecip89(a[1], a[2])
  \/ \E a \in Args.phase : gd_madd_phase(a[1], a[2])
  \/ \E a \in Args.window : gd_madd_window(a[1], a[2], a[3], a[4])
  \/ \E a \in Args.mplex : gd_madd_mplex(a[1], a[2], a[3], a[4])
  \/ \E a \in Args.string : gd_madd_string(a)
  \/ \E a \in Args.const : gd_madd_const(a[1], a[2])
  \/ \E a \in Args.carray : gd_madd_carray(a[1], a[2])
  \/ \E a \in Args.polynom : gd_madd_polynom(a[1], a[2], a[3])
  \/ \E a \in Args.polynom : gd_madd_cpolynom(a[1], a[2], a[3])
  \/ \E line \in Args.line : gd_madd_spec(line)

Altering ==
  \/ \E N \in Args.altered, move \in BOOLEAN : gd_alter_entry(N, move)
  \/ \E a \in Args.alter_raw, move \in BOOLEAN : gd_alter_raw(a[1], a[2], move)
  \/ \E a \in Args.alter_lincom : gd_alter_lincom(a[1], a[2], a[3], a[4])
  \/ \E a \in Args.alter_lincom : gd_alter_clincom(a[1], a[2], a[3], a[4])
  \/ \E a \in Args.alter_linterp, move \in BOOLEAN : gd_alter_linterp(a[1], a[2], move)
  \/ \E a \in Args.alter_bit : gd_alter_bit(a[1], a[2], a[3])
  \/ \E a \in Args.alter_bit : gd_alter_sbit(a[1], a[2], a[3])
  \/ \E a \in Args.alter_recip : gd_alter_recip(a[1], a[2])
  \/ \E a \in Args.alter_recip : gd_alter_crecip(a[1], a[2])
  \/ \E a \in Args.alter_recip : gd_alter_crecip89(a[1], a[2])
  \/ \E a \in Args.alter_inputs : gd_alter_divide(a[1], a[2])
  \/ \E a \in Args.alter_inputs : gd_alter_multiply(a[1], a[2])
  \/ \E a \in Args.alter_phase : gd_alter_phase(a[1], a[2])
  \/ \E type \in Args.alter_const : gd_alter_const(type)
  \/ \E a \in Args.alter_carray : gd_alter_carray(a[1], a[2])
  \/ \E a \in Args.alter_polynom : gd_alter_polynom(a[1], a[2], a[3])
  \/ \E a \in Args.alter_polynom : gd_alter_cpolynom(a[1], a[2], a[3])
  \/ \E a \in Args.alter_window : gd_alter_window(a[1], a[2], a[3], a[4])
  \/ \E a \in Args.alter_mplex : gd_alter_mplex(a[1], a[2], a[3], a[4])
  \/ \E line \in Args.alter_line, recode \in BOOLEAN : gd_alter_spec(line, recode)
  \/ \E line \in Args.alter_line, recode \in BOOLEAN : gd_malter_spec(line, recode)

Next ==
  \/ Adding
  \/ AddingMeta
  \/ Altering
  \/ gd_entry
  \/ gd_hide
  \/ gd_unhide
  \/ \E vers \in Args.versions : gd_dirfile_standards(vers)
  \/ gd_metaflush
  \/ Reopen
  \/ Produce

Spec == Init /\ [][Next]_vars

-----------------------------------------------------------------------------
TypeOK ==
  /\ DOMAIN D.E = DOMAIN Blank
  /\ D.E.type = "LINCOM" => D.E.n \in 0..GD_MAX_LINCOM
  /\ D.E.type = "POLYNOM" => D.E.n \in 0..GD_MAX_POLYORD
  /\ D.standards \in Versions /\ D.av \subseteq Versions /\ D.room \in 0..Calls
  /\ {D.meta, D.have, D.dirty, D.error, D.E.calc, D.E.cs} \subseteq BOOLEAN
  /\ disk.version \in Versions

(* The library holds the definition that the calls that succeeded add up to,  *)
(* and the samples and tables on disk have been changed with it; the calls    *)
(* that failed changed nothing.                                               *)
Agree == Meaning(D.E) = due.def /\ D.file = due.file /\ D.tables = due.tables

Says(S, def) == ~S.error /\ Meaning(S.E) = def

(* What a format file says is what was meant when it was written, and it can  *)
(* be read.                                                                   *)
Reopens == Says(Read(disk), saved)

(* The format file conforms to the version of the Standards it was written    *)
(* in: a reader that knows no other reads the same in it.                     *)
Conforms == Says(ReadAt(disk, disk.version, TRUE), saved)

(* A change that is not on disk is marked for the next flush.                 *)
Unsaved == ~D.dirty => saved = due.def

(* The versions that are remembered are those the dirfile conforms to.        *)
VersionCached == D.have => D.av = FindVersion(D)

(* When an entry is taken to be calculated its numbers are those of the       *)
(* scalars, and it is marked complex if one of its numbers is.                *)
CalculatedRight ==
  LET E == D.E
  IN /\ E.calc =>
          \A i \in Params(E) : E.scalar[i] # None =>
            /\ E.scalar[i] \in DOMAIN D.consts
            /\ E.lit[i] = (IF E.type \in ComplexTypes THEN D.consts[E.scalar[i]]
                           ELSE Real(D.consts[E.scalar[i]].re))
     /\ \A i \in Params(E) : (E.scalar[i] = None \/ E.calc) /\ E.lit[i].im # 0 => E.cs
=============================================================================
