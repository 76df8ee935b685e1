------------------------- MODULE FieldSpec_proofs -------------------------
(* Theorems about FieldSpec: for any arguments of the calls, any CONST fields *)
(* and any bound on the number of calls, the entry that the library holds is  *)
(* well formed, what it remembers of the versions of the Standards is so, and *)
(* its numbers and its marks go together.                                     *)
(*                                                                            *)
(* The invariant (IInv, below) is about one entry and two marks, so that most *)
(* of the work is to say what each part of an alteration (mod.c), a new entry *)
(* (add.c) and each line's parser (parse.c) does to the numbers of an entry:  *)
(* Right holds of it before and after.  An alteration is a sequence of steps, *)
(* each of which does something to one number and one name, and Right need    *)
(* not hold between them; what does is said of each type of field.            *)
EXTENDS FieldSpec, TLAPS

EntryFields == {"type", "sub", "n", "in", "lit", "scalar", "cs", "calc", "data",
                "text", "hidden"}
DirFields == {"E", "meta", "consts", "standards", "av", "have", "dirty",
              "error", "room", "file", "tables"}
WorkFields == {"Q", "file", "tables", "mod", "error"}

IsEntry(E) ==
  /\ DOMAIN E = EntryFields
  /\ DOMAIN E.lit = Slots /\ DOMAIN E.scalar = Slots
  /\ DOMAIN E.in = 0..GD_MAX_LINCOM - 1
  /\ E.cs \in BOOLEAN /\ E.calc \in BOOLEAN
  /\ E.cs => E.type \in ComplexTypes
  /\ \A i \in Slots : IsNumber(E.lit[i])
  /\ E.type = "LINCOM" => E.n \in 0..GD_MAX_LINCOM
  /\ E.type = "POLYNOM" => E.n \in 0..GD_MAX_POLYORD

IsWork(S) ==
  /\ DOMAIN S = WorkFields /\ IsEntry(S.Q) /\ S.mod \in BOOLEAN
  /\ S.error \in BOOLEAN

IsDir(d) ==
  /\ DOMAIN d = DirFields /\ IsEntry(d.E)
  /\ d.have \in BOOLEAN /\ d.dirty \in BOOLEAN /\ d.error \in BOOLEAN

-----------------------------------------------------------------------------
(* The parameters of each type of field.                                      *)
LEMMA ParamsAre ==
  ASSUME NEW E
  PROVE  /\ E.type = "LINCOM" /\ E.n \in 0..GD_MAX_LINCOM =>
              Params(E) = {i \in Slots : i % GD_MAX_LINCOM < E.n}
         /\ E.type = "POLYNOM" /\ E.n \in 0..GD_MAX_POLYORD =>
              Params(E) = 0..E.n
         /\ E.type \in {"BIT", "SBIT", "MPLEX"} => Params(E) = {0, 1}
         /\ E.type \in {"RAW", "RECIP", "PHASE", "WINDOW"} => Params(E) = {0}
         /\ E.type \notin {"LINCOM", "POLYNOM", "BIT", "SBIT", "MPLEX", "RAW",
                           "RECIP", "PHASE", "WINDOW"} => Params(E) = {}
<1>1. ASSUME E.type = "LINCOM", E.n \in 0..GD_MAX_LINCOM
      PROVE  Params(E) = {i \in Slots : i % GD_MAX_LINCOM < E.n}
  <2>1. Used(E) = [k \in 1..2 * E.n |-> IF k % 2 = 1 THEN k \div 2
                                        ELSE GD_MAX_LINCOM - 1 + (k \div 2)]
    BY <1>1 DEF Used
  <2>2. Params(E) = {IF k % 2 = 1 THEN k \div 2
                     ELSE GD_MAX_LINCOM - 1 + (k \div 2) : k \in 1..2 * E.n}
    BY <2>1 DEF Params
  <2>3. E.n = 0 \/ E.n = 1 \/ E.n = 2 \/ E.n = 3
    BY <1>1 DEF GD_MAX_LINCOM
  <2>4. CASE E.n = 0
    BY <2>2, <2>4 DEF GD_MAX_LINCOM, Slots, GD_MAX_POLYORD
  <2>5. CASE E.n = 1
    BY <2>2, <2>5 DEF GD_MAX_LINCOM, Slots, GD_MAX_POLYORD
  <2>6. CASE E.n = 2
    BY <2>2, <2>6 DEF GD_MAX_LINCOM, Slots, GD_MAX_POLYORD
  <2>7. CASE E.n = 3
    BY <2>2, <2>7 DEF GD_MAX_LINCOM, Slots, GD_MAX_POLYORD
  <2> QED BY <2>3, <2>4, <2>5, <2>6, <2>7
<1>2. ASSUME E.type = "POLYNOM", E.n \in 0..GD_MAX_POLYORD
      PROVE  Params(E) = 0..E.n
  <2>1. Used(E) = [k \in 1..E.n + 1 |-> k - 1]
    BY <1>2 DEF Used
  <2>2. Params(E) = {k - 1 : k \in 1..E.n + 1}
    BY <2>1 DEF Params
  <2> QED BY <1>2, <2>2 DEF GD_MAX_POLYORD
<1>3. ASSUME E.type \in {"BIT", "SBIT", "MPLEX"} PROVE Params(E) = {0, 1}
  <2>1. Used(E) = <<0, 1>>
    BY <1>3 DEF Used
  <2> QED BY <2>1 DEF Params
<1>4. ASSUME E.type \in {"RAW", "RECIP", "PHASE", "WINDOW"}
      PROVE  Params(E) = {0}
  <2>1. Used(E) = <<0>>
    BY <1>4 DEF Used
  <2> QED BY <2>1 DEF Params
<1>5. ASSUME E.type \notin {"LINCOM", "POLYNOM", "BIT", "SBIT", "MPLEX", "RAW",
                            "RECIP", "PHASE", "WINDOW"}
      PROVE  Params(E) = {}
  <2>1. Used(E) = <<>>
    BY <1>5 DEF Used
  <2> QED BY <2>1 DEF Params
<1> QED BY <1>1, <1>2, <1>3, <1>4, <1>5

LEMMA BlankIs ==
  /\ IsEntry(Blank) /\ Blank.type = "NONE" /\ Blank.calc = FALSE
  /\ Blank.cs = FALSE /\ Blank.hidden = FALSE /\ Blank.n = 0
  /\ \A i \in Slots : Blank.scalar[i] = None /\ Blank.lit[i] = Zero
BY DEF Blank, IsEntry, EntryFields, GD_MAX_LINCOM, IsNumber, Zero, Real,
       Complex

LEMMA ParamsIn ==
  ASSUME NEW E, IsEntry(E) PROVE Params(E) \subseteq Slots
BY ParamsAre DEF IsEntry, Slots, GD_MAX_LINCOM, GD_MAX_POLYORD
-----------------------------------------------------------------------------
(* What the steps of an alteration do, field by field.                        *)
SameRest(P, Q) ==
  /\ P.type = Q.type /\ P.sub = Q.sub /\ P.n = Q.n /\ P.data = Q.data
  /\ P.text = Q.text /\ P.hidden = Q.hidden
SameFiles(S, T) ==
  S.file = T.file /\ S.tables = T.tables /\ S.error = T.error

Bound(name) == name \notin {None, Keep}
NewName(held, name) ==
  IF Bound(name) THEN name ELSE IF name = None THEN None ELSE held
Sets(held, alter, name) ==
  alter /\ ~Bound(name) /\ (name = None \/ held = None)
NewLit(lit, held, alter, z, name) == IF Sets(held, alter, name) THEN z ELSE lit
Touches(held, alter, name) ==
  \/ Bound(name) \/ (name = None /\ held # None)
  \/ Sets(held, alter, name)

LEMMA AlterScalarIs ==
  ASSUME NEW S, IsWork(S), NEW i \in Slots, NEW k \in Slots,
         NEW alter \in BOOLEAN, NEW z, IsNumber(z), NEW name,
         NEW T, T = AlterScalar(S, i, alter, z, k, name)
  PROVE  /\ IsWork(T) /\ SameRest(S.Q, T.Q) /\ SameFiles(S, T)
         /\ T.Q.in = S.Q.in /\ T.Q.cs = S.Q.cs
         /\ T.Q.calc = (S.Q.calc /\ ~Bound(name))
         /\ T.mod = (S.mod \/ Touches(S.Q.scalar[k], alter, name))
         /\ \A s \in Slots :
              /\ T.Q.scalar[s] = IF s = k THEN NewName(S.Q.scalar[k], name)
                                 ELSE S.Q.scalar[s]
              /\ T.Q.lit[s] = IF s = i
                              THEN NewLit(S.Q.lit[i], S.Q.scalar[k], alter, z, name)
                              ELSE S.Q.lit[s]
<1> DEFINE held == S.Q.scalar[k]
           bound == name \notin {None, Keep}
           free == name = None /\ held # None
           set == alter /\ ~bound /\ (name = None \/ held = None)
           sc == [S.Q.scalar EXCEPT ![k] = IF bound THEN name
                                           ELSE IF free THEN None ELSE @]
           lt == [S.Q.lit EXCEPT ![i] = IF set THEN z ELSE @]
           calc == S.Q.calc /\ ~bound
           mod == S.mod \/ bound \/ free \/ set
<1>1. T = [S EXCEPT !.Q.scalar = sc, !.Q.lit = lt, !.Q.calc = calc, !.mod = mod]
  BY DEF AlterScalar, IsWork, IsEntry, WorkFields, EntryFields
<1>2. /\ DOMAIN sc = Slots /\ DOMAIN lt = Slots /\ calc \in BOOLEAN
      /\ mod \in BOOLEAN /\ \A s \in Slots : IsNumber(lt[s])
  BY DEF IsWork, IsEntry
<1>3. /\ calc = (S.Q.calc /\ ~Bound(name))
      /\ mod = (S.mod \/ Touches(held, alter, name))
      /\ \A s \in Slots :
           /\ sc[s] = IF s = k THEN NewName(held, name) ELSE S.Q.scalar[s]
           /\ lt[s] = IF s = i THEN NewLit(S.Q.lit[i], held, alter, z, name)
                      ELSE S.Q.lit[s]
  BY DEF IsWork, IsEntry, Bound, NewName, Sets, NewLit, Touches
<1> HIDE DEF sc, lt, calc, mod
<1>4. /\ DOMAIN T = WorkFields /\ T.mod = mod /\ T.file = S.file
      /\ T.tables = S.tables /\ T.error = S.error
      /\ T.Q = [S.Q EXCEPT !.scalar = sc, !.lit = lt, !.calc = calc]
  BY <1>1 DEF IsWork, WorkFields
<1>5. /\ DOMAIN T.Q = EntryFields /\ SameRest(S.Q, T.Q)
      /\ T.Q.in = S.Q.in /\ T.Q.cs = S.Q.cs
      /\ T.Q.calc = calc /\ T.Q.lit = lt /\ T.Q.scalar = sc
  BY <1>4 DEF IsWork, IsEntry, EntryFields, SameRest
<1>6. IsWork(T) /\ SameFiles(S, T)
  BY <1>2, <1>4, <1>5 DEF IsWork, IsEntry, SameRest, SameFiles
<1> QED BY <1>3, <1>4, <1>5, <1>6 DEF held
(* Everything but the inputs is the same, and the numbers are.                *)
SameNumbers(P, Q) ==
  /\ P.lit = Q.lit /\ P.scalar = Q.scalar /\ P.calc = Q.calc /\ P.cs = Q.cs
NewInput(held, name) == IF name = None THEN held ELSE name

LEMMA AlterInputIs ==
  ASSUME NEW S, IsWork(S), NEW i \in 0..GD_MAX_LINCOM - 1, NEW name,
         NEW T, T = AlterInput(S, i, name)
  PROVE  /\ IsWork(T) /\ SameRest(S.Q, T.Q) /\ SameFiles(S, T)
         /\ SameNumbers(S.Q, T.Q)
         /\ T.mod = (S.mod \/ name \notin {None, S.Q.in[i]})
         /\ \A j \in 0..GD_MAX_LINCOM - 1 :
              T.Q.in[j] = IF j = i THEN NewInput(S.Q.in[i], name) ELSE S.Q.in[j]
<1>1. CASE name \in {None, S.Q.in[i]}
  <2>1. T = S
    BY <1>1 DEF AlterInput
  <2>2. S.mod \in BOOLEAN
    BY DEF IsWork
  <2> QED BY <1>1, <2>1, <2>2
             DEF SameRest, SameFiles, SameNumbers, NewInput
<1>2. CASE name \notin {None, S.Q.in[i]}
  <2> DEFINE ins == [S.Q.in EXCEPT ![i] = name]
  <2>1. T = [S EXCEPT !.Q.in = ins, !.mod = TRUE]
    BY <1>2 DEF AlterInput, IsWork, IsEntry, WorkFields, EntryFields
  <2>2. /\ DOMAIN ins = 0..GD_MAX_LINCOM - 1
        /\ \A j \in 0..GD_MAX_LINCOM - 1 :
             ins[j] = IF j = i THEN NewInput(S.Q.in[i], name) ELSE S.Q.in[j]
    BY <1>2 DEF IsWork, IsEntry, NewInput
  <2> HIDE DEF ins
  <2>3. /\ DOMAIN T = WorkFields /\ T.mod = TRUE /\ T.file = S.file
        /\ T.tables = S.tables /\ T.error = S.error
        /\ T.Q = [S.Q EXCEPT !.in = ins]
    BY <2>1 DEF IsWork, WorkFields
  <2>4. /\ DOMAIN T.Q = EntryFields /\ SameRest(S.Q, T.Q)
        /\ T.Q.in = ins /\ SameNumbers(S.Q, T.Q)
    BY <2>3 DEF IsWork, IsEntry, EntryFields, SameRest, SameNumbers
  <2>5. IsWork(T) /\ SameFiles(S, T)
    BY <2>2, <2>3, <2>4 DEF IsWork, IsEntry, SameRest, SameFiles, SameNumbers
  <2> QED BY <1>2, <2>2, <2>3, <2>4, <2>5
<1> QED BY <1>1, <1>2

LEMMA AlterInputsIs ==
  ASSUME NEW S, IsWork(S), NEW N, NEW T, T = AlterInputs(S, N)
  PROVE  /\ IsWork(T) /\ SameRest(S.Q, T.Q) /\ SameFiles(S, T)
         /\ SameNumbers(S.Q, T.Q)
         /\ T.mod = (S.mod \/ N.in[0] \notin {None, S.Q.in[0]}
                           \/ N.in[1] \notin {None, S.Q.in[1]})
         /\ \A j \in 0..1 : T.Q.in[j] = NewInput(S.Q.in[j], N.in[j])
<1> DEFINE U == AlterInput(S, 0, N.in[0])
<1>1. 0 \in 0..GD_MAX_LINCOM - 1 /\ 1 \in 0..GD_MAX_LINCOM - 1
  BY DEF GD_MAX_LINCOM
<1>2. /\ IsWork(U) /\ SameRest(S.Q, U.Q) /\ SameFiles(S, U)
      /\ SameNumbers(S.Q, U.Q)
      /\ U.mod = (S.mod \/ N.in[0] \notin {None, S.Q.in[0]})
      /\ \A j \in 0..GD_MAX_LINCOM - 1 :
           U.Q.in[j] = IF j = 0 THEN NewInput(S.Q.in[0], N.in[0]) ELSE S.Q.in[j]
  BY <1>1, AlterInputIs
<1>3. T = AlterInput(U, 1, N.in[1])
  BY DEF AlterInputs
<1> HIDE DEF U
<1>4. /\ IsWork(T) /\ SameRest(U.Q, T.Q) /\ SameFiles(U, T)
      /\ SameNumbers(U.Q, T.Q)
      /\ T.mod = (U.mod \/ N.in[1] \notin {None, U.Q.in[1]})
      /\ \A j \in 0..GD_MAX_LINCOM - 1 :
           T.Q.in[j] = IF j = 1 THEN NewInput(U.Q.in[1], N.in[1]) ELSE U.Q.in[j]
  BY <1>1, <1>2, <1>3, AlterInputIs
<1>5. SameRest(S.Q, T.Q) /\ SameFiles(S, T) /\ SameNumbers(S.Q, T.Q)
  BY <1>2, <1>4 DEF SameRest, SameFiles, SameNumbers
<1>6. U.Q.in[1] = S.Q.in[1]
  BY <1>1, <1>2
<1>7. \A j \in 0..1 : T.Q.in[j] = NewInput(S.Q.in[j], N.in[j])
  <2>1. T.Q.in[0] = U.Q.in[0] /\ T.Q.in[1] = NewInput(S.Q.in[1], N.in[1])
    BY <1>1, <1>4, <1>6
  <2>2. U.Q.in[0] = NewInput(S.Q.in[0], N.in[0])
    BY <1>1, <1>2
  <2> QED BY <2>1, <2>2
<1> QED BY <1>2, <1>4, <1>5, <1>6, <1>7
-----------------------------------------------------------------------------
(* CalculatedRight, of one entry, and the stronger form of it that holds of   *)
(* the fields whose numbers are all real.                                     *)
Fetched(type, z) == IF type \in ComplexTypes THEN z ELSE Real(z.re)
Fetches(E, consts, i) ==
  /\ E.scalar[i] \in DOMAIN consts
  /\ E.lit[i] = Fetched(E.type, consts[E.scalar[i]])
Right(E, consts) ==
  /\ E.calc => \A i \in Params(E) : E.scalar[i] # None => Fetches(E, consts, i)
  /\ \A i \in Params(E) :
       (E.scalar[i] = None \/ E.calc) /\ E.lit[i].im # 0 => E.cs
Sound(E, consts) ==
  /\ E.calc => \A i \in Params(E) : E.scalar[i] # None => Fetches(E, consts, i)
  /\ \A i \in Params(E) : E.lit[i].im = 0
Ready(E) == E.calc \/ \A i \in Slots : E.scalar[i] = None

LEMMA ShapeIs ==
  ASSUME NEW E, NEW Q, Q.type = E.type, Q.n = E.n
  PROVE  Params(Q) = Params(E)
<1>1. Used(Q) = Used(E)
  BY DEF Used
<1> QED BY <1>1 DEF Params

LEMMA RightIsSound ==
  ASSUME NEW E, NEW consts, IsEntry(E), Right(E, consts), Ready(E),
         E.type \notin ComplexTypes
  PROVE  Sound(E, consts)
<1>1. Params(E) \subseteq Slots /\ E.cs = FALSE
  BY ParamsIn DEF IsEntry
<1> QED BY <1>1 DEF Right, Ready, Sound

LEMMA SoundIsRight ==
  ASSUME NEW E, NEW consts, Sound(E, consts)
  PROVE  Right(E, consts)
BY DEF Right, Sound

LEMMA AlterScalarSound ==
  ASSUME NEW S, NEW consts, IsWork(S), Sound(S.Q, consts),
         NEW i \in Slots, NEW alter \in BOOLEAN, NEW z, IsNumber(z), z.im = 0,
         NEW name
  PROVE  /\ IsWork(AlterScalar(S, i, alter, z, i, name))
         /\ Sound(AlterScalar(S, i, alter, z, i, name).Q, consts)
<1> DEFINE T == AlterScalar(S, i, alter, z, i, name)
<1> HIDE DEF T
<1>1. /\ IsWork(T) /\ SameRest(S.Q, T.Q)
      /\ T.Q.calc = (S.Q.calc /\ ~Bound(name))
      /\ \A s \in Slots :
           /\ T.Q.scalar[s] = IF s = i THEN NewName(S.Q.scalar[i], name)
                              ELSE S.Q.scalar[s]
           /\ T.Q.lit[s] = IF s = i
                           THEN NewLit(S.Q.lit[i], S.Q.scalar[i], alter, z, name)
                           ELSE S.Q.lit[s]
  BY AlterScalarIs DEF T
<1>2. Params(T.Q) = Params(S.Q) /\ Params(S.Q) \subseteq Slots
  BY <1>1, ShapeIs, ParamsIn DEF SameRest, IsWork
<1>3. ASSUME NEW s \in Params(S.Q)
      PROVE  /\ T.Q.lit[s].im = 0
             /\ T.Q.calc /\ T.Q.scalar[s] # None =>
                  /\ S.Q.calc /\ T.Q.scalar[s] = S.Q.scalar[s]
                  /\ T.Q.lit[s] = S.Q.lit[s]
  <2>1. CASE s # i
    BY <1>1, <1>2, <1>3, <2>1 DEF Sound
  <2>2. CASE s = i
    <3>1. T.Q.lit[s].im = 0
      BY <1>1, <1>2, <1>3, <2>2 DEF Sound, NewLit
    <3>2. ASSUME T.Q.calc, T.Q.scalar[s] # None
          PROVE  /\ S.Q.calc /\ T.Q.scalar[s] = S.Q.scalar[s]
                 /\ T.Q.lit[s] = S.Q.lit[s]
      BY <1>1, <1>2, <2>2, <3>2 DEF NewName, NewLit, Sets
    <3> QED BY <3>1, <3>2
  <2> QED BY <2>1, <2>2
<1>4. T.Q.type = S.Q.type
  BY <1>1 DEF SameRest
<1>5. Sound(T.Q, consts)
  BY <1>2, <1>3, <1>4 DEF Sound, Fetches
<1> QED BY <1>1, <1>5 DEF T
LEMMA SameNumbersSound ==
  ASSUME NEW E, NEW Q, NEW consts, SameRest(E, Q), SameNumbers(E, Q)
  PROVE  /\ Sound(E, consts) => Sound(Q, consts)
         /\ Right(E, consts) => Right(Q, consts)
<1>1. Params(Q) = Params(E) /\ Q.type = E.type
  BY ShapeIs DEF SameRest
<1> QED BY <1>1 DEF SameNumbers, Sound, Right, Fetches
-----------------------------------------------------------------------------
(* What an alteration does of each type of field.  An entry that asks for one *)
(* is IsAsk.                                                                  *)
IsAsk(N) ==
  /\ \A i \in Slots : IsNumber(N.lit[i])
  /\ \A i \in Slots : N.lit[i].im # 0 => N.type \in ComplexTypes
  /\ N.cs \in BOOLEAN
  /\ N.type = "LINCOM" => N.n \in Nat
  /\ N.type = "POLYNOM" => N.n \in 0..GD_MAX_POLYORD

LEMMA SlotsAre == {0, 1, 2, 3, 4, 5} = Slots
BY DEF Slots, GD_MAX_POLYORD

LEMMA RealAre ==
  /\ \A x : IsNumber(Real(x)) /\ Real(x).re = x /\ Real(x).im = 0
  /\ IsNumber(Zero) /\ Zero.re = 0 /\ Zero.im = 0
  /\ \A z : IsNumber(z) /\ z.im = 0 => Real(z.re) = z
BY DEF IsNumber, Real, Complex, Zero

LEMMA PhaseRight ==
  ASSUME NEW S, NEW N, NEW consts, IsWork(S), Sound(S.Q, consts), IsAsk(N),
         S.Q.type = "PHASE", N.type = "PHASE"
  PROVE  IsWork(ChangePhase(S, N)) /\ Right(ChangePhase(S, N).Q, consts)
<1> DEFINE T == AlterScalar(S, 0, N.lit[0] # S.Q.lit[0], N.lit[0], 0, N.scalar[0])
<1>1. 0 \in Slots /\ IsNumber(N.lit[0]) /\ N.lit[0].im = 0
  BY SlotsAre DEF IsAsk, ComplexTypes
<1>2. IsWork(T) /\ Sound(T.Q, consts)
  BY <1>1, AlterScalarSound
<1>3. ChangePhase(S, N) = AlterInput(T, 0, N.in[0])
  BY DEF ChangePhase
<1> HIDE DEF T
<1>4. 0 \in 0..GD_MAX_LINCOM - 1
  BY DEF GD_MAX_LINCOM
<1> QED BY <1>2, <1>3, <1>4, AlterInputIs, SameNumbersSound, SoundIsRight

LEMMA WindowRight ==
  ASSUME NEW S, NEW N, NEW consts, IsWork(S), Sound(S.Q, consts), IsAsk(N),
         S.Q.type = "WINDOW", N.type = "WINDOW"
  PROVE  IsWork(ChangeWindow(S, N)) /\ Right(ChangeWindow(S, N).Q, consts)
<1> DEFINE T == IF N.sub = None THEN S ELSE [S EXCEPT !.Q.sub = N.sub, !.mod = TRUE]
           U == AlterScalar(T, 0, N.lit[0] # S.Q.lit[0], N.lit[0], 0, N.scalar[0])
<1>1. 0 \in Slots /\ IsNumber(N.lit[0]) /\ N.lit[0].im = 0
  BY SlotsAre DEF IsAsk, ComplexTypes
<1>2. IsWork(T) /\ Sound(T.Q, consts)
  <2>1. CASE N.sub = None
    BY <2>1
  <2>2. CASE N.sub # None
    <3>1. /\ DOMAIN T = WorkFields /\ T.mod = TRUE /\ T.error = S.error
          /\ T.Q = [S.Q EXCEPT !.sub = N.sub]
      BY <2>2 DEF IsWork, WorkFields
    <3>2. /\ DOMAIN T.Q = EntryFields /\ T.Q.type = S.Q.type /\ T.Q.n = S.Q.n
          /\ T.Q.in = S.Q.in /\ SameNumbers(S.Q, T.Q)
      BY <3>1 DEF IsWork, IsEntry, EntryFields, SameNumbers
    <3> HIDE DEF T
    <3>3. Params(T.Q) = Params(S.Q)
      BY <3>2, ShapeIs
    <3>4. Sound(T.Q, consts)
      BY <3>2, <3>3 DEF Sound, Fetches, SameNumbers
    <3>5. IsEntry(T.Q)
      BY <3>2 DEF IsWork, IsEntry, SameNumbers
    <3>6. S.error \in BOOLEAN
      BY DEF IsWork
    <3> QED BY <3>1, <3>4, <3>5, <3>6 DEF IsWork
  <2> QED BY <2>1, <2>2
<1>3. ChangeWindow(S, N) = AlterInputs(U, N)
  BY DEF ChangeWindow
<1> HIDE DEF T
<1>4. IsWork(U) /\ Sound(U.Q, consts)
  BY <1>1, <1>2, AlterScalarSound
<1> HIDE DEF U
<1> QED BY <1>3, <1>4, AlterInputsIs, SameNumbersSound, SoundIsRight

LEMMA BitRight ==
  ASSUME NEW S, NEW N, NEW consts, IsWork(S), Sound(S.Q, consts), IsAsk(N),
         S.Q.type = N.type, N.type \in {"BIT", "SBIT"}
  PROVE  IsWork(ChangeBit(S, N)) /\ Right(ChangeBit(S, N).Q, consts)
<1> DEFINE T == AlterScalar(S, 1, N.lit[1].re >= 1 /\ N.lit[1] # S.Q.lit[1],
                            N.lit[1], 1, N.scalar[1])
           U == AlterScalar(T, 0, N.lit[0].re >= 0 /\ N.lit[0] # S.Q.lit[0],
                            N.lit[0], 0, N.scalar[0])
<1>1. \A i \in {0, 1} : i \in Slots /\ IsNumber(N.lit[i]) /\ N.lit[i].im = 0
  BY SlotsAre DEF IsAsk, ComplexTypes
<1>2. IsWork(T) /\ Sound(T.Q, consts)
  BY <1>1, AlterScalarSound
<1>3. ChangeBit(S, N) = AlterInput(U, 0, N.in[0])
  BY DEF ChangeBit
<1> HIDE DEF T
<1>4. IsWork(U) /\ Sound(U.Q, consts)
  BY <1>1, <1>2, AlterScalarSound
<1> HIDE DEF U
<1>5. 0 \in 0..GD_MAX_LINCOM - 1
  BY DEF GD_MAX_LINCOM
<1> QED BY <1>3, <1>4, <1>5, AlterInputIs, SameNumbersSound, SoundIsRight
LEMMA RawRight ==
  ASSUME NEW S, NEW N, NEW consts, NEW recode \in BOOLEAN, IsWork(S),
         Sound(S.Q, consts), IsAsk(N), S.Q.type = "RAW", N.type = "RAW"
  PROVE  /\ IsWork(ChangeRaw(S, N, recode, consts))
         /\ Right(ChangeRaw(S, N, recode, consts).Q, consts)
<1> DEFINE E == S.Q
           sub == IF N.sub = None THEN E.sub ELSE N.sub
           alter == N.lit[0].re # 0 /\ N.lit[0] # E.lit[0]
           T == AlterScalar(S, 0, alter, N.lit[0], 0, N.scalar[0])
           U == Also([T EXCEPT !.Q.sub = sub], sub # E.sub)
           V == ChangeRawFile(U, E, recode, consts)
<1>1. 0 \in Slots /\ IsNumber(N.lit[0]) /\ N.lit[0].im = 0
  BY SlotsAre DEF IsAsk, ComplexTypes
<1>2. IsWork(T) /\ Sound(T.Q, consts)
  BY <1>1, AlterScalarSound
<1>3. /\ T.Q.type = "RAW"
      /\ T.Q.calc /\ T.Q.scalar[0] # None => T.Q.scalar[0] = E.scalar[0]
  <2>1. alter \in BOOLEAN
    OBVIOUS
  <2> HIDE DEF alter
  <2>2. /\ SameRest(S.Q, T.Q) /\ T.Q.calc = (S.Q.calc /\ ~Bound(N.scalar[0]))
        /\ T.Q.scalar[0] = NewName(S.Q.scalar[0], N.scalar[0])
    BY <1>1, <2>1, AlterScalarIs
  <2> QED BY <2>2 DEF SameRest, NewName
<1> HIDE DEF T
<1>4. /\ IsWork(U) /\ Sound(U.Q, consts) /\ U.Q.type = "RAW"
      /\ U.Q.calc /\ U.Q.scalar[0] # None => U.Q.scalar[0] = E.scalar[0]
  <2>1. /\ DOMAIN U = WorkFields /\ U.mod = (T.mod \/ sub # E.sub)
        /\ U.error = T.error /\ U.Q = [T.Q EXCEPT !.sub = sub]
    BY <1>2 DEF IsWork, WorkFields, Also
  <2>2. /\ DOMAIN U.Q = EntryFields /\ U.Q.type = T.Q.type /\ U.Q.n = T.Q.n
        /\ U.Q.in = T.Q.in /\ SameNumbers(T.Q, U.Q)
    BY <1>2, <2>1 DEF IsWork, IsEntry, EntryFields, SameNumbers
  <2> HIDE DEF U
  <2>3. Params(U.Q) = Params(T.Q)
    BY <2>2, ShapeIs
  <2>4. Sound(U.Q, consts)
    BY <1>2, <2>2, <2>3 DEF Sound, Fetches, SameNumbers
  <2>5. IsEntry(U.Q)
    BY <1>2, <2>2 DEF IsWork, IsEntry, SameNumbers
  <2>6. U.mod \in BOOLEAN /\ U.error \in BOOLEAN
    BY <1>2, <2>1 DEF IsWork
  <2>7. /\ U.Q.type = "RAW"
        /\ U.Q.calc /\ U.Q.scalar[0] # None => U.Q.scalar[0] = E.scalar[0]
    BY <1>3, <2>2 DEF SameNumbers
  <2> QED BY <2>1, <2>4, <2>5, <2>6, <2>7 DEF IsWork
<1>5. IsWork(Spoilt(U)) /\ Right(Spoilt(U).Q, consts)
  <2>1. /\ DOMAIN Spoilt(U) = WorkFields /\ Spoilt(U).Q = U.Q
        /\ Spoilt(U).mod = U.mod /\ Spoilt(U).error = TRUE
    BY <1>4 DEF IsWork, WorkFields, Spoilt
  <2> QED BY <1>4, <2>1, SoundIsRight DEF IsWork
<1>6. ChangeRaw(S, N, recode, consts) =
        IF ~U.mod THEN U ELSE IF sub \notin DataTypes THEN Spoilt(U) ELSE V
  BY DEF ChangeRaw, T
<1>7. IsWork(V) /\ Right(V.Q, consts)
  <2> HIDE DEF U
  <2> DEFINE named == U.Q.scalar[0] # None /\ U.Q.scalar[0] # E.scalar[0]
             spf == IF named THEN consts[U.Q.scalar[0]].re ELSE U.Q.lit[0].re
             W == [U EXCEPT !.Q.lit[0] = Real(spf),
                            !.file = SPFConvert(@, E.lit[0].re, spf)]
  <2>1. V = IF ~recode THEN U
            ELSE IF named /\ U.Q.scalar[0] \notin DOMAIN consts THEN Spoilt(U)
            ELSE W
    BY DEF ChangeRawFile
  <2>2. IsWork(W) /\ Right(W.Q, consts)
    <3>1. /\ DOMAIN W = WorkFields /\ W.mod = U.mod /\ W.error = U.error
          /\ W.Q = [U.Q EXCEPT !.lit[0] = Real(spf)]
      BY <1>4 DEF IsWork, WorkFields
    <3> DEFINE lits == [U.Q.lit EXCEPT ![0] = Real(spf)]
    <3>2. /\ DOMAIN W.Q = EntryFields /\ W.Q.type = "RAW"
          /\ W.Q.scalar = U.Q.scalar /\ W.Q.calc = U.Q.calc /\ W.Q.cs = U.Q.cs
          /\ W.Q.in = U.Q.in /\ W.Q.lit = lits
      BY <1>4, <3>1 DEF IsWork, IsEntry, EntryFields
    <3>3. /\ DOMAIN lits = Slots /\ lits[0] = Real(spf)
          /\ \A i \in Slots : IsNumber(lits[i])
      BY <1>1, <1>4, RealAre DEF IsWork, IsEntry
    <3>4. lits[0].im = 0
      BY <3>3, RealAre
    <3>5. ASSUME U.Q.calc, U.Q.scalar[0] # None
          PROVE  Fetches(W.Q, consts, 0)
      <4>1. 0 \in Params(U.Q)
        BY <1>4, ParamsAre
      <4>2. /\ U.Q.scalar[0] \in DOMAIN consts
            /\ U.Q.lit[0] = Fetched("RAW", consts[U.Q.scalar[0]])
        BY <1>4, <3>5, <4>1 DEF Sound, Fetches
      <4>3. ~named
        BY <1>4, <3>5
      <4>4. lits[0] = U.Q.lit[0]
        BY <3>3, <4>2, <4>3, RealAre DEF Fetched, ComplexTypes
      <4> QED BY <3>2, <4>2, <4>4 DEF Fetches
    <3> HIDE DEF W, lits
    <3>6. Params(W.Q) = {0}
      BY <3>2, ParamsAre
    <3>7. Right(W.Q, consts)
      BY <3>2, <3>4, <3>5, <3>6 DEF Right
    <3>8. IsEntry(W.Q)
      BY <1>4, <3>2, <3>3 DEF IsEntry, IsWork
    <3> QED BY <1>4, <3>1, <3>7, <3>8 DEF IsWork
  <2> HIDE DEF V, W, named
  <2> QED BY <1>4, <1>5, <2>1, <2>2, SoundIsRight
<1> HIDE DEF U, V
<1> QED BY <1>4, <1>5, <1>6, <1>7, SoundIsRight

LEMMA MplexRight ==
  ASSUME NEW S, NEW N, NEW consts, IsWork(S), Sound(S.Q, consts), IsAsk(N),
         S.Q.type = "MPLEX", N.type = "MPLEX",
         \A i \in Slots : ChangeMplex(S, N).Q.scalar[i] = None
  PROVE  IsWork(ChangeMplex(S, N)) /\ Right(ChangeMplex(S, N).Q, consts)
<1> DEFINE f == N.lit[1].re # -1 /\ N.lit[1] # S.Q.lit[1]
           g == N.lit[0].re # -1 /\ N.lit[0] # S.Q.lit[0]
           T == AlterScalar(S, 1, f, N.lit[1], 0, N.scalar[0])
           U == AlterScalar(T, 0, g, N.lit[0], 1, N.scalar[1])
           V == AlterInputs(U, N)
<1>1. \A i \in {0, 1} : i \in Slots /\ IsNumber(N.lit[i]) /\ N.lit[i].im = 0
  BY SlotsAre DEF IsAsk, ComplexTypes
<1>2. /\ S.Q.lit[0].im = 0 /\ S.Q.lit[1].im = 0
  BY ParamsAre DEF Sound
<1>3. ChangeMplex(S, N) = V
  BY DEF ChangeMplex
<1>4. f \in BOOLEAN /\ g \in BOOLEAN
  OBVIOUS
<1> HIDE DEF f, g
<1>5. /\ IsWork(T) /\ SameRest(S.Q, T.Q)
      /\ \A s \in Slots : T.Q.lit[s] =
           IF s = 1 THEN NewLit(S.Q.lit[1], S.Q.scalar[0], f, N.lit[1], N.scalar[0])
           ELSE S.Q.lit[s]
  BY <1>1, <1>4, AlterScalarIs
<1> HIDE DEF T
<1>6. /\ IsWork(U) /\ SameRest(T.Q, U.Q)
      /\ \A s \in Slots : U.Q.lit[s] =
           IF s = 0 THEN NewLit(T.Q.lit[0], T.Q.scalar[1], g, N.lit[0], N.scalar[1])
           ELSE T.Q.lit[s]
  BY <1>1, <1>4, <1>5, AlterScalarIs
<1> HIDE DEF U
<1>7. IsWork(V) /\ SameRest(U.Q, V.Q) /\ SameNumbers(U.Q, V.Q)
  BY <1>6, AlterInputsIs
<1> HIDE DEF V
<1>8. V.Q.type = "MPLEX"
  BY <1>5, <1>6, <1>7 DEF SameRest
<1>9. V.Q.lit[0].im = 0 /\ V.Q.lit[1].im = 0
  BY <1>1, <1>2, <1>5, <1>6, <1>7 DEF NewLit, SameNumbers
<1>10. Right(V.Q, consts)
  BY <1>1, <1>3, <1>8, <1>9, ParamsAre DEF Right
<1> QED BY <1>3, <1>7, <1>10
-----------------------------------------------------------------------------
(* The fields whose numbers may be complex.  A scalar that is still there     *)
(* after an alteration, of an entry that is still calculated, was there and   *)
(* has kept its number.                                                       *)
Stays(E, Q, i) ==
  Q.calc /\ Q.scalar[i] # None =>
    /\ i \in Params(E) /\ E.calc /\ Q.scalar[i] = E.scalar[i]
    /\ Q.lit[i] = E.lit[i]

LEMMA StaysRight ==
  ASSUME NEW E, NEW Q, NEW consts, Right(E, consts), Q.type = E.type,
         \A i \in Params(Q) : Stays(E, Q, i),
         \A i \in Params(Q) : Q.lit[i].im # 0 => Q.cs
  PROVE  Right(Q, consts)
BY DEF Right, Stays, Fetches

LEMMA RecomplexIs ==
  ASSUME NEW S, IsWork(S), S.Q.type \in ComplexTypes, NEW E, NEW slots
  PROVE  LET T == Recomplex(S, E, slots)
         IN /\ IsWork(T) /\ T.Q.type = S.Q.type /\ T.Q.n = S.Q.n
            /\ T.Q.lit = S.Q.lit /\ T.Q.scalar = S.Q.scalar
            /\ T.Q.calc = S.Q.calc
            /\ \A i \in slots : S.Q.lit[i].im # 0 => T.Q.cs
<1> DEFINE cs == \E i \in slots : S.Q.lit[i].im # 0
           T == Recomplex(S, E, slots)
           mod == S.mod \/ (cs # E.cs)
<1>1. T = [S EXCEPT !.Q.cs = cs, !.mod = mod]
  BY DEF Recomplex, Also, IsWork, WorkFields
<1>2. cs \in BOOLEAN /\ mod \in BOOLEAN
  BY DEF IsWork
<1> HIDE DEF mod
<1> DEFINE c == cs
<1>3. c = \E i \in slots : S.Q.lit[i].im # 0
  OBVIOUS
<1>4. T = [S EXCEPT !.Q.cs = c, !.mod = mod] /\ c \in BOOLEAN
  BY <1>1, <1>2
<1> HIDE DEF c, T
<1>5. /\ DOMAIN T = WorkFields /\ T.mod = mod /\ T.error = S.error
      /\ T.Q = [S.Q EXCEPT !.cs = c]
  BY <1>4 DEF IsWork, WorkFields
<1>6. /\ DOMAIN T.Q = EntryFields /\ T.Q.type = S.Q.type /\ T.Q.n = S.Q.n
      /\ T.Q.in = S.Q.in /\ T.Q.lit = S.Q.lit /\ T.Q.scalar = S.Q.scalar
      /\ T.Q.calc = S.Q.calc /\ T.Q.cs = c
  BY <1>5 DEF IsWork, IsEntry, EntryFields
<1>7. IsEntry(T.Q)
  BY <1>4, <1>6 DEF IsWork, IsEntry
<1>8. IsWork(T)
  BY <1>2, <1>5, <1>7 DEF IsWork
<1> QED BY <1>3, <1>6, <1>8 DEF T

LEMMA Alter1Is ==
  ASSUME NEW S, IsWork(S), NEW N, IsAsk(N), NEW i \in Slots
  PROVE  LET T == Alter1(S, N, i)
         IN /\ IsNumber(T.Q.lit[i]) /\ T.mod \in BOOLEAN
            /\ T.Q.scalar[i] = NewName(S.Q.scalar[i], N.scalar[i])
            /\ T.Q.calc = (S.Q.calc /\ ~Bound(N.scalar[i]))
            /\ T.Q.calc /\ T.Q.scalar[i] # None =>
                 /\ T.Q.scalar[i] = S.Q.scalar[i] /\ N.scalar[i] = Keep
                 /\ N.cs \/ S.Q.lit[i].im = 0 => T.Q.lit[i] = S.Q.lit[i]
<1> DEFINE z == IF N.cs THEN N.lit[i] ELSE Real_(N.lit[i])
           alter == ~(IF N.cs THEN S.Q.lit[i] = z ELSE S.Q.lit[i].re = z.re)
           U == AlterScalar(S, i, alter, z, i, N.scalar[i])
           T == Alter1(S, N, i)
<1>1. T = IF N.cs THEN U ELSE [U EXCEPT !.Q.lit[i] = Real_(@)]
  BY DEF Alter1
<1>2. IsNumber(z)
  BY RealAre DEF IsAsk, Real_
<1>3. alter \in BOOLEAN
  BY DEF IsAsk
<1> HIDE DEF z, alter
<1>4. /\ IsWork(U) /\ U.Q.calc = (S.Q.calc /\ ~Bound(N.scalar[i]))
      /\ U.Q.scalar[i] = NewName(S.Q.scalar[i], N.scalar[i])
      /\ U.Q.lit[i] = NewLit(S.Q.lit[i], S.Q.scalar[i], alter, z, N.scalar[i])
  BY <1>2, <1>3, AlterScalarIs
<1> HIDE DEF U, T
<1>5. U.Q.calc /\ U.Q.scalar[i] # None =>
        /\ U.Q.scalar[i] = S.Q.scalar[i] /\ N.scalar[i] = Keep
        /\ U.Q.lit[i] = S.Q.lit[i]
  BY <1>4 DEF NewName, NewLit, Sets, Bound
<1>6. IsNumber(S.Q.lit[i]) /\ IsNumber(U.Q.lit[i])
  BY <1>4 DEF IsWork, IsEntry
<1>7. /\ T.mod = U.mod /\ T.Q.scalar = U.Q.scalar /\ T.Q.calc = U.Q.calc
      /\ T.Q.lit[i] = IF N.cs THEN U.Q.lit[i] ELSE Real(U.Q.lit[i].re)
  <2>1. CASE N.cs
    BY <1>1, <2>1
  <2>2. CASE ~N.cs
    <3>1. T = [U EXCEPT !.Q = [U.Q EXCEPT !.lit = [U.Q.lit EXCEPT ![i] = Real(U.Q.lit[i].re)]]]
      BY <1>1, <2>2 DEF Real_
    <3>2. T.mod = U.mod /\ T.Q = [U.Q EXCEPT !.lit = [U.Q.lit EXCEPT ![i] = Real(U.Q.lit[i].re)]]
      BY <1>4, <3>1 DEF IsWork, WorkFields
    <3> QED BY <1>4, <2>2, <3>2 DEF IsWork, IsEntry, EntryFields
  <2> QED BY <2>1, <2>2
<1>8. IsNumber(T.Q.lit[i])
  BY <1>6, <1>7, RealAre
<1>9. U.mod \in BOOLEAN
  BY <1>4 DEF IsWork
<1> QED BY <1>4, <1>5, <1>6, <1>7, <1>8, <1>9, RealAre DEF T
LEMMA RecipRight ==
  ASSUME NEW S, NEW N, NEW consts, NEW flags, IsWork(S), Right(S.Q, consts),
         IsAsk(N), S.Q.type = "RECIP", N.type = "RECIP",
         MayBeReal(S.Q, N, flags)
  PROVE  IsWork(ChangeRecip(S, N)) /\ Right(ChangeRecip(S, N).Q, consts)
<1> DEFINE z == IF N.cs THEN N.lit[0] ELSE Real_(N.lit[0])
           T == AlterInput(S, 0, N.in[0])
           alter == z # Zero /\ ~(IF N.cs THEN S.Q.lit[0] = z ELSE S.Q.lit[0].re = z.re)
           U == AlterScalar(T, 0, alter, z, 0, N.scalar[0])
           V == IF N.cs THEN U ELSE [U EXCEPT !.Q.lit[0] = Real_(@)]
           W == Recomplex(V, S.Q, {0})
<1>1. ChangeRecip(S, N) = W
  BY DEF ChangeRecip
<1>2. /\ 0 \in Slots /\ IsNumber(z) /\ alter \in BOOLEAN
      /\ 0 \in 0..GD_MAX_LINCOM - 1
  BY RealAre, SlotsAre DEF IsAsk, Real_, GD_MAX_LINCOM
<1> HIDE DEF z, alter
<1>3. IsWork(T) /\ SameRest(S.Q, T.Q) /\ SameNumbers(S.Q, T.Q)
  BY <1>2, AlterInputIs
<1> HIDE DEF T
<1>4. /\ IsWork(U) /\ SameRest(T.Q, U.Q)
      /\ U.Q.calc = (T.Q.calc /\ ~Bound(N.scalar[0]))
      /\ U.Q.scalar[0] = NewName(T.Q.scalar[0], N.scalar[0])
      /\ U.Q.lit[0] = NewLit(T.Q.lit[0], T.Q.scalar[0], alter, z, N.scalar[0])
  BY <1>2, <1>3, AlterScalarIs
<1> HIDE DEF U
<1>5. /\ IsWork(V) /\ V.Q.type = U.Q.type /\ V.Q.n = U.Q.n
      /\ V.Q.scalar = U.Q.scalar /\ V.Q.calc = U.Q.calc
      /\ V.Q.lit[0] = IF N.cs THEN U.Q.lit[0] ELSE Real(U.Q.lit[0].re)
  <2>1. CASE N.cs
    BY <1>4, <2>1
  <2>2. CASE ~N.cs
    <3> DEFINE lits == [U.Q.lit EXCEPT ![0] = Real(U.Q.lit[0].re)]
    <3>1. V = [U EXCEPT !.Q = [U.Q EXCEPT !.lit = lits]]
      BY <2>2 DEF Real_
    <3>2. /\ DOMAIN lits = Slots /\ lits[0] = Real(U.Q.lit[0].re)
          /\ \A i \in Slots : IsNumber(lits[i])
      BY <1>2, <1>4, RealAre DEF IsWork, IsEntry
    <3> HIDE DEF lits, V
    <3>3. /\ DOMAIN V = WorkFields /\ V.mod = U.mod /\ V.error = U.error
          /\ V.Q = [U.Q EXCEPT !.lit = lits]
      BY <1>4, <3>1 DEF IsWork, WorkFields
    <3>4. /\ DOMAIN V.Q = EntryFields /\ V.Q.type = U.Q.type /\ V.Q.n = U.Q.n
          /\ V.Q.in = U.Q.in /\ V.Q.scalar = U.Q.scalar
          /\ V.Q.calc = U.Q.calc /\ V.Q.lit = lits /\ V.Q.cs = U.Q.cs
      BY <1>4, <3>3 DEF IsWork, IsEntry, EntryFields
    <3>5. IsEntry(V.Q)
      BY <1>4, <3>2, <3>4 DEF IsWork, IsEntry
    <3> QED BY <1>4, <2>2, <3>2, <3>3, <3>4, <3>5 DEF IsWork
  <2> QED BY <2>1, <2>2
<1> HIDE DEF V
<1>6. V.Q.type = "RECIP" /\ "RECIP" \in ComplexTypes
  BY <1>3, <1>4, <1>5 DEF SameRest, ComplexTypes
<1>7. /\ IsWork(W) /\ W.Q.type = V.Q.type /\ W.Q.n = V.Q.n
      /\ W.Q.lit = V.Q.lit /\ W.Q.scalar = V.Q.scalar /\ W.Q.calc = V.Q.calc
      /\ V.Q.lit[0].im # 0 => W.Q.cs
  BY <1>5, <1>6, RecomplexIs
<1> HIDE DEF W
<1>8. Params(W.Q) = {0} /\ Params(S.Q) = {0}
  BY <1>6, <1>7, ParamsAre
<1>9. Stays(S.Q, W.Q, 0)
  <2> SUFFICES ASSUME W.Q.calc, W.Q.scalar[0] # None
               PROVE  /\ S.Q.calc /\ W.Q.scalar[0] = S.Q.scalar[0]
                      /\ W.Q.lit[0] = S.Q.lit[0]
    BY <1>8 DEF Stays
  <2>1. /\ S.Q.calc /\ N.scalar[0] = Keep /\ S.Q.scalar[0] # None
        /\ W.Q.scalar[0] = S.Q.scalar[0] /\ U.Q.lit[0] = S.Q.lit[0]
    BY <1>3, <1>4, <1>5, <1>7
       DEF SameNumbers, NewName, NewLit, Sets, Bound
  <2>2. N.cs \/ ~S.Q.cs
    BY <2>1 DEF MayBeReal
  <2>3. ~S.Q.cs => S.Q.lit[0].im = 0
    BY <1>8, <2>1 DEF Right
  <2>4. IsNumber(S.Q.lit[0])
    BY <1>2 DEF IsWork, IsEntry
  <2> QED BY <1>5, <1>7, <2>1, <2>2, <2>3, <2>4, RealAre
<1>10. Right(W.Q, consts)
  BY <1>6, <1>7, <1>8, <1>9, StaysRight
<1> QED BY <1>1, <1>7, <1>10

LEMMA AlterTheseIs ==
  ASSUME NEW S, IsWork(S), NEW N, IsAsk(N), NEW slots, slots \subseteq Slots
  PROVE  LET T == AlterThese(S, N, slots)
         IN /\ IsWork(T) /\ SameRest(S.Q, T.Q) /\ T.Q.cs = S.Q.cs
            /\ \A i \in Slots \ slots :
                 T.Q.lit[i] = S.Q.lit[i] /\ T.Q.scalar[i] = S.Q.scalar[i]
            /\ \A i \in Slots : T.Q.calc /\ T.Q.scalar[i] # None =>
                 /\ S.Q.calc /\ T.Q.scalar[i] = S.Q.scalar[i]
                 /\ i \in slots => N.scalar[i] = Keep
                 /\ i \notin slots \/ N.cs \/ S.Q.lit[i].im = 0 =>
                      T.Q.lit[i] = S.Q.lit[i]
<1> DEFINE One(i) == Alter1(S, N, i)
           lits == [i \in Slots |-> IF i \in slots THEN One(i).Q.lit[i] ELSE S.Q.lit[i]]
           names == [i \in Slots |-> IF i \in slots THEN One(i).Q.scalar[i]
                                     ELSE S.Q.scalar[i]]
           calc == S.Q.calc /\ \A i \in slots : One(i).Q.calc
           mod == S.mod \/ \E i \in slots : One(i).mod
           T == AlterThese(S, N, slots)
<1>1. T = [S EXCEPT !.Q.lit = lits, !.Q.scalar = names, !.Q.calc = calc, !.mod = mod]
  BY DEF AlterThese, IsWork, WorkFields, IsEntry, EntryFields
<1>2. ASSUME NEW i \in slots
      PROVE  /\ IsNumber(One(i).Q.lit[i]) /\ One(i).mod \in BOOLEAN
             /\ One(i).Q.calc = (S.Q.calc /\ ~Bound(N.scalar[i]))
             /\ One(i).Q.calc /\ One(i).Q.scalar[i] # None =>
                  /\ One(i).Q.scalar[i] = S.Q.scalar[i] /\ N.scalar[i] = Keep
                  /\ N.cs \/ S.Q.lit[i].im = 0 => One(i).Q.lit[i] = S.Q.lit[i]
  BY Alter1Is
<1> HIDE DEF One
<1>3. /\ DOMAIN lits = Slots /\ DOMAIN names = Slots
      /\ \A i \in Slots : IsNumber(lits[i])
      /\ calc \in BOOLEAN /\ mod \in BOOLEAN
      /\ calc => S.Q.calc
  BY <1>2 DEF IsWork, IsEntry
<1>4. ASSUME NEW i \in Slots
      PROVE  /\ i \notin slots => lits[i] = S.Q.lit[i] /\ names[i] = S.Q.scalar[i]
             /\ calc /\ names[i] # None =>
                 /\ S.Q.calc /\ names[i] = S.Q.scalar[i]
                 /\ i \in slots => N.scalar[i] = Keep
                 /\ i \notin slots \/ N.cs \/ S.Q.lit[i].im = 0 =>
                      lits[i] = S.Q.lit[i]
  BY <1>2
<1> HIDE DEF lits, names, calc, mod, T
<1>5. /\ DOMAIN T = WorkFields /\ T.mod = mod /\ T.error = S.error
      /\ T.Q = [S.Q EXCEPT !.lit = lits, !.scalar = names, !.calc = calc]
  BY <1>1 DEF IsWork, WorkFields
<1>6. /\ DOMAIN T.Q = EntryFields /\ SameRest(S.Q, T.Q) /\ T.Q.in = S.Q.in
      /\ T.Q.lit = lits /\ T.Q.scalar = names /\ T.Q.calc = calc
      /\ T.Q.cs = S.Q.cs
  BY <1>5 DEF IsWork, IsEntry, EntryFields, SameRest
<1>7. IsEntry(T.Q)
  BY <1>3, <1>6 DEF IsWork, IsEntry, SameRest
<1>8. IsWork(T)
  BY <1>3, <1>5, <1>7 DEF IsWork
<1> QED BY <1>4, <1>6, <1>8 DEF T
LEMMA PolynomRight ==
  ASSUME NEW S, NEW N, NEW consts, NEW flags, IsWork(S), Right(S.Q, consts),
         Ready(S.Q), IsAsk(N), S.Q.type = "POLYNOM", N.type = "POLYNOM",
         MayBeReal(S.Q, N, flags), MayGrow(S.Q, N, flags)
  PROVE  /\ IsWork(ChangePolynom(S, N, flags))
         /\ Right(ChangePolynom(S, N, flags).Q, consts)
<1> DEFINE E == S.Q
           n == IF N.n = 0 THEN E.n ELSE N.n
           R == AlterInput(S, 0, N.in[0])
           T == Also([R EXCEPT !.Q.n = n], n # E.n)
           slots == IF 1 \in flags THEN 0..n ELSE {}
           U == AlterThese(T, N, slots)
           W == Recomplex(U, E, slots)
<1>1. ChangePolynom(S, N, flags) = W
  BY DEF ChangePolynom
<1>2. /\ n \in 0..GD_MAX_POLYORD /\ E.n \in 0..GD_MAX_POLYORD
      /\ slots \subseteq Slots /\ 0 \in 0..GD_MAX_LINCOM - 1
      /\ n > E.n => N.n > E.n /\ n = N.n
  BY DEF IsWork, IsEntry, IsAsk, Slots, GD_MAX_POLYORD, GD_MAX_LINCOM
<1> HIDE DEF n
<1>3. IsWork(R) /\ SameRest(E, R.Q) /\ SameNumbers(E, R.Q)
  BY <1>2, AlterInputIs
<1> HIDE DEF R
<1>4. /\ IsWork(T) /\ T.Q.type = "POLYNOM" /\ T.Q.n = n
      /\ SameNumbers(E, T.Q)
  <2>1. /\ DOMAIN T = WorkFields /\ T.mod = (R.mod \/ n # E.n)
        /\ T.error = R.error /\ T.Q = [R.Q EXCEPT !.n = n]
    BY <1>3 DEF IsWork, WorkFields, Also
  <2> HIDE DEF T
  <2>2. /\ DOMAIN T.Q = EntryFields /\ T.Q.type = R.Q.type /\ T.Q.n = n
        /\ T.Q.in = R.Q.in /\ SameNumbers(R.Q, T.Q)
    BY <1>3, <2>1 DEF IsWork, IsEntry, EntryFields, SameNumbers
  <2>3. T.Q.type = "POLYNOM"
    BY <1>3, <2>2 DEF SameRest
  <2>4. IsEntry(T.Q)
    BY <1>2, <1>3, <2>2, <2>3 DEF IsWork, IsEntry, SameNumbers
  <2>5. R.mod \in BOOLEAN /\ R.error \in BOOLEAN
    BY <1>3 DEF IsWork
  <2>6. SameNumbers(E, T.Q)
    BY <1>3, <2>2 DEF SameNumbers
  <2> QED BY <2>1, <2>2, <2>3, <2>4, <2>5, <2>6 DEF IsWork
<1> HIDE DEF T, slots
<1>5. /\ IsWork(U) /\ SameRest(T.Q, U.Q) /\ U.Q.cs = T.Q.cs
      /\ \A i \in Slots \ slots :
           U.Q.lit[i] = T.Q.lit[i] /\ U.Q.scalar[i] = T.Q.scalar[i]
      /\ \A i \in Slots : U.Q.calc /\ U.Q.scalar[i] # None =>
           /\ T.Q.calc /\ U.Q.scalar[i] = T.Q.scalar[i]
           /\ i \in slots => N.scalar[i] = Keep
           /\ i \notin slots \/ N.cs \/ T.Q.lit[i].im = 0 =>
                U.Q.lit[i] = T.Q.lit[i]
  BY <1>2, <1>4, AlterTheseIs
<1> HIDE DEF U
<1>6. U.Q.type = "POLYNOM" /\ U.Q.n = n /\ U.Q.type \in ComplexTypes
  BY <1>4, <1>5 DEF SameRest, ComplexTypes
<1>7. /\ IsWork(W) /\ W.Q.type = U.Q.type /\ W.Q.n = U.Q.n
      /\ W.Q.lit = U.Q.lit /\ W.Q.scalar = U.Q.scalar /\ W.Q.calc = U.Q.calc
      /\ \A i \in slots : U.Q.lit[i].im # 0 => W.Q.cs
  BY <1>5, <1>6, RecomplexIs
<1> HIDE DEF W
<1>8. Params(W.Q) = 0..n /\ Params(E) = 0..E.n /\ 0..n \subseteq Slots
  BY <1>2, <1>6, <1>7, ParamsAre DEF Slots, GD_MAX_POLYORD
<1>9. \A i \in Params(E) : (E.scalar[i] = None \/ E.calc) /\ ~E.cs => E.lit[i].im = 0
  BY DEF Right
<1>10. ASSUME NEW i \in Params(W.Q) PROVE Stays(E, W.Q, i)
  <2> SUFFICES ASSUME W.Q.calc, W.Q.scalar[i] # None
               PROVE  /\ i \in Params(E) /\ E.calc /\ W.Q.scalar[i] = E.scalar[i]
                      /\ W.Q.lit[i] = E.lit[i]
    BY DEF Stays
  <2>1. /\ i \in Slots /\ E.calc /\ W.Q.scalar[i] = E.scalar[i]
        /\ i \in slots => N.scalar[i] = Keep
        /\ i \notin slots \/ N.cs \/ E.lit[i].im = 0 => W.Q.lit[i] = E.lit[i]
    BY <1>4, <1>5, <1>7, <1>8, <1>10 DEF SameNumbers
  <2>2. i \in Params(E)
    <3> SUFFICES ASSUME i \notin Params(E) PROVE FALSE
      OBVIOUS
    <3>1. i \in E.n + 1..N.n /\ N.n > E.n
      BY <1>2, <1>8, <1>10
    <3>2. 1 \in flags /\ (N.scalar[i] = Keep => E.scalar[i] = None)
      BY <3>1 DEF MayGrow
    <3>3. i \in slots
      BY <1>8, <1>10, <3>2 DEF slots
    <3> QED BY <2>1, <3>2, <3>3
  <2>3. i \in slots => N.cs \/ ~E.cs
    BY DEF slots, MayBeReal
  <2> QED BY <1>9, <2>1, <2>2, <2>3
<1>11. ASSUME NEW i \in Params(W.Q), W.Q.lit[i].im # 0 PROVE W.Q.cs
  <2>1. CASE 1 \in flags
    BY <1>7, <1>8, <1>11, <2>1 DEF slots
  <2>2. CASE 1 \notin flags
    <3>1. ~E.cs
      BY <2>2 DEF MayBeReal, IsWork, IsEntry
    <3>2. i \in Params(E)
      BY <1>2, <1>8, <1>11, <2>2 DEF MayGrow
    <3>3. W.Q.lit[i] = E.lit[i] /\ i \in Slots
      BY <1>4, <1>5, <1>7, <1>8, <1>11, <2>2 DEF slots, SameNumbers
    <3>4. E.scalar[i] = None \/ E.calc
      BY <3>3 DEF Ready
    <3> QED BY <1>9, <1>11, <3>1, <3>2, <3>3, <3>4
  <2> QED BY <2>1, <2>2
<1>12. W.Q.type = E.type
  BY <1>6, <1>7
<1>13. Right(W.Q, consts)
  BY <1>10, <1>11, <1>12, StaysRight
<1> QED BY <1>1, <1>7, <1>13

LEMMA LincomRight ==
  ASSUME NEW S, NEW N, NEW consts, NEW flags, IsWork(S), Right(S.Q, consts),
         IsAsk(N), S.Q.type = "LINCOM", N.type = "LINCOM",
         MayBeReal(S.Q, N, flags), MayGrow(S.Q, N, flags)
  PROVE  /\ IsWork(ChangeLincom(S, N, flags))
         /\ Right(ChangeLincom(S, N, flags).Q, consts)
<1> DEFINE E == S.Q
           n == IF N.n = 0 THEN E.n ELSE N.n
           R == Shrunk(S, n)
           T == Also(R, n # E.n)
           given == IF 1 \in flags
                    THEN {i \in 0..n - 1 : i >= E.n \/ N.in[i] \notin {None, E.in[i]}}
                    ELSE {}
           ins == [i \in DOMAIN T.Q.in |-> IF i \in given THEN N.in[i] ELSE T.Q.in[i]]
           U == Also([T EXCEPT !.Q.in = ins], given # {})
           m == IF 2 \in flags THEN 0..n - 1 ELSE {}
           b == IF 4 \in flags THEN {i + GD_MAX_LINCOM : i \in 0..n - 1} ELSE {}
           slots == m \cup b
           V == AlterThese(U, N, slots)
           W == Recomplex(V, E, Params(U.Q))
<1>1. ChangeLincom(S, N, flags) = IF n \notin 1..GD_MAX_LINCOM THEN Spoilt(S) ELSE W
  BY DEF ChangeLincom, IsWork, IsEntry, WorkFields, EntryFields
<1>2. IsWork(Spoilt(S)) /\ Right(Spoilt(S).Q, consts)
  BY DEF IsWork, WorkFields, Spoilt
<1> SUFFICES ASSUME n \in 1..GD_MAX_LINCOM
             PROVE  IsWork(W) /\ Right(W.Q, consts)
  BY <1>1, <1>2
<1>3. /\ E.n \in 0..GD_MAX_LINCOM /\ slots \subseteq Slots
      /\ n > E.n => N.n > E.n /\ n = N.n
  BY DEF IsWork, IsEntry, IsAsk, Slots, GD_MAX_POLYORD, GD_MAX_LINCOM
<1> HIDE DEF n, slots
<1>4. /\ IsWork(R) /\ R.Q.type = "LINCOM" /\ R.Q.n = n
      /\ R.Q.lit = E.lit /\ R.Q.calc = E.calc
      /\ \A i \in Slots : i % GD_MAX_LINCOM < n => R.Q.scalar[i] = E.scalar[i]
  <2> DEFINE Lost(i) == i % GD_MAX_LINCOM \in n..E.n - 1
             Left(i, name) == IF Lost(i) /\ name # None THEN Nowhere ELSE name
             in2 == [i \in DOMAIN E.in |-> Left(i, E.in[i])]
             sc2 == [i \in DOMAIN E.scalar |-> Left(i, E.scalar[i])]
  <2>1. R = [S EXCEPT !.Q = [E EXCEPT !.n = n, !.in = in2, !.scalar = sc2]]
    BY DEF Shrunk, IsWork, WorkFields, IsEntry, EntryFields
  <2>2. /\ DOMAIN in2 = 0..GD_MAX_LINCOM - 1 /\ DOMAIN sc2 = Slots
    BY DEF IsWork, IsEntry
  <2>3. ASSUME NEW i \in Slots, i % GD_MAX_LINCOM < n PROVE sc2[i] = E.scalar[i]
    <3>1. i % GD_MAX_LINCOM \in Nat /\ n \in Nat
      BY DEF Slots, GD_MAX_LINCOM, GD_MAX_POLYORD
    <3>2. ~Lost(i)
      BY <1>3, <2>3, <3>1 DEF GD_MAX_LINCOM
    <3> QED BY <2>2, <3>2
  <2> HIDE DEF in2, sc2, R
  <2>4. /\ DOMAIN R = WorkFields /\ R.mod = S.mod /\ R.error = S.error
        /\ R.Q = [E EXCEPT !.n = n, !.in = in2, !.scalar = sc2]
    BY <2>1 DEF IsWork, WorkFields
  <2>5. /\ DOMAIN R.Q = EntryFields /\ R.Q.type = "LINCOM" /\ R.Q.n = n
        /\ R.Q.in = in2 /\ R.Q.scalar = sc2 /\ R.Q.lit = E.lit
        /\ R.Q.cs = E.cs /\ R.Q.calc = E.calc
    BY <2>4 DEF IsWork, IsEntry, EntryFields
  <2>6. IsEntry(R.Q)
    BY <2>2, <2>5 DEF IsWork, IsEntry, GD_MAX_LINCOM, ComplexTypes
  <2>7. IsWork(R)
    BY <2>4, <2>6 DEF IsWork
  <2> QED BY <2>3, <2>5, <2>7
<1> HIDE DEF R
<1>5. IsWork(T) /\ T.Q = R.Q
  BY <1>4 DEF IsWork, WorkFields, Also
<1> HIDE DEF T
<1>6. /\ IsWork(U) /\ U.Q.type = "LINCOM" /\ U.Q.n = n
      /\ SameNumbers(T.Q, U.Q)
  <2>1. DOMAIN ins = 0..GD_MAX_LINCOM - 1
    BY <1>5 DEF IsWork, IsEntry
  <2> HIDE DEF ins, given
  <2>2. /\ DOMAIN U = WorkFields /\ U.mod = (T.mod \/ given # {})
        /\ U.error = T.error /\ U.Q = [T.Q EXCEPT !.in = ins]
    BY <1>5 DEF IsWork, WorkFields, Also
  <2> HIDE DEF U
  <2>3. /\ DOMAIN U.Q = EntryFields /\ U.Q.type = T.Q.type /\ U.Q.n = T.Q.n
        /\ U.Q.in = ins /\ SameNumbers(T.Q, U.Q)
    BY <1>5, <2>2 DEF IsWork, IsEntry, EntryFields, SameNumbers
  <2>4. IsEntry(U.Q)
    BY <1>5, <2>1, <2>3 DEF IsWork, IsEntry, SameNumbers
  <2>5. T.mod \in BOOLEAN /\ T.error \in BOOLEAN
    BY <1>5 DEF IsWork
  <2> QED BY <1>4, <1>5, <2>2, <2>3, <2>4, <2>5 DEF IsWork
<1> HIDE DEF U
<1>7. /\ IsWork(V) /\ SameRest(U.Q, V.Q) /\ V.Q.cs = U.Q.cs
      /\ \A i \in Slots \ slots :
           V.Q.lit[i] = U.Q.lit[i] /\ V.Q.scalar[i] = U.Q.scalar[i]
      /\ \A i \in Slots : V.Q.calc /\ V.Q.scalar[i] # None =>
           /\ U.Q.calc /\ V.Q.scalar[i] = U.Q.scalar[i]
           /\ i \in slots => N.scalar[i] = Keep
           /\ i \notin slots \/ N.cs \/ U.Q.lit[i].im = 0 =>
                V.Q.lit[i] = U.Q.lit[i]
  BY <1>3, <1>6, AlterTheseIs
<1> HIDE DEF V
<1>8. V.Q.type = "LINCOM" /\ V.Q.n = n /\ V.Q.type \in ComplexTypes
  BY <1>6, <1>7 DEF SameRest, ComplexTypes
<1>9. /\ IsWork(W) /\ W.Q.type = V.Q.type /\ W.Q.n = V.Q.n
      /\ W.Q.lit = V.Q.lit /\ W.Q.scalar = V.Q.scalar /\ W.Q.calc = V.Q.calc
      /\ \A i \in Params(U.Q) : V.Q.lit[i].im # 0 => W.Q.cs
  BY <1>7, <1>8, RecomplexIs
<1> HIDE DEF W
<1>10. /\ Params(W.Q) = {i \in Slots : i % GD_MAX_LINCOM < n}
       /\ Params(U.Q) = Params(W.Q)
       /\ Params(E) = {i \in Slots : i % GD_MAX_LINCOM < E.n}
  <2>1. n \in 0..GD_MAX_LINCOM
    BY DEF GD_MAX_LINCOM
  <2>2. Params(W.Q) = {i \in Slots : i % GD_MAX_LINCOM < n}
    BY <1>8, <1>9, <2>1, ParamsAre
  <2>3. Params(U.Q) = {i \in Slots : i % GD_MAX_LINCOM < n}
    BY <1>6, <2>1, ParamsAre
  <2>4. Params(E) = {i \in Slots : i % GD_MAX_LINCOM < E.n}
    BY <1>3, ParamsAre
  <2> QED BY <2>2, <2>3, <2>4
<1>11. ASSUME NEW i \in Params(W.Q) PROVE Stays(E, W.Q, i)
  <2> SUFFICES ASSUME W.Q.calc, W.Q.scalar[i] # None
               PROVE  /\ i \in Params(E) /\ E.calc /\ W.Q.scalar[i] = E.scalar[i]
                      /\ W.Q.lit[i] = E.lit[i]
    BY DEF Stays
  <2>1. /\ i \in Slots /\ i % GD_MAX_LINCOM < n
    BY <1>10, <1>11
  <2>2. /\ E.calc /\ W.Q.scalar[i] = E.scalar[i]
        /\ i \notin slots \/ N.cs \/ E.lit[i].im = 0 => W.Q.lit[i] = E.lit[i]
    BY <1>4, <1>5, <1>6, <1>7, <1>9, <2>1 DEF SameNumbers
  <2>3. i \in Params(E)
    <3> SUFFICES ASSUME i \notin Params(E) PROVE FALSE
      OBVIOUS
    <3>1. i \in 0..5 /\ i % 3 \in 0..2
      BY <2>1 DEF Slots, GD_MAX_POLYORD
    <3>2. i % 3 \in E.n..N.n - 1 /\ N.n > E.n
      BY <1>3, <1>10, <2>1, <3>1 DEF GD_MAX_LINCOM
    <3>3. /\ E.scalar[i % 3] = None /\ E.scalar[(i % 3) + 3] = None
      BY <3>2 DEF MayGrow, GD_MAX_LINCOM
    <3>4. i = i % 3 \/ i = (i % 3) + 3
      BY <3>1
    <3> QED BY <2>2, <3>3, <3>4
  <2>4. i \in slots => N.cs \/ ~E.cs
    BY DEF slots, MayBeReal
  <2>5. ~E.cs => E.lit[i].im = 0
    BY <2>2, <2>3 DEF Right
  <2> QED BY <2>2, <2>3, <2>4, <2>5
<1>12. \A i \in Params(W.Q) : W.Q.lit[i].im # 0 => W.Q.cs
  BY <1>9, <1>10
<1>13. W.Q.type = E.type
  BY <1>8, <1>9
<1>14. Right(W.Q, consts)
  BY <1>11, <1>12, <1>13, StaysRight
<1> QED BY <1>9, <1>14
-----------------------------------------------------------------------------
(* The fields without parameters.                                             *)
Bare == {"LINTERP", "MULTIPLY", "DIVIDE", "CONST", "CARRAY", "STRING", "NONE"}

LEMMA BareRight ==
  ASSUME NEW E, NEW consts, E.type \in Bare
  PROVE  Right(E, consts)
<1>1. Params(E) = {}
  BY ParamsAre DEF Bare
<1> QED BY <1>1 DEF Right

LEMMA SpoiltIs ==
  ASSUME NEW S, IsWork(S) PROVE IsWork(Spoilt(S)) /\ Spoilt(S).Q = S.Q
BY DEF IsWork, WorkFields, Spoilt

LEMMA LinterpIs ==
  ASSUME NEW S, NEW N, NEW move \in BOOLEAN, IsWork(S), S.Q.type = "LINTERP"
  PROVE  LET T == ChangeLinterp(S, N, move)
         IN IsWork(T) /\ T.Q.type = S.Q.type
<1> DEFINE T == AlterInput(S, 0, N.in[0])
           tables == (N.text :> T.tables[S.Q.text])
                       @@ Restrict(T.tables, DOMAIN T.tables \ {S.Q.text})
           U == [T EXCEPT !.Q.text = N.text, !.mod = TRUE]
           V == [T EXCEPT !.Q.text = N.text, !.mod = TRUE, !.tables = tables]
           W == ChangeLinterp(S, N, move)
<1>1. W = IF N.text \in {<<>>, S.Q.text} THEN T
          ELSE IF ~move THEN U
          ELSE IF S.Q.text \notin DOMAIN S.tables THEN Spoilt(T)
          ELSE V
  BY DEF ChangeLinterp
<1>2. 0 \in 0..GD_MAX_LINCOM - 1
  BY DEF GD_MAX_LINCOM
<1>3. IsWork(T) /\ T.Q.type = S.Q.type
  BY <1>2, AlterInputIs DEF SameRest
<1> HIDE DEF T, tables, W
<1>4. \A X \in {U, V} : /\ DOMAIN X = WorkFields /\ X.mod = TRUE
                        /\ X.error = T.error /\ X.Q = [T.Q EXCEPT !.text = N.text]
  BY <1>3 DEF IsWork, WorkFields
<1> HIDE DEF U, V
<1> DEFINE Q == [T.Q EXCEPT !.text = N.text]
<1>5. /\ DOMAIN Q = EntryFields /\ Q.type = T.Q.type /\ SameNumbers(T.Q, Q)
      /\ Q.in = T.Q.in
  BY <1>3 DEF IsWork, IsEntry, EntryFields, SameNumbers
<1>6. \A X \in {U, V} : X.Q = Q
  BY <1>4
<1> HIDE DEF Q
<1>7. IsEntry(Q)
  BY <1>3, <1>5 DEF IsWork, IsEntry, SameNumbers
<1>8. \A X \in {U, V} : IsWork(X) /\ X.Q.type = S.Q.type
  BY <1>3, <1>4, <1>5, <1>6, <1>7 DEF IsWork
<1> QED BY <1>1, <1>3, <1>8, SpoiltIs DEF W

LEMMA ConstIs ==
  ASSUME NEW S, NEW N, IsWork(S), S.Q.type = "CONST"
  PROVE  LET T == ChangeConst(S, N) IN IsWork(T) /\ T.Q.type = S.Q.type
<1> DEFINE sub == IF N.sub = None THEN S.Q.sub ELSE N.sub
           data == <<Reclass(S.Q.sub, sub, S.Q.data[1])>>
           changed == sub # S.Q.sub
           mod == S.mod \/ changed
           Q == [S.Q EXCEPT !.sub = sub, !.data = data]
           T == [S EXCEPT !.Q = Q, !.mod = mod]
           W == ChangeConst(S, N)
<1>1. W = IF sub \notin DataTypes THEN Spoilt(S) ELSE T
  BY DEF ChangeConst, Also, IsWork, WorkFields, IsEntry, EntryFields
<1>2. mod \in BOOLEAN
  BY DEF IsWork
<1> HIDE DEF mod, sub, data, W
<1>3. /\ DOMAIN Q = EntryFields /\ Q.type = S.Q.type /\ SameNumbers(S.Q, Q)
      /\ Q.in = S.Q.in
  BY DEF IsWork, IsEntry, EntryFields, SameNumbers
<1> HIDE DEF Q
<1>4. IsEntry(Q)
  BY <1>3 DEF IsWork, IsEntry, SameNumbers
<1>5. /\ DOMAIN T = WorkFields /\ T.mod = mod /\ T.error = S.error /\ T.Q = Q
  BY DEF IsWork, WorkFields
<1> HIDE DEF T
<1>6. IsWork(T) /\ T.Q.type = S.Q.type
  BY <1>2, <1>3, <1>4, <1>5 DEF IsWork
<1> QED BY <1>1, <1>6, SpoiltIs DEF W

LEMMA CarrayIs ==
  ASSUME NEW S, NEW N, IsWork(S), S.Q.type = "CARRAY"
  PROVE  LET T == ChangeCarray(S, N) IN IsWork(T) /\ T.Q.type = S.Q.type
<1> DEFINE sub == IF N.sub = None THEN S.Q.sub ELSE N.sub
           n == IF N.n = 0 THEN S.Q.n ELSE N.n
           changed == sub # S.Q.sub \/ n # S.Q.n
           Element(i) ==
             IF ~changed THEN Garbage
             ELSE IF i \in DOMAIN S.Q.data THEN ConvertTo(ConstType(sub), S.Q.data[i])
             ELSE Zero
           data == [i \in 1..n |-> Element(i)]
           mod == S.mod \/ changed
           Q == [S.Q EXCEPT !.sub = sub, !.n = n, !.data = data]
           T == [S EXCEPT !.Q = Q, !.mod = mod]
           W == ChangeCarray(S, N)
<1>1. W = IF sub \notin DataTypes THEN Spoilt(S) ELSE T
  BY DEF ChangeCarray, Also, IsWork, WorkFields, IsEntry, EntryFields
<1>2. mod \in BOOLEAN
  BY DEF IsWork
<1> HIDE DEF mod, sub, n, data, W
<1>3. /\ DOMAIN Q = EntryFields /\ Q.type = S.Q.type /\ SameNumbers(S.Q, Q)
      /\ Q.in = S.Q.in
  BY DEF IsWork, IsEntry, EntryFields, SameNumbers
<1> HIDE DEF Q
<1>4. IsEntry(Q)
  BY <1>3 DEF IsWork, IsEntry, SameNumbers
<1>5. /\ DOMAIN T = WorkFields /\ T.mod = mod /\ T.error = S.error /\ T.Q = Q
  BY DEF IsWork, WorkFields
<1> HIDE DEF T
<1>6. IsWork(T) /\ T.Q.type = S.Q.type
  BY <1>2, <1>3, <1>4, <1>5 DEF IsWork
<1> QED BY <1>1, <1>6, SpoiltIs DEF W
LEMMA ChangedRight ==
  ASSUME NEW S, NEW N, NEW flags, NEW consts, IsWork(S), Right(S.Q, consts),
         Ready(S.Q), IsAsk(N), S.Q.type = N.type, MayBeReal(S.Q, N, flags),
         MayGrow(S.Q, N, flags),
         N.type = "MPLEX" =>
           \A i \in Slots : Changed(S, N, flags, consts).Q.scalar[i] = None
  PROVE  /\ IsWork(Changed(S, N, flags, consts))
         /\ Right(Changed(S, N, flags, consts).Q, consts)
<1> DEFINE T == Changed(S, N, flags, consts)
<1>1. N.type \notin ComplexTypes => Sound(S.Q, consts)
  BY RightIsSound DEF IsWork
<1>3. CASE N.type = "RAW"
  <2>1. T = ChangeRaw(S, N, flags # {}, consts)
    BY <1>3 DEF Changed
  <2>2. Sound(S.Q, consts)
    BY <1>1, <1>3 DEF ComplexTypes
  <2> DEFINE recode == flags # {}
  <2>3. recode \in BOOLEAN /\ T = ChangeRaw(S, N, recode, consts)
    BY <2>1
  <2> HIDE DEF recode
  <2> QED BY <1>3, <2>2, <2>3, RawRight
<1>4. CASE N.type = "LINCOM"
  <2>1. T = ChangeLincom(S, N, flags)
    BY <1>4 DEF Changed
  <2> QED BY <1>4, <2>1, LincomRight
<1>5. CASE N.type = "LINTERP"
  <2>1. T = ChangeLinterp(S, N, flags # {})
    BY <1>5 DEF Changed
  <2> DEFINE move == flags # {}
  <2>2. move \in BOOLEAN /\ T = ChangeLinterp(S, N, move)
    BY <2>1
  <2> HIDE DEF move
  <2>3. IsWork(T) /\ T.Q.type = "LINTERP"
    BY <1>5, <2>2, LinterpIs
  <2> QED BY <2>3, BareRight DEF Bare
<1>6. CASE N.type \in {"BIT", "SBIT"}
  <2>1. T = ChangeBit(S, N)
    BY <1>6 DEF Changed
  <2>2. Sound(S.Q, consts)
    BY <1>1, <1>6 DEF ComplexTypes
  <2> QED BY <1>6, <2>1, <2>2, BitRight
<1>7. CASE N.type \in {"MULTIPLY", "DIVIDE"}
  <2>1. T = AlterInputs(S, N)
    BY <1>7 DEF Changed, ChangeMultiply
  <2>2. IsWork(T) /\ SameRest(S.Q, T.Q)
    BY <2>1, AlterInputsIs
  <2>3. T.Q.type \in Bare
    BY <1>7, <2>2 DEF SameRest, Bare
  <2> QED BY <2>2, <2>3, BareRight
<1>8. CASE N.type = "RECIP"
  <2>1. T = ChangeRecip(S, N)
    BY <1>8 DEF Changed
  <2> QED BY <1>8, <2>1, RecipRight
<1>9. CASE N.type = "PHASE"
  <2>1. T = ChangePhase(S, N)
    BY <1>9 DEF Changed
  <2>2. Sound(S.Q, consts)
    BY <1>1, <1>9 DEF ComplexTypes
  <2> QED BY <1>9, <2>1, <2>2, PhaseRight
<1>10. CASE N.type = "POLYNOM"
  <2>1. T = ChangePolynom(S, N, flags)
    BY <1>10 DEF Changed
  <2> QED BY <1>10, <2>1, PolynomRight
<1>11. CASE N.type = "WINDOW"
  <2>1. T = ChangeWindow(S, N)
    BY <1>11 DEF Changed
  <2>2. Sound(S.Q, consts)
    BY <1>1, <1>11 DEF ComplexTypes
  <2> QED BY <1>11, <2>1, <2>2, WindowRight
<1>12. CASE N.type = "MPLEX"
  <2>1. T = ChangeMplex(S, N)
    BY <1>12 DEF Changed
  <2>2. Sound(S.Q, consts)
    BY <1>1, <1>12 DEF ComplexTypes
  <2>3. \A i \in Slots : ChangeMplex(S, N).Q.scalar[i] = None
    BY <1>12, <2>1
  <2> QED BY <1>12, <2>1, <2>2, <2>3, MplexRight
<1>13. CASE N.type = "CONST"
  <2>1. T = ChangeConst(S, N)
    BY <1>13 DEF Changed
  <2>2. IsWork(T) /\ T.Q.type = "CONST"
    BY <1>13, <2>1, ConstIs
  <2> QED BY <2>2, BareRight DEF Bare
<1>14. CASE N.type = "CARRAY"
  <2>1. T = ChangeCarray(S, N)
    BY <1>14 DEF Changed
  <2>2. IsWork(T) /\ T.Q.type = "CARRAY"
    BY <1>14, <2>1, CarrayIs
  <2> QED BY <2>2, BareRight DEF Bare
<1>15. CASE N.type \notin {"RAW", "LINCOM", "LINTERP", "BIT", "SBIT", "MULTIPLY",
                           "DIVIDE", "RECIP", "PHASE", "POLYNOM", "WINDOW",
                           "MPLEX", "CONST", "CARRAY"}
  <2>1. T = S
    BY <1>15 DEF Changed
  <2> QED BY <2>1
<1> QED BY <1>3, <1>4, <1>5, <1>6, <1>7, <1>8, <1>9, <1>10, <1>11, <1>12, <1>13,
           <1>14, <1>15
-----------------------------------------------------------------------------
(* The versions there are, and the dirfile as a whole.                        *)
LEMMA EarliestIs ==
  /\ \A E, meta : Earliest(E, meta) \in Versions
  /\ \A E, Q, meta : Q.hidden = E.hidden /\ Q.type = E.type /\ Q.sub = E.sub
       /\ (E.type = "BIT" => Q.lit[0] = E.lit[0] /\ Q.lit[1] = E.lit[1]) => Earliest(Q, meta) = Earliest(E, meta)
BY DEF Earliest, Since, Versions

Cached(d) == d.have => d.av = FindVersion(d)
Good(d) ==
  /\ IsDir(d) /\ d.consts \in Consts /\ Right(d.E, d.consts) /\ Cached(d)
  /\ d.standards \in Versions /\ d.av \subseteq Versions /\ d.meta \in BOOLEAN

(* Two states of a dirfile that have the same field in them.                  *)
Alike(c, d) ==
  /\ d.E = c.E /\ d.meta = c.meta /\ d.consts = c.consts /\ d.room = c.room

LEMMA AlikeVersions ==
  ASSUME NEW c, NEW d, Alike(c, d) PROVE FindVersion(d) = FindVersion(c)
BY DEF Alike, FindVersion

LEMMA LatestFits == \A d : LatestVersion \in FindVersion(d) /\ FindVersion(d) \subseteq Versions
<1> SUFFICES ASSUME NEW d
             PROVE  LatestVersion \in FindVersion(d) /\ FindVersion(d) \subseteq Versions
  OBVIOUS
<1>1. Earliest(d.E, d.meta) \in Versions
  BY EarliestIs
<1> QED BY <1>1 DEF FindVersion, LatestVersion, Versions
(* The calls that only set a mark.                                            *)
LEMMA MarksGood ==
  ASSUME NEW d, Good(d)
  PROVE  /\ Good(Clear(d)) /\ Alike(d, Clear(d)) /\ Clear(d).error = FALSE
         /\ Clear(d).have = d.have
         /\ Good(Failed(d)) /\ Alike(d, Failed(d)) /\ Failed(d).error = TRUE
         /\ Good(Clean(d)) /\ Alike(d, Clean(d))
         /\ Good(Known(d)) /\ Alike(d, Known(d)) /\ Known(d).error = d.error
<1> DEFINE Set(c) == /\ DOMAIN c = DirFields /\ Alike(d, c) /\ c.have = d.have
                     /\ c.av = d.av /\ c.standards = d.standards
                     /\ c.dirty \in BOOLEAN /\ c.error \in BOOLEAN
<1>1. ASSUME NEW c, Set(c) PROVE Good(c)
  <2>1. FindVersion(c) = FindVersion(d)
    BY <1>1, AlikeVersions
  <2> QED BY <1>1, <2>1 DEF Good, IsDir, Alike, Cached
<1>2. Set(Clear(d)) /\ Clear(d).error = FALSE
  BY DEF Good, IsDir, DirFields, Alike, Clear
<1>3. Set(Failed(d)) /\ Failed(d).error = TRUE
  BY DEF Good, IsDir, DirFields, Alike, Failed
<1>4. Set(Clean(d))
  BY DEF Good, IsDir, DirFields, Alike, Clean
<1>5. Good(Known(d)) /\ Alike(d, Known(d)) /\ Known(d).error = d.error
  <2>1. CASE d.have
    BY <2>1 DEF Known, Alike
  <2>2. CASE ~d.have
    <3> DEFINE c == Known(d)
    <3>1. c = [d EXCEPT !.av = FindVersion(d), !.have = TRUE]
      BY <2>2 DEF Known
    <3>2. /\ DOMAIN c = DirFields /\ Alike(d, c) /\ c.have = TRUE
          /\ c.av = FindVersion(d) /\ c.standards = d.standards
          /\ c.dirty = d.dirty /\ c.error = d.error
      BY <3>1 DEF Good, IsDir, DirFields, Alike
    <3> HIDE DEF c
    <3>3. FindVersion(c) = FindVersion(d) /\ FindVersion(d) \subseteq Versions
      BY <3>2, AlikeVersions, LatestFits
    <3>4. Good(c)
      BY <3>2, <3>3 DEF Good, IsDir, Alike, Cached
    <3> QED BY <3>2, <3>4 DEF c
  <2> QED BY <2>1, <2>2 DEF Good, IsDir
<1> HIDE DEF Set
<1>6. Good(Clear(d)) /\ Good(Failed(d)) /\ Good(Clean(d))
  BY <1>1, <1>2, <1>3, <1>4
<1> QED BY <1>2, <1>3, <1>4, <1>5, <1>6 DEF Set

LEMMA ChangeGood ==
  ASSUME NEW d, NEW N, NEW flags, Good(d), Ready(d.E), IsAsk(N),
         d.E.type = N.type =>
           /\ MayBeReal(d.E, N, flags) /\ MayGrow(d.E, N, flags)
           /\ LET S == Changed(Work(d), N, flags, d.consts)
              IN S.error \/ MayBecome(d.E, N, flags, S.Q)
  PROVE  Good(Change(d, N, flags)) /\ Change(d, N, flags).room = d.room
<1> DEFINE W == Work(d)
           S == Changed(W, N, flags, d.consts)
           C == Change(d, N, flags)
<1>1. C = IF d.error \/ d.E.type # N.type \/ S.error THEN Failed(d)
          ELSE IF ~S.mod THEN [d EXCEPT !.E.data = S.Q.data]
          ELSE [d EXCEPT !.E = S.Q, !.file = S.file, !.tables = S.tables,
                         !.dirty = TRUE, !.have = FALSE]
  BY DEF Change, Failed
<1>2. /\ IsWork(W) /\ W.Q = d.E
  BY DEF Work, IsWork, WorkFields, Good, IsDir
<1> HIDE DEF W, S, C
<1>3. CASE d.error \/ d.E.type # N.type \/ S.error
  <2>1. C = Failed(d)
    BY <1>1, <1>3
  <2>2. Good(Failed(d)) /\ Failed(d).room = d.room
    BY MarksGood DEF Alike
  <2> QED BY <2>1, <2>2 DEF C
<1>4. CASE ~(d.error \/ d.E.type # N.type \/ S.error)
  <2>1. /\ d.E.type = N.type /\ MayBeReal(d.E, N, flags)
        /\ MayGrow(d.E, N, flags) /\ MayBecome(d.E, N, flags, S.Q)
    BY <1>4 DEF S, W
  <2>2. N.type = "MPLEX" => \A i \in Slots : S.Q.scalar[i] = None
    BY <2>1 DEF MayBecome, ScalarIn
  <2>3. IsWork(S) /\ Right(S.Q, d.consts)
    BY <1>2, <2>1, <2>2, ChangedRight DEF S, Good
  <2>4. CASE ~S.mod
    <3>1. C = [d EXCEPT !.E = [d.E EXCEPT !.data = S.Q.data]]
      BY <1>1, <1>4, <2>4
    <3> DEFINE F == [d.E EXCEPT !.data = S.Q.data]
    <3>2. /\ DOMAIN F = EntryFields /\ SameNumbers(d.E, F) /\ F.in = d.E.in
          /\ F.type = d.E.type /\ F.sub = d.E.sub /\ F.n = d.E.n
          /\ F.hidden = d.E.hidden
      BY DEF Good, IsDir, IsEntry, EntryFields, SameNumbers
    <3>3. /\ DOMAIN C = DirFields /\ C.E = F /\ C.meta = d.meta
          /\ C.consts = d.consts /\ C.room = d.room /\ C.have = d.have
          /\ C.av = d.av /\ C.standards = d.standards /\ C.dirty = d.dirty
          /\ C.error = d.error
      BY <3>1 DEF Good, IsDir, DirFields
    <3> HIDE DEF F
    <3>4. IsEntry(F)
      BY <3>2 DEF Good, IsDir, IsEntry, SameNumbers
    <3>5. Right(F, d.consts)
      <4>1. Params(F) = Params(d.E)
        BY <3>2, ShapeIs
      <4> QED BY <3>2, <4>1 DEF Good, Right, Fetches, SameNumbers
    <3>6. FindVersion(C) = FindVersion(d)
      <4>1. Earliest(F, d.meta) = Earliest(d.E, d.meta)
        BY <3>2, EarliestIs DEF SameNumbers
      <4> QED BY <3>3, <4>1 DEF FindVersion
    <3>7. Good(C)
      BY <3>3, <3>4, <3>5, <3>6 DEF Good, IsDir, Cached
    <3> QED BY <3>3, <3>7 DEF C
  <2>5. CASE S.mod
    <3>1. C = [d EXCEPT !.E = S.Q, !.file = S.file, !.tables = S.tables,
                        !.dirty = TRUE, !.have = FALSE]
      BY <1>1, <1>4, <2>5
    <3>2. /\ DOMAIN C = DirFields /\ C.E = S.Q /\ C.meta = d.meta
          /\ C.consts = d.consts /\ C.room = d.room /\ C.have = FALSE
          /\ C.av = d.av /\ C.standards = d.standards /\ C.dirty = TRUE
          /\ C.error = d.error
      BY <3>1 DEF Good, IsDir, DirFields
    <3>3. Good(C)
      BY <2>3, <3>2 DEF Good, IsDir, IsWork, Cached
    <3> QED BY <3>2, <3>3 DEF C
  <2> QED BY <2>3, <2>4, <2>5
<1> QED BY <1>3, <1>4
-----------------------------------------------------------------------------
(* Fetching the scalars.                                                      *)
LEMMA OldestIs ==
  ASSUME NEW S, S \subseteq 1..6, S # {}
  PROVE  Oldest(S) \in S /\ \A w \in S : w >= Oldest(S)
<1> DEFINE IsLeast(v) == v \in S /\ \A w \in S : w >= v
<1>1. CASE 1 \in S
  <2>1. IsLeast(1) BY <1>1
  <2> QED BY <2>1 DEF Oldest
<1>2. CASE 1 \notin S /\ 2 \in S
  <2>1. IsLeast(2) BY <1>2
  <2> QED BY <2>1 DEF Oldest
<1>3. CASE S \cap 1..2 = {} /\ 3 \in S
  <2>1. IsLeast(3) BY <1>3
  <2> QED BY <2>1 DEF Oldest
<1>4. CASE S \cap 1..3 = {} /\ 4 \in S
  <2>1. IsLeast(4) BY <1>4
  <2> QED BY <2>1 DEF Oldest
<1>5. CASE S \cap 1..4 = {} /\ 5 \in S
  <2>1. IsLeast(5) BY <1>5
  <2> QED BY <2>1 DEF Oldest
<1>6. CASE S \cap 1..5 = {}
  <2>1. ASSUME NEW w \in S PROVE w = 6
    <3>1. w \in 1..6 /\ w \notin 1..5
      BY <1>6
    <3> QED BY <3>1
  <2>3. 6 \in S
    BY <2>1
  <2>2. IsLeast(6) BY <2>1, <2>3
  <2> QED BY <2>2 DEF Oldest
<1> QED BY <1>1, <1>2, <1>3, <1>4, <1>5, <1>6

LEMMA UsedIs ==
  ASSUME NEW E, IsEntry(E)
  PROVE  DOMAIN Used(E) = 1..Len(Used(E)) /\ Len(Used(E)) \in 0..6
<1>1. CASE E.type = "LINCOM"
  <2>1. Used(E) = [k \in 1..2 * E.n |-> IF k % 2 = 1 THEN k \div 2
                                        ELSE GD_MAX_LINCOM - 1 + (k \div 2)]
    BY <1>1 DEF Used
  <2>2. 2 * E.n \in 0..6
    BY <1>1 DEF IsEntry, GD_MAX_LINCOM
  <2>3. DOMAIN Used(E) = 1..2 * E.n
    BY <2>1
  <2>4. Len(Used(E)) = 2 * E.n
    BY <2>2, <2>3
  <2> QED BY <2>2, <2>3, <2>4
<1>2. CASE E.type = "POLYNOM"
  <2>1. Used(E) = [k \in 1..E.n + 1 |-> k - 1]
    BY <1>2 DEF Used
  <2>2. E.n + 1 \in 0..6
    BY <1>2 DEF IsEntry, GD_MAX_POLYORD
  <2>3. DOMAIN Used(E) = 1..E.n + 1
    BY <2>1
  <2>4. Len(Used(E)) = E.n + 1
    BY <2>2, <2>3
  <2> QED BY <2>2, <2>3, <2>4
<1>3. CASE E.type \notin {"LINCOM", "POLYNOM"}
  <2>1. Used(E) \in {<<>>, <<0>>, <<0, 1>>}
    BY <1>3 DEF Used
  <2> QED BY <2>1
<1> QED BY <1>1, <1>2, <1>3

(* The first version of a BIT does not depend on its parameters where there   *)
(* is a scalar field.                                                         *)
LEMMA BitVersions ==
  ASSUME NEW c, NEW d, d.meta = c.meta, d.consts = c.consts,
         d.E.type = c.E.type, d.E.sub = c.E.sub, d.E.hidden = c.E.hidden,
         c.E.type = "BIT" =>
           (d.E.lit[0] = c.E.lit[0] /\ d.E.lit[1] = c.E.lit[1]) \/ DOMAIN c.consts # {}
  PROVE  FindVersion(d) = FindVersion(c)
<1>1. CASE c.E.type = "BIT" => d.E.lit[0] = c.E.lit[0] /\ d.E.lit[1] = c.E.lit[1]
  <2>1. Earliest(d.E, d.meta) = Earliest(c.E, c.meta)
    BY <1>1, EarliestIs
  <2> QED BY <2>1 DEF FindVersion
<1>2. CASE c.E.type = "BIT" /\ DOMAIN c.consts # {}
  <2>1. PICK s \in DOMAIN c.consts : TRUE
    BY <1>2
  <2>2. \A v \in Versions :
          (v >= (IF c.consts[s].im = 0 THEN 6 ELSE 7)) =>
            (v >= Earliest(d.E, d.meta) <=> v >= Earliest(c.E, c.meta))
    <3>1. CASE c.E.hidden
      <4>1. Earliest(d.E, d.meta) = Earliest(c.E, c.meta)
        BY <3>1 DEF Earliest
      <4> QED BY <4>1
    <3>2. CASE ~c.E.hidden
      <4>1. /\ Earliest(d.E, d.meta) \in {0, 1, 5, 6}
            /\ Earliest(c.E, c.meta) \in {0, 1, 5, 6}
        BY <1>2, <3>2 DEF Earliest
      <4> QED BY <4>1 DEF Versions
    <3> QED BY <3>1, <3>2
  <2>3. \A v \in Versions :
          (v >= Earliest(d.E, d.meta)
             /\ \A x \in DOMAIN c.consts : v >= (IF c.consts[x].im = 0 THEN 6 ELSE 7))
          <=> (v >= Earliest(c.E, c.meta)
             /\ \A x \in DOMAIN c.consts : v >= (IF c.consts[x].im = 0 THEN 6 ELSE 7))
    BY <2>1, <2>2
  <2> QED BY <2>3 DEF FindVersion
<1> QED BY <1>1, <1>2
LEMMA CalculateGood ==
  ASSUME NEW d, Good(d), \A c \in DOMAIN d.consts : IsNumber(d.consts[c]),
         CalculateEntry(d).error => ~d.E.cs
  PROVE  Good(CalculateEntry(d)) /\ CalculateEntry(d).room = d.room
<1> DEFINE E == d.E
           used == Used(E)
           Missing(k) == E.scalar[used[k]] # None /\ E.scalar[used[k]] \notin DOMAIN d.consts
           missing == {k \in DOMAIN used : Missing(k)}
           last == IF missing = {} THEN Len(used) ELSE Oldest(missing) - 1
           fetched == {used[k] : k \in 1..last}
           lit == [i \in Slots |->
                    IF i \notin fetched \/ E.scalar[i] = None THEN E.lit[i]
                    ELSE IF E.type \in ComplexTypes THEN d.consts[E.scalar[i]]
                    ELSE Real(d.consts[E.scalar[i]].re)]
           looked == IF missing = {} THEN Params(E)
                     ELSE IF E.type = "LINCOM"
                          THEN {used[k] : k \in 1..last + 1 + ((last + 1) % 2)}
                     ELSE {used[k] : k \in 1..last + 1}
           cs == E.type \in ComplexTypes /\ \E i \in looked : lit[i].im # 0
           none == missing = {}
           C == CalculateEntry(d)
<1>1. C = [d EXCEPT !.E = [E EXCEPT !.lit = lit, !.cs = cs, !.calc = none],
                    !.error = missing # {}]
  BY DEF CalculateEntry, Good, IsDir, DirFields, IsEntry, EntryFields
<1>2. IsEntry(E) /\ Params(E) \subseteq Slots /\ Right(E, d.consts)
  BY ParamsIn DEF Good, IsDir
<1>3. DOMAIN used = 1..Len(used) /\ Len(used) \in 0..6
  BY <1>2, UsedIs
<1> HIDE DEF used
<1>4. none => fetched = Params(E) /\ looked = Params(E)
  BY <1>3 DEF Params, used
<1>5. ASSUME NEW k \in 1..last PROVE k \in DOMAIN used /\ ~Missing(k)
  <2>1. CASE none
    BY <1>3, <1>5, <2>1
  <2>2. CASE ~none
    <3>1. missing \subseteq 1..6 /\ missing # {} /\ missing \subseteq 1..Len(used)
      BY <1>3, <2>2
    <3>2. last = Oldest(missing) - 1
      BY <2>2
    <3> DEFINE M == missing
    <3>3. M \subseteq 1..6 /\ M # {} /\ M \subseteq 1..Len(used)
      BY <3>1
    <3>4. last = Oldest(M) - 1 /\ k \in 1..last
      BY <1>5, <3>2
    <3>5. k \in DOMAIN used /\ k \notin M => ~Missing(k)
      OBVIOUS
    <3> HIDE DEF M, missing, last, Missing
    <3>6. Oldest(M) \in M /\ \A w \in M : w >= Oldest(M)
      BY <3>3, OldestIs
    <3> DEFINE o == Oldest(M)
    <3>7. o \in 1..6 /\ o \in 1..Len(used) /\ k \in 1..o - 1 /\ \A w \in M : w >= o
      BY <3>3, <3>4, <3>6
    <3> HIDE DEF o
    <3>8. k \in 1..Len(used) /\ k < o
      BY <1>3, <3>7
    <3>9. k \notin M
      BY <3>7, <3>8
    <3> QED BY <1>3, <3>5, <3>8, <3>9
  <2> QED BY <2>1, <2>2
<1>6. \A i \in fetched : E.scalar[i] # None => E.scalar[i] \in DOMAIN d.consts
  BY <1>5
<1> HIDE DEF missing, last, Missing, looked, fetched
<1> DEFINE F == C.E
<1>7. /\ DOMAIN lit = Slots
      /\ \A i \in Slots : lit[i] = E.lit[i] \/ DOMAIN d.consts # {}
      /\ \A i \in Slots : i \in fetched /\ E.scalar[i] # None =>
           lit[i] = Fetched(E.type, d.consts[E.scalar[i]])
      /\ \A i \in Slots : E.scalar[i] = None => lit[i] = E.lit[i]
      /\ none => (cs <=> E.type \in ComplexTypes /\ \E i \in Params(E) : lit[i].im # 0)
  BY <1>4, <1>6 DEF Fetched
<1>8. \A i \in Slots : IsNumber(lit[i])
  BY <1>2, <1>6, RealAre DEF IsEntry
<1>16. (cs \in BOOLEAN) /\ (none \in BOOLEAN)
  OBVIOUS
<1>17. cs => E.type \in ComplexTypes
  OBVIOUS
<1> HIDE DEF lit, cs, none, C
<1>9. /\ DOMAIN C = DirFields /\ C.meta = d.meta /\ C.consts = d.consts
      /\ C.room = d.room /\ C.have = d.have /\ C.av = d.av
      /\ C.standards = d.standards /\ C.dirty = d.dirty
      /\ C.error = (missing # {})
      /\ F = [E EXCEPT !.lit = lit, !.cs = cs, !.calc = none]
  BY <1>1 DEF Good, IsDir, DirFields
<1> HIDE DEF F
<1>10. /\ DOMAIN F = EntryFields /\ SameRest(E, F) /\ F.in = E.in
       /\ F.scalar = E.scalar /\ F.lit = lit /\ F.cs = cs /\ F.calc = none
  BY <1>2, <1>9 DEF IsEntry, EntryFields, SameRest
<1>11. IsEntry(F)
  <2>1. F.cs \in BOOLEAN /\ F.calc \in BOOLEAN /\ (F.cs => F.type \in ComplexTypes)
    <3>1. F.cs \in BOOLEAN /\ F.calc \in BOOLEAN
      BY <1>16, <1>10
    <3>2. cs => E.type \in ComplexTypes
      BY <1>17
    <3>3. F.type = E.type /\ F.cs = cs
      BY <1>10 DEF SameRest
    <3> QED BY <3>1, <3>2, <3>3
  <2>2. DOMAIN F.lit = Slots /\ \A i \in Slots : IsNumber(F.lit[i])
    BY <1>7, <1>8, <1>10
  <2> QED BY <1>2, <1>10, <2>1, <2>2 DEF IsEntry, SameRest
<1>12. Params(F) = Params(E) /\ F.type = E.type
  BY <1>10, ShapeIs DEF SameRest
<1>13. Right(F, d.consts)
  <2>1. ASSUME none, NEW i \in Params(E), E.scalar[i] # None
        PROVE  Fetches(F, d.consts, i)
    BY <1>2, <1>4, <1>6, <1>7, <1>10, <1>12, <2>1 DEF Fetches
  <2>2. ASSUME NEW i \in Params(E), E.scalar[i] = None \/ none, lit[i].im # 0
        PROVE  cs
    <3>1. CASE none
      <4>1. CASE E.type \in ComplexTypes
        BY <1>7, <2>2, <3>1, <4>1
      <4>2. CASE E.type \notin ComplexTypes /\ E.scalar[i] = None
        <5>1. lit[i] = E.lit[i]
          BY <1>2, <1>7, <4>2
        <5>2. E.cs
          BY <1>2, <2>2, <4>2, <5>1 DEF Right
        <5> QED BY <1>2, <4>2, <5>2 DEF IsEntry
      <4>3. CASE E.type \notin ComplexTypes /\ E.scalar[i] # None
        <5>1. lit[i] = Real(d.consts[E.scalar[i]].re)
          BY <1>2, <1>4, <1>7, <3>1, <4>3 DEF Fetched
        <5> QED BY <2>2, <5>1, RealAre
      <4> QED BY <4>1, <4>2, <4>3
    <3>2. CASE ~none
      <4>1. ~E.cs
        BY <1>9, <3>2 DEF C, none
      <4> QED BY <1>2, <1>7, <2>2, <3>2, <4>1 DEF Right
    <3> QED BY <3>1, <3>2
  <2> QED BY <1>10, <1>12, <2>1, <2>2 DEF Right
<1>14. FindVersion(C) = FindVersion(d)
  <2>1. E.type = "BIT" =>
          (F.lit[0] = E.lit[0] /\ F.lit[1] = E.lit[1]) \/ DOMAIN d.consts # {}
    BY <1>7, <1>10, SlotsAre
  <2> QED BY <1>9, <1>10, <2>1, BitVersions DEF SameRest, F
<1>15. Good(C)
  <2>1. (missing # {}) \in BOOLEAN
    OBVIOUS
  <2> QED BY <1>9, <1>11, <1>13, <1>14, <2>1 DEF Good, IsDir, Cached, F
<1> QED BY <1>9, <1>15 DEF C
-----------------------------------------------------------------------------
(* Entries that are made anew.  None of them is calculated with a scalar in   *)
(* it, and what is not real is marked.                                        *)
Made(E) ==
  /\ IsEntry(E)
  /\ E.calc => \A i \in Slots : E.scalar[i] = None
  /\ \A i \in Slots : E.lit[i].im # 0 => E.cs

LEMMA MadeRight ==
  ASSUME NEW E, Made(E), NEW consts PROVE Right(E, consts)
BY ParamsIn DEF Made, Right

IsWhole(N) ==
  /\ DOMAIN N.in = 0..GD_MAX_LINCOM - 1 /\ N.cs \in BOOLEAN
  /\ \A i \in Slots : IsNumber(N.lit[i])

LEMMA CopyMade ==
  ASSUME NEW N, IsWhole(N), NEW meta, ~Refused(N, meta), NEW values
  PROVE  Made(Stored(Copy(N), N, values))
<1> DEFINE last == IF N.type = "POLYNOM" THEN N.n - 1 ELSE GD_MAX_POLYORD
           E == [Blank EXCEPT !.type = N.type, !.hidden = N.hidden]
           used == IF N.n > GD_MAX_POLYORD THEN {} ELSE Params(N)
           lit == [i \in Slots |->
                    IF i \notin used THEN Zero
                    ELSE IF N.type \in ComplexTypes THEN Given_(N, i)
                    ELSE Real(N.lit[i].re)]
           cs == N.type \in ComplexTypes /\ \E i \in used : lit[i].im # 0
           names == [i \in Slots |-> IF i \in used /\ i <= last THEN N.scalar[i]
                                     ELSE None]
           data == [i \in 1..(CASE N.type = "CONST" -> 1 [] N.type = "CARRAY" -> N.n
                                [] OTHER -> 0) |-> Zero]
           C == Copy(N)
           F == Stored(C, N, values)
           more == [i \in DOMAIN values |-> ConvertTo(ConstType(N.sub), values[i])]
<1>1. C = [E EXCEPT !.sub = N.sub, !.n = N.n, !.in = N.in, !.text = N.text,
             !.lit = lit, !.cs = cs, !.scalar = names, !.data = data]
  BY DEF Copy
<1>2. /\ DOMAIN lit = Slots /\ DOMAIN names = Slots
      /\ \A i \in Slots : IsNumber(lit[i])
      /\ \A i \in Slots : lit[i].im # 0 => i \in used /\ N.type \in ComplexTypes
  BY RealAre DEF IsWhole, Given_
<1>3. cs \in BOOLEAN
  OBVIOUS
<1>4. cs => N.type \in ComplexTypes
  OBVIOUS
<1>5. \A i \in Slots : lit[i].im # 0 => cs
  BY <1>2
<1> HIDE DEF lit, names, cs, data, used, last
<1>6. DOMAIN E = EntryFields /\ E.type = N.type /\ E.calc = FALSE
  BY BlankIs DEF IsEntry, EntryFields
<1> HIDE DEF E, C
<1>7. /\ DOMAIN C = EntryFields /\ C.type = N.type /\ C.calc = FALSE
      /\ C.n = N.n /\ C.in = N.in /\ C.lit = lit /\ C.cs = cs
      /\ C.scalar = names
  BY <1>1, <1>6 DEF EntryFields
<1> HIDE DEF more
<1>8. F = IF values = <<>> THEN C
          ELSE IF C.type = "STRING" THEN [C EXCEPT !.text = values]
          ELSE [C EXCEPT !.data = more]
  BY DEF Stored, more
<1> HIDE DEF F
<1>9. /\ DOMAIN F = EntryFields /\ F.type = N.type /\ F.calc = FALSE
      /\ F.n = N.n /\ F.in = N.in /\ F.lit = lit /\ F.cs = cs
      /\ F.scalar = names
  <2>1. CASE values = <<>>
    BY <1>7, <1>8, <2>1
  <2>2. CASE values # <<>> /\ C.type = "STRING"
    BY <1>7, <1>8, <2>2 DEF EntryFields
  <2>3. CASE values # <<>> /\ C.type # "STRING"
    BY <1>7, <1>8, <2>3 DEF EntryFields
  <2> QED BY <2>1, <2>2, <2>3
<1>10. /\ N.type = "LINCOM" => N.n \in 0..GD_MAX_LINCOM
       /\ N.type = "POLYNOM" => N.n \in 0..GD_MAX_POLYORD
  BY DEF Refused, GD_MAX_LINCOM, GD_MAX_POLYORD
<1>11. IsEntry(F)
  <2>1. F.cs \in BOOLEAN /\ F.calc \in BOOLEAN
    BY <1>3, <1>9
  <2>2. F.cs => F.type \in ComplexTypes
    BY <1>4, <1>9
  <2> QED BY <1>2, <1>9, <1>10, <2>1, <2>2 DEF IsEntry, IsWhole
<1> QED BY <1>5, <1>9, <1>11 DEF Made, F, C

LEMMA InstallGood ==
  ASSUME NEW d, Good(d), NEW E, Made(E), NEW meta \in BOOLEAN
  PROVE  Good(Install(d, E, meta)) /\ Install(d, E, meta).room = d.room
<1> DEFINE C == Install(d, E, meta)
<1>1. /\ DOMAIN C = DirFields /\ C.E = E /\ C.meta = meta /\ C.dirty = TRUE
      /\ C.have = FALSE /\ C.error = FALSE /\ C.consts = d.consts
      /\ C.room = d.room /\ C.standards = d.standards /\ C.av = d.av
  BY DEF Install, Good, IsDir, DirFields
<1> HIDE DEF C
<1>2. Good(C)
  BY <1>1, MadeRight DEF Good, IsDir, Cached, Made
<1> QED BY <1>1, <1>2 DEF C
-----------------------------------------------------------------------------
(* The parsers.                                                               *)
Part(S) ==
  /\ DOMAIN S = {"E", "error"} /\ IsEntry(S.E) /\ S.E.calc = FALSE
  /\ \A i \in Slots : S.E.lit[i].im # 0 => S.E.cs
SameKind(S, T) == T.E.type = S.E.type /\ T.E.n = S.E.n

LEMMA PartMade == ASSUME NEW S, Part(S) PROVE Made(S.E)
BY DEF Part, Made

LEMMA NewPart ==
  ASSUME NEW type
  PROVE  /\ Part(New(type)) /\ New(type).E.type = type /\ New(type).E.n = 0
         /\ \A i \in Slots :
              New(type).E.lit[i] = Zero /\ New(type).E.scalar[i] = None
<1> DEFINE F == [Blank EXCEPT !.type = type]
<1>1. /\ DOMAIN F = EntryFields /\ F.type = type /\ SameNumbers(Blank, F)
      /\ F.in = Blank.in /\ F.n = Blank.n
  BY BlankIs DEF IsEntry, EntryFields, SameNumbers
<1> HIDE DEF F
<1>2. IsEntry(F)
  BY <1>1, BlankIs DEF IsEntry, SameNumbers, GD_MAX_LINCOM, GD_MAX_POLYORD
<1>3. New(type).E = F /\ DOMAIN New(type) = {"E", "error"}
  BY DEF New, F
<1>4. \A i \in Slots : F.lit[i] = Zero /\ F.scalar[i] = None
  BY <1>1, BlankIs DEF SameNumbers
<1> QED BY <1>1, <1>2, <1>3, <1>4, BlankIs, RealAre DEF Part, SameNumbers

LEMMA WrongIs ==
  ASSUME NEW S, Part(S)
  PROVE  /\ Part(Wrong(S)) /\ Wrong(S).E = S.E
         /\ \A bad : Part(WrongIf(S, bad)) /\ WrongIf(S, bad).E = S.E
BY DEF Part, Wrong, WrongIf

LEMMA InPart ==
  ASSUME NEW S, Part(S), NEW i \in 0..GD_MAX_LINCOM - 1, NEW w
  PROVE  /\ Part(In(S, i, w)) /\ SameKind(S, In(S, i, w))
         /\ SameNumbers(S.E, In(S, i, w).E)
<1> DEFINE ins == [S.E.in EXCEPT ![i] = w.word]
           F == [S.E EXCEPT !.in = ins]
           T == In(S, i, w)
<1>1. T = [S EXCEPT !.E = F]
  BY DEF In, Part, IsEntry, EntryFields
<1>2. DOMAIN ins = 0..GD_MAX_LINCOM - 1
  BY DEF Part, IsEntry
<1> HIDE DEF ins, T
<1>3. /\ DOMAIN F = EntryFields /\ F.type = S.E.type /\ F.n = S.E.n
      /\ F.in = ins /\ SameNumbers(S.E, F)
  BY DEF Part, IsEntry, EntryFields, SameNumbers
<1> HIDE DEF F
<1>4. DOMAIN T = {"E", "error"} /\ T.E = F
  BY <1>1 DEF Part
<1>5. IsEntry(F)
  BY <1>2, <1>3 DEF Part, IsEntry, SameNumbers
<1> QED BY <1>3, <1>4, <1>5 DEF Part, SameKind, SameNumbers, T

LEMMA SetScalarsPart ==
  ASSUME NEW S, Part(S), NEW words, NEW t,
         t = "COMPLEX128" => S.E.type \in ComplexTypes
  PROVE  /\ Part(SetScalars(S, words, t)) /\ SameKind(S, SetScalars(S, words, t))
         /\ \A i \in Slots \ DOMAIN words : SetScalars(S, words, t).E.lit[i] = S.E.lit[i]
<1> DEFINE Pair_(w) == w.kind = "pair"
           Name(w) == IF w.kind # "number" /\ ~Pair_(w) THEN w.word
                      ELSE IF Pair_(w) /\ t \notin {"FLOAT64", "COMPLEX128"}
                      THEN "re;im" ELSE None
           num == {i \in DOMAIN words : /\ Name(words[i]) = None
                                        /\ Pair_(words[i]) => t = "COMPLEX128"}
           names == [i \in Slots |-> IF i \in DOMAIN words /\ Name(words[i]) # None
                                     THEN Name(words[i]) ELSE S.E.scalar[i]]
           lit == [i \in Slots |->
                    IF i \notin num THEN S.E.lit[i]
                    ELSE Complex(Cast(words[i].num.re, t),
                                 IF Pair_(words[i]) THEN words[i].num.im ELSE 0)]
           cs == S.E.cs \/ \E i \in num : Pair_(words[i])
           F == [S.E EXCEPT !.scalar = names, !.lit = lit, !.cs = cs]
           bad == t = "FLOAT64" /\ \E i \in DOMAIN words : Pair_(words[i])
           T == [S EXCEPT !.E = F]
<1>1. SetScalars(S, words, t) = WrongIf(T, bad)
  BY DEF SetScalars, Part, IsEntry, EntryFields
<1>2. \A i \in num : Pair_(words[i]) => t = "COMPLEX128"
  OBVIOUS
<1>3. cs \in BOOLEAN /\ (S.E.cs => cs)
  BY DEF Part, IsEntry
<1>4. cs => S.E.type \in ComplexTypes
  BY <1>2 DEF Part, IsEntry
<1>5. \A i \in num : Pair_(words[i]) => cs
  OBVIOUS
<1>6. \A i \in Slots \ DOMAIN words : lit[i] = S.E.lit[i]
  OBVIOUS
<1> HIDE DEF num, Name, cs, bad
<1>7. DOMAIN lit = Slots /\ DOMAIN names = Slots
  OBVIOUS
<1>8. ASSUME NEW i \in Slots
      PROVE  IsNumber(lit[i]) /\ (lit[i].im # 0 => cs)
  <2>1. CASE i \notin num
    BY <1>3, <2>1 DEF Part, IsEntry
  <2>2. CASE i \in num
    <3>1. lit[i] = Complex(Cast(words[i].num.re, t),
                           IF Pair_(words[i]) THEN words[i].num.im ELSE 0)
      BY <2>2
    <3> HIDE DEF lit
    <3>2. IsNumber(lit[i])
      BY <3>1 DEF IsNumber, Complex
    <3>3. lit[i].im # 0 => Pair_(words[i])
      BY <3>1 DEF Complex
    <3> QED BY <1>5, <2>2, <3>2, <3>3
  <2> QED BY <2>1, <2>2
<1> HIDE DEF names, lit
<1>9. /\ DOMAIN F = EntryFields /\ F.type = S.E.type /\ F.n = S.E.n
      /\ F.in = S.E.in /\ F.scalar = names /\ F.lit = lit /\ F.cs = cs
      /\ F.calc = S.E.calc
  BY DEF Part, IsEntry, EntryFields
<1> HIDE DEF F
<1>10. IsEntry(F)
  <2>1. F.cs \in BOOLEAN
    BY <1>3, <1>9
  <2>2. F.cs => F.type \in ComplexTypes
    BY <1>4, <1>9
  <2> QED BY <1>7, <1>8, <1>9, <2>1, <2>2 DEF Part, IsEntry
<1>11. DOMAIN T = {"E", "error"} /\ T.E = F
  BY DEF Part
<1> HIDE DEF T
<1>12. \A i \in Slots : F.lit[i].im # 0 => F.cs
  BY <1>8, <1>9
<1>13. Part(T) /\ SameKind(S, T)
  BY <1>9, <1>10, <1>11, <1>12 DEF Part, SameKind
<1>14. \A i \in Slots \ DOMAIN words : T.E.lit[i] = S.E.lit[i]
  BY <1>9, <1>11, <1>6
<1> QED BY <1>1, <1>13, <1>14, WrongIs DEF SameKind

LEMMA SetScalarPart ==
  ASSUME NEW S, Part(S), NEW i, NEW w, NEW t,
         t = "COMPLEX128" => S.E.type \in ComplexTypes
  PROVE  Part(SetScalar(S, i, w, t)) /\ SameKind(S, SetScalar(S, i, w, t))
<1> DEFINE words == [k \in {i} |-> w]
<1>1. SetScalar(S, i, w, t) = SetScalars(S, words, t)
  BY DEF SetScalar
<1> HIDE DEF words
<1> QED BY <1>1, SetScalarsPart

(* What else a parser sets in the end.                                        *)
FitsType(Q) ==
  \/ Q.type = "LINCOM" /\ Q.n \in 1..GD_MAX_LINCOM
  \/ Q.type = "POLYNOM" /\ Q.n \in 1..GD_MAX_POLYORD
  \/ Q.type = "CARRAY"

LEMMA FinishedMade ==
  ASSUME NEW S, Part(S), NEW Q, DOMAIN Q = EntryFields, Q.type = S.E.type,
         Q.in = S.E.in, Q.lit = S.E.lit, Q.scalar = S.E.scalar, Q.cs = S.E.cs,
         Q.calc \in BOOLEAN, Q.calc => \A i \in Slots : S.E.scalar[i] = None,
         Q.n = S.E.n \/ FitsType(Q)
  PROVE  Made(Q)
BY DEF Part, IsEntry, Made, FitsType, GD_MAX_LINCOM, GD_MAX_POLYORD

LEMMA CalculatedMade ==
  ASSUME NEW S, Part(S)
  PROVE  LET T == [S EXCEPT !.E.calc = ~ScalarIn(S.E)]
         IN Made(T.E) /\ \A bad : Made(WrongIf(T, bad).E)
<1> DEFINE calc == ~ScalarIn(S.E)
           Q == [S.E EXCEPT !.calc = calc]
           T == [S EXCEPT !.E = Q]
<1>1. [S EXCEPT !.E.calc = ~ScalarIn(S.E)] = T
  BY DEF Part, IsEntry, EntryFields
<1>2. calc \in BOOLEAN
  BY DEF ScalarIn
<1>3. calc => \A i \in Slots : S.E.scalar[i] = None
  BY DEF ScalarIn
<1> HIDE DEF calc
<1>4. /\ DOMAIN Q = EntryFields /\ Q.type = S.E.type /\ Q.in = S.E.in
      /\ Q.lit = S.E.lit /\ Q.scalar = S.E.scalar /\ Q.cs = S.E.cs
      /\ Q.n = S.E.n /\ Q.calc = calc
  BY DEF Part, IsEntry, EntryFields
<1> HIDE DEF Q
<1>5. Made(Q)
  <2>1. Q.calc \in BOOLEAN
    BY <1>2, <1>4
  <2>2. Q.calc => \A i \in Slots : S.E.scalar[i] = None
    BY <1>3, <1>4
  <2> HIDE DEF calc
  <2>3. /\ DOMAIN Q = EntryFields /\ Q.type = S.E.type /\ Q.in = S.E.in
        /\ Q.lit = S.E.lit /\ Q.scalar = S.E.scalar /\ Q.cs = S.E.cs
        /\ Q.n = S.E.n
    BY <1>4
  <2> HIDE DEF T
  <2> QED BY <2>1, <2>2, <2>3, FinishedMade
<1>6. DOMAIN T = {"E", "error"} /\ T.E = Q
  BY DEF Part
<1> HIDE DEF T
<1>7. \A bad : WrongIf(T, bad).E = Q
  BY <1>6 DEF WrongIf
<1> QED BY <1>1, <1>5, <1>6, <1>7

LEMMA SubPart ==
  ASSUME NEW S, Part(S), NEW x
  PROVE  Part([S EXCEPT !.E.sub = x]) /\ SameKind(S, [S EXCEPT !.E.sub = x])
<1> DEFINE Q == [S.E EXCEPT !.sub = x]
           T == [S EXCEPT !.E = Q]
<1>1. [S EXCEPT !.E.sub = x] = T
  OBVIOUS
<1>2. /\ DOMAIN Q = EntryFields /\ Q.type = S.E.type /\ Q.in = S.E.in
      /\ SameNumbers(S.E, Q) /\ Q.n = S.E.n
  BY DEF Part, IsEntry, EntryFields, SameNumbers
<1> HIDE DEF Q
<1>3. IsEntry(Q)
  BY <1>2 DEF Part, IsEntry, SameNumbers
<1>4. DOMAIN T = {"E", "error"} /\ T.E = Q
  BY DEF Part
<1> HIDE DEF T
<1> QED BY <1>1, <1>2, <1>3, <1>4 DEF Part, SameKind, SameNumbers

LEMMA RawMade ==
  ASSUME NEW c, NEW standards, NEW pedantic, NEW meta
  PROVE  Made(ParseRaw(c, standards, pedantic, meta).E)
<1> DEFINE t == RawType(c[3].word, standards, pedantic)
           R == [New("RAW") EXCEPT !.E.sub = t]
           S == SetScalar(R, 0, c[4], "UINT16")
           bad == t \notin DataTypes \/ (~ScalarIn(S.E) /\ S.E.lit[0].re <= 0)
<1>1. ParseRaw(c, standards, pedantic, meta) =
        IF Len(c) < 4 \/ meta THEN Wrong(New("RAW"))
        ELSE WrongIf([S EXCEPT !.E.calc = ~ScalarIn(S.E)], bad)
  BY DEF ParseRaw
<1> HIDE DEF bad, t
<1>2. Part(R)
  BY NewPart, SubPart
<1> HIDE DEF R
<1>3. Part(S)
  BY <1>2, SetScalarPart
<1> HIDE DEF S
<1>4. Made(WrongIf([S EXCEPT !.E.calc = ~ScalarIn(S.E)], bad).E)
  BY <1>3, CalculatedMade
<1>5. Made(Wrong(New("RAW")).E)
  BY NewPart, WrongIs, PartMade
<1> QED BY <1>1, <1>4, <1>5

LEMMA PhaseMade == \A c : Made(ParsePhase(c).E)
<1> SUFFICES ASSUME NEW c PROVE Made(ParsePhase(c).E)
  OBVIOUS
<1> DEFINE R == In(New("PHASE"), 0, c[3])
           S == SetScalar(R, 0, c[4], "INT64")
<1>1. ParsePhase(c) = IF Len(c) < 4 THEN Wrong(New("PHASE"))
                      ELSE [S EXCEPT !.E.calc = ~ScalarIn(S.E)]
  BY DEF ParsePhase
<1>2. 0 \in 0..GD_MAX_LINCOM - 1
  BY DEF GD_MAX_LINCOM
<1>3. Part(R)
  BY <1>2, NewPart, InPart
<1> HIDE DEF R
<1>4. Part(S)
  BY <1>3, SetScalarPart
<1> HIDE DEF S
<1>5. Made([S EXCEPT !.E.calc = ~ScalarIn(S.E)].E)
  BY <1>4, CalculatedMade
<1>6. Made(Wrong(New("PHASE")).E)
  BY NewPart, WrongIs, PartMade
<1> QED BY <1>1, <1>5, <1>6

LEMMA BitMade == \A type, c : Made(ParseBit(type, c).E)
<1> SUFFICES ASSUME NEW type, NEW c PROVE Made(ParseBit(type, c).E)
  OBVIOUS
<1> DEFINE R == In(New(type), 0, c[3])
           T == SetScalar(R, 0, c[4], "INT32")
           U == [T EXCEPT !.E.lit[1] = Real(1)]
           S == IF Len(c) > 4 THEN SetScalar(T, 1, c[5], "INT32") ELSE U
           bitnum == S.E.lit[0].re
           numbits == S.E.lit[1].re
           bad == \/ S.E.scalar[1] = None /\ numbits < 1
                  \/ S.E.scalar[0] = None /\ bitnum < 0
                  \/ ~ScalarIn(S.E) /\ bitnum + numbits - 1 > 63
<1>1. ParseBit(type, c) = IF Len(c) < 4 THEN Wrong(New(type))
                          ELSE WrongIf([S EXCEPT !.E.calc = ~ScalarIn(S.E)], bad)
  BY DEF ParseBit
<1> HIDE DEF bad
<1>2. 0 \in 0..GD_MAX_LINCOM - 1 /\ 1 \in Slots
  BY SlotsAre DEF GD_MAX_LINCOM
<1>3. Part(R)
  BY <1>2, NewPart, InPart
<1> HIDE DEF R
<1>4. Part(T)
  BY <1>3, SetScalarPart
<1> HIDE DEF T
<1>5. Part(U)
  <2> DEFINE lits == [T.E.lit EXCEPT ![1] = Real(1)]
             Q == [T.E EXCEPT !.lit = lits]
  <2>1. U = [T EXCEPT !.E = Q]
    OBVIOUS
  <2>2. /\ DOMAIN lits = Slots
        /\ \A i \in Slots : IsNumber(lits[i]) /\ (lits[i].im # 0 => T.E.cs)
    BY <1>4, RealAre DEF Part, IsEntry
  <2> HIDE DEF lits, U
  <2>3. /\ DOMAIN Q = EntryFields /\ Q.type = T.E.type /\ Q.n = T.E.n
        /\ Q.in = T.E.in /\ Q.lit = lits /\ Q.scalar = T.E.scalar
        /\ Q.cs = T.E.cs /\ Q.calc = T.E.calc
    BY <1>4 DEF Part, IsEntry, EntryFields
  <2> HIDE DEF Q
  <2>4. IsEntry(Q)
    BY <1>4, <2>2, <2>3 DEF Part, IsEntry
  <2>5. DOMAIN U = {"E", "error"} /\ U.E = Q
    BY <1>4, <2>1 DEF Part
  <2> QED BY <1>4, <2>2, <2>3, <2>4, <2>5 DEF Part
<1> HIDE DEF U
<1>6. Part(S)
  BY <1>4, <1>5, SetScalarPart
<1> HIDE DEF S
<1>7. Made(WrongIf([S EXCEPT !.E.calc = ~ScalarIn(S.E)], bad).E)
  BY <1>6, CalculatedMade
<1>8. Made(Wrong(New(type)).E)
  BY NewPart, WrongIs, PartMade
<1> QED BY <1>1, <1>7, <1>8
LEMMA LincomMade == \A c, standards, pedantic : Made(ParseLincom(c, standards, pedantic).E)
<1> SUFFICES ASSUME NEW c, NEW standards, NEW pedantic
             PROVE  Made(ParseLincom(c, standards, pedantic).E)
  OBVIOUS
<1> DEFINE told == c[3].kind = "number"
           n == IF told THEN c[3].num.re ELSE (Len(c) - 2) \div 3
           first == IF told THEN 3 ELSE 2
           Word3(i, k) == c[first + 3 * i + k]
           R == New("LINCOM")
           ins == [i \in DOMAIN R.E.in |-> IF i < n THEN Word3(i, 1).word ELSE R.E.in[i]]
           T == [R EXCEPT !.E.in = ins]
           words == [i \in {s \in Slots : s % GD_MAX_LINCOM < n} |->
                      Word3(i % GD_MAX_LINCOM, 2 + (i \div GD_MAX_LINCOM))]
           S == SetScalars(T, words, "COMPLEX128")
           calc == ~ScalarIn(S.E)
           U == [S EXCEPT !.E.n = n, !.E.calc = calc]
           wrong == \/ Len(c) < 3
                    \/ ~told /\ Len(c) % 3 # 2
                    \/ n \notin 1..GD_MAX_LINCOM
                    \/ told /\ Len(c) < n * 3 + 3
<1>1. Part(R) /\ R.E.type = "LINCOM" /\ R.E.n = 0
  BY NewPart
<1>2. ParseLincom(c, standards, pedantic) = IF wrong THEN Wrong(R) ELSE U
  BY <1>1 DEF ParseLincom, Part, IsEntry, EntryFields
<1>3. ~wrong => n \in 1..GD_MAX_LINCOM
  OBVIOUS
<1>4. DOMAIN ins = 0..GD_MAX_LINCOM - 1
  BY <1>1 DEF Part, IsEntry
<1> HIDE DEF R, wrong, n, words, ins
<1>5. Part(T) /\ T.E.type = "LINCOM"
  <2> DEFINE Q == [R.E EXCEPT !.in = ins]
  <2>1. T = [R EXCEPT !.E = Q]
    OBVIOUS
  <2>2. /\ DOMAIN Q = EntryFields /\ Q.type = R.E.type /\ Q.n = R.E.n
        /\ Q.in = ins /\ SameNumbers(R.E, Q)
    BY <1>1 DEF Part, IsEntry, EntryFields, SameNumbers
  <2> HIDE DEF Q, T
  <2>3. IsEntry(Q)
    BY <1>1, <1>4, <2>2 DEF Part, IsEntry, SameNumbers
  <2>4. DOMAIN T = {"E", "error"} /\ T.E = Q
    BY <1>1, <2>1 DEF Part
  <2> QED BY <1>1, <2>2, <2>3, <2>4 DEF Part, SameNumbers
<1> HIDE DEF T
<1>6. Part(S) /\ S.E.type = "LINCOM"
  BY <1>5, SetScalarsPart DEF SameKind, ComplexTypes
<1> HIDE DEF S
<1>7. ~wrong => Made(U.E)
  <2> SUFFICES ASSUME ~wrong PROVE Made(U.E)
    OBVIOUS
  <2>1. calc \in BOOLEAN
    BY DEF ScalarIn
  <2>2. calc => \A i \in Slots : S.E.scalar[i] = None
    BY DEF ScalarIn
  <2> HIDE DEF calc
  <2>3. U.E = [S.E EXCEPT !.n = n, !.calc = calc]
    BY <1>6 DEF Part, IsEntry, EntryFields
  <2> HIDE DEF U
  <2>4. /\ DOMAIN U.E = EntryFields /\ U.E.type = S.E.type /\ U.E.in = S.E.in
        /\ U.E.lit = S.E.lit /\ U.E.scalar = S.E.scalar /\ U.E.cs = S.E.cs
        /\ U.E.n = n /\ U.E.calc = calc
    BY <1>6, <2>3 DEF Part, IsEntry, EntryFields
  <2>5. U.E.calc \in BOOLEAN
    BY <2>1, <2>4
  <2>6. U.E.calc => \A i \in Slots : S.E.scalar[i] = None
    BY <2>2, <2>4
  <2>7. FitsType(U.E)
    BY <1>3, <1>6, <2>4 DEF FitsType
  <2> QED BY <1>6, <2>4, <2>5, <2>6, <2>7, FinishedMade
<1>8. Made(Wrong(R).E)
  BY <1>1, WrongIs, PartMade
<1> QED BY <1>2, <1>7, <1>8

LEMMA PolynomMade == \A c : Made(ParsePolynom(c).E)
<1> SUFFICES ASSUME NEW c PROVE Made(ParsePolynom(c).E)
  OBVIOUS
<1> DEFINE n == IF Len(c) - 4 \in 1..GD_MAX_POLYORD THEN Len(c) - 4 ELSE GD_MAX_POLYORD
           R == New("POLYNOM")
           T == In(R, 0, c[3])
           words == [i \in 0..n |-> c[i + 4]]
           S == SetScalars(T, words, "COMPLEX128")
           calc == ~ScalarIn(S.E)
           U == [S EXCEPT !.E.n = n, !.E.calc = calc]
<1>1. ParsePolynom(c) = IF Len(c) < 5 THEN Wrong(R) ELSE U
  BY DEF ParsePolynom
<1>2. Part(R) /\ R.E.type = "POLYNOM"
  BY NewPart
<1>3. n \in 1..GD_MAX_POLYORD
  BY DEF GD_MAX_POLYORD
<1>4. 0 \in 0..GD_MAX_LINCOM - 1
  BY DEF GD_MAX_LINCOM
<1> HIDE DEF R, n, words
<1>5. Part(T) /\ T.E.type = "POLYNOM"
  BY <1>2, <1>4, InPart DEF SameKind
<1> HIDE DEF T
<1>6. Part(S) /\ S.E.type = "POLYNOM"
  BY <1>5, SetScalarsPart DEF SameKind, ComplexTypes
<1> HIDE DEF S
<1>7. Made(U.E)
  <2>1. calc \in BOOLEAN
    BY DEF ScalarIn
  <2>2. calc => \A i \in Slots : S.E.scalar[i] = None
    BY DEF ScalarIn
  <2> HIDE DEF calc
  <2>3. U.E = [S.E EXCEPT !.n = n, !.calc = calc]
    BY <1>6 DEF Part, IsEntry, EntryFields
  <2> HIDE DEF U
  <2>4. /\ DOMAIN U.E = EntryFields /\ U.E.type = S.E.type /\ U.E.in = S.E.in
        /\ U.E.lit = S.E.lit /\ U.E.scalar = S.E.scalar /\ U.E.cs = S.E.cs
        /\ U.E.n = n /\ U.E.calc = calc
    BY <1>6, <2>3 DEF Part, IsEntry, EntryFields
  <2>5. U.E.calc \in BOOLEAN
    BY <2>1, <2>4
  <2>6. U.E.calc => \A i \in Slots : S.E.scalar[i] = None
    BY <2>2, <2>4
  <2>7. FitsType(U.E)
    BY <1>3, <1>6, <2>4 DEF FitsType
  <2> QED BY <1>6, <2>4, <2>5, <2>6, <2>7, FinishedMade
<1>8. Made(Wrong(R).E)
  BY <1>2, WrongIs, PartMade
<1> QED BY <1>1, <1>7, <1>8

LEMMA RecipMade == \A c : Made(ParseRecip(c).E)
<1> SUFFICES ASSUME NEW c PROVE Made(ParseRecip(c).E)
  OBVIOUS
<1> DEFINE R == In(New("RECIP"), 0, c[3])
           S == SetScalar(R, 0, c[4], "COMPLEX128")
           cs == S.E.lit[0].im # 0
           U == [S EXCEPT !.E.cs = cs]
<1>1. ParseRecip(c) = IF Len(c) < 4 THEN Wrong(New("RECIP")) ELSE U
  BY DEF ParseRecip
<1>2. 0 \in 0..GD_MAX_LINCOM - 1
  BY DEF GD_MAX_LINCOM
<1>3. Part(R) /\ R.E.type = "RECIP" /\ \A i \in Slots : R.E.lit[i] = Zero
  BY <1>2, NewPart, InPart DEF SameKind, SameNumbers
<1> HIDE DEF R
<1>4. Part(S) /\ S.E.type = "RECIP"
  BY <1>3, SetScalarPart DEF SameKind, ComplexTypes
<1>5. \A i \in Slots : i # 0 => S.E.lit[i] = Zero
  <2> DEFINE words == [k \in {0} |-> c[4]]
  <2>1. S = SetScalars(R, words, "COMPLEX128") /\ DOMAIN words = {0}
    BY DEF SetScalar
  <2> HIDE DEF S, words
  <2>2. \A i \in Slots \ DOMAIN words : S.E.lit[i] = R.E.lit[i]
    BY <1>3, <2>1, SetScalarsPart DEF ComplexTypes
  <2> QED BY <1>3, <2>1, <2>2
<1> HIDE DEF S
<1>6. cs \in BOOLEAN
  OBVIOUS
<1> DEFINE F == [S.E EXCEPT !.cs = cs]
<1>7. U = [S EXCEPT !.E = F]
  OBVIOUS
<1>8. \A i \in Slots : S.E.lit[i].im # 0 => cs
  BY <1>5, RealAre
<1> HIDE DEF cs, U
<1>9. /\ DOMAIN F = EntryFields /\ F.type = "RECIP" /\ F.n = S.E.n
      /\ F.in = S.E.in /\ F.lit = S.E.lit /\ F.scalar = S.E.scalar
      /\ F.cs = cs /\ F.calc = FALSE
  BY <1>4 DEF Part, IsEntry, EntryFields
<1> HIDE DEF F
<1>10. IsEntry(F)
  <2>1. F.cs \in BOOLEAN
    BY <1>6, <1>9
  <2> QED BY <1>4, <1>9, <2>1 DEF Part, IsEntry, ComplexTypes
<1>11. U.E = F
  BY <1>4, <1>7 DEF Part
<1>12. \A i \in Slots : F.lit[i].im # 0 => F.cs
  BY <1>8, <1>9
<1>13. Made(U.E)
  BY <1>9, <1>10, <1>11, <1>12 DEF Made
<1>14. Made(Wrong(New("RECIP")).E)
  BY NewPart, WrongIs, PartMade
<1> QED BY <1>1, <1>13, <1>14
(* A line without numbers is calculated at once.                              *)
NoScalars(S) == \A i \in Slots : S.E.scalar[i] = None

LEMMA PlainMade ==
  ASSUME NEW S, Part(S), NoScalars(S), NEW text, NEW data
  PROVE  /\ Made([S EXCEPT !.E.calc = TRUE].E)
         /\ Made([S EXCEPT !.E.text = text, !.E.calc = TRUE].E)
         /\ \A bad : Made(WrongIf([S EXCEPT !.E.calc = TRUE, !.E.data = data], bad).E)
<1> DEFINE P == [S.E EXCEPT !.calc = TRUE]
           Q == [S.E EXCEPT !.text = text, !.calc = TRUE]
           R == [S.E EXCEPT !.calc = TRUE, !.data = data]
           Like(X) == /\ DOMAIN X = EntryFields /\ X.type = S.E.type
                      /\ X.in = S.E.in /\ X.lit = S.E.lit
                      /\ X.scalar = S.E.scalar /\ X.cs = S.E.cs
                      /\ X.n = S.E.n /\ X.calc = TRUE
<1>1. Like(P) /\ Like(Q) /\ Like(R)
  BY DEF Part, IsEntry, EntryFields
<1>2. /\ [S EXCEPT !.E.calc = TRUE].E = P
      /\ [S EXCEPT !.E.text = text, !.E.calc = TRUE].E = Q
      /\ \A bad : WrongIf([S EXCEPT !.E.calc = TRUE, !.E.data = data], bad).E = R
  BY DEF Part, IsEntry, EntryFields, WrongIf
<1> HIDE DEF P, Q, R
<1>3. ASSUME NEW X, Like(X) PROVE Made(X)
  BY <1>3, FinishedMade DEF NoScalars
<1> HIDE DEF Like
<1>4. Made(P) /\ Made(Q) /\ Made(R)
  BY <1>1, <1>3
<1> QED BY <1>2, <1>4

LEMMA InputsPart ==
  ASSUME NEW type, NEW c, NEW S, S \in {In(New(type), 0, c[3]), TwoInputs(type, c)}
  PROVE  Part(S) /\ S.E.type = type /\ NoScalars(S)
<1> DEFINE T == In(New(type), 0, c[3])
<1>1. 0 \in 0..GD_MAX_LINCOM - 1 /\ 1 \in 0..GD_MAX_LINCOM - 1
  BY DEF GD_MAX_LINCOM
<1>2. Part(T) /\ T.E.type = type /\ NoScalars(T)
  BY <1>1, NewPart, InPart DEF SameKind, SameNumbers, NoScalars
<1> HIDE DEF T
<1> DEFINE U == In(T, 1, c[4])
<1>3. Part(U) /\ U.E.type = type /\ NoScalars(U)
  BY <1>1, <1>2, InPart DEF SameKind, SameNumbers, NoScalars
<1>4. TwoInputs(type, c) = U
  BY DEF TwoInputs, T
<1> HIDE DEF U
<1> QED BY <1>2, <1>3, <1>4 DEF T

LEMMA NewMade == \A type : Made(Wrong(New(type)).E)
BY NewPart, WrongIs, PartMade

LEMMA InputsMade ==
  \A c : Made(ParseLinterp(c).E) /\ Made(ParseMultiply(c).E) /\ Made(ParseDivide(c).E)
<1> SUFFICES ASSUME NEW c
             PROVE  /\ Made(ParseLinterp(c).E) /\ Made(ParseMultiply(c).E)
                    /\ Made(ParseDivide(c).E)
  OBVIOUS
<1>1. Made(ParseLinterp(c).E)
  <2> DEFINE T == In(New("LINTERP"), 0, c[3])
             U == [T EXCEPT !.E.text = c[4].text, !.E.calc = TRUE]
  <2>1. ParseLinterp(c) = IF Len(c) < 4 THEN Wrong(New("LINTERP")) ELSE U
    BY DEF ParseLinterp
  <2>2. Part(T) /\ NoScalars(T)
    BY InputsPart
  <2> HIDE DEF T
  <2>3. Made(U.E)
    BY <2>2, PlainMade
  <2> QED BY <2>1, <2>3, NewMade
<1>2. Made(ParseMultiply(c).E)
  <2> DEFINE T == TwoInputs("MULTIPLY", c)
             U == [T EXCEPT !.E.calc = TRUE]
  <2>1. ParseMultiply(c) = IF Len(c) < 4 THEN Wrong(New("MULTIPLY")) ELSE U
    BY DEF ParseMultiply
  <2>2. Part(T) /\ NoScalars(T)
    BY InputsPart
  <2> HIDE DEF T
  <2>3. Made(U.E)
    BY <2>2, PlainMade
  <2> QED BY <2>1, <2>3, NewMade
<1>3. Made(ParseDivide(c).E)
  <2> DEFINE T == TwoInputs("DIVIDE", c)
  <2>1. ParseDivide(c) = IF Len(c) < 4 THEN Wrong(New("DIVIDE")) ELSE T
    BY DEF ParseDivide
  <2>2. Part(T)
    BY InputsPart
  <2> HIDE DEF T
  <2>3. Made(T.E)
    BY <2>2, PartMade
  <2> QED BY <2>1, <2>3, NewMade
<1> QED BY <1>1, <1>2, <1>3

LEMMA WindowMade == \A c : Made(ParseWindow(c).E)
<1> SUFFICES ASSUME NEW c PROVE Made(ParseWindow(c).E)
  OBVIOUS
<1> DEFINE op == WindOp(c[5].word)
           t == ThresholdType(op)
           T == TwoInputs("WINDOW", c)
           S == SetScalar(T, 0, c[6], t)
           U == [S EXCEPT !.E.sub = op]
<1>1. ParseWindow(c) = IF Len(c) < 6 THEN Wrong(New("WINDOW"))
                       ELSE IF op = "UNK" THEN Wrong(New("WINDOW")) ELSE U
  BY DEF ParseWindow
<1>2. t # "COMPLEX128"
  BY DEF ThresholdType
<1>3. Part(T)
  BY InputsPart
<1> HIDE DEF t, op, T
<1>4. Part(S)
  BY <1>2, <1>3, SetScalarPart
<1> HIDE DEF S
<1>5. Made(U.E)
  BY <1>4, SubPart, PartMade
<1> QED BY <1>1, <1>5, NewMade

LEMMA MplexMade == \A c : Made(ParseMplex(c).E)
<1> SUFFICES ASSUME NEW c PROVE Made(ParseMplex(c).E)
  OBVIOUS
<1> DEFINE R == TwoInputs("MPLEX", c)
           T == SetScalar(R, 0, c[5], "UINT16")
           S == IF Len(c) > 5 THEN SetScalar(T, 1, c[6], "UINT16") ELSE T
           val == S.E.lit[0].re
           max == S.E.lit[1].re
           bad == max < 0 \/ (~ScalarIn(S.E) /\ (val < 0 \/ (max > 0 /\ val >= max)))
<1>1. ParseMplex(c) = IF Len(c) < 5 THEN Wrong(New("MPLEX")) ELSE WrongIf(S, bad)
  BY DEF ParseMplex
<1> HIDE DEF bad
<1>2. Part(R)
  BY InputsPart
<1> HIDE DEF R
<1>3. Part(T)
  BY <1>2, SetScalarPart
<1> HIDE DEF T
<1>4. Part(S)
  BY <1>3, SetScalarPart
<1> HIDE DEF S
<1>5. Made(WrongIf(S, bad).E)
  BY <1>4, WrongIs, PartMade
<1> QED BY <1>1, <1>5, NewMade

LEMMA ValuesMade ==
  ASSUME NEW S, Part(S), NoScalars(S), NEW c, NEW last
  PROVE  Made(Values(S, c, last).E)
<1> DEFINE t == ConstType(S.E.sub)
           V == [i \in 4..last |-> SetScalar(S, 0, c[i], t)]
           data == [i \in 1..last - 3 |-> V[i + 3].E.lit[0]]
           bad == \E i \in 4..last : V[i].error \/ ScalarIn(V[i].E)
<1>1. Values(S, c, last) = WrongIf([S EXCEPT !.E.calc = TRUE, !.E.data = data], bad)
  BY DEF Values
<1> HIDE DEF data, bad
<1> QED BY <1>1, PlainMade

LEMMA ScalarsMade ==
  \A c, standards, pedantic :
    /\ Made(ParseConst(c, standards, pedantic).E)
    /\ Made(ParseCarray(c, standards, pedantic).E)
    /\ Made(ParseString(c).E)
<1> SUFFICES ASSUME NEW c, NEW standards, NEW pedantic
             PROVE  /\ Made(ParseConst(c, standards, pedantic).E)
                    /\ Made(ParseCarray(c, standards, pedantic).E)
                    /\ Made(ParseString(c).E)
  OBVIOUS
<1> DEFINE sub == RawType(c[3].word, standards, pedantic)
<1> HIDE DEF sub
<1>1. Made(ParseConst(c, standards, pedantic).E)
  <2> DEFINE R == New("CONST")
             S == [R EXCEPT !.E.sub = sub]
  <2>1. ParseConst(c, standards, pedantic) =
          IF Len(c) < 4 THEN Wrong(R)
          ELSE IF S.E.sub \notin DataTypes THEN Wrong(S) ELSE Values(S, c, 4)
    BY DEF ParseConst, sub
  <2>2. Part(R) /\ NoScalars(R)
    BY NewPart DEF NoScalars
  <2> HIDE DEF R
  <2>3. Part(S) /\ NoScalars(S)
    <3>1. S.E.scalar = R.E.scalar
      BY <2>2 DEF Part, IsEntry, EntryFields
    <3> QED BY <2>2, <3>1, SubPart DEF NoScalars
  <2> HIDE DEF S
  <2>4. Made(Values(S, c, 4).E)
    BY <2>3, ValuesMade
  <2>5. Made(Wrong(R).E) /\ Made(Wrong(S).E)
    BY <2>2, <2>3, WrongIs, PartMade
  <2> QED BY <2>1, <2>4, <2>5
<1>2. Made(ParseCarray(c, standards, pedantic).E)
  <2> DEFINE R == New("CARRAY")
             S == [R EXCEPT !.E.sub = sub, !.E.n = Len(c) - 3]
  <2>1. ParseCarray(c, standards, pedantic) =
          IF Len(c) < 4 THEN Wrong(R)
          ELSE IF S.E.sub \notin DataTypes THEN Wrong(S) ELSE Values(S, c, Len(c))
    BY DEF ParseCarray, sub
  <2>2. Part(R) /\ NoScalars(R) /\ R.E.type = "CARRAY"
    BY NewPart DEF NoScalars
  <2> HIDE DEF R
  <2>3. Part(S) /\ NoScalars(S)
    <3> DEFINE Q == [R.E EXCEPT !.sub = sub, !.n = Len(c) - 3]
    <3>1. S = [R EXCEPT !.E = Q]
      BY <2>2 DEF Part, IsEntry, EntryFields
    <3>2. /\ DOMAIN Q = EntryFields /\ Q.type = "CARRAY" /\ Q.in = R.E.in
          /\ SameNumbers(R.E, Q)
      BY <2>2 DEF Part, IsEntry, EntryFields, SameNumbers
    <3> HIDE DEF Q, S
    <3>3. DOMAIN S = {"E", "error"} /\ S.E = Q
      BY <2>2, <3>1 DEF Part
    <3>4. IsEntry(Q)
      BY <2>2, <3>2 DEF Part, IsEntry, SameNumbers
    <3> QED BY <2>2, <3>2, <3>3, <3>4 DEF Part, NoScalars, SameNumbers
  <2> HIDE DEF S
  <2>4. Made(Values(S, c, Len(c)).E)
    BY <2>3, ValuesMade
  <2>5. Made(Wrong(R).E) /\ Made(Wrong(S).E)
    BY <2>2, <2>3, WrongIs, PartMade
  <2> QED BY <2>1, <2>4, <2>5
<1>3. Made(ParseString(c).E)
  <2> DEFINE R == New("STRING")
             U == [R EXCEPT !.E.text = c[3].text, !.E.calc = TRUE]
  <2>1. ParseString(c) = IF Len(c) < 3 THEN Wrong(R) ELSE U
    BY DEF ParseString
  <2>2. Part(R) /\ NoScalars(R)
    BY NewPart DEF NoScalars
  <2>3. Made(Wrong(R).E)
    BY NewMade
  <2> HIDE DEF R
  <2>4. Made(U.E)
    BY <2>2, PlainMade
  <2> QED BY <2>1, <2>3, <2>4
<1> QED BY <1>1, <1>2, <1>3
LEMMA ParsedMade ==
  ASSUME NEW c, NEW standards, NEW pedantic, NEW meta
  PROVE  Made(ParseFieldSpec(c, standards, pedantic, meta).E)
<1> DEFINE type == c[2].word
           S == ParseFieldSpec(c, standards, pedantic, meta)
<1>1. \/ S = Wrong(New("NONE")) \/ S = ParseRaw(c, standards, pedantic, meta)
      \/ S = ParseLincom(c, standards, pedantic) \/ S = ParseLinterp(c)
      \/ S = ParseMultiply(c) \/ S = ParseDivide(c) \/ S = ParseRecip(c)
      \/ S = ParseWindow(c) \/ S = ParseMplex(c) \/ S = ParseBit(type, c)
      \/ S = ParsePhase(c) \/ S = ParsePolynom(c)
      \/ S = ParseConst(c, standards, pedantic)
      \/ S = ParseCarray(c, standards, pedantic) \/ S = ParseString(c)
  BY DEF ParseFieldSpec
<1> HIDE DEF S
<1> QED BY <1>1, NewMade, RawMade, LincomMade, InputsMade, RecipMade, WindowMade,
           MplexMade, BitMade, PhaseMade, PolynomMade, ScalarsMade DEF S

LEMMA SpecMade ==
  ASSUME NEW line, NEW standards, NEW meta
  PROVE  Made(Parsed(line, standards, meta).E)
<1> DEFINE w == Words(line, TRUE)
<1>1. Parsed(line, standards, meta) =
        IF w.error THEN Wrong(New("NONE")) ELSE ParseFieldSpec(w.c, standards, TRUE, meta)
  BY DEF Parsed
<1> HIDE DEF w
<1> QED BY <1>1, NewMade, ParsedMade
LEMMA ReadMade ==
  ASSUME NEW file, NEW v, NEW pedantic
  PROVE  /\ Made(ReadAt(file, v, pedantic).E)
         /\ ReadAt(file, v, pedantic).meta \in BOOLEAN
<1> DEFINE L == ReadLine(file.line, v, pedantic)
<1>1. ASSUME NEW S, NEW meta \in BOOLEAN
      PROVE  /\ Found(S, meta).E = S.E /\ Found(S, meta).meta = meta
             /\ DOMAIN Found(S, meta) = {"meta", "E", "error"}
  BY DEF Found
<1>2. ASSUME NEW c, NEW s, NEW p, NEW meta \in BOOLEAN
      PROVE  /\ Made(ReadWords(c, s, p, meta).E)
             /\ ReadWords(c, s, p, meta).meta \in BOOLEAN
             /\ DOMAIN ReadWords(c, s, p, meta) = {"meta", "E", "error"}
  <2> DEFINE P == ParseFieldSpec(Specification(c), s, p, meta)
             S == WrongIf(P, p /\ ~Known_(c, s))
  <2>1. ReadWords(c, s, p, meta) = Found(S, meta)
    BY DEF ReadWords
  <2>2. Made(P.E)
    BY ParsedMade
  <2> HIDE DEF P
  <2>3. S.E = P.E
    BY DEF WrongIf
  <2> HIDE DEF S
  <2> QED BY <1>1, <2>1, <2>2, <2>3
<1>3. /\ Made(L.E) /\ L.meta \in BOOLEAN /\ DOMAIN L = {"meta", "E", "error"}
  <2> DEFINE w == Words(file.line, ~pedantic \/ v >= 6)
             meta == Directive(w.c) \/ w.c[1].word = "p/f"
  <2>1. L = IF w.error THEN Found(Wrong(New("NONE")), FALSE)
            ELSE ReadWords(w.c, v, pedantic, meta)
    BY DEF ReadLine
  <2>2. meta \in BOOLEAN
    BY DEF Directive
  <2> HIDE DEF w, meta, L
  <2>3. CASE w.error
    BY <1>1, <2>1, <2>3, NewMade
  <2>4. CASE ~w.error
    BY <1>2, <2>1, <2>2, <2>4
  <2> QED BY <2>3, <2>4
<1> HIDE DEF L
<1> DEFINE F == [L.E EXCEPT !.hidden = file.hidden]
           H == Hiding(file, L, ~pedantic \/ v >= 9)
<1>4. H.E = F /\ H.meta = L.meta
  BY <1>3 DEF Hiding, WrongIf
<1>5. Made(F)
  <2>1. /\ DOMAIN F = EntryFields /\ F.type = L.E.type /\ F.n = L.E.n
        /\ F.in = L.E.in /\ SameNumbers(L.E, F)
    BY <1>3 DEF Made, IsEntry, EntryFields, SameNumbers
  <2> HIDE DEF F
  <2>2. IsEntry(F)
    BY <1>3, <2>1 DEF Made, IsEntry, SameNumbers
  <2> QED BY <1>3, <2>1, <2>2 DEF Made, SameNumbers
<1> HIDE DEF H, F
<1>6. ReadAt(file, v, pedantic) =
        IF file.line = <<>> THEN Found(New("NONE"), FALSE) ELSE H
  BY DEF ReadAt, L, H
<1>7. CASE file.line = <<>>
  <2>1. Made(New("NONE").E)
    BY NewPart, PartMade
  <2>2. /\ Found(New("NONE"), FALSE).E = New("NONE").E
        /\ Found(New("NONE"), FALSE).meta = FALSE
    BY <1>1
  <2> QED BY <1>6, <1>7, <2>1, <2>2
<1>8. CASE file.line # <<>>
  BY <1>3, <1>4, <1>5, <1>6, <1>8
<1> QED BY <1>7, <1>8

LEMMA NewestIs == \A d : Newest(FindVersion(d)) \in Versions
<1> SUFFICES ASSUME NEW d PROVE Newest(FindVersion(d)) \in Versions
  OBVIOUS
<1> DEFINE S == FindVersion(d)
<1>1. LatestVersion \in S /\ S \subseteq Versions
  BY LatestFits
<1> HIDE DEF S
<1>2. \A w \in S : w <= LatestVersion
  BY <1>1 DEF Versions, LatestVersion
<1>3. Newest(S) \in S
  BY <1>1, <1>2 DEF Newest
<1> QED BY <1>1, <1>3 DEF S

LEMMA OpenedGood ==
  ASSUME Good(D), NEW file, file.version \in Versions
  PROVE  Good(Opened(file)) /\ Opened(file).room = D.room
<1> DEFINE S == Read(file)
           c == Clear(D)
           d == [Clean(c) EXCEPT !.E = S.E, !.meta = S.meta, !.have = FALSE]
           k == Known(d)
           O == Opened(file)
<1>1. O = IF file.told THEN [d EXCEPT !.standards = file.version]
          ELSE [k EXCEPT !.standards = Newest(k.av)]
  BY DEF Opened
<1>2. Made(S.E) /\ S.meta \in BOOLEAN
  BY ReadMade DEF Read
<1>3. Good(c) /\ Alike(D, c)
  BY MarksGood
<1> HIDE DEF S, c
<1>4. /\ DOMAIN d = DirFields /\ d.E = S.E /\ d.meta = S.meta
      /\ d.consts = D.consts /\ d.room = D.room /\ d.standards = c.standards
      /\ d.av = c.av /\ d.dirty = FALSE /\ d.error = c.error
      /\ d.have = FALSE
  BY <1>3 DEF Good, IsDir, DirFields, Alike, Clean
<1> HIDE DEF d
<1>5. Right(d.E, D.consts) /\ IsEntry(d.E) /\ d.meta \in BOOLEAN
  BY <1>2, <1>4, MadeRight DEF Made
<1>6. ASSUME NEW v \in Versions, NEW e,
             e \in {d, [d EXCEPT !.standards = v]}
      PROVE  Good(e) /\ e.room = D.room
  <2>1. /\ DOMAIN e = DirFields /\ e.E = d.E /\ e.meta = d.meta
        /\ e.consts = d.consts /\ e.room = d.room /\ e.standards \in Versions
        /\ e.av = d.av /\ e.dirty = d.dirty /\ e.error = d.error
        /\ e.have = FALSE
    BY <1>3, <1>4, <1>6 DEF Good, DirFields
  <2> QED BY <1>3, <1>4, <1>5, <2>1 DEF Good, IsDir, Cached
<1>7. CASE file.told
  BY <1>1, <1>6, <1>7
<1>8. CASE ~file.told
  <2>1. Good(d) /\ d.room = D.room
    BY <1>6 DEF Versions
  <2>2. Good(k) /\ Alike(d, k)
    BY <2>1, MarksGood
  <2>3. k.av = FindVersion(d)
    BY <1>4 DEF Known, DirFields
  <2> HIDE DEF k
  <2>5. Newest(k.av) \in Versions
    BY <2>3, NewestIs
  <2>6. O = [k EXCEPT !.standards = Newest(k.av)]
    BY <1>1, <1>8
  <2>7. /\ DOMAIN O = DirFields /\ O.E = k.E /\ O.meta = k.meta
        /\ O.consts = k.consts /\ O.room = k.room /\ O.standards \in Versions
        /\ O.av = k.av /\ O.dirty = k.dirty /\ O.error = k.error
        /\ O.have = k.have
    BY <2>2, <2>5, <2>6 DEF Good, IsDir, DirFields
  <2> HIDE DEF O
  <2>8. FindVersion(O) = FindVersion(k)
    BY <2>7, AlikeVersions DEF Alike
  <2>9. Good(O) /\ O.room = D.room
    BY <2>1, <2>2, <2>7, <2>8 DEF Good, IsDir, Cached, Alike
  <2> QED BY <2>9 DEF O
<1> QED BY <1>7, <1>8
-----------------------------------------------------------------------------
(* The calls.                                                                 *)
IInv == Good(D) /\ D.room \in 0..Calls /\ disk.version \in Versions

LEMMA SpendGood ==
  ASSUME NEW d, Good(d), d.room = D.room, D.room \in 0..Calls, MayCall
  PROVE  Good(Spend(d)) /\ Spend(d).room \in 0..Calls
<1> DEFINE e == Spend(d)
<1>1. /\ DOMAIN e = DirFields /\ e.E = d.E /\ e.meta = d.meta
      /\ e.consts = d.consts /\ e.room = d.room - 1
      /\ e.standards = d.standards /\ e.av = d.av /\ e.dirty = d.dirty
      /\ e.error = d.error /\ e.have = d.have
  BY DEF Good, IsDir, DirFields, Spend
<1> HIDE DEF e
<1>2. FindVersion(e) = FindVersion(d)
  BY <1>1 DEF FindVersion
<1>3. Good(e)
  BY <1>1, <1>2 DEF Good, IsDir, Cached
<1>4. e.room \in 0..Calls
  BY <1>1, FieldSpecAssumption DEF MayCall
<1> QED BY <1>3, <1>4 DEF e

LEMMA RefuseStep == ASSUME IInv, Refuse PROVE IInv'
<1>1. Good(Failed(D)) /\ Failed(D).room = D.room
  BY MarksGood DEF IInv, Alike
<1> QED BY <1>1, SpendGood DEF IInv, Refuse

LEMMA AddStep ==
  ASSUME IInv, NEW N, IsWhole(N), NEW values, NEW meta \in BOOLEAN,
         AddWith(N, values, meta)
  PROVE  IInv'
<1>1. MayCall /\ disk' = disk
  BY DEF AddWith, MayAdd
<1>2. CASE Refused(N, meta)
  <2>1. D' = Spend(Failed(D))
    BY <1>2 DEF AddWith
  <2>2. Good(Failed(D)) /\ Failed(D).room = D.room
    BY MarksGood DEF IInv, Alike
  <2> QED BY <1>1, <2>1, <2>2, SpendGood DEF IInv
<1>3. CASE ~Refused(N, meta)
  <2> DEFINE E == Stored(Copy(N), N, values)
             d == Install(D, E, meta)
  <2>1. D' = Spend(d)
    BY <1>3 DEF AddWith
  <2>2. Made(E)
    BY <1>3, CopyMade
  <2> HIDE DEF E
  <2>3. Good(d) /\ d.room = D.room
    BY <2>2, InstallGood DEF IInv
  <2> HIDE DEF d
  <2> QED BY <1>1, <2>1, <2>3, SpendGood DEF IInv
<1> QED BY <1>2, <1>3

LEMMA AddSpecStep ==
  ASSUME IInv, NEW line, NEW meta \in BOOLEAN, AddSpec(line, meta)
  PROVE  IInv'
<1> DEFINE S == Parsed(line, D.standards, meta)
<1>1. /\ MayCall /\ disk' = disk
      /\ IF S.error THEN D' = Spend(Failed(D)) ELSE D' = Spend(Install(D, S.E, meta))
  BY DEF AddSpec, MayAdd
<1>2. Made(S.E)
  BY SpecMade
<1> HIDE DEF S
<1>3. CASE S.error
  <2>2. Good(Failed(D)) /\ Failed(D).room = D.room
    BY MarksGood DEF IInv, Alike
  <2> QED BY <1>1, <1>3, <2>2, SpendGood DEF IInv
<1>4. CASE ~S.error
  <2> DEFINE d == Install(D, S.E, meta)
  <2>3. Good(d) /\ d.room = D.room
    BY <1>2, InstallGood DEF IInv
  <2> HIDE DEF d
  <2>4. D' = Spend(d)
    BY <1>1, <1>4 DEF d
  <2> QED BY <1>1, <2>3, <2>4, SpendGood DEF IInv
<1> QED BY <1>3, <1>4

LEMMA AlterStep ==
  ASSUME IInv, NEW d, Good(d), Alike(D, d), d.file = D.file,
         d.tables = D.tables, NEW N, IsAsk(N), NEW flags, NEW meant,
         AlterAs(d, N, flags, meant)
  PROVE  IInv'
<1>1. MayAlter(N, flags) /\ disk' = disk /\ D' = Spend(Change(d, N, flags))
  BY DEF AlterAs
<1> DEFINE S == Changed(Work(d), N, flags, d.consts)
<1>2. Work(d) = Work(D) /\ d.E = D.E /\ d.consts = D.consts
  BY DEF Work, Alike
<1>3. S = Changed(Work(D), N, flags, D.consts)
  BY <1>2
<1> HIDE DEF S
<1>4. /\ MayCall
      /\ d.E.type = N.type =>
           /\ d.E.calc \/ ~ScalarIn(d.E)
           /\ MayGrow(d.E, N, flags) /\ MayBeReal(d.E, N, flags)
           /\ S.error \/ MayBecome(d.E, N, flags, S.Q)
  BY <1>1, <1>2, <1>3 DEF MayAlter
<1> DEFINE c == Change(d, N, flags)
<1>5. Good(c) /\ c.room = D.room
  <2>1. d.room = D.room
    BY DEF Alike
  <2>2. CASE d.E.type # N.type
    <3>1. c = Failed(d)
      BY <2>2 DEF Change, Failed
    <3>2. Good(Failed(d)) /\ Failed(d).room = d.room
      BY MarksGood DEF Alike
    <3> QED BY <2>1, <3>1, <3>2
  <2>3. CASE d.E.type = N.type
    <3>1. Ready(d.E)
      BY <1>4, <2>3 DEF Ready, ScalarIn
    <3>2. Good(Change(d, N, flags)) /\ Change(d, N, flags).room = d.room
      BY <1>4, <2>3, <3>1, ChangeGood DEF S
    <3> QED BY <2>1, <3>2
  <2> QED BY <2>2, <2>3
<1> HIDE DEF c
<1>6. D' = Spend(c)
  BY <1>1 DEF c
<1> QED BY <1>1, <1>4, <1>5, <1>6, SpendGood DEF IInv
-----------------------------------------------------------------------------
(* The entries the calls ask for.                                             *)
Fit(N) ==
  /\ DOMAIN N = EntryFields
  /\ DOMAIN N.lit = Slots /\ DOMAIN N.scalar = Slots
  /\ DOMAIN N.in = 0..GD_MAX_LINCOM - 1 /\ N.cs \in BOOLEAN
  /\ \A i \in Slots : IsNumber(N.lit[i])
  /\ \A i \in Slots : N.lit[i].im # 0 => N.type \in ComplexTypes
Like(N, Q) == Q.type = N.type /\ Q.n = N.n

LEMMA FitWhole == ASSUME NEW N, Fit(N) PROVE IsWhole(N)
BY DEF Fit, IsWhole

LEMMA FitAsk ==
  ASSUME NEW N, Fit(N), N.type = "LINCOM" => N.n \in Nat,
         N.type = "POLYNOM" => N.n \in 0..GD_MAX_POLYORD
  PROVE  IsAsk(N)
BY DEF Fit, IsAsk

LEMMA AskFit ==
  ASSUME NEW type PROVE Fit(Ask(type)) /\ Ask(type).type = type
BY BlankIs, RealAre DEF Fit, Ask, IsEntry, EntryFields

LEMMA InFit ==
  ASSUME NEW N, Fit(N), NEW a, NEW b
  PROVE  /\ Fit(In1(N, a)) /\ Like(N, In1(N, a))
         /\ Fit(In2(N, a, b)) /\ Like(N, In2(N, a, b))
BY DEF Fit, Like, In1, In2, EntryFields

LEMMA LitFit ==
  ASSUME NEW N, Fit(N), NEW z, IsNumber(z), z.im = 0 \/ N.type \in ComplexTypes
  PROVE  Fit(Lit1(N, z)) /\ Like(N, Lit1(N, z))
<1> DEFINE lits == [N.lit EXCEPT ![0] = z]
           Q == [N EXCEPT !.lit = lits]
<1>1. Lit1(N, z) = Q
  BY DEF Lit1
<1>2. /\ DOMAIN lits = Slots /\ \A i \in Slots : IsNumber(lits[i])
      /\ \A i \in Slots : lits[i].im # 0 => N.type \in ComplexTypes
  BY DEF Fit
<1> HIDE DEF lits
<1> QED BY <1>1, <1>2 DEF Fit, Like, EntryFields

LEMMA Lit2Fit ==
  ASSUME NEW N, Fit(N), NEW x, NEW y
  PROVE  Fit(Lit2(N, x, y)) /\ Like(N, Lit2(N, x, y))
<1> DEFINE lits == [N.lit EXCEPT ![0] = Real(x), ![1] = Real(y)]
           Q == [N EXCEPT !.lit = lits]
<1>1. Lit2(N, x, y) = Q
  BY DEF Lit2, Fit, EntryFields
<1>2. /\ DOMAIN lits = Slots /\ \A i \in Slots : IsNumber(lits[i])
      /\ \A i \in Slots : lits[i].im # 0 => N.type \in ComplexTypes
  BY RealAre DEF Fit
<1> HIDE DEF lits
<1> QED BY <1>1, <1>2 DEF Fit, Like, EntryFields

LEMMA WithInFit ==
  ASSUME NEW N, Fit(N), NEW list
  PROVE  Fit(WithIn(N, list)) /\ Like(N, WithIn(N, list))
<1> DEFINE ins == [i \in DOMAIN N.in |-> IF i + 1 \in DOMAIN list THEN list[i + 1] ELSE None]
           Q == [N EXCEPT !.in = ins]
<1>1. WithIn(N, list) = Q
  BY DEF WithIn, Fit, EntryFields
<1>2. DOMAIN ins = DOMAIN N.in
  OBVIOUS
<1> HIDE DEF ins
<1> QED BY <1>1, <1>2 DEF Fit, Like, EntryFields

LEMMA WithLitFit ==
  ASSUME NEW N, Fit(N), N.type \in ComplexTypes, NEW first \in Slots, NEW list,
         Numbers(list)
  PROVE  Fit(WithLit(N, first, list)) /\ Like(N, WithLit(N, first, list))
<1> DEFINE lits == [i \in Slots |-> IF i - first + 1 \in DOMAIN list
                                    THEN list[i - first + 1] ELSE N.lit[i]]
           Q == [N EXCEPT !.lit = lits]
<1>1. WithLit(N, first, list) = Q
  BY DEF WithLit, Fit, EntryFields
<1>2. DOMAIN lits = Slots /\ \A i \in Slots : IsNumber(lits[i])
  BY DEF Fit, Numbers
<1> HIDE DEF lits
<1> QED BY <1>1, <1>2 DEF Fit, Like, EntryFields

LEMMA KeptFit ==
  ASSUME NEW N, Fit(N), NEW slots
  PROVE  Fit(Kept(N, slots)) /\ Like(N, Kept(N, slots))
<1> DEFINE names == [i \in Slots |-> IF i \in slots THEN Keep ELSE N.scalar[i]]
           Q == [N EXCEPT !.scalar = names]
<1>1. Kept(N, slots) = Q
  BY DEF Kept, Fit, EntryFields
<1>2. DOMAIN names = Slots
  OBVIOUS
<1> HIDE DEF names
<1> QED BY <1>1, <1>2 DEF Fit, Like, EntryFields

LEMMA SubFit ==
  ASSUME NEW N, Fit(N), NEW x
  PROVE  /\ Fit([N EXCEPT !.sub = x]) /\ Like(N, [N EXCEPT !.sub = x])
         /\ Fit([N EXCEPT !.text = x]) /\ Like(N, [N EXCEPT !.text = x])
BY DEF Fit, Like, EntryFields

LEMMA MarkFit ==
  ASSUME NEW N, Fit(N), NEW cs \in BOOLEAN
  PROVE  Fit([N EXCEPT !.cs = cs]) /\ Like(N, [N EXCEPT !.cs = cs])
BY DEF Fit, Like, EntryFields

LEMMA RealFit == ASSUME NEW x PROVE IsNumber(Real(x)) /\ Real(x).im = 0
BY RealAre

LEMMA LincomFit ==
  ASSUME NEW n, NEW in, NEW m, NEW b, NEW cs \in BOOLEAN, Numbers(m), Numbers(b)
  PROVE  /\ Fit(Lincom(n, in, m, b, cs))
         /\ Lincom(n, in, m, b, cs).type = "LINCOM"
         /\ Lincom(n, in, m, b, cs).n = n
<1> DEFINE Q == Lincom(n, in, m, b, cs)
           A == WithIn(Ask("LINCOM"), in)
           B == WithLit(A, 0, m)
           C == WithLit(B, GD_MAX_LINCOM, b)
<1>1. Fit(A) /\ A.type = "LINCOM"
  BY AskFit, WithInFit DEF Like
<1> HIDE DEF A
<1>2. Fit(B) /\ B.type = "LINCOM"
  BY <1>1, WithLitFit DEF Like, ComplexTypes, Slots, GD_MAX_POLYORD
<1> HIDE DEF B
<1>3. Fit(C) /\ C.type = "LINCOM"
  BY <1>2, WithLitFit DEF Like, ComplexTypes, Slots, GD_MAX_POLYORD, GD_MAX_LINCOM
<1>4. Q = [C EXCEPT !.n = n, !.cs = cs]
  BY DEF Lincom, A, B
<1> HIDE DEF C, Q
<1>5. Fit(Q) /\ Q.type = C.type /\ Q.n = n
  BY <1>3, <1>4 DEF Fit, EntryFields
<1> QED BY <1>3, <1>5 DEF Q

LEMMA PolynomFit ==
  ASSUME NEW n, NEW in, NEW a, NEW cs \in BOOLEAN, Numbers(a)
  PROVE  /\ Fit(Polynom(n, in, a, cs))
         /\ Polynom(n, in, a, cs).type = "POLYNOM"
         /\ Polynom(n, in, a, cs).n = n
<1> DEFINE Q == Polynom(n, in, a, cs)
           A == In1(Ask("POLYNOM"), in)
           B == WithLit(A, 0, a)
<1>1. Fit(A) /\ A.type = "POLYNOM"
  BY AskFit, InFit DEF Like
<1> HIDE DEF A
<1>2. Fit(B) /\ B.type = "POLYNOM"
  BY <1>1, WithLitFit DEF Like, ComplexTypes, Slots, GD_MAX_POLYORD
<1>3. Q = [B EXCEPT !.n = n, !.cs = cs]
  BY DEF Polynom, A
<1> HIDE DEF B, Q
<1>4. Fit(Q) /\ Q.type = B.type /\ Q.n = n
  BY <1>2, <1>3 DEF Fit, EntryFields
<1> QED BY <1>2, <1>4 DEF Q

LEMMA RecipFit ==
  ASSUME NEW in, NEW z, IsNumber(z), NEW cs \in BOOLEAN
  PROVE  Fit(Recip(in, z, cs)) /\ Recip(in, z, cs).type = "RECIP"
<1> DEFINE A == In1(Ask("RECIP"), in)
           B == Lit1(A, z)
<1>1. Fit(A) /\ A.type = "RECIP"
  BY AskFit, InFit DEF Like
<1> HIDE DEF A
<1>2. Fit(B) /\ B.type = "RECIP"
  BY <1>1, LitFit DEF Like, ComplexTypes
<1>3. Recip(in, z, cs) = [B EXCEPT !.cs = cs]
  BY DEF Recip, A
<1> HIDE DEF B
<1> QED BY <1>2, <1>3, MarkFit DEF Like

LEMMA InputsFit ==
  ASSUME NEW type, NEW x, NEW y
  PROVE  Fit(In2(Ask(type), x, y)) /\ In2(Ask(type), x, y).type = type
BY AskFit, InFit DEF Like

LEMMA LinterpFit ==
  ASSUME NEW x, NEW y PROVE Fit(Linterp(x, y)) /\ Linterp(x, y).type = "LINTERP"
<1>1. Fit(In1(Ask("LINTERP"), x)) /\ In1(Ask("LINTERP"), x).type = "LINTERP"
  BY AskFit, InFit DEF Like
<1> QED BY <1>1, SubFit DEF Like, Linterp

LEMMA BitFit ==
  ASSUME NEW type, NEW x, NEW y, NEW z
  PROVE  Fit(Bit(type, x, y, z)) /\ Bit(type, x, y, z).type = type
<1>1. Fit(In1(Ask(type), x)) /\ In1(Ask(type), x).type = type
  BY AskFit, InFit DEF Like
<1> QED BY <1>1, Lit2Fit DEF Like, Bit

LEMMA ShiftFit ==
  ASSUME NEW type, NEW x, NEW y
  PROVE  /\ Fit(Lit1(In1(Ask(type), x), Real(y)))
         /\ Lit1(In1(Ask(type), x), Real(y)).type = type
<1>1. Fit(In1(Ask(type), x)) /\ In1(Ask(type), x).type = type
  BY AskFit, InFit DEF Like
<1> QED BY <1>1, RealFit, LitFit DEF Like

LEMMA WindowFit ==
  ASSUME NEW x, NEW y, NEW z, NEW t
  PROVE  Fit(Window(x, y, z, t)) /\ Window(x, y, z, t).type = "WINDOW"
<1> DEFINE A == In2(Ask("WINDOW"), x, y)
           B == Lit1(A, Real(t))
<1>1. Fit(A) /\ A.type = "WINDOW"
  BY AskFit, InFit DEF Like
<1> HIDE DEF A
<1>2. Fit(B) /\ B.type = "WINDOW"
  BY <1>1, RealFit, LitFit DEF Like
<1>3. Window(x, y, z, t) = [B EXCEPT !.sub = z]
  BY DEF Window, A
<1> HIDE DEF B
<1>4. Fit([B EXCEPT !.sub = z]) /\ Like(B, [B EXCEPT !.sub = z])
  BY <1>2, SubFit
<1> QED BY <1>2, <1>3, <1>4 DEF Like

LEMMA MplexFit ==
  ASSUME NEW x, NEW y, NEW z, NEW t
  PROVE  Fit(Mplex(x, y, z, t)) /\ Mplex(x, y, z, t).type = "MPLEX"
<1>1. Fit(In2(Ask("MPLEX"), x, y)) /\ In2(Ask("MPLEX"), x, y).type = "MPLEX"
  BY AskFit, InFit DEF Like
<1> QED BY <1>1, Lit2Fit DEF Like, Mplex

LEMMA ScalarFit ==
  ASSUME NEW type, NEW x, NEW y
  PROVE  Fit(Scalar(type, x, y)) /\ Scalar(type, x, y).type = type
<1> DEFINE A == Ask(type)
           Q == Scalar(type, x, y)
<1>1. Fit(A) /\ A.type = type
  BY AskFit
<1>2. Q = [A EXCEPT !.sub = x, !.n = y]
  BY DEF Scalar
<1> HIDE DEF A, Q
<1>3. Fit(Q) /\ Q.type = A.type
  BY <1>1, <1>2 DEF Fit, EntryFields
<1> QED BY <1>1, <1>3 DEF Q

RawOf(x, y) == [Lit1(Ask("RAW"), Real(x)) EXCEPT !.sub = y]
LEMMA RawFit ==
  ASSUME NEW x, NEW y PROVE Fit(RawOf(x, y)) /\ RawOf(x, y).type = "RAW"
<1> DEFINE B == Lit1(Ask("RAW"), Real(x))
<1>1. Fit(B) /\ B.type = "RAW"
  BY AskFit, RealFit, LitFit DEF Like
<1> HIDE DEF B
<1> QED BY <1>1, SubFit DEF Like, B, RawOf

LEMMA GivenFit == ASSUME NEW N, IsGiven(N) PROVE Fit(N)
BY DEF IsGiven, Fit, Blank, EntryFields
-----------------------------------------------------------------------------
(* Adding a field.                                                            *)
LEMMA AddFitStep ==
  ASSUME IInv, NEW N, Fit(N), NEW values, NEW meta \in BOOLEAN,
         AddWith(N, values, meta)
  PROVE  IInv'
BY FitWhole, AddStep

LEMMA AddIfStep ==
  ASSUME IInv, NEW ok, NEW N, Fit(N), NEW meta \in BOOLEAN, AddIf(ok, N, meta)
  PROVE  IInv'
BY AddFitStep, RefuseStep DEF AddIf, Add

LEMMA AddCalls ==
  ASSUME IInv, NEW meta \in BOOLEAN
  PROVE  /\ \A N \in Args.entry : Add(N, meta) => IInv'
         /\ \A a \in Args.lincom, cs \in BOOLEAN :
              AddIf(a[1] \in 1..GD_MAX_LINCOM, Lincom(a[1], a[2], a[3], a[4], cs), meta)
              => IInv'
         /\ \A max : \A a \in Args.polynom, cs \in BOOLEAN :
              AddIf(a[1] \in 1..max, Polynom(a[1], a[2], a[3], cs), meta) => IInv'
         /\ \A a \in Args.recip, cs \in BOOLEAN :
              Add(Recip(a[1], a[2], cs), meta) => IInv'
         /\ \A x, y : Add(RawOf(x, y), meta) => IInv'
         /\ \A x, y : Add(Linterp(x, y), meta) => IInv'
         /\ \A type, x, y, z : Add(Bit(type, x, y, z), meta) => IInv'
         /\ \A type, x, y : Add(In2(Ask(type), x, y), meta) => IInv'
         /\ \A type, x, y : Add(Lit1(In1(Ask(type), x), Real(y)), meta) => IInv'
         /\ \A x, y, z, t : Add(Window(x, y, z, t), meta) => IInv'
         /\ \A x, y, z, t : Add(Mplex(x, y, z, t), meta) => IInv'
         /\ \A type, values : AddWith(Ask(type), values, meta) => IInv'
         /\ \A type, x, n, values : AddWith(Scalar(type, x, n), values, meta) => IInv'
<1>1. ASSUME NEW N \in Args.entry, Add(N, meta) PROVE IInv'
  BY <1>1, AddFitStep, GivenFit, FieldSpecAssumption DEF Add
<1>2. ASSUME NEW a \in Args.lincom, NEW cs \in BOOLEAN,
             AddIf(a[1] \in 1..GD_MAX_LINCOM, Lincom(a[1], a[2], a[3], a[4], cs), meta)
      PROVE  IInv'
  <2>1. Numbers(a[3]) /\ Numbers(a[4])
    BY FieldSpecAssumption
  <2>2. Fit(Lincom(a[1], a[2], a[3], a[4], cs))
    BY <2>1, LincomFit
  <2> QED BY <1>2, <2>2, AddIfStep
<1>3. ASSUME NEW a \in Args.polynom, NEW cs \in BOOLEAN, NEW max,
             AddIf(a[1] \in 1..max, Polynom(a[1], a[2], a[3], cs), meta)
      PROVE  IInv'
  <2>1. Numbers(a[3])
    BY FieldSpecAssumption
  <2>2. Fit(Polynom(a[1], a[2], a[3], cs))
    BY <2>1, PolynomFit
  <2> QED BY <1>3, <2>2, AddIfStep
<1>4. ASSUME NEW a \in Args.recip, NEW cs \in BOOLEAN,
             Add(Recip(a[1], a[2], cs), meta)
      PROVE  IInv'
  BY <1>4, AddFitStep, RecipFit, FieldSpecAssumption DEF Add
<1>5. ASSUME NEW x, NEW y, Add(RawOf(x, y), meta) PROVE IInv'
  BY <1>5, AddFitStep, RawFit DEF Add
<1>6. ASSUME NEW x, NEW y, Add(Linterp(x, y), meta) PROVE IInv'
  BY <1>6, AddFitStep, LinterpFit DEF Add
<1>7. ASSUME NEW type, NEW x, NEW y, NEW z, Add(Bit(type, x, y, z), meta)
      PROVE  IInv'
  BY <1>7, AddFitStep, BitFit DEF Add
<1>8. ASSUME NEW type, NEW x, NEW y, Add(In2(Ask(type), x, y), meta)
      PROVE  IInv'
  BY <1>8, AddFitStep, InputsFit DEF Add
<1>9. ASSUME NEW type, NEW x, NEW y, Add(Lit1(In1(Ask(type), x), Real(y)), meta)
      PROVE  IInv'
  BY <1>9, AddFitStep, ShiftFit DEF Add
<1>10. ASSUME NEW x, NEW y, NEW z, NEW t, Add(Window(x, y, z, t), meta)
       PROVE  IInv'
  BY <1>10, AddFitStep, WindowFit DEF Add
<1>11. ASSUME NEW x, NEW y, NEW z, NEW t, Add(Mplex(x, y, z, t), meta)
       PROVE  IInv'
  BY <1>11, AddFitStep, MplexFit DEF Add
<1>12. ASSUME NEW type, NEW values, AddWith(Ask(type), values, meta) PROVE IInv'
  BY <1>12, AddFitStep, AskFit
<1>13. ASSUME NEW type, NEW x, NEW n, NEW values,
              AddWith(Scalar(type, x, n), values, meta)
       PROVE  IInv'
  BY <1>13, AddFitStep, ScalarFit
<1> QED BY <1>1, <1>2, <1>3, <1>4, <1>5, <1>6, <1>7, <1>8, <1>9, <1>10, <1>11,
           <1>12, <1>13

LEMMA AddingStep == ASSUME IInv, Adding PROVE IInv'
<1>1. ASSUME NEW a \in Args.raw, gd_add_raw(a[1], a[2]) PROVE IInv'
  <2>1. Add(RawOf(a[2], a[1]), FALSE)
    BY <1>1 DEF gd_add_raw, RawOf
  <2> QED BY <2>1, AddCalls
<1>2. ASSUME NEW line \in Args.line, gd_add_spec(line) PROVE IInv'
  BY <1>2, AddSpecStep DEF gd_add_spec
<1>3. /\ \A N \in Args.entry : gd_add(N) => IInv'
      /\ \A a \in Args.lincom : gd_add_lincom(a[1], a[2], a[3], a[4]) => IInv'
      /\ \A a \in Args.lincom : gd_add_clincom(a[1], a[2], a[3], a[4]) => IInv'
      /\ \A a \in Args.polynom : gd_add_polynom(a[1], a[2], a[3]) => IInv'
      /\ \A a \in Args.polynom : gd_add_cpolynom(a[1], a[2], a[3]) => IInv'
      /\ \A a \in Args.recip : gd_add_recip(a[1], a[2]) => IInv'
      /\ \A a \in Args.recip : gd_add_crecip(a[1], a[2]) => IInv'
      /\ \A a \in Args.recip : gd_add_crecip89(a[1], a[2]) => IInv'
  BY AddCalls DEF gd_add, gd_add_lincom, gd_add_clincom, gd_add_polynom,
                  gd_add_cpolynom, gd_add_recip, gd_add_crecip, gd_add_crecip89
<1>4. /\ \A a : gd_add_linterp(a[1], a[2]) => IInv'
      /\ \A a : gd_add_bit(a[1], a[2], a[3]) => IInv'
      /\ \A a : gd_add_sbit(a[1], a[2], a[3]) => IInv'
      /\ \A a : gd_add_multiply(a[1], a[2]) => IInv'
      /\ \A a : gd_add_divide(a[1], a[2]) => IInv'
      /\ \A a : gd_add_phase(a[1], a[2]) => IInv'
      /\ \A a : gd_add_window(a[1], a[2], a[3], a[4]) => IInv'
      /\ \A a : gd_add_mplex(a[1], a[2], a[3], a[4]) => IInv'
      /\ \A a : gd_add_string(a) => IInv'
      /\ \A a : gd_add_const(a[1], a[2]) => IInv'
      /\ \A a : gd_add_carray(a[1], a[2]) => IInv'
  BY AddCalls DEF gd_add_linterp, gd_add_bit, gd_add_sbit, gd_add_multiply,
                  gd_add_divide, gd_add_phase, gd_add_window, gd_add_mplex,
                  gd_add_string, gd_add_const, gd_add_carray
<1> QED BY <1>1, <1>2, <1>3, <1>4 DEF Adding

LEMMA AddingMetaStep == ASSUME IInv, AddingMeta PROVE IInv'
<1>1. ASSUME NEW line \in Args.line, gd_madd_spec(line) PROVE IInv'
  BY <1>1, AddSpecStep DEF gd_madd_spec
<1>2. /\ \A N \in Args.entry : gd_madd(N) => IInv'
      /\ \A a \in Args.lincom : gd_madd_lincom(a[1], a[2], a[3], a[4]) => IInv'
      /\ \A a \in Args.lincom : gd_madd_clincom(a[1], a[2], a[3], a[4]) => IInv'
      /\ \A a \in Args.polynom : gd_madd_polynom(a[1], a[2], a[3]) => IInv'
      /\ \A a \in Args.polynom : gd_madd_cpolynom(a[1], a[2], a[3]) => IInv'
      /\ \A a \in Args.recip : gd_madd_recip(a[1], a[2]) => IInv'
      /\ \A a \in Args.recip : gd_madd_crecip(a[1], a[2]) => IInv'
      /\ \A a \in Args.recip : gd_madd_crecip89(a[1], a[2]) => IInv'
  BY AddCalls DEF gd_madd, gd_madd_lincom, gd_madd_clincom, gd_madd_polynom,
                  gd_madd_cpolynom, gd_madd_recip, gd_madd_crecip,
                  gd_madd_crecip89
<1>3. /\ \A a : gd_madd_linterp(a[1], a[2]) => IInv'
      /\ \A a : gd_madd_bit(a[1], a[2], a[3]) => IInv'
      /\ \A a : gd_madd_sbit(a[1], a[2], a[3]) => IInv'
      /\ \A a : gd_madd_multiply(a[1], a[2]) => IInv'
      /\ \A a : gd_madd_divide(a[1], a[2]) => IInv'
      /\ \A a : gd_madd_phase(a[1], a[2]) => IInv'
      /\ \A a : gd_madd_window(a[1], a[2], a[3], a[4]) => IInv'
      /\ \A a : gd_madd_mplex(a[1], a[2], a[3], a[4]) => IInv'
      /\ \A a : gd_madd_string(a) => IInv'
      /\ \A a : gd_madd_const(a[1], a[2]) => IInv'
      /\ \A a : gd_madd_carray(a[1], a[2]) => IInv'
  BY AddCalls DEF gd_madd_linterp, gd_madd_bit, gd_madd_sbit, gd_madd_multiply,
                  gd_madd_divide, gd_madd_phase, gd_madd_window, gd_madd_mplex,
                  gd_madd_string, gd_madd_const, gd_madd_carray
<1> QED BY <1>1, <1>2, <1>3 DEF AddingMeta
-----------------------------------------------------------------------------
(* Altering a field.                                                          *)
SameTables(d) ==
  Good(d) /\ Alike(D, d) /\ d.file = D.file /\ d.tables = D.tables
LEMMA SameTablesHold ==
  ASSUME IInv PROVE SameTables(D) /\ SameTables(Clear(D)) /\ SameTables(Known(Clear(D)))
<1>1. SameTables(D)
  BY DEF IInv, SameTables, Alike
<1>2. SameTables(Clear(D))
  <2>1. Clear(D).file = D.file /\ Clear(D).tables = D.tables
    BY DEF IInv, Good, IsDir, DirFields, Clear
  <2> QED BY <2>1, MarksGood DEF IInv, SameTables
<1> DEFINE c == Clear(D)
<1> HIDE DEF c
<1>3. Good(Known(c)) /\ Alike(c, Known(c))
  BY <1>2, MarksGood DEF SameTables, c
<1>4. Known(c).file = c.file /\ Known(c).tables = c.tables
  BY <1>2 DEF Known, SameTables, Good, IsDir, DirFields, c
<1>5. SameTables(Known(c))
  BY <1>2, <1>3, <1>4 DEF SameTables, Alike, c
<1> QED BY <1>1, <1>2, <1>5 DEF c

Countable(N) ==
  /\ N.type = "LINCOM" => N.n \in Nat
  /\ N.type = "POLYNOM" => N.n \in 0..GD_MAX_POLYORD
LEMMA AlterFitStep ==
  ASSUME IInv, NEW d, SameTables(d), NEW N, Fit(N), Countable(N), NEW flags,
         NEW meant, AlterAs(d, N, flags, meant)
  PROVE  IInv'
<1>1. IsAsk(N)
  BY FitAsk DEF Countable
<1> QED BY <1>1, AlterStep DEF SameTables

LEMMA AlterNowStep ==
  ASSUME IInv, NEW N, Fit(N), Countable(N), NEW flags,
         Alter(D, N, flags) \/ Alter(Clear(D), N, flags)
  PROVE  IInv'
BY SameTablesHold, AlterFitStep DEF Alter

LEMMA AlterKeptStep ==
  ASSUME IInv, NEW N, Fit(N), Countable(N), NEW slots, NEW flags,
         \/ Alter(D, Kept(N, slots), flags)
         \/ Alter(Clear(D), Kept(N, slots), flags)
  PROVE  IInv'
<1>1. Fit(Kept(N, slots)) /\ Countable(Kept(N, slots))
  BY KeptFit DEF Countable, Like
<1> QED BY <1>1, AlterNowStep

LEMMA AlterLincomStep ==
  ASSUME IInv, NEW a \in Args.alter_lincom, NEW cs \in BOOLEAN,
         AlterLincom(a[1], a[2], a[3], a[4], cs)
  PROVE  IInv'
<1> DEFINE N == Lincom(Count(a[1]), a[2], a[3], a[4], cs)
<1>1. a[1] \in Nat /\ Numbers(a[3]) /\ Numbers(a[4])
  BY FieldSpecAssumption
<1>2. Fit(N) /\ N.type = "LINCOM" /\ N.n = Count(a[1])
  BY <1>1, LincomFit
<1>3. Count(a[1]) \in Nat
  BY <1>1 DEF AlterLincom, MayCount, Count, IInv, Good, IsDir, IsEntry, GD_MAX_LINCOM
<1>4. Countable(N)
  BY <1>2, <1>3 DEF Countable
<1> HIDE DEF N
<1>5. PICK slots, flags : AlterIf(a[1] \in 0..GD_MAX_LINCOM, Kept(N, slots), flags)
  BY DEF AlterLincom, N
<1> QED BY <1>2, <1>4, <1>5, AlterKeptStep, RefuseStep DEF AlterIf

LEMMA AlterPolynomStep ==
  ASSUME IInv, NEW a \in Args.alter_polynom, NEW cs \in BOOLEAN,
         AlterPolynom(a[1], a[2], a[3], cs)
  PROVE  IInv'
<1> DEFINE N == Polynom(Count(a[1]), a[2], a[3], cs)
<1>1. a[1] \in Nat /\ Numbers(a[3])
  BY FieldSpecAssumption
<1>2. Fit(N) /\ N.type = "POLYNOM" /\ N.n = Count(a[1])
  BY <1>1, PolynomFit
<1>3. a[1] \in 0..GD_MAX_POLYORD => Count(a[1]) \in 0..GD_MAX_POLYORD
  BY <1>1 DEF AlterPolynom, MayCount, Count, IInv, Good, IsDir, IsEntry
<1>4. a[1] \in 0..GD_MAX_POLYORD => Countable(N)
  BY <1>2, <1>3 DEF Countable
<1> HIDE DEF N
<1>5. PICK slots, flags : AlterIf(a[1] \in 0..GD_MAX_POLYORD, Kept(N, slots), flags)
  BY DEF AlterPolynom, N
<1> QED BY <1>2, <1>4, <1>5, AlterKeptStep, RefuseStep DEF AlterIf

LEMMA AlterParsedStep ==
  ASSUME IInv, NEW d, SameTables(d), NEW S, Made(S.E), NEW recode,
         AlterParsed(d, S, recode)
  PROVE  IInv'
<1>1. CASE S.error
  <2>1. Good(Failed(d)) /\ Failed(d).room = D.room
    BY MarksGood DEF SameTables, Alike
  <2>2. MayCall /\ D' = Spend(Failed(d)) /\ disk' = disk
    BY <1>1 DEF AlterParsed
  <2> QED BY <2>1, <2>2, SpendGood DEF IInv
<1>2. CASE ~S.error
  <2>1. IsAsk(S.E)
    BY DEF Made, IsEntry, IsAsk, GD_MAX_LINCOM
  <2> QED BY <1>2, <2>1, AlterStep DEF AlterParsed, SameTables
<1> QED BY <1>1, <1>2

LEMMA AlterSpecStep ==
  ASSUME IInv, NEW line, NEW recode, AlterSpec(line, recode)
  PROVE  IInv'
<1> DEFINE d == Known(Clear(D))
           S == Parsed(line, IF d.av # {} THEN d.standards ELSE LatestVersion, D.meta)
<1>1. Made(S.E)
  BY SpecMade
<1>2. AlterParsed(d, S, recode)
  BY DEF AlterSpec
<1>3. SameTables(d)
  BY SameTablesHold
<1> QED BY <1>1, <1>2, <1>3, AlterParsedStep

LEMMA AlteringStep == ASSUME IInv, Altering PROVE IInv'
<1>1. ASSUME NEW N \in Args.altered, NEW move \in BOOLEAN, gd_alter_entry(N, move)
      PROVE  IInv'
  <2>1. IsGiven(N) /\ (N.type = "POLYNOM" => N.n <= GD_MAX_POLYORD)
    BY FieldSpecAssumption
  <2>2. Countable(N)
    BY <2>1 DEF IsGiven, Countable, GD_MAX_POLYORD
  <2> QED BY <1>1, <2>1, <2>2, GivenFit, AlterNowStep DEF gd_alter_entry
<1>2. ASSUME NEW a \in Args.alter_raw, NEW move \in BOOLEAN,
             gd_alter_raw(a[1], a[2], move)
      PROVE  IInv'
  BY <1>2, RawFit, AlterKeptStep DEF gd_alter_raw, RawOf, Countable
<1>3. /\ \A a \in Args.alter_lincom : gd_alter_lincom(a[1], a[2], a[3], a[4]) => IInv'
      /\ \A a \in Args.alter_lincom : gd_alter_clincom(a[1], a[2], a[3], a[4]) => IInv'
  BY AlterLincomStep DEF gd_alter_lincom, gd_alter_clincom
<1>4. /\ \A a \in Args.alter_polynom : gd_alter_polynom(a[1], a[2], a[3]) => IInv'
      /\ \A a \in Args.alter_polynom : gd_alter_cpolynom(a[1], a[2], a[3]) => IInv'
  BY AlterPolynomStep DEF gd_alter_polynom, gd_alter_cpolynom
<1>5. ASSUME NEW a \in Args.alter_recip, NEW cs \in BOOLEAN,
             AlterRecip(a[1], a[2], cs)
      PROVE  IInv'
  BY <1>5, RecipFit, AlterKeptStep, FieldSpecAssumption DEF AlterRecip, Countable
<1>6. \A a \in Args.alter_recip :
        /\ gd_alter_recip(a[1], a[2]) => IInv'
        /\ gd_alter_crecip(a[1], a[2]) => IInv'
        /\ gd_alter_crecip89(a[1], a[2]) => IInv'
  BY <1>5 DEF gd_alter_recip, gd_alter_crecip, gd_alter_crecip89
<1>7. ASSUME NEW x, NEW y, NEW z,
             AlterBit("BIT", x, y, z) \/ AlterBit("SBIT", x, y, z)
      PROVE  IInv'
  BY <1>7, BitFit, AlterKeptStep DEF AlterBit, Countable
<1>8. \A a : /\ gd_alter_bit(a[1], a[2], a[3]) => IInv'
             /\ gd_alter_sbit(a[1], a[2], a[3]) => IInv'
  BY <1>7 DEF gd_alter_bit, gd_alter_sbit
<1>9. \A a, move : gd_alter_linterp(a[1], a[2], move) => IInv'
  BY LinterpFit, AlterNowStep DEF gd_alter_linterp, Countable
<1>10. \A a : /\ gd_alter_divide(a[1], a[2]) => IInv'
              /\ gd_alter_multiply(a[1], a[2]) => IInv'
  BY InputsFit, AlterNowStep DEF gd_alter_divide, gd_alter_multiply, Countable
<1>11. \A a : gd_alter_phase(a[1], a[2]) => IInv'
  BY ShiftFit, AlterNowStep DEF gd_alter_phase, Countable
<1>12. /\ \A type : gd_alter_const(type) => IInv'
       /\ \A a : gd_alter_carray(a[1], a[2]) => IInv'
  BY ScalarFit, AlterNowStep DEF gd_alter_const, gd_alter_carray, Countable
<1>13. \A a : gd_alter_window(a[1], a[2], a[3], a[4]) => IInv'
  BY WindowFit, AlterNowStep DEF gd_alter_window, Countable
<1>14. \A a : gd_alter_mplex(a[1], a[2], a[3], a[4]) => IInv'
  BY MplexFit, AlterNowStep DEF gd_alter_mplex, Countable
<1>15. \A line, recode : /\ gd_alter_spec(line, recode) => IInv'
                         /\ gd_malter_spec(line, recode) => IInv'
  BY AlterSpecStep DEF gd_alter_spec, gd_malter_spec
<1> QED BY <1>1, <1>2, <1>3, <1>4, <1>6, <1>8, <1>9, <1>10, <1>11, <1>12, <1>13,
           <1>14, <1>15 DEF Altering
-----------------------------------------------------------------------------
(* The other calls.                                                           *)
LEMMA EntryStep == ASSUME IInv, gd_entry PROVE IInv'
<1>1. MayCall /\ D' = Spend(gd_entry_(D)) /\ disk' = disk
  BY DEF gd_entry, Quietly
<1>2. CASE D.E.calc
  <2>1. gd_entry_(D) = Clear(D)
    BY <1>2 DEF gd_entry_, Clear
  <2>2. Good(Clear(D)) /\ Clear(D).room = D.room
    BY MarksGood DEF IInv, Alike
  <2> QED BY <1>1, <2>1, <2>2, SpendGood DEF IInv
<1>3. CASE ~D.E.calc
  <2>1. gd_entry_(D) = CalculateEntry(D)
    BY <1>3 DEF gd_entry_
  <2>2. D.consts \in Consts
    BY DEF IInv, Good
  <2>3. \A c \in DOMAIN D.consts : IsNumber(D.consts[c])
    BY <2>2, FieldSpecAssumption
  <2>4. CalculateEntry(D).error => ~D.E.cs
    BY DEF gd_entry
  <2>5. Good(CalculateEntry(D)) /\ CalculateEntry(D).room = D.room
    BY <2>3, <2>4, CalculateGood DEF IInv
  <2> QED BY <1>1, <2>1, <2>5, SpendGood DEF IInv
<1> QED BY <1>2, <1>3

LEMMA SetHiddenStep == ASSUME IInv, NEW hidden, SetHidden(hidden) PROVE IInv'
<1> DEFINE c == Clear(D)
           d == [c EXCEPT !.E.hidden = hidden, !.dirty = @ \/ D.E.hidden # hidden]
<1>1. MayCall /\ ~D.have /\ D' = Spend(d) /\ disk' = disk
  BY DEF SetHidden
<1>2. Good(c) /\ Alike(D, c) /\ c.have = FALSE
  BY <1>1, MarksGood DEF IInv, Good, IsDir
<1> HIDE DEF c
<1> DEFINE E == [c.E EXCEPT !.hidden = hidden]
           dirty == c.dirty \/ D.E.hidden # hidden
<1>3. dirty \in BOOLEAN
  OBVIOUS
<1>4. d = [c EXCEPT !.E = E, !.dirty = dirty]
  BY <1>2 DEF Good, IsDir, DirFields
<1>5. /\ DOMAIN E = EntryFields /\ E.type = c.E.type /\ E.n = c.E.n
      /\ E.in = c.E.in /\ E.lit = c.E.lit /\ E.scalar = c.E.scalar
      /\ E.cs = c.E.cs /\ E.calc = c.E.calc
  BY <1>2 DEF Good, IsDir, IsEntry, EntryFields
<1> HIDE DEF E, dirty, d
<1>6. /\ DOMAIN d = DirFields /\ d.E = E /\ d.meta = c.meta
      /\ d.consts = c.consts /\ d.room = c.room /\ d.standards = c.standards
      /\ d.av = c.av /\ d.dirty = dirty /\ d.error = c.error
      /\ d.have = c.have
  BY <1>2, <1>4 DEF Good, IsDir, DirFields
<1>7. IsEntry(E)
  BY <1>2, <1>5 DEF Good, IsDir, IsEntry
<1>8. Right(E, c.consts)
  <2>1. Params(E) = Params(c.E)
    BY <1>5, ShapeIs
  <2> QED BY <1>2, <1>5, <2>1 DEF Good, Right, Fetches
<1>9. Good(d) /\ d.room = D.room
  BY <1>2, <1>3, <1>6, <1>7, <1>8 DEF Good, IsDir, Cached, Alike
<1> QED BY <1>1, <1>9, SpendGood DEF IInv

LEMMA StandardsStep ==
  ASSUME IInv, NEW vers, gd_dirfile_standards(vers) PROVE IInv'
<1> DEFINE d == Known(Clear(D))
           v == CASE vers = GD_VERSION_CURRENT -> d.standards
                  [] vers = GD_VERSION_LATEST -> Newest(d.av)
                  [] vers = GD_VERSION_EARLIEST -> Oldest(d.av)
                  [] OTHER -> vers
           e == [d EXCEPT !.standards = v]
<1>1. /\ MayCall /\ disk' = disk
      /\ D' = Spend(IF v \in d.av THEN e ELSE Failed(d))
  BY DEF gd_dirfile_standards, Quietly
<1>2. Good(d) /\ d.room = D.room
  BY SameTablesHold DEF SameTables, Alike
<1> HIDE DEF d, v
<1>3. CASE v \in d.av
  <2>1. /\ DOMAIN e = DirFields /\ e.E = d.E /\ e.meta = d.meta
        /\ e.consts = d.consts /\ e.room = d.room /\ e.standards = v
        /\ e.av = d.av /\ e.dirty = d.dirty /\ e.error = d.error
        /\ e.have = d.have
    BY <1>2 DEF Good, IsDir, DirFields
  <2>2. D' = Spend(e)
    BY <1>1, <1>3
  <2> HIDE DEF e
  <2>3. FindVersion(e) = FindVersion(d)
    BY <2>1 DEF FindVersion
  <2>4. Good(e) /\ e.room = D.room
    BY <1>2, <1>3, <2>1, <2>3 DEF Good, IsDir, Cached
  <2> QED BY <1>1, <2>2, <2>4, SpendGood DEF IInv
<1>4. CASE v \notin d.av
  <2>1. Good(Failed(d)) /\ Failed(d).room = D.room
    BY <1>2, MarksGood DEF Alike
  <2>2. D' = Spend(Failed(d))
    BY <1>1, <1>4
  <2> QED BY <1>1, <2>1, <2>2, SpendGood DEF IInv
<1> QED BY <1>3, <1>4

LEMMA FlushStep == ASSUME IInv, gd_metaflush PROVE IInv'
<1>1. /\ MayCall /\ D' = Spend(Clean(Clear(D))) /\ disk' = FlushFragment(D)
  BY DEF gd_metaflush
<1>2. disk'.version \in Versions
  BY <1>1 DEF FlushFragment, IInv, Good
<1> DEFINE c == Clear(D)
<1>3. Good(c) /\ c.room = D.room
  BY MarksGood DEF IInv, Alike
<1>4. D' = Spend(Clean(c))
  BY <1>1
<1> HIDE DEF c
<1>5. Good(Clean(c)) /\ Clean(c).room = D.room
  BY <1>3, MarksGood DEF Alike
<1> QED BY <1>1, <1>2, <1>4, <1>5, SpendGood DEF IInv

LEMMA ReopenStep == ASSUME IInv, Reopen PROVE IInv'
<1>1. /\ MayCall /\ disk' = (IF D.dirty THEN FlushFragment(D) ELSE disk)
      /\ D' = Spend(Opened(disk'))
  BY DEF Reopen
<1> DEFINE file == IF D.dirty THEN FlushFragment(D) ELSE disk
<1>2. file.version \in Versions
  BY DEF FlushFragment, IInv, Good
<1>3. disk' = file /\ D' = Spend(Opened(file))
  BY <1>1
<1> HIDE DEF file
<1>4. Good(Opened(file)) /\ Opened(file).room = D.room
  BY <1>2, OpenedGood DEF IInv
<1> QED BY <1>1, <1>2, <1>3, <1>4, SpendGood DEF IInv

LEMMA ProduceStep == ASSUME IInv, Produce PROVE IInv'
<1> DEFINE d == [D EXCEPT !.file = Samples]
<1>1. MayCall /\ D' = Spend(d) /\ disk' = disk
  BY DEF Produce
<1>2. DOMAIN d = DirFields /\ Alike(D, d) /\ d.standards = D.standards
      /\ d.av = D.av /\ d.dirty = D.dirty /\ d.error = D.error /\ d.have = D.have
  BY DEF IInv, Good, IsDir, DirFields, Alike
<1> HIDE DEF d
<1>3. Good(d) /\ d.room = D.room
  BY <1>2, AlikeVersions DEF IInv, Good, IsDir, Cached, Alike
<1> QED BY <1>1, <1>3, SpendGood DEF IInv
-----------------------------------------------------------------------------
LEMMA InitIInv == Init => IInv
<1> SUFFICES ASSUME Init PROVE IInv
  OBVIOUS
<1>1. PICK consts \in Consts :
        D = [E |-> Blank, meta |-> FALSE, consts |-> consts,
             standards |-> LatestVersion, av |-> {}, have |-> FALSE,
             dirty |-> FALSE, error |-> FALSE, room |-> Calls, file |-> <<>>,
             tables |-> Tables]
  BY DEF Init
<1>2. /\ DOMAIN D = DirFields /\ D.E = Blank /\ D.meta = FALSE
      /\ D.consts \in Consts /\ D.standards = LatestVersion /\ D.av = {}
      /\ D.have = FALSE /\ D.dirty = FALSE /\ D.error = FALSE
      /\ D.room = Calls
  BY <1>1 DEF DirFields
<1>3. IsEntry(D.E) /\ Right(D.E, D.consts)
  <2>1. Params(Blank) = {}
    BY BlankIs, ParamsAre
  <2> QED BY <1>2, <2>1, BlankIs DEF Right
<1>4. Good(D)
  <2>1. D.standards \in Versions /\ D.av \subseteq Versions
    BY <1>2 DEF LatestVersion, Versions
  <2>2. Cached(D)
    BY <1>2 DEF Cached
  <2>3. IsDir(D) /\ D.meta \in BOOLEAN
    BY <1>2, <1>3 DEF IsDir
  <2> QED BY <1>2, <1>3, <2>1, <2>2, <2>3 DEF Good
<1>5. D.room \in 0..Calls
  BY <1>2, FieldSpecAssumption
<1>6. disk.version \in Versions
  BY <1>2 DEF Init, FlushFragment, LatestVersion, Versions
<1> QED BY <1>4, <1>5, <1>6 DEF IInv

LEMMA NextIInv == IInv /\ [Next]_vars => IInv'
<1> SUFFICES ASSUME IInv, [Next]_vars PROVE IInv'
  OBVIOUS
<1>1. CASE UNCHANGED vars
  BY <1>1 DEF vars, IInv
<1>2. ASSUME NEW vers \in Args.versions, gd_dirfile_standards(vers) PROVE IInv'
  BY <1>2, StandardsStep
<1>3. gd_hide => IInv'
  BY SetHiddenStep DEF gd_hide
<1>4. gd_unhide => IInv'
  BY SetHiddenStep DEF gd_unhide
<1> QED BY <1>1, <1>2, <1>3, <1>4, AddingStep, AddingMetaStep, AlteringStep,
           EntryStep, FlushStep, ReopenStep, ProduceStep DEF Next

(* Whatever calls are made of the library and in whatever order, it keeps a   *)
(* well-formed entry whose numbers and marks go together, and remembers the   *)
(* versions of the Standards as they are (IInv).                              *)
THEOREM Invariance == Spec => []IInv
BY InitIInv, NextIInv, PTL DEF Spec

(* The number of fields of a LINCOM and the order of a POLYNOM stay within    *)
(* what the arrays of an entry hold, whatever numbers the callers of gd_add*  *)
(* and gd_alter* give, and whatever the format file says.                     *)
THEOREM TypeCorrect == Spec => []TypeOK
<1>1. IInv => TypeOK
  <2> SUFFICES ASSUME IInv PROVE TypeOK
    OBVIOUS
  <2>1. DOMAIN Blank = EntryFields
    BY BlankIs DEF IsEntry
  <2> QED BY <2>1 DEF IInv, Good, IsDir, IsEntry, TypeOK
<1> QED BY <1>1, Invariance, PTL

(* The versions that are remembered between calls are those the dirfile       *)
(* conforms to: every call that changes a definition drops them or changes    *)
(* nothing they depend on (D->av and GD_HAVE_VERSION).                        *)
THEOREM VersionCachedHolds == Spec => []VersionCached
<1>1. IInv => VersionCached
  BY DEF IInv, Good, Cached, VersionCached
<1> QED BY <1>1, Invariance, PTL

(* When an entry is marked calculated (GD_EN_CALC) its numbers are those of   *)
(* the scalars it names, and when one of its numbers is not real it is marked *)
(* complex (GD_EN_COMPSCAL), after any sequence of additions, alterations,    *)
(* fetches and reopenings.                                                    *)
THEOREM CalculatedRightHolds == Spec => []CalculatedRight
<1>1. IInv => CalculatedRight
  <2> SUFFICES ASSUME IInv PROVE CalculatedRight
    OBVIOUS
  <2>1. Right(D.E, D.consts)
    BY DEF IInv, Good
  <2> QED BY <2>1 DEF Right, Fetches, Fetched, CalculatedRight
<1> QED BY <1>1, Invariance, PTL
=============================================================================
