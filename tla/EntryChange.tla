---------------------------- MODULE EntryChange ----------------------------
(* How an entry is altered: _GD_Change (mod.c) and what it does for each type *)
(* of field.  N is the entry the caller asks for, in which a null name, a     *)
(* count of 0 or some special number asks for no change.  flags says, of a    *)
(* LINCOM or POLYNOM, which lists are given (1 fields or coefficients, 2 m,   *)
(* 4 b), of the others whether their file is to be changed with them.         *)
EXTENDS EntryLine

Nowhere == "(freed)"             \* what is left in an entry of a freed name
Garbage == Complex(-99, -99)     \* memory that was never written

(* The work in progress: the new entry, the data and table files, whether     *)
(* anything has changed, and whether it went wrong.                           *)
Work(d) == [Q |-> d.E, file |-> d.file, tables |-> d.tables, mod |-> FALSE, error |-> FALSE]

(* Slip: a scalar is only taken out for another number.                      *)
AlterScalarHeld(S, i, alter, z, k, name) ==
  LET bound == name \notin {None, Keep}
      free == name = None /\ alter /\ S.Q.scalar[k] # None
      set == alter /\ ~bound /\ (name = None \/ S.Q.scalar[k] = None)
  IN [S EXCEPT !.Q.scalar[k] = IF bound THEN name ELSE IF free THEN None ELSE @,
               !.Q.lit[i] = IF set THEN z ELSE @,
               !.Q.calc = @ /\ ~bound,
               !.mod = @ \/ bound \/ free \/ set]
(* Slip: the numbers fetched before stand for the new scalar.                 *)
AlterScalarStale(S, i, alter, z, k, name) ==
  LET bound == name \notin {None, Keep}
      free == name = None /\ S.Q.scalar[k] # None
      set == alter /\ ~bound /\ (name = None \/ S.Q.scalar[k] = None)
  IN [S EXCEPT !.Q.scalar[k] = IF bound THEN name ELSE IF free THEN None ELSE @,
               !.Q.lit[i] = IF set THEN z ELSE @,
               !.mod = @ \/ bound \/ free \/ set]
(* The i-th parameter becomes z if it must change (alter), or the scalar      *)
(* name; with no name, a scalar there is replaced by its value.               *)
AlterScalar(S, i, alter, z, k, name) ==
  LET bound == name \notin {None, Keep}
      free == name = None /\ S.Q.scalar[k] # None
      set == alter /\ ~bound /\ (name = None \/ S.Q.scalar[k] = None)
  IN [S EXCEPT !.Q.scalar[k] = IF bound THEN name ELSE IF free THEN None ELSE @,
               !.Q.lit[i] = IF set THEN z ELSE @,
               !.Q.calc = @ /\ ~bound,
               !.mod = @ \/ bound \/ free \/ set]
AlterInput(S, i, name) ==
  IF name \in {None, S.Q.in[i]} THEN S ELSE [S EXCEPT !.Q.in[i] = name, !.mod = TRUE]
AlterInputs(S, N) == AlterInput(AlterInput(S, 0, N.in[0]), 1, N.in[1])

Spoilt(S) == [S EXCEPT !.error = TRUE]
Also(S, changed) == [S EXCEPT !.mod = @ \/ changed]
Real_(z) == Real(z.re)

(* A frame of b samples becomes one of a.                                     *)
SPFConvert(B, b, a) == [i \in 1..(Len(B) * a) \div b |-> B[1 + (((i - 1) * b) \div a)]]

ChangeRawFile(S, E, recode, consts) ==
  LET named == S.Q.scalar[0] # None /\ S.Q.scalar[0] # E.scalar[0]
      spf == IF named THEN consts[S.Q.scalar[0]].re ELSE S.Q.lit[0].re
  IN IF ~recode THEN S
     ELSE IF named /\ S.Q.scalar[0] \notin DOMAIN consts THEN Spoilt(S)
     ELSE [S EXCEPT !.Q.lit[0] = Real(spf), !.file = SPFConvert(@, E.lit[0].re, spf)]
ChangeRaw(S, N, recode, consts) ==
  LET E == S.Q
      sub == IF N.sub = None THEN E.sub ELSE N.sub
      T == AlterScalar(S, 0, N.lit[0].re # 0 /\ N.lit[0] # E.lit[0], N.lit[0], 0, N.scalar[0])
      U == Also([T EXCEPT !.Q.sub = sub], sub # E.sub)
  IN IF ~U.mod THEN U
     ELSE IF sub \notin DataTypes THEN Spoilt(U)
     ELSE ChangeRawFile(U, E, recode, consts)

(* One coefficient of a LINCOM or POLYNOM.                                    *)
Alter1(S, N, i) ==
  LET z == IF N.cs THEN N.lit[i] ELSE Real_(N.lit[i])
      same == IF N.cs THEN S.Q.lit[i] = z ELSE S.Q.lit[i].re = z.re
      T == AlterScalar(S, i, ~same, z, i, N.scalar[i])
  IN IF N.cs THEN T ELSE [T EXCEPT !.Q.lit[i] = Real_(@)]
(* Each coefficient only changes what is in its own slot.                     *)
AlterThese(S, N, slots) ==
  LET One(i) == Alter1(S, N, i)
  IN [S EXCEPT !.Q.lit = [i \in Slots |-> IF i \in slots THEN One(i).Q.lit[i] ELSE @[i]],
               !.Q.scalar = [i \in Slots |-> IF i \in slots THEN One(i).Q.scalar[i] ELSE @[i]],
               !.Q.calc = @ /\ \A i \in slots : One(i).Q.calc,
               !.mod = @ \/ \E i \in slots : One(i).mod]
Recomplex(S, E, slots) ==
  LET cs == \E i \in slots : S.Q.lit[i].im # 0
  IN Also([S EXCEPT !.Q.cs = cs], cs # E.cs)

(* The names beyond the last field left are freed, not forgotten.             *)
Shrunk(S, n) ==
  LET Lost(i) == i % GD_MAX_LINCOM \in n..S.Q.n - 1
      Left(i, name) == IF Lost(i) /\ name # None THEN Nowhere ELSE name
  IN [S EXCEPT !.Q.n = n,
        !.Q.in = [i \in DOMAIN @ |-> Left(i, @[i])],
        !.Q.scalar = [i \in DOMAIN @ |-> Left(i, @[i])]]
ChangeLincom(S, N, flags) ==
  LET E == S.Q
      n == IF N.n = 0 THEN E.n ELSE N.n
      T == Also(Shrunk(S, n), n # E.n)
      given == IF 1 \in flags THEN {i \in 0..n - 1 : i >= E.n \/ N.in[i] \notin {None, E.in[i]}} ELSE {}
      U == Also([T EXCEPT !.Q.in = [i \in DOMAIN @ |-> IF i \in given THEN N.in[i] ELSE @[i]]], given # {})
      m == IF 2 \in flags THEN 0..n - 1 ELSE {}
      b == IF 4 \in flags THEN {i + GD_MAX_LINCOM : i \in 0..n - 1} ELSE {}
  IN IF n \notin 1..GD_MAX_LINCOM THEN Spoilt(S)
     ELSE Recomplex(AlterThese(U, N, m \cup b), E, Params(U.Q))

ChangeLinterp(S, N, move) ==
  LET T == AlterInput(S, 0, N.in[0])
      old == S.Q.text
  IN IF N.text \in {<<>>, old} THEN T
     ELSE IF ~move THEN [T EXCEPT !.Q.text = N.text, !.mod = TRUE]
     ELSE IF old \notin DOMAIN S.tables THEN Spoilt(T)
     ELSE [T EXCEPT !.Q.text = N.text, !.mod = TRUE,
             !.tables = (N.text :> @[old]) @@ Restrict(@, DOMAIN @ \ {old})]

ChangeBit(S, N) ==
  LET T == AlterScalar(S, 1, N.lit[1].re >= 1 /\ N.lit[1] # S.Q.lit[1], N.lit[1], 1, N.scalar[1])
      U == AlterScalar(T, 0, N.lit[0].re >= 0 /\ N.lit[0] # S.Q.lit[0], N.lit[0], 0, N.scalar[0])
  IN AlterInput(U, 0, N.in[0])
ChangeMultiply(S, N) == AlterInputs(S, N)
ChangeRecip(S, N) ==
  LET z == IF N.cs THEN N.lit[0] ELSE Real_(N.lit[0])
      T == AlterInput(S, 0, N.in[0])
      same == IF N.cs THEN S.Q.lit[0] = z ELSE S.Q.lit[0].re = z.re
      U == AlterScalar(T, 0, z # Zero /\ ~same, z, 0, N.scalar[0])
      V == IF N.cs THEN U ELSE [U EXCEPT !.Q.lit[0] = Real_(@)]
  IN Recomplex(V, S.Q, {0})
ChangePhase(S, N) ==
  AlterInput(AlterScalar(S, 0, N.lit[0] # S.Q.lit[0], N.lit[0], 0, N.scalar[0]), 0, N.in[0])

(* comp_scal is worked out from the coefficients that are given.              *)
ChangePolynom(S, N, flags) ==
  LET n == IF N.n = 0 THEN S.Q.n ELSE N.n
      T == Also([AlterInput(S, 0, N.in[0]) EXCEPT !.Q.n = n], n # S.Q.n)
      slots == IF 1 \in flags THEN 0..n ELSE {}
  IN Recomplex(AlterThese(T, N, slots), S.Q, slots)

ChangeWindow(S, N) ==
  LET T == IF N.sub = None THEN S ELSE [S EXCEPT !.Q.sub = N.sub, !.mod = TRUE]
  IN AlterInputs(AlterScalar(T, 0, N.lit[0] # S.Q.lit[0], N.lit[0], 0, N.scalar[0]), N)

(* The first scalar is taken for the largest count, the second for the value. *)
ChangeMplex(S, N) ==
  LET T == AlterScalar(S, 1, N.lit[1].re # -1 /\ N.lit[1] # S.Q.lit[1], N.lit[1], 0, N.scalar[0])
      U == AlterScalar(T, 0, N.lit[0].re # -1 /\ N.lit[0] # S.Q.lit[0], N.lit[0], 1, N.scalar[1])
  IN AlterInputs(U, N)

(* A value of one class as one of another.  To a FLOAT64 the new memory is    *)
(* written as if it were an integer.                                          *)
Reclass(from, to, z) ==
  IF ConstType(from) = ConstType(to) THEN z
  ELSE IF ConstType(to) = "FLOAT64" THEN Garbage
  ELSE Real_(z)
ChangeConst(S, N) ==
  LET sub == IF N.sub = None THEN S.Q.sub ELSE N.sub
  IN IF sub \notin DataTypes THEN Spoilt(S)
     ELSE Also([S EXCEPT !.Q.sub = sub, !.Q.data = <<Reclass(S.Q.sub, sub, @[1])>>], sub # S.Q.sub)
(* The old array is freed even when the new one is not kept.                  *)
ChangeCarray(S, N) ==
  LET sub == IF N.sub = None THEN S.Q.sub ELSE N.sub
      n == IF N.n = 0 THEN S.Q.n ELSE N.n
      changed == sub # S.Q.sub \/ n # S.Q.n
      Element(i) ==
        IF ~changed THEN Garbage
        ELSE IF i \in DOMAIN S.Q.data THEN ConvertTo(ConstType(sub), S.Q.data[i]) ELSE Zero
  IN IF sub \notin DataTypes THEN Spoilt(S)
     ELSE Also([S EXCEPT !.Q.sub = sub, !.Q.n = n, !.Q.data = [i \in 1..n |-> Element(i)]], changed)

Changed(S, N, flags, consts) ==
  CASE N.type = "RAW" -> ChangeRaw(S, N, flags # {}, consts)
    [] N.type = "LINCOM" -> ChangeLincom(S, N, flags)
    [] N.type = "LINTERP" -> ChangeLinterp(S, N, flags # {})
    [] N.type \in {"BIT", "SBIT"} -> ChangeBit(S, N)
    [] N.type \in {"MULTIPLY", "DIVIDE"} -> ChangeMultiply(S, N)
    [] N.type = "RECIP" -> ChangeRecip(S, N)
    [] N.type = "PHASE" -> ChangePhase(S, N)
    [] N.type = "POLYNOM" -> ChangePolynom(S, N, flags)
    [] N.type = "WINDOW" -> ChangeWindow(S, N)
    [] N.type = "MPLEX" -> ChangeMplex(S, N)
    [] N.type = "CONST" -> ChangeConst(S, N)
    [] N.type = "CARRAY" -> ChangeCarray(S, N)
    [] OTHER -> S

(* Slip: the versions that were worked out before are kept.                   *)
ChangeHave(d, N, flags) ==
  LET Applied(S) ==
        IF d.error \/ d.E.type # N.type \/ S.error THEN [d EXCEPT !.error = TRUE]
        ELSE IF ~S.mod THEN [d EXCEPT !.E.data = S.Q.data]
        ELSE [d EXCEPT !.E = S.Q, !.file = S.file, !.tables = S.tables, !.dirty = TRUE]
  IN Applied(Changed(Work(d), N, flags, d.consts))
Change(d, N, flags) ==
  LET Applied(S) ==
        IF d.error \/ d.E.type # N.type \/ S.error THEN [d EXCEPT !.error = TRUE]
        ELSE IF ~S.mod THEN [d EXCEPT !.E.data = S.Q.data]
        ELSE [d EXCEPT !.E = S.Q, !.file = S.file, !.tables = S.tables, !.dirty = TRUE, !.have = FALSE]
  IN Applied(Changed(Work(d), N, flags, d.consts))
=============================================================================
