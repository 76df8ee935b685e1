---------------------------- MODULE Definitions ----------------------------
(* What callers of the library mean by a field: its definition without the    *)
(* library's bookkeeping, and what an alteration makes of it according to the *)
(* manual (man/gd_alter_entry.3).                                             *)
EXTENDS EntryLine

Param(name, z) == [name |-> name, num |-> z]

(* What an entry stands for.  A parameter is a number or the name of one.     *)
Meaning(E) ==
  [type |-> E.type, sub |-> E.sub, n |-> E.n, hidden |-> E.hidden, data |-> E.data, text |-> E.text,
   in |-> [i \in Inputs(E) |-> E.in[i]],
   par |-> [i \in Params(E) |->
     IF E.scalar[i] # None THEN Param(E.scalar[i], Zero)
     ELSE Param(None, IF E.type \in ComplexTypes THEN E.lit[i] ELSE Real(E.lit[i].re))]]

(* A definition made by a call that gives an entry, and the values of a CONST *)
(* or CARRAY with it.                                                         *)
Wanted(N, values) ==
  LET Number_(i) == IF N.cs THEN N.lit[i] ELSE Real(N.lit[i].re)
      size == CASE N.type = "CONST" -> 1 [] N.type = "CARRAY" -> N.n [] OTHER -> 0
      Element(i) == IF i \in DOMAIN values THEN ConvertTo(ConstType(N.sub), values[i]) ELSE Zero
  IN Meaning([N EXCEPT !.lit = [i \in Slots |-> Number_(i)],
                       !.data = [i \in 1..size |-> Element(i)]])

(* Numbers that ask for no change.                                            *)
Special(type, i, z) ==
  CASE type = "RAW" -> z.re = 0
    [] type = "RECIP" -> z = Zero
    [] type \in {"BIT", "SBIT"} -> IF i = 0 THEN z.re = -1 ELSE z.re = 0
    [] type = "MPLEX" -> z.re = -1
    [] OTHER -> FALSE

(* The lists of parameters an alteration of a LINCOM or POLYNOM gives; of     *)
(* another field it gives all the parameters there are.                       *)
Given(N, lists) ==
  CASE N.type = "LINCOM" ->
         (IF 2 \in lists THEN 0..GD_MAX_LINCOM - 1 ELSE {})
           \cup (IF 4 \in lists THEN GD_MAX_LINCOM..GD_MAX_POLYORD ELSE {})
    [] N.type = "POLYNOM" -> IF 1 \in lists THEN Slots ELSE {}
    [] OTHER -> Slots

(* A definition M altered as the entry N asks, the scalar fields having the   *)
(* values in consts.  An entry has no values for a STRING, CONST or CARRAY.   *)
Amended(M, N, lists, consts) ==
  LET n == IF N.n = 0 THEN M.n ELSE N.n
      E == [N EXCEPT !.n = n]
      sub == IF N.sub = None THEN M.sub ELSE N.sub
      Number_(i) == IF N.cs \/ N.type \notin ComplexTypes THEN N.lit[i] ELSE Real(N.lit[i].re)
      named(i) == i \in DOMAIN M.par /\ M.par[i].name # None
      Fetched(z) == IF N.type \in ComplexTypes THEN z ELSE Real(z.re)
      Known(p) == IF p.name = None THEN p ELSE Param(None, Fetched(consts[p.name]))
      par(i) ==
        IF N.scalar[i] \notin {None, Keep} /\ i \in Given(N, lists) THEN Param(N.scalar[i], Zero)
        ELSE IF \/ i \notin Given(N, lists)
                \/ N.scalar[i] = Keep /\ named(i)
                \/ N.scalar[i] = Keep /\ Special(N.type, i, Number_(i))
             THEN M.par[i]
        ELSE IF Special(N.type, i, Number_(i)) THEN Known(M.par[i])
        ELSE Param(None, Number_(i))
  IN [M EXCEPT !.n = n, !.sub = sub,
        !.in = [i \in Inputs(E) |->
                 IF N.in[i] = None \/ (N.type = "LINCOM" /\ 1 \notin lists) THEN M.in[i] ELSE N.in[i]],
        !.par = [i \in Params(E) |-> par(i)],
        !.text = IF N.type # "LINTERP" \/ N.text = <<>> THEN M.text ELSE N.text,
        !.data = IF M.type \notin {"CONST", "CARRAY"} THEN M.data
                 ELSE [i \in 1..(IF M.type = "CONST" THEN 1 ELSE n) |->
                        IF i \in DOMAIN M.data THEN ConvertTo(ConstType(sub), M.data[i]) ELSE Zero]]

(* Files where one has been given another name.                               *)
Moved(tables, from, to) ==
  IF from = to THEN tables
  ELSE [t \in (DOMAIN tables \ {from}) \cup {to} |-> IF t = to THEN tables[from] ELSE tables[t]]

(* Samples taken at b to a frame, at a to a frame instead: in every frame the *)
(* j-th of the new ones is the old one of that time.                          *)
Resampled(samples, b, a) ==
  [k \in 1..(Len(samples) * a) \div b |->
    LET frame == (k - 1) \div a
        j == (k - 1) % a
    IN samples[1 + frame * b + ((j * b) \div a)]]
=============================================================================
