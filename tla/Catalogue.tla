------------------------------ MODULE Catalogue ------------------------------
(* What the table of fields promises to the callers of the library: a         *)
(* function from names to fields, and operations that change it by name.  An  *)
(* operation that is refused leaves it as it is.                              *)
EXTENDS FieldTable, TLC

VARIABLES
  fields,      \* the fields, by their full codes
  files,       \* the names of the data files there are
  reference    \* the name of the reference field, or None

catalogue == <<fields, files, reference>>

Init == fields = <<>> /\ files = {} /\ reference = None

(* A new field: of a name that is free, below a parent that exists.           *)
Insert(c, f) ==
  /\ c \notin DOMAIN fields
  /\ f.sub => Parent(c) \in DOMAIN fields /\ ~fields[Parent(c)].sub
  /\ f.sub => f.type # "RAW"
  /\ fields' = fields @@ (c :> f)
  /\ NoLoops(fields')
  /\ IF f.type = "RAW"
     THEN /\ files' = files \cup {c}
          /\ reference' = IF reference = None THEN c ELSE reference
     ELSE UNCHANGED <<files, reference>>

(* A code spelled as a name, alone or with a representation.                  *)
Spells(code, c) == code = c \/ (HasRepr(code) /\ Base(code) = c)
Respell(K, code, d) ==
  IF Meaning(K, code) # None /\ HasRepr(code) /\ code \notin DOMAIN K
  THEN d \o <<".", ReprOf(code)>> ELSE d

(* Renaming a field.  With upd what uses it keeps using it; without, only the *)
(* name changes.  No name is left that is not followed.                       *)
Follow(K, e, c, d) ==
  LET target == Named(K, c, TRUE)
      const == target # None /\ K[target].type = "CONST"
      Means(code) == IF IsAlias(K, c) THEN Spells(code, c) ELSE Meaning(K, code) = c
      in == [i \in DOMAIN K[e].in |->
               IF IsAlias(K, e)
               THEN IF Named(K, K[e].in[i], FALSE) = c THEN d ELSE K[e].in[i]
               ELSE IF ~const /\ Means(K[e].in[i])
               THEN Respell(K, K[e].in[i], d) ELSE K[e].in[i]]
      scalar == IF const /\ K[e].scalar # None /\ Spells(K[e].scalar, c)
                THEN Respell(K, K[e].scalar, d) ELSE K[e].scalar
      string == target # None /\ K[target].type = "STRING"
  IN IF string THEN K[e] ELSE [K[e] EXCEPT !.in = in, !.scalar = scalar]

Renamed(K, c, d, upd) ==
  LET New(e) == IF upd /\ e # c THEN Follow(K, e, c, d) ELSE K[e]
      names == (DOMAIN K \ {c}) \cup {d}
  IN [n \in names |-> IF n = d THEN New(c) ELSE New(n)]

Rename(c, d, upd, data) ==
  /\ c \in DOMAIN fields
  /\ d = c \/ d \notin DOMAIN fields
  /\ fields' = Renamed(fields, c, d, upd)
  /\ NoLoops(fields')
  /\ reference' = IF reference = c THEN d ELSE reference
  /\ IF fields[c].type = "RAW" /\ data /\ d # c
     THEN c \in files /\ files' = (files \ {c}) \cup {d}
     ELSE UNCHANGED files

(* Deleting a field, and its metafields when asked.  Unless it is forced the  *)
(* fields that are left do not use what goes.  With deref parameters given by *)
(* a CONST that goes become numbers.                                          *)
Doomed(c, fl) == {c} \cup IF fl.meta THEN MetaOf(fields, c) ELSE {}

InUse(x, fl) ==
  \E e \in DOMAIN fields :
    IF IsAlias(fields, x) THEN ~IsAlias(fields, e) /\ x \in Range(fields[e].in)
    ELSE IF fields[x].type = "CONST" /\ ~fl.deref THEN UsesAsScalar(fields, e, x)
    ELSE /\ fields[x].type # "STRING"
         /\ UsesAsInput(fields, e, x) \/ AliasFor(fields, e, x)

CanDelete(c, fl) ==
  /\ fl.meta \/ MetaOf(fields, c) = {}
  /\ fl.force \/ \A x \in Doomed(c, fl) : ~InUse(x, fl)
  /\ fl.data /\ fields[c].type = "RAW" => c \in files

Delete(c, fl) ==
  /\ c \in DOMAIN fields
  /\ CanDelete(c, fl)
  /\ LET gone == Doomed(c, fl)
         Freed(e) == /\ fl.deref
                     /\ \E x \in gone : /\ fields[x].type = "CONST"
                                        /\ UsesAsScalar(fields, e, x)
     IN fields' = [e \in DOMAIN fields \ gone |->
                     IF Freed(e)
                     THEN [fields[e] EXCEPT !.scalar = None,
                                            !.shift = Parameter(fields, e)]
                     ELSE fields[e]]
  /\ files' = IF fl.data /\ fields[c].type = "RAW" THEN files \ {c} ELSE files
  /\ IF c # reference THEN UNCHANGED reference
     ELSE /\ reference' \in DOMAIN fields'
          /\ fields'[reference'].type = "RAW"

(* Changing the contents of a field, not its name or type.                    *)
Set(c, f) ==
  /\ c \in DOMAIN fields
  /\ f.type = fields[c].type
  /\ f.sub = fields[c].sub
  /\ fields' = [fields EXCEPT ![c] = f]
  /\ UNCHANGED <<files, reference>>

Flags == [meta : BOOLEAN, force : BOOLEAN, deref : BOOLEAN, data : BOOLEAN]

Next ==
  \/ \E c \in DOMAIN fields' : Insert(c, fields'[c])
  \/ \E c \in DOMAIN fields \cap DOMAIN fields' : Set(c, fields'[c])
  \/ \E c \in DOMAIN fields, fl \in Flags : Delete(c, fl)
  \/ \E c \in DOMAIN fields, d \in DOMAIN fields', upd, data \in BOOLEAN :
       Rename(c, d, upd, data)

Spec == Init /\ [][Next]_catalogue
=============================================================================
