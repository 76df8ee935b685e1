----------------------------- MODULE FieldTable -----------------------------
(* What a table of fields means, by names alone: a function K from the full   *)
(* codes of the fields to what a caller knows of each.  A field's in is a     *)
(* sequence of codes, its scalar the code of a CONST or None, and sub says    *)
(* that it is a metafield.  Nothing here is a pointer and nothing is cached.  *)
EXTENDS Codes, FiniteSets

IsAlias(K, c) == c \in DOMAIN K /\ K[c].type = "ALIAS"

(* The field a code names, an alias unless dealias; None when there is none.  *)
(* A metafield may be named through an alias of its parent.                   *)
RECURSIVE Named(_, _, _)
Named(K, c, dealias) ==
  IF c \in DOMAIN K
  THEN IF dealias /\ IsAlias(K, c) THEN Named(K, K[c].in[1], TRUE) ELSE c
  ELSE IF HasSlash(c) /\ IsAlias(K, Parent(c))
  THEN LET p == Named(K, Parent(c), TRUE)
       IN IF p = None THEN None ELSE Named(K, Join(p, Sub(c)), TRUE)
  ELSE None

(* The field, and representation, a code with a representation stands for.    *)
(* A field whose own name ends like a representation comes first.             *)
Meaning(K, c) ==
  LET whole == Named(K, c, TRUE)
  IN IF whole # None /\ Contains(whole, ".") THEN whole
     ELSE IF HasRepr(c) /\ ~KnownRepr(c) THEN None
     ELSE Named(K, Base(c), TRUE)

(* No alias leads back to itself.                                             *)
Aliases(K) == {c \in DOMAIN K : IsAlias(K, c)}
RECURSIVE Leads(_, _, _)
Leads(K, c, n) ==       \* the names met from c in at most n steps
  IF n = 0 \/ ~IsAlias(K, c) THEN {}
  ELSE LET t == K[c].in[1]
           a == IF t \notin DOMAIN K /\ HasSlash(t) THEN Parent(t) ELSE t
       IN {a} \cup Leads(K, a, n - 1)
NoLoops(K) == \A c \in Aliases(K) : c \notin Leads(K, c, Cardinality(Aliases(K)))

IsScalar(K, c) == K[c].type \in {"CONST", "STRING"}
MetaOf(K, p) == {m \in DOMAIN K : K[m].sub /\ Parent(m) = p}

(* The inputs of a field, its scalar or its target, that mean a field.        *)
UsesAsInput(K, e, x) ==
  /\ K[e].type # "ALIAS"
  /\ \E i \in DOMAIN K[e].in : Meaning(K, K[e].in[i]) = x
UsesAsScalar(K, e, x) == K[e].scalar # None /\ Meaning(K, K[e].scalar) = x
AliasFor(K, e, x) == IsAlias(K, e) /\ Named(K, e, TRUE) = x

(* What gd_entry, gd_validate and the lists say of a field.                   *)
Parameter(K, c) ==
  IF K[c].scalar = None THEN K[c].shift ELSE K[Meaning(K, K[c].scalar)].value

ScalarGiven(K, c) ==
  \/ K[c].scalar = None
  \/ /\ Meaning(K, K[c].scalar) # None
     /\ K[Meaning(K, K[c].scalar)].type = "CONST"

Valid(K, c) ==
  /\ c # None
  /\ K[c].type # "ALIAS"
  /\ ScalarGiven(K, c)
  /\ \A i \in DOMAIN K[c].in : /\ Meaning(K, K[c].in[i]) # None
                               /\ ~IsScalar(K, Meaning(K, K[c].in[i]))

OfKind(K, c, kind) ==
  CASE kind = "ALL" -> TRUE
    [] kind = "VECTOR" -> ~IsScalar(K, c)
    [] kind = "SCALAR" -> IsScalar(K, c)
    [] kind = "ALIASES" -> FALSE
    [] OTHER -> K[c].type = kind

(* An alias is listed as what it is an alias for, when it is one for a field  *)
(* that is not hidden either, and that is no metafield in a list of fields.   *)
Listed(K, c, r) ==
  LET target == Named(K, c, TRUE)
  IN /\ r.hidden \/ ~K[c].hidden
     /\ K[c].sub <=> r.parent # None
     /\ IF ~IsAlias(K, c) THEN OfKind(K, c, r.kind)
        ELSE /\ ~r.noalias
             /\ \/ r.kind = "ALIASES"
                \/ /\ target # None
                   /\ r.hidden \/ ~K[target].hidden
                   /\ r.parent # None \/ ~K[target].sub
                   /\ OfKind(K, target, r.kind)

(* The names gd_entry_list gives for a request r.                             *)
Listing(K, r) ==
  IF r.parent = None THEN {c \in DOMAIN K : Listed(K, c, r)}
  ELSE LET p == Named(K, r.parent, TRUE)
       IN {Sub(c) : c \in {m \in MetaOf(K, p) : Listed(K, m, r)}}
=============================================================================
