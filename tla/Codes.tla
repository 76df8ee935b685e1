------------------------------- MODULE Codes -------------------------------
(* Field codes.  A code is a sequence of symbols: a field name is one letter, *)
(* "." and "/" are symbols of their own, so that <<"a", "/", "m">> is the     *)
(* metafield m of a and <<"a", ".", "r">> either the real part of a or a      *)
(* field of that name.                                                        *)
EXTENDS Naturals, Sequences, SequencesExt

CONSTANT Letters    \* the symbols, in the order of their character codes

(* No code: a parent that is not given, a parameter given as a number.        *)
None == <<>>

Rank == [x \in Range(Letters) |-> CHOOSE i \in DOMAIN Letters : Letters[i] = x]

(* strcmp, by which the entry list and the dot list are sorted.               *)
Less(c, d) ==
  \/ Len(c) < Len(d) /\ IsPrefix(c, d)
  \/ \E i \in DOMAIN c \cap DOMAIN d :
       /\ Rank[c[i]] < Rank[d[i]]
       /\ \A j \in 1 .. i - 1 : c[j] = d[j]

(* A code with a slash, split at the first one.                               *)
HasSlash(c) == \E i \in 2 .. Len(c) : c[i] = "/"
SlashAt(c) ==
  CHOOSE i \in 2 .. Len(c) : c[i] = "/" /\ ~Contains(SubSeq(c, 2, i - 1), "/")
Parent(c) == SubSeq(c, 1, SlashAt(c) - 1)
Sub(c) == SubSeq(c, SlashAt(c) + 1, Len(c))
Join(p, s) == p \o <<"/">> \o s

(* A code that ends in a dot and one letter names a representation.           *)
HasRepr(c) == Len(c) > 2 /\ c[Len(c) - 1] = "."
KnownRepr(c) == c[Len(c)] \in {"r", "i", "m", "a"}
ReprOf(c) == c[Len(c)]
Base(c) == IF HasRepr(c) THEN SubSeq(c, 1, Len(c) - 2) ELSE c

(* _GD_ValidateField, strict: no slash, and from Standards Version 6 no dot.  *)
ValidName(c, standards) ==
  /\ c # None
  /\ ~Contains(c, "/")
  /\ ~(Contains(c, ".") /\ standards >= 6)
=============================================================================
