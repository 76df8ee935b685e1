----------------------------- MODULE MCRegistry -----------------------------
(* Small instances of Registry: kits of calls that belong together.           *)
EXTENDS Registry

MCLetters == <<".", "/", "a", "b", "c", "m", "r">>

a == <<"a">>
b == <<"b">>
c == <<"c">>
m == <<"m">>
am == <<"a", "/", "m">>
bm == <<"b", "/", "m">>
ar == <<"a", ".", "r">>

Plain == [type |-> "RAW", in |-> <<>>, scalar |-> None, shift |-> 0, value |-> 0, hidden |-> FALSE]
Phase(x) == [Plain EXCEPT !.type = "PHASE", !.in = <<x>>]
PhaseBy(x, s) == [Plain EXCEPT !.type = "PHASE", !.in = <<x>>, !.scalar = s]
Multiply(x, y) == [Plain EXCEPT !.type = "MULTIPLY", !.in = <<x, y>>]
Const(x) == [Plain EXCEPT !.type = "CONST", !.value = x]
String(x) == [Plain EXCEPT !.type = "STRING", !.value = x]

Offer(code, data) == [code |-> code, parent |-> None, data |-> data]
Under(parent, code, data) == [code |-> code, parent |-> parent, data |-> data]
Alias(code, target) == [code |-> code, parent |-> None, target |-> target]
AliasUnder(parent, code, target) == [code |-> code, parent |-> parent, target |-> target]

Flag(meta, force, deref, data) ==
  [meta |-> meta, force |-> force, deref |-> deref, data |-> data]
Gently == Flag(FALSE, FALSE, FALSE, FALSE)
Wholly == Flag(TRUE, TRUE, TRUE, TRUE)
Asked(meta, deref) == Flag(meta, FALSE, deref, FALSE)
Forced == Flag(FALSE, TRUE, FALSE, FALSE)

Request(parent, kind, hidden, noalias) ==
  [parent |-> parent, kind |-> kind, hidden |-> hidden, noalias |-> noalias]
Change(in, scalar, shift) == [in |-> in, scalar |-> scalar, shift |-> shift]

Bare == [room |-> 3, standards |-> 9, sticky |-> FALSE, calls |-> {"add"},
         adds |-> {}, aliases |-> {}, codes |-> {}, names |-> {},
         flags |-> {Gently}, data |-> {TRUE}, alters |-> {}, values |-> {},
         lists |-> {}]

(* RAW fields and their files, and the reference field.                       *)
Files == [Bare EXCEPT
  !.room = 2, !.calls = {"add", "delete", "rename"},
  !.adds = {Offer(a, Plain), Offer(b, Plain)},
  !.codes = {a, b}, !.names = {a, b, c}, !.data = BOOLEAN,
  !.flags = {Gently, Flag(FALSE, FALSE, FALSE, TRUE)}]

(* Vector fields used by others, renamed and deleted.                         *)
Derivations == [Bare EXCEPT
  !.calls = {"add", "delete", "rename", "validate"},
  !.adds = {Offer(a, Plain), Offer(b, Phase(a)), Offer(c, Multiply(b, a))},
  !.codes = {a, b, c}, !.names = {a, b},
  !.flags = {Gently, Forced}]

(* Fields whose parameter is given by a CONST.                                *)
Parameters == [Bare EXCEPT
  !.sticky = TRUE, !.calls = {"add", "delete", "rename", "alter", "put", "entry"},
  !.adds = {Offer(a, Const(1)), Offer(b, PhaseBy(b, a))},
  !.room = 2,
  !.codes = {a, b}, !.names = {a, c}, !.values = {1, 2},
  !.alters = {Change(None, None, 0), Change(None, None, 1), Change(c, Keep, 0), Change(None, a, 0)},
  !.flags = {Gently, Asked(FALSE, TRUE)}]

(* Aliases, of a field and of an alias, and a field read through one.         *)
Aliased == [Bare EXCEPT
  !.calls = {"add", "alias", "delete", "rename", "validate"},
  !.adds = {Offer(a, Plain), Offer(c, Phase(b))},
  !.aliases = {Alias(b, a), Alias(c, b)},
  !.codes = {a, b, c}, !.names = {a, m}, !.flags = {Gently, Forced}]

(* Metafields, by both ways of adding them, and their lists.                  *)
All(parent) == Request(parent, "ALL", TRUE, FALSE)
Metafields == [Bare EXCEPT
  !.calls = {"add", "add_spec", "alias", "delete", "rename"},
  !.adds = {Offer(a, Plain), Offer(am, Const(1)), Under(a, m, Const(2)),
            Under(a, b, String(1))},
  !.aliases = {AliasUnder(a, c, am)}, !.sticky = TRUE,
  !.codes = {a, am}, !.names = {a, b},
  !.flags = {Gently, Asked(TRUE, FALSE), Wholly},
  !.lists = {All(None), All(a)}]

(* Metafields named through an alias of their parent.                         *)
MetaAliased == [Bare EXCEPT
  !.calls = {"add", "alias", "delete", "rename"}, !.room = 4,
  !.adds = {Offer(a, Plain), Under(a, m, Const(1)), Offer(c, PhaseBy(a, bm))},
  !.aliases = {Alias(b, a)},
  !.codes = {a, b, bm}, !.names = {c}, !.flags = {Gently, Wholly},
  !.lists = {All(b)}]

(* Before Standards Version 6 a name may end like a representation.           *)
Dotted == [Bare EXCEPT
  !.standards = 5, !.calls = {"add", "add_spec", "delete", "rename", "validate"},
  !.adds = {Offer(a, Plain), Offer(ar, Plain), Offer(c, Phase(ar))},
  !.codes = {a, ar}, !.names = {b, ar}]

(* Lists of every kind, hidden fields, and a STRING.                          *)
Listings == [Bare EXCEPT
  !.calls = {"add", "alias", "hide", "put", "delete", "rename", "values"}, !.room = 2, !.names = {c},
  !.adds = {Offer(a, Plain), Offer(a, String(1)), Offer(b, Const(1)), Offer(b, String(2))},
  !.aliases = {Alias(b, a)}, !.codes = {a, b}, !.values = {2},
  !.lists = {Request(None, "ALL", FALSE, FALSE), Request(None, "ALL", TRUE, TRUE),
             Request(None, "VECTOR", FALSE, FALSE),
             Request(None, "SCALAR", FALSE, FALSE),
             Request(None, "ALIASES", TRUE, FALSE),
             Request(None, "CONST", FALSE, FALSE)}]

MCKits == <<Files, Derivations, Parameters, Aliased, Metafields, MetaAliased,
            Dotted, Listings>>
=============================================================================
