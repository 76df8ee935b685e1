---------------------------- MODULE MCFieldSpec ----------------------------
(* Fields with the inputs a and b and the scalars c (2), z (1;2) and q, which *)
(* is not there; the calls are tried with a few arguments for each type.      *)
EXTENDS FieldSpec

MCConsts == {[x \in {} |-> Zero], [x \in {"c", "z"} |-> IF x = "c" THEN Real(2) ELSE Complex(1, 2)]}
MCSamples == <<1, 2, 3, 4>>
MCTables == [t \in {<<97>>} |-> "table"]

Naming(N, i, name) == [N EXCEPT !.scalar[i] = name]
PlainEntries ==
  {Naming(Lit1([Ask("RAW") EXCEPT !.sub = "UINT16"], Real(1)), 0, "c"),
   Naming(Bit("BIT", "a", 1, 3), 0, "c"),
   Naming(Naming(Lincom(2, <<"a", "b">>, <<Zero, Complex(0, 1)>>, <<Zero, Real(1)>>, TRUE), 0, "z"), 4, "c"),
   Naming(Polynom(2, "a", <<Real(1), Zero, Complex(3, 1)>>, TRUE), 1, "z"),
   Naming(Recip("a", Zero, TRUE), 0, "z"),
   Naming(Lit1(In1(Ask("PHASE"), "a"), Zero), 0, "c"),
   Naming(Window("a", "b", "EQ", 0), 0, "q"),
   [Mplex("a", "b", 1, 3) EXCEPT !.hidden = TRUE]}
Asked ==
  {Naming(Lit1(Ask("RAW"), Zero), 0, "c"),
   Naming(Naming(Bit("BIT", None, -1, 2), 0, Keep), 1, Keep),
   Naming(Lincom(1, <<None>>, <<Real(5)>>, <<Zero>>, FALSE), 3, Keep),
   Naming(Polynom(0, None, <<Complex(1, 1), Zero, Real(2)>>, TRUE), 1, Keep),
   Naming(Polynom(2, None, <<Real(1), Zero, Real(2)>>, TRUE), 2, Keep),
   Naming(Recip("b", Zero, TRUE), 0, Keep),
   Naming(Lit1(In1(Ask("PHASE"), None), Real(1)), 0, "c"),
   Naming(Window(None, None, "NE", 3), 0, Keep),
   Mplex(None, "a", -1, 5)}

MCArgs ==
  [entry |-> PlainEntries,
   raw |-> {<<"INT8", 2>>, <<"UINT16", 0>>},
   lincom |-> {<<1, <<"a">>, <<Real(2)>>, <<Complex(1, 3)>>>>, <<4, <<>>, <<>>, <<>>>>},
   linterp |-> {<<"a", <<97>>>>},
   bit |-> {<<"a", 40, 1>>, <<"a", 62, 3>>},
   inputs |-> {<<"a", "b">>},
   recip |-> {<<"a", Complex(2, 1)>>},
   phase |-> {<<"a", 3>>},
   window |-> {<<"a", "b", "GT", 2>>},
   mplex |-> {<<"a", "b", -2, 0>>, <<"a", "b", 1, 2>>, <<"a", "b", 2, 2>>},
   string |-> {<<9, Space, Backslash>>, <<>>},
   const |-> {<<"COMPLEX64", Complex(1, 1)>>, <<"UINT8", Real(7)>>},
   carray |-> {<<"FLOAT64", <<Real(1), Real(2), Real(3)>>>>},
   polynom |-> {<<1, "a", <<Real(1), Complex(2, 2)>>>>, <<4, "a", <<Real(1), Real(2), Real(3), Real(4), Real(5)>>>>},
   line |-> {<<Word("f"), Word("MPLEX"), Word("a"), Word("b"), Number(3), Number(2)>>,
             <<Word("f"), Word("POLYNOM"), Word("a"), Number(1), Word("c"), Pair(Complex(0, 2))>>,
             <<Word("f"), Word("STRING"), Text(<<97, Backslash, Space>>)>>},
   altered |-> Asked,
   alter_raw |-> {<<None, 3>>, <<"FLOAT64", 0>>, <<"NULL", 1>>},
   alter_lincom |-> {<<2, <<"b", "a">>, <<Real(2), Real(1)>>, <<Complex(0, 1), Zero>>>>, <<0, <<>>, <<>>, <<>>>>},
   alter_linterp |-> {<<None, <<98>>>>},
   alter_bit |-> {<<"b", -1, 2>>, <<None, 0, 0>>},
   alter_recip |-> {<<None, Complex(2, 0)>>},
   alter_inputs |-> {<<None, "a">>},
   alter_phase |-> {<<"b", 2>>},
   alter_const |-> {"INT16", "COMPLEX128", "NULL"},
   alter_carray |-> {<<"COMPLEX64", 0>>, <<None, 2>>, <<None, 4>>},
   alter_polynom |-> {<<1, None, <<>>>>, <<0, "b", <<>>>>, <<3, None, <<Real(1), Zero, Zero, Complex(1, 1)>>>>, <<6, None, <<>>>>},
   alter_window |-> {<<None, "a", "SET", 4>>},
   alter_mplex |-> {<<"b", None, 0, -1>>},
   alter_line |-> {<<Word("f"), Word("POLYNOM"), Word("a"), Number(4), Number(5)>>,
                   <<Word("f"), Word("LINTERP"), Word("b"), Text(<<99>>)>>,
                   <<Word("f"), Word("LINCOM"), Number(1), Word("b"), Word("z"), Number(1)>>},
   versions |-> {4, 7, GD_VERSION_CURRENT, GD_VERSION_EARLIEST, GD_VERSION_LATEST}]
=============================================================================
