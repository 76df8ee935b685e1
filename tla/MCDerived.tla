------------------------------ MODULE MCDerived -------------------------------
(* Small dirfiles for Derived: one for each family of fields, with inputs     *)
(* that differ in rate, offset and length.                                    *)
EXTENDS Derived, TLC

Entry(t, in) == [type |-> t, in |-> in, scalars |-> TRUE, offset |-> 0,
                 reference |-> FALSE]
On(f)        == <<[field |-> f, repr |-> "none"]>>
Raw(spf, offset, type, ref) ==
  [type |-> "RAW", in |-> <<>>, scalars |-> TRUE, spf |-> spf, offset |-> offset,
   data |-> type, reference |-> ref]

Lincom(in, m, b)   == [m |-> m, b |-> b] @@ Entry("LINCOM", in)
Bits(t, in, n, w)  == [bitnum |-> n, numbits |-> w] @@ Entry(t, in)
Phase(in, shift)   == [shift |-> shift] @@ Entry("PHASE", in)
Window(in, op, x)  == [op |-> op, threshold |-> x] @@ Entry("WINDOW", in)
Mplex(in, val, max) == [val |-> val, max |-> max] @@ Entry("MPLEX", in)
Recip(in, x)       == [dividend |-> x] @@ Entry("RECIP", in)
Polynom(in, a)     == [a |-> a] @@ Entry("POLYNOM", in)
Linterp(in, t)     == [table |-> t] @@ Entry("LINTERP", in)

BitFields ==
  [def  |-> [a |-> Raw(1, 1, "UINT8", TRUE),
             lo |-> Bits("BIT", On("a"), 0, 2), hi |-> Bits("SBIT", On("a"), 2, 2),
             ph |-> Phase(On("hi"), 1)],
   data |-> [a |-> <<5, 14>>]]

Products ==
  [def  |-> [a |-> Raw(2, 0, "INT64", TRUE), b |-> Raw(1, 1, "FLOAT64", FALSE),
             mul |-> Entry("MULTIPLY", On("a") \o On("b")),
             lin |-> Lincom(On("b") \o On("a"), <<2, 1>>, <<1, 0>>),
             back |-> Phase(On("mul"), 0 - 2)],
   data |-> [a |-> <<1, 2, 4>>, b |-> <<>>]]

Multiplexed ==
  [def  |-> [a |-> Raw(1, 0, "INT64", TRUE), n |-> Raw(1, 0, "UINT8", FALSE),
             x |-> Mplex(On("a") \o On("n"), 2, 1),
             w |-> Window(On("a") \o On("n"), "EQ", 2)],
   data |-> [a |-> <<1, 3, 4>>, n |-> <<2, 0>>]]

Tables ==
  [def  |-> [a |-> Raw(1, 0, "INT64", TRUE), i |-> Entry("INDEX", <<>>),
             t |-> Linterp(On("a"), << <<3, 0>>, <<1, 4>>, <<5, 0 - 4>> >>),
             p |-> Polynom(On("t"), <<1, 2>>),
             r |-> Recip(On("a"), 12),
             d |-> Entry("DIVIDE", On("i") \o On("a"))],
   data |-> [a |-> <<1, 2, 3>>]]

SmallDirfiles == {BitFields, Products, Multiplexed, Tables}
SmallStarts   == {0, 1, 2}
SmallProbes   == (0 - 12)..12
MinusAll      == {1, All}
===============================================================================
