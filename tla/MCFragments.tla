------------------------------ MODULE MCFragments ------------------------------
(* Bounded instances of Fragments: a format file, the fragments A, B and C,   *)
(* the RAW fields a and b and the field c.                                    *)
EXTENDS Fragments

FormatAB == "format" :> <<Line("include", "A"), Line("include", "B")>>

(* A fragment each for the RAW fields, named as reference or not.             *)
TwoLeaves ==
  FormatAB @@ ("A" :> <<Line("field", "a"), Line("reference", "a")>>)
           @@ ("B" :> <<Line("field", "b")>>)

(* A chain of two, the format file protected.                                 *)
Chain ==
  ("format" :> <<Line("protect", "format"), Line("include", "A"), Line("field", "b")>>)
  @@ ("A" :> <<Line("include", "B")>>)
  @@ ("B" :> <<Line("field", "a"), Line("reference", "a")>>)

(* No RAW field at all.                                                       *)
Bare == ("format" :> <<Line("include", "A")>>) @@ ("A" :> <<>>)

NamesABC == <<"a", "b", "c">>

Disks == {TwoLeaves, Chain, Bare}
===============================================================================
