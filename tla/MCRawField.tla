------------------------------ MODULE MCRawField ------------------------------
(* Bounded instances of RawField: two sample values, files of at most three   *)
(* samples, calls of at most two.                                             *)
EXTENDS RawField

CONSTANTS x, y

MCData == {x, y}
NewOrOld == {<<>>, <<x, y>>}
NewFile == {<<>>}
MCOne == {x}
NewOrShort == {<<>>, <<x>>}
OldFile == {<<x, y>>}
===============================================================================
