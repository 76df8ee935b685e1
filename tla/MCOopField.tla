------------------------------ MODULE MCOopField ------------------------------
(* Bounded instances of OopField: two sample values, old files of at most     *)
(* three samples, calls of at most two.                                       *)
EXTENDS OopField

CONSTANTS x, y

MCData == {x, y}
MCOne == {x}
NewFile == {<<>>}
OldFiles == {<<x>>, <<x, y>>, <<x, y, x>>}
OldFile == {<<x, y, y>>}
NewOrShort == {<<>>, <<x>>, <<x, x>>}
NewOrOld == {<<>>, <<x, y>>, <<x, y, x>>}
===============================================================================
