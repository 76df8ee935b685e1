---------------------------- MODULE MCAlterFragment ----------------------------
(* Bounded instances of AlterFragment: one fragment of two fields, or two     *)
(* fragments of one field each.                                               *)
EXTENDS AlterFragment

CONSTANTS a, b, x, y

BothFields == {a, b}
InOrder == [f \in BothFields |-> IF f = a THEN 1 ELSE 2]
OneFrag == [f \in BothFields |-> 0]
TwoFrags == [f \in BothFields |-> IF f = a THEN 0 ELSE 1]
Spf12 == [f \in BothFields |-> IF f = a THEN 1 ELSE 2]
OnlyB == {b}
Offs01 == {0, 1}
XY == {x, y}
Two == {<<x, y>>}
Recoding == {TRUE}
MetasTurned == {[enc |-> "none", sex |-> "little", off |-> 0],
                [enc |-> "text", sex |-> "little", off |-> 1]}
MetasLittle == [enc : Encs, sex : {"little"}, off : {1}]
Open == {{}}
Protected == {{}, {"data"}, {"format"}}
===============================================================================
