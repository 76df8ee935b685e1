----------------------------- MODULE MCCodecField -----------------------------
(* Bounded instances of CodecField: two sample values and zero, files of no,  *)
(* one and three samples.                                                     *)
EXTENDS CodecField

CONSTANTS x, y

MCData == {x, y}
OldFiles == {<<>>, <<x>>, <<x, x, y>>}
OldFile == {<<x, x>>}
===============================================================================
