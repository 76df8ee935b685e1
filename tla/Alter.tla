--------------------------------- MODULE Alter ---------------------------------
(* What gd_alter_frameoffset, gd_alter_endianness and gd_alter_encoding       *)
(* promise when they are asked to recode the data: what a fragment declares   *)
(* and the samples of all its RAW fields change together, or not at all, and  *)
(* only a change of the frame offset shows in the samples.                    *)
EXTENDS Integers, Sequences

CONSTANTS
  Fields,    \* the RAW fields
  Frags,     \* the fragments
  FragOf,    \* the fragment that defines a field
  Spf,       \* samples per frame of a field
  Zero,      \* the padding
  Missing    \* stands for the samples of a field that has no data file

VARIABLES
  meta,      \* what each fragment declares: a record [enc, sex, off]
  samples    \* the samples of each field, the first at its frame offset

vars == <<meta, samples>>

Pad(n) == [i \in 1..n |-> Zero]

(* The samples once the number of the first one went up by shift: samples are *)
(* dropped or zeros added at the front.  An encoding may leave an empty file  *)
(* empty.                                                                     *)
Shifted(s, shift) ==
  IF shift >= 0
  THEN {SubSeq(s, shift + 1, Len(s))}
  ELSE {Pad(-shift) \o s} \cup (IF s = <<>> THEN {<<>>} ELSE {})

AlterOne(g) ==
  /\ meta' = [meta EXCEPT ![g] = meta'[g]]
  /\ samples' = [f \in Fields |-> samples'[f]]
  /\ \A f \in Fields :
       IF FragOf[f] = g /\ samples[f] # Missing
       THEN samples'[f] \in
              Shifted(samples[f], (meta'[g].off - meta[g].off) * Spf[f])
       ELSE samples'[f] = samples[f]

Next == \E g \in Frags : AlterOne(g)

Spec == [][Next]_vars
===============================================================================
