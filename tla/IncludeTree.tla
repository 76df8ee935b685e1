------------------------------ MODULE IncludeTree ------------------------------
(* What the calls that change the metadata of a dirfile promise.  The format  *)
(* file and the fragments it includes form a tree of files; each field is     *)
(* defined in one of them; and one of the RAW fields, if there are any, is    *)
(* the reference field of the dirfile.  A call that fails changes nothing.    *)
EXTENDS TLC

CONSTANTS
  Files,   \* the names of fragments
  Root,    \* the format file, which nothing includes
  Raws,    \* the RAW fields
  None     \* stands for the reference field of a dirfile without RAW fields

VARIABLES
  parent,  \* for each fragment included, the file that includes it
  decl,    \* for each field, the file that defines it
  ref,     \* the reference field
  call     \* the call that was made

vars == <<parent, decl, ref, call>>

Included == DOMAIN parent
Loaded == {Root} \cup Included

(* f and the fragments included through it.                                   *)
Below(f) ==
  {g \in Loaded : \A S \in SUBSET Loaded :
     f \in S /\ (\A h \in Included : parent[h] \in S => h \in S) => g \in S}

Without(fcn, S) == [x \in DOMAIN fcn \ S |-> fcn[x]]

WellFormed ==
  /\ Below(Root) = Loaded
  /\ \A x \in DOMAIN decl : decl[x] \in Loaded
  /\ IF ref = None THEN DOMAIN decl \cap Raws = {} ELSE ref \in DOMAIN decl \cap Raws

(* A fragment and what it includes in turn; nothing else goes or moves.       *)
Include ==
  /\ Without(parent', Included' \ Included) = parent
  /\ Without(decl', DOMAIN decl' \ DOMAIN decl) = decl
  /\ \E f \in Included' \ Included : Included' \ Included \subseteq Below(f)'
  /\ \A x \in DOMAIN decl' \ DOMAIN decl : decl'[x] \in Included' \ Included

(* f goes with everything below it, and nothing else.                         *)
Remove(f) ==
  /\ parent' = Without(parent, Below(f))
  /\ decl' = Without(decl, {x \in DOMAIN decl : decl[x] \in Below(f)})

Uninclude == ref' = ref /\ \E f \in Included : Remove(f)

Add == \E x \in DOMAIN decl', f \in Loaded :
  /\ x \notin DOMAIN decl
  /\ decl' = decl @@ (x :> f) /\ parent' = parent
  /\ ref' = IF ref = None /\ x \in Raws THEN x ELSE ref

Delete == \E x \in DOMAIN decl :
  /\ decl' = Without(decl, {x}) /\ parent' = parent
  /\ ref # x => ref' = ref

Move == \E x \in DOMAIN decl, f \in Loaded :
  decl' = [decl EXCEPT ![x] = f] /\ UNCHANGED <<parent, ref>>

Reference == ref' \in DOMAIN decl \cap Raws /\ UNCHANGED <<parent, decl>>

Next ==
  /\ WellFormed'
  /\ \/ call' = "include" /\ Include
     \/ call' = "uninclude" /\ Uninclude
     \/ call' = "add" /\ Add
     \/ call' = "delete" /\ Delete
     \/ call' = "move" /\ Move
     \/ call' = "reference" /\ Reference
     \/ call' \in {"flush", "protect", "failed"} /\ UNCHANGED <<parent, decl, ref>>
     \/ call' = "open"

Spec == WellFormed /\ [][Next]_vars
===============================================================================
