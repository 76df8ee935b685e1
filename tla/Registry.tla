------------------------------ MODULE Registry ------------------------------
(* The table of fields of one open dirfile: D->entry, the sorted array of     *)
(* pointers to gd_entry_t, the list of fields with a dot in their name, the   *)
(* lists of metafields, and everything that is cached in an entry: resolved   *)
(* input fields and aliases, the fields that use a CONST, the lists handed to *)
(* callers.  name.c, del.c, entry.c, field_list.c, nfields.c, and the adding, *)
(* altering and resolving parts of add.c, mod.c, parse.c, common.c.           *)
(*                                                                            *)
(* The dirfile has one fragment, unprotected and without affixes, and is open *)
(* read-write.  A pointer to an entry is its place in heap; the lowest free   *)
(* place is allocated, so that memory is reused as soon as it can be.         *)
EXTENDS FieldTable, TLC

CONSTANTS
  Free,          \* a place of the heap that is not allocated
  Kits           \* what the callers of one behaviour may ask for

ASSUME RoomAssumption == \A k \in DOMAIN Kits : Kits[k].room \in Nat \ {0}

VARIABLES
  D,      \* the dirfile
  kit     \* the kit of this behaviour

vars == <<D, kit>>

Types == {"RAW", "PHASE", "MULTIPLY", "CONST", "STRING", "ALIAS"}
Scalars == {"CONST", "STRING"}
Kinds == {"ALL", "VECTOR", "SCALAR", "ALIASES"} \cup Types
NoLists == <<>>

(* A new gd_entry_t: type, in_fields, scalar[0] and its literal, the value of *)
(* a CONST or STRING, hidden; privately calculated, entry[] and repr[], the   *)
(* client list, n_meta, meta_entry or parent, filebase, and the lists.        *)
Malloc(name, f) ==
  [name |-> name, type |-> f.type, in |-> f.in, scalar |-> f.scalar,
   shift |-> f.shift, value |-> f.value, hidden |-> f.hidden,
   calculated |-> f.type = "ALIAS", entry |-> <<0, 0>>, repr |-> <<"", "">>,
   client |-> {}, sub |-> FALSE, meta |-> <<>>, parent |-> 0,
   filebase |-> IF f.type = "RAW" THEN name ELSE None, lists |-> NoLists]

AliasTo(target) ==
  [type |-> "ALIAS", in |-> <<target>>, scalar |-> None, shift |-> 0,
   value |-> 0, hidden |-> FALSE]

Live(d) == {e \in DOMAIN d.heap : d.heap[e] # Free}
Room(d) == Live(d) # DOMAIN d.heap
Fresh(d) == Min(DOMAIN d.heap \ Live(d))

(* What a call returns: the dirfile it leaves, whether it succeeded, and its  *)
(* answer.  That a call failed, not why, is remembered in D->error until one  *)
(* that clears it.                                                            *)
Answer(d, x) == [D |-> d, ok |-> ~d.error, say |-> x]
Done(d) == Answer(d, "OK")
SetError(d) == [d EXCEPT !.error = TRUE]
Fail(d, why) == Answer(SetError(d), why)
ClearError(d) == [d EXCEPT !.error = FALSE]

(* Binary search for a code in one of the sorted lists; the places count from *)
(* 0 as in the code.                                                          *)
RECURSIVE Bisect(_, _, _, _, _)
Bisect(d, list, code, l, u) ==
  IF l >= u THEN [found |-> FALSE, at |-> u]
  ELSE LET i == (l + u) \div 2
           name == d.heap[list[i + 1]].name
       IN IF Less(code, name) THEN Bisect(d, list, code, l, i)
          ELSE IF Less(name, code) THEN Bisect(d, list, code, i + 1, u)
          ELSE [found |-> TRUE, at |-> i]

Place(d, list, code) == Bisect(d, list, code, 0, Len(list)).at

(* Metafields may be named through an alias of their parent.                  *)
RECURSIVE FindField(_, _, _, _)
FindField(d, list, code, dealias) ==
  LET Through(A) ==
        IF A # 0 /\ d.heap[A].type = "ALIAS" /\ d.heap[A].entry[1] # 0
        THEN FindField(d, list, Join(d.heap[d.heap[A].entry[1]].name, Sub(code)),
                       TRUE)
        ELSE 0
      Look(p) ==
        IF p.found
        THEN LET E == list[p.at + 1]
             IN IF dealias /\ d.heap[E].type = "ALIAS" THEN d.heap[E].entry[1]
                ELSE E
        ELSE IF HasSlash(code)
        THEN Through(FindField(d, list, Parent(code), FALSE))
        ELSE 0
  IN Look(Bisect(d, list, code, 0, Len(list)))

(* A code with a representation.  Codes with a dot are looked for among the   *)
(* fields that have one first.  The call fails with the error it sets, and    *)
(* finds nothing while an earlier error stands.                               *)
FindFieldAndRepr(d, code, set, err) ==
  LET bad == HasRepr(code) /\ ~KnownRepr(code)
      Undotted(x, E) ==
        IF x.error THEN [D |-> x, E |-> 0, repr |-> ""]
        ELSE [D |-> IF E = 0 /\ set /\ err THEN SetError(x) ELSE x,
              E |-> E,
              repr |-> IF HasRepr(code) /\ ~bad THEN ReprOf(code) ELSE ""]
      Dotted(E) ==
        IF E # 0 THEN [D |-> d, E |-> E, repr |-> ""]
        ELSE Undotted(IF bad /\ err THEN SetError(d) ELSE d,
                      FindField(d, d.entry, IF bad THEN code ELSE Base(code),
                                TRUE))
  IN Dotted(IF d.dot = <<>> THEN 0 ELSE FindField(d, d.dot, code, TRUE))

(* _GD_BadInput: resolve input i of E, once; scalars are not allowed.         *)
BadInput(d, E, i, err) ==
  LET Resolved(f) == [f.D EXCEPT !.heap[E].entry[i] = f.E,
                                 !.heap[E].repr[i] = f.repr]
      Checked(x, T) ==
        IF T # 0 /\ x.heap[T].type \in Scalars THEN SetError(x) ELSE x
      Check(x) == Checked(x, x.heap[E].entry[i])
  IN Check(IF d.heap[E].entry[i] # 0 THEN d
           ELSE Resolved(FindFieldAndRepr(d, d.heap[E].in[i], TRUE, err)))

(* _GD_GetScalar, _GD_CalculateEntry: the parameter of a PHASE given by a     *)
(* CONST is fetched once, and the field entered among the CONST's clients.    *)
(* With err = FALSE only the client list is wanted.                           *)
GetScalar(d, E, err) ==
  LET From(f) ==
        IF f.D.error THEN f.D
        ELSE IF f.E = 0 \/ d.heap[f.E].type # "CONST"
        THEN IF err THEN SetError(f.D) ELSE f.D
        ELSE [f.D EXCEPT
                !.heap[E].shift = IF err THEN d.heap[f.E].value ELSE @,
                !.heap[f.E].client = @ \cup {E}]
  IN From(FindFieldAndRepr(d, d.heap[E].scalar, FALSE, TRUE))

CalculateEntry(d, E, err) ==
  LET Mark(x) == [x EXCEPT !.heap[E].calculated = @ \/ ~x.error]
  IN Mark(IF d.heap[E].scalar = None THEN d ELSE GetScalar(d, E, err))

Calculated(d, E) ==
  IF d.heap[E].calculated THEN d ELSE CalculateEntry(d, E, TRUE)

(* Aliases: entry[0] is the ultimate target, entry[1] the direct one; here    *)
(* they are entry[1] and entry[2].                                            *)
RECURSIVE ResolveAlias(_, _)
ResolveAlias(d, E) ==
  LET Ends(x, T) == [x EXCEPT !.heap[E].entry[1] = x.heap[T].entry[1]]
      To(x, T) ==
        IF T = 0 \/ (T # 0 /\ x.heap[T].type # "ALIAS") THEN x
        ELSE Ends(IF x.heap[T].entry[1] = 0 THEN ResolveAlias(x, T) ELSE x, T)
      Direct(T) == To([d EXCEPT !.heap[E].entry = <<T, T>>], T)
  IN Direct(FindField(d, d.entry, d.heap[E].in[1], FALSE))

UpdateAliases(d, reset) ==
  LET isAlias(e) == d.heap[e] # Free /\ d.heap[e].type = "ALIAS"
      d0 == [d EXCEPT !.heap = [e \in DOMAIN d.heap |->
               IF reset /\ isAlias(e)
               THEN [d.heap[e] EXCEPT !.entry = <<0, 0>>] ELSE d.heap[e]]]
  IN FoldLeft(LAMBDA x, e : IF isAlias(e) /\ x.heap[e].entry[2] = 0
                            THEN ResolveAlias(x, e) ELSE x,
              d0, d.entry)

-----------------------------------------------------------------------------
(* Adding fields.                                                             *)

(* _GD_CheckParent from gd_add: the parent and full name of a code with a     *)
(* slash.  The parent may be given by an alias.                               *)
FixName(d, code) ==
  LET Under(P) == [P |-> P,
                   name |-> IF P = 0 THEN code ELSE Join(d.heap[P].name, Sub(code)),
                   sub |-> IF P = 0 THEN code ELSE Sub(code)]
      Of(A) == Under(IF A # 0 /\ d.heap[A].type = "ALIAS" THEN d.heap[A].entry[1]
                     ELSE A)
  IN Of(IF HasSlash(code) THEN FindField(d, d.entry, Parent(code), FALSE) ELSE 0)

(* The parent gd_madd and gd_madd_alias are given.                            *)
GivenParent(d, parent, code) ==
  [P |-> FindField(d, d.entry, parent, TRUE),
   name |-> Join(parent, code), sub |-> code]

InsertSort(d, E, u) == [d EXCEPT !.entry = InsertAt(d.entry, u + 1, E)]

(* qsort, by name.                                                            *)
Sorted(d, list) == SortSeq(list, LAMBDA e, g : Less(d.heap[e].name, d.heap[g].name))

DotAdd(d, E) ==
  IF ~Contains(d.heap[E].name, ".") THEN d
  ELSE [d EXCEPT !.dot = Sorted(d, Append(d.dot, E))]

(* Forget the lists made of the metafields of P, or of the other fields.      *)
Invalidate(d, P) ==
  IF P # 0 THEN [d EXCEPT !.heap[P].lists = NoLists]
  ELSE [d EXCEPT !.lists = NoLists]

(* Enter a new entry among the metafields of P.                               *)
Enter(d, E, P) == IF P = 0 THEN d ELSE [d EXCEPT !.heap[P].meta = Append(@, E)]

(* The first RAW field of a fragment becomes its reference field.             *)
Refer(d, E) ==
  [d EXCEPT !.refname = IF @ = None THEN d.heap[E].name ELSE @,
            !.reference = IF d.refname = None /\ @ = 0 THEN E ELSE @]

Touch(d, name) == [d EXCEPT !.files = @ \cup {name}]

(* Put an entry in its place, among the metafields of P and in the dot list;  *)
(* aliases for it are resolved.                                               *)
Install(d, E, P, u) ==
  UpdateAliases(InsertSort(DotAdd(Enter(d, E, P), E), E, u), FALSE)

(* _GD_Add: gd_add, gd_madd and the functions for each type.                  *)
NewField(d, f, n, E, u) ==
  LET Referred(x) ==
        IF f.type = "RAW" THEN Refer(Touch(x, n.name), E) ELSE x
  IN Install(Invalidate(
               Referred([d EXCEPT !.heap[E] =
                           [Malloc(n.name, f) EXCEPT !.sub = n.P # 0]]),
               n.P),
             E, n.P, u)

AddNamed(d, f, parent, n) ==
  IF parent # None /\ n.P = 0 THEN Fail(d, "BAD_CODE")
  ELSE IF parent # None /\ d.heap[n.P].sub THEN Fail(d, "BAD_CODE")
  ELSE IF FindField(d, d.entry, n.name, TRUE) # 0 THEN Fail(d, "DUPLICATE")
  ELSE IF ~ValidName(n.sub, d.standards) THEN Fail(d, "BAD_CODE")
  ELSE IF f.type = "RAW" /\ n.P # 0 THEN Fail(d, "BAD_ENTRY")
  ELSE Done(NewField(d, f, n, Fresh(d), Place(d, d.entry, n.name)))

Add(d0, f, parent, code) ==
  LET In(d) == AddNamed(d, f, parent, IF parent = None THEN FixName(d, code)
                                      ELSE GivenParent(d, parent, code))
  IN In(ClearError(d0))

(* _GD_ParseFieldSpec, for gd_add_spec and gd_madd_spec.                      *)
(* A RAW field may become the reference field before it is known to be new.   *)
ParseRaw(d, f, name, E) ==
  IF f.type # "RAW" THEN d
  ELSE [Touch(d, name) EXCEPT !.reference =
          IF d.refname = None /\ @ = 0 THEN E ELSE @]

ParseFieldSpec(d, f, P, name, sub, E) ==
  IF \/ ~ValidName(sub, d.standards)
     \/ d.standards < 6 /\ f.type \in Scalars
     \/ f.type = "RAW" /\ P # 0
  THEN Fail(d, "FORMAT")
  ELSE IF FindField(d, d.entry, name, FALSE) # 0
  THEN Fail(ParseRaw(d, f, name, E), "FORMAT")
  ELSE Done(Install([ParseRaw(d, f, name, E) EXCEPT !.heap[E] =
                       [Malloc(name, f) EXCEPT !.sub = P # 0, !.parent = P]],
                    E, P, Place(d, d.entry, name)))

AddSpec(d0, f, parent, code) ==
  LET slashed == parent = None /\ HasSlash(code) /\ d0.standards >= 7
      sub == IF slashed THEN Sub(code) ELSE code
      Under(d, P) ==
        IF parent # None /\ P = 0 THEN Fail(d, "BAD_CODE")
        ELSE IF slashed /\ (P = 0 \/ d.heap[P].type = "ALIAS")
        THEN Fail(d, "FORMAT")
        ELSE ParseFieldSpec(
               d, f, P, IF P = 0 THEN sub ELSE Join(d.heap[P].name, sub), sub,
               Fresh(d))
      In(d) == Under(d, IF parent # None THEN FindField(d, d.entry, parent, TRUE)
                        ELSE IF slashed
                        THEN FindField(d, d.entry, Parent(code), FALSE)
                        ELSE 0)
  IN In(ClearError(d0))

(* _GD_AddAlias: the new alias is not entered among the metafields of its     *)
(* parent.                                                                    *)
NewAlias(d, n, target, E, u) ==
  UpdateAliases(
    Invalidate(InsertSort([d EXCEPT !.heap[E] = Malloc(n.name, AliasTo(target))],
                          E, u), n.P),
    FALSE)

AddAlias(d0, parent, code, target) ==
  LET Check(d, n) ==
        IF parent # None /\ (n.P = 0 \/ (n.P # 0 /\ d.heap[n.P].sub))
        THEN Fail(d, "BAD_CODE")
        ELSE IF ~ValidName(n.sub, 9) THEN Fail(d, "BAD_CODE")
        ELSE IF FindField(d, d.entry, n.name, TRUE) # 0 THEN Fail(d, "DUPLICATE")
        ELSE Done(NewAlias(d, n, target, Fresh(d), Place(d, d.entry, n.name)))
      In(d) == Check(d, IF parent = None THEN FixName(d, code)
                        ELSE GivenParent(d, parent, code))
  IN IF parent # None /\ d0.error THEN Answer(d0, "FAILED") ELSE In(ClearError(d0))

-----------------------------------------------------------------------------
(* Renaming fields.                                                           *)

WithRepr(name, repr) == IF repr = "" THEN name ELSE name \o <<".", repr>>

(* The name a call used, alone or with a representation.                      *)
Uses(code, old) == code # None /\ (code = old \/ (HasRepr(code) /\ Base(code) = old))

Inputs(d, e) == DOMAIN d.heap[e].in
Others(d, E) == SelectSeq(d.entry, LAMBDA e : e # E)

(* _GD_UpdateScalar, _GD_InvalidateConst: the fields that use a CONST which   *)
(* is renamed.  With upd their code is changed, and the value fetched again.  *)
UpdateScalar(d, T, E, old, upd) ==
  IF d.heap[T].type # "PHASE" \/ ~Uses(d.heap[T].scalar, old) THEN d
  ELSE IF upd
  THEN [d EXCEPT !.heap[T].calculated = FALSE,
                 !.heap[T].scalar = WithRepr(d.heap[E].name, d.heap[T].repr[1])]
  ELSE IF d.heap[T].calculated THEN d ELSE CalculateEntry(d, T, FALSE)

(* _GD_UpdateInField: an input, or the direct target of an alias, that is the *)
(* renamed field.  When the renamed field is itself an alias it is known by   *)
(* its name only.                                                             *)
Touches(d, T, E, old, i) ==
  LET m == IF d.heap[T].type = "ALIAS" THEN 2 ELSE i
  IN IF d.heap[E].type = "ALIAS" THEN Uses(d.heap[T].in[i], old)
     ELSE d.heap[T].entry[m] = E

(* Slip: the resolved input is left when the codes are not updated.           *)
UpdateInFieldKeepsEntry(d0, T, E, old, i, upd) ==
  IF upd /\ Touches(d0, T, E, old, i)
  THEN [d0 EXCEPT !.heap[T].in[i] =
          WithRepr(d0.heap[E].name, d0.heap[T].repr[i])]
  ELSE d0

UpdateInField(d0, T, E, old, i, upd) ==
  LET isAlias == d0.heap[T].type = "ALIAS"
      Update(d) ==
        IF ~Touches(d, T, E, old, i) THEN d
        ELSE IF upd
        THEN [d EXCEPT !.heap[T].in[i] =
                WithRepr(d.heap[E].name, d.heap[T].repr[i])]
        ELSE [d EXCEPT !.heap[T].entry[IF isAlias THEN 2 ELSE i] = 0]
  IN Update(IF upd /\ ~isAlias /\ d0.heap[T].entry[i] = 0
            THEN BadInput(d0, T, i, FALSE) ELSE d0)

Backwards(S) == Reverse(SetToSortSeq(S, <))

InvalidateConst(d0, E, old, upd) ==
  FoldLeft(LAMBDA d, T : IF d.heap[T].type = "ALIAS"
                         THEN UpdateInField(d, T, E, old, 1, upd)
                         ELSE UpdateScalar(d, T, E, old, upd),
           d0, Others(d0, E))

InvalidateVect(d0, E, old, upd) ==
  FoldLeft(LAMBDA d, T :
             FoldLeft(LAMBDA x, i : UpdateInField(x, T, E, old, i, upd),
                      d, Backwards(Inputs(d, T))),
           d0, Others(d0, E))

(* The pass before the renaming, which makes room for the new codes: all it   *)
(* changes is that inputs not resolved yet are.                               *)
PrepareVect(d0, E) ==
  FoldLeft(LAMBDA d, T :
             FoldLeft(LAMBDA x, i : IF d.heap[T].type # "ALIAS" /\ x.heap[T].entry[i] = 0
                                    THEN BadInput(x, T, i, FALSE) ELSE x,
                      d, Backwards(Inputs(d, T))),
           d0, Others(d0, E))

(* _GD_Rename.  The file of a RAW field takes the new name at once when it is *)
(* to be moved; otherwise the field is left with a file that may not exist.   *)
NewName(d, E, new) ==
  IF d.heap[E].sub THEN Join(d.heap[d.heap[E].parent].name, new) ELSE new

(* Slip: the file is copied.                                                  *)
MoveFileCopies(d, E, new) == [d EXCEPT !.files = @ \cup {new}]

MoveFile(d, E, new) ==
  [d EXCEPT !.files = (@ \ {d.heap[E].filebase}) \cup {new}]

RenameDot(d, E, oldDot, newDot) ==
  IF oldDot /\ ~newDot THEN SelectSeq(d.dot, LAMBDA e : e # E)
  ELSE IF newDot
  THEN Sorted(d, IF oldDot THEN d.dot ELSE Append(d.dot, E))
  ELSE d.dot

(* Slip: the entries are left in the order of the old names.                  *)
ResortDotOnly(d, E, oldDot, newDot) ==
  Invalidate([d EXCEPT !.dot = RenameDot(d, E, oldDot, newDot)], d.heap[E].parent)

Resort(d, E, oldDot, newDot) ==
  Invalidate([d EXCEPT !.entry = Sorted(d, @),
                       !.dot = RenameDot(d, E, oldDot, newDot)],
             d.heap[E].parent)

Renamed(d, E, name, new, oldDot, data) ==
  LET raw == d.heap[E].type = "RAW"
      Moved(x) == [x EXCEPT !.heap[E].name = name,
                            !.heap[E].filebase = IF raw THEN new ELSE @]
  IN Resort(Moved(IF raw /\ data THEN MoveFile(d, E, new) ELSE d), E,
            oldDot, Contains(new, "."))

RenameEntry(d, E, new, oldDot, data) ==
  LET name == NewName(d, E, new)
      Unless(Q) ==
        IF Q = E THEN Done(d)
        ELSE IF Q # 0 THEN Fail(d, "DUPLICATE")
        ELSE IF /\ d.heap[E].type = "RAW" /\ data
                /\ d.heap[E].filebase \notin d.files
        THEN Fail(d, "RAW_IO")
        ELSE Done(Renamed(d, E, name, new, oldDot, data))
  IN IF ~ValidName(new, d.standards) THEN Fail(d, "BAD_CODE")
     ELSE Unless(FindField(d, d.entry, name, TRUE))

(* What a renamed alias leads to decides which codes may name it.             *)
TypeBehind(d, E) ==
  IF d.heap[E].type = "ALIAS" /\ d.heap[E].entry[1] # 0
  THEN d.heap[d.heap[E].entry[1]].type ELSE d.heap[E].type

RenameFound(d, E, old, new, upd, data, dotted) ==
  LET type == TypeBehind(d, E)
      Update(r) ==
        [r EXCEPT !.D = UpdateAliases(
           IF ~r.ok \/ type = "STRING" THEN r.D
           ELSE IF type = "CONST" THEN InvalidateConst(r.D, E, old, upd)
           ELSE InvalidateVect(r.D, E, old, upd), TRUE)]
      Prepared(x) ==
        IF x.error THEN Answer(x, "FAILED")
        ELSE Update(RenameEntry(x, E, new, dotted, data))
  IN IF E = 0 THEN Fail(d, "BAD_CODE")
     ELSE Prepared(IF upd /\ type \notin Scalars THEN PrepareVect(d, E) ELSE d)

Rename(d0, old, new, upd, data) ==
  LET Else(d, E) ==
        IF E # 0 THEN RenameFound(d, E, old, new, upd, data, TRUE)
        ELSE RenameFound(d, FindField(d, d.entry, old, FALSE), old, new, upd,
                         data, FALSE)
      In(d) == Else(d, IF d.dot = <<>> THEN 0 ELSE FindField(d, d.dot, old, FALSE))
  IN In(ClearError(d0))

-----------------------------------------------------------------------------
(* Deleting fields.                                                           *)

(* The inputs _GD_ClearDerived compares: the second of two, the first of one. *)
Compared(d, e) ==
  CASE d.heap[e].type = "MULTIPLY" -> {2}
    [] d.heap[e].type = "PHASE" -> {1}
    [] OTHER -> {}

Derives(d, e, C) ==
  \/ \E i \in Compared(d, e) : d.heap[e].in[i] = d.heap[C].name
  \/ d.heap[e].type = "ALIAS" /\ d.heap[e].entry[1] = C

(* Slip: only aliases are cleared.                                            *)
ClearAlias(d, e, C) ==
  IF Derives(d, e, C) /\ d.heap[e].type = "ALIAS"
  THEN [d EXCEPT !.heap[e].entry[1] = 0] ELSE d

ClearDerived(d, e, C) ==
  IF ~Derives(d, e, C) THEN d
  ELSE IF d.heap[e].type = "ALIAS" THEN [d EXCEPT !.heap[e].entry[1] = 0]
  ELSE [d EXCEPT !.heap[e].entry =
          [i \in 1 .. 2 |-> IF i \in Compared(d, e) THEN 0 ELSE @[i]]]

(* _GD_DeReference: a parameter given by a CONST becomes the value it has.    *)
References(d, e, C) ==
  /\ d.heap[e].scalar # None
  /\ Base(d.heap[e].scalar) = d.heap[C].name

DeReference(d, e, C) ==
  IF ~References(d, e, C) THEN d
  ELSE [d EXCEPT !.heap[e].shift = d.heap[C].value, !.heap[e].scalar = None]

(* What stands in the way of a deletion that is not forced.                   *)
(* Slip: a CONST in use is kept although its users can do without.            *)
InTheWayAlways(d, e, C, deref) ==
  IF d.heap[C].type = "CONST" THEN References(d, e, C)
  ELSE d.heap[C].type # "STRING" /\ Derives(d, e, C)

InTheWay(d, e, C, deref) ==
  IF d.heap[C].type = "CONST" /\ ~deref THEN References(d, e, C)
  ELSE d.heap[C].type # "STRING" /\ Derives(d, e, C)

Forget(d, e, C, deref) ==
  IF d.heap[C].type = "CONST" /\ deref THEN DeReference(d, e, C)
  ELSE IF d.heap[C].type # "STRING" THEN ClearDerived(d, e, C)
  ELSE d

(* The reference field of the fragment is replaced by the first other RAW     *)
(* field, when there is one.                                                  *)
FixReference(d, E) ==
  LET raws == SelectSeq(d.entry, LAMBDA e : d.heap[e].type = "RAW" /\ e # E)
  IN IF d.heap[E].type # "RAW" \/ d.refname # d.heap[E].name THEN d
     ELSE IF raws = <<>> THEN [d EXCEPT !.refname = None]
     ELSE [d EXCEPT !.refname = d.heap[raws[1]].name, !.reference = raws[1]]

(* The metafields of E are entries next to each other, whose names start with *)
(* that of E: those are freed, whatever the list of metafields says.          *)
Span(d, E) ==
  {e \in Range(d.entry) : /\ HasSlash(d.heap[e].name)
                          /\ Parent(d.heap[e].name) = d.heap[E].name}

FreeAll(d, S) ==
  [d EXCEPT !.heap = [e \in DOMAIN d.heap |-> IF e \in S THEN Free ELSE d.heap[e]],
            !.entry = SelectSeq(d.entry, LAMBDA e : e \notin S)]

(* A metafield leaves the list of its parent, the last one takes its place.   *)
LeaveParent(d, E) ==
  LET P == d.heap[E].parent
      meta == d.heap[P].meta
      i == CHOOSE j \in DOMAIN meta : meta[j] = E
  IN IF ~d.heap[E].sub THEN Invalidate(d, 0)
     ELSE Invalidate([d EXCEPT !.heap[P].meta =
                        Front([meta EXCEPT ![i] = Last(meta)])], P)

Delete(d, E, fl) ==
  LET all == <<E>> \o d.heap[E].meta
      d1 == IF d.heap[E].type = "RAW" /\ fl.data
            THEN [d EXCEPT !.files = @ \ {d.heap[E].filebase}] ELSE d
      d2 == FoldLeft(LAMBDA x, e : FoldLeft(LAMBDA y, C : Forget(y, e, C, fl.deref),
                                            x, all),
                     FixReference(d1, E), d.entry)
      d3 == FreeAll(LeaveParent(d2, E),
                    {E} \cup IF d.heap[E].meta = <<>> THEN {} ELSE Span(d, E))
  IN IF d.heap[E].meta # <<>> /\ ~fl.meta THEN Fail(d, "DELETE")
     ELSE IF /\ ~fl.force
             /\ \E e \in Range(d.entry), C \in Range(all) : InTheWay(d, e, C, fl.deref)
     THEN Fail(d, "DELETE")
     ELSE IF d.heap[E].type = "RAW" /\ fl.data /\ d.heap[E].filebase \notin d.files
     THEN Fail(d, "RAW_IO")
     ELSE Done(d3)

gd_delete(d0, code, fl) ==
  LET d == ClearError(d0)
      f == FindFieldAndRepr(d, code, TRUE, TRUE)
  IN IF f.E = 0 THEN Answer(f.D, "FAILED") ELSE Delete(d, f.E, fl)

gd_delete_alias(d0, code, fl) ==
  LET d == ClearError(d0)
      E == FindField(d, d.entry, code, FALSE)
  IN IF E = 0 THEN Fail(d, "BAD_CODE")
     ELSE IF d.heap[E].type # "ALIAS" THEN Fail(d, "BAD_FIELD_TYPE")
     ELSE Delete(d, E, fl)

-----------------------------------------------------------------------------
(* Changing fields.                                                           *)

(* _GD_AlterScalar for the shift of a PHASE: N.scalar is None, a code, or     *)
(* Keep, the empty string.  A parameter not fetched yet is fetched before a   *)
(* field stops using its CONST.                                               *)
Keep == <<"">>

AlterScalar(d, E, N) ==
  LET e == d.heap[E]
      literal == N.shift # e.shift
      f == FindFieldAndRepr(ClearError(d), e.scalar, TRUE, TRUE)
      deref == N.scalar = None /\ e.scalar # None /\ ~literal
  IN IF N.scalar \notin {None, Keep}
     THEN [d EXCEPT !.heap[E].scalar = N.scalar, !.heap[E].calculated = FALSE]
     ELSE IF deref /\ ~e.calculated
     THEN IF f.E = 0 THEN f.D
          ELSE IF d.heap[f.E].type # "CONST" THEN SetError(f.D)
          ELSE [f.D EXCEPT !.heap[E].scalar = None,
                           !.heap[E].shift = d.heap[f.E].value]
     ELSE IF deref THEN [d EXCEPT !.heap[E].scalar = None]
     ELSE IF literal /\ (N.scalar = None \/ e.scalar = None)
     THEN [d EXCEPT !.heap[E].scalar = None, !.heap[E].shift = N.shift]
     ELSE d

(* _GD_Change for a PHASE.  It does not clear an earlier error, and does      *)
(* nothing while one stands.                                                  *)
AlterPhase(d, code, N) ==
  LET E == FindField(d, d.entry, code, TRUE)
      d1 == AlterScalar(d, E, N)
      moved == N.in # None /\ N.in # d.heap[E].in[1]
  IN IF E = 0 THEN Fail(d, "BAD_CODE")
     ELSE IF d.heap[E].type # "PHASE" THEN Fail(d, "BAD_FIELD_TYPE")
     ELSE IF d.error THEN Answer(d, "FAILED")
     ELSE IF d1.error THEN Answer(d1, "FAILED")
     ELSE Done(IF moved THEN [d1 EXCEPT !.heap[E].in = <<N.in>>,
                                        !.heap[E].entry[1] = 0]
               ELSE d1)

(* gd_put_constant: the fields that use the CONST fetch it again.             *)
PutConstant(d0, code, x) ==
  LET f == FindFieldAndRepr(ClearError(d0), code, TRUE, TRUE)
      d == f.D
      stale == d.heap[f.E].client
  IN IF f.E = 0 THEN Answer(d, "FAILED")
     ELSE IF d.heap[f.E].type # "CONST" THEN Fail(d, "BAD_FIELD_TYPE")
     ELSE Done([d EXCEPT !.heap = [e \in DOMAIN d.heap |->
            IF e = f.E THEN [d.heap[e] EXCEPT !.value = x, !.client = {},
                               !.calculated = @ /\ e \notin stale]
            ELSE IF e \in stale THEN [d.heap[e] EXCEPT !.calculated = FALSE]
            ELSE d.heap[e]]])

PutString(d0, code, x) ==
  LET d == ClearError(d0)
      E == FindField(d, d.entry, code, TRUE)
  IN IF E = 0 THEN Fail(d, "BAD_CODE")
     ELSE IF d.heap[E].type # "STRING" THEN Fail(d, "BAD_FIELD_TYPE")
     ELSE Done([d EXCEPT !.heap[E].value = x])

(* gd_hide and gd_unhide.                                                     *)
Hide(d0, code, hidden) ==
  LET d == ClearError(d0)
  IN Done([d EXCEPT !.heap[FindField(d, d.entry, code, FALSE)].hidden = hidden])

-----------------------------------------------------------------------------
(* Asking about fields.                                                       *)

EntryType(d0, code) ==
  LET f == FindFieldAndRepr(ClearError(d0), code, TRUE, TRUE)
  IN Answer(f.D, IF f.E = 0 THEN "NONE" ELSE f.D.heap[f.E].type)

(* gd_entry: a copy of the entry, its parameter fetched.                      *)
Told(d, e) ==
  IF d.error THEN Answer(d, None)
  ELSE Answer(d, [type |-> e.type, in |-> e.in, scalar |-> e.scalar,
                  shift |-> e.shift, hidden |-> e.hidden])

Entry(d0, code) ==
  LET Tell(d, E) == Told(d, d.heap[E])
      Of(f) == IF f.E = 0 THEN Answer(f.D, None) ELSE Tell(Calculated(f.D, f.E), f.E)
  IN Of(FindFieldAndRepr(ClearError(d0), code, TRUE, TRUE))

(* gd_validate: every input is tried, the last first.                         *)
Validate(d0, code) ==
  LET Try(d, E) ==
        IF d.heap[E].type = "ALIAS" THEN d
        ELSE FoldLeft(LAMBDA x, i : BadInput(x, E, i, TRUE), d,
                      Backwards(Inputs(d, E)))
      Of(f) == IF f.E = 0 THEN Answer(f.D, "BAD")
               ELSE Answer(Try(Calculated(f.D, f.E), f.E), "OK")
  IN Of(FindFieldAndRepr(ClearError(d0), code, TRUE, TRUE))

GetConstant(d0, code) ==
  LET f == FindFieldAndRepr(ClearError(d0), code, TRUE, TRUE)
  IN IF f.E = 0 THEN Answer(f.D, None)
     ELSE IF f.D.heap[f.E].type # "CONST" THEN Fail(f.D, "BAD_FIELD_TYPE")
     ELSE Answer(f.D, f.D.heap[f.E].value)

GetString(d0, code) ==
  LET d == ClearError(d0)
      E == FindField(d, d.entry, code, TRUE)
  IN IF E = 0 THEN Fail(d, "BAD_CODE")
     ELSE IF d.heap[E].type # "STRING" THEN Fail(d, "BAD_FIELD_TYPE")
     ELSE Answer(d, d.heap[E].value)

AliasTarget(d, code) ==
  LET E == FindField(d, d.entry, code, FALSE)
  IN IF E = 0 THEN Fail(d, "BAD_CODE")
     ELSE IF d.heap[E].type # "ALIAS" THEN Fail(d, "BAD_FIELD_TYPE")
     ELSE Answer(d, d.heap[E].in[1])

(* gd_aliases: the field and everything that is an alias for it.              *)
AliasNames(d, code) ==
  LET E == FindField(d, d.entry, code, TRUE)
      aka == {e \in Range(d.entry) : d.heap[e].type = "ALIAS" /\ d.heap[e].entry[1] = E}
  IN IF E = 0 THEN Fail(d, "BAD_CODE")
     ELSE Answer(d, {d.heap[e].name : e \in {E} \cup aka})

FragmentIndex(d0, code) ==
  LET d == ClearError(d0)
  IN IF FindField(d, d.entry, code, FALSE) = 0 THEN Fail(d, "BAD_CODE")
     ELSE Done(d)

Hidden(d0, code) ==
  LET d == ClearError(d0)
  IN Answer(d, d.heap[FindField(d, d.entry, code, FALSE)].hidden)

(* _GD_ListEntry: is E in a list of this kind.                                *)
RECURSIVE ListEntry(_, _, _, _, _)
ListEntry(d, E, meta, r, noalias) ==
  LET e == d.heap[E]
  IN /\ r.hidden \/ ~e.hidden
     /\ meta \/ ~e.sub
     /\ IF e.type = "ALIAS"
        THEN /\ ~noalias
             /\ \/ r.kind = "ALIASES"
                \/ e.entry[1] # 0 /\ ListEntry(d, e.entry[1], meta, r, FALSE)
        ELSE CASE r.kind = "VECTOR" -> e.type \notin Scalars
               [] r.kind = "SCALAR" -> e.type \in Scalars
               [] r.kind = "ALIASES" -> FALSE
               [] OTHER -> r.kind \in {"ALL", e.type}

(* _GD_NEntries, and the names of those entries: of metafields only the last  *)
(* part.                                                                      *)
Entries(d, P, r) ==
  SelectSeq(IF P = 0 THEN d.entry ELSE d.heap[P].meta,
            LAMBDA e : ListEntry(d, e, P # 0, r, r.noalias))
Selected(d, P, r) ==
  LET from == IF P = 0 THEN 1 ELSE Len(d.heap[P].name) + 2
  IN {SubSeq(d.heap[e].name, from, Len(d.heap[e].name)) : e \in Range(Entries(d, P, r))}

ListParent(d, r) == IF r.parent = None THEN 0 ELSE FindField(d, d.entry, r.parent, TRUE)

NEntries(d0, r) ==
  LET P == ListParent(d0, r)
  IN IF r.parent # None /\ (P = 0 \/ (P # 0 /\ d0.heap[P].sub)) THEN Fail(d0, "BAD_CODE")
     ELSE Answer(ClearError(d0), Cardinality(Selected(d0, P, r)))

(* gd_entry_list: a list is kept, with the flags it was made for, until it is *)
(* made invalid.                                                              *)
EntryList(d0, r) ==
  LET d == ClearError(d0)
      P == ListParent(d0, r)
      kept == IF P = 0 THEN d.lists ELSE d.heap[P].lists
      flags == <<r.hidden, r.noalias>>
      names == Selected(d, P, r)
      lists == (r.kind :> [flags |-> flags, names |-> names]) @@ kept
  IN IF r.parent # None /\ (P = 0 \/ (P # 0 /\ d0.heap[P].sub)) THEN Fail(d0, "BAD_CODE")
     ELSE IF r.kind \in DOMAIN kept /\ kept[r.kind].flags = flags
     THEN Answer(d, kept[r.kind].names)
     ELSE IF names = {} THEN Answer(d, {})
     ELSE Answer(IF P = 0 THEN [d EXCEPT !.lists = lists]
                 ELSE [d EXCEPT !.heap[P].lists = lists], names)

(* gd_strings, gd_mstrings: the values of the STRING fields.  Those that are  *)
(* no metafields are kept like a list of names; a string that is replaced is  *)
(* freed, but the list of values goes on pointing to it.                      *)
OfType(parent, type) == [parent |-> parent, kind |-> type, hidden |-> FALSE, noalias |-> FALSE]
Values(d, E) == [i \in DOMAIN E |-> d.heap[E[i]].value]

Strings(d0, parent) ==
  LET d == ClearError(d0)
      r == OfType(parent, "STRING")
      P == ListParent(d, r)
      values == Values(d, Entries(d, P, r))
  IN IF parent # None /\ (P = 0 \/ (P # 0 /\ d.heap[P].sub)) THEN Fail(d, "BAD_CODE")
     ELSE IF parent # None \/ values = <<>> THEN Answer(d, values)
     ELSE IF "VALUES" \in DOMAIN d.lists THEN Answer(d, d.lists["VALUES"])
     ELSE Answer([d EXCEPT !.lists = ("VALUES" :> values) @@ @], values)

(* gd_constants, gd_mconstants: the values of the CONST fields, read anew.    *)
Constants(d0, parent) ==
  LET d == ClearError(d0)
      r == OfType(parent, "CONST")
      P == ListParent(d, r)
      E == Entries(d, P, r)
  IN IF parent # None /\ (P = 0 \/ (P # 0 /\ d.heap[P].sub)) THEN Fail(d, "BAD_CODE")
     ELSE IF \E e \in Range(E) : d.heap[e].type = "ALIAS" THEN Fail(d, "INTERNAL_ERROR")
     ELSE Answer(d, Values(d, E))

-----------------------------------------------------------------------------
(* The table the entries stand for.                                           *)

Pub(e) ==
  [type |-> e.type, in |-> e.in, scalar |-> e.scalar,
   shift |-> IF e.scalar = None THEN e.shift ELSE 0,
   value |-> e.value, hidden |-> e.hidden, sub |-> e.sub]

Cat(d) ==
  [c \in {d.heap[e].name : e \in Range(d.entry)} |->
     Pub(d.heap[CHOOSE e \in Range(d.entry) : d.heap[e].name = c])]

ReferenceName(d) == IF d.reference = 0 THEN None ELSE d.heap[d.reference].name

C == INSTANCE Catalogue WITH
       fields <- Cat(D), files <- D.files, reference <- ReferenceName(D)

-----------------------------------------------------------------------------
(* What callers must not do: the code does it wrong.  K is Cat(d).            *)

ListsClear(d, P) == (IF P = 0 THEN d.lists ELSE d.heap[P].lists) = NoLists
AllClear(d) ==
  /\ d.lists = NoLists
  /\ \A e \in Live(d) : d.heap[e].lists = NoLists

(* common.c:903: an input resolved with a representation is not resolved      *)
(* again when a field of that whole name appears.                             *)
Captures(d, name) ==
  \E e \in Live(d) : \E i \in Inputs(d, e) :
    d.heap[e].in[i] = name /\ d.heap[e].entry[i] # 0

(* parse.c:2189: aliases that lead to each other are resolved to each other.  *)
(* common.c:124, add.c:1984: an alias that leads nowhere does not count as a  *)
(* field of that name.  parse.c:2246: an alias of an alias that led nowhere   *)
(* is not resolved again when a field is added.                               *)
MayName(d, K, name, f) ==
  LET K1 == K @@ (name :> f)
  IN /\ NoLoops(K1)
     /\ ~(IsAlias(K, name) /\ Named(K, name, TRUE) = None)
     /\ ~Captures(d, name)
     /\ \A e \in Range(d.entry) :
          d.heap[e].type = "ALIAS" /\ d.heap[e].entry[1] = 0 /\ d.heap[e].entry[2] # 0 =>
            Named(K1, d.heap[e].name, TRUE) = None

(* Names a field below an alias: add.c:128 uses the alias's own name; from    *)
(* Barth-style names add.c:69 finds the parent, but not that it is a          *)
(* metafield or that the alias leads nowhere (add.c:504).                     *)
PlainParent(K, parent, code) ==
  /\ parent # None => ~IsAlias(K, parent)
  /\ parent = None /\ HasSlash(code) => ~IsAlias(K, Parent(code))

(* The lists of the others do not know of an alias for a new metafield.       *)
WaitedFor(K, name) == \E a \in Aliases(K) : Named(K, a, TRUE) \in {None, name}

FullName(parent, code) == IF parent = None THEN code ELSE Join(parent, code)

MayAdd(d, K, a) ==
  LET name == FullName(a.parent, a.code)
  IN /\ PlainParent(K, a.parent, a.code)
     /\ MayName(d, K, name, a.data @@ [sub |-> HasSlash(name)])
     /\ HasSlash(name) /\ WaitedFor(K, name) => d.lists = NoLists

(* add.c:600: no list is made invalid, and a metafield of a metafield frees   *)
(* its parent's own parent (parse.c:1625).  parse.c:1544: a RAW field becomes *)
(* the reference field before it is known not to be a duplicate, and not by   *)
(* name; its file is made before that, too (parse.c:1541).                    *)
MayAddSpec(d, K, a) ==
  /\ MayAdd(d, K, a)
  /\ AllClear(d)
  /\ a.parent # None => ~(a.parent \in DOMAIN K /\ K[a.parent].sub)
  /\ a.data.type = "RAW" =>
       /\ d.refname # None
       /\ Named(K, FullName(a.parent, a.code), FALSE) # None =>
            FullName(a.parent, a.code) \in d.files

(* add.c:1997: the alias of a field's metafield is listed with the others.    *)
(* add.c:1937: an earlier error makes gd_madd_alias fail.                     *)
MayAddAlias(d, K, a) ==
  LET name == FullName(a.parent, a.code)
  IN /\ PlainParent(K, a.parent, a.code)
     /\ MayName(d, K, name, Pub(Malloc(name, AliasTo(a.target))))
     /\ a.parent # None \/ HasSlash(name) => d.lists = NoLists
     /\ a.parent # None => ~d.error

(* mod.c:207: so does it for gd_alter_entry and its kin.  mod.c:67: a         *)
(* parameter not fetched yet is taken from the CONST, not from the caller.    *)
MayAlter(d, K, code, N) ==
  LET E == FindField(d, d.entry, code, TRUE)
  IN /\ ~d.error
     /\ E # 0 /\ d.heap[E].type = "PHASE" /\ d.heap[E].scalar # None =>
          d.heap[E].calculated \/ N.scalar # None

(* entry.c:677: not finding the field is not noticed; no list is made         *)
(* invalid.                                                                   *)
MayHide(d, K, code) == Named(K, code, FALSE) # None /\ AllClear(d)

(* putdata.c:680: the list of values keeps the old string.                    *)
MayPutString(d, K, code) ==
  LET n == Named(K, code, TRUE)
  IN n # None /\ K[n].type = "STRING" /\ ~K[n].sub => "VALUES" \notin DOMAIN d.lists

(* field_list.c:415, 317: an alias has no value of its own.                   *)
MayListValues(K) ==
  \A a \in Aliases(K) : Named(K, a, TRUE) # None => ~IsScalar(K, Named(K, a, TRUE))

(* A field whose input is a scalar makes the renaming of others fail.         *)
NoMisuse(K) ==
  \A e \in DOMAIN K : \A i \in DOMAIN K[e].in :
    ~IsAlias(K, e) /\ Meaning(K, K[e].in[i]) # None => ~IsScalar(K, Meaning(K, K[e].in[i]))

UsersOf(K, c) ==
  {e \in DOMAIN K : UsesAsInput(K, e, c) \/ UsesAsScalar(K, e, c) \/ AliasFor(K, e, c)}
Below(K, c) == {m \in DOMAIN K : HasSlash(m) /\ Parent(m) = c}
Mentions(K, e) == Range(K[e].in) \cup (IF K[e].scalar = None THEN {} ELSE {K[e].scalar})

(* gd_rename: add.c:222, a metafield may not know its parent.  name.c:442,    *)
(* metafields keep the name of their parent.  name.c:598, the dot list is not *)
(* made longer.  The reference field of a fragment is known by its name.      *)
MayRenameEntry(d, K, E, new) ==
  LET e == d.heap[E]
  IN /\ e.sub => e.parent # 0
     /\ Below(K, e.name) = {}
     /\ Contains(new, ".") => e.type = "RAW" \/ Contains(e.name, ".")
     /\ d.refname # e.name \/ e.type # "RAW"

(* name.c:216: a literal parameter is compared as if it were a code.  name.c: *)
(* 238: the code of a CONST gets the representation of an input.  entry.c:    *)
(* 205: without GD_REN_UPDB a parameter not fetched yet is never fetched.     *)
(* name.c:301, 308: inputs that only the new name resolves, or of metafields  *)
(* whose code is longer than their name, overrun the list of new codes.       *)
(* name.c:381: a field that is its own input stays so.                        *)
MayFollow(d, K, E, new, upd) ==
  LET c == d.heap[E].name
      name == NewName(d, E, new)
      type == IF Named(K, c, TRUE) = None THEN "ALIAS" ELSE K[Named(K, c, TRUE)].type
  IN /\ NoMisuse(K)
     /\ c \notin UsersOf(K, c)
     /\ type = "CONST" =>
          /\ \A e \in DOMAIN K : K[e].type \in {"RAW", "PHASE"} => K[e].scalar # None
          /\ \A e \in DOMAIN K : K[e].scalar # None /\ Base(K[e].scalar) = c =>
               upd /\ ~HasRepr(K[e].scalar) /\ \A i \in DOMAIN K[e].in : ~HasRepr(K[e].in[i])
     /\ upd /\ d.heap[E].sub => UsersOf(K, c) = {}
     /\ upd /\ ~IsAlias(K, c) =>
          \A e \in DOMAIN K : \A x \in Mentions(K, e) : Meaning(K, x) = None => Base(x) # name

(* name.c:474: an alias of the field may have the new name already.  Lists of *)
(* other fields are not made invalid when aliases lead elsewhere; and inputs  *)
(* reached through an alias stay resolved.                                    *)
MayRename(d, K, old, new, upd) ==
  LET E == FindField(d, d.entry, old, FALSE)
      name == NewName(d, E, new)
      K1 == [n \in (DOMAIN K \ {old}) \cup {name} |-> IF n = name THEN K[old] ELSE K[n]]
  IN E # 0 =>
       /\ old = d.heap[E].name
       /\ MayRenameEntry(d, K, E, new)
       /\ MayFollow(d, K, E, new, upd)
       /\ ~IsAlias(K, name)
       /\ ~Captures(d, name)
       /\ NoLoops(K1) /\ NoLoops(C!Renamed(K, old, name, upd))
       /\ d.heap[E].sub /\ Aliases(K) # {} => d.lists = NoLists
       /\ IsAlias(K, old) => \A e \in DOMAIN K : \A x \in Mentions(K, e) :
            ~(HasSlash(x) /\ Parent(x) = old)

(* gd_delete: del.c:505, the place given is that of the alias, not of the     *)
(* field.  common.c:903, a dotted field stays in the dot list.  constant.c:   *)
(* 223, a field stays among the clients of a CONST.  del.c:39, 51, only some  *)
(* inputs are compared, as they are spelled.  del.c:78, an alias of an alias  *)
(* is not found, nor (parse.c:2246) resolved again after GD_DEL_FORCE.        *)
(* del.c:312, aliases of a CONST or STRING are not looked for.                *)
MayDeleteOne(d, K, E, fl) ==
  LET c == d.heap[E].name
      const == d.heap[E].type = "CONST"
      string == d.heap[E].type = "STRING"
  IN /\ ~Contains(c, ".")
     /\ \A g \in Live(d) : E \notin d.heap[g].client
     /\ \A a \in Aliases(K) : Named(K, K[a].in[1], FALSE) = c \/ Named(K, a, TRUE) = c =>
          /\ ~fl.force /\ ~string
          /\ const => fl.deref
          /\ Named(K, a, TRUE) = c
     /\ \A e \in DOMAIN K : UsesAsInput(K, e, c) =>
          /\ ~const /\ ~string
          /\ \A i \in DOMAIN K[e].in : Meaning(K, K[e].in[i]) = c =>
               K[e].in[i] = c /\ (K[e].type = "MULTIPLY" => i = 2)
     /\ \A e \in DOMAIN K : UsesAsScalar(K, e, c) =>
          Base(K[e].scalar) = c /\ (fl.force => fl.deref)

(* del.c:455, a metafield may not know its parent; del.c:395, the reference   *)
(* field is replaced only when it is known by its name and another is there;  *)
(* del.c:439, an alias below the field is freed with its metafields.          *)
MayDelete(d, K, code, fl) ==
  LET E == FindFieldAndRepr(ClearError(d), code, TRUE, FALSE).E
      c == d.heap[E].name
      all == {E} \cup IF fl.meta THEN Range(d.heap[E].meta) ELSE {}
  IN E # 0 =>
       /\ Base(code) = c
       /\ \A e \in all : MayDeleteOne(d, K, e, fl)
       /\ d.heap[E].sub => d.heap[E].parent # 0
       /\ d.heap[E].meta # <<>> => Below(K, c) = MetaOf(K, c)
       /\ d.reference = E =>
            d.refname = c /\ \E x \in DOMAIN K : x # c /\ K[x].type = "RAW"

(* del.c:78: aliases of the alias, and inputs reached through it, stay        *)
(* resolved.                                                                  *)
MayDeleteAlias(d, K, code, fl) ==
  IsAlias(K, code) =>
    /\ \A a \in Aliases(K) : Named(K, K[a].in[1], FALSE) # code
    /\ \A e \in DOMAIN K : \A x \in Mentions(K, e) :
         /\ ~(HasSlash(x) /\ Parent(x) = code)
         /\ Base(x) = code => /\ x = code
                              /\ x # K[e].scalar
                              /\ K[e].type = "MULTIPLY" => K[e].in[1] # x

-----------------------------------------------------------------------------
(* The calls of one caller; any order, as long as nothing above is done.      *)

Kit == Kits[kit]
Calls(name) == name \in Kit.calls

Init ==
  /\ kit \in DOMAIN Kits
  /\ D = [heap |-> [e \in 1 .. Kits[kit].room |-> Free], entry |-> <<>>, dot |-> <<>>,
          lists |-> NoLists, refname |-> None, reference |-> 0, files |-> {},
          standards |-> Kits[kit].standards, error |-> FALSE]

(* Of the error of a failed call only gd_alter_phase, gd_madd_alias and the   *)
(* questions about aliases take notice; a kit without them forgets it.        *)
Return(r) ==
  /\ D' = [r.D EXCEPT !.error = @ /\ Kit.sticky]
  /\ UNCHANGED kit

gd_add ==
  /\ Calls("add") /\ Room(D)
  /\ \E a \in Kit.adds :
       MayAdd(D, Cat(D), a) /\ Return(Add(D, a.data, a.parent, a.code))

gd_add_spec ==
  /\ Calls("add_spec") /\ Room(D)
  /\ \E a \in Kit.adds :
       MayAddSpec(D, Cat(D), a) /\ Return(AddSpec(D, a.data, a.parent, a.code))

gd_add_alias ==
  /\ Calls("alias") /\ Room(D)
  /\ \E a \in Kit.aliases :
       MayAddAlias(D, Cat(D), a) /\ Return(AddAlias(D, a.parent, a.code, a.target))

Delete_ ==
  /\ Calls("delete")
  /\ \E c \in Kit.codes, fl \in Kit.flags :
       MayDelete(D, Cat(D), c, fl) /\ Return(gd_delete(D, c, fl))

DeleteAlias ==
  /\ Calls("delete")
  /\ \E c \in Kit.codes, fl \in Kit.flags :
       MayDeleteAlias(D, Cat(D), c, fl) /\ Return(gd_delete_alias(D, c, fl))

gd_rename ==
  /\ Calls("rename")
  /\ \E c \in Kit.codes, new \in Kit.names, upd \in BOOLEAN, data \in Kit.data :
       MayRename(D, Cat(D), c, new, upd) /\ Return(Rename(D, c, new, upd, data))

gd_hide ==
  /\ Calls("hide")
  /\ \E c \in Kit.codes, hidden \in BOOLEAN :
       MayHide(D, Cat(D), c) /\ Return(Hide(D, c, hidden))

gd_alter_phase ==
  /\ Calls("alter")
  /\ \E c \in Kit.codes, N \in Kit.alters :
       MayAlter(D, Cat(D), c, N) /\ Return(AlterPhase(D, c, N))

gd_put_constant ==
  /\ Calls("put")
  /\ \E c \in Kit.codes, x \in Kit.values : Return(PutConstant(D, c, x))

gd_put_string ==
  /\ Calls("put")
  /\ \E c \in Kit.codes, x \in Kit.values :
       MayPutString(D, Cat(D), c) /\ Return(PutString(D, c, x))

(* The questions that leave something behind in the entries.                  *)
gd_entry == Calls("entry") /\ \E c \in Kit.codes : Return(Entry(D, c))
gd_validate == Calls("validate") /\ \E c \in Kit.codes : Return(Validate(D, c))
gd_entry_list == \E r \in Kit.lists : Return(EntryList(D, r))
gd_strings == Calls("values") /\ MayListValues(Cat(D)) /\ Return(Strings(D, None))

Next ==
  \/ gd_add \/ gd_add_spec \/ gd_add_alias
  \/ Delete_ \/ DeleteAlias \/ gd_rename
  \/ gd_hide \/ gd_alter_phase \/ gd_put_constant \/ gd_put_string
  \/ gd_entry \/ gd_validate \/ gd_entry_list \/ gd_strings

Spec == Init /\ [][Next]_vars

-----------------------------------------------------------------------------
(* No pointer outlives the entry it points to: resolved inputs and aliases,   *)
(* clients of a CONST, metafields and their parents, the dot list and the     *)
(* reference field, all of which later calls follow without a test.           *)
PointersOf(e) ==
  LET x == D.heap[e]
  IN {x.entry[i] : i \in IF x.type = "ALIAS" THEN {1} ELSE DOMAIN x.in}
       \cup x.client \cup Range(x.meta) \cup {x.parent}
PointersLive ==
  /\ Range(D.entry) = Live(D)
  /\ Range(D.dot) \subseteq Live(D)
  /\ D.reference \in Live(D) \cup {0}
  /\ \A e \in Live(D) : PointersOf(e) \subseteq Live(D) \cup {0}

(* The tables agree with one another: the entries are strictly sorted, so     *)
(* that a binary search finds them; the dot list holds the fields with a dot; *)
(* the metafields of a field are those named after it; the reference field is *)
(* known by its name; and a field whose parameter has been fetched from a     *)
(* CONST is among the fields that will fetch it again when it changes.        *)
StrictlySorted(list) ==
  \A i \in 1 .. Len(list) - 1 : Less(D.heap[list[i]].name, D.heap[list[i + 1]].name)
TablesAgree ==
  /\ StrictlySorted(D.entry)
  /\ StrictlySorted(D.dot)
  /\ Range(D.dot) = {e \in Live(D) : Contains(D.heap[e].name, ".")}
  /\ \A p \in Live(D) : \A e \in Live(D) :
       e \in Range(D.heap[p].meta) <=>
         D.heap[e].sub /\ Parent(D.heap[e].name) = D.heap[p].name
  /\ D.refname = ReferenceName(D)
  /\ LET K == Cat(D)
     IN \A e, c \in Live(D) :
          D.heap[e].calculated /\ UsesAsScalar(K, D.heap[e].name, D.heap[c].name) =>
            e \in D.heap[c].client

(* Whatever is cached, a question is answered from the fields there are when  *)
(* it is asked.                                                               *)
Says(r, can, say) == r.ok = can /\ (can => r.say = say)

AnswersCode(K, c) ==
  LET m == Meaning(K, c)
      n == Named(K, c, TRUE)
      d == Named(K, c, FALSE)
      Is(x, type) == x # None /\ K[x].type = type
  IN /\ Says(EntryType(D, c), m # None, K[m].type)
     /\ Says(Entry(D, c), m # None /\ ScalarGiven(K, m),
             [type |-> K[m].type, in |-> K[m].in, scalar |-> K[m].scalar,
              shift |-> Parameter(K, m), hidden |-> K[m].hidden])
     /\ Says(Validate(D, c), Valid(K, m), "OK")
     /\ Says(GetConstant(D, c), Is(m, "CONST"), K[m].value)
     /\ Says(GetString(D, c), Is(n, "STRING"), K[n].value)
     /\ Says(FragmentIndex(D, c), d # None, "OK")
     /\ d # None => Hidden(D, c).say = K[d].hidden
     /\ ~D.error =>
          /\ Says(AliasTarget(D, c), Is(d, "ALIAS"), K[d].in[1])
          /\ Says(AliasNames(D, c), n # None, {n} \cup {a \in Aliases(K) : AliasFor(K, a, n)})

(* The values of the fields named, in some order.                             *)
IsValueList(K, names, parent, values) ==
  LET Value(c) == K[IF parent = None THEN c ELSE Join(Named(K, parent, TRUE), c)].value
  IN /\ Len(values) = Cardinality(names)
     /\ Range(values) = {Value(c) : c \in names}

AnswersList(K, r) ==
  LET can == r.parent = None \/ (Named(K, r.parent, TRUE) # None
                                 /\ ~K[Named(K, r.parent, TRUE)].sub)
      Lists(answer, type) ==
        /\ answer.ok = can
        /\ can => IsValueList(K, Listing(K, OfType(r.parent, type)), r.parent, answer.say)
  IN /\ Says(EntryList(D, r), can, Listing(K, r))
     /\ Says(NEntries(D, r), can, Cardinality(Listing(K, r)))
     /\ MayListValues(K) => /\ Lists(Strings(D, r.parent), "STRING")
                            /\ Lists(Constants(D, r.parent), "CONST")

AnswersRight ==
  LET K == Cat(D)
  IN /\ \A c \in Kit.codes : AnswersCode(K, c)
     /\ \A r \in Kit.lists : AnswersList(K, r)

(* An operation is refused for the reasons the catalogue knows, and for no    *)
(* other; what is not refused does what was asked.                            *)
IsFree(K, c) == Named(K, c, TRUE) = None
CanAdd(K, a, type) ==
  LET name == FullName(a.parent, a.code)
      p == IF a.parent # None THEN Named(K, a.parent, TRUE) ELSE Parent(a.code)
      sub == IF a.parent # None THEN a.code ELSE Sub(a.code)
  IN IF a.parent = None /\ ~HasSlash(a.code)
     THEN IsFree(K, name) /\ ValidName(a.code, D.standards)
     ELSE /\ p # None /\ p \in DOMAIN K /\ ~K[p].sub
          /\ IsFree(K, name) /\ ValidName(sub, D.standards)
          /\ type # "RAW"

Does(r, can, K) == r.ok = can /\ Cat(r.D) = IF can THEN K ELSE Cat(D)

RefusalsRight ==
  LET K == Cat(D)
  IN /\ Room(D) => \A a \in Kit.adds :
          LET name == FullName(a.parent, a.code)
              K1 == K @@ (name :> Pub([a.data EXCEPT !.type = @] @@ [sub |-> HasSlash(name)]))
          IN /\ MayAdd(D, K, a) =>
                 Does(Add(D, a.data, a.parent, a.code), CanAdd(K, a, a.data.type), K1)
             /\ Calls("add_spec") /\ MayAddSpec(D, K, a) =>
                 Does(AddSpec(D, a.data, a.parent, a.code), CanAdd(K, a, a.data.type), K1)
     /\ \A c \in Kit.codes :
          /\ Calls("delete") => \A fl \in Kit.flags :
               /\ MayDelete(D, K, c, fl) =>
                    gd_delete(D, c, fl).ok = (Meaning(K, c) # None /\ C!CanDelete(Meaning(K, c), fl))
               /\ MayDeleteAlias(D, K, c, fl) =>
                    gd_delete_alias(D, c, fl).ok = (IsAlias(K, c) /\ C!CanDelete(c, fl))
          /\ Calls("rename") => \A new \in Kit.names, upd \in BOOLEAN :
               MayRename(D, K, c, new, upd) =>
                 LET name == IF K[c].sub THEN Join(Parent(c), new) ELSE new
                 IN Does(Rename(D, c, new, upd, FALSE),
                         /\ c \in DOMAIN K /\ ValidName(new, D.standards)
                         /\ name = c \/ Named(K, name, TRUE) = None,
                         C!Renamed(K, c, name, upd))
          /\ Calls("alter") => \A N \in Kit.alters :
               MayAlter(D, K, c, N) =>
                 LET n == Named(K, c, TRUE)
                 IN AlterPhase(D, c, N).ok = (n # None /\ K[n].type = "PHASE")

(* The whole table implements the catalogue.                                  *)
ImplementsCatalogue == C!Spec
=============================================================================
