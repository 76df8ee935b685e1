------------------------------- MODULE Fragments -------------------------------
(* The fragments of a dirfile in memory (D->fragment) and their format files  *)
(* on disk: reading them (_GD_ParseFragment, _GD_Include, gd_open), writing   *)
(* them back (gd_metaflush, gd_rewrite_fragment, gd_close), and the calls     *)
(* that include or remove a fragment, add, move or delete a field, or choose  *)
(* the reference field.  Fragments are known by their index in D->fragment;   *)
(* indices start at 1 here, so that 0 stands for the code's -1.               *)
EXTENDS Integers, SequencesExt

CONSTANTS
  Files,     \* the names of fragments
  Root,      \* the name of the format file
  Raws,      \* the RAW fields
  Others,    \* the other fields
  Names,     \* all fields, in the order of D->entry
  None,      \* the null pointer
  InitDisks, \* what the files may contain at the start
  MaxLevel,  \* GD_MAX_RECURSE_LEVEL
  MaxFrags,  \* bound: fragments that a call may leave
  MaxCalls,  \* bound: calls made
  MaxLines,  \* bound: lines, and ends of files, that one call reads
  Faults,    \* system calls that may fail
  Levels,    \* bound: protection levels that callers set
  Careful    \* callers avoid what the library is known to get wrong

Fields == Raws \cup Others
Freed == "freed"  \* D->reference_field points to memory that was freed

(* A line is a directive or the specification of a field.                     *)
Line(is, of) == [is |-> is, of |-> of]

ProtLevels == {"none", "format"}

FormatLines ==
  {Line("protect", level) : level \in ProtLevels} \cup {Line("include", f) : f \in Files}
  \cup {Line(is, x) : is \in {"field", "reference"}, x \in Fields}

(* What format files may hold; the format file is never missing.              *)
Formats(d) ==
  /\ DOMAIN d \subseteq Files /\ Root \in DOMAIN d
  /\ \A f \in DOMAIN d : d[f] \in Seq(FormatLines)

ASSUME FragmentsAssumption ==
  /\ Root \in Files /\ Raws \cap Others = {}
  /\ None \notin Fields /\ Freed \notin Fields \cup {None}
  /\ Names \in Seq(Fields) /\ \A x \in Fields : \E i \in DOMAIN Names : Names[i] = x
  /\ \A d \in InitDisks : Formats(d)
  /\ MaxLevel \in Nat /\ MaxFrags \in Nat /\ MaxCalls \in Nat /\ MaxLines \in Nat
  /\ Faults \subseteq {"rename"} /\ Levels \subseteq ProtLevels /\ Careful \in BOOLEAN

VARIABLES
  disk,      \* the lines of each format file that exists
  frag,      \* D->fragment
  home,      \* E->fragment_index, 0 for fields that do not exist
  reference, \* D->reference_field
  run,       \* "ok", "invalid" (GD_INVALID) or "broken" (freed memory is used)
  ret,       \* the last call: its name, and whether it set D->error
  calls      \* the number of calls made, to bound the model

vars == <<disk, frag, home, reference, run, ret, calls>>

Indices == 1..Len(frag)
Protected(i) == frag[i].prot = "format"

FragmentOf(file, parent) ==
  [file |-> file, parent |-> parent, modified |-> FALSE, prot |-> "none", ref |-> None]

(* The elements of a sequence that are in S, in their order.                  *)
Among(seq, S) ==
  LET upTo[k \in 0..Len(seq)] ==
        IF k = 0 THEN <<>>
        ELSE IF seq[k] \in S THEN Append(upTo[k - 1], seq[k]) ELSE upTo[k - 1]
  IN upTo[Len(seq)]

(* Fragment i and those it is included by, none if i is 0.                    *)
Above(fr, i) ==
  {j \in DOMAIN fr : \A S \in SUBSET DOMAIN fr :
     i \in S \cup {0} /\ (\A k \in S : fr[k].parent \in S \cup {0}) => j \in S}

(* A fragment that has no reference field yet takes x, and so do the          *)
(* fragments above it up to the first that has one.                           *)
Propagate(fr, i, x) ==
  LET bare == {j \in Above(fr, i) :
                 \A k \in Above(fr, i) : j \in Above(fr, k) => fr[k].ref = None}
  IN [j \in DOMAIN fr |->
        IF j \in bare THEN [fr[j] EXCEPT !.ref = x, !.modified = TRUE] ELSE fr[j]]

-------------------------------------------------------------------------------
(* Reading.  The state being built is a record; open is the stack of files    *)
(* being read, the innermost last, with the line at which each is and its     *)
(* first_raw, which every line with a field assigns; ref is what the          *)
(* innermost knows of a REFERENCE directive.                                  *)
Blank(d, fr) ==
  [disk |-> d, frag |-> fr, home |-> [x \in Fields |-> 0], reference |-> None,
   ref |-> None, open |-> <<>>, err |-> FALSE]

Now == [Blank(disk, frag) EXCEPT !.home = home, !.reference = reference]

Frame(me, level) == [me |-> me, level |-> level, at |-> 0, first |-> None]

ParseFieldSpec(me, x, st) ==
  LET chosen == x \in Raws /\ st.reference = None /\ st.frag[1].ref = None
  IN IF st.home[x] # 0
     THEN [st EXCEPT !.err = TRUE, !.reference = IF chosen THEN Freed ELSE @]
     ELSE [st EXCEPT !.home[x] = me, !.reference = IF chosen THEN x ELSE @,
                     !.open[Len(st.open)].first = IF x \in Raws THEN x ELSE None]

IncludeFile(level, me, file, st) ==
  IF level >= MaxLevel \/ file \notin DOMAIN st.disk THEN [st EXCEPT !.err = TRUE]
  ELSE [st EXCEPT !.frag = Append(@, FragmentOf(file, me)), !.ref = None,
                  !.open = Append(@, Frame(Len(st.frag) + 1, level))]

ParseLine(level, me, line, st) ==
  CASE line.is = "protect"    -> [st EXCEPT !.frag[me].prot = line.of]
    [] line.is = "include"    -> IncludeFile(level + 1, me, line.of, st)
    [] line.is = "field"      -> ParseFieldSpec(me, line.of, st)
    [] line.is = "reference"  -> [st EXCEPT !.ref = line.of]

(* The next line of the innermost file, or its end.                           *)
ParseNext(st) ==
  LET top == Last(st.open)
      lines == st.disk[st.frag[top.me].file]
  IN IF st.err \/ st.open = <<>> THEN st
     ELSE IF top.at < Len(lines)
     THEN ParseLine(top.level, top.me, lines[top.at + 1],
                    [st EXCEPT !.open[Len(st.open)].at = @ + 1])
     ELSE [st EXCEPT !.frag[top.me].ref = IF st.ref # None THEN st.ref ELSE top.first,
                     !.open = Front(@)]

ParseFragment(st) ==
  LET after[k \in 0..MaxLines] == IF k = 0 THEN st ELSE ParseNext(after[k - 1])
      end == after[MaxLines]
  IN [end EXCEPT !.err = @ \/ end.open # <<>>]

Honour(st) ==
  CASE st.ref = None -> st
    [] st.ref \in Raws /\ st.home[st.ref] # 0 -> [st EXCEPT !.reference = st.ref]
    [] OTHER -> [st EXCEPT !.err = TRUE]

OpenDirfile(d) ==
  LET st == ParseFragment([Blank(d, <<FragmentOf(Root, 0)>>) EXCEPT !.open = <<Frame(1, 0)>>])
  IN IF st.err THEN st ELSE Honour(st)

-------------------------------------------------------------------------------
(* Writing.                                                                   *)
Children(fr, i) == Among([j \in 1..Len(fr) |-> j], {j \in 1..Len(fr) : fr[j].parent = i})

Lines(is, of) == [k \in DOMAIN of |-> Line(is, of[k])]

(* Slip: the reference field is written first, not last.                      *)
FormatOfReferenceFirst(fr, hm, i) ==
  (IF fr[i].ref = None THEN <<>> ELSE <<Line("reference", fr[i].ref)>>)
  \o Lines("include", [k \in DOMAIN Children(fr, i) |-> fr[Children(fr, i)[k]].file])
  \o Lines("field", Among(Names, {x \in Fields : hm[x] = i}))

FormatOf(fr, hm, i) ==
  <<Line("protect", fr[i].prot)>>
  \o Lines("include", [k \in DOMAIN Children(fr, i) |-> fr[Children(fr, i)[k]].file])
  \o Lines("field", Among(Names, {x \in Fields : hm[x] = i}))
  \o (IF fr[i].ref = None THEN <<>> ELSE <<Line("reference", fr[i].ref)>>)

(* The fragments in S are flushed.  The first failing rename sets D->error,   *)
(* which keeps those that follow from being renamed, too: see FlushMeta.      *)
Flushed(st, S) ==
  [st EXCEPT
     !.disk = [f \in DOMAIN @ \cup {st.frag[i].file : i \in S} |->
       IF \E i \in S : st.frag[i].file = f
       THEN FormatOf(st.frag, st.home, CHOOSE i \in S : st.frag[i].file = f)
       ELSE @[f]],
     !.frag = [i \in DOMAIN @ |-> IF i \in S THEN [@[i] EXCEPT !.modified = FALSE] ELSE @[i]]]

(* What flushing the modified fragments of a list may do: those before the    *)
(* first that fails are written.                                              *)
Due(st, list, from, to) == {list[k] : k \in {k \in from..to : st.frag[list[k]].modified}}
Reached(list) == IF "rename" \in Faults THEN 0..Len(list) ELSE {Len(list)}

(* Slip: a fragment counts as written before its file is renamed.             *)
FlushMetaTooSoon(st, list) ==
  {[Flushed(st, Due(st, list, 1, n)) EXCEPT
      !.frag = Flushed(st, Due(st, list, 1, Len(list))).frag,
      !.err = Due(st, list, n + 1, Len(list)) # {}] : n \in Reached(list)}

FlushMeta(st, list) ==
  {[Flushed(st, Due(st, list, 1, n)) EXCEPT
      !.err = Due(st, list, n + 1, Len(list)) # {}] : n \in Reached(list)}

AllFragments == [i \in Indices |-> i]

-------------------------------------------------------------------------------
Returns(op, err) == ret' = [op |-> op, err |-> err]

Becomes(st) ==
  disk' = st.disk /\ frag' = st.frag /\ home' = st.home /\ reference' = st.reference

Refuse(op) == Returns(op, TRUE) /\ UNCHANGED <<disk, frag, home, reference, run>>

Call(op, st) == Becomes(st) /\ Returns(op, st.err) /\ run' = "ok"

(* gd_open; of a handle that is invalid nothing is used any more.             *)
Reopens(d) ==
  LET st == OpenDirfile(d)
  IN /\ Becomes(IF st.err THEN Blank(d, <<FragmentOf(Root, 0)>>) ELSE st)
     /\ run' = IF st.err THEN "invalid" ELSE "ok"
     /\ Returns("open", st.err)

(* The format file will be written with the reference field that was parsed.  *)
(* Otherwise writing any fragment, which adds a REFERENCE directive to it, may*)
(* change the reference field of the dirfile: careful callers first choose    *)
(* one with gd_reference.                                                     *)
Settled == frag[1].ref = reference

-------------------------------------------------------------------------------
(* gd_include.  A file that is already part of the dirfile is not included a  *)
(* second time: a bound.                                                      *)
IncludeResult(g, file, creat, ignore) ==
  LET d == IF creat /\ file \notin DOMAIN disk
           THEN [f \in DOMAIN disk \cup {file} |-> IF f = file THEN <<>> ELSE disk[f]]
           ELSE disk
      st == ParseFragment(IncludeFile(1, g, file, [Now EXCEPT !.disk = d]))
      new == st.frag[Len(st.frag)].ref  \* of the fragment parsed last
      marked == IF st.err THEN st ELSE [st EXCEPT !.frag[g].modified = TRUE]
      chosen == IF Len(st.frag) = Len(frag) \/ new = None THEN marked
                ELSE [marked EXCEPT !.frag = Propagate(@, g, new)]
  IN IF ignore \/ Len(st.frag) = Len(frag) THEN chosen ELSE Honour(chosen)

EachOnce(fr) == \A i, j \in DOMAIN fr : fr[i].file = fr[j].file => i = j

(* Careful: the file is correct (a fragment with errors stays, half read, and *)
(* unmarked), it does not change the reference field behind the back of the   *)
(* fragments above it, and it is not nested deeper than gd_open will read,    *)
(* whose count gd_include starts anew.                                        *)
MayInclude(st, ignore) ==
  Careful => /\ Settled /\ ~st.err
             /\ st.reference = st.frag[1].ref
             /\ ignore \/ st.ref = None \/ reference = None
             /\ \A i \in DOMAIN st.frag : Cardinality(Above(st.frag, i)) <= MaxLevel

Include(g, file, creat, ignore) ==
  LET st == IncludeResult(g, file, creat, ignore)
  IN /\ Len(st.frag) <= MaxFrags /\ EachOnce(st.frag)
     /\ MayInclude(st, ignore)
     /\ IF Protected(g) THEN Refuse("include") ELSE Call("include", st)

-------------------------------------------------------------------------------
(* gd_uninclude: the fragment and all below it are collected, flushed or      *)
(* deleted, and removed one by one, the last fragment of the array taking the *)
(* place of the one removed.                                                  *)
CollectNext(c) ==
  IF c.todo = <<>> THEN c
  ELSE [list |-> Append(c.list, Head(c.todo)),
        todo |-> Children(frag, Head(c.todo)) \o Tail(c.todo)]

Collect(i) ==
  LET after[k \in 0..Len(frag)] ==
        IF k = 0 THEN [list |-> <<>>, todo |-> <<i>>] ELSE CollectNext(after[k - 1])
  IN after[Len(frag)].list

(* Slip: the fields of the fragment that was moved keep its old index.        *)
RemoveOneUnrelocated(st, i) ==
  [arr |-> [st.arr EXCEPT ![i] = st.arr[st.n]], n |-> st.n - 1,
   home |-> st.home, gone |-> st.gone \cup {st.arr[i].file}]

RemoveOne(st, i) ==
  [arr |-> [st.arr EXCEPT ![i] = st.arr[st.n]],
   n |-> st.n - 1,
   home |-> [x \in Fields |-> IF st.home[x] = st.n THEN i ELSE st.home[x]],
   gone |-> st.gone \cup {st.arr[i].file}]

(* Slip: only the fields of the fragment itself are deleted.                  *)
WithoutOwnFields(list) == [x \in Fields |-> IF home[x] = list[1] THEN 0 ELSE home[x]]

WithoutFields(list) == [x \in Fields |-> IF Contains(list, home[x]) THEN 0 ELSE home[x]]

Removed(fr, list) ==
  LET start == [arr |-> [fr EXCEPT ![fr[list[1]].parent].modified = TRUE], n |-> Len(fr),
                home |-> WithoutFields(list), gone |-> {}]
      after[k \in 0..Len(list)] ==
        IF k = 0 THEN start ELSE RemoveOne(after[k - 1], list[k])
  IN after[Len(list)]

(* What is freed is not used any more, and indices have fragments.            *)
Intact(r) ==
  /\ \A i \in 1..r.n : r.arr[i].file \notin r.gone /\ r.arr[i].parent <= r.n
  /\ \A x \in Fields : r.home[x] <= r.n

(* Careful: what is removed from the middle of the array is replaced by       *)
(* fragments that stay and that include nothing which stays, since only their *)
(* own index is corrected; and nobody keeps the name of a removed field as    *)
(* the reference field.                                                       *)
MayUninclude(list) ==
  LET n == Len(frag)
      leaves(j) == Contains(list, j)
  IN Careful =>
     /\ Settled
     /\ \A j \in DOMAIN list :
          IF list[j] > n - Len(list) THEN leaves(n + 1 - j)
          ELSE \A c \in Indices : ~leaves(n + 1 - j) /\ (frag[c].parent = n + 1 - j => leaves(c))
     /\ \A x \in Fields :
          leaves(home[x]) => /\ reference # x
                             /\ \A j \in Indices : frag[j].ref = x => leaves(j)

Uninclude(i, del) ==
  LET list == Collect(i)
      p == frag[i].parent
      finish(st) ==
        LET r == Removed(st.frag, list)
        IN /\ disk' = Restrict(st.disk,
                        DOMAIN st.disk \ (IF del THEN {frag[j].file : j \in ToSet(list)} ELSE {}))
           /\ frag' = SubSeq(r.arr, 1, r.n)
           /\ home' = r.home
           /\ reference' = IF reference \in Fields /\ Contains(list, home[reference])
                           THEN Freed ELSE reference
           /\ run' = IF Intact(r) THEN "ok" ELSE "broken"
           /\ Returns("uninclude", FALSE)
  IN /\ MayUninclude(list)
     /\ IF Protected(p) THEN Refuse("uninclude")
        ELSE \E st \in IF del THEN {Now} ELSE FlushMeta(Now, list) :
               IF st.err THEN Call("uninclude", st) ELSE finish(st)

-------------------------------------------------------------------------------
(* gd_add and gd_madd.  A RAW field becomes the reference field of the        *)
(* fragments above it, protected ones too.                                    *)
MayAdd(g, x) ==
  Careful => /\ Settled
             /\ x \in Raws => \A i \in Above(frag, g) : frag[i].ref = None => ~Protected(i)

Add(g, x) ==
  /\ MayAdd(g, x)
  /\ IF Protected(g) \/ home[x] # 0 THEN Refuse("add")
     ELSE Call("add",
            [Now EXCEPT
               !.home[x] = g,
               !.frag = [(IF x \in Raws THEN Propagate(@, g, x) ELSE @)
                         EXCEPT ![g].modified = TRUE],
               !.reference = IF @ = None /\ x \in Raws /\ frag[g].ref = None
                             THEN x ELSE @])

(* gd_delete.  Every fragment that names the field as its reference field     *)
(* takes the first RAW field in it or below it instead, but only the one that *)
(* defined it is marked; and D->reference_field is replaced only if the       *)
(* format file named it and has a replacement.                                *)
NewRef(i, x) ==
  LET inScope == Among(Names, {y \in Raws \ {x} : i \in Above(frag, home[y])})
  IN IF inScope = <<>> THEN None ELSE Head(inScope)

WithoutRef(x) ==
  [i \in Indices |->
    [frag[i] EXCEPT !.ref = IF x \in Raws /\ @ = x THEN NewRef(i, x) ELSE @,
                    !.modified = @ \/ i = home[x]]]

MayDelete(x) ==
  Careful => /\ \A i \in Indices : frag[i].ref = x => home[x] = i
             /\ reference = x => frag[1].ref = x /\ NewRef(1, x) # None

Delete(x) ==
  /\ MayDelete(x)
  /\ IF home[x] = 0 \/ Protected(home[x]) THEN Refuse("delete")
     ELSE Call("delete",
            [Now EXCEPT
               !.home[x] = 0, !.frag = WithoutRef(x),
               !.reference = IF frag[1].ref = x /\ NewRef(1, x) # None THEN NewRef(1, x)
                             ELSE IF @ = x THEN Freed ELSE @])

(* Slip: only the fragment the field leaves is checked.                       *)
MoveUnchecked(x, g) ==
  /\ home[x] \notin {0, g}
  /\ IF Protected(home[x]) THEN Refuse("move")
     ELSE Call("move",
            [Now EXCEPT !.home[x] = g, !.frag[home[x]].modified = TRUE,
                        !.frag[g].modified = TRUE])

(* gd_move, without moving data; in its own fragment a field stays as it is.  *)
Move(x, g) ==
  /\ home[x] \notin {0, g}
  /\ IF Protected(home[x]) \/ Protected(g) THEN Refuse("move")
     ELSE Call("move",
            [Now EXCEPT !.home[x] = g, !.frag[home[x]].modified = TRUE,
                        !.frag[g].modified = TRUE])

(* gd_reference with a field.                                                 *)
Reference(x) ==
  IF home[x] = 0 \/ x \notin Raws \/ Protected(1) THEN Refuse("reference")
  ELSE Call("reference",
         [Now EXCEPT !.reference = x, !.frag[1].ref = x, !.frag[1].modified = TRUE])

(* gd_alter_protection, which marks nothing as modified.                      *)
AlterProtection(i, level) ==
  Call("protect", [Now EXCEPT !.frag[i].prot = level])

(* gd_metaflush.                                                              *)
MayFlush == Careful => Settled

Metaflush == MayFlush /\ \E st \in FlushMeta(Now, AllFragments) : Call("flush", st)

(* gd_rewrite_fragment of the fragments in a list, modified or not.           *)
RewriteFragment(list) ==
  LET forced == [i \in Indices |-> IF Contains(list, i) THEN [frag[i] EXCEPT !.modified = TRUE]
                                   ELSE frag[i]]
      kept(fr) == [i \in Indices |-> IF frag[i].modified THEN fr[i]
                                     ELSE [fr[i] EXCEPT !.modified = FALSE]]
  IN MayFlush /\ \E st \in FlushMeta([Now EXCEPT !.frag = forced], list) :
       Call("flush", [st EXCEPT !.frag = kept(@)])

(* gd_close, which leaves the dirfile open if it cannot be written, and       *)
(* gd_discard, or the end of the process; then the dirfile is opened again.   *)
Close ==
  MayFlush /\ \E st \in FlushMeta(Now, AllFragments) :
    IF st.err THEN Call("close", st) ELSE Reopens(st.disk)

Discard == Reopens(disk)

-------------------------------------------------------------------------------
Init ==
  /\ disk \in InitDisks
  /\ LET st == OpenDirfile(disk)
     IN /\ ~st.err /\ EachOnce(st.frag)
        /\ frag = st.frag /\ home = st.home /\ reference = st.reference
  /\ run = "ok" /\ ret = [op |-> "open", err |-> FALSE] /\ calls = 0

(* A process that ends between two renames may leave a file that two others   *)
(* include; opening such a dirfile is not modelled: a bound.                  *)
Next ==
  /\ run = "ok" /\ calls < MaxCalls /\ calls' = calls + 1
  /\ \/ \E g \in Indices, file \in Files, creat, ignore \in BOOLEAN :
          Include(g, file, creat, ignore)
     \/ \E i \in Indices \ {1}, del \in BOOLEAN : Uninclude(i, del)
     \/ \E g \in Indices, x \in Fields : Add(g, x) \/ Move(x, g)
     \/ \E x \in Fields : Delete(x) \/ Reference(x)
     \/ \E i \in Indices, level \in Levels : AlterProtection(i, level)
     \/ \E list \in {<<i>> : i \in Indices} \cup {AllFragments} : RewriteFragment(list)
     \/ Metaflush \/ Close \/ Discard
  /\ run' = "broken" \/ EachOnce(frag')

Spec == Init /\ [][Next]_vars

-------------------------------------------------------------------------------
(* The tree of files that the fragments stand for.                            *)
Parents(fr) ==
  [f \in {fr[i].file : i \in 2..Len(fr)} |->
     LET p == fr[CHOOSE i \in DOMAIN fr : fr[i].file = f].parent
     IN IF p \in DOMAIN fr THEN fr[p].file ELSE f]

Decls(fr, hm) ==
  [x \in {x \in Fields : hm[x] # 0} |->
     IF hm[x] \in DOMAIN fr THEN fr[hm[x]].file ELSE None]

Tree == INSTANCE IncludeTree
  WITH parent <- Parents(frag), decl <- Decls(frag, home), ref <- reference,
       call <- IF ret.err /\ ret.op # "open" THEN "failed" ELSE ret.op

(* Every call changes the tree of fragments, their fields and the reference   *)
(* field as documented, or fails and changes nothing.                         *)
ImplementsTree == Tree!Spec

(* Variables have their types; and while callers are careful, the indices of  *)
(* parents and of the fragments of fields stay in range and no freed memory   *)
(* is used.                                                                   *)
TypeOK ==
  /\ Formats(disk)
  /\ \A i \in Indices : frag[i] \in
       [file : Files, parent : 0..Len(frag), modified : BOOLEAN,
        prot : ProtLevels, ref : Fields \cup {None}]
  /\ home \in [Fields -> 0..Len(frag)]
  /\ reference \in Raws \cup {None, Freed}
  /\ run \in {"ok", "invalid", "broken"}
  /\ Careful => run # "broken" /\ reference # Freed

IncludedIn(fr, i) == {fr[j].file : j \in {j \in DOMAIN fr : fr[j].parent = i}}

(* What no fragment reports as modified is on disk: a crash loses nothing     *)
(* else, and closing the dirfile may leave such a file alone.                 *)
OnDisk(i, is) ==
  {disk[frag[i].file][k].of : k \in {k \in DOMAIN disk[frag[i].file] :
                                       disk[frag[i].file][k].is = is}}

CleanOnDisk ==
  \A i \in Indices : run = "ok" /\ ~frag[i].modified =>
    /\ frag[i].file \in DOMAIN disk
    /\ OnDisk(i, "field") = {x \in Fields : home[x] = i}
    /\ OnDisk(i, "include") = IncludedIn(frag, i)

(* If nothing is modified, opening the dirfile again gives the same fragments,*)
(* fields and reference field.                                                *)
ReopensSame ==
  (run = "ok" /\ \A i \in Indices : ~frag[i].modified) =>
    LET st == OpenDirfile(disk)
    IN /\ ~st.err
       /\ Parents(st.frag) = Parents(frag) /\ Decls(st.frag, st.home) = Decls(frag, home)
       /\ st.reference = reference

(* A fragment whose format is protected keeps its fields and its includes as  *)
(* long as it is part of the dirfile.                                         *)
ProtectedKept ==
  [][ret'.op # "open" =>
       \A i \in Indices : Protected(i) => \A j \in 1..Len(frag') :
         frag'[j].file = frag[i].file =>
           /\ {x \in Fields : home[x] = i} = {x \in Fields : home'[x] = j}
           /\ IncludedIn(frag, i) = IncludedIn(frag', j)]_vars

===============================================================================
