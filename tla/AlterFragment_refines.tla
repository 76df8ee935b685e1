------------------------- MODULE AlterFragment_refines -------------------------
(* AlterFragment implements Alter, for any fields, fragments, samples, rates  *)
(* and encodings: if converted files can be put into place, what a fragment   *)
(* declares and the samples of all its fields change together.                *)
EXTENDS AlterFragment_proofs

(* No file that was converted fails to be put into place, or the old one to   *)
(* be deleted.                                                                *)
NoneFail == "rename" \notin Faults /\ "unlink" \notin Faults

(* Then only the change of a text fragment's byte sex, for which there are no *)
(* temporary files, fails in the second loop.                                 *)
Clean == op.err = "unclean" => op.kind = "sex" /\ frag[Here].enc = "text"

LEMMA NoneLeft == ASSUME NoneFail PROVE NoLeftovers
BY DEF NoneFail, NoLeftovers

LEMMA TextIsSame ==
  ASSUME IInv, op.phase # "idle", op.kind = "sex", frag[Here].enc = "text",
         NEW f \in Fields
  PROVE  Same(f)
<1> TypeOK
  BY DEF IInv
<1>1. Here \in Frags
  BY HereType DEF IInv
<1>2. Target(Here).enc = frag[Here].enc /\ Shift(f) = 0
  BY <1>1, TargetIs, ShiftIs
<1>3. ~Flips
  BY <1>2 DEF Flips, Sensitive
<1> QED BY <1>2, <1>3 DEF Same

LEMMA ListedIsText ==
  ASSUME IInv, Busy, NEW f \in op.list, Same(f)
  PROVE  op.kind = "sex" /\ frag[Here].enc = "text"
<1> TypeOK /\ CallOK
  BY DEF IInv
<1>1. f \in Fields /\ Here \in Frags /\ op.to # frag[Here][op.kind]
  BY HereType DEF TypeOK, OpType, CallOK, Busy
<1> QED BY <1>1, ChangeIsText

LEMMA CleanInv ==
  ASSUME NoneFail, IInv, Clean, [Next]_vars
  PROVE  Clean'
<1> TypeOK /\ CallOK
  BY DEF IInv
<1>1. CASE \E f \in Fields : MoveFails(f)
  <2>1. PICK f \in Fields : MoveFails(f)
    BY <1>1
  <2>2. /\ op.phase = "fields" /\ op.err # "io" /\ f \in op.list /\ h[f].temp # "temp"
        /\ op' = [op EXCEPT !.list = op.list \ {f}, !.err = "unclean"] /\ frag' = frag
    BY <2>1 DEF MoveFails, Finishing, IsFirst, NoneFail
  <2>3. Same(f)
    BY <2>2 DEF IInv, Copied, Moved
  <2>4. op.kind = "sex" /\ frag[Here].enc = "text"
    BY <2>2, <2>3, ListedIsText DEF Busy
  <2>5. op'.kind = op.kind /\ Here' = Here
    BY <2>2 DEF TypeOK, OpType, Here
  <2> QED BY <2>2, <2>4, <2>5 DEF Clean
<1>2. CASE \E f \in Fields : MoveOver(f) \/ UnlinkOld(f)
  <2>1. /\ op'.kind = op.kind /\ op'.todo = op.todo /\ frag' = frag
        /\ op'.err = op.err
    <3>1. ASSUME NEW f \in Fields, MoveOver(f)
          PROVE  op'.kind = op.kind /\ op'.todo = op.todo /\ frag' = frag /\ op'.err = op.err
      <4>1. \/ op' = [op EXCEPT !.phase = "unlink"]
            \/ op' = [op EXCEPT !.list = op.list \ {f}]
        BY <3>1 DEF MoveOver
      <4> QED BY <3>1, <4>1 DEF MoveOver, TypeOK, OpType
    <3>2. ASSUME NEW f \in Fields, UnlinkOld(f)
          PROVE  op'.kind = op.kind /\ op'.todo = op.todo /\ frag' = frag /\ op'.err = op.err
      <4>1. op' = [op EXCEPT !.phase = "fields", !.list = op.list \ {f}, !.err = op.err]
        BY <3>2 DEF UnlinkOld, May, NoneFail
      <4> QED BY <3>2, <4>1 DEF UnlinkOld, TypeOK, OpType
    <3> QED BY <1>2, <3>1, <3>2
  <2> QED BY <2>1 DEF Clean, Here
<1>3. CASE op' = op /\ frag' = frag
  BY <1>3 DEF Clean, Here
<1>4. CASE op'.err # "unclean"
  BY <1>4 DEF Clean
<1>5. \/ op' = op /\ frag' = frag
      \/ op'.err # "unclean"
      \/ \E f \in Fields : MoveFails(f) \/ MoveOver(f) \/ UnlinkOld(f)
  <2>1. CASE Alter
    <3>1. CASE \E f \in Fields : Convert(f)
      <4>1. PICK f \in Fields : Convert(f)
        BY <3>1
      <4>2. Converting(f) /\ (Took(f) \/ TookLast(f))
        BY <4>1 DEF Convert, MogrifySame, MogrifyProtected, MogrifyMissing, MogrifyNoTemp,
           MogrifyNoSpace, MogrifyFile, Opens
      <4> QED BY <4>2, ConvertingFacts DEF Took, TookLast, TypeOK, OpType
    <3>2. CASE Refuse \/ GiveUp \/ Declare
      <4>1. Idle.err = "none"
        BY DEF Idle
      <4>2. op' = Idle \/ (op.err = "none" /\ op' = [op EXCEPT !.phase = "start", !.todo = Tail(@)])
        BY <3>2 DEF Refuse, GiveUp, Declare, Finished
      <4> QED BY <4>1, <4>2 DEF TypeOK, OpType
    <3>3. CASE StartFragment
      BY <3>3 DEF StartFragment, CallOK, Busy, TypeOK, OpType
    <3>4. CASE \E f \in Fields : Discard(f)
      BY <3>4 DEF Discard, TypeOK, OpType
    <3> QED BY <2>1, <3>1, <3>2, <3>3, <3>4 DEF Alter, Begin, Idle
  <2> QED BY <2>1 DEF Next, GetData, RawClose, MetaFlush, RewriteFragment, AlterProtection, vars
<1> QED BY <1>1, <1>2, <1>3, <1>4, <1>5

-------------------------------------------------------------------------------
(* What the samples are.                                                      *)

Bar(g) == IF Agreed(g) THEN Target(g) ELSE frag[g]

LEMMA AgreedIs ==
  ASSUME IInv, NEW g
  PROVE  Agreed(g) <=> Busy /\ op.left = {} /\ op.err = "none" /\ Here = g
BY DEF IInv, CallOK, Agreed, Placing, Busy

LEMMA ViewType ==
  ASSUME IInv, NEW f \in Fields
  PROVE  View(f) \in Seq(Samples) \cup {Junk} /\ Junk \notin Seq(Samples)
<1> TypeOK
  BY DEF IInv
<1>1. <<Junk>> \in Seq(Samples) /\ Junk \notin Seq(Samples)
  BY AlterFragmentAssumption DEF Samples
<1> DEFINE agreed == Agreed(FragOf[f])
           m == IF agreed THEN Target(FragOf[f]) ELSE Meta(f)
           file == IF agreed /\ tmp[f] # NoFile THEN tmp[f] ELSE files[f][m.enc]
<1>2. View(f) = IF file = NoFile THEN Junk ELSE IF Right(m, f, file) THEN file.vals ELSE <<Junk>>
  BY DEF View
<1>3. m.enc \in Encs
  BY MetaIs, TargetIs DEF MetaType
<1>4. file \in FileType(Samples)
  <2> HIDE DEF m
  <2> QED BY <1>3 DEF TypeOK
<1>5. file.vals \in Seq(Samples)
  <2> HIDE DEF file
  <2> QED BY <1>4, FileParts
<1> HIDE DEF file, m
<1> QED BY <1>1, <1>2, <1>5

LEMMA ViewNow ==
  ASSUME IInv, NEW f \in Fields, ~Agreed(FragOf[f]), DescribesField(Meta(f), f)
  PROVE  View(f) = IF files[f][Meta(f).enc] = NoFile THEN Junk ELSE files[f][Meta(f).enc].vals
BY MetaIs DEF IInv, View, DescribesField

LEMMA ShiftedZero ==
  ASSUME NEW s \in Seq(Samples) PROVE s \in A!Shifted(s, 0)
BY DEF A!Shifted

LEMMA Unseen ==
  ASSUME \A g \in Frags : Bar(g)' = Bar(g), \A f \in Fields : View(f)' = View(f)
  PROVE  UNCHANGED A!vars
BY DEF A!vars, Bar

LEMMA Seen ==
  ASSUME NEW g \in Frags, \A e \in Frags : e # g => Bar(e)' = Bar(e),
         \A f \in Fields : IF FragOf[f] = g /\ View(f) # Junk
                           THEN View(f)' \in A!Shifted(View(f), (Bar(g)'.off - Bar(g).off) * Spf[f])
                           ELSE View(f)' = View(f)
  PROVE  A!Next
<1>1. A!AlterOne(g)
  BY DEF A!AlterOne, Bar
<1> QED BY <1>1 DEF A!Next
-------------------------------------------------------------------------------
(* Steps that leave what is seen alone.                                       *)

(* Nothing is agreed before or after.                                         *)
LEMMA NotYet ==
  ASSUME \A g \in Frags : ~Agreed(g) /\ ~Agreed(g)', files' = files, frag' = frag
  PROVE  UNCHANGED A!vars
<1>1. \A f \in Fields : FragOf[f] \in Frags /\ Meta(f)' = Meta(f)
  BY AlterFragmentAssumption DEF Meta
<1>2. \A f \in Fields : View(f)' = View(f)
  BY <1>1 DEF View, Right
<1>3. \A g \in Frags : Bar(g)' = Bar(g)
  BY DEF Bar
<1> QED BY <1>2, <1>3, Unseen

(* Agreed before and after.                                                   *)
LEMMA StillAgreed ==
  ASSUME IInv, IInv', NEW f \in Fields, Busy, Busy', op.left = {}, op'.left = {},
         op.err = "none", op'.err = "none", op'.todo = op.todo, op'.kind = op.kind,
         op'.to = op.to, frag' = frag, FragOf[f] = Here,
         \A e \in Fields : e # f => files'[e] = files[e] /\ tmp'[e] = tmp[e],
         (IF tmp'[f] # NoFile THEN tmp'[f] ELSE files'[f][Target(Here).enc])
           = (IF tmp[f] # NoFile THEN tmp[f] ELSE files[f][Target(Here).enc])
  PROVE  UNCHANGED A!vars
<1>1. /\ Here' = Here /\ \A g \in Frags : Target(g)' = Target(g)
      /\ \A e \in Fields : Meta(e)' = Meta(e)
  BY Along
<1>2. \A g \in Frags : (Agreed(g) <=> Here = g) /\ (Agreed(g)' <=> Here = g)
  BY <1>1 DEF IInv, CallOK, Agreed, Placing, Busy
<1>3. \A e \in Fields : FragOf[e] \in Frags
  BY AlterFragmentAssumption
<1>4. View(f)' = View(f)
  BY <1>1, <1>2, <1>3 DEF View, Right
<1>5. \A e \in Fields : e # f => View(e)' = View(e)
  BY <1>1, <1>2, <1>3 DEF View, Right
<1>6. \A g \in Frags : Bar(g)' = Bar(g)
  BY <1>1, <1>2 DEF Bar
<1> QED BY <1>4, <1>5, <1>6, Unseen

LEMMA MoveOverSame ==
  ASSUME NoneFail, IInv, IInv', Clean, NEW f \in Fields, MoveOver(f)
  PROVE  UNCHANGED A!vars
<1> DEFINE enc == Target(Here).enc
<1>1. /\ op.phase = "fields" /\ op.left = {} /\ op.err # "io" /\ f \in op.list
      /\ h[f].temp = "temp" /\ FragOf[f] = Here /\ tmp[f] # NoFile /\ enc \in Encs
      /\ files' = [files EXCEPT ![f][enc] = tmp[f]] /\ tmp'[f] = NoFile /\ frag' = frag
      /\ \A e \in Fields : e # f => tmp'[e] = tmp[e]
  BY MoveOverFacts
<1>2. op.err = "none"
  <2>1. op.err = "unclean" => Same(f)
    BY <1>1, TextIsSame DEF Clean
  <2>2. ~Same(f)
    BY <1>1 DEF IInv, Copied, Moved
  <2> QED BY <2>1, <2>2, <1>1 DEF IInv, TypeOK, OpType
<1>3. /\ op'.phase \in {"fields", "unlink"} /\ op'.left = {} /\ op'.err = "none"
      /\ op'.todo = op.todo /\ op'.kind = op.kind /\ op'.to = op.to
  <2>1. \/ op' = [op EXCEPT !.phase = "unlink"]
        \/ op' = [op EXCEPT !.list = op.list \ {f}]
    BY DEF MoveOver
  <2> QED BY <2>1, <1>1, <1>2 DEF IInv, TypeOK, OpType
<1>4. /\ files'[f][enc] = tmp[f]
      /\ \A e \in Fields : e # f => files'[e] = files[e]
  <2> HIDE DEF enc
  <2> QED BY <1>1 DEF IInv, TypeOK
<1> QED BY <1>1, <1>2, <1>3, <1>4, StillAgreed DEF Busy

LEMMA UnlinkOldSame ==
  ASSUME NoneFail, IInv, IInv', Clean, NEW f \in Fields, UnlinkOld(f)
  PROVE  UNCHANGED A!vars
<1> TypeOK
  BY DEF IInv
<1>1. /\ op.phase = "unlink" /\ IsFirst(f, op.list) /\ UNCHANGED <<tmp, frag>>
      /\ files' = [files EXCEPT ![f][h[f].name] = NoFile]
      /\ op' = [op EXCEPT !.phase = "fields", !.list = op.list \ {f}, !.err = op.err]
  BY DEF UnlinkOld, May, NoneFail
<1>2. /\ FragOf[f] = Here /\ Here \in Frags /\ op.kind = "enc" /\ op.to # Meta(f).enc
      /\ op.to \in Encs /\ Moved(f) /\ op.left = {} /\ op.err # "io"
  BY <1>1, FinishingFacts DEF Busy, Moved, IInv, TypeOK, CallOK
<1>3. op.err = "none"
  BY <1>2 DEF Clean, TypeOK, OpType
<1>4. /\ op'.phase = "fields" /\ op'.left = {} /\ op'.err = "none"
      /\ op'.todo = op.todo /\ op'.kind = op.kind /\ op'.to = op.to
  BY <1>1, <1>2, <1>3 DEF TypeOK, OpType
<1>5. h[f].name = Meta(f).enc
  BY <1>2 DEF IInv, InPlace
<1>6. Target(Here).enc = op.to
  BY <1>2, TargetIs
<1>7. /\ files'[f][op.to] = files[f][op.to]
      /\ \A e \in Fields : e # f => files'[e] = files[e]
  BY <1>1, <1>2, <1>5 DEF TypeOK
<1> QED BY <1>1, <1>2, <1>3, <1>4, <1>6, <1>7, StillAgreed DEF Busy

(* What was seen is now declared.                                             *)
LEMMA DeclareSame ==
  ASSUME NoneFail, IInv, IInv', Declare
  PROVE  UNCHANGED A!vars
<1> TypeOK /\ CallOK
  BY DEF IInv
<1>1. /\ op.phase = "fields" /\ op.left = {} /\ op.list = {} /\ op.err = "none"
      /\ op.todo # <<>> /\ op.move /\ Here \in Frags
      /\ frag' = [frag EXCEPT ![Here] = Target(Here)]
      /\ UNCHANGED <<files, tmp>>
  BY HereType DEF Declare, Finished, CallOK, Busy
<1>2. op'.phase \in {"idle", "start"}
  <2>1. op' = Idle \/ op' = [op EXCEPT !.phase = "start", !.todo = Tail(@)]
    BY DEF Declare
  <2>2. Idle.phase = "idle"
    BY DEF Idle
  <2> QED BY <2>1, <2>2 DEF TypeOK, OpType
<1>3. \A g \in Frags : (Agreed(g) <=> Here = g) /\ ~Agreed(g)'
  BY <1>1, <1>2 DEF Agreed, Placing
<1>4. frag'[Here] = Target(Here) /\ \A g \in Frags : g # Here => frag'[g] = frag[g]
  BY <1>1 DEF TypeOK
<1>5. \A f \in Fields : tmp[f] = NoFile
  BY <1>1 DEF IInv, Copies, NoneFail
<1>6. \A f \in Fields : FragOf[f] \in Frags /\ Meta(f)' = frag'[FragOf[f]]
  BY AlterFragmentAssumption DEF Meta
<1>7. \A f \in Fields : View(f)' = View(f)
  <2> SUFFICES ASSUME NEW f \in Fields PROVE View(f)' = View(f)
    OBVIOUS
  <2>1. CASE FragOf[f] = Here
    BY <2>1, <1>1, <1>3, <1>4, <1>5, <1>6 DEF View, Right
  <2>2. CASE FragOf[f] # Here
    BY <2>2, <1>1, <1>3, <1>4, <1>5, <1>6 DEF View, Right, Meta
  <2> QED BY <2>1, <2>2
<1>8. \A g \in Frags : Bar(g)' = Bar(g)
  BY <1>3, <1>4 DEF Bar
<1> QED BY <1>7, <1>8, Unseen
-------------------------------------------------------------------------------
(* Steps that are a change of the fragment Here.                              *)

(* The samples of f are as good under the new declaration as under the old.   *)
Kept(f) ==
  /\ Target(Here).enc = frag[Here].enc /\ Shift(f) = 0
  /\ \A file \in FileType(Samples) \ {NoFile} :
       Right(frag[Here], f, file) => Right(Target(Here), f, file)

LEMMA SameIsKept ==
  ASSUME TypeOK, NEW f \in Fields, Here \in Frags, Same(f)
  PROVE  Kept(f)
<1>1. frag[Here].sex \in Sexes /\ Target(Here).sex \in Sexes
  BY TargetIs DEF TypeOK, MetaType
<1>2. ~Flips /\ Shift(f) = 0 /\ Target(Here).enc = frag[Here].enc
  BY DEF Same
<1>3. (IF Sensitive(Target(Here).enc) THEN Target(Here).sex ELSE "little")
        = (IF Sensitive(frag[Here].enc) THEN frag[Here].sex ELSE "little")
  BY <1>1, <1>2 DEF Flips, Sexes
<1> QED BY <1>2, <1>3 DEF Kept, Right

LEMMA OneByteIsKept ==
  ASSUME TypeOK, NEW f \in Fields, Here \in Frags, op.kind = "sex", f \in OneByte
  PROVE  Kept(f)
<1>1. Target(Here).enc = frag[Here].enc /\ Shift(f) = 0
  BY TargetIs, ShiftIs
<1> QED BY <1>1 DEF Kept, Right

LEMMA UnchangedIsKept ==
  ASSUME TypeOK, NEW f \in Fields, Here \in Frags, op.to = frag[Here][op.kind]
  PROVE  Kept(f)
<1>1. Target(Here) = frag[Here]
  BY TargetSame
<1>2. Shift(f) = 0
  <2> DEFINE d == Target(Here).off - frag[Here].off
  <2>1. Spf[f] \in Nat /\ d \in Int /\ d = 0
    BY <1>1, AlterFragmentAssumption DEF TypeOK, MetaType
  <2>2. d * Spf[f] = 0
    <3> HIDE DEF d
    <3> QED BY <2>1, Product
  <2> QED BY <2>2 DEF Shift
<1> QED BY <1>1, <1>2 DEF Kept

(* The last field was converted, or there was none to convert.                *)
LEMMA Agreeing ==
  ASSUME NoneFail, Careful, IInv, IInv', op.phase \in {"start", "fields"},
         run = "ok", op.err = "none", op.phase = "fields" => op.left # {},
         op'.phase = "fields", op'.left = {}, op'.err = "none",
         op'.todo = op.todo, op'.kind = op.kind, op'.to = op.to,
         files' = files, frag' = frag,
         \A f \in FieldsOf(Here) : f \in op'.list \/ Kept(f)
  PROVE  A!Next
<1> TypeOK /\ CallOK
  BY DEF IInv
<1>1. /\ Here' = Here /\ \A g \in Frags : Target(g)' = Target(g)
      /\ \A f \in Fields : Meta(f)' = Meta(f) /\ Shift(f)' = Shift(f) /\ Same(f)' = Same(f)
  BY Along
<1>2. Here \in Frags
  BY HereType
<1>3. \A g \in Frags : ~Agreed(g) /\ (Agreed(g)' <=> g = Here)
  BY <1>1 DEF IInv, CallOK, Agreed, Placing, Busy
<1>4. run = "ok" /\ ~Placing
  BY DEF Placing
<1>5. \A f \in Fields : DescribesField(Meta(f), f)
  BY <1>4, AllDescribed
<1>6. /\ \A g \in Frags : g # Here => Bar(g)' = Bar(g)
      /\ Bar(Here) = frag[Here] /\ Bar(Here)' = Target(Here)
  BY <1>1, <1>2, <1>3 DEF Bar
<1>7. ASSUME NEW f \in Fields, FragOf[f] # Here PROVE View(f)' = View(f)
  BY <1>1, <1>3, <1>7, AlterFragmentAssumption DEF View, Right
<1>8. ASSUME NEW f \in Fields, FragOf[f] = Here
      PROVE  IF View(f) # Junk THEN View(f)' \in A!Shifted(View(f), Shift(f))
             ELSE View(f)' = View(f)
  <2> DEFINE old == files[f][Meta(f).enc]
  <2>1. /\ Meta(f) = frag[Here] /\ Meta(f).enc \in Encs
        /\ old \in FileType(Samples)
    BY <1>8, MetaIs DEF Meta, TypeOK
  <2>2. View(f) = IF old = NoFile THEN Junk ELSE old.vals
    BY <1>2, <1>3, <1>5, <1>8, ViewNow
  <2>3. old # NoFile => Right(frag[Here], f, old)
    BY <2>1, <1>5 DEF DescribesField
  <2>4. View(f) \in Seq(Samples) \cup {Junk}
    BY ViewType
  <2>5. CASE tmp'[f] = NoFile /\ Kept(f)
    <3>1. View(f)' = IF old = NoFile THEN Junk
                     ELSE IF Right(Target(Here), f, old) THEN old.vals ELSE <<Junk>>
      BY <2>1, <2>5, <1>1, <1>2, <1>3, <1>8 DEF View, Right, Kept
    <3>2. View(f)' = View(f)
      BY <3>1, <2>1, <2>2, <2>3, <2>5 DEF Kept
    <3>3. Shift(f) = 0
      BY <2>5 DEF Kept
    <3>4. View(f) # Junk => View(f) \in A!Shifted(View(f), Shift(f))
      BY <3>3, <2>4, ShiftedZero
    <3> QED BY <3>2, <3>4
  <2>6. CASE tmp'[f] # NoFile /\ Result(f, tmp'[f])
    <3>1. /\ old # NoFile /\ Right(Target(Here), f, tmp'[f])
          /\ tmp'[f].vals \in A!Shifted(old.vals, Shift(f))
      BY <2>6 DEF Result
    <3>2. View(f)' = tmp'[f].vals
      BY <2>6, <3>1, <1>1, <1>2, <1>3, <1>8 DEF View, Right
    <3>3. View(f) = old.vals
      BY <3>1, <2>2
    <3>4. View(f)' \in A!Shifted(View(f), Shift(f))
      BY <3>1, <3>2, <3>3
    <3>5. old.vals # Junk
      BY <2>1, ViewType, FileParts
    <3> QED BY <3>3, <3>4, <3>5
  <2>7. CASE f \in op'.list
    <3>1. \/ h'[f].temp = "temp" /\ Result(f, tmp[f])'
          \/ h'[f].temp # "temp" /\ Same(f)
      BY <2>7, <1>1 DEF IInv, Copied, Moved
    <3>2. CASE h'[f].temp # "temp" /\ Same(f)
      <4>1. tmp'[f] = NoFile
        BY <3>2 DEF IInv, Copies, NoneFail
      <4> QED BY <4>1, <3>2, <1>2, <2>5, SameIsKept
    <3>3. CASE h'[f].temp = "temp" /\ Result(f, tmp[f])'
      <4>1. Result(f, tmp'[f])
        BY <3>3, <1>1, <1>2 DEF Result, Right
      <4> QED BY <4>1, <2>6 DEF Result
    <3> QED BY <3>1, <3>2, <3>3
  <2>8. CASE f \notin op'.list
    <3>1. tmp'[f] = NoFile
      BY <2>8 DEF IInv, Copies, NoneFail
    <3> QED BY <3>1, <2>5, <2>8, <1>8 DEF FieldsOf
  <2> QED BY <2>7, <2>8
<1>9. \A f \in Fields : (Bar(Here)'.off - Bar(Here).off) * Spf[f] = Shift(f)
  BY <1>6 DEF Shift
<1>10. \A f \in Fields :
         IF FragOf[f] = Here /\ View(f) # Junk
         THEN View(f)' \in A!Shifted(View(f), (Bar(Here)'.off - Bar(Here).off) * Spf[f])
         ELSE View(f)' = View(f)
  BY <1>7, <1>8, <1>9
<1>11. PICK g \in Frags : g = Here
  BY <1>2
<1>12. Bar(g)' = Bar(Here)' /\ Bar(g) = Bar(Here)
  BY <1>1, <1>11 DEF Bar
<1>13. \A e \in Frags : e # g => Bar(e)' = Bar(e)
  BY <1>6, <1>11
<1>14. \A f \in Fields :
         IF FragOf[f] = g /\ View(f) # Junk
         THEN View(f)' \in A!Shifted(View(f), (Bar(g)'.off - Bar(g).off) * Spf[f])
         ELSE View(f)' = View(f)
  BY <1>10, <1>11, <1>12
<1> QED BY <1>13, <1>14, Seen
LEMMA StartFragmentMaps ==
  ASSUME NoneFail, Careful, IInv, IInv', StartFragment
  PROVE  A!Next \/ UNCHANGED A!vars
<1> TypeOK /\ CallOK
  BY DEF IInv
<1>1. /\ op.phase = "start" /\ op.err = "none" /\ op.move /\ files' = files /\ frag' = frag
      /\ op.list = {} /\ run = "ok"
  BY DEF StartFragment, CallOK, Busy, TypeOK
<1>2. PICK left \in SUBSET Fields :
        /\ op' = [op EXCEPT !.phase = "fields", !.left = left]
        /\ left = IF op.to = frag[Here][op.kind] THEN {}
                  ELSE IF op.kind = "sex" THEN FieldsOf(Here) \ OneByte
                  ELSE FieldsOf(Here)
  BY <1>1 DEF StartFragment, FieldsOf
<1>3. /\ op'.phase = "fields" /\ op'.left = left /\ op'.err = "none" /\ op'.list = {}
      /\ op'.todo = op.todo /\ op'.kind = op.kind /\ op'.to = op.to
  BY <1>1, <1>2 DEF TypeOK, OpType
<1>4. Here \in Frags
  BY <1>1, HereType
<1>5. CASE left = {}
  <2>1. \A f \in FieldsOf(Here) : Kept(f)
    <3>1. CASE op.to = frag[Here][op.kind]
      BY <3>1, <1>4, UnchangedIsKept DEF FieldsOf
    <3>2. CASE op.to # frag[Here][op.kind]
      BY <3>2, <1>2, <1>4, <1>5, OneByteIsKept DEF FieldsOf
    <3> QED BY <3>1, <3>2
  <2> QED BY <2>1, <1>1, <1>3, <1>5, Agreeing
<1>6. CASE left # {}
  <2>1. \A g \in Frags : ~Agreed(g) /\ ~Agreed(g)'
    BY <1>1, <1>3, <1>6 DEF Agreed, Placing
  <2> QED BY <2>1, <1>1, NotYet
<1> QED BY <1>5, <1>6

LEMMA ConvertMaps ==
  ASSUME NoneFail, Careful, IInv, IInv', NEW f \in Fields, Convert(f)
  PROVE  A!Next \/ UNCHANGED A!vars
<1> TypeOK /\ CallOK
  BY DEF IInv
<1>1. /\ Converting(f) /\ (Took(f) \/ TookLast(f)) /\ files' = files /\ frag' = frag
  BY DEF Convert, MogrifySame, MogrifyProtected, MogrifyMissing, MogrifyNoTemp, MogrifyNoSpace,
     MogrifyFile, Opens
<1>2. /\ op.phase = "fields" /\ op.left # {} /\ op.err = "none" /\ Here \in Frags
      /\ f \in op.left /\ run = "ok"
  BY <1>1, ConvertingFacts
<1>3. \A g \in Frags : ~Agreed(g)
  BY <1>2 DEF Agreed, Placing
<1>4. CASE TookLast(f)
  <2>1. op'.err = "io"
    BY <1>4 DEF TookLast, TypeOK, OpType
  <2>2. \A g \in Frags : ~Agreed(g)'
    BY <2>1 DEF Agreed, Placing
  <2> QED BY <2>2, <1>1, <1>3, NotYet
<1>5. CASE Took(f)
  <2>1. /\ op'.phase = "fields" /\ op'.left = op.left \ {f} /\ op'.list = op.list \cup {f}
        /\ op'.err = "none" /\ op'.todo = op.todo /\ op'.kind = op.kind /\ op'.to = op.to
    BY <1>2, <1>5 DEF Took, TypeOK, OpType
  <2>2. CASE op'.left # {}
    <3>1. \A g \in Frags : ~Agreed(g)'
      BY <2>2 DEF Agreed, Placing
    <3> QED BY <3>1, <1>1, <1>3, NotYet
  <2>3. CASE op'.left = {}
    <3>1. \A e \in FieldsOf(Here) : e \in op'.list \/ Kept(e)
      <4> SUFFICES ASSUME NEW e \in FieldsOf(Here), e \notin op'.list PROVE Kept(e)
        OBVIOUS
      <4>1. e \notin op.left \cup op.list
        BY <2>1, <2>3
      <4>2. op.kind = "sex" /\ e \in OneByte
        BY <4>1, <1>2 DEF CallOK
      <4> QED BY <4>2, <1>2, OneByteIsKept DEF FieldsOf
    <3> QED BY <3>1, <1>1, <1>2, <2>1, <2>3, Agreeing
  <2> QED BY <2>2, <2>3
<1> QED BY <1>1, <1>4, <1>5

(* There was no temporary file: only the byte sex is declared back.           *)
LEMMA MoveFailsMaps ==
  ASSUME NoneFail, Careful, IInv, IInv', NEW f \in Fields, MoveFails(f)
  PROVE  A!Next \/ UNCHANGED A!vars
<1> TypeOK /\ CallOK
  BY DEF IInv
<1>1. /\ op.phase = "fields" /\ op.left = {} /\ op.err # "io" /\ f \in op.list
      /\ h[f].temp # "temp" /\ files' = files /\ frag' = frag
      /\ op' = [op EXCEPT !.list = op.list \ {f}, !.err = "unclean"]
  BY DEF MoveFails, Finishing, IsFirst, NoneFail
<1>2. \A g \in Frags : ~Agreed(g)'
  BY <1>1 DEF Agreed, TypeOK, OpType
<1>3. CASE op.err # "none"
  <2>1. \A g \in Frags : ~Agreed(g)
    BY <1>3 DEF Agreed
  <2> QED BY <2>1, <1>1, <1>2, NotYet
<1>4. CASE op.err = "none"
  <2>1. PICK g \in Frags : g = Here
    BY <1>1, HereType
  <2>2. op.kind = "sex" /\ frag[g].enc = "text"
    <3>1. Same(f)
      BY <1>1 DEF IInv, Copied, Moved
    <3> QED BY <3>1, <2>1, <1>1, ListedIsText DEF Busy
  <2>3. \A e \in Frags : Agreed(e) <=> e = g
    BY <2>1, <1>1, <1>4, AgreedIs DEF Busy
  <2>4. /\ \A e \in Frags : e # g => Bar(e)' = Bar(e)
        /\ Bar(g) = Target(g) /\ Bar(g)' = frag[g]
    BY <2>3, <1>1, <1>2 DEF Bar
  <2>5. Target(g).off = frag[g].off /\ Target(g).enc = frag[g].enc /\ frag[g].off \in Nat
    BY <2>2, TargetIs DEF TypeOK, MetaType
  <2>6. \A e \in Fields : (Bar(g)'.off - Bar(g).off) * Spf[e] = 0
    <3>1. Bar(g)'.off - Bar(g).off = 0
      BY <2>4, <2>5
    <3> QED BY <3>1, AlterFragmentAssumption, Product
  <2>7. \A e \in Fields : Meta(e)' = Meta(e) /\ FragOf[e] \in Frags
    BY <1>1, AlterFragmentAssumption DEF Meta
  <2>8. ASSUME NEW e \in Fields, FragOf[e] # g PROVE View(e)' = View(e)
    BY <2>3, <2>7, <2>8, <1>1, <1>2 DEF View, Right
  <2>9. ASSUME NEW e \in Fields, FragOf[e] = g PROVE View(e)' = View(e)
    <3>1. Same(e)
      BY <2>1, <2>2, <1>1, TextIsSame
    <3>2. tmp[e] = NoFile
      BY <3>1, <1>1, <1>4 DEF IInv, Copies, Copied, Moved, NoneFail
    <3>3. Meta(e) = frag[g] /\ Agreed(FragOf[e]) /\ ~Agreed(FragOf[e])'
      BY <2>3, <2>9, <1>2 DEF Meta
    <3> QED BY <3>2, <3>3, <2>2, <2>5, <2>7, <2>9, <1>1 DEF View, Right, Sensitive
  <2>10. \A e \in Fields :
           IF FragOf[e] = g /\ View(e) # Junk
           THEN View(e)' \in A!Shifted(View(e), (Bar(g)'.off - Bar(g).off) * Spf[e])
           ELSE View(e)' = View(e)
    BY <2>6, <2>8, <2>9, ViewType, ShiftedZero
  <2> QED BY <2>4, <2>10, Seen
<1> QED BY <1>3, <1>4

-------------------------------------------------------------------------------
(* The refinement.                                                            *)

LEMMA StepMaps ==
  ASSUME NoneFail, Careful, IInv, IInv', Clean, [Next]_vars
  PROVE  A!Next \/ UNCHANGED A!vars
<1> TypeOK /\ CallOK
  BY DEF IInv
<1>1. CASE StartFragment
  BY <1>1, StartFragmentMaps
<1>2. CASE \E f \in Fields : Convert(f)
  BY <1>2, ConvertMaps
<1>3. CASE \E f \in Fields : MoveFails(f)
  BY <1>3, MoveFailsMaps
<1>4. CASE \E f \in Fields : MoveOver(f) \/ UnlinkOld(f)
  BY <1>4, MoveOverSame, UnlinkOldSame
<1>5. CASE Declare
  BY <1>5, DeclareSame
<1>6. CASE /\ files' = files /\ frag' = frag
           /\ op.phase \in {"idle", "start"} \/ op.err # "none"
           /\ op'.phase \in {"idle", "start"} \/ op'.err # "none"
  BY <1>6, NotYet DEF Agreed, Placing
<1>7. CASE UNCHANGED vars
  <2>1. UNCHANGED <<files, tmp, frag, op>>
    BY <1>7 DEF vars
  <2>2. Here' = Here /\ \A g \in Frags : Target(g)' = Target(g) /\ Agreed(g)' = Agreed(g)
    BY <2>1 DEF Here, Target, Agreed, Placing
  <2>3. \A f \in Fields : FragOf[f] \in Frags /\ Meta(f)' = Meta(f)
    BY <2>1, AlterFragmentAssumption DEF Meta
  <2>4. \A f \in Fields : View(f)' = View(f)
    BY <2>1, <2>2, <2>3 DEF View, Right
  <2>5. \A g \in Frags : Bar(g)' = Bar(g)
    BY <2>1, <2>2 DEF Bar
  <2> QED BY <2>4, <2>5, Unseen
<1>8. CASE Alter
  <2>1. Idle.phase = "idle"
    BY DEF Idle
  <2>2. CASE Refuse \/ GiveUp
    BY <2>1, <2>2, <1>6 DEF Refuse, GiveUp, Finished
  <2>3. CASE \E f \in Fields : Discard(f)
    <3>1. op.err = "io" /\ op'.err = "io" /\ files' = files /\ frag' = frag
      BY <2>3 DEF Discard, TypeOK, OpType
    <3> QED BY <3>1, <1>6
  <2>4. CASE \E kind, to, move, todo : Begin(kind, to, move, todo)
    <3>1. op.phase = "idle" /\ op'.phase = "start" /\ files' = files /\ frag' = frag
      BY <2>4 DEF Begin, Quiet, Idle
    <3> QED BY <3>1, <1>6
  <2> QED BY <1>1, <1>2, <1>3, <1>4, <1>5, <1>8, <2>2, <2>3, <2>4 DEF Alter
<1>9. CASE Quiet /\ UNCHANGED <<files, frag, op>>
  BY <1>9, <1>6 DEF Quiet
<1> QED BY <1>7, <1>8, <1>9 DEF Next, GetData, RawClose, MetaFlush, RewriteFragment,
   AlterProtection

(* Unless a file cannot be moved, a call changes a fragment's declaration and *)
(* the samples of all its fields at once: as soon as the last conversion      *)
(* succeeded, for what was then decided is in the temporary files.            *)
THEOREM Refinement ==
  ASSUME NoneFail, Careful, Recodes
  PROVE  Spec => ImplementsAlter
<1>1. Init => Clean
  BY DEF Init, Idle, Clean
<1>2. IInv /\ Clean /\ [Next]_vars => Clean'
  BY CleanInv
<1>3. IInv /\ IInv' /\ Clean /\ [Next]_vars => [A!Next]_(A!vars)
  BY StepMaps
<1>4. Spec => []IInv
  BY NoneLeft, Invariance
<1> QED BY <1>1, <1>2, <1>3, <1>4, PTL DEF Spec, ImplementsAlter, A!Spec
================================================================================
