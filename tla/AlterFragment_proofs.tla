-------------------------- MODULE AlterFragment_proofs --------------------------
(* Theorems about AlterFragment: for any fields, fragments, samples, rates    *)
(* and encodings, as long as callers ask for the data to be recoded.          *)
EXTENDS AlterFragment, TLAPS

(* Callers leave the recoding to the library.                                 *)
Recodes == FALSE \notin Moves

(* No temporary file that could not be deleted is taken for the result of a   *)
(* change of byte sex that had nothing to convert.                            *)
NoLeftovers == "unlink" \in Faults /\ "sex" \in Kinds => "text" \notin Encs

-------------------------------------------------------------------------------
(* The inductive invariant.                                                   *)

Busy == op.phase \in {"fields", "unlink"}

(* The call in progress.                                                      *)
CallOK ==
  /\ IF op.phase = "idle" THEN op.todo = <<>>
     ELSE op.todo # <<>> /\ op.move /\ op.kind \in Kinds
  /\ ~Busy => op.left = {} /\ op.list = {} /\ op.err = "none"
  /\ op.left \cap op.list = {}
  /\ \A f \in op.left \cup op.list : FragOf[f] = Here
  /\ op.left \cup op.list # {} => op.to # frag[Here][op.kind]
  /\ op.left # {} =>
       \A f \in FieldsOf(Here) :
         f \in op.left \cup op.list \/ (op.kind = "sex" /\ f \in OneByte)
  /\ op.phase = "unlink" => op.left = {} /\ op.err # "io"
  /\ op.err = "unclean" => run = "invalid"
  /\ run = "invalid" => op.phase = "idle" \/ op.err = "unclean"
  /\ run = "freed" => op.phase \in {"idle", "fields"}
  /\ \A i, j \in DOMAIN op.todo : op.todo[i] = op.todo[j] => i = j

(* The new file of f is in place beside the old one.                          *)
Moved(f) == op.phase = "unlink" /\ IsFirst(f, op.list)

(* file[1] names the temporary file if there is one.                          *)
Copies ==
  \A f \in Fields :
    /\ h[f].temp = "NULL" => tmp[f] = NoFile
    /\ h[f].temp = "temp" => tmp[f] # NoFile
    /\ tmp[f] # NoFile =>
         "unlink" \in Faults \/ (f \in op.list /\ h[f].temp = "temp")

(* "new" is what the change makes of the data file of f.                      *)
Result(f, new) ==
  LET old == files[f][Meta(f).enc]
  IN /\ old # NoFile /\ new # NoFile
     /\ Right(Target(Here), f, new)
     /\ Careful => new.vals \in A!Shifted(old.vals, Shift(f))

Copied ==
  op.err # "io" =>
    \A f \in op.list :
      \/ /\ h[f].temp = "temp" /\ h[f].name = Meta(f).enc /\ ~h[f].open
         /\ Result(f, tmp[f]) /\ ~Same(f)
      \/ h[f].temp # "temp" /\ Same(f)
      \/ Moved(f)

InPlace ==
  \A f \in Fields : Moved(f) =>
    /\ op.to # Meta(f).enc /\ h[f].name = Meta(f).enc /\ h[f].temp = "NULL"
    /\ ~h[f].open
    /\ Result(f, files[f][op.to])
    /\ \A e \in Encs \ {op.to, Meta(f).enc} : files[f][e] = NoFile

(* Which fields the declarations describe.                                    *)
Settled ==
  /\ run = "ok" /\ ~Busy => \A f \in Fields : DescribesField(Meta(f), f)
  /\ op.phase # "idle" =>
       \A f \in Fields \ FieldsOf(Here) : DescribesField(Meta(f), f)
  /\ \E g \in Frags : \A f \in Fields \ FieldsOf(g) : DescribesField(Meta(f), f)

HereSettled ==
  Busy => \A f \in FieldsOf(Here) :
    /\ op.err = "io" \/ op.left # {} \/ (f \in op.list /\ ~Moved(f)) =>
         DescribesField(Meta(f), f)
    /\ op.err = "none" /\ f \notin op.left \cup op.list =>
         /\ DescribesField(Target(Here), f)
         /\ op.kind = "enc" => h[f].name \in {"NULL", op.to} /\ ~h[f].open

Names ==
  \A f \in Fields :
    \/ h[f].name \in {"NULL", Meta(f).enc}
    \/ /\ Busy /\ FragOf[f] = Here /\ f \notin op.left \cup op.list
       /\ op.err # "io" /\ op.kind = "enc" /\ h[f].name = op.to
    \/ op.phase = "idle" /\ run = "invalid"

Flushed == \A g \in Frags \ modified : format[g] = frag[g]

(* Where the open files stand.  No stream is behind the end of a text file,   *)
(* and careful callers never make one lag behind the cached position.         *)
Stream(f) ==
  /\ ~h[f].open => h[f].io = Start
  /\ Meta(f).enc = "text" => h[f].io.at <= Len(Stored(f))
  /\ Careful => h[f].io.at = h[f].io.pos

Streams == \A f \in Fields : Stream(f)

(* What careful callers saw to still holds for what is not yet converted.     *)
Ready(f) ==
  /\ SeeksWell(f, IF op.kind = "off" THEN Dropped(f, op.to) ELSE 0)
  /\ ~ClosesTwice(f)

Ahead(f) ==
  \/ f \in op.left
  \/ op.phase = "start" /\ FragOf[f] = Here
  \/ \E i \in DOMAIN op.todo : i # 1 /\ op.todo[i] = FragOf[f]

Willing ==
  Careful =>
    /\ \A i \in DOMAIN op.todo :
         op.kind = "off" /\ frag[op.todo[i]].enc = "gzip" =>
           op.to >= frag[op.todo[i]].off
    /\ \A f \in Fields : Ahead(f) => Ready(f)

IInv ==
  /\ TypeOK /\ CallOK /\ Copies /\ Copied /\ InPlace
  /\ Settled /\ HereSettled /\ Names /\ Flushed /\ Streams /\ Willing

-------------------------------------------------------------------------------
(* What the parts of the state are, and what leaves them alone.               *)

LEMMA HereType ==
  ASSUME TypeOK, CallOK, op.phase # "idle"
  PROVE  Here \in Frags /\ frag[Here] \in MetaType
BY DEF TypeOK, OpType, CallOK, Here

LEMMA TargetIs ==
  ASSUME TypeOK, NEW g \in Frags
  PROVE  /\ Target(g) \in MetaType
         /\ Target(g).enc = IF op.kind = "enc" THEN op.to ELSE frag[g].enc
         /\ Target(g).sex = IF op.kind = "sex" THEN op.to ELSE frag[g].sex
         /\ Target(g).off = IF op.kind = "off" THEN op.to ELSE frag[g].off
<1> frag[g] \in MetaType
  BY DEF TypeOK
<1>1. CASE op.kind = "off"
  BY <1>1 DEF TypeOK, OpType, Target, MetaType
<1>2. CASE op.kind = "sex"
  BY <1>2 DEF TypeOK, OpType, Target, MetaType
<1>3. CASE op.kind = "enc"
  BY <1>3 DEF TypeOK, OpType, Target, MetaType
<1> QED BY <1>1, <1>2, <1>3 DEF TypeOK

LEMMA MetaIs ==
  ASSUME TypeOK, NEW f \in Fields
  PROVE  FragOf[f] \in Frags /\ Meta(f) \in MetaType /\ Meta(f).enc \in Encs
BY AlterFragmentAssumption DEF TypeOK, Meta, MetaType

(* As long as neither the call nor the declarations change.                   *)
LEMMA Along ==
  ASSUME op'.todo = op.todo, op'.kind = op.kind, op'.to = op.to, frag' = frag
  PROVE  /\ Here' = Here
         /\ \A g \in Frags : Target(g)' = Target(g)
         /\ \A f \in Fields : /\ Meta(f)' = Meta(f)
                            /\ Shift(f)' = Shift(f) /\ Same(f)' = Same(f)
BY DEF Here, Target, Meta, Shift, Same, Flips

LEMMA StillDescribed ==
  ASSUME NEW f \in Fields, files'[f] = files[f], NEW m
  PROVE  DescribesField(m, f)' <=> DescribesField(m, f)
BY DEF DescribesField

LEMMA NameType ==
  ASSUME TypeOK, NEW f \in Fields
  PROVE  /\ NameOf(f) \in Encs /\ NameOf(f) # "NULL"
         /\ Source(f) \in FileType(Samples) /\ Source(f) = files[f][NameOf(f)]
<1>1. NameOf(f) \in Encs
  BY MetaIs DEF TypeOK, NameOf, HandleType
<1>2. NameOf(f) # "NULL"
  BY <1>1, AlterFragmentAssumption
<1> QED BY <1>1, <1>2 DEF TypeOK, Source

LEMMA FileParts ==
  ASSUME NEW file \in FileType(Samples)
  PROVE  /\ file.vals \in Seq(Samples)
         /\ file # NoFile => file.sex \in Sexes /\ file = [vals |-> file.vals, sex |-> file.sex]
<1>1. <<>> \in Seq(Samples)
  OBVIOUS
<1>2. CASE file = NoFile
  BY <1>1, <1>2 DEF NoFile
<1>3. CASE file # NoFile
  BY <1>3 DEF FileType
<1> QED BY <1>2, <1>3

LEMMA StoredType ==
  ASSUME TypeOK, NEW f \in Fields
  PROVE  Stored(f) \in Seq(Samples) /\ Len(Stored(f)) \in Nat
<1>1. Source(f).vals \in Seq(Samples)
  BY NameType, FileParts
<1>2. <<Junk>> \in Seq(Samples)
  BY DEF Samples
<1>3. Stored(f) \in Seq(Samples)
  BY <1>1, <1>2 DEF Stored
<1> QED BY <1>3

LEMMA FewerIs ==
  ASSUME NEW a \in Int, NEW b \in Int
  PROVE  Fewer(a, b) \in {a, b} /\ Fewer(a, b) <= a /\ Fewer(a, b) <= b
BY DEF Fewer

(* The forward seek of a text file ends at the line asked for, or at the end  *)
(* of the file, unless the newline of the last number read is in the way.     *)
LEMMA SkipToIs ==
  ASSUME NEW s \in StreamType, NEW k \in Nat, NEW lines \in Nat,
         s.at <= lines, s.pos <= k
  PROVE  LET t == SkipTo(s, k, lines)
         IN /\ t \in StreamType /\ t.at <= lines
            /\ s.at = s.pos /\ (s.mid => k = s.pos) => t.at = t.pos /\ t.at = Fewer(k, lines)
<1> DEFINE left == lines - s.at + (IF s.mid THEN 1 ELSE 0)
           n == Fewer(k - s.pos, left)
           at == s.at + n - (IF s.mid /\ n > 0 THEN 1 ELSE 0)
<1>1. s.pos \in Nat /\ s.at \in Nat /\ s.mid \in BOOLEAN
  BY DEF StreamType
<1>2. left \in Nat /\ lines - s.at <= left /\ left <= lines - s.at + 1
      /\ (~s.mid => left = lines - s.at)
  BY <1>1
<1>3. n \in Nat /\ n <= left /\ n <= k - s.pos /\ n \in {k - s.pos, left}
  <2> HIDE DEF left
  <2> QED BY <1>1, <1>2, FewerIs
<1>4. at \in Nat /\ at <= lines
  <2> HIDE DEF n, left
  <2>1. CASE s.mid
    <3>1. left = lines - s.at + 1
      BY <2>1 DEF left
    <3>2. CASE n > 0
      BY <1>1, <1>3, <2>1, <3>1, <3>2
    <3>3. CASE ~(n > 0)
      BY <1>1, <1>3, <2>1, <3>3
    <3> QED BY <3>2, <3>3
  <2>2. CASE ~s.mid
    BY <1>1, <1>2, <1>3, <2>2
  <2> QED BY <2>1, <2>2
<1>5. SkipTo(s, k, lines) = [pos |-> s.pos + n, at |-> at, mid |-> s.mid /\ n = 0]
  BY DEF SkipTo
<1> HIDE DEF at
<1>6. ASSUME s.at = s.pos, s.mid => k = s.pos
      PROVE  at = s.pos + n /\ at = Fewer(k, lines)
  <2>1. CASE s.mid
    <3>1. n = 0 /\ k = s.pos
      BY <2>1, <1>1, <1>3, <1>6
    <3>2. at = s.at
      BY <1>1, <3>1 DEF at
    <3> QED BY <1>1, <1>6, <3>1, <3>2 DEF Fewer
  <2>2. CASE ~s.mid
    <3>1. at = s.at + n
      BY <1>1, <1>3, <2>2 DEF at
    <3>2. n = Fewer(k - s.pos, lines - s.pos)
      BY <1>2, <1>6, <2>2
    <3> HIDE DEF n
    <3> QED BY <1>1, <1>6, <3>1, <3>2 DEF Fewer
  <2> QED BY <2>1, <2>2
<1> HIDE DEF n
<1> QED BY <1>1, <1>3, <1>4, <1>5, <1>6 DEF StreamType

(* Careful callers find the sample they seek.                                 *)
LEMMA SoughtIs ==
  ASSUME TypeOK, NEW f \in Fields, Stream(f), NEW k \in Nat
  PROVE  /\ Sought(f, k) \in StreamType
         /\ Meta(f).enc = "text" => Sought(f, k).at <= Len(Stored(f))
         /\ Careful /\ SeeksWell(f, k) =>
              /\ Sought(f, k).at = Sought(f, k).pos
              /\ Sought(f, k).at = IF Meta(f).enc = "text" THEN Fewer(k, Len(Stored(f)))
                                   ELSE k
<1> DEFINE s == h[f].io
           lines == Len(Stored(f))
<1>1. s \in StreamType
  BY DEF TypeOK, HandleType
<1>2. lines \in Nat
  BY StoredType
<1>3. [pos |-> k, at |-> k, mid |-> FALSE] \in StreamType
  BY DEF StreamType
<1>4. Meta(f).enc \in {"none", "text", "gzip"}
  BY MetaIs, AlterFragmentAssumption
<1>5. CASE Meta(f).enc = "none"
  BY <1>3, <1>5 DEF Sought
<1>6. CASE Meta(f).enc = "gzip"
  BY <1>1, <1>3, <1>6 DEF Sought, SeeksWell, Stream
<1>7. CASE Meta(f).enc = "text"
  <2> DEFINE from == IF k < s.pos THEN Start ELSE s
  <2>1. Sought(f, k) = SkipTo(from, k, lines)
    BY <1>7 DEF Sought
  <2>2. from \in StreamType /\ from.at <= lines /\ from.pos <= k
    BY <1>1, <1>2, <1>7 DEF Stream, Start, StreamType
  <2>3. Careful /\ SeeksWell(f, k) => from.at = from.pos /\ (from.mid => k = from.pos)
    BY <1>1, <1>7 DEF Stream, SeeksWell, Start, StreamType
  <2> HIDE DEF from, lines
  <2>4. Sought(f, k) \in StreamType /\ Sought(f, k).at <= lines
    BY <2>1, <2>2, <1>2, SkipToIs
  <2>5. Careful /\ SeeksWell(f, k) =>
          Sought(f, k).at = Sought(f, k).pos /\ Sought(f, k).at = Fewer(k, lines)
    BY <2>1, <2>2, <2>3, <1>2, SkipToIs
  <2> QED BY <1>7, <2>4, <2>5 DEF lines
<1> QED BY <1>4, <1>5, <1>6, <1>7

(* A stream is where it was, or its file is closed.                           *)
LEMMA StreamSame ==
  ASSUME NEW f \in Fields, Stream(f), h'[f].io = h[f].io, h[f].open => h'[f].open,
         Meta(f)'.enc = Meta(f).enc, Stored(f)' = Stored(f)
  PROVE  Stream(f)'
BY DEF Stream

LEMMA StreamClosed ==
  ASSUME NEW f \in Fields, TypeOK', h'[f].io = Start
  PROVE  Stream(f)'
<1>1. Meta(f)'.enc \in Encs
  BY AlterFragmentAssumption DEF TypeOK, Meta, MetaType
<1>2. NameOf(f)' \in Encs
  BY <1>1 DEF TypeOK, NameOf, HandleType
<1>3. Source(f)'.vals \in Seq(Samples)
  <2>1. Source(f)' \in FileType(Samples)
    BY <1>2 DEF TypeOK, Source
  <2> QED BY <2>1, FileParts
<1>4. Stored(f)' \in Seq(Samples)
  <2>1. <<Junk>> \in Seq(Samples)
    BY DEF Samples
  <2> QED BY <1>3, <2>1 DEF Stored
<1>5. Len(Stored(f)') \in Nat
  BY <1>4
<1> QED BY <1>5 DEF Stream, Start

LEMMA ClosedIs ==
  ASSUME TypeOK, NEW f \in Fields, Stream(f)
  PROVE  /\ Closed(f) \in HandleType /\ ~Closed(f).open /\ Closed(f).io = Start
         /\ Closed(f).name = h[f].name /\ Closed(f).temp = h[f].temp
<1>1. h[f] \in HandleType /\ Start \in StreamType /\ Dangles(f) \in BOOLEAN
  BY DEF TypeOK, HandleType, Start, StreamType, Dangles
<1>2. CASE h[f].open
  BY <1>1, <1>2 DEF Closed, HandleType
<1>3. CASE ~h[f].open
  BY <1>1, <1>3 DEF Closed, Stream
<1> QED BY <1>2, <1>3

LEMMA StreamsSame ==
  ASSUME Streams, TypeOK',
         \A f \in Fields :
           \/ h'[f].io = Start
           \/ /\ h'[f].io = h[f].io /\ (h[f].open => h'[f].open)
              /\ files'[f] = files[f] /\ NameOf(f)' = NameOf(f)
              /\ Meta(f)'.enc = Meta(f).enc
  PROVE  Streams'
<1> SUFFICES ASSUME NEW f \in Fields PROVE Stream(f)'
  BY DEF Streams
<1>1. CASE h'[f].io = Start
  BY <1>1, StreamClosed
<1>2. CASE h'[f].io # Start
  <2>1. Stored(f)' = Stored(f)
    BY <1>2 DEF Stored, Source
  <2> QED BY <1>2, <2>1, StreamSame DEF Streams
<1> QED BY <1>1, <1>2

-------------------------------------------------------------------------------
(* Calls made while no fragment is being altered.                             *)

LEMMA QuietInv ==
  ASSUME IInv, Quiet, UNCHANGED <<files, tmp, frag, op>>, run' \in {run, "freed"},
         TypeOK', Flushed', Streams',
         \A f \in Fields : h'[f].temp = h[f].temp /\ h'[f].name \in {h[f].name, NameOf(f)}
  PROVE  IInv'
<1>1. op.phase = "idle" /\ op.todo = <<>> /\ op.left = {} /\ op.list = {}
  BY DEF Quiet, IInv, CallOK, Busy
<1>2. CallOK'
  BY <1>1 DEF IInv, CallOK, Busy, Quiet
<1>3. Copies'
  BY DEF IInv, Copies
<1>4. Copied' /\ InPlace' /\ HereSettled' /\ Willing'
  BY <1>1 DEF Copied, InPlace, HereSettled, Willing, Moved, Busy, Ahead
<1>5. Settled'
  <2>1. \A f \in Fields : DescribesField(Meta(f), f)' <=> DescribesField(Meta(f), f)
    BY DEF DescribesField, Meta
  <2> QED BY <2>1 DEF IInv, Settled, Busy, FieldsOf, Here
<1>6. Names'
  BY <1>1 DEF IInv, Names, NameOf, Busy, Quiet, Meta
<1> QED BY <1>2, <1>3, <1>4, <1>5, <1>6 DEF IInv

LEMMA GetDataInv ==
  ASSUME IInv, NEW f \in Fields, NEW k \in Nat, NEW n \in Nat, GetData(f, k, n)
  PROVE  IInv'
<1> TypeOK
  BY DEF IInv
<1>1. NameOf(f) \in Encs /\ NameOf(f) # "NULL"
  BY NameType
<1>2. PICK open \in BOOLEAN, io \in StreamType :
        /\ h' = [h EXCEPT ![f] = [@ EXCEPT !.name = NameOf(f), !.open = open, !.io = io]]
        /\ open => h[f].open \/ Source(f) # NoFile
        /\ ~open => io = Start
        /\ Meta(f).enc = "text" => io.at <= Len(Stored(f))
        /\ Careful => io.at = io.pos
  <2>1. CASE ~h[f].open /\ Source(f) = NoFile
    <3>1. h' = [h EXCEPT ![f].name = NameOf(f)]
      BY <2>1 DEF GetData
    <3>2. h[f].io \in StreamType /\ h[f].open = FALSE /\ h[f].io = Start
      BY <2>1 DEF TypeOK, HandleType, IInv, Streams, Stream
    <3>3. h' = [h EXCEPT ![f] = [@ EXCEPT !.name = NameOf(f), !.open = FALSE,
                                          !.io = h[f].io]]
      BY <3>1, <3>2 DEF TypeOK, HandleType
    <3> QED BY <3>2, <3>3 DEF IInv, Streams, Stream
  <2>2. CASE ~(~h[f].open /\ Source(f) = NoFile)
    <3> DEFINE s == Sought(f, k)
               lines == Len(Stored(f))
               got == SubSeq(Stored(f), s.at + 1, Fewer(s.at + n, lines))
               io == [pos |-> s.pos + Len(got), at |-> s.at + Len(got),
                      mid |-> Meta(f).enc = "text" /\ Len(got) = n]
    <3>1. /\ s \in StreamType /\ Stored(f) \in Seq(Samples)
          /\ Meta(f).enc = "text" => s.at <= lines
          /\ Careful => s.at = s.pos
      BY SoughtIs, StoredType DEF IInv, Streams, GetData
    <3>2. s.pos \in Nat /\ s.at \in Nat /\ lines \in Nat
      BY <3>1 DEF StreamType
    <3>3. Len(got) \in Nat /\ (s.at <= lines => s.at + Len(got) <= lines)
      <4> DEFINE last == Fewer(s.at + n, lines)
      <4>1. last \in Nat /\ last <= lines
        <5> HIDE DEF s, lines
        <5> QED BY <3>2 DEF Fewer
      <4>2. got = SubSeq(Stored(f), s.at + 1, last)
        OBVIOUS
      <4> HIDE DEF last, s, lines, got
      <4>3. Len(got) = IF s.at + 1 <= last THEN last - s.at ELSE 0
        BY <3>1, <3>2, <4>1, <4>2 DEF lines
      <4> QED BY <3>2, <4>1, <4>3
    <3>4. h' = [h EXCEPT ![f] = [@ EXCEPT !.name = NameOf(f), !.open = TRUE, !.io = io]]
      BY <2>2 DEF GetData, Opened, TypeOK, HandleType
    <3> HIDE DEF got, s
    <3>5. /\ io \in StreamType /\ io.at = s.at + Len(got) /\ io.pos = s.pos + Len(got)
      BY <3>2, <3>3 DEF StreamType
    <3>6. /\ Meta(f).enc = "text" => io.at <= Len(Stored(f))
          /\ Careful => io.at = io.pos
      BY <3>1, <3>3, <3>5
    <3> HIDE DEF io
    <3> QED BY <2>2, <3>4, <3>5, <3>6
  <2> QED BY <2>1, <2>2
<1>3. /\ UNCHANGED <<files, tmp, frag, format, modified, prot, op>> /\ Quiet
      /\ run' \in {run, "freed"}
  BY DEF GetData, Reopened
<1>4. h' \in [Fields -> HandleType]
  BY <1>1, <1>2 DEF TypeOK, HandleType
<1>5. /\ h'[f].name = NameOf(f) /\ h'[f].temp = h[f].temp
      /\ h'[f].open => h[f].open \/ Source(f) # NoFile
      /\ \A e \in Fields : e # f => h'[e] = h[e]
  BY <1>2 DEF TypeOK, HandleType
<1>6. ASSUME NEW e \in Fields, h'[e].open
      PROVE  h'[e].name # "NULL" /\ Source(e)' # NoFile
  <2>1. CASE e = f
    <3>1. NameOf(f)' = NameOf(f)
      BY <1>1, <1>5 DEF NameOf
    <3>2. Source(f) # NoFile
      BY <2>1, <1>5, <1>6 DEF TypeOK
    <3> QED BY <2>1, <1>1, <1>3, <1>5, <3>1, <3>2 DEF Source
  <2>2. CASE e # f
    BY <2>2, <1>3, <1>5, <1>6 DEF TypeOK, Source, NameOf, Meta
  <2> QED BY <2>1, <2>2
<1>7. TypeOK'
  BY <1>3, <1>4, <1>6 DEF TypeOK
<1>8. Flushed'
  BY <1>3 DEF IInv, Flushed
<1>9. \A e \in Fields : h'[e].temp = h[e].temp /\ h'[e].name \in {h[e].name, NameOf(e)}
  BY <1>5
<1>10. Streams'
  <2> SUFFICES ASSUME NEW e \in Fields PROVE Stream(e)'
    BY DEF Streams
  <2>1. Meta(e)' = Meta(e) /\ NameOf(e)' = NameOf(e)
    BY <1>1, <1>3, <1>9 DEF Meta, NameOf
  <2>2. Stored(e)' = Stored(e)
    BY <2>1, <1>3 DEF Stored, Source
  <2>3. CASE e = f
    BY <2>1, <2>2, <2>3, <1>2, <1>4 DEF Stream, TypeOK, HandleType
  <2>4. CASE e # f
    BY <2>1, <2>2, <2>4, <1>5, StreamSame DEF IInv, Streams
  <2> QED BY <2>3, <2>4
<1> QED BY <1>3, <1>7, <1>8, <1>9, <1>10, QuietInv

LEMMA RawCloseInv ==
  ASSUME IInv, NEW f \in Fields, RawClose(f)
  PROVE  IInv'
<1> TypeOK
  BY DEF IInv
<1>1. /\ UNCHANGED <<files, tmp, frag, format, modified, prot, op, run>> /\ Quiet
      /\ h' = [h EXCEPT ![f] = Closed(f)]
  BY DEF RawClose
<1>2. /\ Closed(f) \in HandleType /\ ~Closed(f).open /\ Closed(f).io = Start
      /\ Closed(f).name = h[f].name /\ Closed(f).temp = h[f].temp
  BY ClosedIs DEF IInv, Streams
<1>3. /\ h' \in [Fields -> HandleType]
      /\ \A e \in Fields : /\ h'[e].temp = h[e].temp /\ h'[e].name = h[e].name
                           /\ h'[e].open => h[e].open
                           /\ h'[e].io = Start \/ h'[e] = h[e]
  <2> DEFINE c == Closed(f)
  <2>1. /\ c \in HandleType /\ ~c.open /\ c.io = Start
        /\ c.name = h[f].name /\ c.temp = h[f].temp /\ h' = [h EXCEPT ![f] = c]
    BY <1>1, <1>2
  <2> HIDE DEF c
  <2> QED BY <2>1 DEF TypeOK
<1>4. \A e \in Fields : Source(e)' = Source(e)
  BY <1>1, <1>3 DEF Source, NameOf, Meta
<1>5. TypeOK'
  BY <1>1, <1>3, <1>4 DEF TypeOK
<1>6. Flushed'
  BY <1>1 DEF IInv, Flushed
<1>7. Streams'
  <2>1. \A e \in Fields : NameOf(e)' = NameOf(e) /\ Meta(e)' = Meta(e)
    BY <1>1, <1>3 DEF NameOf, Meta
  <2> QED BY <2>1, <1>1, <1>3, <1>5, StreamsSame DEF IInv
<1> QED BY <1>1, <1>3, <1>5, <1>6, <1>7, QuietInv

LEMMA FlushInv ==
  ASSUME IInv, NEW g \in Frags, Quiet, FlushFragment(g),
         UNCHANGED <<files, tmp, h, frag, prot, op, run>>
  PROVE  IInv'
<1> TypeOK
  BY DEF IInv
<1>1. \/ format' = format /\ modified' = modified
      \/ format' = [format EXCEPT ![g] = frag[g]] /\ modified' = modified \ {g}
  BY DEF FlushFragment, May
<1>2. format' \in [Frags -> MetaType] /\ modified' \subseteq Frags
  BY <1>1 DEF TypeOK
<1>3. \A e \in Fields : Source(e)' = Source(e)
  BY DEF Source, NameOf, Meta
<1>4. TypeOK'
  BY <1>2, <1>3 DEF TypeOK
<1>5. Flushed'
  BY <1>1 DEF IInv, Flushed, TypeOK
<1>6. Streams'
  <2>1. \A e \in Fields : NameOf(e)' = NameOf(e) /\ Meta(e)' = Meta(e)
    BY DEF NameOf, Meta
  <2> QED BY <2>1, <1>4, StreamsSame DEF IInv
<1> QED BY <1>4, <1>5, <1>6, QuietInv

LEMMA ProtectionInv ==
  ASSUME IInv, NEW gs, NEW p \in Prots, AlterProtection(gs, p)
  PROVE  IInv'
<1> TypeOK
  BY DEF IInv
<1>1. /\ prot' \in [Frags -> Prots] /\ Quiet
      /\ UNCHANGED <<files, tmp, h, frag, format, modified, op, run>>
  BY DEF AlterProtection, TypeOK
<1>2. \A e \in Fields : Source(e)' = Source(e)
  BY <1>1 DEF Source, NameOf, Meta
<1>3. TypeOK'
  BY <1>1, <1>2 DEF TypeOK
<1>4. Flushed'
  BY <1>1 DEF IInv, Flushed
<1>5. Streams'
  <2>1. \A e \in Fields : NameOf(e)' = NameOf(e) /\ Meta(e)' = Meta(e)
    BY <1>1 DEF NameOf, Meta
  <2> QED BY <2>1, <1>1, <1>3, StreamsSame DEF IInv
<1> QED BY <1>1, <1>3, <1>4, <1>5, QuietInv

-------------------------------------------------------------------------------
(* The beginning and the end of a call.                                       *)

LEMMA SourceSame ==
  ASSUME NEW f \in Fields, files'[f] = files[f], h'[f].name = h[f].name,
         Meta(f)' = Meta(f)
  PROVE  NameOf(f)' = NameOf(f) /\ Source(f)' = Source(f)
BY DEF NameOf, Source

LEMMA DescribedSame ==
  ASSUME NEW f \in Fields, files'[f] = files[f], Meta(f)' = Meta(f)
  PROVE  DescribesField(Meta(f), f)' <=> DescribesField(Meta(f), f)
BY DEF DescribesField

LEMMA ReadySame ==
  ASSUME NEW f \in Fields, Meta(f)' = Meta(f), op'.kind = op.kind, op'.to = op.to,
         h'[f].io = h[f].io, h'[f].open = h[f].open, h'[f].stale = h[f].stale
  PROVE  Ready(f)' <=> Ready(f)
BY DEF Ready, SeeksWell, ClosesTwice, Dropped

LEMMA ToDo ==
  ASSUME NEW todo \in {<<g>> : g \in Frags} \cup {[i \in 1..NFrags |-> i - 1]}
  PROVE  /\ todo \in Seq(Frags) /\ todo # <<>>
         /\ \A i, j \in DOMAIN todo : todo[i] = todo[j] => i = j
<1>1. CASE todo \in {<<g>> : g \in Frags}
  <2>1. PICK g \in Frags : todo = <<g>>
    BY <1>1
  <2>2. todo \in Seq(Frags) /\ todo # <<>> /\ DOMAIN todo = {1}
    BY <2>1
  <2> QED BY <2>2
<1>2. CASE todo = [i \in 1..NFrags |-> i - 1]
  <2>1. NFrags \in Nat /\ NFrags >= 1
    BY AlterFragmentAssumption
  <2>2. \A i \in 1..NFrags : todo[i] \in Frags
    BY <1>2, <2>1 DEF Frags
  <2>3. todo \in Seq(Frags) /\ Len(todo) = NFrags
    BY <1>2, <2>1, <2>2
  <2> QED BY <1>2, <2>1, <2>3
<1> QED BY <1>1, <1>2

LEMMA BeginInv ==
  ASSUME IInv, Recodes, NEW kind \in {"off", "sex", "enc"},
         NEW to \in (IF kind = "off" THEN Nat ELSE IF kind = "sex" THEN Sexes ELSE Encs),
         NEW move \in Moves,
         NEW todo \in {<<g>> : g \in Frags} \cup {[i \in 1..NFrags |-> i - 1]},
         Begin(kind, to, move, todo)
  PROVE  IInv'
<1> TypeOK
  BY DEF IInv
<1>1. /\ todo \in Seq(Frags) /\ todo # <<>>
      /\ \A i, j \in DOMAIN todo : todo[i] = todo[j] => i = j
  BY ToDo
<1>2. move = TRUE
  BY AlterFragmentAssumption DEF Recodes
<1>3. op' = [phase |-> "start", kind |-> kind, to |-> to, move |-> TRUE, todo |-> todo,
             left |-> {}, list |-> {}, err |-> "none"]
  BY <1>2 DEF Begin, Idle
<1>4. /\ UNCHANGED <<files, tmp, h, frag, format, modified, prot, run, ret>>
      /\ Quiet /\ kind \in Kinds
      /\ \A i \in DOMAIN todo : MayAlter(kind, to, move, todo[i])
  BY DEF Begin
<1>5. op.phase = "idle" /\ op.todo = <<>> /\ op.left = {} /\ op.list = {} /\ run = "ok"
  BY <1>4 DEF Quiet, IInv, CallOK, Busy
<1>6. op' \in OpType(kind)
  BY <1>1, <1>3 DEF OpType
<1>7. \A f \in Fields : /\ Meta(f)' = Meta(f) /\ Source(f)' = Source(f)
                        /\ NameOf(f)' = NameOf(f)
                        /\ DescribesField(Meta(f), f)' <=> DescribesField(Meta(f), f)
  BY <1>4 DEF Meta, Source, NameOf, DescribesField
<1>8. TypeOK'
  BY <1>3, <1>4, <1>6, <1>7 DEF TypeOK
<1>9. CallOK'
  BY <1>1, <1>3, <1>4, <1>5 DEF CallOK, Busy
<1>10. Copies' /\ Flushed'
  BY <1>3, <1>4, <1>5 DEF IInv, Copies, Flushed
<1>11. Copied' /\ InPlace' /\ HereSettled'
  BY <1>3 DEF Copied, InPlace, HereSettled, Moved, Busy
<1>12. Settled'
  BY <1>3, <1>4, <1>5, <1>7 DEF IInv, Settled, Busy
<1>13. Names'
  BY <1>4, <1>5, <1>7 DEF IInv, Names, Busy
<1>14. Willing'
  <2> SUFFICES ASSUME Careful
               PROVE  /\ \A i \in DOMAIN todo :
                           kind = "off" /\ frag[todo[i]].enc = "gzip" =>
                             to >= frag[todo[i]].off
                      /\ \A f \in Fields : Ahead(f)' => Ready(f)'
    BY <1>3, <1>4, <1>7 DEF Willing
  <2>1. ASSUME NEW f \in Fields, Ahead(f)' PROVE \E i \in DOMAIN todo : FragOf[f] = todo[i]
    BY <1>1, <1>3, <2>1 DEF Ahead, Here
  <2>2. \A i \in DOMAIN todo : \A f \in Fields : FragOf[f] = todo[i] => Ready(f)'
    <3> SUFFICES ASSUME NEW i \in DOMAIN todo, NEW f \in Fields, FragOf[f] = todo[i]
                 PROVE  Ready(f)'
      OBVIOUS
    <3>1. /\ SeeksWell(f, IF kind = "off" THEN Dropped(f, to) ELSE 0)
          /\ ~ClosesTwice(f)
      BY <1>2, <1>4 DEF MayAlter
    <3>2. /\ op'.kind = kind /\ op'.to = to
          /\ SeeksWell(f, IF kind = "off" THEN Dropped(f, to) ELSE 0)'
          /\ ~ClosesTwice(f)'
      BY <3>1, <1>3, <1>4, <1>7 DEF SeeksWell, ClosesTwice, Dropped
    <3> QED BY <3>2 DEF Ready, SeeksWell, Dropped
  <2>3. \A i \in DOMAIN todo :
          kind = "off" /\ frag[todo[i]].enc = "gzip" => to >= frag[todo[i]].off
    BY <1>2, <1>4 DEF MayAlter
  <2> QED BY <2>1, <2>2, <2>3
<1>15. Streams'
  BY <1>4, <1>7, <1>8, StreamsSame DEF IInv
<1> QED BY <1>8, <1>9, <1>10, <1>11, <1>12, <1>13, <1>14, <1>15 DEF IInv

(* A call ends before or after all files were put into place.                 *)
LEMMA EndInv ==
  ASSUME IInv, op.phase \in {"start", "fields"}, op.left = {}, op.list = {},
         op.phase = "fields" => op.err # "none", run # "freed",
         op' = Idle, UNCHANGED <<files, tmp, h, frag, format, modified, prot, run>>
  PROVE  IInv'
<1> TypeOK
  BY DEF IInv
<1>1. op' \in OpType("off") /\ op'.kind = "off"
  BY DEF OpType, Idle
<1>2. \A f \in Fields : /\ Meta(f)' = Meta(f) /\ Source(f)' = Source(f)
                        /\ NameOf(f)' = NameOf(f)
                        /\ DescribesField(Meta(f), f)' <=> DescribesField(Meta(f), f)
  BY DEF Meta, Source, NameOf, DescribesField
<1>3. TypeOK'
  BY <1>1, <1>2 DEF TypeOK, Idle
<1>4. CallOK'
  BY DEF IInv, CallOK, Busy, Idle
<1>5. Copies' /\ Flushed'
  BY DEF IInv, Copies, Flushed, Idle
<1>6. Copied' /\ InPlace' /\ HereSettled' /\ Willing'
  BY DEF Copied, InPlace, HereSettled, Willing, Moved, Busy, Ahead, Idle
<1>7. run = "ok" => \A f \in Fields : DescribesField(Meta(f), f)
  <2>1. CASE op.phase = "start"
    BY <2>1 DEF IInv, Settled, Busy
  <2>2. CASE op.phase = "fields" /\ run = "ok"
    <3>1. op.err = "io" /\ Busy
      BY <2>2 DEF IInv, CallOK, TypeOK, OpType, Busy
    <3>2. \A f \in Fields : FragOf[f] = Here => DescribesField(Meta(f), f)
      BY <3>1 DEF IInv, HereSettled, FieldsOf
    <3>3. \A f \in Fields : FragOf[f] # Here => DescribesField(Meta(f), f)
      BY <2>2 DEF IInv, Settled, FieldsOf
    <3> QED BY <3>2, <3>3
  <2> QED BY <2>1, <2>2
<1>8. Settled'
  BY <1>2, <1>7 DEF IInv, Settled, Busy, Idle
<1>9. Names'
  <2>1. CASE run = "invalid"
    BY <2>1 DEF Names, Idle
  <2>2. CASE run # "invalid"
    BY <2>2, <1>2 DEF IInv, Names, HereSettled, CallOK, Busy, TypeOK, OpType
  <2> QED BY <2>1, <2>2
<1>10. Streams'
  BY <1>2, <1>3, StreamsSame DEF IInv
<1> QED BY <1>3, <1>4, <1>5, <1>6, <1>8, <1>9, <1>10 DEF IInv

LEMMA RefuseInv == ASSUME IInv, Refuse PROVE IInv'
BY EndInv DEF Refuse, IInv, TypeOK, CallOK, Busy

LEMMA GiveUpInv == ASSUME IInv, GiveUp PROVE IInv'
BY EndInv DEF GiveUp, Finished

LEMMA TargetSame ==
  ASSUME TypeOK, NEW g \in Frags, op.to = frag[g][op.kind]
  PROVE  Target(g) = frag[g]
<1> frag[g] \in MetaType
  BY DEF TypeOK
<1>1. CASE op.kind = "off"
  BY <1>1 DEF TypeOK, Target, MetaType
<1>2. CASE op.kind = "sex"
  BY <1>2 DEF TypeOK, Target, MetaType
<1>3. CASE op.kind = "enc"
  BY <1>3 DEF TypeOK, Target, MetaType
<1> QED BY <1>1, <1>2, <1>3 DEF TypeOK

LEMMA StartFragmentInv == ASSUME IInv, StartFragment PROVE IInv'
<1> DEFINE recode == op.to # frag[Here][op.kind]
           left == IF ~recode THEN {}
                   ELSE IF op.kind = "sex" THEN FieldsOf(Here) \ OneByte
                   ELSE FieldsOf(Here)
<1> TypeOK /\ CallOK
  BY DEF IInv
<1>1. /\ op.phase = "start" /\ op.move /\ op.todo # <<>> /\ op.list = {}
      /\ op.left = {} /\ op.err = "none" /\ run = "ok"
  BY DEF StartFragment, CallOK, TypeOK, Busy
<1>2. Here \in Frags /\ frag[Here] \in MetaType
  BY <1>1, HereType
<1>3. /\ UNCHANGED <<files, tmp, frag, format, modified, prot, run, ret>>
      /\ op' = [op EXCEPT !.phase = "fields", !.left = left]
  BY <1>1 DEF StartFragment
<1>4. h' = [f \in Fields |->
              IF ~recode /\ op.kind = "enc" /\ FragOf[f] = Here
              THEN Closed(f) ELSE h[f]]
  BY <1>1 DEF StartFragment
<1>5. left \subseteq FieldsOf(Here) /\ FieldsOf(Here) \subseteq Fields
  BY DEF FieldsOf
<1>6. /\ op' \in OpType(op.kind)
      /\ op'.phase = "fields" /\ op'.left = left /\ op'.list = {} /\ op'.err = "none"
      /\ op'.kind = op.kind /\ op'.to = op.to /\ op'.move = op.move
      /\ op'.todo = op.todo
  <2> HIDE DEF left
  <2> QED BY <1>1, <1>3, <1>5 DEF TypeOK, OpType
<1>7. /\ Here' = Here /\ \A g \in Frags : Target(g)' = Target(g)
      /\ \A f \in Fields : Meta(f)' = Meta(f)
  BY <1>3, <1>6, Along
<1>8. /\ h' \in [Fields -> HandleType]
      /\ \A f \in Fields : /\ h'[f].name = h[f].name /\ h'[f].temp = h[f].temp
                           /\ h'[f].open => h[f].open
                           /\ recode \/ FragOf[f] # Here => h'[f] = h[f]
                           /\ h'[f] = h[f] \/ h'[f].io = Start
                           /\ ~recode /\ op.kind = "enc" /\ FragOf[f] = Here => ~h'[f].open
  <2> HIDE DEF recode
  <2>1. \A f \in Fields :
          /\ Closed(f) \in HandleType /\ ~Closed(f).open /\ Closed(f).io = Start
          /\ Closed(f).name = h[f].name /\ Closed(f).temp = h[f].temp
    BY ClosedIs DEF IInv, Streams
  <2>2. \A f \in Fields : h[f] \in HandleType
    BY DEF TypeOK
  <2>3. \A f \in Fields : h'[f] = IF ~recode /\ op.kind = "enc" /\ FragOf[f] = Here
                                   THEN Closed(f) ELSE h[f]
    BY <1>4
  <2>4. h' \in [Fields -> HandleType]
    BY <1>4, <2>1, <2>2
  <2> QED BY <2>1, <2>3, <2>4
<1>9. \A f \in Fields : Source(f)' = Source(f)
  BY <1>3, <1>7, <1>8, SourceSame
<1> HIDE DEF left
<1>10. TypeOK'
  BY <1>3, <1>6, <1>8, <1>9 DEF TypeOK
<1>11. CallOK'
  <2>1. \A f \in left : FragOf[f] = Here
    BY <1>5 DEF FieldsOf
  <2>2. left # {} => recode /\ \A f \in FieldsOf(Here) :
                              f \in left \/ (op.kind = "sex" /\ f \in OneByte)
    BY DEF left
  <2> QED BY <1>1, <1>3, <1>6, <1>7, <2>1, <2>2 DEF CallOK, Busy, FieldsOf
<1>12. Copies' /\ Flushed'
  BY <1>1, <1>3, <1>6, <1>8 DEF IInv, Copies, Flushed
<1>13. Copied' /\ InPlace'
  BY <1>6 DEF Copied, InPlace, Moved
<1>14. \A f \in Fields : /\ DescribesField(Meta(f), f)
                         /\ DescribesField(Meta(f), f)' <=> DescribesField(Meta(f), f)
  BY <1>1, <1>3, <1>7, DescribedSame DEF IInv, Settled, Busy
<1>15. Settled'
  BY <1>2, <1>14 DEF Settled
<1>16. \A f \in Fields : h[f].name \in {"NULL", Meta(f).enc}
  BY <1>1 DEF IInv, Names, Busy
<1>17. Names'
  BY <1>7, <1>8, <1>16 DEF Names
<1>18. HereSettled'
  <2> SUFFICES ASSUME NEW f \in FieldsOf(Here), f \notin left
               PROVE  /\ DescribesField(Target(Here), f)
                      /\ op.kind = "enc" => h[f].name \in {"NULL", op.to} /\ ~h'[f].open
    <3>1. \A f \in FieldsOf(Here) :
            DescribesField(Target(Here), f)' <=> DescribesField(Target(Here), f)
      BY <1>2, <1>3, <1>5, <1>7, StillDescribed DEF DescribesField
    <3> QED BY <1>6, <1>7, <1>8, <1>14, <3>1 DEF HereSettled, FieldsOf
  <2>1. f \in Fields /\ FragOf[f] = Here /\ Meta(f) = frag[Here]
    BY DEF FieldsOf, Meta
  <2>2. CASE ~recode
    <3>1. Target(Here) = frag[Here]
      BY <2>2, <1>2, TargetSame
    <3>2. op.kind = "enc" => op.to = Meta(f).enc
      BY <2>1, <2>2
    <3>3. op.kind = "enc" => ~h'[f].open
      BY <2>1, <2>2, <1>8
    <3> QED BY <2>1, <3>1, <3>2, <3>3, <1>14, <1>16
  <2>3. CASE recode
    <3>1. op.kind = "sex" /\ f \in OneByte
      BY <2>3 DEF left
    <3>2. Target(Here).enc = Meta(f).enc
      BY <3>1, <2>1, <1>2, TargetIs
    <3> QED BY <2>1, <3>1, <3>2, <1>14 DEF DescribesField, Right
  <2> QED BY <2>2, <2>3
<1>19. Willing'
  <2> SUFFICES ASSUME Careful, NEW f \in Fields, Ahead(f)'
               PROVE  Ready(f)'
    BY <1>3, <1>6 DEF IInv, Willing
  <2>1. CASE f \in left
    <3>1. h'[f] = h[f] /\ Meta(f)' = Meta(f)
      BY <2>1, <1>7, <1>8 DEF left
    <3>2. Ready(f)' <=> Ready(f)
      BY <3>1, <1>6, ReadySame
    <3>3. Ahead(f)
      BY <2>1, <1>1, <1>5 DEF Ahead, FieldsOf
    <3> QED BY <3>2, <3>3 DEF IInv, Willing
  <2>2. CASE \E i \in DOMAIN op.todo : i # 1 /\ op.todo[i] = FragOf[f]
    <3>1. FragOf[f] # Here
      BY <2>2, <1>1 DEF CallOK, TypeOK, OpType, Here
    <3>2. h'[f] = h[f] /\ Meta(f)' = Meta(f)
      BY <3>1, <1>7, <1>8
    <3>3. Ready(f)' <=> Ready(f)
      BY <3>2, <1>6, ReadySame
    <3> QED BY <2>2, <3>3 DEF IInv, Willing, Ahead
  <2> QED BY <2>1, <2>2, <1>6 DEF Ahead
<1>20. Streams'
  <2>1. \A f \in Fields : NameOf(f)' = NameOf(f)
    BY <1>3, <1>7, <1>8, SourceSame
  <2> QED BY <2>1, <1>3, <1>7, <1>8, <1>10, StreamsSame DEF IInv
<1> QED BY <1>10, <1>11, <1>12, <1>13, <1>15, <1>17, <1>18, <1>19, <1>20 DEF IInv

-------------------------------------------------------------------------------
(* What _GD_MogrifyFile makes of a data file.                                 *)

LEMMA ConvertingFacts ==
  ASSUME IInv, NEW f \in Fields, Converting(f)
  PROVE  /\ op.phase = "fields" /\ op.left # {} /\ op.err = "none" /\ run = "ok"
         /\ f \in op.left /\ f \notin op.list /\ op.move /\ op.todo # <<>>
         /\ FragOf[f] = Here /\ Here \in Frags /\ Meta(f) = frag[Here]
         /\ op.to # frag[Here][op.kind]
         /\ \A e \in Fields : DescribesField(Meta(e), e)
         /\ \A e \in Fields : h[e].name \in {"NULL", Meta(e).enc}
<1> TypeOK /\ CallOK
  BY DEF IInv
<1>1. /\ op.phase = "fields" /\ op.left # {} /\ f \in op.left /\ op.err = "none"
  BY DEF Converting, IsFirst, TypeOK
<1>2. f \notin op.list /\ op.move /\ op.todo # <<>> /\ run = "ok" /\ FragOf[f] = Here
  BY <1>1 DEF CallOK, TypeOK, Converting
<1>3. Here \in Frags /\ Meta(f) = frag[Here] /\ op.to # frag[Here][op.kind]
  BY <1>1, <1>2, HereType DEF Meta, CallOK
<1>4. \A e \in Fields : DescribesField(Meta(e), e)
  <2>1. \A e \in Fields : FragOf[e] = Here => DescribesField(Meta(e), e)
    BY <1>1 DEF IInv, HereSettled, Busy, FieldsOf
  <2>2. \A e \in Fields : FragOf[e] # Here => DescribesField(Meta(e), e)
    BY <1>1 DEF IInv, Settled, FieldsOf
  <2> QED BY <2>1, <2>2
<1>5. \A e \in Fields : h[e].name \in {"NULL", Meta(e).enc}
  BY <1>1 DEF IInv, Names, CallOK, FieldsOf
<1> QED BY <1>1, <1>2, <1>3, <1>4, <1>5

LEMMA HandleFacts ==
  ASSUME IInv, NEW f \in Fields, Converting(f)
  PROVE  /\ h \in [Fields -> HandleType] /\ tmp \in [Fields -> FileType(Samples)]
         /\ h[f].open => h[f].name # "NULL" /\ files[f][h[f].name] # NoFile
         /\ h[f].temp = "NULL" => tmp[f] = NoFile
         /\ h[f].temp = "temp" => tmp[f] # NoFile
BY DEF IInv, TypeOK, Copies, Source, NameOf

LEMMA OpenFacts ==
  ASSUME IInv, NEW f \in Fields, Opens(f)
  PROVE  /\ NameOf(f) = Meta(f).enc /\ Source(f) = files[f][Meta(f).enc]
         /\ Source(f) # NoFile /\ Right(Meta(f), f, Source(f))
         /\ Source(f).sex \in Sexes
         /\ Stored(f) = Source(f).vals /\ Stored(f) \in Seq(Samples)
<1> TypeOK
  BY DEF IInv
<1>1. NameOf(f) = Meta(f).enc
  BY ConvertingFacts DEF Opens, NameOf
<1>2. Source(f) # NoFile /\ Source(f) = files[f][Meta(f).enc]
  BY <1>1 DEF Opens, TypeOK, Source
<1>3. Right(Meta(f), f, Source(f))
  BY <1>2, MetaIs, ConvertingFacts DEF Opens, DescribesField
<1>4. Source(f).sex \in Sexes
  BY <1>2, NameType, FileParts
<1> QED BY <1>1, <1>2, <1>3, <1>4, StoredType DEF Stored

LEMMA PadType ==
  ASSUME NEW n \in Int PROVE Pad(n) \in Seq(Samples)
<1>1. CASE n >= 0
  BY <1>1 DEF Pad, Samples
<1>2. CASE n < 0
  <2>1. 1..n = 1..0
    BY <1>2
  <2>2. Pad(n) = [i \in 1..0 |-> Zero]
    BY <2>1 DEF Pad
  <2> QED BY <2>2
<1> QED BY <1>1, <1>2

LEMMA PaddedType ==
  ASSUME TypeOK, NEW f \in Fields, NEW old \in Seq(Samples), NEW k \in Nat
  PROVE  Padded(f, old, k) \in Seq(Samples)
<1>1. Meta(f).enc \in {"none", "text", "gzip"}
  BY MetaIs, AlterFragmentAssumption
<1>2. Pad(k) \in Seq(Samples) /\ Pad(k - 2 * Len(old)) \in Seq(Samples)
  BY PadType
<1>3. Pad(k) \o old \in Seq(Samples) /\ old \o Pad(k - 2 * Len(old)) \in Seq(Samples)
  BY <1>2
<1> QED BY <1>1, <1>3 DEF Padded

LEMMA Product ==
  ASSUME NEW a \in Int, NEW b \in Nat
  PROVE  a * b \in Int /\ (a = 0 => a * b = 0) /\ (a >= 0 => a * b >= 0)
OBVIOUS

LEMMA ProductZero ==
  ASSUME NEW a \in Int, NEW b \in Nat, a # 0, b # 0
  PROVE  a * b # 0
OBVIOUS

LEMMA ShiftIs ==
  ASSUME TypeOK, NEW f \in Fields, Here \in Frags
  PROVE  /\ Shift(f) \in Int
         /\ op.kind # "off" => Shift(f) = 0
         /\ op.kind = "off" /\ op.to >= frag[Here].off => Shift(f) >= 0
<1> DEFINE d == Target(Here).off - frag[Here].off
<1>1. Target(Here).off \in Nat /\ frag[Here].off \in Nat /\ Spf[f] \in Nat
  BY TargetIs, AlterFragmentAssumption DEF TypeOK, MetaType
<1>2. d \in Int
  BY <1>1
<1>3. d * Spf[f] \in Int /\ (d = 0 => d * Spf[f] = 0) /\ (d >= 0 => d * Spf[f] >= 0)
  <2> HIDE DEF d
  <2> QED BY <1>1, <1>2, Product
<1>4. op.kind # "off" => d = 0
  BY <1>1, TargetIs
<1>5. op.kind = "off" /\ op.to >= frag[Here].off => d >= 0
  BY <1>1, TargetIs
<1> QED BY <1>3, <1>4, <1>5 DEF Shift

LEMMA ProductPositive ==
  ASSUME NEW a \in Nat, NEW b \in Nat \ {0}, a # 0
  PROVE  a * b > 0
OBVIOUS

(* What the forward seek before a conversion skips.                           *)
LEMMA DroppedIs ==
  ASSUME TypeOK, NEW f \in Fields, Here \in Frags, FragOf[f] = Here
  PROVE  /\ Dropped(f, Target(Here).off) = IF Shift(f) > 0 THEN Shift(f) ELSE 0
         /\ Dropped(f, Target(Here).off) =
              IF op.kind = "off" THEN Dropped(f, op.to) ELSE 0
<1> DEFINE d == Target(Here).off - frag[Here].off
<1>1. Target(Here).off \in Nat /\ frag[Here].off \in Nat /\ Spf[f] \in Nat \ {0}
  BY TargetIs, AlterFragmentAssumption DEF TypeOK, MetaType
<1>2. Meta(f).off = frag[Here].off /\ d \in Int
  BY <1>1 DEF Meta
<1>3. CASE d > 0
  <2>1. d * Spf[f] > 0
    <3> HIDE DEF d
    <3> QED BY <1>1, <1>2, <1>3, ProductPositive
  <2>2. op.kind = "off" /\ Target(Here).off = op.to
    BY <1>1, <1>3, TargetIs
  <2>3. Dropped(f, Target(Here).off) = d * Spf[f]
    BY <1>1, <1>2, <1>3 DEF Dropped
  <2> QED BY <2>1, <2>2, <2>3 DEF Shift
<1>4. CASE ~(d > 0)
  <2>1. ~(Target(Here).off > Meta(f).off)
    BY <1>1, <1>2, <1>4
  <2>2. Dropped(f, Target(Here).off) = 0
    BY <2>1 DEF Dropped
  <2>3. ~(d * Spf[f] > 0)
    <3>1. CASE d = 0
      BY <3>1, <1>1
    <3>2. CASE d # 0
      <4>1. -d \in Nat /\ -d # 0
        BY <3>2, <1>2, <1>4
      <4>2. (-d) * Spf[f] > 0
        <5> HIDE DEF d
        <5> QED BY <4>1, <1>1, ProductPositive
      <4>3. (-d) * Spf[f] = -(d * Spf[f]) /\ d * Spf[f] \in Int
        <5> HIDE DEF d
        <5> QED BY <1>1, <1>2
      <4> HIDE DEF d
      <4> QED BY <4>2, <4>3
    <3> QED BY <3>1, <3>2
  <2>4. op.kind = "off" => Target(Here).off = op.to
    BY TargetIs
  <2> QED BY <2>2, <2>3, <2>4 DEF Shift
<1> QED BY <1>3, <1>4

LEMMA FromType ==
  ASSUME NEW s \in Seq(Samples), NEW k \in Nat
  PROVE  /\ From(s, k) \in Seq(Samples)
         /\ From(s, 0) = s
BY DEF From

LEMMA FromPast ==
  ASSUME NEW s \in Seq(Samples), NEW k \in Nat
  PROVE  From(s, Fewer(k, Len(s))) = From(s, k)
<1>1. CASE k < Len(s)
  BY <1>1 DEF Fewer
<1>2. CASE ~(k < Len(s))
  <2>1. Fewer(k, Len(s)) = Len(s) /\ Len(s) \in Nat
    BY <1>2 DEF Fewer
  <2>2. From(s, k) = <<>> /\ From(s, Len(s)) = <<>>
    BY <1>2 DEF From
  <2> QED BY <2>1, <2>2
<1> QED BY <1>1, <1>2

(* The bytes of a sample end up in the order the new declaration gives.       *)
LEMMA ConvertedRight ==
  ASSUME IInv, NEW f \in Fields, Opens(f)
  PROVE  Converted(f).sex \in Sexes /\ Right(Target(Here), f, Converted(f))
<1> TypeOK
  BY DEF IInv
<1> DEFINE other == IF Source(f).sex = "big" THEN "little" ELSE "big"
<1>1. Converted(f).sex = IF Flips THEN other ELSE Source(f).sex
  BY DEF Converted
<1>2. /\ Source(f).sex \in Sexes /\ Right(Meta(f), f, Source(f))
      /\ Here \in Frags /\ Meta(f) = frag[Here]
  BY OpenFacts, ConvertingFacts DEF Opens
<1>3. /\ frag[Here].sex \in Sexes /\ Target(Here).sex \in Sexes
  BY <1>2, TargetIs DEF TypeOK, MetaType
<1>4. CASE f \in OneByte
  BY <1>1, <1>2, <1>4 DEF Right, Sexes
<1>5. CASE f \notin OneByte
  <2>1. Source(f).sex = IF Sensitive(frag[Here].enc) THEN frag[Here].sex ELSE "little"
    BY <1>2, <1>5 DEF Right
  <2>2. Converted(f).sex = IF Sensitive(Target(Here).enc) THEN Target(Here).sex
                           ELSE "little"
    BY <1>1, <1>3, <2>1 DEF Flips, Sexes
  <2> QED BY <1>3, <2>2 DEF Right, Sexes
<1> QED BY <1>4, <1>5

LEMMA ConvertedVals ==
  ASSUME IInv, NEW f \in Fields, Opens(f)
  PROVE  /\ Converted(f).vals \in Seq(Samples)
         /\ Careful => Converted(f).vals \in A!Shifted(Source(f).vals, Shift(f))
<1> TypeOK
  BY DEF IInv
<1> DEFINE shift == Shift(f)
           d == Dropped(f, Target(Here).off)
           at == Sought(f, d).at
           old == From(Stored(f), at)
<1>1. /\ Here \in Frags /\ f \in op.left /\ Meta(f) = frag[Here] /\ FragOf[f] = Here
      /\ op.todo # <<>>
  BY ConvertingFacts DEF Opens
<1>2. shift \in Int
  BY <1>1, ShiftIs
<1>3. Stored(f) = Source(f).vals /\ Stored(f) \in Seq(Samples)
  BY OpenFacts
<1>4. at \in Nat /\ old \in Seq(Samples)
  <2>1. d = IF shift > 0 THEN shift ELSE 0
    BY <1>1, DroppedIs
  <2>2. d \in Nat
    <3> HIDE DEF d
    <3> QED BY <2>1, <1>2
  <2>3. at \in Nat
    <3> HIDE DEF d
    <3> QED BY <2>2, SoughtIs DEF IInv, Streams, StreamType
  <2> QED BY <2>3, <1>3, FromType
<1>5. Converted(f).vals = IF shift < 0 THEN Padded(f, old, -shift) ELSE old
  BY DEF Converted
<1>6. Converted(f).vals \in Seq(Samples)
  <2>1. shift < 0 => Padded(f, old, -shift) \in Seq(Samples)
    BY <1>2, <1>4, PaddedType
  <2> HIDE DEF old, at, shift
  <2> QED BY <1>4, <1>5, <2>1
<1>7. ASSUME Careful
      PROVE  Converted(f).vals \in A!Shifted(Source(f).vals, Shift(f))
  <2>1. d = (IF shift > 0 THEN shift ELSE 0) /\ SeeksWell(f, d)
    <3>1. Ready(f)
      BY <1>1, <1>7 DEF IInv, Willing, Ahead
    <3>2. d = IF op.kind = "off" THEN Dropped(f, op.to) ELSE 0
      BY <1>1, DroppedIs
    <3> QED BY <1>1, <3>1, <3>2, DroppedIs DEF Ready
  <2> HIDE DEF d
  <2>2. /\ d \in Nat
        /\ at = IF Meta(f).enc = "text" THEN Fewer(d, Len(Stored(f))) ELSE d
    BY <1>2, <1>7, <2>1, SoughtIs DEF IInv, Streams
  <2>3. old = From(Source(f).vals, d)
    <3> HIDE DEF at
    <3> QED BY <2>2, <1>3, FromPast
  <2>4. CASE shift >= 0
    <3>1. d = shift
      BY <1>2, <2>1, <2>4
    <3>2. Converted(f).vals = SubSeq(Source(f).vals, shift + 1, Len(Source(f).vals))
      <4> HIDE DEF at, shift, old
      <4> QED BY <1>2, <1>3, <1>5, <2>3, <2>4, <3>1 DEF From
    <3> QED BY <3>2, <2>4 DEF A!Shifted
  <2>5. CASE shift < 0
    <3>1. d = 0
      BY <1>2, <2>1, <2>5
    <3>2. old = Source(f).vals
      <4> HIDE DEF at, old
      <4> QED BY <1>3, <2>3, <3>1, FromType
    <3>3. op.kind = "off" /\ ~(op.to >= frag[Here].off)
      BY <1>1, <1>2, <2>5, ShiftIs
    <3>4. 1 \in DOMAIN op.todo /\ op.todo[1] = Here
      BY <1>1 DEF TypeOK, OpType, Here
    <3>5. Meta(f).enc # "gzip"
      BY <1>1, <1>7, <3>3, <3>4 DEF IInv, Willing
    <3>6. Meta(f).enc \in {"none", "text"}
      BY <3>5, MetaIs, AlterFragmentAssumption
    <3>7. \/ Converted(f).vals = Pad(-shift) \o Source(f).vals
          \/ Source(f).vals = <<>> /\ Converted(f).vals = <<>>
      <4> HIDE DEF at, shift, old
      <4> QED BY <1>5, <2>5, <3>2, <3>6 DEF Padded
    <3>8. A!Pad(-shift) = Pad(-shift)
      BY DEF A!Pad, Pad
    <3>9. A!Shifted(Source(f).vals, shift) =
            {A!Pad(-shift) \o Source(f).vals}
              \cup (IF Source(f).vals = <<>> THEN {<<>>} ELSE {})
      <4> HIDE DEF shift
      <4>1. ~(shift >= 0)
        BY <1>2, <2>5
      <4> QED BY <4>1, Zenon DEF A!Shifted
    <3> HIDE DEF shift
    <3>10. Converted(f).vals \in A!Shifted(Source(f).vals, shift)
      BY <3>7, <3>8, <3>9
    <3> QED BY <3>10 DEF shift
  <2> QED BY <1>2, <2>4, <2>5
<1> QED BY <1>6, <1>7

LEMMA ConvertedResult ==
  ASSUME IInv, NEW f \in Fields, Opens(f)
  PROVE  /\ Converted(f) \in FileType(Samples) /\ Converted(f) # NoFile
         /\ [Converted(f) EXCEPT !.vals = <<>>] \in FileType(Samples)
         /\ [Converted(f) EXCEPT !.vals = <<>>] # NoFile
         /\ Result(f, Converted(f))
<1>1. /\ Converted(f).sex \in Sexes /\ Right(Target(Here), f, Converted(f))
      /\ Converted(f).vals \in Seq(Samples)
      /\ Careful => Converted(f).vals \in A!Shifted(Source(f).vals, Shift(f))
  BY ConvertedRight, ConvertedVals
<1>2. Converted(f) = [vals |-> Converted(f).vals, sex |-> Converted(f).sex]
  BY DEF Converted
<1>3. Source(f) = files[f][Meta(f).enc] /\ Source(f) # NoFile
  BY OpenFacts
<1> DEFINE vals == Converted(f).vals
           sex == Converted(f).sex
<1>4. Converted(f) \in FileType(Samples) /\ Converted(f) # NoFile
  <2>1. vals \in Seq(Samples) /\ sex \in Sexes /\ Converted(f) = [vals |-> vals, sex |-> sex]
    BY <1>1, <1>2
  <2> HIDE DEF vals, sex
  <2>2. [vals |-> vals, sex |-> sex] \in FileType(Samples)
    BY <2>1 DEF FileType
  <2>3. [vals |-> vals, sex |-> sex] # NoFile
    BY <2>1 DEF NoFile, Sexes
  <2> QED BY <2>1, <2>2, <2>3
<1>5. /\ [Converted(f) EXCEPT !.vals = <<>>] = [vals |-> <<>>, sex |-> sex]
  BY <1>2
<1>6. <<>> \in Seq(Samples)
  OBVIOUS
<1>7. /\ [Converted(f) EXCEPT !.vals = <<>>] \in FileType(Samples)
      /\ [Converted(f) EXCEPT !.vals = <<>>] # NoFile
  <2> HIDE DEF sex
  <2> QED BY <1>1, <1>5, <1>6 DEF FileType, NoFile, Sexes, sex
<1> QED BY <1>1, <1>3, <1>4, <1>7 DEF Result

-------------------------------------------------------------------------------
(* The first loop: a field is converted, or cannot be.                        *)

LEMMA ConvertInv ==
  ASSUME IInv, NEW f \in Fields, Converting(f),
         UNCHANGED <<files, frag, format, modified, prot>>,
         h' \in [Fields -> HandleType], tmp' \in [Fields -> FileType(Samples)],
         \A e \in Fields : e # f => h'[e] = h[e] /\ tmp'[e] = tmp[e],
         h'[f].name \in {h[f].name, Meta(f).enc},
         h'[f].open => h'[f].name # "NULL" /\ files[f][h'[f].name] # NoFile,
         h'[f].temp = "NULL" => tmp'[f] = NoFile,
         h'[f].temp = "temp" => tmp'[f] # NoFile,
         h'[f].temp = "stale" => tmp'[f] = tmp[f],
         h'[f].io = Start \/ (h'[f].io = h[f].io /\ (h[f].open => h'[f].open)),
         run' \in {run, "freed"},
         \/ /\ Took(f)
            /\ \/ /\ h'[f].temp = "temp" /\ h'[f].name = Meta(f).enc /\ ~h'[f].open
                  /\ Result(f, tmp'[f]) /\ ~Same(f)
               \/ h'[f].temp # "temp" /\ Same(f)
         \/ TookLast(f)
  PROVE  IInv'
<1> TypeOK /\ CallOK
  BY DEF IInv
<1>1. /\ op.phase = "fields" /\ op.left # {} /\ op.err = "none" /\ run = "ok"
      /\ f \in op.left /\ f \notin op.list /\ op.move /\ op.todo # <<>>
      /\ FragOf[f] = Here /\ Here \in Frags /\ Meta(f) = frag[Here]
      /\ op.to # frag[Here][op.kind]
      /\ \A e \in Fields : DescribesField(Meta(e), e)
      /\ \A e \in Fields : h[e].name \in {"NULL", Meta(e).enc}
  BY ConvertingFacts
<1>2. PICK left \in {op.left \ {f}, {}}, err \in {"none", "io"} :
        /\ op' = [op EXCEPT !.list = op.list \cup {f}, !.left = left, !.err = err]
        /\ left # {} => err = "none"
        /\ err = "none" => left = op.left \ {f} /\ Took(f)
  <2>1. CASE Took(f)
    <3>1. op' = [op EXCEPT !.list = op.list \cup {f}, !.left = op.left \ {f}, !.err = "none"]
      BY <2>1, <1>1 DEF Took, TypeOK, OpType
    <3> QED BY <2>1, <3>1
  <2>2. CASE TookLast(f)
    BY <2>2 DEF TookLast
  <2> QED BY <2>1, <2>2
<1>3. /\ op' \in OpType(op.kind) /\ op'.kind = op.kind /\ op'.phase = "fields"
      /\ op'.left = left /\ op'.list = op.list \cup {f} /\ op'.err = err
      /\ op'.todo = op.todo /\ op'.to = op.to /\ op'.move = op.move
  BY <1>1, <1>2 DEF TypeOK, OpType
<1>4. /\ Here' = Here /\ \A g \in Frags : Target(g)' = Target(g)
      /\ \A e \in Fields : Meta(e)' = Meta(e) /\ Shift(e)' = Shift(e) /\ Same(e)' = Same(e)
  BY <1>3, Along
<1>5. \A e \in Fields : e # f => Source(e)' = Source(e)
  BY <1>4, SourceSame
<1>6. h'[f].open => Source(f)' # NoFile
  BY DEF Source, NameOf
<1>7. TypeOK'
  <2>1. \A e \in Fields : h'[e].open => h'[e].name # "NULL" /\ Source(e)' # NoFile
    BY <1>5, <1>6 DEF TypeOK
  <2> QED BY <2>1, <1>1, <1>2, <1>3 DEF TypeOK
<1>8. CallOK'
  BY <1>1, <1>2, <1>3, <1>4 DEF CallOK, Busy
<1>9. Copies' /\ Flushed'
  <2>1. tmp'[f] # NoFile => h'[f].temp = "temp" \/ "unlink" \in Faults
    BY <1>1 DEF IInv, Copies, HandleType
  <2> QED BY <2>1, <1>3 DEF IInv, Copies, Flushed
<1>10. InPlace'
  BY <1>3 DEF InPlace, Moved
<1>11. ~Moved(f)' /\ \A e \in Fields : ~Moved(e)' /\ ~Moved(e)
  BY <1>1, <1>3 DEF Moved
<1>12. Copied'
  <2> SUFFICES ASSUME err = "none", NEW e \in op.list \cup {f}
               PROVE  \/ /\ h'[e].temp = "temp" /\ h'[e].name = Meta(e).enc
                         /\ ~h'[e].open /\ Result(e, tmp[e])' /\ ~Same(e)
                      \/ h'[e].temp # "temp" /\ Same(e)
    BY <1>3, <1>4 DEF Copied, TypeOK, OpType
  <2>1. e \in Fields
    BY DEF TypeOK, OpType
  <2>2. ASSUME NEW new PROVE Result(e, new)' <=> Result(e, new)
    BY <2>1, <1>1, <1>4 DEF Result, Right
  <2>3. CASE e = f
    <3>1. ~TookLast(f)
      BY <1>3 DEF TookLast, TypeOK, OpType
    <3>2. tmp[f]' = tmp'[f]
      OBVIOUS
    <3>3. Result(f, tmp[f])' <=> Result(f, tmp'[f])
      BY <2>1, <2>3, <1>1, <1>4 DEF Result, Right
    <3> QED BY <2>3, <3>1, <3>3, <1>1
  <2>4. CASE e # f
    BY <2>1, <2>2, <2>4, <1>1, <1>11 DEF IInv, Copied
  <2> QED BY <2>3, <2>4
<1>13. \A e \in Fields : /\ DescribesField(Meta(e), e)'
                         /\ DescribesField(Target(Here), e)' <=> DescribesField(Target(Here), e)
  BY <1>1, <1>4, DescribedSame DEF DescribesField
<1>14. Settled'
  BY <1>1, <1>13 DEF Settled
<1>15. HereSettled'
  <2>1. err = "none" => left \cup op.list \cup {f} = op.left \cup op.list
    BY <1>1, <1>2
  <2> QED BY <2>1, <1>1, <1>3, <1>4, <1>13 DEF IInv, HereSettled, Busy, FieldsOf
<1>16. Names'
  BY <1>1, <1>4 DEF Names
<1>17. Willing'
  <2> SUFFICES ASSUME Careful, NEW e \in Fields, Ahead(e)'
               PROVE  Ready(e)'
    BY <1>3 DEF IInv, Willing
  <2>1. e # f /\ Ahead(e)
    BY <1>1, <1>2, <1>3 DEF Ahead, CallOK, TypeOK, OpType, Here
  <2>2. Ready(e)' <=> Ready(e)
    BY <2>1, <1>3, <1>4, ReadySame
  <2> QED BY <2>1, <2>2 DEF IInv, Willing
<1>18. Streams'
  <2>1. \A e \in Fields : NameOf(e)' = NameOf(e)
    BY <1>1, <1>4 DEF NameOf
  <2> QED BY <2>1, <1>4, <1>7, StreamsSame DEF IInv
<1> QED BY <1>7, <1>8, <1>9, <1>10, <1>12, <1>14, <1>15, <1>16, <1>17, <1>18 DEF IInv

(* Only a text fragment whose byte sex changes has nothing to be converted.   *)
LEMMA ChangeIsText ==
  ASSUME IInv, NEW f \in Fields, Here \in Frags, op.to # frag[Here][op.kind], Same(f)
  PROVE  op.kind = "sex" /\ frag[Here].enc = "text"
<1> TypeOK
  BY DEF IInv
<1>1. /\ Target(Here).enc = IF op.kind = "enc" THEN op.to ELSE frag[Here].enc
      /\ Target(Here).sex = IF op.kind = "sex" THEN op.to ELSE frag[Here].sex
      /\ Target(Here).off = IF op.kind = "off" THEN op.to ELSE frag[Here].off
      /\ Target(Here) \in MetaType
  BY TargetIs
<1>2. frag[Here] \in MetaType /\ Spf[f] \in Nat \ {0}
  BY AlterFragmentAssumption DEF TypeOK
<1>3. op.kind # "off"
  <2> SUFFICES ASSUME op.kind = "off" PROVE FALSE
    OBVIOUS
  <2> DEFINE d == Target(Here).off - frag[Here].off
  <2>1. d \in Int /\ d # 0
    BY <1>1, <1>2 DEF MetaType
  <2>2. d * Spf[f] # 0
    <3> HIDE DEF d
    <3> QED BY <2>1, <1>2, ProductZero
  <2> QED BY <2>2 DEF Same, Shift
<1>4. op.kind # "enc"
  BY <1>1 DEF Same
<1>5. op.kind = "sex"
  BY <1>3, <1>4 DEF TypeOK
<1>6. frag[Here].enc = "text"
  BY <1>1, <1>2, <1>5 DEF Same, Flips, Sensitive, MetaType, Sexes
<1> QED BY <1>5, <1>6

LEMMA SameIsText ==
  ASSUME IInv, NEW f \in Fields, Converting(f), Same(f)
  PROVE  op.kind = "sex" /\ op.kind \in Kinds /\ "text" \in Encs
<1>1. op.to # frag[Here][op.kind] /\ Here \in Frags /\ op.phase = "fields"
  BY ConvertingFacts
<1>2. op.kind = "sex" /\ frag[Here].enc = "text"
  BY <1>1, ChangeIsText
<1> QED BY <1>1, <1>2 DEF IInv, CallOK, TypeOK, MetaType

LEMMA MogrifySameInv ==
  ASSUME IInv, NoLeftovers, NEW f \in Fields, MogrifySame(f)
  PROVE  IInv'
<1> TypeOK
  BY DEF IInv
<1>1. /\ Converting(f) /\ Same(f) /\ Took(f)
      /\ UNCHANGED <<files, tmp, h, frag, format, modified, prot, run, ret>>
  BY DEF MogrifySame
<1>2. h[f].temp # "temp"
  BY <1>1, SameIsText, ConvertingFacts DEF IInv, Copies, NoLeftovers
<1> QED BY <1>1, <1>2, HandleFacts, ConvertInv
LEMMA MogrifyProtectedInv ==
  ASSUME IInv, NEW f \in Fields, MogrifyProtected(f)
  PROVE  IInv'
<1>1. /\ Converting(f) /\ TookLast(f)
      /\ UNCHANGED <<files, tmp, h, frag, format, modified, prot, run, ret>>
  BY DEF MogrifyProtected
<1> QED BY <1>1, HandleFacts, ConvertInv

LEMMA MogrifyMissingInv ==
  ASSUME IInv, NEW f \in Fields, MogrifyMissing(f)
  PROVE  IInv'
<1> TypeOK
  BY DEF IInv
<1>1. /\ Converting(f) /\ TookLast(f) /\ ~h[f].open
      /\ h' = [h EXCEPT ![f].name = NameOf(f)]
      /\ UNCHANGED <<files, tmp, frag, format, modified, prot>>
      /\ run' \in {run, "freed"}
  BY DEF MogrifyMissing, Reopened
<1>2. NameOf(f) \in Encs /\ NameOf(f) \in {h[f].name, Meta(f).enc}
  BY NameType DEF NameOf
<1>3. h' \in [Fields -> HandleType]
  BY <1>1, <1>2 DEF TypeOK, HandleType
<1>4. /\ h'[f].name = NameOf(f) /\ h'[f].temp = h[f].temp /\ ~h'[f].open
      /\ h'[f].io = h[f].io
      /\ \A e \in Fields : e # f => h'[e] = h[e]
  BY <1>1 DEF TypeOK, HandleType
<1> QED BY <1>1, <1>2, <1>3, <1>4, HandleFacts, ConvertInv

LEMMA MogrifyNoTempInv ==
  ASSUME IInv, NEW f \in Fields, MogrifyNoTemp(f)
  PROVE  IInv'
<1> TypeOK
  BY DEF IInv
<1>1. /\ Opens(f) /\ Converting(f) /\ TookLast(f)
      /\ h' = [h EXCEPT ![f] = [@ EXCEPT !.name = NameOf(f), !.open = TRUE,
                                        !.temp = "stale"]]
      /\ UNCHANGED <<files, tmp, frag, format, modified, prot>>
      /\ run' \in {run, "freed"}
  <2>1. [Opened(f) EXCEPT !.temp = "stale"] =
          [h[f] EXCEPT !.name = NameOf(f), !.open = TRUE, !.temp = "stale"]
    BY DEF Opened, TypeOK, HandleType
  <2> QED BY <2>1 DEF MogrifyNoTemp, Opens, Reopened
<1>2. /\ NameOf(f) = Meta(f).enc /\ NameOf(f) \in Encs /\ NameOf(f) # "NULL"
      /\ files[f][NameOf(f)] # NoFile
  BY <1>1, OpenFacts, NameType
<1>3. h' \in [Fields -> HandleType]
  BY <1>1, <1>2 DEF TypeOK, HandleType
<1>4. /\ h'[f].name = NameOf(f) /\ h'[f].temp = "stale"
      /\ h'[f].open /\ h'[f].io = h[f].io
      /\ \A e \in Fields : e # f => h'[e] = h[e]
  BY <1>1 DEF TypeOK, HandleType
<1> QED BY <1>1, <1>2, <1>3, <1>4, HandleFacts, ConvertInv

LEMMA ShutIs ==
  ASSUME IInv, NEW f \in Fields, Opens(f), h' = Shut(f)
  PROVE  /\ h' \in [Fields -> HandleType]
         /\ h'[f].name = Meta(f).enc /\ h'[f].temp = "temp" /\ ~h'[f].open
         /\ h'[f].io = Start
         /\ \A e \in Fields : e # f => h'[e] = h[e]
<1>1. NameOf(f) = Meta(f).enc /\ NameOf(f) \in Encs
  BY OpenFacts, NameType DEF IInv
<1>2. Dangles(f) \in BOOLEAN /\ Start \in StreamType
  BY DEF Dangles, Start, StreamType, IInv, TypeOK, HandleType
<1> QED BY <1>1, <1>2 DEF Shut, IInv, TypeOK, HandleType

LEMMA MogrifyNoSpaceInv ==
  ASSUME IInv, NEW f \in Fields, MogrifyNoSpace(f)
  PROVE  IInv'
<1> DEFINE empty == [Converted(f) EXCEPT !.vals = <<>>]
<1>1. /\ Opens(f) /\ Converting(f) /\ TookLast(f) /\ run' \in {run, "freed"}
      /\ tmp' = [tmp EXCEPT ![f] = empty] /\ h' = Shut(f)
      /\ UNCHANGED <<files, frag, format, modified, prot>>
  BY DEF MogrifyNoSpace, Opens, Reopened
<1>2. empty \in FileType(Samples) /\ empty # NoFile
  BY <1>1, ConvertedResult
<1> HIDE DEF empty
<1>3. /\ tmp' \in [Fields -> FileType(Samples)] /\ tmp'[f] # NoFile
      /\ \A e \in Fields : e # f => tmp'[e] = tmp[e]
  BY <1>1, <1>2, HandleFacts
<1>4. /\ h' \in [Fields -> HandleType] /\ \A e \in Fields : e # f => h'[e] = h[e]
      /\ h'[f].name = Meta(f).enc /\ h'[f].temp = "temp" /\ ~h'[f].open
      /\ h'[f].io = Start
  BY <1>1, ShutIs
<1> QED BY <1>1, <1>3, <1>4, ConvertInv

LEMMA MogrifyFileInv ==
  ASSUME IInv, NEW f \in Fields, MogrifyFile(f)
  PROVE  IInv'
<1>1. /\ Opens(f) /\ Converting(f) /\ ~Same(f) /\ Took(f)
      /\ tmp' = [tmp EXCEPT ![f] = Converted(f)] /\ h' = Shut(f)
      /\ UNCHANGED <<files, frag, format, modified, prot>> /\ run' \in {run, "freed"}
  BY DEF MogrifyFile, Opens, Reopened
<1>2. /\ Converted(f) \in FileType(Samples) /\ Converted(f) # NoFile
      /\ Result(f, Converted(f))
  BY <1>1, ConvertedResult
<1>3. /\ tmp' \in [Fields -> FileType(Samples)] /\ tmp'[f] = Converted(f)
      /\ \A e \in Fields : e # f => tmp'[e] = tmp[e]
  BY <1>1, <1>2, HandleFacts
<1>4. Result(f, tmp'[f]) /\ tmp'[f] # NoFile
  BY <1>2, <1>3
<1>5. /\ h' \in [Fields -> HandleType] /\ \A e \in Fields : e # f => h'[e] = h[e]
      /\ h'[f].name = Meta(f).enc /\ h'[f].temp = "temp" /\ ~h'[f].open
      /\ h'[f].io = Start
  BY <1>1, ShutIs
<1> QED BY <1>1, <1>3, <1>4, <1>5, ConvertInv

-------------------------------------------------------------------------------
(* The second loop: the fields of the list are finished one by one.           *)

LEMMA OneFirst ==
  ASSUME NEW S \in SUBSET Fields, NEW f, IsFirst(f, S), NEW e, IsFirst(e, S)
  PROVE  e = f
<1>1. e \in Fields /\ f \in Fields /\ Place[e] <= Place[f] /\ Place[f] <= Place[e]
  BY DEF IsFirst
<1>2. Place[e] \in Nat /\ Place[f] \in Nat
  BY <1>1, AlterFragmentAssumption
<1>3. Place[e] = Place[f]
  BY <1>1, <1>2
<1> QED BY <1>1, <1>3, AlterFragmentAssumption

LEMMA FinishingFacts ==
  ASSUME IInv, NEW f \in Fields, Busy, IsFirst(f, op.list)
  PROVE  /\ f \in op.list /\ op.move /\ op.todo # <<>>
         /\ FragOf[f] = Here /\ Here \in Frags /\ Meta(f) = frag[Here]
         /\ op.to # frag[Here][op.kind]
         /\ op.kind = "enc" => op.to \in Encs /\ op.to # Meta(f).enc
         /\ \A e \in Fields : Moved(e) => e = f
<1> TypeOK /\ CallOK
  BY DEF IInv
<1>1. f \in op.list /\ op.todo # <<>> /\ op.move
  BY DEF IsFirst, CallOK, Busy
<1>2. FragOf[f] = Here /\ Here \in Frags /\ op.to # frag[Here][op.kind]
  BY <1>1, HereType DEF CallOK, Busy
<1>3. \A e \in Fields : Moved(e) => e = f
  BY OneFirst DEF Moved, TypeOK, OpType
<1>4. op.kind = "enc" => op.to \in Encs /\ op.to # frag[Here].enc
  BY <1>2 DEF TypeOK, OpType
<1> QED BY <1>1, <1>2, <1>3, <1>4 DEF Meta

(* The temporary file of f is gone, or could not be deleted.                  *)
LEMMA DeleteTempIs ==
  ASSUME IInv, NEW f \in Fields, DeleteTemp(f)
  PROVE  /\ h' \in [Fields -> HandleType] /\ tmp' \in [Fields -> FileType(Samples)]
         /\ \A e \in Fields : h'[e].name = h[e].name /\ h'[e].open = h[e].open
         /\ \A e \in Fields : h'[e].io = h[e].io /\ h'[e].stale = h[e].stale
         /\ \A e \in Fields : e # f => h'[e] = h[e] /\ tmp'[e] = tmp[e]
         /\ h'[f].temp = "NULL" => tmp'[f] = NoFile
         /\ h'[f].temp = "temp" => tmp'[f] # NoFile
         /\ tmp'[f] # NoFile => "unlink" \in Faults
<1> TypeOK /\ Copies
  BY DEF IInv
<1>1. h[f].temp \in {"NULL", "temp", "stale"}
  BY DEF TypeOK, HandleType
<1>2. CASE h' = h /\ tmp' = tmp /\ (h[f].temp = "temp" => "unlink" \in Faults)
  BY <1>1, <1>2 DEF TypeOK, Copies
<1>3. CASE h' = [h EXCEPT ![f].temp = "NULL"] /\ tmp' = [tmp EXCEPT ![f] = NoFile]
  BY <1>3 DEF TypeOK, HandleType, FileType
<1> QED BY <1>2, <1>3 DEF DeleteTemp, May

LEMMA DiscardInv ==
  ASSUME IInv, NEW f \in Fields, Discard(f)
  PROVE  IInv'
<1> TypeOK /\ CallOK
  BY DEF IInv
<1>1. /\ op.phase = "fields" /\ op.left = {} /\ op.err = "io" /\ run # "freed"
      /\ IsFirst(f, op.list) /\ DeleteTemp(f)
      /\ op' = [op EXCEPT !.list = op.list \ {f}]
      /\ UNCHANGED <<files, frag, format, modified, prot, run>>
  BY DEF Discard, Finishing
<1>2. f \in op.list /\ FragOf[f] = Here /\ Here \in Frags /\ op.todo # <<>> /\ op.move
  BY <1>1, FinishingFacts DEF Busy
<1>3. /\ op' \in OpType(op.kind) /\ op'.kind = op.kind /\ op'.phase = "fields"
      /\ op'.left = {} /\ op'.list = op.list \ {f} /\ op'.err = "io"
      /\ op'.todo = op.todo /\ op'.to = op.to /\ op'.move = op.move
  BY <1>1 DEF TypeOK, OpType
<1>4. /\ Here' = Here /\ \A e \in Fields : Meta(e)' = Meta(e)
  BY <1>1, <1>3, Along
<1>5. /\ h' \in [Fields -> HandleType] /\ tmp' \in [Fields -> FileType(Samples)]
      /\ \A e \in Fields : h'[e].name = h[e].name /\ h'[e].open = h[e].open
      /\ \A e \in Fields : h'[e].io = h[e].io /\ h'[e].stale = h[e].stale
      /\ \A e \in Fields : e # f => h'[e] = h[e] /\ tmp'[e] = tmp[e]
      /\ h'[f].temp = "NULL" => tmp'[f] = NoFile
      /\ h'[f].temp = "temp" => tmp'[f] # NoFile
      /\ tmp'[f] # NoFile => "unlink" \in Faults
  BY <1>1, <1>4, DeleteTempIs
<1>6. \A e \in Fields : Source(e)' = Source(e)
  BY <1>1, <1>4, <1>5, SourceSame
<1>7. TypeOK'
  BY <1>1, <1>3, <1>5, <1>6 DEF TypeOK
<1>8. CallOK'
  BY <1>1, <1>2, <1>3, <1>4 DEF CallOK, Busy
<1>9. Copies' /\ Flushed'
  BY <1>1, <1>3, <1>5 DEF IInv, Copies, Flushed
<1>10. Copied' /\ InPlace'
  BY <1>3 DEF Copied, InPlace, Moved
<1>11. \A e \in Fields : DescribesField(Meta(e), e)' <=> DescribesField(Meta(e), e)
  BY <1>1, <1>4, DescribedSame
<1>12. Settled' /\ HereSettled'
  BY <1>1, <1>3, <1>4, <1>11 DEF IInv, Settled, HereSettled, Busy, FieldsOf
<1>13. Names'
  BY <1>1, <1>3, <1>4, <1>5 DEF IInv, Names, Busy
<1>14. Willing'
  <2>1. \A e \in Fields : Ready(e)' <=> Ready(e)
    BY <1>3, <1>4, <1>5, ReadySame
  <2> QED BY <2>1, <1>1, <1>3, <1>4 DEF IInv, Willing, Ahead
<1>15. Streams'
  BY <1>1, <1>4, <1>5, <1>6, <1>7, SourceSame, StreamsSame DEF IInv
<1> QED BY <1>7, <1>8, <1>9, <1>10, <1>12, <1>13, <1>14, <1>15 DEF IInv

LEMMA MoveFailsInv ==
  ASSUME IInv, NEW f \in Fields, MoveFails(f)
  PROVE  IInv'
<1> TypeOK /\ CallOK
  BY DEF IInv
<1>1. /\ op.phase = "fields" /\ op.left = {} /\ op.err # "io" /\ run # "freed"
      /\ IsFirst(f, op.list) /\ DeleteTemp(f) /\ run' = "invalid"
      /\ op' = [op EXCEPT !.list = op.list \ {f}, !.err = "unclean"]
      /\ UNCHANGED <<files, frag, format, modified, prot>>
  BY DEF MoveFails, Finishing
<1>2. f \in op.list /\ FragOf[f] = Here /\ Here \in Frags /\ op.todo # <<>> /\ op.move
  BY <1>1, FinishingFacts DEF Busy
<1>3. /\ op' \in OpType(op.kind) /\ op'.kind = op.kind /\ op'.phase = "fields"
      /\ op'.left = {} /\ op'.list = op.list \ {f} /\ op'.err = "unclean"
      /\ op'.todo = op.todo /\ op'.to = op.to /\ op'.move = op.move
  BY <1>1 DEF TypeOK, OpType
<1>4. /\ Here' = Here /\ \A g \in Frags : Target(g)' = Target(g)
      /\ \A e \in Fields : Meta(e)' = Meta(e) /\ Shift(e)' = Shift(e) /\ Same(e)' = Same(e)
  BY <1>1, <1>3, Along
<1>5. /\ h' \in [Fields -> HandleType] /\ tmp' \in [Fields -> FileType(Samples)]
      /\ \A e \in Fields : h'[e].name = h[e].name /\ h'[e].open = h[e].open
      /\ \A e \in Fields : h'[e].io = h[e].io /\ h'[e].stale = h[e].stale
      /\ \A e \in Fields : e # f => h'[e] = h[e] /\ tmp'[e] = tmp[e]
      /\ h'[f].temp = "NULL" => tmp'[f] = NoFile
      /\ h'[f].temp = "temp" => tmp'[f] # NoFile
      /\ tmp'[f] # NoFile => "unlink" \in Faults
  BY <1>1, <1>4, DeleteTempIs
<1>6. \A e \in Fields : Source(e)' = Source(e)
  BY <1>1, <1>4, <1>5, SourceSame
<1>7. TypeOK'
  BY <1>1, <1>3, <1>5, <1>6 DEF TypeOK
<1>8. CallOK'
  BY <1>1, <1>2, <1>3, <1>4 DEF CallOK, Busy
<1>9. Copies' /\ Flushed'
  BY <1>1, <1>3, <1>5 DEF IInv, Copies, Flushed
<1>10. InPlace' /\ \A e \in Fields : ~Moved(e) /\ ~Moved(e)'
  BY <1>1, <1>3 DEF InPlace, Moved
<1>11. Copied'
  <2> SUFFICES ASSUME NEW e \in op.list, e # f
               PROVE  \/ /\ h'[e].temp = "temp" /\ h'[e].name = Meta(e).enc
                         /\ ~h'[e].open /\ Result(e, tmp[e])' /\ ~Same(e)
                      \/ h'[e].temp # "temp" /\ Same(e)
    BY <1>3, <1>4 DEF Copied, TypeOK, OpType
  <2>1. e \in Fields /\ h'[e] = h[e] /\ tmp'[e] = tmp[e]
    BY <1>5 DEF TypeOK, OpType
  <2>2. Result(e, tmp[e])' <=> Result(e, tmp[e])
    BY <2>1, <1>1, <1>2, <1>4 DEF Result, Right
  <2> QED BY <2>1, <2>2, <1>1, <1>10 DEF IInv, Copied
<1>12. \A e \in Fields : DescribesField(Meta(e), e)' <=> DescribesField(Meta(e), e)
  BY <1>1, <1>4, DescribedSame
<1>13. Settled' /\ HereSettled'
  BY <1>1, <1>3, <1>4, <1>10, <1>12 DEF IInv, Settled, HereSettled, Busy, FieldsOf
<1>14. Names'
  BY <1>1, <1>3, <1>4, <1>5 DEF IInv, Names, Busy
<1>15. Willing'
  <2>1. \A e \in Fields : Ready(e)' <=> Ready(e)
    BY <1>3, <1>4, <1>5, ReadySame
  <2> QED BY <2>1, <1>1, <1>3, <1>4 DEF IInv, Willing, Ahead
<1>16. Streams'
  BY <1>1, <1>4, <1>5, <1>6, <1>7, SourceSame, StreamsSame DEF IInv
<1> QED BY <1>7, <1>8, <1>9, <1>10, <1>11, <1>13, <1>14, <1>15, <1>16 DEF IInv

(* The converted file takes the place of the old one, or stands beside it.    *)
LEMMA MoveOverFacts ==
  ASSUME IInv, NEW f \in Fields, MoveOver(f)
  PROVE  /\ op.phase = "fields" /\ op.left = {} /\ op.err # "io" /\ run # "freed"
         /\ IsFirst(f, op.list) /\ h[f].temp = "temp" /\ h[f].name = Meta(f).enc
         /\ ~h[f].open /\ h[f].io = Start
         /\ f \in op.list /\ FragOf[f] = Here /\ Here \in Frags /\ Meta(f) = frag[Here]
         /\ Result(f, tmp[f]) /\ tmp[f] # NoFile /\ Target(Here).enc \in Encs
         /\ op.kind = "enc" <=> Target(Here).enc # Meta(f).enc
         /\ op.kind = "enc" => op.to = Target(Here).enc
         /\ files' = [files EXCEPT ![f][Target(Here).enc] = tmp[f]]
         /\ h' \in [Fields -> HandleType] /\ tmp' \in [Fields -> FileType(Samples)]
         /\ \A e \in Fields : h'[e].name = h[e].name /\ h'[e].open = h[e].open
         /\ h'[f].io = Start
         /\ \A e \in Fields : e # f => h'[e] = h[e] /\ tmp'[e] = tmp[e]
         /\ h'[f].temp = "NULL" /\ tmp'[f] = NoFile
         /\ UNCHANGED <<frag, format, modified, prot, run>>
<1> TypeOK
  BY DEF IInv
<1>1. /\ op.phase = "fields" /\ op.left = {} /\ op.err # "io" /\ run # "freed"
      /\ IsFirst(f, op.list) /\ h[f].temp = "temp"
      /\ files' = [files EXCEPT ![f][IF op.kind = "enc" THEN op.to ELSE h[f].name] = tmp[f]]
      /\ tmp' = [tmp EXCEPT ![f] = NoFile] /\ h' = [h EXCEPT ![f].temp = "NULL"]
      /\ UNCHANGED <<frag, format, modified, prot, run>>
  BY DEF MoveOver, Finishing
<1>2. /\ f \in op.list /\ FragOf[f] = Here /\ Here \in Frags /\ Meta(f) = frag[Here]
      /\ op.kind = "enc" => op.to \in Encs /\ op.to # Meta(f).enc
  BY <1>1, FinishingFacts DEF Busy
<1>3. h[f].name = Meta(f).enc /\ ~h[f].open /\ Result(f, tmp[f])
  BY <1>1, <1>2 DEF IInv, Copied, Moved
<1>4. /\ Target(Here).enc = IF op.kind = "enc" THEN op.to ELSE frag[Here].enc
      /\ Target(Here).enc \in Encs
  BY <1>2, TargetIs DEF MetaType
<1>5. files' = [files EXCEPT ![f][Target(Here).enc] = tmp[f]]
  BY <1>1, <1>2, <1>3, <1>4
<1>6. /\ h' \in [Fields -> HandleType] /\ tmp' \in [Fields -> FileType(Samples)]
      /\ \A e \in Fields : h'[e].name = h[e].name /\ h'[e].open = h[e].open
      /\ \A e \in Fields : e # f => h'[e] = h[e] /\ tmp'[e] = tmp[e]
      /\ h'[f].temp = "NULL" /\ tmp'[f] = NoFile /\ h'[f].io = h[f].io
  BY <1>1 DEF TypeOK, HandleType, FileType
<1>7. h[f].io = Start
  BY <1>3 DEF IInv, Streams, Stream
<1> QED BY <1>1, <1>2, <1>3, <1>4, <1>5, <1>6, <1>7 DEF Result

LEMMA MoveOverInv ==
  ASSUME IInv, NEW f \in Fields, MoveOver(f)
  PROVE  IInv'
<1> TypeOK /\ CallOK
  BY DEF IInv
<1> DEFINE enc == Target(Here).enc
<1>1. /\ op.phase = "fields" /\ op.left = {} /\ op.err # "io" /\ run # "freed"
      /\ IsFirst(f, op.list) /\ h[f].temp = "temp" /\ h[f].name = Meta(f).enc
      /\ f \in op.list /\ FragOf[f] = Here /\ Here \in Frags /\ Meta(f) = frag[Here]
      /\ Result(f, tmp[f]) /\ tmp[f] # NoFile /\ enc \in Encs
      /\ op.kind = "enc" <=> enc # Meta(f).enc
      /\ op.kind = "enc" => op.to = enc
      /\ files' = [files EXCEPT ![f][enc] = tmp[f]]
      /\ UNCHANGED <<frag, format, modified, prot, run>>
  BY MoveOverFacts
<1>2. /\ h' \in [Fields -> HandleType] /\ tmp' \in [Fields -> FileType(Samples)]
      /\ ~h[f].open /\ h'[f].io = Start
      /\ \A e \in Fields : h'[e].name = h[e].name /\ h'[e].open = h[e].open
      /\ \A e \in Fields : e # f => h'[e] = h[e] /\ tmp'[e] = tmp[e]
      /\ h'[f].temp = "NULL" /\ tmp'[f] = NoFile
  BY MoveOverFacts
<1>3. PICK phase \in {"fields", "unlink"}, list \in {op.list, op.list \ {f}} :
        /\ op' = [op EXCEPT !.phase = phase, !.list = list]
        /\ phase = "unlink" <=> op.kind = "enc"
        /\ list = IF op.kind = "enc" THEN op.list ELSE op.list \ {f}
  <2>1. CASE op.kind = "enc"
    <3>1. op' = [op EXCEPT !.phase = "unlink", !.list = op.list]
      BY <2>1 DEF MoveOver, TypeOK, OpType
    <3> QED BY <2>1, <3>1
  <2>2. CASE op.kind # "enc"
    <3>1. op' = [op EXCEPT !.phase = "fields", !.list = op.list \ {f}]
      BY <2>2, <1>1 DEF MoveOver, TypeOK, OpType
    <3> QED BY <2>2, <3>1
  <2> QED BY <2>1, <2>2
<1>4. /\ op' \in OpType(op.kind) /\ op'.kind = op.kind /\ op'.phase = phase
      /\ op'.left = {} /\ op'.list = list /\ op'.err = op.err
      /\ op'.todo = op.todo /\ op'.to = op.to /\ op'.move = op.move
  BY <1>1, <1>3 DEF TypeOK, OpType
<1>5. /\ Here' = Here /\ \A g \in Frags : Target(g)' = Target(g)
      /\ \A e \in Fields : Meta(e)' = Meta(e) /\ Shift(e)' = Shift(e) /\ Same(e)' = Same(e)
  BY <1>1, <1>4, Along
<1>6. /\ files' \in [Fields -> [Encs -> FileType(Samples)]]
      /\ files'[f][enc] = tmp[f]
      /\ \A e \in Encs : e # enc => files'[f][e] = files[f][e]
      /\ \A e \in Fields : e # f => files'[e] = files[e]
  <2> HIDE DEF enc
  <2> QED BY <1>1 DEF TypeOK
<1> HIDE DEF enc
<1>7. \A e \in Fields : h'[e].open => Source(e)' # NoFile
  <2>1. \A e \in Fields : e # f => Source(e)' = Source(e)
    BY <1>2, <1>5, <1>6, SourceSame
  <2>2. Source(f)' = files'[f][Meta(f).enc] /\ Source(f) = files[f][Meta(f).enc]
    BY <1>1, <1>2, <1>5 DEF Source, NameOf
  <2>3. h'[f].open => Source(f)' # NoFile
    BY <2>2, <1>1, <1>2, <1>6, MetaIs DEF TypeOK
  <2> QED BY <2>1, <2>3, <1>2 DEF TypeOK
<1>8. TypeOK'
  <2>1. phase = "unlink" => op.kind = "enc" /\ list # {}
    BY <1>1, <1>3
  <2>2. frag' \in [Frags -> MetaType] /\ format' \in [Frags -> MetaType]
    BY <1>1 DEF TypeOK
  <2> QED BY <2>1, <2>2, <1>1, <1>2, <1>4, <1>6, <1>7 DEF TypeOK
<1>9. CallOK'
  BY <1>1, <1>3, <1>4, <1>5 DEF CallOK, Busy
<1>10. Copies' /\ Flushed'
  BY <1>1, <1>2, <1>3, <1>4 DEF IInv, Copies, Flushed
<1>11. \A e \in Fields : ~Moved(e) /\ (Moved(e)' <=> e = f /\ op.kind = "enc")
  <2>1. IsFirst(f, list) <=> op.kind = "enc"
    BY <1>1, <1>3 DEF IsFirst
  <2>2. \A e \in Fields : op.kind = "enc" /\ IsFirst(e, list) => e = f
    BY <1>1, <1>3, OneFirst DEF TypeOK, OpType
  <2>3. \A e \in Fields : IsFirst(e, op.list)' <=> IsFirst(e, list)
    BY <1>4 DEF IsFirst
  <2> QED BY <1>1, <1>3, <1>4, <2>1, <2>2, <2>3 DEF Moved
<1>12. Copied'
  <2> SUFFICES ASSUME NEW e \in op.list, e # f
               PROVE  \/ /\ h'[e].temp = "temp" /\ h'[e].name = Meta(e).enc
                         /\ ~h'[e].open /\ Result(e, tmp[e])' /\ ~Same(e)
                      \/ h'[e].temp # "temp" /\ Same(e)
    BY <1>3, <1>4, <1>5, <1>11 DEF Copied, TypeOK, OpType
  <2>1. e \in Fields /\ h'[e] = h[e] /\ tmp'[e] = tmp[e] /\ files'[e] = files[e]
    BY <1>2, <1>6 DEF TypeOK, OpType
  <2>2. Result(e, tmp[e])' <=> Result(e, tmp[e])
    BY <2>1, <1>1, <1>5 DEF Result, Right
  <2> QED BY <2>1, <2>2, <1>1, <1>11 DEF IInv, Copied
<1>13. DescribesField(Meta(f), f) /\ Meta(f).enc \in Encs
  BY <1>1, <1>11, MetaIs DEF IInv, HereSettled, Busy, FieldsOf
<1>14. InPlace'
  <2> SUFFICES ASSUME op.kind = "enc"
               PROVE  /\ op.to # Meta(f).enc
                      /\ Result(f, files[f][op.to])'
                      /\ \A e \in Encs \ {op.to, Meta(f).enc} : files'[f][e] = NoFile
    BY <1>1, <1>2, <1>4, <1>5, <1>11 DEF InPlace
  <2>1. op.to = enc /\ enc # Meta(f).enc
    BY <1>1
  <2>2. files'[f][Meta(f).enc] = files[f][Meta(f).enc]
    BY <2>1, <1>6, <1>13
  <2>3. Result(f, files[f][op.to])'
    BY <2>1, <2>2, <1>1, <1>4, <1>5, <1>6 DEF Result, Right
  <2> QED BY <2>1, <2>3, <1>6, <1>13 DEF DescribesField
<1>15. \A e \in Fields : e # f =>
          /\ DescribesField(Meta(e), e)' <=> DescribesField(Meta(e), e)
          /\ DescribesField(Target(Here), e)' <=> DescribesField(Target(Here), e)
  BY <1>1, <1>5, <1>6, DescribedSame DEF DescribesField
<1>16. Settled'
  <2>1. \A e \in Fields \ FieldsOf(Here) : DescribesField(Meta(e), e) /\ e # f
    BY <1>1 DEF IInv, Settled, FieldsOf
  <2> QED BY <2>1, <1>1, <1>3, <1>4, <1>5, <1>15 DEF Settled, Busy, FieldsOf
<1>17. HereSettled'
  <2>1. op.kind # "enc" => DescribesField(Target(Here), f)'
    <3> SUFFICES ASSUME op.kind # "enc", NEW e \in Encs, files'[f][e] # NoFile
                 PROVE  e = enc /\ Right(Target(Here), f, files'[f][e])
      BY <1>1, <1>5 DEF DescribesField, enc, Right
    <3>1. e = enc
      BY <1>1, <1>6, <1>13 DEF DescribesField
    <3> QED BY <3>1, <1>1, <1>6 DEF Result
  <2>2. op.kind # "enc" => f \notin list
    BY <1>3
  <2>3. \A e \in Fields : e # f => (e \in list <=> e \in op.list)
    BY <1>3
  <2>4. \A e \in Fields : e = f /\ e \in op'.list => Moved(e)'
    BY <1>4, <1>11, <2>2
  <2> SUFFICES ASSUME NEW e \in Fields, FragOf[e] = Here
               PROVE  /\ e \in list /\ ~Moved(e)' => DescribesField(Meta(e), e)'
                      /\ op.err = "none" /\ e \notin list =>
                           /\ DescribesField(Target(Here), e)'
                           /\ op.kind = "enc" => h'[e].name \in {"NULL", op.to} /\ ~h'[e].open
    BY <1>1, <1>4, <1>5 DEF HereSettled, FieldsOf
  <2>5. CASE e = f
    BY <2>1, <2>4, <2>5, <1>1, <1>3, <1>4
  <2>6. CASE e # f
    BY <2>3, <2>6, <1>1, <1>2, <1>11, <1>15 DEF IInv, HereSettled, Busy, FieldsOf
  <2> QED BY <2>5, <2>6
<1>18. Names'
  BY <1>1, <1>2, <1>3, <1>4, <1>5 DEF IInv, Names, Busy
<1>19. Willing'
  <2> SUFFICES ASSUME Careful, NEW e \in Fields, Ahead(e)'
               PROVE  Ready(e)'
    BY <1>1, <1>4 DEF IInv, Willing
  <2>1. e # f /\ Ahead(e)
    BY <1>1, <1>3, <1>4, <1>5 DEF Ahead, CallOK, TypeOK, OpType, Here
  <2>2. Ready(e)' <=> Ready(e)
    BY <2>1, <1>2, <1>4, <1>5, ReadySame
  <2> QED BY <2>1, <2>2 DEF IInv, Willing
<1>20. Streams'
  <2>1. \A e \in Fields : e # f => files'[e] = files[e] /\ NameOf(e)' = NameOf(e)
    BY <1>2, <1>5, <1>6, SourceSame
  <2> QED BY <2>1, <1>2, <1>5, <1>8, StreamsSame DEF IInv
<1> QED BY <1>8, <1>9, <1>10, <1>12, <1>14, <1>16, <1>17, <1>18, <1>19, <1>20 DEF IInv

(* The old file of f is deleted, or stays.                                    *)
LEMMA UnlinkOldInv ==
  ASSUME IInv, NEW f \in Fields, UnlinkOld(f)
  PROVE  IInv'
<1> TypeOK /\ CallOK
  BY DEF IInv
<1>1. op.phase = "unlink" /\ IsFirst(f, op.list) /\ UNCHANGED <<tmp, frag, format, modified, prot>>
  BY DEF UnlinkOld
<1>2. /\ f \in op.list /\ op.move /\ op.todo # <<>> /\ op.left = {} /\ op.err # "io"
      /\ FragOf[f] = Here /\ Here \in Frags /\ Meta(f) = frag[Here]
      /\ op.kind = "enc" /\ op.to \in Encs /\ op.to # Meta(f).enc /\ run # "freed"
      /\ \A e \in Fields : Moved(e) <=> e = f
  BY <1>1, FinishingFacts DEF Busy, Moved, TypeOK, CallOK
<1>3. /\ h[f].name = Meta(f).enc /\ h[f].temp = "NULL" /\ tmp[f] = NoFile
      /\ ~h[f].open /\ h[f].io = Start
      /\ Result(f, files[f][op.to])
      /\ \A e \in Encs \ {op.to, Meta(f).enc} : files[f][e] = NoFile
  BY <1>2 DEF IInv, InPlace, Copies, Streams, Stream
<1>4. Target(Here).enc = op.to
  BY <1>2, TargetIs
<1>5. PICK fails \in BOOLEAN :
        /\ files' = IF fails THEN files ELSE [files EXCEPT ![f][h[f].name] = NoFile]
        /\ h' = IF fails THEN h ELSE [h EXCEPT ![f].name = op.to]
        /\ run' = IF fails THEN "invalid" ELSE run
        /\ op' = [op EXCEPT !.phase = "fields", !.list = op.list \ {f},
                            !.err = IF fails THEN "unclean" ELSE op.err]
  BY DEF UnlinkOld, May
<1>6. /\ op' \in OpType(op.kind) /\ op'.kind = op.kind /\ op'.phase = "fields"
      /\ op'.left = {} /\ op'.list = op.list \ {f}
      /\ op'.err = (IF fails THEN "unclean" ELSE op.err)
      /\ op'.todo = op.todo /\ op'.to = op.to /\ op'.move = op.move
  BY <1>2, <1>5 DEF TypeOK, OpType
<1>7. /\ Here' = Here /\ \A g \in Frags : Target(g)' = Target(g)
      /\ \A e \in Fields : Meta(e)' = Meta(e) /\ Shift(e)' = Shift(e) /\ Same(e)' = Same(e)
  BY <1>1, <1>6, Along
<1>8. Meta(f).enc \in Encs
  BY MetaIs
<1>9. /\ files' \in [Fields -> [Encs -> FileType(Samples)]]
      /\ ~fails => files'[f][Meta(f).enc] = NoFile
      /\ \A e \in Encs : e # Meta(f).enc => files'[f][e] = files[f][e]
      /\ \A e \in Fields : e # f => files'[e] = files[e]
  BY <1>3, <1>5, <1>8 DEF TypeOK, FileType
<1>10. /\ h' \in [Fields -> HandleType]
       /\ h'[f].name = IF fails THEN h[f].name ELSE op.to
       /\ \A e \in Fields : h'[e].temp = h[e].temp /\ h'[e].open = h[e].open
       /\ h'[f].io = h[f].io
       /\ \A e \in Fields : e # f => h'[e] = h[e]
  BY <1>2, <1>5 DEF TypeOK, HandleType
<1>11. \A e \in Fields : h'[e].open => h'[e].name # "NULL" /\ Source(e)' # NoFile
  <2>1. \A e \in Fields : e # f => Source(e)' = Source(e)
    BY <1>7, <1>9, <1>10, SourceSame
  <2>2. fails => Source(f)' = Source(f)
    BY <1>5, <1>7, SourceSame
  <2>3. ~fails => h'[f].name # "NULL" /\ Source(f)' = files[f][op.to]
    <3>1. op.to # "NULL"
      BY <1>2, AlterFragmentAssumption
    <3>2. files'[f][op.to] = files[f][op.to]
      BY <1>2, <1>9
    <3> QED BY <3>1, <3>2, <1>10 DEF Source, NameOf
  <2>4. files[f][op.to] # NoFile
    BY <1>3 DEF Result
  <2> QED BY <2>1, <2>2, <2>3, <2>4, <1>10 DEF TypeOK
<1>12. TypeOK'
  BY <1>1, <1>5, <1>6, <1>9, <1>10, <1>11 DEF TypeOK
<1>13. CallOK'
  BY <1>1, <1>2, <1>5, <1>6, <1>7 DEF CallOK, Busy
<1>14. Copies' /\ Flushed'
  BY <1>1, <1>3, <1>6, <1>10 DEF IInv, Copies, Flushed
<1>15. InPlace' /\ \A e \in Fields : ~Moved(e)'
  BY <1>6 DEF InPlace, Moved
<1>16. Copied'
  <2> SUFFICES ASSUME NEW e \in op.list, e # f
               PROVE  \/ /\ h'[e].temp = "temp" /\ h'[e].name = Meta(e).enc
                         /\ ~h'[e].open /\ Result(e, tmp[e])' /\ ~Same(e)
                      \/ h'[e].temp # "temp" /\ Same(e)
    BY <1>6, <1>7 DEF Copied, TypeOK, OpType
  <2>1. e \in Fields /\ h'[e] = h[e] /\ tmp'[e] = tmp[e] /\ files'[e] = files[e]
    BY <1>1, <1>9, <1>10 DEF TypeOK, OpType
  <2>2. Result(e, tmp[e])' <=> Result(e, tmp[e])
    BY <2>1, <1>2, <1>7 DEF Result, Right
  <2> QED BY <2>1, <2>2, <1>2 DEF IInv, Copied
<1>17. \A e \in Fields : e # f =>
          /\ DescribesField(Meta(e), e)' <=> DescribesField(Meta(e), e)
          /\ DescribesField(Target(Here), e)' <=> DescribesField(Target(Here), e)
  BY <1>2, <1>7, <1>9, DescribedSame DEF DescribesField
<1>18. Settled'
  <2>1. \A e \in Fields \ FieldsOf(Here) : DescribesField(Meta(e), e) /\ e # f
    BY <1>1, <1>2 DEF IInv, Settled, FieldsOf
  <2> QED BY <2>1, <1>2, <1>6, <1>7, <1>17 DEF Settled, Busy, FieldsOf
<1>19. HereSettled'
  <2>1. ~fails => DescribesField(Target(Here), f)'
    <3> SUFFICES ASSUME ~fails, NEW e \in Encs, files'[f][e] # NoFile
                 PROVE  e = op.to /\ Right(Target(Here), f, files'[f][e])
      BY <1>2, <1>4, <1>7 DEF DescribesField, Right
    <3>1. e = op.to
      BY <1>3, <1>9
    <3> QED BY <3>1, <1>2, <1>3, <1>9 DEF Result
  <2> SUFFICES ASSUME NEW e \in Fields, FragOf[e] = Here
               PROVE  /\ e \in op.list /\ e # f => DescribesField(Meta(e), e)'
                      /\ ~fails /\ op.err = "none" /\ (e \notin op.list \/ e = f) =>
                           /\ DescribesField(Target(Here), e)'
                           /\ h'[e].name \in {"NULL", op.to} /\ ~h'[e].open
    BY <1>2, <1>6, <1>7 DEF HereSettled, FieldsOf
  <2>2. CASE e = f
    BY <2>1, <2>2, <1>3, <1>10
  <2>3. CASE e # f
    BY <2>3, <1>1, <1>2, <1>10, <1>17 DEF IInv, HereSettled, Busy, FieldsOf
  <2> QED BY <2>2, <2>3
<1>20. Names'
  <2> SUFFICES ASSUME NEW e \in Fields
               PROVE  \/ h'[e].name \in {"NULL", Meta(e).enc}
                      \/ FragOf[e] = Here /\ e \notin op'.list /\ h'[e].name = op.to
    BY <1>2, <1>6, <1>7 DEF Names, Busy
  <2>1. CASE e = f
    BY <2>1, <1>2, <1>3, <1>6, <1>10
  <2>2. CASE e # f
    BY <2>2, <1>1, <1>6, <1>10 DEF IInv, Names
  <2> QED BY <2>1, <2>2
<1>21. Willing'
  <2> SUFFICES ASSUME Careful, NEW e \in Fields, Ahead(e)'
               PROVE  Ready(e)'
    BY <1>1, <1>6 DEF IInv, Willing
  <2>1. e # f /\ Ahead(e)
    BY <1>2, <1>6, <1>7 DEF Ahead, CallOK, TypeOK, OpType, Here
  <2>2. Ready(e)' <=> Ready(e)
    BY <2>1, <1>6, <1>7, <1>10, ReadySame
  <2> QED BY <2>1, <2>2 DEF IInv, Willing
<1>22. Streams'
  <2>1. \A e \in Fields : e # f => files'[e] = files[e] /\ NameOf(e)' = NameOf(e)
    BY <1>7, <1>9, <1>10, SourceSame
  <2> QED BY <2>1, <1>3, <1>7, <1>10, <1>12, StreamsSame DEF IInv
<1> QED BY <1>12, <1>13, <1>14, <1>15, <1>16, <1>18, <1>19, <1>20, <1>21, <1>22 DEF IInv

LEMMA TailIs ==
  ASSUME NEW S, NEW s \in Seq(S), s # <<>>, NEW i \in DOMAIN Tail(s)
  PROVE  i \in Nat \ {0} /\ i + 1 \in DOMAIN s /\ Tail(s)[i] = s[i + 1]
<1>1. Len(s) \in Nat /\ Len(s) # 0 /\ DOMAIN s = 1..Len(s)
  OBVIOUS
<1>2. Len(Tail(s)) = Len(s) - 1 /\ Tail(s) \in Seq(S)
  BY <1>1
<1>3. DOMAIN Tail(s) = 1..(Len(s) - 1)
  BY <1>2
<1>4. i \in 1..(Len(s) - 1)
  BY <1>3
<1>5. Tail(s)[i] = s[i + 1]
  BY <1>1, <1>4
<1> QED BY <1>1, <1>4, <1>5

LEMMA TailEmpty ==
  ASSUME NEW S, NEW s \in Seq(S), s # <<>>
  PROVE  Tail(s) = <<>> <=> Len(s) = 1
<1>1. Len(s) \in Nat /\ Len(s) # 0
  OBVIOUS
<1>2. Len(Tail(s)) = Len(s) - 1 /\ Tail(s) \in Seq(S)
  BY <1>1
<1>3. \A t \in Seq(S) : t = <<>> <=> Len(t) = 0
  OBVIOUS
<1>4. Tail(s) = <<>> <=> Len(Tail(s)) = 0
  BY <1>2, <1>3
<1>5. Len(Tail(s)) = 0 <=> Len(s) = 1
  BY <1>1, <1>2
<1> QED BY <1>4, <1>5

(* The declaration in memory changes with all data files in place.            *)
LEMMA DeclareInv == ASSUME IInv, Declare PROVE IInv'
<1> TypeOK /\ CallOK
  BY DEF IInv
<1>1. /\ op.phase = "fields" /\ op.left = {} /\ op.list = {} /\ op.err = "none"
      /\ op.todo # <<>> /\ op.move /\ run = "ok" /\ Here \in Frags
      /\ frag' = [frag EXCEPT ![Here] = Target(Here)]
      /\ modified' = modified \cup {Here}
      /\ UNCHANGED <<files, tmp, h, format, prot, run>>
  BY HereType DEF Declare, Finished, CallOK, TypeOK, Busy
<1>2. PICK rest \in Seq(Frags) :
        /\ op' = IF rest = <<>> THEN Idle ELSE [op EXCEPT !.phase = "start", !.todo = rest]
        /\ \A i \in DOMAIN rest : i + 1 \in DOMAIN op.todo /\ rest[i] = op.todo[i + 1]
        /\ \A i \in DOMAIN rest : i \in Nat \ {0}
  <2>1. op.todo \in Seq(Frags) /\ Tail(op.todo) \in Seq(Frags)
    BY <1>1 DEF TypeOK, OpType
  <2>2. Tail(op.todo) = <<>> <=> Len(op.todo) = 1
    BY <1>1, <2>1, TailEmpty
  <2>3. op' = IF Tail(op.todo) = <<>> THEN Idle
              ELSE [op EXCEPT !.phase = "start", !.todo = Tail(op.todo)]
    BY <2>2 DEF Declare
  <2>4. \A i \in DOMAIN Tail(op.todo) :
          /\ i \in Nat \ {0} /\ i + 1 \in DOMAIN op.todo
          /\ Tail(op.todo)[i] = op.todo[i + 1]
    BY <1>1, <2>1, TailIs
  <2> QED BY <2>1, <2>3, <2>4
<1>3. /\ \A i, j \in DOMAIN rest : rest[i] = rest[j] => i = j
      /\ \A i \in DOMAIN rest : rest[i] # Here /\ rest[i] \in Frags
  <2>1. \A i, j \in DOMAIN rest : i + 1 = j + 1 => i = j
    BY <1>2
  <2>2. 1 \in DOMAIN op.todo /\ Here = op.todo[1]
    BY <1>1 DEF TypeOK, OpType, Here
  <2>3. \A i \in DOMAIN rest : i + 1 # 1
    BY <1>2
  <2> QED BY <1>2, <2>1, <2>2, <2>3 DEF CallOK
<1>4. /\ op'.kind \in {"off", "sex", "enc"} /\ op' \in OpType(op'.kind)
      /\ op'.left = {} /\ op'.list = {} /\ op'.err = "none" /\ op'.todo = rest
      /\ op'.phase = IF rest = <<>> THEN "idle" ELSE "start"
      /\ rest # <<>> => op'.kind = op.kind /\ op'.to = op.to /\ op'.move = op.move
  <2>1. CASE rest = <<>>
    BY <2>1, <1>2 DEF Idle, OpType
  <2>2. CASE rest # <<>>
    BY <2>2, <1>1, <1>2 DEF TypeOK, OpType
  <2> QED BY <2>1, <2>2
<1>5. /\ Target(Here) \in MetaType
      /\ Target(Here).enc = IF op.kind = "enc" THEN op.to ELSE frag[Here].enc
  BY <1>1, TargetIs
<1>6. /\ frag' \in [Frags -> MetaType] /\ frag'[Here] = Target(Here)
      /\ \A g \in Frags : g # Here => frag'[g] = frag[g]
  BY <1>1, <1>5 DEF TypeOK
<1>7. \A f \in Fields :
        /\ FragOf[f] \in Frags
        /\ FragOf[f] = Here => Meta(f)' = Target(Here)
        /\ FragOf[f] # Here => Meta(f)' = Meta(f)
  BY <1>6, AlterFragmentAssumption DEF Meta
<1>8. \A f \in Fields : h[f].name # "NULL" => Source(f)' = Source(f)
  BY <1>1 DEF Source, NameOf
<1>9. TypeOK'
  BY <1>1, <1>4, <1>6, <1>8 DEF TypeOK
<1>10. CallOK'
  BY <1>1, <1>3, <1>4 DEF CallOK, Busy
<1>11. Copies' /\ Flushed'
  BY <1>1, <1>4, <1>6 DEF IInv, Copies, Flushed, TypeOK
<1>12. Copied' /\ InPlace' /\ HereSettled'
  BY <1>4 DEF Copied, InPlace, HereSettled, Moved, Busy
<1>13. \A f \in Fields : DescribesField(Meta(f), f)'
  <2> SUFFICES ASSUME NEW f \in Fields PROVE DescribesField(Meta(f), f)'
    OBVIOUS
  <2>1. CASE FragOf[f] = Here
    <3>1. DescribesField(Target(Here), f)
      BY <2>1, <1>1 DEF IInv, HereSettled, Busy, FieldsOf
    <3> QED BY <2>1, <3>1, <1>1, <1>7 DEF DescribesField, Right
  <2>2. CASE FragOf[f] # Here
    <3>1. DescribesField(Meta(f), f)
      BY <2>2, <1>1 DEF IInv, Settled, FieldsOf
    <3> QED BY <2>2, <3>1, <1>1, <1>7, DescribedSame
  <2> QED BY <2>1, <2>2
<1>14. Settled'
  BY <1>13, <1>1 DEF Settled
<1>15. Names'
  <2> SUFFICES ASSUME NEW f \in Fields PROVE h[f].name \in {"NULL", Meta(f)'.enc}
    BY <1>1 DEF Names
  <2>1. CASE FragOf[f] = Here
    <3>1. op.kind = "enc" => h[f].name \in {"NULL", op.to}
      BY <2>1, <1>1 DEF IInv, HereSettled, Busy, FieldsOf
    <3>2. op.kind # "enc" => h[f].name \in {"NULL", frag[Here].enc}
      BY <2>1, <1>1 DEF IInv, Names, Meta
    <3> QED BY <2>1, <3>1, <3>2, <1>5, <1>7
  <2>2. CASE FragOf[f] # Here
    BY <2>2, <1>1, <1>7 DEF IInv, Names
  <2> QED BY <2>1, <2>2
<1>16. Willing'
  <2> SUFFICES ASSUME Careful
               PROVE  /\ \A i \in DOMAIN rest :
                           op'.kind = "off" /\ frag'[rest[i]].enc = "gzip" =>
                             op'.to >= frag'[rest[i]].off
                      /\ \A f \in Fields : Ahead(f)' => Ready(f)'
    BY <1>4 DEF Willing
  <2>1. ASSUME NEW i \in DOMAIN rest, op'.kind = "off", frag'[rest[i]].enc = "gzip"
        PROVE  op'.to >= frag'[rest[i]].off
    <3>1. frag'[rest[i]] = frag[rest[i]] /\ rest # <<>>
      BY <1>3, <1>6
    <3> QED BY <2>1, <3>1, <1>2, <1>4 DEF IInv, Willing
  <2>2. ASSUME NEW f \in Fields, Ahead(f)' PROVE Ready(f)'
    <3>1. PICK i \in DOMAIN rest : rest[i] = FragOf[f]
      BY <2>2, <1>4 DEF Ahead, Here
    <3>2. i + 1 # 1 /\ i + 1 \in DOMAIN op.todo /\ op.todo[i + 1] = FragOf[f]
      BY <3>1, <1>2
    <3>3. Ahead(f)
      BY <3>2 DEF Ahead
    <3>4. Meta(f)' = Meta(f) /\ rest # <<>>
      BY <3>1, <1>3, <1>7
    <3>5. Ready(f)' <=> Ready(f)
      BY <3>4, <1>1, <1>4, ReadySame
    <3> QED BY <3>3, <3>5 DEF IInv, Willing
  <2> QED BY <2>1, <2>2
<1>17. Streams'
  <2> SUFFICES ASSUME NEW f \in Fields, h[f].io # Start
               PROVE  NameOf(f)' = NameOf(f) /\ Meta(f)'.enc = Meta(f).enc
    BY <1>1, <1>9, StreamsSame DEF IInv
  <2>1. CASE FragOf[f] = Here /\ op.kind = "enc"
    <3>1. ~h[f].open
      BY <2>1, <1>1 DEF IInv, HereSettled, Busy, FieldsOf
    <3> QED BY <3>1 DEF IInv, Streams, Stream
  <2>2. CASE ~(FragOf[f] = Here /\ op.kind = "enc")
    <3>1. Meta(f)'.enc = Meta(f).enc
      BY <2>2, <1>5, <1>7 DEF Meta
    <3> QED BY <3>1, <1>1 DEF NameOf
  <2> QED BY <2>1, <2>2
<1> QED BY <1>9, <1>10, <1>11, <1>12, <1>14, <1>15, <1>16, <1>17 DEF IInv

-------------------------------------------------------------------------------
(* The invariant holds at the start, and every step preserves it.             *)

LEMMA InitInv == Init => IInv
<1> SUFFICES ASSUME Init PROVE IInv
  OBVIOUS
<1>1. /\ frag \in [Frags -> InitMetas] /\ prot \in [Frags -> Prots] /\ format = frag
      /\ tmp = [f \in Fields |-> NoFile]
      /\ h = [f \in Fields |-> [name |-> "NULL", open |-> FALSE, io |-> Start, stale |-> FALSE,
                           temp |-> "NULL"]]
      /\ modified = {} /\ op = Idle /\ run = "ok"
  BY DEF Init
<1>2. PICK start \in [Fields -> [vals : InitVals, sex : Sexes] \cup {NoFile}] :
        /\ \A f \in Fields :
             start[f].sex = (IF start[f] = NoFile THEN NoFile.sex
                             ELSE IF Sensitive(Meta(f).enc) THEN Meta(f).sex
                             ELSE "little")
        /\ files = [f \in Fields |->
                      [e \in Encs |-> IF e = Meta(f).enc THEN start[f] ELSE NoFile]]
  BY DEF Init
<1>3. frag \in [Frags -> MetaType]
  <2>1. \A m \in InitMetas : m \in [enc : Encs, sex : Sexes, off : Offs]
    BY AlterFragmentAssumption DEF Sexes
  <2>2. \A m \in [enc : Encs, sex : Sexes, off : Offs] : m \in MetaType
    BY AlterFragmentAssumption DEF MetaType
  <2> QED BY <1>1, <2>1, <2>2
<1>4. Idle.kind = "off" /\ Idle \in OpType("off")
  BY DEF Idle, OpType
<1>5. InitVals \subseteq Seq(Samples)
  BY AlterFragmentAssumption DEF Samples
<1>6. \A f \in Fields : start[f] \in FileType(Samples)
  BY <1>2, <1>5 DEF FileType
<1>7. files \in [Fields -> [Encs -> FileType(Samples)]]
  BY <1>2, <1>6 DEF FileType
<1>8. h \in [Fields -> HandleType] /\ tmp \in [Fields -> FileType(Samples)]
  BY <1>1 DEF HandleType, FileType, StreamType, Start
<1>9. TypeOK
  BY <1>1, <1>3, <1>4, <1>7, <1>8 DEF TypeOK, Idle
<1>10. CallOK
  BY <1>1 DEF CallOK, Idle, Busy
<1>11. Copies /\ Copied /\ InPlace /\ HereSettled /\ Names /\ Flushed
  BY <1>1 DEF Copies, Copied, InPlace, HereSettled, Names, Flushed, Moved, Idle, Busy
<1>12. \A f \in Fields : DescribesField(Meta(f), f)
  BY <1>2, <1>9, MetaIs DEF DescribesField, Right
<1>13. Settled
  <2>1. 0 \in Frags
    BY AlterFragmentAssumption DEF Frags
  <2> QED BY <2>1, <1>12 DEF Settled
<1>14. Willing
  BY <1>1 DEF Willing, Ahead, Idle
<1>15. Streams
  <2> SUFFICES ASSUME NEW f \in Fields PROVE Stream(f)
    BY DEF Streams
  <2> DEFINE lines == Len(Stored(f))
  <2>1. lines \in Nat
    BY <1>9, StoredType
  <2>2. h[f].io.at = 0 /\ h[f].io.pos = 0 /\ h[f].io = Start
    BY <1>1 DEF Start
  <2>3. h[f].io.at <= lines
    <3> HIDE DEF lines
    <3> QED BY <2>1, <2>2
  <2> QED BY <2>2, <2>3 DEF Stream
<1> QED BY <1>9, <1>10, <1>11, <1>13, <1>14, <1>15 DEF IInv

LEMMA StutterInv == ASSUME IInv, UNCHANGED vars PROVE IInv'
<1> USE DEF vars
<1>1. /\ Here' = Here /\ Target(Here)' = Target(Here)
      /\ \A f \in Fields : Meta(f)' = Meta(f) /\ Shift(f)' = Shift(f) /\ Same(f)' = Same(f)
  BY Along DEF Target, Here
<1>2. \A f \in Fields : Source(f)' = Source(f) /\ NameOf(f)' = NameOf(f)
  BY <1>1 DEF Source, NameOf
<1>3. \A f \in Fields : Moved(f)' <=> Moved(f)
  BY DEF Moved, IsFirst
<1>4. \A f \in Fields :
        /\ DescribesField(Meta(f), f)' <=> DescribesField(Meta(f), f)
        /\ DescribesField(Target(Here), f)' <=> DescribesField(Target(Here), f)
  BY <1>1 DEF DescribesField
<1>5. TypeOK' /\ CallOK'
  BY <1>1, <1>2 DEF IInv, TypeOK, CallOK, Busy
<1>6. Copies' /\ Names' /\ Flushed'
  BY <1>1 DEF IInv, Copies, Names, Flushed, Busy
<1>7. Copied' /\ InPlace'
  <2>1. \A f \in Fields : /\ Result(f, tmp[f])' <=> Result(f, tmp[f])
                          /\ Result(f, files[f][op.to])' <=> Result(f, files[f][op.to])
    BY <1>1 DEF Result, Right
  <2>2. op.list \subseteq Fields
    BY DEF IInv, TypeOK, OpType
  <2> QED BY <1>1, <1>3, <2>1, <2>2 DEF IInv, Copied, InPlace
<1>8. Settled'
  BY <1>1, <1>4 DEF IInv, Settled, Busy, FieldsOf
<1>9. HereSettled'
  BY <1>1, <1>3, <1>4 DEF IInv, HereSettled, Busy, FieldsOf
<1>10. Willing'
  <2>1. \A f \in Fields : Ready(f)' <=> Ready(f)
    BY <1>1, ReadySame
  <2> QED BY <1>1, <2>1 DEF IInv, Willing, Ahead
<1>11. Streams'
  BY <1>1, <1>2, <1>5, StreamsSame DEF IInv
<1> QED BY <1>5, <1>6, <1>7, <1>8, <1>9, <1>10, <1>11 DEF IInv

LEMMA NextInv ==
  ASSUME Recodes, NoLeftovers, IInv, [Next]_vars
  PROVE  IInv'
<1>1. CASE Alter
  <2>1. CASE \E move \in Moves,
                todo \in {<<g>> : g \in Frags} \cup {[i \in 1..NFrags |-> i - 1]} :
               \/ \E off \in Offs : Begin("off", off, move, todo)
               \/ \E sex \in Sexes : Begin("sex", sex, move, todo)
               \/ \E enc \in Encs : Begin("enc", enc, move, todo)
    BY <2>1, BeginInv, AlterFragmentAssumption
  <2>2. CASE Refuse
    BY <2>2, RefuseInv
  <2>3. CASE StartFragment
    BY <2>3, StartFragmentInv
  <2>4. CASE \E f \in Fields : Convert(f)
    BY <2>4, MogrifySameInv, MogrifyProtectedInv, MogrifyMissingInv, MogrifyNoTempInv,
       MogrifyNoSpaceInv, MogrifyFileInv DEF Convert
  <2>5. CASE \E f \in Fields : Discard(f) \/ MoveFails(f) \/ MoveOver(f) \/ UnlinkOld(f)
    BY <2>5, DiscardInv, MoveFailsInv, MoveOverInv, UnlinkOldInv
  <2>6. CASE GiveUp
    BY <2>6, GiveUpInv
  <2>7. CASE Declare
    BY <2>7, DeclareInv
  <2> QED BY <1>1, <2>1, <2>2, <2>3, <2>4, <2>5, <2>6, <2>7 DEF Alter
<1>2. CASE \E f \in Fields, k \in Firsts, n \in 1..MaxCount : GetData(f, k, n)
  BY <1>2, GetDataInv, AlterFragmentAssumption
<1>3. CASE \E f \in Fields : RawClose(f)
  BY <1>3, RawCloseInv
<1>4. CASE \E g \in Frags : MetaFlush(g) \/ RewriteFragment(g)
  BY <1>4, FlushInv DEF MetaFlush, RewriteFragment
<1>5. CASE \E gs \in {{g} : g \in Frags} \cup {Frags}, p \in Prots : AlterProtection(gs, p)
  BY <1>5, ProtectionInv
<1>6. CASE UNCHANGED vars
  BY <1>6, StutterInv
<1> QED BY <1>1, <1>2, <1>3, <1>4, <1>5, <1>6 DEF Next

(* The invariant holds as long as data are recoded by the library.            *)
THEOREM Invariance ==
  ASSUME Recodes, NoLeftovers
  PROVE  Spec => []IInv
<1>1. Init => IInv
  BY InitInv
<1>2. IInv /\ [Next]_vars => IInv'
  BY NextInv
<1> QED BY <1>1, <1>2, PTL DEF Spec
(* The handles, the declarations, the files and the call in progress are well *)
(* formed; an open file exists.                                               *)
THEOREM TypeCorrect ==
  ASSUME Recodes, NoLeftovers
  PROVE  Spec => []TypeOK
<1>1. IInv => TypeOK
  BY DEF IInv
<1> QED BY <1>1, Invariance, PTL

LEMMA AllDescribed ==
  ASSUME IInv, run = "ok", ~Placing
  PROVE  \A f \in Fields : DescribesField(Meta(f), f)
<1>1. op.phase \in {"idle", "start", "fields", "unlink"} /\ op.err # "unclean"
  BY DEF IInv, TypeOK, OpType, CallOK
<1>2. CASE ~Busy
  BY <1>2 DEF IInv, Settled
<1>3. CASE Busy
  <2>1. op.err = "io" \/ op.left # {}
    BY <1>3 DEF Placing, Busy
  <2>2. \A f \in Fields : FragOf[f] = Here => DescribesField(Meta(f), f)
    BY <2>1, <1>3 DEF IInv, HereSettled, FieldsOf
  <2>3. \A f \in Fields : FragOf[f] # Here => DescribesField(Meta(f), f)
    BY <1>3 DEF IInv, Settled, Busy, FieldsOf
  <2> QED BY <2>2, <2>3
<1> QED BY <1>2, <1>3

(* Whatever fails, the declaration in memory describes the data files of      *)
(* every fragment but one, and of all when the call returned and the dirfile  *)
(* is still valid ("At most one fragment will ever be unclean").              *)
THEOREM OneUncleanHolds ==
  ASSUME Recodes, NoLeftovers
  PROVE  Spec => []OneUnclean
<1>1. ASSUME IInv PROVE OneUnclean
  <2>1. \E g \in Frags : \A g1 \in Frags : g1 # g => Describes(frag[g1], g1)
    BY <1>1 DEF IInv, Settled, Describes, FieldsOf, Meta
  <2>2. run = "ok" /\ ~Placing => \A g \in Frags : Describes(frag[g], g)
    BY <1>1, AllDescribed DEF Describes, FieldsOf, Meta
  <2> QED BY <2>1, <2>2 DEF OneUnclean
<1> QED BY <1>1, Invariance, PTL

(* No failed conversion leaves a temporary file behind, except one that could *)
(* not be deleted, which is remembered.                                       *)
THEOREM CopiesDeletedHolds ==
  ASSUME Recodes, NoLeftovers
  PROVE  Spec => []CopiesDeleted
<1>1. ASSUME IInv PROVE CopiesDeleted
  BY <1>1 DEF IInv, CallOK, Busy, Copies, CopiesDeleted
<1> QED BY <1>1, Invariance, PTL

(* A process that dies leaves a dirfile that can be read, unless it died      *)
(* while files were put into place or before a change was flushed.            *)
THEOREM CrashReadableHolds ==
  ASSUME Recodes, NoLeftovers
  PROVE  Spec => []CrashReadable
<1>1. ASSUME IInv PROVE CrashReadable
  BY <1>1, AllDescribed DEF IInv, Flushed, CrashReadable, Describes, FieldsOf, Meta
<1> QED BY <1>1, Invariance, PTL

LEMMA MoveOverSurvives ==
  ASSUME IInv, Careful, NEW f \in Fields, MoveOver(f), NEW d \in Fields, NEW e \in Encs,
         files[d][e] # NoFile, files'[d][e] # files[d][e]
  PROVE  \E e2 \in Encs : /\ files'[d][e2] # NoFile
                         /\ files'[d][e2].vals \in A!Shifted(files[d][e].vals, Shift(d))
<1> DEFINE enc == Target(Here).enc
<1>1. /\ op.phase = "fields" /\ f \in op.list /\ FragOf[f] = Here
      /\ Result(f, tmp[f]) /\ tmp[f] # NoFile /\ enc \in Encs
      /\ files' = [files EXCEPT ![f][enc] = tmp[f]]
  BY MoveOverFacts
<1> HIDE DEF enc
<1>2. d = f /\ e = enc /\ files'[f][enc] = tmp[f]
  BY <1>1 DEF IInv, TypeOK
<1>3. DescribesField(Meta(f), f)
  BY <1>1 DEF IInv, HereSettled, Busy, FieldsOf, Moved
<1>4. e = Meta(f).enc
  BY <1>2, <1>3 DEF DescribesField
<1>5. tmp[f].vals \in A!Shifted(files[f][Meta(f).enc].vals, Shift(f))
  BY <1>1 DEF Result
<1> QED BY <1>1, <1>2, <1>4, <1>5

LEMMA UnlinkOldSurvives ==
  ASSUME IInv, Careful, NEW f \in Fields, UnlinkOld(f), NEW d \in Fields, NEW e \in Encs,
         files[d][e] # NoFile, files'[d][e] # files[d][e]
  PROVE  \E e2 \in Encs : /\ files'[d][e2] # NoFile
                         /\ files'[d][e2].vals \in A!Shifted(files[d][e].vals, Shift(d))
<1>1. op.phase = "unlink" /\ Moved(f)
  BY DEF UnlinkOld, Moved
<1>2. /\ h[f].name = Meta(f).enc /\ op.to # Meta(f).enc /\ Result(f, files[f][op.to])
      /\ op.to \in Encs
  BY <1>1 DEF IInv, InPlace, TypeOK, OpType
<1>3. files' = [files EXCEPT ![f][Meta(f).enc] = NoFile]
  BY <1>2 DEF UnlinkOld
<1>4. d = f /\ e = Meta(f).enc /\ files'[f][op.to] = files[f][op.to]
  BY <1>2, <1>3 DEF IInv, TypeOK
<1>5. files[f][op.to] # NoFile
  BY <1>2 DEF Result
<1>6. files[f][op.to].vals \in A!Shifted(files[f][Meta(f).enc].vals, Shift(f))
  BY <1>2 DEF Result
<1> QED BY <1>2, <1>4, <1>5, <1>6

(* "Because it may fail, the move must occur out-of-place": a data file is    *)
(* replaced or deleted only when its samples, moved as asked, are in a file   *)
(* under the field's name.                                                    *)
THEOREM DataSurvivesHolds ==
  ASSUME Careful, Recodes, NoLeftovers
  PROVE  Spec => DataSurvives
<1> DEFINE Survive(f, e) ==
             files[f][e] # NoFile /\ files'[f][e] # files[f][e] =>
               \E e2 \in Encs :
                 /\ files'[f][e2] # NoFile
                 /\ files'[f][e2].vals \in A!Shifted(files[f][e].vals, Shift(f))
<1>1. ASSUME IInv, [Next]_vars PROVE \A f \in Fields, e \in Encs : Survive(f, e)
  <2> SUFFICES ASSUME NEW d \in Fields, NEW e \in Encs, files'[d][e] # files[d][e]
               PROVE  Survive(d, e)
    OBVIOUS
  <2>1. CASE \E f \in Fields : MoveOver(f)
    BY <2>1, <1>1, MoveOverSurvives
  <2>2. CASE \E f \in Fields : UnlinkOld(f)
    BY <2>2, <1>1, UnlinkOldSurvives
  <2>3. CASE files' = files
    BY <2>3
  <2>4. \/ files' = files
        \/ \E f \in Fields : MoveOver(f)
        \/ \E f \in Fields : UnlinkOld(f)
    BY <1>1 DEF Next, Alter, Convert, Begin, Refuse, StartFragment, MogrifySame,
       MogrifyProtected, MogrifyMissing, MogrifyNoTemp, MogrifyNoSpace, MogrifyFile, Discard,
       MoveFails, GiveUp, Declare, GetData, RawClose, MetaFlush, RewriteFragment,
       AlterProtection, vars
  <2> QED BY <2>1, <2>2, <2>3, <2>4
<1>2. IInv /\ [Next]_vars => [\A f \in Fields, e \in Encs : Survive(f, e)]_vars
  BY <1>1
<1> QED BY <1>2, Invariance, PTL DEF Spec, DataSurvives
================================================================================
