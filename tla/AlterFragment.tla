----------------------------- MODULE AlterFragment -----------------------------
(* gd_alter_frameoffset, gd_alter_endianness and gd_alter_encoding            *)
(* (_GD_ShiftFragment in flimits.c, _GD_ByteSwapFragment in endian.c,         *)
(* _GD_RecodeFragment in encoding.c).  Asked to recode, each takes one        *)
(* fragment after the other and rewrites every RAW field of it: first all     *)
(* fields are converted into temporary files (_GD_MogrifyFile in move.c),     *)
(* then these are renamed over the data files or, if a conversion failed,     *)
(* deleted; at last the fragment's declaration is changed in memory, to be    *)
(* written by gd_metaflush.  A step is one field, so that a crash finds       *)
(* whatever state the steps leave on disk.                                    *)
EXTENDS Integers, Sequences

CONSTANTS
  Fields,    \* the RAW fields
  Place,     \* where a field is in D->entry
  NFrags,    \* D->n_fragment
  FragOf,    \* E->fragment_index
  Spf,       \* E->EN(raw,spf)
  OneByte,   \* the fields with E->e->u.raw.size = 1
  Encs,      \* encodings in use
  Offs,      \* bound: frame offsets in use
  InitMetas, \* what a fragment may declare at the start
  Data,      \* sample values other than the padding
  InitVals,  \* samples a field may have at the start
  Zero,      \* the padding
  Junk,      \* what reading a file as one of another encoding gives
  Firsts,    \* bound: the samples that reads start at
  MaxCount,  \* bound: samples per read
  MaxLen,    \* bound: samples in a file
  Kinds,     \* bound: what callers alter
  Moves,     \* bound: values that callers pass for "move"
  Prots,     \* bound: protection levels in use
  Faults,    \* system calls that may fail
  Careful    \* callers avoid what the encodings are known to get wrong

Frags == 0..(NFrags - 1)
Sexes == {"little", "big"}
Calls == {"temp", "write", "rename", "unlink"}

ASSUME AlterFragmentAssumption ==
  /\ Place \in [Fields -> Nat]
  /\ \A e, f \in Fields : Place[e] = Place[f] => e = f
  /\ NFrags \in Nat \ {0} /\ FragOf \in [Fields -> Frags]
  /\ Spf \in [Fields -> Nat \ {0}] /\ OneByte \subseteq Fields
  /\ Encs \subseteq {"none", "text", "gzip"} /\ Offs \subseteq Nat
  /\ InitMetas \subseteq [enc : Encs, sex : {"little", "big"}, off : Offs]
  /\ InitVals \subseteq Seq(Data)
  /\ Junk \notin Seq(Data \cup {Zero, Junk})
  /\ Kinds \subseteq {"off", "sex", "enc"} /\ Prots \subseteq SUBSET {"format", "data"}
  /\ Firsts \subseteq Nat /\ MaxCount \in Nat /\ MaxLen \in Nat
  /\ Moves \subseteq BOOLEAN /\ Faults \subseteq Calls /\ Careful \in BOOLEAN

VARIABLES
  files,     \* the data files of a field, by the encoding their name tells
  tmp,       \* the temporary file a field is converted into
  h,         \* E->e->u.raw.file
  frag,      \* D->fragment: encoding, byte_sex, frame_offset
  format,    \* what the format files on disk declare
  modified,  \* the fragments with "modified" set
  prot,      \* D->fragment[].protection
  op,        \* the gd_alter call in progress
  run,       \* "ok", "invalid" (GD_INVALID) or "freed" (a freed handle is used)
  ret        \* what the last call returned

vars == <<files, tmp, h, frag, format, modified, prot, op, run, ret>>

NoFile == [vals |-> <<>>, sex |-> "no file"]
FileType(V) == [vals : Seq(V), sex : Sexes] \cup {NoFile}
Samples == Data \cup {Zero, Junk}
MetaType == [enc : Encs, sex : Sexes, off : Nat]

(* Where a file stands: file[0].pos, and the samples that are behind the      *)
(* stream in truth.  mid: the newline of the last line is still to be read.   *)
StreamType == [pos : Nat, at : Nat, mid : BOOLEAN]
Start == [pos |-> 0, at |-> 0, mid |-> FALSE]

HandleType == [name  : Encs \cup {"NULL"},  \* file[0].name, kept once made
               open  : BOOLEAN,             \* file[0].idata >= 0
               io    : StreamType,          \* Start while the file is closed
               stale : BOOLEAN,             \* file[0].edata is a stream that was closed
               temp  : {"NULL", "temp", "stale"}] \* file[1].name

(* file[1].name is that of the temporary file ("temp") or, "stale", what      *)
(* mktemp left of it: the name of no file.                                    *)

(* op.kind: what changes, to op.to; op.move: the data too.  op.todo are the   *)
(* fragments left, op.left the fields left to convert, op.list (raw_entry)    *)
(* those to be finished, both in the order of D->entry.                       *)
OpType(kind) ==
  [phase : {"idle", "start", "fields", "unlink"},
   kind  : {kind},
   to    : IF kind = "off" THEN Nat ELSE IF kind = "sex" THEN Sexes ELSE Encs,
   move  : BOOLEAN,
   todo  : Seq(Frags),
   left  : SUBSET Fields,
   list  : SUBSET Fields,
   err   : {"none", "io", "unclean"}]

Idle == [phase |-> "idle", kind |-> "off", to |-> 0, move |-> FALSE,
         todo |-> <<>>, left |-> {}, list |-> {}, err |-> "none"]

Quiet == op.phase = "idle" /\ run = "ok"

Fewer(a, b) == IF a < b THEN a ELSE b
Pad(n) == [i \in 1..n |-> Zero]
From(s, k) == SubSeq(s, k + 1, Len(s))

May(call) == IF call \in Faults THEN BOOLEAN ELSE {FALSE}

(* Only these encodings store samples in the byte sex declared: GD_EF_ECOR.   *)
Sensitive(enc) == enc # "text"

-------------------------------------------------------------------------------
(* Reading a field.                                                           *)

Meta(f) == frag[FragOf[f]]

(* _GD_GenericName makes a name once.                                         *)
NameOf(f) == IF h[f].name = "NULL" THEN Meta(f).enc ELSE h[f].name

Source(f) == files[f][NameOf(f)]

(* What the declared encoding makes of the file that is opened.               *)
Stored(f) == IF NameOf(f) = Meta(f).enc THEN Source(f).vals ELSE <<Junk>>

(* _GD_AsciiSeek: back to the start if k is behind the stream, then ahead     *)
(* line by line, where what is left of a line that was read counts as one.    *)
SkipTo(s, k, lines) ==
  LET left == lines - s.at + (IF s.mid THEN 1 ELSE 0)
      n == Fewer(k - s.pos, left)
  IN [pos |-> s.pos + n,
      at  |-> s.at + n - (IF s.mid /\ n > 0 THEN 1 ELSE 0),
      mid |-> s.mid /\ n = 0]

(* Where an open or fresh handle stands after a seek: gzip does not seek to   *)
(* sample 0.                                                                  *)
Sought(f, k) ==
  LET s == h[f].io
  IN CASE Meta(f).enc = "none" -> [pos |-> k, at |-> k, mid |-> FALSE]
       [] Meta(f).enc = "gzip" -> IF k = 0 THEN s ELSE [pos |-> k, at |-> k, mid |-> FALSE]
       [] Meta(f).enc = "text" ->
            SkipTo(IF k < s.pos THEN Start ELSE s, k, Len(Stored(f)))

(* What callers know of the seeks to avoid.                                   *)
SeeksWell(f, k) ==
  /\ Meta(f).enc = "gzip" /\ k = 0 => h[f].io.pos = 0
  /\ Meta(f).enc = "text" /\ h[f].io.mid => k <= h[f].io.pos

(* _GD_AsciiOpen closes the stream in edata, where _GD_AsciiClose leaves it;  *)
(* gzip replaces it.                                                          *)
ClosesTwice(f) == ~h[f].open /\ h[f].stale /\ Meta(f).enc = "text"

Reopened(f) == IF ClosesTwice(f) THEN "freed" ELSE run

Dangles(f) == Meta(f).enc = "text" \/ (h[f].stale /\ Meta(f).enc # "gzip")

Opened(f) == [h[f] EXCEPT !.name = NameOf(f), !.open = TRUE]

Closed(f) ==
  IF h[f].open
  THEN [h[f] EXCEPT !.open = FALSE, !.io = Start, !.stale = Dangles(f)]
  ELSE h[f]

(* gd_getdata of n samples from the k-th in the file on.                      *)
GetData(f, k, n) ==
  /\ Quiet
  /\ Careful => SeeksWell(f, k) /\ ~ClosesTwice(f)
  /\ IF ~h[f].open /\ Source(f) = NoFile
     THEN /\ h' = [h EXCEPT ![f].name = NameOf(f)]
          /\ ret' = [op |-> "get", err |-> TRUE, data |-> <<>>, swapped |-> FALSE]
     ELSE LET s == Sought(f, k)
              got == SubSeq(Stored(f), s.at + 1, Fewer(s.at + n, Len(Stored(f))))
          IN /\ h' = [h EXCEPT ![f] =
                        [Opened(f) EXCEPT !.io =
                           [pos |-> s.pos + Len(got), at |-> s.at + Len(got),
                            mid |-> Meta(f).enc = "text" /\ Len(got) = n]]]
             /\ ret' = [op |-> "get", err |-> FALSE, data |-> got,
                        swapped |-> Sensitive(Meta(f).enc)
                                      /\ Source(f).sex # Meta(f).sex]
  /\ run' = Reopened(f)
  /\ UNCHANGED <<files, tmp, frag, format, modified, prot, op>>

RawClose(f) ==
  /\ Quiet
  /\ h' = [h EXCEPT ![f] = Closed(f)]
  /\ ret' = [op |-> "close", err |-> FALSE, data |-> <<>>, swapped |-> FALSE]
  /\ UNCHANGED <<files, tmp, frag, format, modified, prot, op, run>>

-------------------------------------------------------------------------------
(* The call, and its steps.                                                   *)

Target(g) == [frag[g] EXCEPT ![op.kind] = op.to]

Here == Head(op.todo)

FieldsOf(g) == {f \in Fields : FragOf[f] = g}

(* The loops over D->entry and over raw_entry come to f next.                 *)
IsFirst(f, S) == f \in S /\ \A e \in S : Place[f] <= Place[e]

(* The samples at the front of a file that are not converted.                 *)
Dropped(f, off) ==
  IF off > Meta(f).off THEN (off - Meta(f).off) * Spf[f] ELSE 0

MayAlter(kind, to, move, g) ==
  Careful =>
    /\ kind = "off" /\ move /\ frag[g].enc = "gzip" => to >= frag[g].off
    /\ \A f \in Fields : FragOf[f] = g =>
         /\ move => SeeksWell(f, IF kind = "off" THEN Dropped(f, to) ELSE 0)
                      /\ ~ClosesTwice(f)
         /\ kind = "enc" /\ ~move => h[f].name \in {"NULL", to}

Begin(kind, to, move, todo) ==
  /\ Quiet /\ kind \in Kinds
  /\ \A i \in DOMAIN todo : MayAlter(kind, to, move, todo[i])
  /\ op' = [Idle EXCEPT !.phase = "start", !.kind = kind, !.to = to, !.move = move,
                        !.todo = todo]
  /\ UNCHANGED <<files, tmp, h, frag, format, modified, prot, run, ret>>

Reply(err) == [op |-> "alter", err |-> err, data |-> <<>>, swapped |-> FALSE]

Refuse ==
  /\ op.phase = "start" /\ "format" \in prot[Here]
  /\ op' = Idle /\ ret' = Reply(TRUE)
  /\ UNCHANGED <<files, tmp, h, frag, format, modified, prot, run>>

(* Nothing is recoded if that was not asked for or nothing changes; then      *)
(* _GD_RecodeFragment closes the files.  Swapping the bytes of a one-byte     *)
(* field is skipped.                                                          *)
StartFragment ==
  LET recode == op.move /\ op.to # frag[Here][op.kind]
  IN /\ op.phase = "start" /\ "format" \notin prot[Here]
     /\ op' = [op EXCEPT !.phase = "fields",
                         !.left = IF ~recode THEN {}
                                  ELSE IF op.kind = "sex" THEN FieldsOf(Here) \ OneByte
                                  ELSE FieldsOf(Here)]
     /\ h' = [f \in Fields |->
                IF ~recode /\ op.kind = "enc" /\ FragOf[f] = Here
                THEN Closed(f) ELSE h[f]]
     /\ UNCHANGED <<files, tmp, frag, format, modified, prot, run, ret>>

-------------------------------------------------------------------------------
(* _GD_MogrifyFile.                                                           *)

Converting(f) == op.phase = "fields" /\ run # "freed" /\ IsFirst(f, op.left)

(* Slip: the field whose conversion failed is not listed for cleaning up.     *)
TookLastUnlisted(f) == op' = [op EXCEPT !.left = {}, !.err = "io"]

Took(f) == op' = [op EXCEPT !.list = @ \cup {f}, !.left = @ \ {f}]
TookLast(f) == op' = [op EXCEPT !.list = @ \cup {f}, !.left = {}, !.err = "io"]

Shift(f) == (Target(Here).off - frag[Here].off) * Spf[f]

(* Whether the bytes of each sample are swapped, on a little-endian host.     *)
Flips ==
  (Target(Here).sex = "big" /\ Sensitive(Target(Here).enc))
    # (frag[Here].sex = "big" /\ Sensitive(frag[Here].enc))

Same(f) == Shift(f) = 0 /\ Target(Here).enc = frag[Here].enc /\ ~Flips

(* Nothing to do: there is no temporary file either.                          *)
MogrifySame(f) ==
  /\ Converting(f) /\ Same(f)
  /\ Took(f)
  /\ UNCHANGED <<files, tmp, h, frag, format, modified, prot, run, ret>>

MogrifyProtected(f) ==
  /\ Converting(f) /\ ~Same(f) /\ "data" \in prot[Here]
  /\ TookLast(f)
  /\ UNCHANGED <<files, tmp, h, frag, format, modified, prot, run, ret>>

Opens(f) ==
  /\ Converting(f) /\ ~Same(f) /\ "data" \notin prot[Here]
  /\ h[f].open \/ Source(f) # NoFile

MogrifyMissing(f) ==
  /\ Converting(f) /\ ~Same(f) /\ "data" \notin prot[Here]
  /\ ~h[f].open /\ Source(f) = NoFile
  /\ h' = [h EXCEPT ![f].name = NameOf(f)]
  /\ run' = Reopened(f)
  /\ TookLast(f)
  /\ UNCHANGED <<files, tmp, frag, format, modified, prot, ret>>

(* No temporary file can be made, and none ever will be: a name that is kept  *)
(* is no template for another one, and mktemp overwrites it with "".          *)
MogrifyNoTemp(f) ==
  /\ Opens(f) /\ (h[f].temp # "NULL" \/ "temp" \in Faults)
  /\ h' = [h EXCEPT ![f] = [Opened(f) EXCEPT !.temp = "stale"]]
  /\ run' = Reopened(f)
  /\ TookLast(f)
  /\ UNCHANGED <<files, tmp, frag, format, modified, prot, ret>>

(* The zeros before the first sample when the offset goes down by k.  For a   *)
(* gzip file _GD_WriteSeek copies k samples of the old file instead.          *)
Padded(f, old, k) ==
  CASE Meta(f).enc = "none" -> (IF old = <<>> THEN <<>> ELSE Pad(k) \o old)
    [] Meta(f).enc = "text" -> Pad(k) \o old
    [] Meta(f).enc = "gzip" -> old \o Pad(k - 2 * Len(old))

(* Slip: bytes are not swapped between encodings of which one has no byte     *)
(* sex.                                                                       *)
ConvertedUnswapped(f) ==
  LET shift == Shift(f)
      old == From(Stored(f), Sought(f, Dropped(f, Target(Here).off)).at)
      other == IF Source(f).sex = "big" THEN "little" ELSE "big"
  IN [vals |-> IF shift < 0 THEN Padded(f, old, -shift) ELSE old,
      sex  |-> IF op.kind = "sex" THEN other ELSE Source(f).sex]

Converted(f) ==
  LET shift == Shift(f)
      old == From(Stored(f), Sought(f, Dropped(f, Target(Here).off)).at)
      other == IF Source(f).sex = "big" THEN "little" ELSE "big"
  IN [vals |-> IF shift < 0 THEN Padded(f, old, -shift) ELSE old,
      sex  |-> IF Flips THEN other ELSE Source(f).sex]

Shut(f) == [h EXCEPT ![f] = [@ EXCEPT !.name = NameOf(f), !.open = FALSE, !.io = Start,
                                      !.stale = Dangles(f), !.temp = "temp"]]

(* Slip: a short write is not noticed.                                        *)
MogrifyNoSpaceUnseen(f) ==
  /\ Opens(f) /\ h[f].temp = "NULL" /\ "write" \in Faults /\ Converted(f).vals # <<>>
  /\ tmp' = [tmp EXCEPT ![f] = [Converted(f) EXCEPT !.vals = <<>>]]
  /\ h' = Shut(f)
  /\ run' = Reopened(f)
  /\ Took(f)
  /\ UNCHANGED <<files, frag, format, modified, prot, ret>>

(* A write fails.  gzclose or fclose then fails too and _GD_FiniRawIO, called *)
(* to delete the temporary file, closes the stream that was freed a second    *)
(* time.                                                                      *)
MogrifyNoSpace(f) ==
  /\ Opens(f) /\ h[f].temp = "NULL" /\ "write" \in Faults /\ Converted(f).vals # <<>>
  /\ tmp' = [tmp EXCEPT ![f] = [Converted(f) EXCEPT !.vals = <<>>]]
  /\ h' = Shut(f)
  /\ run' = IF Target(Here).enc = "none" THEN Reopened(f) ELSE "freed"
  /\ TookLast(f)
  /\ UNCHANGED <<files, frag, format, modified, prot, ret>>

MogrifyFile(f) ==
  /\ Opens(f) /\ h[f].temp = "NULL"
  /\ Len(Converted(f).vals) <= MaxLen
  /\ tmp' = [tmp EXCEPT ![f] = Converted(f)]
  /\ h' = Shut(f)
  /\ run' = Reopened(f)
  /\ Took(f)
  /\ UNCHANGED <<files, frag, format, modified, prot, ret>>

-------------------------------------------------------------------------------
(* _GD_FiniRawIO with GD_FINIRAW_CLOTEMP, for each field of the list.         *)

Finishing(f) ==
  /\ op.phase = "fields" /\ op.left = {} /\ run # "freed"
  /\ IsFirst(f, op.list)

(* What cannot be deleted stays, and so does its name; without a file of that *)
(* name, or a name, there is nothing to delete.                               *)
DeleteTemp(f) ==
  \E fails \in IF h[f].temp = "temp" THEN May("unlink") ELSE {TRUE} :
    /\ tmp' = IF fails THEN tmp ELSE [tmp EXCEPT ![f] = NoFile]
    /\ h' = IF fails THEN h ELSE [h EXCEPT ![f].temp = "NULL"]

Discard(f) ==
  /\ Finishing(f) /\ op.err = "io"
  /\ DeleteTemp(f)
  /\ op' = [op EXCEPT !.list = @ \ {f}]
  /\ UNCHANGED <<files, frag, format, modified, prot, run, ret>>

(* _GD_MoveOver fails: the temporary file is deleted.  So it does when there  *)
(* is no temporary file.                                                      *)
MoveFails(f) ==
  /\ Finishing(f) /\ op.err # "io"
  /\ "rename" \in Faults \/ h[f].temp # "temp"
  /\ DeleteTemp(f)
  /\ run' = "invalid"
  /\ op' = [op EXCEPT !.list = @ \ {f}, !.err = "unclean"]
  /\ UNCHANGED <<files, frag, format, modified, prot, ret>>

(* Slip: the old file is deleted after every conversion.                      *)
MoveOverUnlinks(f) ==
  /\ Finishing(f) /\ op.err # "io" /\ h[f].temp = "temp"
  /\ files' = [files EXCEPT ![f][IF op.kind = "enc" THEN op.to ELSE h[f].name] = tmp[f]]
  /\ tmp' = [tmp EXCEPT ![f] = NoFile]
  /\ h' = [h EXCEPT ![f].temp = "NULL"]
  /\ op' = [op EXCEPT !.phase = "unlink"]
  /\ UNCHANGED <<frag, format, modified, prot, run, ret>>

(* Over the old file; or, under the name the new encoding gives, beside it.   *)
MoveOver(f) ==
  /\ Finishing(f) /\ op.err # "io" /\ h[f].temp = "temp"
  /\ files' = [files EXCEPT ![f][IF op.kind = "enc" THEN op.to ELSE h[f].name] = tmp[f]]
  /\ tmp' = [tmp EXCEPT ![f] = NoFile]
  /\ h' = [h EXCEPT ![f].temp = "NULL"]
  /\ op' = IF op.kind = "enc" THEN [op EXCEPT !.phase = "unlink"]
           ELSE [op EXCEPT !.list = @ \ {f}]
  /\ UNCHANGED <<frag, format, modified, prot, run, ret>>

UnlinkOld(f) ==
  /\ op.phase = "unlink" /\ IsFirst(f, op.list)
  /\ \E fails \in May("unlink") :
       /\ files' = IF fails THEN files ELSE [files EXCEPT ![f][h[f].name] = NoFile]
       /\ h' = IF fails THEN h ELSE [h EXCEPT ![f].name = op.to]
       /\ run' = IF fails THEN "invalid" ELSE run
       /\ op' = [op EXCEPT !.phase = "fields", !.list = @ \ {f},
                           !.err = IF fails THEN "unclean" ELSE @]
  /\ UNCHANGED <<tmp, frag, format, modified, prot, ret>>

Finished ==
  op.phase = "fields" /\ op.left = {} /\ op.list = {} /\ run # "freed"

GiveUp ==
  /\ Finished /\ op.err # "none"
  /\ op' = Idle /\ ret' = Reply(TRUE)
  /\ UNCHANGED <<files, tmp, h, frag, format, modified, prot, run>>

(* Slip: the declaration changes although files could not be moved.           *)
DeclareAnyway ==
  /\ Finished
  /\ frag' = [frag EXCEPT ![Here] = Target(Here)]
  /\ modified' = modified \cup {Here}
  /\ IF Len(op.todo) = 1 \/ op.err # "none"
     THEN op' = Idle /\ ret' = Reply(op.err # "none")
     ELSE op' = [op EXCEPT !.phase = "start", !.todo = Tail(@)] /\ UNCHANGED ret
  /\ UNCHANGED <<files, tmp, h, format, prot, run>>

(* Slip: the fragment is not marked as modified.                              *)
DeclareUnmarked ==
  /\ Finished /\ op.err = "none"
  /\ frag' = [frag EXCEPT ![Here] = Target(Here)]
  /\ IF Len(op.todo) = 1
     THEN op' = Idle /\ ret' = Reply(FALSE)
     ELSE op' = [op EXCEPT !.phase = "start", !.todo = Tail(@)] /\ UNCHANGED ret
  /\ UNCHANGED <<files, tmp, h, format, modified, prot, run>>

Declare ==
  /\ Finished /\ op.err = "none"
  /\ frag' = [frag EXCEPT ![Here] = Target(Here)]
  /\ modified' = modified \cup {Here}
  /\ IF Len(op.todo) = 1
     THEN op' = Idle /\ ret' = Reply(FALSE)
     ELSE op' = [op EXCEPT !.phase = "start", !.todo = Tail(@)] /\ UNCHANGED ret
  /\ UNCHANGED <<files, tmp, h, format, prot, run>>

-------------------------------------------------------------------------------
(* Other calls on the fragments.                                              *)

(* _GD_FlushFragment rewrites the format file of a fragment: of a modified    *)
(* one in gd_metaflush, of any in gd_rewrite_fragment.  The new file is       *)
(* renamed over the old one.                                                  *)
FlushFragment(g) ==
  \E fails \in May("rename") :
    /\ format' = IF fails THEN format
                 ELSE [format EXCEPT ![g] = frag[g]]
    /\ modified' = IF fails THEN modified ELSE modified \ {g}
    /\ ret' = [op |-> "flush", err |-> fails, data |-> <<>>, swapped |-> FALSE]

MetaFlush(g) ==
  /\ Quiet /\ g \in modified
  /\ FlushFragment(g)
  /\ UNCHANGED <<files, tmp, h, frag, prot, op, run>>

RewriteFragment(g) ==
  /\ Quiet
  /\ FlushFragment(g)
  /\ UNCHANGED <<files, tmp, h, frag, prot, op, run>>

AlterProtection(gs, p) ==
  /\ Quiet
  /\ prot' = [g \in Frags |-> IF g \in gs THEN p ELSE prot[g]]
  /\ ret' = [op |-> "protect", err |-> FALSE, data |-> <<>>, swapped |-> FALSE]
  /\ UNCHANGED <<files, tmp, h, frag, format, modified, op, run>>

(* A data file is either missing or what the fragment declares.               *)
Init ==
  /\ frag \in [Frags -> InitMetas] /\ prot \in [Frags -> Prots]
  /\ format = frag
  /\ \E start \in [Fields -> [vals : InitVals, sex : Sexes] \cup {NoFile}] :
       /\ \A f \in Fields :
            start[f].sex = (IF start[f] = NoFile THEN NoFile.sex
                            ELSE IF Sensitive(Meta(f).enc) THEN Meta(f).sex
                            ELSE "little")
       /\ files = [f \in Fields |->
                     [e \in Encs |-> IF e = Meta(f).enc THEN start[f] ELSE NoFile]]
  /\ tmp = [f \in Fields |-> NoFile]
  /\ h = [f \in Fields |-> [name |-> "NULL", open |-> FALSE, io |-> Start, stale |-> FALSE,
                       temp |-> "NULL"]]
  /\ modified = {}
  /\ op = Idle /\ run = "ok"
  /\ ret = Reply(FALSE)

Convert(f) ==
  \/ MogrifySame(f) \/ MogrifyProtected(f) \/ MogrifyMissing(f)
  \/ MogrifyNoTemp(f) \/ MogrifyNoSpace(f) \/ MogrifyFile(f)

Alter ==
  \/ \E move \in Moves, todo \in {<<g>> : g \in Frags} \cup {[i \in 1..NFrags |-> i - 1]} :
       \/ \E off \in Offs : Begin("off", off, move, todo)
       \/ \E sex \in Sexes : Begin("sex", sex, move, todo)
       \/ \E enc \in Encs : Begin("enc", enc, move, todo)
  \/ Refuse \/ StartFragment
  \/ \E f \in Fields : Convert(f)
  \/ \E f \in Fields : Discard(f) \/ MoveFails(f) \/ MoveOver(f) \/ UnlinkOld(f)
  \/ GiveUp \/ Declare

Next ==
  \/ Alter
  \/ \E f \in Fields, k \in Firsts, n \in 1..MaxCount : GetData(f, k, n)
  \/ \E f \in Fields : RawClose(f)
  \/ \E g \in Frags : MetaFlush(g) \/ RewriteFragment(g)
  \/ \E gs \in {{g} : g \in Frags} \cup {Frags}, p \in Prots : AlterProtection(gs, p)

Spec == Init /\ [][Next]_vars

-------------------------------------------------------------------------------
(* Type invariant: the handles, the declarations and the call in progress.    *)
TypeOK ==
  /\ files \in [Fields -> [Encs -> FileType(Samples)]]
  /\ tmp \in [Fields -> FileType(Samples)]
  /\ h \in [Fields -> HandleType]
  /\ frag \in [Frags -> MetaType]
  /\ format \in [Frags -> MetaType]
  /\ modified \subseteq Frags /\ prot \in [Frags -> Prots]
  /\ op.kind \in {"off", "sex", "enc"} /\ op \in OpType(op.kind)
  /\ run \in {"ok", "invalid", "freed"}
  /\ op.left # {} => op.phase = "fields" /\ op.err = "none"
  /\ op.phase = "unlink" => op.kind = "enc" /\ op.list # {}
  /\ \A f \in Fields : h[f].open => h[f].name # "NULL" /\ Source(f) # NoFile

(* A file of field f is stored as m declares.                                 *)
Right(m, f, file) ==
  f \in OneByte \/ file.sex = IF Sensitive(m.enc) THEN m.sex ELSE "little"

DescribesField(m, f) ==
  \A e \in Encs : files[f][e] # NoFile => e = m.enc /\ Right(m, f, files[f][e])

(* The declaration m says how to read the data files of g.                    *)
Describes(m, g) == \A f \in FieldsOf(g) : DescribesField(m, f)

Placing == op.phase \in {"fields", "unlink"} /\ op.left = {} /\ op.err # "io"

(* "At most one fragment will ever be unclean"                                *)
(* (unclean_database_recovery.txt), whatever fails in a call for all          *)
(* fragments: the declaration in memory describes the data of every other     *)
(* one, and of all when the call returned and the dirfile is still valid.     *)
OneUnclean ==
  /\ \A g1, g2 \in Frags :
       g1 = g2 \/ Describes(frag[g1], g1) \/ Describes(frag[g2], g2)
  /\ run = "ok" /\ ~Placing => \A g \in Frags : Describes(frag[g], g)

(* A process that dies leaves a dirfile that can be read, unless it died      *)
(* while files were put into place or before a change was flushed.            *)
CrashReadable ==
  run = "ok" /\ ~Placing =>
    \A g \in Frags \ modified : Describes(format[g], g)

(* "If an error occurred in step one, the binary file copies are deleted":    *)
(* no failed conversion leaves a temporary file behind, except one that could *)
(* not be deleted, whose name, or that there was one, is remembered.          *)
CopiesDeleted ==
  op.phase = "idle" /\ run = "ok" =>
    \A f \in Fields : tmp[f] # NoFile => "unlink" \in Faults /\ h[f].temp # "NULL"

(* Every field of g was converted: the change is decided.                     *)
Agreed(g) ==
  Placing /\ op.err = "none" /\ op.todo # <<>> /\ Here = g /\ op.move

(* The samples of a field: those of its converted file once that is decided.  *)
View(f) ==
  LET agreed == Agreed(FragOf[f])
      m == IF agreed THEN Target(FragOf[f]) ELSE Meta(f)
      file == IF agreed /\ tmp[f] # NoFile THEN tmp[f] ELSE files[f][m.enc]
  IN IF file = NoFile THEN Junk ELSE IF Right(m, f, file) THEN file.vals ELSE <<Junk>>

A == INSTANCE Alter WITH
       Missing <- Junk,
       meta <- [g \in Frags |-> IF Agreed(g) THEN Target(g) ELSE frag[g]],
       samples <- [f \in Fields |-> View(f)]

(* Unless a file cannot be moved, a call changes a fragment's declaration and *)
(* the samples of all its fields at once: as soon as the last conversion      *)
(* succeeded, for what was then decided is in the temporary files.            *)
ImplementsAlter == A!Spec

(* "Because it may fail, the move must occur out-of-place" (flimits.c:47): a  *)
(* data file is replaced or deleted only when its samples, moved as asked,    *)
(* are in a file under the field's name.                                      *)
DataSurvives ==
  [][\A f \in Fields, e \in Encs :
       files[f][e] # NoFile /\ files'[f][e] # files[f][e] =>
         \E e2 \in Encs :
           /\ files'[f][e2] # NoFile
           /\ files'[f][e2].vals \in A!Shifted(files[f][e].vals, Shift(f))]_vars
===============================================================================
