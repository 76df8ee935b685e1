------------------------------- MODULE OopField -------------------------------
(* One RAW field of a gzip-encoded dirfile.  A gzip file cannot be changed in *)
(* place: a write goes to a temporary file, file[1], into which the samples   *)
(* of the named file, file[0], are copied up to the place written and, when   *)
(* the field is closed, from there to the end; then the temporary file is     *)
(* renamed over the named one (gzip.c; _GD_InitRawIO, _GD_FiniRawIO,          *)
(* _GD_WriteOut and _GD_MoveOver in encoding.c; _GD_WriteSeek in fpos.c).     *)
(*                                                                            *)
(* Both files have a position the library keeps (pos) and one zlib keeps      *)
(* (at).  Samples are the unit: the field starts at sample 0 of the file.     *)
EXTENDS Integers, Sequences

CONSTANTS
  Data,       \* sample values other than the padding
  Zero,       \* the padding
  InitFiles,  \* the samples of the named file at the start; <<>>: no file
  High,       \* bound: the last sample number callers pass
  MaxCount,   \* bound: samples per call
  MaxLen,     \* bound: samples in a file
  Faults,     \* system calls that may fail
  Careful     \* callers avoid the sequences of calls gzip fields get wrong

Calls == {"temp", "open", "write", "rename", "kill"}

ASSUME OopFieldAssumption ==
  /\ Zero \notin Data
  /\ InitFiles \subseteq Seq(Data)
  /\ High \in Nat /\ MaxCount \in Nat \ {0} /\ MaxLen \in Nat
  /\ Faults \subseteq Calls
  /\ Careful \in BOOLEAN

VARIABLES
  named,   \* the named file: whether it exists, its samples
  temp,    \* the samples in the temporary file
  r,       \* E->e->u.raw.file[0], opened to read the named file
  w,       \* E->e->u.raw.file[1], opened to write the temporary file
  run,     \* "ok", "invalid" (GD_INVALID) or "looping" (a call never returns)
  ret      \* what the last call returned

vars == <<named, temp, r, w, run, ret>>

(* file[1] when it is closed: idata >= 0; live, edata is a gzFile that was    *)
(* not closed; name, of the temporary file ("stale": its name was kept when   *)
(* it could not be made); full, zlib met an error and writes no more; at,     *)
(* where the next sample goes.                                                *)
Shut == [idata |-> FALSE, live |-> FALSE, name |-> "NULL", full |-> FALSE,
         at |-> 0]

Fewer(a, b) == IF a < b THEN a ELSE b
Pad(n) == [i \in 1..n |-> Zero]

(* The samples from number k on.                                              *)
From(s, k) == SubSeq(s, k + 1, Len(s))

-------------------------------------------------------------------------------
(* A call is a chain of steps on a record: a step yields the set of its       *)
(* outcomes, and the first that is not "ok" ends the call.  It ends either    *)
(* with the dirfile error set ("error") or without ("silent").                *)

Now == [named |-> named, temp |-> temp, r |-> r, w |-> w, run |-> run,
        end |-> "ok", data |-> <<>>, at |-> 0]

Then(S, Step(_)) == UNION {IF s.end = "ok" THEN Step(s) ELSE {s} : s \in S}

Stop(st, how) == [st EXCEPT !.end = how]

May(call) == IF call \in Faults THEN BOOLEAN ELSE {FALSE}

(* gzopen of the named file; mode and pos are set only if it is there.        *)
OpenNamed(st, mode) ==
  {IF st.named.exists /\ ~fails
   THEN [st EXCEPT !.r = [idata |-> TRUE, mode |-> mode, pos |-> 0, at |-> 0]]
   ELSE Stop(st, IF fails THEN "error" ELSE "missing") : fails \in May("open")}

(* _GD_GzipSeek on the named file: nothing is done for sample 0.  zlib stops  *)
(* at the end of the file, the position recorded does not.                    *)
SeekRead(st, count) ==
  IF st.r.pos = count \/ count = 0
  THEN st
  ELSE [st EXCEPT !.r.pos = count, !.r.at = Fewer(count, Len(st.named.samples))]

(* _GD_GzipSeek for writing moves zlib's place in the temporary file, but the *)
(* position it compares and sets is that of the named file.  zlib cannot go   *)
(* back over what was written; a gap is filled with zeros.                    *)
SeekWrite(st, count) ==
  IF st.r.pos = count \/ count = 0
  THEN {st}
  ELSE IF count < Len(st.temp)
  THEN {[Stop(st, "refused") EXCEPT !.w.at = Len(st.temp)]}
  ELSE {[st EXCEPT !.r.pos = count, !.w.at = count]}

(* gzread.                                                                    *)
ReadNamed(st, n) ==
  LET got == Fewer(n, Len(st.named.samples) - st.r.at)
  IN [st EXCEPT !.r.pos = @ + got, !.r.at = @ + got,
                !.data = SubSeq(st.named.samples, st.r.at + 1, st.r.at + got)]

(* gzwrite: 0 on an error, and after one.  Only a full call is recorded in    *)
(* the data moved.                                                            *)
Padded(st) == st.temp \o Pad(st.w.at - Len(st.temp))

WriteTemp(st, vals) ==
  {IF fails
   THEN [st EXCEPT !.w.full = TRUE, !.data = <<>>]
   ELSE [st EXCEPT !.temp = Padded(st) \o vals, !.w.at = @ + Len(vals), !.data = vals]
   : fails \in IF st.w.full THEN {TRUE} ELSE May("write")}

(* gzclose of the temporary file frees the handle even when it fails, and     *)
(* _GD_GzipClose then leaves idata and edata as they were.                    *)
CloseTemp(st) ==
  {IF fails
   THEN [Stop(st, "silent") EXCEPT !.w.live = FALSE]
   ELSE [st EXCEPT !.temp = Padded(st),
                   !.w.idata = FALSE, !.w.live = FALSE, !.w.full = FALSE]
   : fails \in IF st.w.full THEN {TRUE} ELSE May("write")}

CloseNamed(st) ==
  IF st.r.idata
  THEN [st EXCEPT !.r.idata = FALSE, !.r.mode = {}]
  ELSE st

(* _GD_MoveOver: if the rename fails the temporary file is deleted, and the   *)
(* dirfile is invalid from then on.  Without a file of that name, or without  *)
(* a name, there is nothing to rename.                                        *)
MoveOver(st) ==
  {IF fails \/ st.w.name # "temp"
   THEN [Stop(st, "error") EXCEPT !.run = "invalid", !.w.name = "NULL", !.temp = <<>>]
   ELSE [st EXCEPT !.named = [exists |-> TRUE, samples |-> st.temp],
                   !.temp = <<>>, !.w.name = "NULL"]
   : fails \in May("rename")}

(* The rest of the named file is copied behind what was written.  The loop    *)
(* that copies it does not end when gzwrite keeps returning 0.                *)
CopyRest(st) ==
  LET rest == From(st.named.samples, st.r.at)
      read == [st EXCEPT !.r.at = Len(st.named.samples), !.r.pos = @ + Len(rest)]
  IN IF ~st.r.idata \/ rest = <<>>
     THEN {st}
     ELSE {IF t.w.full THEN [Stop(t, "error") EXCEPT !.run = "looping"] ELSE t
           : t \in WriteTemp(read, rest)}

(* Slip: the temporary file is moved into place before it is complete.        *)
FiniEarly(st) ==
  LET oop == "WRITE" \in st.r.mode
      moved == IF oop THEN MoveOver(st) ELSE {st}
  IN {IF s.end = "ok"
      THEN [CloseNamed(s) EXCEPT !.w.idata = FALSE, !.w.live = FALSE]
      ELSE s : s \in moved}

(* _GD_FiniRawIO with GD_FINIRAW_KEEP.  Once r was opened for writing its     *)
(* mode says so until r is closed, which it is not if there was no old file.  *)
Fini(st) ==
  LET oop == "WRITE" \in st.r.mode
      closed == IF oop /\ st.w.idata
                THEN Then(CopyRest(st), CloseTemp)
                ELSE {st}
      done == {IF s.end = "ok" THEN CloseNamed(s) ELSE s : s \in closed}
  IN IF oop THEN Then(done, MoveOver) ELSE done

-------------------------------------------------------------------------------
(* _GD_InitRawIO.                                                             *)

InitRead(st) ==
  IF st.r.idata /\ "READ" \in st.r.mode
  THEN {st}
  ELSE Then(IF (st.r.idata \/ st.w.idata) /\ "WRITE" \in st.r.mode
            THEN Fini(st) ELSE {st},
            LAMBDA s : {IF t.end = "missing" THEN Stop(t, "error") ELSE t
                        : t \in OpenNamed(s, {"READ"})})

(* Making the temporary file may fail, which sets no error; and it always     *)
(* fails once file[1] has a name, which is no template for a new one.         *)
OpenTemp(st) ==
  {IF fails
   THEN [Stop(st, "silent") EXCEPT !.w.name = "stale"]
   ELSE [st EXCEPT !.temp = <<>>, !.w = [idata |-> TRUE, live |-> TRUE, name |-> "temp",
                                         full |-> FALSE, at |-> 0]]
   : fails \in IF st.w.name = "NULL" THEN May("temp") ELSE {TRUE}}

InitWrite(st) ==
  IF st.w.idata /\ "WRITE" \in st.r.mode
  THEN {st}
  ELSE Then(Then(IF (st.r.idata \/ st.w.idata) /\ "WRITE" \notin st.r.mode
                 THEN Fini(st) ELSE {st},
                 OpenTemp),
            LAMBDA s : IF s.r.idata
                       THEN {s}
                       ELSE {IF t.end = "missing"
                             THEN [Stop(t, "ok") EXCEPT !.r.mode = {"READ", "WRITE"}]
                             ELSE t : t \in OpenNamed(s, {"READ", "WRITE"})})

(* Callers that test a step's result set the error that it did not set.       *)
Reported(S) == {IF s.end = "silent" THEN Stop(s, "error") ELSE s : s \in S}

(* Slip: going back does not start again from the old file.                   *)
WriteSeekNoRestart(st, offset) ==
  LET got == IF st.r.idata THEN Fewer(offset, Len(st.named.samples) - st.r.at) ELSE 0
      old == SubSeq(st.named.samples, st.r.at + 1, st.r.at + got)
  IN UNION {SeekWrite(t, offset - got)
            : t \in WriteTemp([st EXCEPT !.r.pos = @ + got, !.r.at = @ + got], old)}

(* _GD_WriteSeek.  To go back, the field is closed and opened again.  Then    *)
(* "offset" samples are copied from where the named file stands, and the      *)
(* temporary file is sought to what is left of offset.  A failing seek        *)
(* returns -1, which is added to the samples copied: it is noticed only if    *)
(* there were none.                                                           *)
WriteSeek(st, offset) ==
  Then(IF offset < st.r.pos THEN Reported(Then(Fini(st), InitWrite)) ELSE {st},
       LAMBDA s :
         LET got == IF s.r.idata
                    THEN Fewer(offset, Len(s.named.samples) - s.r.at) ELSE 0
             old == SubSeq(s.named.samples, s.r.at + 1, s.r.at + got)
             copied == IF got = 0 THEN {s}
                       ELSE {IF t.w.full THEN Stop(t, "error") ELSE t
                             : t \in WriteTemp([s EXCEPT !.r.pos = @ + got,
                                                         !.r.at = @ + got], old)}
         IN {[t EXCEPT !.end = IF t.end # "refused" THEN t.end
                               ELSE IF got > 0 THEN "ok" ELSE "error"]
             : t \in Then(copied, LAMBDA t : SeekWrite(t, offset - got))})

(* _GD_WriteOut: what was written replaces as many samples of the named file. *)
WriteOut(st, vals) ==
  {IF t.data # <<>> /\ t.r.idata THEN SeekRead(t, t.r.pos + Len(vals)) ELSE t
   : t \in WriteTemp(st, vals)}

GetFilePos(st) ==
  Then(IF st.r.idata THEN {st} ELSE InitRead(st),
       LAMBDA s : {[s EXCEPT !.at = s.r.pos]})

DoRaw(st, s0, n) == Then(InitRead(st), LAMBDA s : {ReadNamed(SeekRead(s, s0), n)})

DoRawOut(st, s0, vals) ==
  Then(Then(InitWrite(st), LAMBDA s : WriteSeek(s, s0)),
       LAMBDA s : WriteOut([s EXCEPT !.data = <<>>], vals))

-------------------------------------------------------------------------------
(* The calls.  After gzclose failed, edata points to freed memory and what    *)
(* the next call does is undefined: behaviours end there, as they do when a   *)
(* call never returns or the dirfile became invalid.                          *)
Ready == run = "ok" /\ (w.idata => w.live)

Reply(op, at, data, t) ==
  [op |-> op, at |-> at, n |-> 0, here |-> FALSE,
   data |-> IF t.end = "ok" THEN data ELSE <<>>, err |-> t.end = "error"]

Finish(t, reply) ==
  /\ Len(t.temp) <= MaxLen /\ Len(t.named.samples) <= MaxLen
  /\ named' = t.named /\ temp' = t.temp /\ r' = t.r /\ w' = t.w /\ run' = t.run
  /\ ret' = reply

Counts == 1..MaxCount

(* What callers may do when Careful: write a field that is not open or go     *)
(* back, within the file unless it is new; then close it before anything      *)
(* else; and read sample 0 of an open file only where the file stands.        *)
MayRead(s0) == Careful => ~w.idata /\ (s0 = 0 /\ r.idata => r.pos = 0)
MayWrite(s0) ==
  Careful => /\ w.idata => s0 < r.pos
             /\ named.exists \/ w.idata => s0 <= Len(named.samples)
MayTell == Careful => ~w.idata

GetData(s0, n) ==
  /\ Ready /\ MayRead(s0)
  /\ \E t \in DoRaw(Now, s0, n) :
       Finish(t, [Reply("get", s0, t.data, t) EXCEPT !.n = n])

GetHere(n) ==
  /\ Ready /\ MayTell
  /\ \E t \in Then(GetFilePos(Now), LAMBDA s : DoRaw(s, s.at, n)) :
       Finish(t, [Reply("get", t.at, t.data, t) EXCEPT !.n = n, !.here = TRUE])

PutData(s0, vals) ==
  /\ Ready /\ MayWrite(s0)
  /\ \E t \in DoRawOut(Now, s0, vals) :
       Finish(t, [Reply("put", s0, t.data, t) EXCEPT !.n = Len(vals)])

(* gd_seek with GD_SEEK_SET.  A silent failure goes unnoticed: the position   *)
(* is asked for all the same, unless that uses a handle that was freed.       *)
Unnoticed(S) ==
  {IF s.end = "silent" /\ (s.r.idata \/ (s.w.idata => s.w.live)) THEN Stop(s, "ok") ELSE s : s \in S}

Seek(target, write) ==
  /\ Ready
  /\ IF write THEN MayWrite(target) /\ (Careful => named.exists) ELSE MayRead(target)
  /\ \E t \in Then(Unnoticed(
                      IF write
                      THEN Then(InitWrite(Now), LAMBDA s : WriteSeek(s, target))
                      ELSE {IF s.end = "ok" THEN SeekRead(s, target) ELSE s
                            : s \in InitRead(Now)}),
                    GetFilePos) :
       Finish(t, Reply("seek", t.at, <<>>, t))

Tell ==
  /\ Ready /\ MayTell
  /\ \E t \in GetFilePos(Now) : Finish(t, Reply("tell", t.at, <<>>, t))

(* gd_raw_close and gd_flush; to sync a gzip field does nothing.              *)
Flush ==
  /\ Ready
  /\ \E t \in IF r.idata \/ w.idata THEN Reported(Fini(Now)) ELSE {Now} :
       Finish(t, Reply("flush", 0, <<>>, t))

(* gd_rename closes the field without asking whether it is open.              *)
Rename ==
  /\ Ready
  /\ \E t \in Fini(Now) : Finish(t, Reply("flush", 0, <<>>, t))

(* The process is killed and the dirfile opened again by another.             *)
Kill ==
  /\ "kill" \in Faults
  /\ r' = [idata |-> FALSE, mode |-> {}, pos |-> 0, at |-> 0]
  /\ w' = Shut /\ temp' = <<>> /\ run' = "ok"
  /\ ret' = Reply("none", 0, <<>>, Now)
  /\ UNCHANGED named

Init ==
  /\ named \in {[exists |-> s # <<>>, samples |-> s] : s \in InitFiles}
  /\ temp = <<>> /\ run = "ok" /\ w = Shut
  /\ r = [idata |-> FALSE, mode |-> {}, pos |-> 0, at |-> 0]
  /\ ret = Reply("none", 0, <<>>, Now)

Next ==
  \/ \E s0 \in 0..High, n \in Counts : GetData(s0, n)
  \/ \E n \in Counts : GetHere(n)
  \/ \E s0 \in 0..High, n \in Counts, v \in Data : PutData(s0, [i \in 1..n |-> v])
  \/ \E target \in 0..High, write \in BOOLEAN : Seek(target, write)
  \/ Tell \/ Flush \/ Rename \/ Kill

Spec == Init /\ [][Next]_vars

-------------------------------------------------------------------------------
(* What the field holds: what was written so far followed by the rest of the  *)
(* named file; this is what closing the field makes of it.                    *)
Writing == w.idata /\ "WRITE" \in r.mode
Contents ==
  IF Writing
  THEN Padded(Now) \o (IF r.idata THEN From(named.samples, r.at) ELSE <<>>)
  ELSE named.samples

(* Whatever fails, and wherever the process dies, the named file is replaced  *)
(* only as a whole: by all that was written and all the rest of the old file, *)
(* if that is open ("Writes to GZip encoded data occur out-of-place",         *)
(* dirfile-encoding(5)); a seek for writing may have padded its end.          *)
AtomicReplace ==
  [][named' # named =>
       \E k \in 0..High : named'.samples = Contents \o Pad(k)]_vars

(* Used with care, a gzip field implements the array of samples with an I/O   *)
(* pointer that every field promises to be.                                   *)
Abstract == INSTANCE Field WITH Bof <- 0, Zero <- Zero, data <- Contents,
                                ptr <- (IF r.idata THEN r.pos ELSE 0), ret <- ret
ImplementsField == Abstract!Spec

===============================================================================
