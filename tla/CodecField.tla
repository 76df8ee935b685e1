------------------------------ MODULE CodecField ------------------------------
(* One RAW field stored by one of the encodings that are neither plain binary *)
(* nor gzip: sie, text, bzip2, lzma, slim, zzip and zzslim.  The library      *)
(* calls the back end of the field's encoding through the table _gd_ef        *)
(* (encoding.c); what it does around those calls is the same for all          *)
(* (_GD_InitRawIO, _GD_DoRaw, _GD_DoRawOut, _GD_WriteSeek, _GD_GetFilePos,    *)
(* _GD_Flush).                                                                *)
(* There is no /FRAMEOFFSET: the field begins with sample 0.                  *)
EXTENDS SieFile, TextFile, PackedFile

CONSTANTS
  Data,        \* sample values other than the padding
  InitCells,   \* the samples in the file at the start; <<>>: an empty file
  Missing,     \* whether there may be no file
  Codecs,      \* the encodings of this instance
  High,        \* bound: the last sample number callers pass
  MaxCount,    \* bound: samples per call
  MaxLen,      \* bound: samples in the file
  Careful      \* callers avoid the sequences of calls a codec gets wrong

AllCodecs == {"sie", "swapped sie", "text", "bzip2", "lzma", "slim", "zzip",
              "zzslim"}
Sie == {"sie", "swapped sie"}

ASSUME CodecFieldAssumption ==
  /\ Zero \notin Data
  /\ InitCells \subseteq Seq(Data)
  /\ Codecs \subseteq AllCodecs
  /\ Buffer \in Nat \ {0} /\ Size \in Nat \ {0}
  /\ High \in Nat /\ MaxCount \in Nat \ {0} /\ MaxLen \in Nat
  /\ Huge > 4 * (High + MaxCount + MaxLen)
  /\ Missing \in BOOLEAN /\ Careful \in BOOLEAN

VARIABLES
  codec,   \* the encoding, by which E->e->u.raw.file[0].subenc picks its functions
  disk,    \* the file
  file,    \* E->e->u.raw.file[0]
  run,     \* "ok", or "undefined" after a call without defined behaviour
  ret      \* what the last call returned

vars == <<codec, disk, file, run, ret>>

Now == [disk |-> disk, file |-> file, count |-> 0, data |-> <<>>, at |-> 0, end |-> "ok"]

-------------------------------------------------------------------------------
(* _gd_ef: the functions of the encoding.                                     *)

Writes == codec \in Sie \cup {"text"}

EfOpen(st, mode) ==
  CASE codec \in Sie -> SampIndOpen(st, mode, codec = "swapped sie")
    [] codec = "text" -> AsciiOpen(st, mode)
    [] codec = "bzip2" -> Bzip2Open(st)
    [] codec = "lzma" -> LzmaOpen(st)
    [] codec = "slim" -> SlimOpen(st)
    [] codec = "zzip" -> ZzipOpen(st)
    [] codec = "zzslim" -> ZzslimOpen(st)

EfClose(st) ==
  CASE codec \in Sie -> SampIndClose(st)
    [] codec = "text" -> AsciiClose(st)
    [] codec = "bzip2" -> Bzip2Close(st)
    [] codec = "lzma" -> LzmaClose(st)
    [] codec = "slim" -> SlimClose(st)
    [] codec = "zzip" -> ZzipClose(st)
    [] codec = "zzslim" -> ZzslimClose(st)

EfSeek(st, count, mode) ==
  CASE codec \in Sie -> SampIndSeek(st, count, mode)
    [] codec = "text" -> AsciiSeek(st, count, mode)
    [] codec = "bzip2" -> Bzip2Seek(st, count)
    [] codec = "lzma" -> LzmaSeek(st, count)
    [] codec = "slim" -> SlimSeek(st, count)
    [] codec = "zzip" -> ZzipSeek(st, count)
    [] codec = "zzslim" -> ZzslimSeek(st, count)

EfRead(st, n) ==
  CASE codec \in Sie -> SampIndRead(st, n)
    [] codec = "text" -> AsciiRead(st, n)
    [] codec = "bzip2" -> Bzip2Read(st, n)
    [] codec = "lzma" -> LzmaRead(st, n)
    [] codec = "slim" -> SlimRead(st, n)
    [] codec = "zzip" -> ZzipRead(st, n)
    [] codec = "zzslim" -> ZzslimRead(st, n)

EfWrite(st, vals) == IF codec = "text" THEN AsciiWrite(st, vals) ELSE SampIndWrite(st, vals)

EfSync(st) == IF codec = "text" THEN AsciiSync(st) ELSE {Returns(st, 0)}

EfSize(st) ==
  CASE codec \in Sie -> SampIndSize(st)
    [] codec = "text" -> AsciiSize(st)
    [] codec = "bzip2" -> Bzip2Size(st)
    [] codec = "lzma" -> LzmaSize(st)
    [] codec = "slim" -> SlimSize(st)
    [] codec = "zzip" -> ZzipSize(st)
    [] codec = "zzslim" -> ZzslimSize(st)

-------------------------------------------------------------------------------
(* A result of -1 is a GD_E_RAW_IO error; a smaller one is taken for a huge   *)
(* number of samples.                                                         *)
Checked(S) ==
  {IF s.end # "ok" THEN s
   ELSE IF s.count = -1 THEN Stop(s, "error")
   ELSE IF s.count < -1 THEN Stop(s, "undefined") ELSE s : s \in S}

(* _GD_InitRawIO, without the out-of-place part: a field opened to be read    *)
(* only is closed and opened again to be written.                             *)
InitRawIO(st, mode) ==
  IF mode = "WRITE" /\ ~Writes
  THEN {Stop(st, "error")}
  ELSE IF st.file.idata /\ (mode = "READ" \/ "WRITE" \in st.file.mode)
  THEN {st}
  ELSE Then(IF st.file.idata THEN EfClose(st) ELSE {st},
            LAMBDA s : Checked(EfOpen(s, {mode})))

GetFilePos(st) ==
  Then(IF st.file.idata THEN {st} ELSE InitRawIO(st, "READ"),
       LAMBDA s : {[s EXCEPT !.at = s.file.pos]})

DoRaw(st, s0, n) ==
  Then(Then(InitRawIO(st, "READ"), LAMBDA s : Checked(EfSeek(s, s0, {"READ"}))),
       LAMBDA s : Checked(EfRead(s, n)))

DoRawOut(st, s0, vals) ==
  Then(Then(InitRawIO(st, "WRITE"), LAMBDA s : Checked(EfSeek(s, s0, {"WRITE"}))),
       LAMBDA s : Checked(EfWrite([s EXCEPT !.data = vals], vals)))

-------------------------------------------------------------------------------
(* The samples in the file, and the one the field really stands on; in a      *)
(* byte-swapped file it may stand on the swapped number of that.              *)
Runs(recs) ==
  [i \in DOMAIN recs |->
     Copies(More(0, recs[i].end - (IF i = 1 THEN -1 ELSE recs[i - 1].end)), recs[i].val)]

SamplesIn(cells) == IF codec \in Sie THEN FlattenSeq(Runs(cells)) ELSE cells
Samples == SamplesIn(disk.cells)

Position ==
  IF ~file.idata THEN 0
  ELSE CASE codec \in Sie -> More(file.own.p, 0) % Huge
         [] codec = "bzip2" -> file.own.base + file.own.pos
         [] codec = "lzma" -> file.own.pos
         [] OTHER -> file.own.at

(* What callers may do when Careful, and why.                                 *)

(* sie.c:76, ascii.c:35: an edata that was freed is used by the next open.    *)
MayOpen ==
  file.edata # "freed" /\ (codec = "text" /\ file.idata => "WRITE" \in file.mode)

(* fpos.c:43: the position reported is pos, whether the codec keeps it or     *)
(* not, and whether it sets it when it opens the file or not.                 *)
MayTell ==
  file.pos = Position \/ (~file.idata /\ codec \in Sie \cup {"text", "lzma"})

(* sie.c:248: beyond the end less than nothing is counted, and where numbers  *)
(* are swapped, as much as is asked for.                                      *)
(* ascii.c:69: pos is not where the stream is after a write, and the newline  *)
(* of a number that was read is taken for a line of its own.                  *)
(* bzip.c:122: to go back before the buffer does not rewind the file.         *)
(* lzma.c:196: samples are compared with bytes.                               *)
MayGo(s0) ==
  CASE codec = "sie" -> s0 <= Len(Samples)
    [] codec = "swapped sie" -> s0 < Len(Samples)
    [] codec = "text" ->
         file.idata => \/ s0 < file.pos
                       \/ (file.pos = file.own.at /\ (s0 = file.pos \/ ~file.own.mid))
    [] codec = "bzip2" -> file.idata => s0 >= file.own.base /\ file.own.bz # "lost"
    [] codec = "lzma" -> file.idata /\ file.pos = s0 * Size => file.pos = 0
    [] OTHER -> TRUE

(* lzma.c:273: the read that meets the end miscounts.                         *)
MayRead(s0, n) ==
  Careful => /\ MayGo(s0)
             /\ codec = "lzma" => (file.idata /\ file.own.stop) \/ s0 + n <= Len(Samples)
             /\ codec = "text" /\ ~file.idata => MayOpen
             /\ codec \in Sie => MayOpen

(* sie.c:155: writing at the end, unless one got there by writing, replaces   *)
(* the last record; and the record added to pad a file is not counted.        *)
KnowsRecord ==
  file.own.r + 1 = file.own.at /\ file.own.r >= 0 /\ "WRITE" \in file.mode

MayWrite(s0) ==
  Careful =>
    /\ MayOpen /\ MayGo(s0)
    /\ codec = "text" /\ file.idata => s0 < file.pos \/ ~file.own.mid
    /\ codec \in Sie =>
         \/ s0 < Len(Samples) /\ (file.idata => s0 < file.own.p \/ KnowsRecord)
         \/ file.idata /\ KnowsRecord /\ s0 = file.pos /\ s0 = file.own.p

(* A seek is answered with pos.                                               *)
MaySeek == Careful => codec \in Sie \cup {"text", "lzma"}

(* sie.c:499: the number of the last sample is taken for that of samples.     *)
(* ascii.c:383: lines in the buffer of the stream are not counted.            *)
MayAsk == Careful => codec \notin Sie /\ disk.seen = Len(disk.cells)

-------------------------------------------------------------------------------
Reply(op, at, data, t) ==
  [op |-> op, at |-> at, n |-> 0, here |-> FALSE,
   data |-> IF t.end = "ok" THEN data ELSE <<>>, err |-> t.end = "error"]

Finish(t, reply) ==
  /\ Len(SamplesIn(t.disk.cells)) <= MaxLen
  /\ disk' = t.disk /\ file' = t.file
  /\ run' = IF t.end = "undefined" THEN "undefined" ELSE "ok"
  /\ ret' = reply
  /\ codec' = codec

Ready == run = "ok"
Counts == 1..MaxCount

GetData(s0, n) ==
  /\ Ready /\ MayRead(s0, n)
  /\ \E t \in DoRaw(Now, s0, n) :
       Finish(t, [Reply("get", s0, t.data, t) EXCEPT !.n = n])

GetHere(n) ==
  /\ Ready /\ (Careful => MayTell) /\ MayRead(file.pos, n)
  /\ \E t \in Then(GetFilePos(Now), LAMBDA s : DoRaw(s, s.at, n)) :
       Finish(t, [Reply("get", t.at, t.data, t) EXCEPT !.n = n, !.here = TRUE])

PutData(s0, vals) ==
  /\ Ready /\ MayWrite(s0)
  /\ \E t \in DoRawOut(Now, s0, vals) :
       Finish(t, [Reply("put", s0, vals, t) EXCEPT !.n = Len(vals)])

PutHere(vals) ==
  /\ Ready /\ (Careful => MayTell /\ file.idata) /\ MayWrite(file.pos)
  /\ \E t \in Then(GetFilePos(Now), LAMBDA s : DoRawOut(s, s.at, vals)) :
       Finish(t, [Reply("put", t.at, vals, t) EXCEPT !.n = Len(vals), !.here = TRUE])

(* gd_seek with GD_SEEK_SET.                                                  *)
Seek(target, mode) ==
  /\ Ready /\ MaySeek
  /\ IF mode = "WRITE" THEN MayWrite(target) ELSE MayRead(target, 0)
  /\ \E t \in Then(Then(InitRawIO(Now, mode), LAMBDA s : Checked(EfSeek(s, target, {mode}))),
                   GetFilePos) :
       Finish(t, Reply("seek", t.at, <<>>, t))

Tell ==
  /\ Ready /\ (Careful => MayTell /\ (file.idata \/ MayOpen))
  /\ \E t \in GetFilePos(Now) : Finish(t, Reply("tell", t.at, <<>>, t))

(* gd_eof.                                                                    *)
EndOf ==
  /\ Ready /\ MayAsk
  /\ \E t \in Checked(EfSize(Now)) : Finish(t, Reply("eof", t.count, <<>>, t))

Sync ==
  /\ Ready
  /\ \E t \in IF file.idata /\ "WRITE" \in file.mode THEN EfSync(Now) ELSE {Now} :
       Finish(t, Reply("flush", 0, <<>>, t))

Close ==
  /\ Ready
  /\ \E t \in IF file.idata THEN EfClose(Now) ELSE {Now} :
       Finish(t, Reply("flush", 0, <<>>, t))

(* What a file may hold when the field is opened.                             *)
Encoded(cells) ==
  IF codec \in Sie
  THEN LET last == {i \in DOMAIN cells : i = Len(cells) \/ cells[i] # cells[i + 1]}
           ends == SetToSortSeq(last, LAMBDA a, b : a < b)
       IN [j \in DOMAIN ends |-> [end |-> ends[j] - 1, val |-> cells[ends[j]]]]
  ELSE cells

Init ==
  /\ codec \in Codecs
  /\ \E cells \in InitCells, exists \in IF Missing THEN BOOLEAN ELSE {TRUE} :
       disk = [exists |-> exists, cells |-> IF exists THEN Encoded(cells) ELSE <<>>,
               seen |-> IF exists THEN Len(Encoded(cells)) ELSE 0]
  /\ file = Shut /\ run = "ok" /\ ret = Reply("none", 0, <<>>, Now)

Next ==
  \/ \E s0 \in 0..High, n \in Counts : GetData(s0, n)
  \/ \E n \in Counts : GetHere(n)
  \/ \E s0 \in 0..High, n \in Counts, v \in Data : PutData(s0, Copies(n, v))
  \/ \E n \in Counts, v \in Data : PutHere(Copies(n, v))
  \/ \E target \in 0..High, mode \in {"READ", "WRITE"} : Seek(target, mode)
  \/ Tell \/ EndOf \/ Sync \/ Close

Spec == Init /\ [][Next]_vars

-------------------------------------------------------------------------------
(* Used with care, no call has undefined behaviour and every encoding         *)
(* implements the array of samples with an I/O pointer that a field promises. *)
Abstract == INSTANCE Field WITH Bof <- 0, data <- Samples, ptr <- Position, ret <- ret
ImplementsField == Abstract!Spec /\ [](run = "ok")

(* "The first sample with the value is the sample immediately following the   *)
(* data in the previous record" (dirfile-encoding(5)): records are in order,  *)
(* none is empty, and the one the handle keeps is the one it thinks it is.    *)
RunsInOrder ==
  codec \in Sie =>
    /\ \A i \in DOMAIN disk.cells :
         disk.cells[i].end > (IF i = 1 THEN -1 ELSE disk.cells[i - 1].end)
    /\ file.idata /\ file.own.r >= 0 =>
         /\ file.own.at = file.own.r + 1
         /\ disk.cells[file.own.at].val = file.own.d.val
         /\ disk.cells[file.own.at].end \in {file.own.d.end, Reversed(file.own.d.end)}

===============================================================================
