------------------------------- MODULE RawField -------------------------------
(* One RAW field of an unencoded dirfile: the binary file on disk, the        *)
(* struct _gd_raw_file the library caches for it (descriptor, mode, sample    *)
(* position), and the calls that read, write, seek, sync and close it         *)
(* (raw.c, _GD_InitRawIO and _GD_FiniRawIO in encoding.c, fpos.c, _GD_DoRaw   *)
(* in getdata.c, _GD_DoRawOut in putdata.c, _GD_Flush in flush.c).            *)
(*                                                                            *)
(* The library never asks the kernel where a descriptor stands: it keeps      *)
(* file.pos and skips lseek() when pos says the descriptor is already there.  *)
(* The model therefore keeps both: file.pos, in samples, and file.off, the    *)
(* kernel's offset, which can fall between two samples.                       *)
(*                                                                            *)
(* A program outside the library may extend the file while it is open.        *)
EXTENDS Integers, Sequences

CONSTANTS
  Data,         \* sample values other than the padding
  Zero, Torn,   \* the padding; a sample made of bytes of different origins
  Size,         \* bytes per sample: GD_SIZE(data_type)
  FrameOffset,  \* first sample in the file: spf * frame_offset of the fragment
  InitFiles,    \* the samples the file may hold when the dirfile is opened
  Low, High,    \* bounds: the sample numbers callers pass
  MaxCount,     \* bound: samples per call
  MaxLen,       \* bound: samples the file may grow to
  AccMode,      \* "RDONLY" or "RDWR": how the dirfile was opened
  Faults,       \* system calls that may fail
  Producer      \* what the outside program appends: "samples", "bytes"

Value == Data \cup {Zero, Torn}
Mode  == {"READ", "WRITE"}
Calls == {"open", "lseek", "read", "write", "fsync", "close"}

ASSUME RawFieldAssumption ==
  /\ Zero \notin Data /\ Torn \notin Data
  /\ Size \in Nat \ {0} /\ FrameOffset \in Nat
  /\ Low \in Int /\ High \in Int
  /\ MaxCount \in Nat \ {0} /\ MaxLen \in Nat
  /\ InitFiles \subseteq Seq(Data)
  /\ AccMode \in {"RDONLY", "RDWR"}
  /\ Faults \subseteq Calls
  /\ Producer \subseteq {"samples", "bytes"}

VARIABLES
  disk,   \* the file: whether it exists, its whole samples, the bytes after them
  file,   \* E->e->u.raw.file[0]
  prot,   \* the fragment's protection has GD_PROTECT_DATA
  ret     \* what the last call returned

vars == <<disk, file, prot, ret>>

Byte == 0..(Size - 1)
DiskType == [exists : BOOLEAN, samples : Seq(Value), tail : Byte]
FileType == [idata : BOOLEAN,        \* idata >= 0
             live  : BOOLEAN,        \* the kernel has a descriptor behind idata
             mode  : SUBSET Mode,
             pos   : Int,
             off   : [s : Nat, b : Byte]]
RetType  == [op : {"none", "get", "put", "seek", "tell", "flush", "protect", "produce"},
             at : Int, n : Nat, here : BOOLEAN, data : Seq(Value), err : BOOLEAN]

SeqMin(a, b) == IF a < b THEN a ELSE b
SeqMax(a, b) == IF a < b THEN b ELSE a
Pad(n) == [i \in 1..n |-> Zero]

-------------------------------------------------------------------------------
(* A call is a chain of steps on a record st: the file, the disk, the samples *)
(* moved so far and the position found.  A step yields the set of its         *)
(* outcomes; one that is not ok ends the call, as the early returns do.       *)

Now == [file |-> file, disk |-> disk, ok |-> TRUE, data |-> <<>>, at |-> 0]

Then(S, Step(_)) == UNION {IF s.ok THEN Step(s) ELSE {s} : s \in S}

Fail(st) == [st EXCEPT !.ok = FALSE]

FailOn(call, st) == IF call \in Faults THEN {Fail(st)} ELSE {}

(* Slip: reopening keeps the position of the closed descriptor.               *)
RawOpenKeepsPos(st, mode) ==
  IF mode \in st.file.mode
  THEN {st}
  ELSE IF st.disk.exists \/ mode = "WRITE"
  THEN {[st EXCEPT !.file = [@ EXCEPT !.idata = TRUE, !.live = TRUE,
                                      !.mode = {mode, "READ"},
                                      !.off = [s |-> 0, b |-> 0]],
                   !.disk.exists = TRUE]}
  ELSE {Fail(st)}

(* open(2): without O_CREAT the file has to exist.  The mode is recorded      *)
(* whether or not the file could be opened.                                   *)
RawOpen(st, mode) ==
  IF mode \in st.file.mode
  THEN {st}
  ELSE LET Opened(live) ==
             [st EXCEPT !.file = [idata |-> live, live |-> live,
                                  mode  |-> {mode, "READ"}, pos |-> 0,
                                  off   |-> [s |-> 0, b |-> 0]],
                        !.disk.exists = @ \/ (live /\ mode = "WRITE"),
                        !.ok = live]
       IN {Opened(live) : live \in
             (IF st.disk.exists \/ mode = "WRITE" THEN {TRUE} ELSE {FALSE})
             \cup (IF "open" \in Faults THEN {FALSE} ELSE {})}

RawSeek(st, count) ==
  IF st.file.pos = count
  THEN {st}
  ELSE FailOn("lseek", st) \cup
       {IF st.file.live
        THEN [st EXCEPT !.file.pos = count, !.file.off = [s |-> count, b |-> 0]]
        ELSE Fail(st)}

(* How many whole samples lie between the kernel's offset and end of file.    *)
Available(d, o) ==
  LET n == Len(d.samples) - o.s - (IF d.tail < o.b THEN 1 ELSE 0)
  IN IF n < 0 THEN 0 ELSE n

(* Read from an offset inside a sample, every sample returned is torn.        *)
ReadOut(d, o, n) ==
  [i \in 1..n |-> IF o.b = 0 THEN d.samples[o.s + i] ELSE Torn]

(* Slip: the position advances by what was asked for, not by what was read.   *)
RawReadAsked(st, n) ==
  LET o   == st.file.off
      got == SeqMin(n, Available(st.disk, o))
  IN {IF st.file.live
      THEN [st EXCEPT !.file.pos = @ + n, !.file.off.s = @ + n,
                      !.data = @ \o ReadOut(st.disk, o, got)]
      ELSE Fail(st)}

(* read(2): at end of file it also consumes the bytes of an unfinished        *)
(* sample, which the library drops from its count.                            *)
RawRead(st, n) ==
  LET d   == st.disk
      o   == st.file.off
      got == SeqMin(n, Available(d, o))
      end == IF got = n THEN [s |-> o.s + n, b |-> o.b]
             ELSE IF o.s > Len(d.samples) \/ (o.s = Len(d.samples) /\ o.b > d.tail)
             THEN o
             ELSE [s |-> Len(d.samples), b |-> d.tail]
  IN FailOn("read", st) \cup
     {IF st.file.live
      THEN [st EXCEPT !.file.pos = @ + got, !.file.off = end,
                      !.data = @ \o ReadOut(d, o, got)]
      ELSE Fail(st)}

(* The file after the first "whole" samples of vals and "part" bytes of the   *)
(* next were written at offset o; a gap before o reads as zero bytes.         *)
WriteIn(d, o, vals, whole, part) ==
  LET len  == Len(d.samples)
      over == o.b + part >= Size
      endS == o.s + whole + (IF over THEN 1 ELSE 0)
      endB == IF over THEN o.b + part - Size ELSE o.b + part
      Cell(i) ==
        IF i < o.s
        THEN IF i < len THEN d.samples[i + 1]
             ELSE IF i = len /\ d.tail > 0 THEN Torn ELSE Zero
        ELSE IF i < endS
        THEN IF o.b = 0 THEN vals[i - o.s + 1] ELSE Torn
        ELSE IF i = endS /\ endB > 0 THEN Torn ELSE d.samples[i + 1]
  IN [d EXCEPT !.samples = [i \in 1..SeqMax(len, endS) |-> Cell(i - 1)],
               !.tail = IF endS > len THEN endB
                        ELSE IF endS = len THEN SeqMax(d.tail, endB)
                        ELSE d.tail]

(* write(2) may stop after any byte when the disk is full.                    *)
Written(n) ==
  {<<n, 0>>} \cup (IF "write" \in Faults
                   THEN ((0..(n - 1)) \X Byte) \ {<<0, 0>>} ELSE {})

RawWrite(st, vals) ==
  FailOn("write", st) \cup
  IF ~st.file.live
  THEN {Fail(st)}
  ELSE LET o == st.file.off IN
       {LET over == o.b + w[2] >= Size IN
        [st EXCEPT !.disk = WriteIn(@, o, vals, w[1], w[2]),
                   !.file.pos = @ + w[1],
                   !.file.off = [s |-> o.s + w[1] + (IF over THEN 1 ELSE 0),
                                 b |-> IF over THEN o.b + w[2] - Size
                                       ELSE o.b + w[2]],
                   !.data = SubSeq(vals, 1, w[1])]
        : w \in Written(Len(vals))}

(* close(2) releases the descriptor even when it reports an error.            *)
RawClose(st) ==
  {[st EXCEPT !.file.idata = FALSE, !.file.live = FALSE, !.file.mode = {}]}
  \cup (IF "close" \in Faults
        THEN {[st EXCEPT !.ok = FALSE, !.file.live = FALSE]} ELSE {})

-------------------------------------------------------------------------------
(* The layer above the codec.                                                 *)

FiniRawIO(st) == IF st.file.idata THEN RawClose(st) ELSE {st}

InitRawIO(st, mode) ==
  LET f == st.file IN
  IF f.idata /\ mode \in f.mode
  THEN {st}
  ELSE Then(IF f.idata /\ mode = "WRITE" THEN FiniRawIO(st) ELSE {st},
            LAMBDA s : IF s.file.idata THEN {s} ELSE RawOpen(s, mode))

GetFilePos(st) ==
  Then(IF st.file.idata THEN {st} ELSE InitRawIO(st, "READ"),
       LAMBDA s : {[s EXCEPT !.at = s.file.pos + FrameOffset]})

(* Samples before FrameOffset are not in the file: they read as padding, and  *)
(* the position is moved up to where the file's data starts.                  *)
DoRaw(st, s0, n) ==
  LET before == FrameOffset - s0
      padded == IF before <= 0 THEN 0 ELSE SeqMin(before, n)
      st1 == IF padded = 0 THEN st
             ELSE [st EXCEPT !.file.pos = s0 + padded - FrameOffset,
                             !.data = Pad(padded)]
      first == IF before > 0 THEN 0 ELSE s0 - FrameOffset
  IN IF padded = n
     THEN {st1}
     ELSE Then(Then(InitRawIO(st1, "READ"), LAMBDA s : RawSeek(s, first)),
               LAMBDA s : RawRead(s, n - padded))

(* Slips: no protection check; no check against the start of the file.        *)
DoRawOutUnprotected(st, s0, vals) ==
  IF s0 < FrameOffset
  THEN {Fail(st)}
  ELSE Then(Then(InitRawIO(st, "WRITE"), LAMBDA s : RawSeek(s, s0 - FrameOffset)),
            LAMBDA s : RawWrite(s, vals))

DoRawOutUnranged(st, s0, vals) ==
  IF prot
  THEN {Fail(st)}
  ELSE Then(Then(InitRawIO(st, "WRITE"), LAMBDA s : RawSeek(s, s0 - FrameOffset)),
            LAMBDA s : RawWrite(s, vals))

DoRawOut(st, s0, vals) ==
  IF prot \/ s0 < FrameOffset
  THEN {Fail(st)}
  ELSE Then(Then(InitRawIO(st, "WRITE"), LAMBDA s : RawSeek(s, s0 - FrameOffset)),
            LAMBDA s : RawWrite(s, vals))

(* _GD_Seek on a RAW field: before the start of the file there is nowhere to  *)
(* seek to, so only the position changes.                                     *)
SeekTo(st, target, mode) ==
  Then(InitRawIO(st, mode),
       LAMBDA s : IF FrameOffset > target
                  THEN {[s EXCEPT !.file.pos = target - FrameOffset]}
                  ELSE RawSeek(s, target - FrameOffset))

(* Where the three values of whence start from; GD_SEEK_END stats the file.   *)
Origin(st, whence) ==
  CASE whence = "SET" -> {st}
    [] whence = "CUR" -> GetFilePos(st)
    [] whence = "END" -> {IF st.disk.exists
                          THEN [st EXCEPT !.at = Len(st.disk.samples) + FrameOffset]
                          ELSE Fail(st)}

-------------------------------------------------------------------------------
(* The calls.                                                                 *)

(* What a call returns: its kind, the position and the count it worked on,    *)
(* whether that position came from GD_HERE, the samples moved, the error.     *)
Reply(op, at, n, here, t) ==
  [op |-> op, at |-> at, n |-> n, here |-> here, err |-> ~t.ok,
   data |-> IF t.ok THEN t.data ELSE <<>>]

Finish(op, at, n, here, t) ==
  /\ file' = t.file
  /\ disk' = t.disk
  /\ ret'  = Reply(op, at, n, here, t)
  /\ UNCHANGED prot

Counts == 1..MaxCount

GetData(s0, n) == \E t \in DoRaw(Now, s0, n) : Finish("get", s0, n, FALSE, t)

GetHere(n) ==
  \E t \in Then(GetFilePos(Now), LAMBDA s : DoRaw(s, s.at, n)) :
    Finish("get", t.at, n, TRUE, t)

(* gd_putdata is refused on a read-only dirfile before anything is touched.   *)
PutData(s0, vals) ==
  \E t \in IF AccMode = "RDWR" THEN DoRawOut(Now, s0, vals) ELSE {Fail(Now)} :
    /\ Len(t.disk.samples) <= MaxLen
    /\ Finish("put", s0, Len(vals), FALSE, t)

PutHere(vals) ==
  \E t \in IF AccMode = "RDWR"
           THEN Then(GetFilePos(Now), LAMBDA s : DoRawOut(s, s.at, vals))
           ELSE {Fail(Now)} :
    /\ Len(t.disk.samples) <= MaxLen
    /\ Finish("put", t.at, Len(vals), TRUE, t)

(* gd_seek checks neither the access mode nor the protection.                 *)
Seek(n, whence, mode) ==
  \E t \in Then(Then(Origin(Now, whence),
                     LAMBDA s : IF s.at + n \in Low..High
                                THEN SeekTo(s, s.at + n, mode) ELSE {}),
                GetFilePos) :
    Finish("seek", t.at, 0, FALSE, t)

Tell == \E t \in GetFilePos(Now) : Finish("tell", t.at, 0, FALSE, t)

(* gd_sync, gd_raw_close and gd_flush: a failed fsync leaves the file open.   *)
Flush(syn, clo) ==
  LET synced == IF /\ syn /\ file.idata /\ AccMode = "RDWR" /\ "WRITE" \in file.mode
                THEN FailOn("fsync", Now)
                     \cup {IF file.live THEN Now ELSE Fail(Now)}
                ELSE {Now}
  IN \E t \in Then(synced, LAMBDA s : IF clo THEN FiniRawIO(s) ELSE {s}) :
       Finish("flush", 0, 0, FALSE, t)

(* gd_alter_protection is refused on a read-only dirfile.                     *)
AlterProtection ==
  /\ \/ AccMode = "RDWR" /\ prot' = ~prot
        /\ ret' = Reply("protect", 0, 0, FALSE, Now)
     \/ AccMode = "RDONLY" /\ prot' = prot
        /\ ret' = Reply("protect", 0, 0, FALSE, Fail(Now))
  /\ UNCHANGED <<disk, file>>

(* The outside program: it creates the file and appends to it.                *)
Produce(v) ==
  /\ Len(disk.samples) < MaxLen
  /\ \/ /\ "samples" \in Producer /\ disk.tail = 0
        /\ disk' = [disk EXCEPT !.exists = TRUE, !.samples = Append(@, v)]
     \/ /\ "bytes" \in Producer
        /\ disk' = IF disk.tail + 1 = Size
                   THEN [disk EXCEPT !.samples = Append(@, v), !.tail = 0]
                   ELSE [disk EXCEPT !.exists = TRUE, !.tail = @ + 1]
  /\ ret' = Reply("produce", 0, 0, FALSE, Now)
  /\ UNCHANGED <<file, prot>>

Init ==
  /\ disk \in {[exists |-> s # <<>>, samples |-> s, tail |-> 0] : s \in InitFiles}
  /\ file = [idata |-> FALSE, live |-> FALSE, mode |-> {}, pos |-> 0,
             off |-> [s |-> 0, b |-> 0]]
  /\ prot \in BOOLEAN
  /\ ret = Reply("none", 0, 0, FALSE, Now)

Next ==
  \/ \E s0 \in Low..High, n \in Counts : GetData(s0, n)
  \/ \E n \in Counts : GetHere(n)
  \/ \E s0 \in (Low - 1)..High, n \in Counts, v \in Data : PutData(s0, [i \in 1..n |-> v])
  \/ \E n \in Counts, v \in Data : PutHere([i \in 1..n |-> v])
  \/ \E n \in (Low - High)..High, whence \in {"SET", "CUR", "END"}, mode \in Mode :
       Seek(n, whence, mode)
  \/ Tell
  \/ \E syn, clo \in BOOLEAN : (syn \/ clo) /\ Flush(syn, clo)
  \/ AlterProtection
  \/ \E v \in Data : Produce(v)

Spec == Init /\ [][Next]_vars

-------------------------------------------------------------------------------
TypeOK ==
  /\ disk \in DiskType
  /\ file \in FileType
  /\ prot \in BOOLEAN
  /\ ret \in RetType

(* The position the library believes in is where the kernel's descriptor      *)
(* stands: lseek is skipped on the strength of it (raw.c:56), so every read   *)
(* and write of an open file depends on it.                                   *)
Coherent == file.live => file.off = [s |-> file.pos, b |-> 0]

(* A call that only reads, tells or syncs never changes the samples on disk,  *)
(* a write never shortens the file, and neither does anything to a protected  *)
(* fragment (gd_alter_protection(3)).                                         *)
DiskSafe ==
  [][/\ Len(disk'.samples) >= Len(disk.samples)
     /\ (ret'.op \notin {"put", "produce"} \/ (ret'.op = "put" /\ prot)) =>
          disk'.samples = disk.samples /\ disk'.tail = disk.tail]_vars

(* The pointer gd_tell would report; a closed file is reopened at its start.  *)
Pointer == IF file.idata THEN file.pos + FrameOffset ELSE FrameOffset

(* The calls implement an array of samples with an I/O pointer: every read    *)
(* returns what was last written where it reads, GD_HERE continues where the  *)
(* last transfer ended, and an error changes no sample.                       *)
Abstract == INSTANCE Field WITH Bof <- FrameOffset, Zero <- Zero,
                                data <- disk.samples, ptr <- Pointer, ret <- ret
ImplementsField == Abstract!Spec
===============================================================================
