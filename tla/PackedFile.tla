------------------------------ MODULE PackedFile ------------------------------
(* The encodings the library reads but does not write: bzip2 (bzip.c), lzma   *)
(* (lzma.c), slim (slim.c, zzslim.c) and zzip (zzip.c).  The decompressors    *)
(* are libraries of others, of which only what those files rely on is         *)
(* modelled.  Samples are the unit; what the source counts in bytes is given  *)
(* by Size.                                                                   *)
EXTENDS RawFile

Total(st) == Len(st.disk.cells)

OpenFor(st, mode, pos, own) ==
  IF st.disk.exists
  THEN {Returns([st EXCEPT !.file = [idata |-> TRUE, mode |-> mode, pos |-> pos,
                                     edata |-> "valid", own |-> own]], 0)}
  ELSE {Returns(st, -1)}

CloseFor(st, mode) ==
  {Returns([st EXCEPT !.file = [Shut EXCEPT !.pos = st.file.pos, !.mode = mode]], 0)}

(* Each of them finds the number of samples in the file: bzip2 and lzma by    *)
(* decompressing all of it, slim and zzip by asking.                          *)
PackedSize(st) == {Returns(st, IF st.disk.exists THEN Total(st) ELSE -1)}
Bzip2Size(st) == PackedSize(st)
LzmaSize(st) == PackedSize(st)
SlimSize(st) == PackedSize(st)
ZzipSize(st) == PackedSize(st)
ZzslimSize(st) == PackedSize(st)

-------------------------------------------------------------------------------
(* bzip2.  A buffer holds "end" samples from number base on and the handle    *)
(* stands on the pos-th of them.  bz is the state of the decoder: "ok",       *)
(* "ended" after it said BZ_STREAM_END, "lost" when it is to start over but   *)
(* the file was not rewound; stop is ptr->stream_end, last is ptr->bzerror.   *)

Bzip2Open(st) ==
  OpenFor(st, {"READ"}, st.file.pos,
          [base |-> 0, end |-> 0, pos |-> 0, bz |-> "ok", stop |-> FALSE, last |-> "OK"])

Bzip2Close(st) == CloseFor(st, {})

(* BZ2_bzRead into the buffer.  The end of the stream may be reported with    *)
(* the last full buffer or with an empty one after it.                        *)
Refill(st) ==
  Let(st.file.own, LAMBDA f :
    LET at == f.base + f.end
        n == Fewer(Buffer, Total(st) - at)
        Said(word) == [st EXCEPT !.count = 0,
                         !.file.own = [f EXCEPT !.base = at, !.end = n, !.last = word,
                                         !.bz = IF word = "OK" THEN "ok" ELSE "ended",
                                         !.stop = word # "OK"]]
    IN IF f.bz # "ok"
       THEN {Returns([st EXCEPT !.file.own.last = "error"], -1)}
       ELSE {Said(word) : word \in IF n < Buffer THEN {"STREAM_END"}
                                   ELSE IF at + n = Total(st) THEN {"OK", "STREAM_END"}
                                   ELSE {"OK"}})

RECURSIVE RefillTo(_, _)
RefillTo(st, count) ==
  IF st.file.own.base + st.file.own.end >= count
  THEN {st}
  ELSE UNION {IF t.count = -1 \/ t.file.own.stop THEN {t} ELSE RefillTo(t, count)
              : t \in Refill(st)}

(* To go back before the buffer the decoder is opened again, on a file that   *)
(* stands where it stood.                                                     *)
StartOver(st) ==
  [st EXCEPT !.file.own = [@ EXCEPT !.base = 0, !.end = 0, !.pos = 0, !.bz = "lost",
                                    !.stop = FALSE, !.last = "OK"]]

(* _GD_Bzip2Seek.                                                             *)
Bzip2Seek(st, count) ==
  {IF t.count = -1
   THEN t
   ELSE Let(t.file.own, LAMBDA f :
          Let(IF f.last = "STREAM_END" /\ count >= f.base + f.end
              THEN f.end ELSE count - f.base,
              LAMBDA to : Returns([t EXCEPT !.file.own.pos = to], f.base + to)))
   : t \in RefillTo([(IF st.file.own.base > count THEN StartOver(st) ELSE st)
                       EXCEPT !.count = 0], count)}

(* What the buffer holds of the n samples still wanted.                       *)
TakeBuffered(st, n) ==
  Let(Fewer(n, st.file.own.end - st.file.own.pos), LAMBDA k :
    [st EXCEPT !.data = @ \o CellsFrom(st, st.file.own.base + st.file.own.pos, k),
               !.file.own.pos = @ + k])

RECURSIVE ReadBuffers(_, _)
ReadBuffers(st, n) ==
  Let(TakeBuffered(st, n - Len(st.data)), LAMBDA s :
    IF Len(s.data) = n \/ s.file.own.stop
    THEN {Returns(s, Len(s.data))}
    ELSE UNION {IF t.count = -1 THEN {t}
                ELSE ReadBuffers([t EXCEPT !.file.own.pos = 0], n) : t \in Refill(s)})

(* _GD_Bzip2Read.                                                             *)
Bzip2Read(st, n) == ReadBuffers([st EXCEPT !.data = <<>>], n)

-------------------------------------------------------------------------------
(* lzma.  The buffers hold the whole file, compressed or not (the library     *)
(* cannot read a larger one): the first call of the decoder delivers it all,  *)
(* the next one says that there is no more.                                   *)

LzmaOpen(st) == OpenFor(st, {"READ"}, 0, [end |-> 0, pos |-> 0, called |-> FALSE, stop |-> FALSE])

LzmaClose(st) == CloseFor(st, {})

LzmaDecode(st) ==
  IF st.file.own.called
  THEN [st EXCEPT !.file.own.stop = TRUE]
  ELSE [st EXCEPT !.file.own.called = TRUE, !.file.own.end = Total(st)]

RECURSIVE DecodeTo(_, _)
DecodeTo(st, count) ==
  IF st.file.own.end >= count \/ st.file.own.stop THEN st
  ELSE DecodeTo(LzmaDecode(st), count)

(* _GD_LzmaSeek.  The position, in samples, is compared with the one wanted,  *)
(* in bytes; and stream_end does not keep it from decoding once more.         *)
LzmaSeek(st, count) ==
  IF st.file.pos = count * Size
  THEN {Returns(st, count)}
  ELSE {Let(DecodeTo(st, count), LAMBDA t :
          Let(Fewer(count, t.file.own.end), LAMBDA to :
            Returns([t EXCEPT !.file.own.pos = to, !.file.pos = to], to)))}

(* _GD_LzmaRead.  The read that meets the end of the stream subtracts the     *)
(* size of the buffer, all of which it copied already, from what is left to   *)
(* be read: it counts more samples than it delivered, or wraps around.  Reads *)
(* after that are right but do not move the position.                         *)
LzmaRead(st, n) ==
  Let(DecodeTo(st, st.file.own.pos + n), LAMBDA t :
    Let(CellsFrom(t, t.file.own.pos, n), LAMBDA got :
      Let([t EXCEPT !.data = got, !.count = Len(got), !.file.own.pos = @ + Len(got)],
          LAMBDA u :
        {IF st.file.own.stop
         THEN IF Len(got) < n THEN u ELSE [u EXCEPT !.file.pos = @ + n]
         ELSE IF t.file.own.stop /\ t.file.own.end > 0 THEN Stop(u, "undefined")
         ELSE [u EXCEPT !.file.pos = @ + Len(got)]})))

-------------------------------------------------------------------------------
(* slim and zzip: streams that seek by themselves.  Beyond the end they fail  *)
(* or stop there.  The position in the handle is not moved by slim, nor by    *)
(* zzip when it reads; when it seeks, zzip stores bytes.                      *)

SlimOpen(st) == OpenFor(st, {}, st.file.pos, [at |-> 0])
SlimClose(st) == CloseFor(st, {})
ZzipOpen(st) == OpenFor(st, {"READ"}, st.file.pos, [at |-> 0])
ZzipClose(st) == CloseFor(st, {"READ"})

SlimSeek(st, count) ==
  IF count \in 0..Total(st)
  THEN {Returns([st EXCEPT !.file.own.at = count], count)}
  ELSE {IF fails THEN Returns(st, -1)
        ELSE Returns([st EXCEPT !.file.own.at = Total(st)], Total(st))
        : fails \in IF count < 0 THEN {TRUE} ELSE BOOLEAN}

ZzipSeek(st, count) ==
  {[t EXCEPT !.file.pos = IF t.count = -1 THEN -1 ELSE t.count * Size] : t \in SlimSeek(st, count)}

SlimRead(st, n) ==
  {Let(CellsFrom(st, st.file.own.at, n), LAMBDA got :
     [st EXCEPT !.data = got, !.count = Len(got), !.file.own.at = @ + Len(got)])}

(* slim in a zip archive: the archive is part of the path.                    *)
ZzslimOpen(st) == SlimOpen(st)
ZzslimClose(st) == SlimClose(st)
ZzslimSeek(st, count) == SlimSeek(st, count)
ZzslimRead(st, n) == SlimRead(st, n)
ZzipRead(st, n) == SlimRead(st, n)
===============================================================================
