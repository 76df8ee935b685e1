------------------------------- MODULE RawFile -------------------------------
(* What the back ends that store the samples of a RAW field share: a call is  *)
(* a chain of steps on a record st, each yielding the set of its outcomes.    *)
(*                                                                            *)
(*   st.disk   the file: whether it exists, its cells, and how many of them   *)
(*             are not in a buffer of this process only                       *)
(*   st.file   struct _gd_raw_file: idata >= 0, mode, pos, what edata points  *)
(*             to ("NULL", "valid", "freed") and the private data there       *)
(*   st.count, st.data   what the last back-end function returned, -1 for a   *)
(*             failure, and the samples it delivered                          *)
(*   st.end    "ok", or how the call ended early: "error", or "undefined"     *)
(*             when what follows has no defined behaviour in C                *)
EXTENDS Integers, Sequences

CONSTANTS
  Zero,     \* the sample of which all bytes are zero
  Size,     \* the bytes of a sample
  Buffer,   \* GD_BZIP_BUFFER_SIZE, in samples
  Huge      \* a number of which the bytes are reversed is that far away

Then(S, Step(_)) == UNION {IF s.end = "ok" THEN Step(s) ELSE {s} : s \in S}
Let(x, Body(_)) == Body(x)
Stop(st, how) == [st EXCEPT !.end = how]
Returns(st, count) == [st EXCEPT !.count = count]

Fewer(a, b) == IF a < b THEN a ELSE b
More(a, b) == IF a < b THEN b ELSE a
Copies(n, v) == [i \in 1..n |-> v]

(* A file nobody has opened.                                                  *)
Shut == [idata |-> FALSE, mode |-> {}, pos |-> 0, edata |-> "NULL", own |-> [at |-> 0]]

(* A back end that only reads: the whole file is there at once.               *)
CellsFrom(st, k, n) == SubSeq(st.disk.cells, k + 1, Fewer(k + n, Len(st.disk.cells)))
===============================================================================
