------------------------------- MODULE SieFile -------------------------------
(* The sample-index encoding (sie.c).  A cell of the file is a record: the    *)
(* number of the last sample of a run and the value of the run.  The handle,  *)
(* struct gd_siedata, caches the record last read, d, its number r, the       *)
(* sample s it begins with, and the sample p the handle stands on; "at" is    *)
(* the record at which the stdio stream stands.                               *)
EXTENDS RawFile, SequencesExt

(* gd_swap64; 0 and -1 read the same both ways.                               *)
Reversed(n) == IF n \in {0, -1} THEN n ELSE IF n > Huge \div 2 THEN n - Huge ELSE n + Huge

Swap(f, n) == IF f.swap THEN Reversed(n) ELSE n

(* _GD_SampIndOpen.  If the file cannot be opened edata is freed, not reset.  *)
SampIndOpen(st, mode, swap) ==
  IF st.file.edata = "freed"
  THEN {Stop(st, "undefined")}
  ELSE IF ~st.disk.exists /\ "WRITE" \notin mode
  THEN {Returns([st EXCEPT !.file.edata = "freed"], -1)}
  ELSE {Returns([st EXCEPT
          !.disk.exists = TRUE,
          !.file = [idata |-> TRUE, mode |-> mode, pos |-> 0, edata |-> "valid",
                    own |-> [swap |-> swap, r |-> -1, s |-> -1, p |-> -1,
                             d |-> [end |-> -1, val |-> Zero], at |-> 0]]], 0)}

SampIndClose(st) == {Returns([st EXCEPT !.file = [Shut EXCEPT !.pos = st.file.pos]], 0)}

AtEnd(st) == st.file.own.at >= Len(st.disk.cells)

(* _GD_Advance.  At the end of the file the last record stays in d, and the   *)
(* number in it is byte-swapped once more.                                    *)
Advance(st) ==
  Let(st.file.own, LAMBDA f :
    IF AtEnd(st)
    THEN Let(Swap(f, f.d.end), LAMBDA e :
           [st EXCEPT !.file.own = [f EXCEPT !.d.end = e, !.s = e, !.p = e + 1]])
    ELSE [st EXCEPT !.file.own =
            [f EXCEPT !.d = st.disk.cells[f.at + 1], !.at = @ + 1, !.r = @ + 1,
                      !.s = f.d.end + 1, !.p = f.d.end + 1]])

RECURSIVE AdvanceTo(_, _)
AdvanceTo(st, sample) ==
  IF sample <= st.file.own.d.end THEN st
  ELSE IF AtEnd(st) THEN Advance(st)
  ELSE AdvanceTo(Advance(st), sample)

Rewound(st, sample) ==
  IF sample < st.file.own.p
  THEN [st EXCEPT !.file.own.r = -1, !.file.own.p = -1, !.file.own.d.end = -1,
                  !.file.own.at = 0]
  ELSE st

(* A seek for writing beyond the end extends the last record if it is zero,   *)
(* and adds a record of zeros, which r does not count, otherwise.             *)
PadTo(st, sample) ==
  Let(st.file.own, LAMBDA f :
    LET back == IF f.d.val = Zero /\ f.at > 0 THEN f.at - 1 ELSE f.at
        rec == [end |-> sample, val |-> Zero]
    IN [st EXCEPT
          !.disk.cells = SubSeq(@, 1, back) \o <<[rec EXCEPT !.end = Swap(f, @)]>>
                           \o SubSeq(@, back + 2, Len(@)),
          !.file.own = [f EXCEPT !.d = rec, !.s = sample, !.at = back + 1]])

(* Slip: the record is looked for from the one in d on.                       *)
SampIndSeekOn(st, sample, mode) ==
  {Let(AdvanceTo(st, sample), LAMBDA t :
     Let(IF "WRITE" \in mode /\ sample > t.file.own.d.end THEN PadTo(t, sample) ELSE t,
         LAMBDA u : Returns([u EXCEPT !.file.pos = sample, !.file.own.p = sample],
                            sample)))}

(* _GD_SampIndSeek.                                                           *)
SampIndSeek(st, sample, mode) ==
  IF st.file.pos = sample /\ st.file.own.p >= 0
  THEN {Returns(st, sample)}
  ELSE {Let(AdvanceTo(Rewound(st, sample), sample), LAMBDA t :
          Let(IF "WRITE" \in mode /\ sample > t.file.own.d.end
              THEN PadTo(t, sample) ELSE t,
              LAMBDA u : Returns([u EXCEPT !.file.pos = sample, !.file.own.p = sample],
                                 sample)))}

(* What is left of the run, which is less than nothing beyond the end of the  *)
(* file, is counted; only what there is is copied.                            *)
TakeRun(st) ==
  Let(st.file.own, LAMBDA f :
    [st EXCEPT !.count = @ + f.d.end - f.p + 1,
               !.data = @ \o Copies(f.d.end - f.p + 1, f.d.val)])

RECURSIVE TakeRuns(_, _)
TakeRuns(st, n) ==
  IF st.file.own.d.end - st.file.own.p >= n - st.count THEN st
  ELSE IF AtEnd(st) THEN Advance(TakeRun(st))
  ELSE TakeRuns(Advance(TakeRun(st)), n)

(* _GD_SampIndRead.                                                           *)
SampIndRead(st, n) ==
  {Let(TakeRuns([st EXCEPT !.count = 0, !.data = <<>>], n), LAMBDA t :
     Let(t.file.own, LAMBDA f :
       Let(IF f.d.end - f.p >= n - t.count
           THEN [t EXCEPT !.data = @ \o Copies(n - t.count, f.d.val), !.count = n,
                          !.file.own.p = @ + n - t.count]
           ELSE [TakeRun(t) EXCEPT !.file.own.p = f.d.end + 1],
           LAMBDA u : [u EXCEPT !.file.pos = u.file.own.p])))}

(* The current record, as far as p, followed by vals, as runs.  At the start  *)
(* of a record nothing of it is kept.                                         *)
Compressed(f, vals) ==
  LET first == IF f.p = f.s THEN vals[1] ELSE f.d.val
      Before(i) == IF i = 1 THEN first ELSE vals[i - 1]
      cuts == SetToSortSeq({i \in DOMAIN vals : vals[i] # Before(i)}, LAMBDA a, b : a < b)
  IN [j \in 1..(Len(cuts) + 1) |->
        [val |-> IF j = 1 THEN first ELSE vals[cuts[j - 1]],
         end |-> f.p - 1 + (IF j <= Len(cuts) THEN cuts[j] - 1 ELSE Len(vals))]]

(* Slip: a record that ends where the last run does is kept.                  *)
RECURSIVE ReplacedBefore(_, _, _)
ReplacedBefore(st, last, n) ==
  IF st.file.own.d.end >= last THEN n
  ELSE IF AtEnd(st) THEN n + 1
  ELSE ReplacedBefore(Advance(st), last, n + 1)

(* How many records, from the current one on, end no later than "last".       *)
RECURSIVE Replaced(_, _, _)
Replaced(st, last, n) ==
  IF st.file.own.d.end > last THEN n
  ELSE IF AtEnd(st) THEN n + 1
  ELSE Replaced(Advance(st), last, n + 1)

(* _GD_SampIndWrite: the runs written replace as many records as end within   *)
(* them, the records behind are moved, and the file is cut if it got shorter. *)
(* The last record written is kept in d as it was written, byte-swapped, and  *)
(* s is left on its end.                                                      *)
SampIndWrite(st, vals) ==
  {Let(st.file.own, LAMBDA f : Let(Compressed(f, vals), LAMBDA new :
     Let(<<More(f.r, 0), Swap(f, new[Len(new)].end)>>, LAMBDA to :
       Let(Replaced(st, new[Len(new)].end, IF f.r < 0 THEN -1 ELSE 0), LAMBDA rout :
         Returns([st EXCEPT
           !.disk.cells = SubSeq(@, 1, to[1]) \o new
                            \o SubSeq(@, to[1] + rout + 1, Len(@)),
           !.file.pos = to[2] + 1,
           !.file.own = [f EXCEPT !.d = [new[Len(new)] EXCEPT !.end = to[2]],
                                  !.s = to[2], !.p = to[2] + 1,
                                  !.r = to[1] + Len(new) - 1,
                                  !.at = to[1] + Len(new)]],
           Len(vals))))))}

(* _GD_SampIndSize: the number of the last sample.  In an empty file there is *)
(* none.                                                                      *)
SampIndSize(st) ==
  {Returns(st, IF st.disk.exists /\ st.disk.cells # <<>>
               THEN st.disk.cells[Len(st.disk.cells)].end ELSE -1)}
===============================================================================
