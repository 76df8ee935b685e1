---------------------------- MODULE RawField_proofs ----------------------------
(* Type correctness of RawField, and the coherence of the cached position     *)
(* with the kernel's offset: for every sample size, frame offset, set of      *)
(* values and set of failing calls, as long as no transfer can stop inside a  *)
(* sample and no call addresses samples before the start of the field.        *)
EXTENDS RawField, TLAPS

(* The circumstances under which the position can be trusted.                 *)
Gentle ==
  /\ Low >= FrameOffset
  /\ Size = 1 \/ ("write" \notin Faults /\ "bytes" \notin Producer)

StType == [file : FileType, disk : DiskType, ok : BOOLEAN, data : Seq(Value),
           at : Int]

CoherentFile(f) == f.pos >= 0 /\ (f.live => f.off.s = f.pos /\ f.off.b = 0)

(* What every step of a call preserves.                                       *)
Good(st) ==
  /\ st \in StType
  /\ Gentle => CoherentFile(st.file) /\ st.disk.tail = 0

LEMMA FailGood == ASSUME NEW st, Good(st) PROVE Good(Fail(st))
  BY DEF Good, Fail, StType

LEMMA FailOnGood ==
  ASSUME NEW st, NEW call, Good(st) PROVE \A t \in FailOn(call, st) : Good(t)
  BY FailGood DEF FailOn

LEMMA RawOpenGood ==
  ASSUME NEW st, NEW mode \in Mode, Good(st)
  PROVE  \A t \in RawOpen(st, mode) : Good(t)
<1>1. CASE mode \in st.file.mode
  BY <1>1 DEF RawOpen
<1>2. CASE mode \notin st.file.mode
  <2> SUFFICES ASSUME NEW t \in RawOpen(st, mode) PROVE Good(t)
    OBVIOUS
  <2>1. PICK live \in BOOLEAN :
          t = [st EXCEPT !.file = [idata |-> live, live |-> live,
                                   mode  |-> {mode, "READ"}, pos |-> 0,
                                   off   |-> [s |-> 0, b |-> 0]],
                         !.disk.exists = @ \/ (live /\ mode = "WRITE"),
                         !.ok = live]
    BY <1>2 DEF RawOpen
  <2>2. t.file = [idata |-> live, live |-> live, mode  |-> {mode, "READ"},
                  pos |-> 0, off |-> [s |-> 0, b |-> 0]]
    BY <2>1 DEF Good, StType
  <2>3. /\ t.disk = [st.disk EXCEPT !.exists = @ \/ (live /\ mode = "WRITE")]
        /\ t.ok = live /\ t.data = st.data /\ t.at = st.at
    BY <2>1 DEF Good, StType, DiskType
  <2>4. t.disk \in DiskType /\ t.disk.tail = st.disk.tail
    BY <2>3 DEF Good, StType, DiskType
  <2>5. t.file \in FileType
    BY <2>2, RawFieldAssumption DEF FileType, Mode, Byte
  <2>6. t \in StType
    BY <2>1, <2>3, <2>4, <2>5 DEF Good, StType
  <2> QED BY <2>2, <2>4, <2>6 DEF Good, CoherentFile
<1> QED BY <1>1, <1>2

LEMMA RawSeekGood ==
  ASSUME NEW st, NEW count \in Nat, Good(st)
  PROVE  \A t \in RawSeek(st, count) : Good(t)
<1> DEFINE moved == [st EXCEPT !.file.pos = count,
                               !.file.off = [s |-> count, b |-> 0]]
<1>1. moved.file = [idata |-> st.file.idata, live |-> st.file.live,
                    mode |-> st.file.mode, pos |-> count,
                    off |-> [s |-> count, b |-> 0]]
  BY DEF Good, StType, FileType
<1>2. moved.file \in FileType /\ CoherentFile(moved.file)
  BY <1>1, RawFieldAssumption DEF Good, StType, FileType, CoherentFile, Byte
<1>3. moved \in StType /\ moved.disk = st.disk
  BY <1>1, <1>2 DEF Good, StType
<1>4. Good(moved)
  BY <1>2, <1>3 DEF Good
<1> QED BY <1>4, FailGood, FailOnGood DEF RawSeek

LEMMA AvailableNat ==
  ASSUME NEW d \in DiskType, NEW o \in [s : Nat, b : Byte]
  PROVE  /\ Available(d, o) \in Nat
         /\ Available(d, o) > 0 => o.s + Available(d, o) <= Len(d.samples)
         /\ d.tail = 0 /\ o.b = 0 /\ o.s <= Len(d.samples) =>
              o.s + Available(d, o) = Len(d.samples)
  BY RawFieldAssumption DEF Available, DiskType, Byte

LEMMA ReadOutType ==
  ASSUME NEW d \in DiskType, NEW o \in [s : Nat, b : Byte], NEW n \in Nat,
         n <= Available(d, o)
  PROVE  ReadOut(d, o, n) \in Seq(Value) /\ Len(ReadOut(d, o, n)) = n
<1>1. \A i \in 1..n : o.s + i \in 1..Len(d.samples)
  BY AvailableNat DEF DiskType
<1>2. \A i \in 1..n : d.samples[o.s + i] \in Value
  BY <1>1 DEF DiskType
<1>3. Torn \in Value
  BY DEF Value
<1> QED BY <1>2, <1>3 DEF ReadOut

LEMMA RawReadGood ==
  ASSUME NEW st, NEW n \in Nat, Good(st)
  PROVE  \A t \in RawRead(st, n) : Good(t)
<1> DEFINE d   == st.disk
           o   == st.file.off
           got == SeqMin(n, Available(d, o))
           end == IF got = n THEN [s |-> o.s + n, b |-> o.b]
                  ELSE IF o.s > Len(d.samples)
                          \/ (o.s = Len(d.samples) /\ o.b > d.tail)
                  THEN o
                  ELSE [s |-> Len(d.samples), b |-> d.tail]
           more == [st EXCEPT !.file.pos = @ + got, !.file.off = end,
                              !.data = @ \o ReadOut(d, o, got)]
<1>1. d \in DiskType /\ o \in [s : Nat, b : Byte]
  BY DEF Good, StType, FileType
<1>2. got \in Nat /\ got <= n /\ got <= Available(d, o)
  BY <1>1, AvailableNat DEF SeqMin
<1>3. end \in [s : Nat, b : Byte]
  BY <1>1, <1>2 DEF DiskType
<1>4. more.file = [idata |-> st.file.idata, live |-> st.file.live,
                   mode |-> st.file.mode, pos |-> st.file.pos + got, off |-> end]
  BY DEF Good, StType, FileType
<1>5. more.file \in FileType
  <2> HIDE DEF more, end, got
  <2> QED BY <1>2, <1>3, <1>4 DEF Good, StType, FileType
<1>6. more.data \in Seq(Value)
  BY <1>1, <1>2, ReadOutType DEF Good, StType
<1>7. more \in StType /\ more.disk = st.disk
  BY <1>5, <1>6 DEF Good, StType
<1>8. ASSUME Gentle PROVE CoherentFile(more.file)
  <2> SUFFICES ASSUME st.file.live
               PROVE  end.s = st.file.pos + got /\ end.b = 0
    <3>1. st.file.pos >= 0 /\ st.file.pos \in Int
      BY <1>8 DEF Good, CoherentFile, StType, FileType
    <3>2. st.file.pos + got >= 0
      BY <3>1, <1>2
    <3> HIDE DEF more, got, end
    <3> QED BY <3>2, <1>4 DEF CoherentFile
  <2>1. o.s = st.file.pos /\ o.b = 0 /\ d.tail = 0
    BY <1>8 DEF Good, CoherentFile
  <2>2. CASE got = n
    BY <2>1, <2>2
  <2>3. CASE got # n /\ o.s > Len(d.samples)
    BY <2>1, <2>3, <1>1, <1>2, AvailableNat DEF DiskType, SeqMin, Available
  <2>4. CASE got # n /\ o.s <= Len(d.samples)
    <3>1. o.s + got = Len(d.samples)
      BY <2>1, <2>4, <1>1, AvailableNat DEF SeqMin
    <3>2. end.s = Len(d.samples) /\ end.b = 0
      BY <2>1, <2>4, <1>1 DEF DiskType
    <3> QED BY <3>1, <3>2, <2>1
  <2> QED BY <2>2, <2>3, <2>4, <1>1 DEF DiskType
<1>9. Good(more)
  BY <1>7, <1>8 DEF Good
<1> QED BY <1>9, FailGood, FailOnGood DEF RawRead

LEMMA WriteInType ==
  ASSUME NEW d \in DiskType, NEW o \in [s : Nat, b : Byte],
         NEW vals \in Seq(Value), NEW whole \in 0..Len(vals), NEW part \in Byte
  PROVE  /\ WriteIn(d, o, vals, whole, part) \in DiskType
         /\ d.tail = 0 /\ o.b = 0 /\ part = 0 =>
              WriteIn(d, o, vals, whole, part).tail = 0
<1> DEFINE len  == Len(d.samples)
           over == o.b + part >= Size
           endS == o.s + whole + (IF over THEN 1 ELSE 0)
           endB == IF over THEN o.b + part - Size ELSE o.b + part
           Cell(i) ==
             IF i < o.s
             THEN IF i < len THEN d.samples[i + 1]
                  ELSE IF i = len /\ d.tail > 0 THEN Torn ELSE Zero
             ELSE IF i < endS
             THEN IF o.b = 0 THEN vals[i - o.s + 1] ELSE Torn
             ELSE IF i = endS /\ endB > 0 THEN Torn ELSE d.samples[i + 1]
           cells == [i \in 1..SeqMax(len, endS) |-> Cell(i - 1)]
           tail  == IF endS > len THEN endB
                    ELSE IF endS = len THEN SeqMax(d.tail, endB)
                    ELSE d.tail
<1>1. /\ len \in Nat /\ d.tail \in Byte /\ o.s \in Nat /\ o.b \in Byte
      /\ d.samples \in Seq(Value) /\ Size \in Nat \ {0}
  BY RawFieldAssumption DEF DiskType
<1>2. endS \in Nat /\ endB \in Byte
  BY <1>1 DEF Byte
<1>3. o.b = 0 => ~over
  BY <1>1 DEF Byte
<1>4. \A i \in 1..SeqMax(len, endS) : Cell(i - 1) \in Value
  <2> SUFFICES ASSUME NEW i \in 1..SeqMax(len, endS) PROVE Cell(i - 1) \in Value
    OBVIOUS
  <2>1. Zero \in Value /\ Torn \in Value
    BY DEF Value
  <2>2. i \in Nat /\ i >= 1 /\ (i <= len \/ i <= endS)
    BY <1>1, <1>2 DEF SeqMax
  <2>3. i <= len => d.samples[i] \in Value
    BY <1>1, <2>2
  <2>4. CASE i - 1 < o.s
    BY <1>1, <2>1, <2>2, <2>3, <2>4
  <2>5. CASE ~(i - 1 < o.s) /\ i - 1 < endS
    <3>1. o.b = 0 => (i - 1) - o.s + 1 \in 1..Len(vals)
      BY <1>1, <1>3, <2>2, <2>5
    <3>2. o.b = 0 => vals[(i - 1) - o.s + 1] \in Value
      BY <3>1
    <3> QED BY <3>2, <2>1, <2>5
  <2>6. CASE ~(i - 1 < o.s) /\ ~(i - 1 < endS)
    <3>1. i <= len
      BY <1>2, <2>2, <2>6
    <3> QED BY <3>1, <2>1, <2>2, <2>3, <2>6, <1>1
  <2> QED BY <2>4, <2>5, <2>6
<1>5. cells \in Seq(Value)
  <2>1. SeqMax(len, endS) \in Nat
    BY <1>1, <1>2 DEF SeqMax
  <2> HIDE DEF Cell, endS, len
  <2> QED BY <1>4, <2>1
<1>6. tail \in Byte
  BY <1>1, <1>2 DEF SeqMax
<1>7. WriteIn(d, o, vals, whole, part) = [d EXCEPT !.samples = cells, !.tail = tail]
  BY DEF WriteIn
<1>8. WriteIn(d, o, vals, whole, part) \in DiskType
  <2> HIDE DEF cells, tail
  <2> QED BY <1>5, <1>6, <1>7 DEF DiskType
<1>9. d.tail = 0 /\ o.b = 0 /\ part = 0 => tail = 0
  BY <1>1, <1>3 DEF SeqMax
<1>10. WriteIn(d, o, vals, whole, part).tail = tail
  <2> HIDE DEF cells, tail
  <2> QED BY <1>7 DEF DiskType
<1> QED BY <1>8, <1>9, <1>10

LEMMA Carry ==
  ASSUME NEW a \in Byte, NEW b \in Byte
  PROVE  /\ a + b >= Size => a + b - Size \in Byte
         /\ ~(a + b >= Size) => a + b \in Byte
  BY RawFieldAssumption DEF Byte

LEMMA WrittenType ==
  ASSUME NEW n \in Nat, NEW w \in Written(n)
  PROVE  /\ w[1] \in 0..n /\ w[2] \in Byte
         /\ Gentle => w[2] = 0
  BY RawFieldAssumption DEF Written, Byte, Gentle

LEMMA RawWriteGood ==
  ASSUME NEW st, NEW vals \in Seq(Value), Good(st)
  PROVE  \A t \in RawWrite(st, vals) : Good(t)
<1>1. CASE ~st.file.live
  BY <1>1, FailGood, FailOnGood DEF RawWrite
<1>2. CASE st.file.live
  <2> DEFINE o == st.file.off
             over(w) == o.b + w[2] >= Size
             end(w) == [s |-> o.s + w[1] + (IF over(w) THEN 1 ELSE 0),
                        b |-> IF over(w) THEN o.b + w[2] - Size ELSE o.b + w[2]]
             after(w) == [st EXCEPT !.disk = WriteIn(@, o, vals, w[1], w[2]),
                                    !.file.pos = @ + w[1],
                                    !.file.off = end(w),
                                    !.data = SubSeq(vals, 1, w[1])]
  <2>1. ASSUME NEW w \in Written(Len(vals)) PROVE Good(after(w))
    <3>1. w[1] \in 0..Len(vals) /\ w[2] \in Byte /\ (Gentle => w[2] = 0)
      BY WrittenType
    <3>2. st.disk \in DiskType /\ o \in [s : Nat, b : Byte] /\ st.file \in FileType
      BY DEF Good, StType, FileType
    <3>3. after(w).file = [idata |-> st.file.idata, live |-> st.file.live,
                           mode |-> st.file.mode, pos |-> st.file.pos + w[1],
                           off |-> end(w)]
      BY DEF Good, StType, FileType
    <3>4. end(w) \in [s : Nat, b : Byte]
      <4>1. /\ o.s + w[1] + 1 \in Nat /\ o.s + w[1] + 0 \in Nat
            /\ o.b \in Byte /\ w[2] \in Byte
        BY <3>1, <3>2
      <4>2. CASE over(w)
        BY <4>1, <4>2, Carry
      <4>3. CASE ~over(w)
        BY <4>1, <4>3, Carry
      <4> QED BY <4>2, <4>3
    <3>5. after(w).file \in FileType
      <4> HIDE DEF after, end
      <4> QED BY <3>1, <3>2, <3>3, <3>4 DEF FileType
    <3>6. after(w).disk = WriteIn(st.disk, o, vals, w[1], w[2])
      BY DEF Good, StType
    <3>7. after(w).disk \in DiskType
      BY <3>1, <3>2, <3>6, WriteInType
    <3>8. SubSeq(vals, 1, w[1]) \in Seq(Value)
      BY <3>1
    <3>9. after(w) \in StType
      BY <3>5, <3>7, <3>8 DEF Good, StType
    <3>10. ASSUME Gentle
           PROVE  CoherentFile(after(w).file) /\ after(w).disk.tail = 0
      <4>1. o.s = st.file.pos /\ o.b = 0 /\ st.disk.tail = 0 /\ w[2] = 0
        BY <1>2, <3>1, <3>10 DEF Good, CoherentFile
      <4>2. after(w).disk.tail = 0
        BY <4>1, <3>1, <3>2, <3>6, WriteInType
      <4>3. end(w).s = o.s + w[1] /\ end(w).b = 0
        BY <4>1, <3>1, <3>2, RawFieldAssumption
      <4>4. st.file.pos + w[1] >= 0
        BY <4>1, <3>1, <3>2
      <4> HIDE DEF after, end
      <4> QED BY <4>1, <4>2, <4>3, <4>4, <3>3 DEF CoherentFile
    <3> QED BY <3>9, <3>10 DEF Good
  <2>2. \A t \in RawWrite(st, vals) :
          t \in FailOn("write", st) \/ \E w \in Written(Len(vals)) : t = after(w)
    BY <1>2 DEF RawWrite
  <2> QED BY <2>1, <2>2, FailOnGood
<1> QED BY <1>1, <1>2

LEMMA RawCloseGood ==
  ASSUME NEW st, Good(st)
  PROVE  \A t \in RawClose(st) : Good(t)
<1> DEFINE closed == [st EXCEPT !.file.idata = FALSE, !.file.live = FALSE,
                                !.file.mode = {}]
           dead == [st EXCEPT !.ok = FALSE, !.file.live = FALSE]
<1>1. /\ closed.file = [st.file EXCEPT !.idata = FALSE, !.live = FALSE, !.mode = {}]
      /\ closed.disk = st.disk /\ closed.ok = st.ok
      /\ closed.data = st.data /\ closed.at = st.at
  BY DEF Good, StType, FileType
<1>2. /\ closed.file \in FileType /\ ~closed.file.live
      /\ closed.file.pos = st.file.pos
  BY <1>1 DEF Good, StType, FileType
<1>3. Good(closed)
  BY <1>1, <1>2 DEF Good, StType, CoherentFile
<1>4. /\ dead.file = [st.file EXCEPT !.live = FALSE]
      /\ dead.disk = st.disk /\ dead.ok = FALSE
      /\ dead.data = st.data /\ dead.at = st.at
  BY DEF Good, StType, FileType
<1>5. dead.file \in FileType /\ ~dead.file.live /\ dead.file.pos = st.file.pos
  BY <1>4 DEF Good, StType, FileType
<1>6. Good(dead)
  BY <1>4, <1>5 DEF Good, StType, CoherentFile
<1> QED BY <1>3, <1>6 DEF RawClose

-------------------------------------------------------------------------------
(* The layer above the codec: chains of the steps above.                      *)

LEMMA FiniGood ==
  ASSUME NEW st, Good(st) PROVE \A t \in FiniRawIO(st) : Good(t)
  BY RawCloseGood DEF FiniRawIO

LEMMA InitGood ==
  ASSUME NEW st, NEW mode \in Mode, Good(st)
  PROVE  \A t \in InitRawIO(st, mode) : Good(t)
<1> DEFINE S == IF st.file.idata /\ mode = "WRITE" THEN FiniRawIO(st) ELSE {st}
<1>1. \A s \in S : Good(s)
  BY FiniGood
<1>2. \A s \in S :
        \A t \in (IF s.file.idata THEN {s} ELSE RawOpen(s, mode)) : Good(t)
  BY <1>1, RawOpenGood
<1> QED BY <1>1, <1>2 DEF InitRawIO, Then

LEMMA FilePosGood ==
  ASSUME NEW st, Good(st)
  PROVE  \A t \in GetFilePos(st) :
           Good(t) /\ (Gentle /\ t.ok => t.at >= FrameOffset)
<1> DEFINE S == IF st.file.idata THEN {st} ELSE InitRawIO(st, "READ")
<1>1. \A s \in S : Good(s)
  BY InitGood DEF Mode
<1> DEFINE Told(s) == [s EXCEPT !.at = s.file.pos + FrameOffset]
<1>2. ASSUME NEW s \in S
      PROVE  Good(Told(s)) /\ (Gentle => Told(s).at >= FrameOffset)
  <2>1. Good(s) /\ s.file.pos \in Int /\ FrameOffset \in Nat
    BY <1>1, RawFieldAssumption DEF Good, StType, FileType
  <2>2. Gentle => s.file.pos >= 0
    BY <2>1 DEF Good, CoherentFile
  <2>3. Told(s).at = s.file.pos + FrameOffset /\ Good(Told(s))
    BY <2>1 DEF Good, StType
  <2> HIDE DEF Told
  <2> QED BY <2>1, <2>2, <2>3
<1>3. \A t \in GetFilePos(st) :
        \E s \in S : (~s.ok /\ t = s) \/ t = Told(s)
  BY DEF GetFilePos, Then
<1> HIDE DEF S, Told
<1> QED BY <1>1, <1>2, <1>3

(* A padded read moves the position without moving the descriptor; it is      *)
(* never asked for under Gentle.                                              *)
LEMMA DoRawGood ==
  ASSUME NEW st, NEW s0 \in Int, NEW n \in Nat, Good(st),
         Gentle => s0 >= FrameOffset
  PROVE  \A t \in DoRaw(st, s0, n) : Good(t)
<1> DEFINE before == FrameOffset - s0
           padded == IF before <= 0 THEN 0 ELSE SeqMin(before, n)
           st1 == IF padded = 0 THEN st
                  ELSE [st EXCEPT !.file.pos = s0 + padded - FrameOffset,
                                  !.data = Pad(padded)]
           first == IF before > 0 THEN 0 ELSE s0 - FrameOffset
           opened == InitRawIO(st1, "READ")
           sought == Then(opened, LAMBDA s : RawSeek(s, first))
<1>1. padded \in Nat /\ n - padded \in Nat /\ first \in Nat
  BY RawFieldAssumption DEF SeqMin
<1>2. Good(st1)
  <2>1. CASE padded = 0
    BY <2>1
  <2>2. CASE padded # 0
    <3>1. ~Gentle
      BY <2>2, RawFieldAssumption
    <3>2. Pad(padded) \in Seq(Value)
      BY <1>1 DEF Pad, Value
    <3>3. s0 + padded - FrameOffset \in Int
      BY <1>1, RawFieldAssumption
    <3>4. st1 = [st EXCEPT !.file.pos = s0 + padded - FrameOffset,
                           !.data = Pad(padded)]
      BY <2>2
    <3>5. st1 \in StType
      <4> HIDE DEF padded
      <4> QED BY <3>2, <3>3, <3>4 DEF Good, StType, FileType
    <3> QED BY <3>1, <3>5 DEF Good
  <2> QED BY <2>1, <2>2
<1> HIDE DEF st1, padded, first
<1>3. \A s \in opened : Good(s)
  BY <1>2, InitGood DEF Mode
<1>4. \A s \in sought : Good(s)
  BY <1>1, <1>3, RawSeekGood DEF Then
<1>5. \A t \in Then(sought, LAMBDA s : RawRead(s, n - padded)) : Good(t)
  <2> HIDE DEF sought
  <2> QED BY <1>1, <1>4, RawReadGood DEF Then
<1>6. \A t \in DoRaw(st, s0, n) :
        t = st1 \/ t \in Then(sought, LAMBDA s : RawRead(s, n - padded))
  BY DEF DoRaw, st1, padded, first
<1> QED BY <1>2, <1>5, <1>6

LEMMA DoRawOutGood ==
  ASSUME NEW st, NEW s0 \in Int, NEW vals \in Seq(Value), Good(st)
  PROVE  \A t \in DoRawOut(st, s0, vals) : Good(t)
<1> DEFINE opened == InitRawIO(st, "WRITE")
           sought == Then(opened, LAMBDA s : RawSeek(s, s0 - FrameOffset))
<1>1. CASE prot \/ s0 < FrameOffset
  BY <1>1, FailGood DEF DoRawOut
<1>2. CASE ~(prot \/ s0 < FrameOffset)
  <2>1. s0 - FrameOffset \in Nat
    BY <1>2, RawFieldAssumption
  <2>2. \A s \in opened : Good(s)
    BY InitGood DEF Mode
  <2>3. \A s \in sought : Good(s)
    BY <2>1, <2>2, RawSeekGood DEF Then
  <2>4. \A t \in Then(sought, LAMBDA s : RawWrite(s, vals)) : Good(t)
    <3> HIDE DEF sought
    <3> QED BY <2>3, RawWriteGood DEF Then
  <2> QED BY <1>2, <2>4 DEF DoRawOut
<1> QED BY <1>1, <1>2

LEMMA SeekToGood ==
  ASSUME NEW st, NEW target \in Int, NEW mode \in Mode, Good(st),
         Gentle => target >= FrameOffset
  PROVE  \A t \in SeekTo(st, target, mode) : Good(t)
<1> DEFINE opened == InitRawIO(st, mode)
<1>1. \A s \in opened : Good(s)
  BY InitGood
<1>2. CASE FrameOffset > target
  <2>1. ~Gentle /\ target - FrameOffset \in Int
    BY <1>2, RawFieldAssumption
  <2>2. ASSUME NEW s \in opened
        PROVE  Good([s EXCEPT !.file.pos = target - FrameOffset])
    BY <1>1, <2>1 DEF Good, StType, FileType
  <2> QED BY <1>1, <1>2, <2>2 DEF SeekTo, Then
<1>3. CASE ~(FrameOffset > target)
  <2>1. target - FrameOffset \in Nat
    BY <1>3, RawFieldAssumption
  <2> QED BY <1>1, <1>3, <2>1, RawSeekGood DEF SeekTo, Then
<1> QED BY <1>2, <1>3

LEMMA OriginGood ==
  ASSUME NEW st, NEW whence \in {"SET", "CUR", "END"}, Good(st)
  PROVE  \A t \in Origin(st, whence) : Good(t)
<1>1. ASSUME NEW at \in Int PROVE Good([st EXCEPT !.at = at])
  BY DEF Good, StType
<1>2. Len(st.disk.samples) + FrameOffset \in Int
  BY RawFieldAssumption DEF Good, StType, DiskType
<1> QED BY <1>2, <1>1, FilePosGood, FailGood DEF Origin

-------------------------------------------------------------------------------
(* The inductive invariant: what the steps of a call keep, of the state       *)
(* between two calls.                                                         *)
IInv ==
  /\ TypeOK
  /\ Gentle => CoherentFile(file) /\ disk.tail = 0

LEMMA NowGood == ASSUME IInv PROVE Good(Now)
<1>1. Now \in StType
  BY DEF IInv, TypeOK, Now, StType
<1> QED BY <1>1 DEF IInv, Good, Now

LEMMA ReplyType ==
  ASSUME NEW st \in StType, NEW op, NEW at \in Int, NEW n \in Nat,
         NEW here \in BOOLEAN,
         op \in {"none", "get", "put", "seek", "tell", "flush", "protect", "produce"}
  PROVE  Reply(op, at, n, here, st) \in RetType
<1>1. <<>> \in Seq(Value)
  OBVIOUS
<1>2. st.data \in Seq(Value)
  BY DEF StType
<1>3. (IF st.ok THEN st.data ELSE <<>>) \in Seq(Value)
  BY <1>1, <1>2
<1> QED BY <1>3 DEF Reply, RetType

LEMMA NullReplyType ==
  ASSUME NEW st \in StType
  PROVE  \A op \in {"none", "protect", "produce"} :
           Reply(op, 0, 0, FALSE, st) \in RetType
<1> SUFFICES ASSUME NEW op \in {"none", "protect", "produce"}
             PROVE  Reply(op, 0, 0, FALSE, st) \in RetType
  OBVIOUS
<1>1. <<>> \in Seq(Value)
  OBVIOUS
<1>2. (IF st.ok THEN st.data ELSE <<>>) \in Seq(Value)
  BY <1>1 DEF StType
<1> HIDE DEF Value
<1> QED BY <1>2 DEF Reply, RetType

LEMMA ZeroType == 0 \in Int /\ 0 \in Nat
OBVIOUS

LEMMA FinishInv ==
  ASSUME NEW t, NEW op, NEW at \in Int, NEW n \in Nat, NEW here \in BOOLEAN,
         op \in {"get", "put", "seek", "tell", "flush"},
         IInv, Good(t), Finish(op, at, n, here, t)
  PROVE  IInv'
<1>1. t.file \in FileType /\ t.disk \in DiskType /\ t \in StType
  BY DEF Good, StType
<1>2. ret' \in RetType
  BY <1>1, ReplyType DEF Finish
<1>3. TypeOK'
  BY <1>1, <1>2 DEF Finish, TypeOK, IInv
<1> QED BY <1>3 DEF IInv, Finish, Good

LEMMA NextInv == IInv /\ [Next]_vars => IInv'
<1> SUFFICES ASSUME IInv, [Next]_vars PROVE IInv'
  OBVIOUS
<1>1. Good(Now)
  BY NowGood
<1>2. ASSUME NEW s0 \in Low..High, NEW n \in Counts, GetData(s0, n)
      PROVE  IInv'
  <2>1. s0 \in Int /\ n \in Nat /\ (Gentle => s0 >= FrameOffset)
    BY RawFieldAssumption DEF Counts, Gentle
  <2>2. PICK t \in DoRaw(Now, s0, n) : Finish("get", s0, n, FALSE, t)
    BY <1>2 DEF GetData
  <2> QED BY <1>1, <2>1, <2>2, DoRawGood, FinishInv
<1>3. ASSUME NEW n \in Counts, GetHere(n) PROVE IInv'
  <2> DEFINE S == GetFilePos(Now)
  <2>1. n \in Nat
    BY RawFieldAssumption DEF Counts
  <2>2. \A s \in S : Good(s) /\ (Gentle /\ s.ok => s.at >= FrameOffset)
    BY <1>1, FilePosGood
  <2>3. \A s \in S : s.at \in Int
    BY <2>2 DEF Good, StType
  <2>4. \A s \in S : s.ok => \A t \in DoRaw(s, s.at, n) : Good(t)
    BY <2>1, <2>2, <2>3, DoRawGood
  <2>5. PICK t \in Then(S, LAMBDA s : DoRaw(s, s.at, n)) :
          Finish("get", t.at, n, TRUE, t)
    BY <1>3 DEF GetHere
  <2>6. Good(t)
    <3> HIDE DEF S
    <3> QED BY <2>2, <2>4, <2>5 DEF Then
  <2>7. t.at \in Int
    BY <2>6 DEF Good, StType
  <2> QED BY <2>1, <2>5, <2>6, <2>7, FinishInv
<1>4. ASSUME NEW s0 \in (Low - 1)..High, NEW n \in Counts, NEW v \in Data,
             PutData(s0, [i \in 1..n |-> v])
      PROVE  IInv'
  <2> DEFINE vals == [i \in 1..n |-> v]
  <2>1. s0 \in Int /\ vals \in Seq(Value) /\ Len(vals) \in Nat
    BY RawFieldAssumption DEF Counts, Value
  <2>2. PICK t \in IF AccMode = "RDWR" THEN DoRawOut(Now, s0, vals)
                   ELSE {Fail(Now)} : Finish("put", s0, Len(vals), FALSE, t)
    BY <1>4 DEF PutData
  <2>3. Good(t)
    <3> HIDE DEF vals
    <3> QED BY <1>1, <2>1, <2>2, DoRawOutGood, FailGood
  <2> HIDE DEF vals
  <2> QED BY <2>1, <2>2, <2>3, FinishInv
<1>5. ASSUME NEW n \in Counts, NEW v \in Data, PutHere([i \in 1..n |-> v])
      PROVE  IInv'
  <2> DEFINE vals == [i \in 1..n |-> v]
             S == GetFilePos(Now)
  <2>1. vals \in Seq(Value) /\ Len(vals) \in Nat
    BY RawFieldAssumption DEF Counts, Value
  <2>2. \A s \in S : Good(s) /\ s.at \in Int
    BY <1>1, FilePosGood DEF Good, StType
  <2>3. \A s \in S : \A t \in DoRawOut(s, s.at, vals) : Good(t)
    <3> HIDE DEF vals
    <3> QED BY <2>1, <2>2, DoRawOutGood
  <2>4. PICK t \in IF AccMode = "RDWR"
                   THEN Then(S, LAMBDA s : DoRawOut(s, s.at, vals))
                   ELSE {Fail(Now)} : Finish("put", t.at, Len(vals), TRUE, t)
    BY <1>5 DEF PutHere
  <2> HIDE DEF vals, S
  <2>5. Good(t)
    BY <1>1, <2>2, <2>3, <2>4, FailGood DEF Then
  <2>6. t.at \in Int
    BY <2>5 DEF Good, StType
  <2> QED BY <2>1, <2>4, <2>5, <2>6, FinishInv
<1>6. ASSUME NEW n \in (Low - High)..High, NEW whence \in {"SET", "CUR", "END"},
             NEW mode \in Mode, Seek(n, whence, mode)
      PROVE  IInv'
  <2> DEFINE Move(s) == IF s.at + n \in Low..High
                        THEN SeekTo(s, s.at + n, mode) ELSE {}
             S == Then(Origin(Now, whence), Move)
  <2>1. \A s \in Origin(Now, whence) : Good(s)
    BY <1>1, OriginGood
  <2>2. ASSUME NEW s, Good(s) PROVE \A t \in Move(s) : Good(t)
    <3>1. CASE s.at + n \in Low..High
      <4>1. s.at + n \in Int /\ (Gentle => s.at + n >= FrameOffset)
        BY <3>1, RawFieldAssumption DEF Gentle
      <4> QED BY <2>2, <3>1, <4>1, SeekToGood
    <3> QED BY <3>1
  <2>3. \A s \in S : Good(s)
    <3> HIDE DEF Move
    <3> QED BY <2>1, <2>2 DEF Then
  <2>4. PICK t \in Then(S, GetFilePos) : Finish("seek", t.at, 0, FALSE, t)
    BY <1>6 DEF Seek
  <2>5. Good(t)
    <3> HIDE DEF S
    <3> QED BY <2>3, <2>4, FilePosGood DEF Then
  <2>6. t.at \in Int
    BY <2>5 DEF Good, StType
  <2> QED BY <2>4, <2>5, <2>6, FinishInv
<1>7. CASE Tell
  <2>1. PICK t \in GetFilePos(Now) : Finish("tell", t.at, 0, FALSE, t)
    BY <1>7 DEF Tell
  <2>2. Good(t) /\ t.at \in Int
    BY <1>1, <2>1, FilePosGood DEF Good, StType
  <2> QED BY <2>1, <2>2, FinishInv
<1>8. ASSUME NEW syn \in BOOLEAN, NEW clo \in BOOLEAN, Flush(syn, clo)
      PROVE  IInv'
  <2> DEFINE synced == IF /\ syn /\ file.idata /\ AccMode = "RDWR"
                          /\ "WRITE" \in file.mode
                       THEN FailOn("fsync", Now)
                            \cup {IF file.live THEN Now ELSE Fail(Now)}
                       ELSE {Now}
  <2>1. \A s \in synced : Good(s)
    BY <1>1, FailGood, FailOnGood
  <2>2. PICK t \in Then(synced, LAMBDA s : IF clo THEN FiniRawIO(s) ELSE {s}) :
          Finish("flush", 0, 0, FALSE, t)
    BY <1>8 DEF Flush
  <2>3. Good(t)
    <3> HIDE DEF synced
    <3> QED BY <2>1, <2>2, FiniGood DEF Then
  <2> HIDE DEF synced
  <2> QED BY <2>2, <2>3, ZeroType, FinishInv
<1>9. CASE AlterProtection
  <2>1. /\ Reply("protect", 0, 0, FALSE, Now) \in RetType
        /\ Reply("protect", 0, 0, FALSE, Fail(Now)) \in RetType
    BY <1>1, FailGood, NullReplyType DEF Good
  <2>2. prot' \in BOOLEAN /\ ret' \in RetType /\ UNCHANGED <<disk, file>>
    BY <2>1, <1>9 DEF AlterProtection, IInv, TypeOK
  <2> QED BY <2>2 DEF IInv, TypeOK
<1>10. ASSUME NEW v \in Data, Produce(v) PROVE IInv'
  <2>1. Reply("produce", 0, 0, FALSE, Now) \in RetType
    BY <1>1, NullReplyType DEF Good
  <2>2. disk \in DiskType /\ Append(disk.samples, v) \in Seq(Value)
    BY DEF IInv, TypeOK, Value, DiskType
  <2>3. /\ ret' = Reply("produce", 0, 0, FALSE, Now) /\ UNCHANGED <<file, prot>>
        /\ \/ disk' = [disk EXCEPT !.exists = TRUE, !.samples = Append(@, v)]
           \/ /\ "bytes" \in Producer /\ disk.tail + 1 = Size
              /\ disk' = [disk EXCEPT !.samples = Append(@, v), !.tail = 0]
           \/ /\ "bytes" \in Producer /\ disk.tail + 1 # Size
              /\ disk' = [disk EXCEPT !.exists = TRUE, !.tail = @ + 1]
    BY <1>10 DEF Produce
  <2>4. disk.tail + 1 # Size => disk.tail + 1 \in Byte
    BY <2>2, RawFieldAssumption DEF DiskType, Byte
  <2>5. 0 \in Byte
    BY RawFieldAssumption DEF Byte
  <2>6. disk' \in DiskType
    BY <2>2, <2>3, <2>4, <2>5 DEF DiskType
  <2>7. ASSUME Gentle, disk.tail = 0 PROVE disk'.tail = 0
    <3>1. "bytes" \in Producer => Size = 1
      BY <2>7 DEF Gentle
    <3>2. disk.tail + 1 # Size => "bytes" \notin Producer
      BY <2>7, <3>1
    <3>3. CASE disk' = [disk EXCEPT !.exists = TRUE, !.samples = Append(@, v)]
      BY <2>2, <2>7, <3>3 DEF DiskType
    <3>4. CASE disk' = [disk EXCEPT !.samples = Append(@, v), !.tail = 0]
      BY <2>2, <3>4 DEF DiskType
    <3> QED BY <2>3, <3>2, <3>3, <3>4
  <2> QED BY <2>1, <2>3, <2>6, <2>7 DEF IInv, TypeOK
<1>11. CASE UNCHANGED vars
  BY <1>11 DEF vars, IInv, TypeOK
<1> QED BY <1>2, <1>3, <1>4, <1>5, <1>6, <1>7, <1>8, <1>9, <1>10, <1>11 DEF Next

LEMMA InitInv == Init => IInv
<1> SUFFICES ASSUME Init PROVE IInv
  OBVIOUS
<1>1. PICK s \in InitFiles : disk = [exists |-> s # <<>>, samples |-> s, tail |-> 0]
  BY DEF Init
<1>2. s \in Seq(Value)
  <2>1. s \in Seq(Data) /\ Data \subseteq Value
    BY RawFieldAssumption DEF Value
  <2> QED BY <2>1
<1>3. disk \in DiskType /\ disk.tail = 0
  BY <1>1, <1>2, RawFieldAssumption DEF DiskType, Byte
<1>4. file \in FileType /\ CoherentFile(file)
  BY RawFieldAssumption DEF Init, FileType, Byte, CoherentFile
<1>5. prot \in BOOLEAN /\ ret \in RetType
  <2>1. Now \in StType
    BY <1>3, <1>4 DEF Now, StType
  <2> QED BY <2>1, NullReplyType DEF Init
<1> QED BY <1>3, <1>4, <1>5 DEF IInv, TypeOK

THEOREM Invariance == Spec => []IInv
  BY InitInv, NextInv, PTL DEF Spec

(* Type correctness: whatever fails and whatever callers pass, the file is a  *)
(* sequence of samples, the kernel's offset is never negative and every reply *)
(* is well formed.                                                            *)
THEOREM TypeCorrect == Spec => []TypeOK
  BY Invariance, PTL DEF IInv

(* The position cached by raw.c is where the descriptor stands (Coherent), in *)
(* every behaviour in which transfers stop between samples and no call works  *)
(* on samples before the start of the field.                                  *)
THEOREM CoherentAlways == ASSUME Gentle PROVE Spec => []Coherent
<1>1. IInv => Coherent
  BY DEF IInv, CoherentFile, Coherent, TypeOK, FileType
<1> QED BY <1>1, Invariance, PTL

-------------------------------------------------------------------------------
(* What the calls of RawField do to the samples: for any samples, frame       *)
(* offset, callers and failing system calls nothing but a write changes them  *)
(* (DiskSafe), and where the cached position can be trusted the calls         *)
(* implement the array of samples with an I/O pointer that is Field.          *)

(* A descriptor that lives is one the library knows of; and a file that could *)
(* not be opened has its mode recorded, and its position is the start, unless *)
(* the call was for samples before that.                                      *)
Steady(f) ==
  Gentle => /\ f.live => f.idata
            /\ ~f.idata /\ f.mode # {} => f.pos = 0

Fine(st) == Good(st) /\ Steady(st.file)

(* The pointer gd_tell would report of file f.                                *)
PointerOf(f) == IF f.idata THEN f.pos + FrameOffset ELSE FrameOffset

Kept(st, t) == t.disk.samples = st.disk.samples /\ t.disk.tail = st.disk.tail

-------------------------------------------------------------------------------
(* The steps of the codec.                                                    *)

LEMMA FailFine ==
  ASSUME NEW st, Fine(st)
  PROVE  /\ Fine(Fail(st)) /\ Kept(st, Fail(st)) /\ ~Fail(st).ok
         /\ Fail(st).at = st.at /\ Fail(st).data = st.data /\ Fail(st).file = st.file
<1>1. Good(Fail(st))
  BY FailGood DEF Fine
<1>2. Fail(st).file = st.file /\ Fail(st).disk = st.disk /\ ~Fail(st).ok
      /\ Fail(st).at = st.at /\ Fail(st).data = st.data
  BY DEF Fine, Good, StType, Fail
<1> QED BY <1>1, <1>2 DEF Fine, Kept

LEMMA OpenKeeps ==
  ASSUME NEW st, Fine(st), ~st.file.idata, NEW mode \in Mode,
         NEW t \in RawOpen(st, mode)
  PROVE  /\ Fine(t) /\ Kept(st, t) /\ t.at = st.at /\ t.data = st.data
         /\ Gentle => t.file.pos = 0
<1>1. Good(t)
  BY RawOpenGood DEF Fine
<1>2. CASE mode \in st.file.mode
  <2>1. t = st
    BY <1>2 DEF RawOpen
  <2>2. Gentle => st.file.pos = 0
    BY <1>2 DEF Fine, Steady
  <2> QED BY <2>1, <2>2 DEF Kept
<1>3. CASE mode \notin st.file.mode
  <2>1. PICK live \in BOOLEAN :
          t = [st EXCEPT !.file = [idata |-> live, live |-> live,
                                   mode  |-> {mode, "READ"}, pos |-> 0,
                                   off   |-> [s |-> 0, b |-> 0]],
                         !.disk.exists = @ \/ (live /\ mode = "WRITE"),
                         !.ok = live]
    BY <1>3 DEF RawOpen
  <2>2. /\ t.file = [idata |-> live, live |-> live, mode  |-> {mode, "READ"},
                     pos |-> 0, off |-> [s |-> 0, b |-> 0]]
        /\ t.disk = [st.disk EXCEPT !.exists = @ \/ (live /\ mode = "WRITE")]
        /\ t.at = st.at /\ t.data = st.data
    BY <2>1 DEF Fine, Good, StType
  <2>3. Kept(st, t)
    BY <2>2 DEF Fine, Good, StType, DiskType, Kept
  <2>4. Steady(t.file)
    BY <2>2 DEF Steady
  <2> QED BY <1>1, <2>2, <2>3, <2>4 DEF Fine
<1> QED BY <1>2, <1>3

LEMMA CloseKeeps ==
  ASSUME NEW st, Fine(st), NEW t \in RawClose(st)
  PROVE  /\ Fine(t) /\ Kept(st, t) /\ t.at = st.at /\ t.data = st.data
         /\ t.ok => ~t.file.idata
<1>1. Good(t)
  BY RawCloseGood DEF Fine
<1>2. CASE t = [st EXCEPT !.file.idata = FALSE, !.file.live = FALSE, !.file.mode = {}]
  <2>1. /\ t.file = [st.file EXCEPT !.idata = FALSE, !.live = FALSE, !.mode = {}]
        /\ t.disk = st.disk /\ t.at = st.at /\ t.data = st.data
    BY <1>2 DEF Fine, Good, StType
  <2>2. ~t.file.idata /\ ~t.file.live /\ t.file.mode = {}
    BY <2>1 DEF Fine, Good, StType, FileType
  <2> QED BY <1>1, <2>1, <2>2 DEF Fine, Steady, Kept
<1>3. CASE t = [st EXCEPT !.ok = FALSE, !.file.live = FALSE]
  <2>1. /\ t.file = [st.file EXCEPT !.live = FALSE] /\ ~t.ok
        /\ t.disk = st.disk /\ t.at = st.at /\ t.data = st.data
    BY <1>3 DEF Fine, Good, StType
  <2>2. /\ ~t.file.live /\ t.file.idata = st.file.idata
        /\ t.file.mode = st.file.mode /\ t.file.pos = st.file.pos
    BY <2>1 DEF Fine, Good, StType, FileType
  <2> QED BY <1>1, <2>1, <2>2 DEF Fine, Steady, Kept
<1> QED BY <1>2, <1>3 DEF RawClose

LEMMA SeekKeeps ==
  ASSUME NEW st, Fine(st), NEW count \in Nat, NEW t \in RawSeek(st, count)
  PROVE  /\ Fine(t) /\ Kept(st, t) /\ t.at = st.at /\ t.data = st.data
         /\ t.ok => t.file.pos = count
<1>1. Good(t)
  BY RawSeekGood DEF Fine
<1>2. CASE t = Fail(st)
  BY <1>2, FailFine
<1>3. CASE t = st /\ st.file.pos = count
  BY <1>3 DEF Kept
<1>4. CASE st.file.live
           /\ t = [st EXCEPT !.file.pos = count, !.file.off = [s |-> count, b |-> 0]]
  <2>1. /\ t.file = [idata |-> st.file.idata, live |-> st.file.live,
                     mode |-> st.file.mode, pos |-> count,
                     off |-> [s |-> count, b |-> 0]]
        /\ t.disk = st.disk /\ t.at = st.at /\ t.data = st.data
    BY <1>4 DEF Fine, Good, StType, FileType
  <2>2. Gentle => st.file.idata
    BY <1>4 DEF Fine, Steady
  <2>3. t.file.idata = st.file.idata /\ t.file.pos = count
    BY <2>1
  <2> QED BY <1>1, <2>1, <2>2, <2>3 DEF Fine, Steady, Kept
<1> QED BY <1>2, <1>3, <1>4 DEF RawSeek, FailOn

(* From a position that can be trusted, a read returns the samples there.     *)
LEMMA ReadGets ==
  ASSUME NEW st, Fine(st), Gentle => st.data = <<>>, NEW n \in Nat,
         NEW t \in RawRead(st, n)
  PROVE  /\ Fine(t) /\ Kept(st, t) /\ t.at = st.at
         /\ Gentle /\ t.ok =>
              /\ t.file.idata
              /\ t.data = Abstract!Slice(st.disk.samples, st.file.pos + FrameOffset, n)
              /\ t.file.pos = st.file.pos + Len(t.data)
<1>1. Good(t)
  BY RawReadGood DEF Fine
<1>2. CASE t = Fail(st)
  BY <1>2, FailFine
<1>3. CASE st.file.live /\ t # Fail(st)
  <2> DEFINE d   == st.disk
             o   == st.file.off
             got == SeqMin(n, Available(d, o))
             end == IF got = n THEN [s |-> o.s + n, b |-> o.b]
                    ELSE IF o.s > Len(d.samples)
                            \/ (o.s = Len(d.samples) /\ o.b > d.tail)
                    THEN o
                    ELSE [s |-> Len(d.samples), b |-> d.tail]
  <2>1. t = [st EXCEPT !.file.pos = @ + got, !.file.off = end,
                       !.data = @ \o ReadOut(d, o, got)]
    BY <1>3 DEF RawRead, FailOn
  <2>2. /\ t.file = [idata |-> st.file.idata, live |-> st.file.live,
                     mode |-> st.file.mode, pos |-> st.file.pos + got, off |-> end]
        /\ t.disk = st.disk /\ t.at = st.at
        /\ t.data = st.data \o ReadOut(d, o, got)
    BY <2>1 DEF Fine, Good, StType, FileType
  <2> HIDE DEF end
  <2>3. Steady(t.file) /\ (Gentle => t.file.idata)
    BY <1>3, <2>2 DEF Fine, Steady
  <2>4. d \in DiskType /\ o \in [s : Nat, b : Byte] /\ d.samples \in Seq(Value)
    BY DEF Fine, Good, StType, FileType, DiskType
  <2>5. got \in Nat /\ got <= Available(d, o)
    BY <2>4, AvailableNat DEF SeqMin
  <2>6. ReadOut(d, o, got) \in Seq(Value) /\ Len(ReadOut(d, o, got)) = got
    BY <2>4, <2>5, ReadOutType
  <2>7. ASSUME Gentle PROVE t.data = ReadOut(d, o, got)
    <3> DEFINE out == ReadOut(d, o, got)
    <3>0. st.data = <<>>
      BY <2>7
    <3>1. out \in Seq(Value) /\ t.data = st.data \o out
      BY <2>2, <2>6
    <3> HIDE DEF out
    <3>2. t.data = out
      BY <3>0, <3>1
    <3> QED BY <3>2 DEF out
  <2>8. ASSUME Gentle
        PROVE  t.data = Abstract!Slice(d.samples, st.file.pos + FrameOffset, n)
    <3>1. o.s = st.file.pos /\ o.b = 0 /\ d.tail = 0 /\ st.file.pos \in Nat
      BY <1>3, <2>4, <2>8 DEF Fine, Good, CoherentFile
    <3> DEFINE l == Len(d.samples)
               p == st.file.pos
               m == Abstract!Least(n, Abstract!Greatest(0, Abstract!Eof(d.samples)
                                                           - (p + FrameOffset)))
    <3>2. l \in Nat /\ p \in Nat /\ FrameOffset \in Nat
      BY <2>4, <3>1, RawFieldAssumption
    <3>3. got = m
      <4>1. Available(d, o) = IF l - p - 0 < 0 THEN 0 ELSE l - p - 0
        BY <3>1, <3>2 DEF Available
      <4>2. Abstract!Eof(d.samples) = FrameOffset + l
        BY DEF Abstract!Eof
      <4> HIDE DEF l, p
      <4> QED BY <3>2, <4>1, <4>2
            DEF SeqMin, Abstract!Least, Abstract!Greatest
    <3>4. ReadOut(d, o, got) = [i \in 1..got |-> d.samples[p + i]]
      BY <3>1 DEF ReadOut
    <3>5. \A i \in 1..got : Abstract!SampleAt(d.samples, (p + FrameOffset) + i - 1)
                              = d.samples[p + i]
      <4> SUFFICES ASSUME NEW i \in 1..got
                   PROVE  Abstract!SampleAt(d.samples, (p + FrameOffset) + i - 1)
                            = d.samples[p + i]
        OBVIOUS
      <4> DEFINE k == (p + FrameOffset) + i - 1
      <4>1. i \in Nat /\ i >= 1
        BY <2>5
      <4>2. ~(k < FrameOffset) /\ k - FrameOffset + 1 = p + i
        BY <3>2, <4>1
      <4>3. Abstract!SampleAt(d.samples, k) = d.samples[k - FrameOffset + 1]
        BY <4>2 DEF Abstract!SampleAt
      <4> QED BY <4>2, <4>3
    <3>6. Abstract!Slice(d.samples, p + FrameOffset, n)
            = [i \in 1..m |-> Abstract!SampleAt(d.samples, (p + FrameOffset) + i - 1)]
      BY DEF Abstract!Slice
    <3> HIDE DEF m, got, p
    <3> QED BY <2>7, <2>8, <3>3, <3>4, <3>5, <3>6 DEF p
  <2>9. Gentle => t.file.pos = st.file.pos + Len(t.data)
    <3>1. t.file.pos = st.file.pos + got
      BY <2>2
    <3>2. Gentle => Len(t.data) = got
      BY <2>6, <2>7
    <3> QED BY <3>1, <3>2
  <2> QED BY <1>1, <2>2, <2>3, <2>8, <2>9 DEF Fine, Kept
<1> QED BY <1>2, <1>3 DEF RawRead, FailOn

(* A write never shortens the file; from a position that can be trusted it    *)
(* lays the samples it counts over the array.                                 *)
LEMMA WriteInOverlays ==
  ASSUME NEW d \in DiskType, NEW p \in Nat, d.tail = 0, NEW vals \in Seq(Value),
         NEW whole \in 0..Len(vals)
  PROVE  LET o == [s |-> p, b |-> 0]
         IN WriteIn(d, o, vals, whole, 0).samples
              = Abstract!Overlay(d.samples, p + FrameOffset, SubSeq(vals, 1, whole))
<1> DEFINE o == [s |-> p, b |-> 0]
           s == d.samples
           l == Len(s)
           e == p + whole
           v == SubSeq(vals, 1, whole)
           after == WriteIn(d, o, vals, whole, 0)
           Cell(i) ==
             IF i < p
             THEN IF i < l THEN s[i + 1] ELSE Zero
             ELSE IF i < e
             THEN vals[i - p + 1]
             ELSE s[i + 1]
           First == (p + FrameOffset) - FrameOffset
           Over(i) == IF i > First /\ i <= First + Len(v) THEN v[i - First]
                      ELSE IF i <= Len(s) THEN s[i] ELSE Zero
<1>1. s \in Seq(Value) /\ l \in Nat /\ whole \in Nat /\ e \in Nat
      /\ FrameOffset \in Nat /\ Size \in Nat \ {0}
  BY RawFieldAssumption DEF DiskType
<1>2. v \in Seq(Value) /\ Len(v) = whole /\ \A i \in 1..whole : v[i] = vals[i]
  <2> HIDE DEF e
  <2> QED BY <1>1
<1>3. after.samples = [i \in 1..SeqMax(l, e) |-> Cell(i - 1)]
  <2>1. ~(0 + 0 >= Size)
    BY <1>1
  <2>2. o.s = p /\ o.b = 0
    OBVIOUS
  <2> DEFINE over == o.b + 0 >= Size
             endS == o.s + whole + (IF over THEN 1 ELSE 0)
             endB == IF over THEN o.b + 0 - Size ELSE o.b + 0
             Old(i) ==
               IF i < o.s
               THEN IF i < l THEN d.samples[i + 1]
                    ELSE IF i = l /\ d.tail > 0 THEN Torn ELSE Zero
               ELSE IF i < endS
               THEN IF o.b = 0 THEN vals[i - o.s + 1] ELSE Torn
               ELSE IF i = endS /\ endB > 0 THEN Torn ELSE d.samples[i + 1]
             cells == [i \in 1..SeqMax(l, endS) |-> Old(i - 1)]
             tail == IF endS > l THEN endB
                     ELSE IF endS = l THEN SeqMax(d.tail, endB) ELSE d.tail
  <2>3. after = [d EXCEPT !.samples = cells, !.tail = tail]
    BY DEF WriteIn
  <2>4. after.samples = cells
    <3> HIDE DEF cells, tail, after
    <3> QED BY <2>3 DEF DiskType
  <2>5. ~over /\ endS = e /\ endB = 0
    BY <1>1, <2>1, <2>2
  <2>6. \A i : Old(i) = Cell(i)
    BY <2>2, <2>5, <1>1
  <2>7. cells = [i \in 1..SeqMax(l, e) |-> Cell(i - 1)]
    <3> HIDE DEF Old, Cell, endS, e
    <3> QED BY <2>5, <2>6
  <2> QED BY <2>4, <2>7
<1>4. Abstract!Overlay(s, p + FrameOffset, v)
        = [i \in 1..Abstract!Greatest(Len(s), First + Len(v)) |-> Over(i)]
  BY DEF Abstract!Overlay
<1>5. First = p /\ First + Len(v) = e
  BY <1>1, <1>2
<1>6. Abstract!Greatest(Len(s), First + Len(v)) = SeqMax(l, e)
  BY <1>5 DEF Abstract!Greatest, SeqMax
<1>7. ASSUME NEW i \in 1..SeqMax(l, e)
      PROVE  Cell(i - 1) = Over(i)
  <2>1. i \in Nat /\ i >= 1 /\ (i <= l \/ i <= e) /\ (i - 1) + 1 = i
    <3> HIDE DEF l, e
    <3> QED BY <1>1 DEF SeqMax
  <2>2. Over(i) = IF i > p /\ i <= e THEN v[i - p] ELSE IF i <= l THEN s[i] ELSE Zero
    <3> HIDE DEF First, e, v, s
    <3> QED BY <1>5
  <2>3. CASE i - 1 < p
    <3>1. ~(i > p)
      BY <2>1, <2>3
    <3>2. i - 1 < l <=> i <= l
      BY <1>1, <2>1
    <3> QED BY <2>1, <2>2, <2>3, <3>1, <3>2
  <2>4. CASE ~(i - 1 < p) /\ i - 1 < e
    <3>1. i > p /\ i <= e /\ (i - 1) - p + 1 = i - p /\ i - p \in 1..whole
      BY <1>1, <2>1, <2>4
    <3> HIDE DEF e, v
    <3> QED BY <1>2, <2>2, <2>4, <3>1
  <2>5. CASE ~(i - 1 < p) /\ ~(i - 1 < e)
    <3>1. ~(i <= e) /\ i <= l
      BY <1>1, <2>1, <2>5
    <3> QED BY <2>1, <2>2, <2>5, <3>1
  <2> QED BY <2>3, <2>4, <2>5
<1> DEFINE m == SeqMax(l, e)
           big == Abstract!Overlay(s, p + FrameOffset, v)
<1>8. [i \in 1..m |-> Cell(i - 1)] = [i \in 1..m |-> Over(i)]
  <2> HIDE DEF Cell, Over, m
  <2>1. \A i \in 1..m : Cell(i - 1) = Over(i)
    BY <1>7 DEF m
  <2> QED BY <2>1
<1>9. big = [i \in 1..m |-> Over(i)]
  <2> HIDE DEF Over
  <2> QED BY <1>4, <1>6
<1> HIDE DEF Cell, Over, m, big, after
<1>10. after.samples = big
  BY <1>3, <1>8, <1>9 DEF m
<1> QED BY <1>10 DEF after, big

LEMMA WriteInGrows ==
  ASSUME NEW d \in DiskType, NEW o \in [s : Nat, b : Byte],
         NEW vals \in Seq(Value), NEW whole \in 0..Len(vals), NEW part \in Byte
  PROVE  Len(WriteIn(d, o, vals, whole, part).samples) >= Len(d.samples)
<1> DEFINE len  == Len(d.samples)
           over == o.b + part >= Size
           endS == o.s + whole + (IF over THEN 1 ELSE 0)
           endB == IF over THEN o.b + part - Size ELSE o.b + part
           Cell(i) ==
             IF i < o.s
             THEN IF i < len THEN d.samples[i + 1]
                  ELSE IF i = len /\ d.tail > 0 THEN Torn ELSE Zero
             ELSE IF i < endS
             THEN IF o.b = 0 THEN vals[i - o.s + 1] ELSE Torn
             ELSE IF i = endS /\ endB > 0 THEN Torn ELSE d.samples[i + 1]
           cells == [i \in 1..SeqMax(len, endS) |-> Cell(i - 1)]
           tail  == IF endS > len THEN endB
                    ELSE IF endS = len THEN SeqMax(d.tail, endB)
                    ELSE d.tail
           after == WriteIn(d, o, vals, whole, part)
<1>1. len \in Nat /\ endS \in Nat
  BY DEF DiskType
<1>2. after = [d EXCEPT !.samples = cells, !.tail = tail]
  BY DEF WriteIn
<1>3. SeqMax(len, endS) \in Nat /\ SeqMax(len, endS) >= len
  <2> HIDE DEF len, endS
  <2> QED BY <1>1 DEF SeqMax
<1>4. Len(cells) = SeqMax(len, endS)
  <2> HIDE DEF Cell, len, endS
  <2> QED BY <1>3
<1>5. after.samples = cells
  <2> HIDE DEF cells, tail, after
  <2> QED BY <1>2 DEF DiskType
<1> HIDE DEF cells, after, len, endS
<1> QED BY <1>3, <1>4, <1>5 DEF after, len

LEMMA WriteDoes ==
  ASSUME NEW st, Fine(st), NEW vals \in Seq(Value), Len(vals) > 0,
         NEW t \in RawWrite(st, vals)
  PROVE  /\ Fine(t) /\ t.at = st.at /\ (~t.ok /\ st.ok => Kept(st, t))
         /\ Len(t.disk.samples) >= Len(st.disk.samples)
         /\ Gentle /\ t.ok =>
              /\ t.file.idata /\ Len(t.data) > 0
              /\ t.disk.samples
                   = Abstract!Overlay(st.disk.samples, st.file.pos + FrameOffset, t.data)
              /\ t.file.pos = st.file.pos + Len(t.data)
<1>1. Good(t)
  BY RawWriteGood DEF Fine
<1>2. CASE t = Fail(st)
  BY <1>2, FailFine DEF Kept, Fine, Good, StType, DiskType
<1>3. CASE st.file.live /\ t # Fail(st)
  <2> DEFINE o == st.file.off
             d == st.disk
             p == st.file.pos
             over(w) == o.b + w[2] >= Size
             end(w) == [s |-> o.s + w[1] + (IF over(w) THEN 1 ELSE 0),
                        b |-> IF over(w) THEN o.b + w[2] - Size ELSE o.b + w[2]]
             after(w) == [st EXCEPT !.disk = WriteIn(@, o, vals, w[1], w[2]),
                                    !.file.pos = @ + w[1],
                                    !.file.off = end(w),
                                    !.data = SubSeq(vals, 1, w[1])]
  <2>1. PICK w \in Written(Len(vals)) : t = after(w)
    BY <1>3 DEF RawWrite, FailOn
  <2> DEFINE n == w[1]
             b == w[2]
             e == end(w)
             v == SubSeq(vals, 1, n)
             a == WriteIn(d, o, vals, n, b)
  <2>2. n \in 0..Len(vals) /\ b \in Byte /\ (Gentle => b = 0 /\ n > 0)
    BY WrittenType, RawFieldAssumption DEF Written, Byte, Gentle
  <2>3. /\ t.file = [idata |-> st.file.idata, live |-> st.file.live,
                     mode |-> st.file.mode, pos |-> p + n, off |-> e]
        /\ t.disk = a /\ t.data = v /\ t.at = st.at /\ t.ok = st.ok
    BY <2>1 DEF Fine, Good, StType, FileType
  <2> HIDE DEF n, b, e
  <2>4. (Gentle => t.file.idata) /\ Steady(t.file) /\ t.file.pos = p + n
    <3>1. Gentle => st.file.idata
      BY <1>3 DEF Fine, Steady
    <3> QED BY <2>3, <3>1 DEF Steady
  <2>5. d \in DiskType /\ o \in [s : Nat, b : Byte]
    BY DEF Fine, Good, StType, FileType
  <2>6. Len(a.samples) >= Len(d.samples)
    BY <2>2, <2>5, WriteInGrows
  <2>7. ASSUME Gentle
        PROVE  /\ a.samples = Abstract!Overlay(d.samples, p + FrameOffset, v)
               /\ Len(v) = n /\ n > 0
    <3>1. o.s = p /\ o.b = 0 /\ d.tail = 0 /\ p \in Nat
      BY <1>3, <2>5, <2>7 DEF Fine, Good, CoherentFile
    <3>2. o = [s |-> p, b |-> 0]
      BY <2>5, <3>1
    <3>3. a = WriteIn(d, [s |-> p, b |-> 0], vals, n, 0)
      BY <2>2, <2>7, <3>2
    <3>4. WriteIn(d, [s |-> p, b |-> 0], vals, n, 0).samples
            = Abstract!Overlay(d.samples, p + FrameOffset, v)
      <4> HIDE DEF p, d
      <4> QED BY <2>2, <2>5, <3>1, WriteInOverlays
    <3>5. Len(v) = n
      BY <2>2
    <3> QED BY <2>2, <2>7, <3>3, <3>4, <3>5
  <2> HIDE DEF a, v
  <2> QED BY <1>1, <2>3, <2>4, <2>6, <2>7 DEF Fine
<1> QED BY <1>2, <1>3 DEF RawWrite, FailOn

-------------------------------------------------------------------------------
(* The layer above the codec.                                                 *)

LEMMA InitKeeps ==
  ASSUME NEW st, Fine(st), NEW mode \in Mode, NEW t \in InitRawIO(st, mode)
  PROVE  /\ Fine(t) /\ Kept(st, t) /\ t.at = st.at /\ t.data = st.data
         /\ st.file.idata /\ mode = "READ" => t = st
         /\ Gentle /\ t.ok /\ ~st.file.idata => t.file.pos = 0
<1> DEFINE S == IF st.file.idata /\ mode = "WRITE" THEN FiniRawIO(st) ELSE {st}
<1>1. CASE st.file.idata /\ mode \in st.file.mode
  BY <1>1 DEF InitRawIO, Kept
<1>2. CASE ~(st.file.idata /\ mode \in st.file.mode)
  <2>1. PICK s \in S : \/ ~s.ok /\ t = s
                       \/ s.ok /\ s.file.idata /\ t = s
                       \/ s.ok /\ ~s.file.idata /\ t \in RawOpen(s, mode)
    BY <1>2 DEF InitRawIO, Then
  <2>2. /\ Fine(s) /\ Kept(st, s) /\ s.at = st.at /\ s.data = st.data
        /\ s.ok /\ s.file.idata => s = st
        /\ ~st.file.idata \/ mode = "READ" => s = st
    <3>1. CASE st.file.idata /\ mode = "WRITE"
      <4>1. s \in RawClose(st)
        BY <3>1 DEF FiniRawIO
      <4> QED BY <3>1, <4>1, CloseKeeps
    <3>2. CASE ~(st.file.idata /\ mode = "WRITE")
      BY <3>2 DEF Kept
    <3> QED BY <3>1, <3>2
  <2>3. CASE ~s.ok /\ t = s
    BY <2>2, <2>3
  <2>4. CASE s.ok /\ s.file.idata /\ t = s
    BY <2>2, <2>4
  <2>5. CASE s.ok /\ ~s.file.idata /\ t \in RawOpen(s, mode)
    <3>1. /\ Fine(t) /\ Kept(s, t) /\ t.at = s.at /\ t.data = s.data
          /\ Gentle => t.file.pos = 0
      BY <2>2, <2>5, OpenKeeps
    <3> QED BY <2>2, <2>5, <3>1 DEF Kept
  <2> QED BY <2>1, <2>3, <2>4, <2>5
<1> QED BY <1>1, <1>2

LEMMA FilePosKeeps ==
  ASSUME NEW st, Fine(st), NEW t \in GetFilePos(st)
  PROVE  /\ Fine(t) /\ Kept(st, t) /\ t.data = st.data
         /\ Gentle /\ t.ok => t.at = PointerOf(t.file) /\ t.at = PointerOf(st.file)
<1> DEFINE S == IF st.file.idata THEN {st} ELSE InitRawIO(st, "READ")
           Told(s) == [s EXCEPT !.at = s.file.pos + FrameOffset]
<1>1. PICK s \in S : (~s.ok /\ t = s) \/ (s.ok /\ t = Told(s))
  BY DEF GetFilePos, Then
<1>2. /\ Fine(s) /\ Kept(st, s) /\ s.data = st.data
      /\ st.file.idata => s = st
      /\ Gentle /\ s.ok /\ ~st.file.idata => s.file.pos = 0
  <2>1. CASE st.file.idata
    BY <2>1 DEF Kept
  <2>2. CASE ~st.file.idata
    BY <2>2, InitKeeps DEF Mode
  <2> QED BY <2>1, <2>2
<1>3. CASE s.ok /\ t = Told(s)
  <2> DEFINE at == s.file.pos + FrameOffset
  <2>1. at \in Int /\ FrameOffset \in Int
    BY <1>2, RawFieldAssumption DEF Fine, Good, StType, FileType
  <2>2. /\ t.file = s.file /\ t.disk = s.disk /\ t.ok = s.ok /\ t.data = s.data
        /\ t.at = at
    BY <1>2, <1>3 DEF Fine, Good, StType
  <2>3. Good(t)
    BY <1>2, <1>3, <2>1, <2>2 DEF Fine, Good, StType
  <2>4. CASE st.file.idata
    BY <1>2, <2>2, <2>3, <2>4 DEF Fine, Kept, PointerOf
  <2>5. CASE ~st.file.idata
    <3>1. Gentle => at = FrameOffset
      BY <1>2, <1>3, <2>1, <2>5
    <3> QED BY <1>2, <2>2, <2>3, <2>5, <3>1 DEF Fine, Kept, PointerOf
  <2> QED BY <2>4, <2>5
<1> QED BY <1>1, <1>2, <1>3

(* Before the start of the file there is only padding; the position is moved  *)
(* up to the start.                                                           *)
LEMMA DoRawGets ==
  ASSUME NEW st, Fine(st), st.data = <<>>, NEW s0 \in Int, NEW n \in Nat \ {0},
         Gentle => s0 >= FrameOffset, NEW t \in DoRaw(st, s0, n)
  PROVE  /\ Fine(t) /\ Kept(st, t) /\ t.at = st.at
         /\ Gentle /\ t.ok =>
              /\ t.data = Abstract!Slice(st.disk.samples, s0, n)
              /\ PointerOf(t.file) = s0 + Len(t.data)
<1> DEFINE before == FrameOffset - s0
           padded == IF before <= 0 THEN 0 ELSE SeqMin(before, n)
           st1 == IF padded = 0 THEN st
                  ELSE [st EXCEPT !.file.pos = s0 + padded - FrameOffset,
                                  !.data = Pad(padded)]
           first == IF before > 0 THEN 0 ELSE s0 - FrameOffset
           opened == InitRawIO(st1, "READ")
           sought == Then(opened, LAMBDA s : RawSeek(s, first))
<1>0. Good(t)
  BY DoRawGood DEF Fine
<1>1. /\ padded \in Nat /\ n - padded \in Nat /\ first \in Nat
      /\ Gentle => padded = 0 /\ first = s0 - FrameOffset
  BY RawFieldAssumption DEF SeqMin
<1>2. Fine(st1) /\ Kept(st, st1) /\ st1.at = st.at /\ (Gentle => st1 = st)
  <2>1. CASE padded = 0
    BY <2>1 DEF Kept
  <2>2. CASE padded # 0
    <3> DEFINE pos == s0 + padded - FrameOffset
               data == Pad(padded)
    <3>1. ~Gentle
      BY <1>1, <2>2
    <3>2. pos \in Int
      <4> HIDE DEF padded
      <4> QED BY <1>1, RawFieldAssumption
    <3>3. data \in Seq(Value)
      <4> HIDE DEF padded
      <4> QED BY <1>1 DEF Pad, Value
    <3>4. st1 = [st EXCEPT !.file.pos = pos, !.data = data]
      BY <2>2
    <3> HIDE DEF pos, data, st1
    <3>5. /\ st1.file = [idata |-> st.file.idata, live |-> st.file.live,
                         mode |-> st.file.mode, pos |-> pos, off |-> st.file.off]
          /\ st1.disk = st.disk /\ st1.at = st.at /\ st1.data = data
          /\ st1 = [st EXCEPT !.file = st1.file, !.data = data]
      BY <3>4 DEF Fine, Good, StType, FileType
    <3>6. st1.file \in FileType
      BY <3>2, <3>5 DEF Fine, Good, StType, FileType
    <3>7. st1 \in StType
      BY <3>3, <3>5, <3>6 DEF Fine, Good, StType
    <3> QED BY <3>1, <3>5, <3>7 DEF Fine, Good, Steady, Kept
  <2> QED BY <2>1, <2>2
<1>3. \/ t = st1 /\ padded = n
      \/ t \in Then(sought, LAMBDA s : RawRead(s, n - padded))
  BY DEF DoRaw
<1> DEFINE m == n - padded
<1>4. CASE t = st1 /\ padded = n
  <2> HIDE DEF padded, st1
  <2> QED BY <1>1, <1>2, <1>4
<1>5. CASE t \in Then(sought, LAMBDA s : RawRead(s, m))
  <2> HIDE DEF padded, st1, first
  <2>1. ASSUME NEW s \in sought
        PROVE  /\ Fine(s) /\ Kept(st, s) /\ s.at = st.at
               /\ Gentle => s.data = <<>>
               /\ s.ok => s.file.pos = first
    <3>1. PICK o \in opened : (~o.ok /\ s = o) \/ (o.ok /\ s \in RawSeek(o, first))
      BY DEF Then
    <3>2. Fine(o) /\ Kept(st1, o) /\ o.at = st.at /\ o.data = st1.data
      BY <1>2, InitKeeps DEF Mode
    <3>3. CASE o.ok /\ s \in RawSeek(o, first)
      <4> HIDE DEF opened, sought
      <4>1. /\ Fine(s) /\ Kept(o, s) /\ s.at = o.at /\ s.data = o.data
            /\ s.ok => s.file.pos = first
        BY <1>1, <3>2, <3>3, SeekKeeps
      <4> QED BY <1>2, <3>2, <4>1 DEF Kept
    <3> QED BY <1>2, <3>1, <3>2, <3>3 DEF Kept
  <2>2. PICK s \in sought : (~s.ok /\ t = s) \/ (s.ok /\ t \in RawRead(s, m))
    <3> HIDE DEF sought, m
    <3> QED BY <1>5 DEF Then
  <2> HIDE DEF sought
  <2>3. CASE ~s.ok /\ t = s
    BY <2>1, <2>3
  <2>4. CASE s.ok /\ t \in RawRead(s, m)
    <3>1. Fine(s) /\ Kept(st, s) /\ s.at = st.at /\ s.file.pos = first
          /\ (Gentle => s.data = <<>>)
      BY <2>1, <2>4
    <3>2. /\ Fine(t) /\ Kept(s, t) /\ t.at = s.at
          /\ Gentle /\ t.ok =>
               /\ t.file.idata
               /\ t.data = Abstract!Slice(s.disk.samples, s.file.pos + FrameOffset, m)
               /\ t.file.pos = s.file.pos + Len(t.data)
      <4>1. m \in Nat
        BY <1>1
      <4> HIDE DEF m
      <4> QED BY <2>4, <3>1, <4>1, ReadGets
    <3>3. ASSUME Gentle, t.ok
          PROVE  /\ t.data = Abstract!Slice(st.disk.samples, s0, n)
                 /\ PointerOf(t.file) = s0 + Len(t.data)
      <4>1. first + FrameOffset = s0 /\ m = n
        BY <1>1, <3>3, RawFieldAssumption
      <4>2. Len(t.data) \in Nat /\ first \in Nat /\ FrameOffset \in Nat
        BY <1>0, <1>1, RawFieldAssumption DEF Good, StType
      <4> HIDE DEF m
      <4>3. PointerOf(t.file) = first + Len(t.data) + FrameOffset
        BY <3>1, <3>2, <3>3 DEF PointerOf
      <4>4. PointerOf(t.file) = s0 + Len(t.data)
        BY <4>1, <4>2, <4>3
      <4> QED BY <3>1, <3>2, <3>3, <4>1, <4>4 DEF Kept
    <3> QED BY <3>1, <3>2, <3>3 DEF Kept
  <2> QED BY <2>2, <2>3, <2>4
<1> QED BY <1>3, <1>4, <1>5

LEMMA DoRawOutPuts ==
  ASSUME NEW st, Fine(st), st.ok, NEW s0 \in Int, NEW vals \in Seq(Value),
         Len(vals) > 0, NEW t \in DoRawOut(st, s0, vals)
  PROVE  /\ Fine(t) /\ t.at = st.at /\ (prot \/ ~t.ok => Kept(st, t))
         /\ prot => ~t.ok
         /\ Len(t.disk.samples) >= Len(st.disk.samples)
         /\ Gentle /\ t.ok =>
              /\ s0 >= FrameOffset /\ Len(t.data) > 0
              /\ t.disk.samples = Abstract!Overlay(st.disk.samples, s0, t.data)
              /\ PointerOf(t.file) = s0 + Len(t.data)
<1> DEFINE p == s0 - FrameOffset
           opened == InitRawIO(st, "WRITE")
           sought == Then(opened, LAMBDA s : RawSeek(s, p))
<1>0. Len(st.disk.samples) >= Len(st.disk.samples)
  BY DEF Fine, Good, StType, DiskType
<1>1. CASE prot \/ s0 < FrameOffset
  <2>1. t = Fail(st)
    BY <1>1 DEF DoRawOut
  <2> QED BY <1>0, <2>1, FailFine DEF Kept
<1>2. CASE ~(prot \/ s0 < FrameOffset)
  <2>1. p \in Nat /\ p + FrameOffset = s0 /\ s0 >= FrameOffset
    BY <1>2, RawFieldAssumption
  <2>2. t \in Then(sought, LAMBDA s : RawWrite(s, vals))
    BY <1>2 DEF DoRawOut
  <2>3. ASSUME NEW s \in sought
        PROVE  /\ Fine(s) /\ Kept(st, s) /\ s.at = st.at
               /\ s.ok => s.file.pos = p
    <3>1. PICK o \in opened : (~o.ok /\ s = o) \/ (o.ok /\ s \in RawSeek(o, p))
      BY DEF Then
    <3>2. Fine(o) /\ Kept(st, o) /\ o.at = st.at
      BY InitKeeps DEF Mode
    <3>3. CASE o.ok /\ s \in RawSeek(o, p)
      <4> HIDE DEF p, opened, sought
      <4>1. /\ Fine(s) /\ Kept(o, s) /\ s.at = o.at
            /\ s.ok => s.file.pos = p
        BY <2>1, <3>2, <3>3, SeekKeeps
      <4> QED BY <3>2, <4>1 DEF Kept
    <3> QED BY <3>1, <3>2, <3>3
  <2> HIDE DEF sought
  <2>4. PICK s \in sought : (~s.ok /\ t = s) \/ (s.ok /\ t \in RawWrite(s, vals))
    BY <2>2 DEF Then
  <2>5. CASE ~s.ok /\ t = s
    BY <1>0, <2>3, <2>5, <1>2 DEF Kept
  <2>6. CASE s.ok /\ t \in RawWrite(s, vals)
    <3>1. Fine(s) /\ Kept(st, s) /\ s.at = st.at /\ s.file.pos = p
      BY <2>3, <2>6
    <3>2. /\ Fine(t) /\ t.at = s.at /\ (~t.ok /\ s.ok => Kept(s, t))
          /\ Len(t.disk.samples) >= Len(s.disk.samples)
          /\ Gentle /\ t.ok =>
               /\ t.file.idata /\ Len(t.data) > 0
               /\ t.disk.samples
                    = Abstract!Overlay(s.disk.samples, s.file.pos + FrameOffset, t.data)
               /\ t.file.pos = s.file.pos + Len(t.data)
      BY <2>6, <3>1, WriteDoes
    <3> HIDE DEF p
    <3>3. ASSUME Gentle, t.ok PROVE PointerOf(t.file) = s0 + Len(t.data)
      <4>1. Len(t.data) \in Nat /\ FrameOffset \in Nat
        BY <3>2, RawFieldAssumption DEF Fine, Good, StType
      <4>2. PointerOf(t.file) = p + Len(t.data) + FrameOffset
        BY <3>1, <3>2, <3>3 DEF PointerOf
      <4> QED BY <2>1, <4>1, <4>2
    <3> QED BY <1>2, <2>1, <2>6, <3>1, <3>2, <3>3 DEF Kept
  <2> QED BY <2>4, <2>5, <2>6
<1> QED BY <1>1, <1>2

LEMMA SeekToKeeps ==
  ASSUME NEW st, Fine(st), NEW target \in Int, NEW mode \in Mode,
         Gentle => target >= FrameOffset, NEW t \in SeekTo(st, target, mode)
  PROVE  Fine(t) /\ Kept(st, t)
<1>0. Good(t)
  BY SeekToGood DEF Fine
<1>1. PICK s \in InitRawIO(st, mode) :
        \/ ~s.ok /\ t = s
        \/ FrameOffset > target /\ t = [s EXCEPT !.file.pos = target - FrameOffset]
        \/ ~(FrameOffset > target) /\ t \in RawSeek(s, target - FrameOffset)
  BY DEF SeekTo, Then
<1>2. Fine(s) /\ Kept(st, s)
  BY InitKeeps
<1>3. CASE FrameOffset > target /\ t = [s EXCEPT !.file.pos = target - FrameOffset]
  <2>1. ~Gentle
    BY <1>3, RawFieldAssumption
  <2>2. t.disk = s.disk
    BY <1>2, <1>3 DEF Fine, Good, StType
  <2> QED BY <1>0, <1>2, <2>1, <2>2 DEF Fine, Steady, Kept
<1>4. CASE ~(FrameOffset > target) /\ t \in RawSeek(s, target - FrameOffset)
  <2>1. target - FrameOffset \in Nat
    BY <1>4, RawFieldAssumption
  <2>2. Fine(t) /\ Kept(s, t)
    BY <1>2, <1>4, <2>1, SeekKeeps
  <2> QED BY <1>2, <2>2 DEF Kept
<1> QED BY <1>1, <1>2, <1>3, <1>4

LEMMA OriginKeeps ==
  ASSUME NEW st, Fine(st), NEW whence \in {"SET", "CUR", "END"},
         NEW t \in Origin(st, whence)
  PROVE  Fine(t) /\ Kept(st, t)
<1>0. Good(t)
  BY OriginGood DEF Fine
<1>1. CASE t = st
  BY <1>1 DEF Kept
<1>2. CASE t \in GetFilePos(st)
  BY <1>2, FilePosKeeps
<1>3. CASE t = Fail(st)
  BY <1>3, FailFine
<1>4. CASE t = [st EXCEPT !.at = Len(st.disk.samples) + FrameOffset]
  <2>1. t.disk = st.disk /\ t.file = st.file
    BY <1>4 DEF Fine, Good, StType
  <2> QED BY <1>0, <2>1 DEF Fine, Kept
<1> QED BY <1>1, <1>2, <1>3, <1>4 DEF Origin

-------------------------------------------------------------------------------
(* The calls: what they leave of the invariant, what they may do to the       *)
(* samples, and which step of Field they are.                                 *)

IInv2 == IInv /\ Steady(file)

Safe ==
  /\ Len(disk'.samples) >= Len(disk.samples)
  /\ (ret'.op \notin {"put", "produce"} \/ (ret'.op = "put" /\ prot)) =>
       disk'.samples = disk.samples /\ disk'.tail = disk.tail

Sound == IInv2' /\ Safe /\ (Gentle => Abstract!Next)

LEMMA NowFine ==
  ASSUME IInv2
  PROVE  /\ Fine(Now) /\ Now.ok /\ Now.data = <<>> /\ Now.disk = disk
         /\ Now.file = file /\ Pointer = PointerOf(Now.file)
         /\ Len(disk.samples) \in Nat
<1>1. Good(Now)
  BY NowGood DEF IInv2
<1>2. Now.ok /\ Now.data = <<>> /\ Now.disk = disk /\ Now.file = file
  BY DEF Now
<1> QED BY <1>1, <1>2 DEF IInv2, Fine, Pointer, PointerOf, IInv, TypeOK, DiskType

LEMMA Finished ==
  ASSUME NEW t, NEW op, NEW at \in Int, NEW n \in Nat, NEW here \in BOOLEAN,
         op \in {"get", "put", "seek", "tell", "flush"},
         IInv2, Fine(t), Finish(op, at, n, here, t)
  PROVE  /\ IInv2' /\ Pointer' = PointerOf(t.file) /\ disk' = t.disk
         /\ ret'.op = op /\ ret'.at = at /\ ret'.n = n /\ ret'.here = here
         /\ ret'.err = ~t.ok /\ ret'.data = (IF t.ok THEN t.data ELSE <<>>)
<1>1. IInv'
  BY FinishInv DEF IInv2, Fine
<1>2. file' = t.file /\ disk' = t.disk /\ ret' = Reply(op, at, n, here, t)
  BY DEF Finish
<1>3. Pointer' = PointerOf(t.file)
  BY <1>2 DEF Pointer, PointerOf
<1>4. Steady(file)'
  BY <1>2 DEF Fine, Steady
<1> QED BY <1>1, <1>2, <1>3, <1>4 DEF IInv2, Reply

LEMMA ErrorMaps ==
  ASSUME ret'.err, disk'.samples = disk.samples PROVE Abstract!Next
BY DEF Abstract!Next, Abstract!Error

(* Any call but a write that ends in t.                                       *)
LEMMA KeptSafe ==
  ASSUME NEW t, NEW op, NEW at \in Int, NEW n \in Nat, NEW here \in BOOLEAN,
         op \in {"get", "put", "seek", "tell", "flush"},
         IInv2, Fine(t), Finish(op, at, n, here, t), Kept(Now, t)
  PROVE  IInv2' /\ Safe /\ (~t.ok => Abstract!Next)
<1>1. /\ IInv2' /\ disk' = t.disk /\ ret'.err = ~t.ok
  BY Finished
<1>2. disk'.samples = disk.samples /\ disk'.tail = disk.tail
      /\ Len(disk.samples) \in Nat
  BY <1>1, NowFine DEF Kept
<1>3. Safe
  BY <1>2 DEF Safe
<1> QED BY <1>1, <1>2, <1>3, ErrorMaps

LEMMA GetMaps ==
  ASSUME NEW t, NEW at \in Int, NEW n \in Nat, NEW here \in BOOLEAN,
         IInv2, Fine(t), Finish("get", at, n, here, t), Kept(Now, t), t.ok,
         t.data = Abstract!Slice(disk.samples, at, n),
         PointerOf(t.file) = at + Len(t.data),
         here => at = Pointer
  PROVE  Abstract!Next
<1>1. /\ Pointer' = at + Len(t.data) /\ disk' = t.disk
      /\ ret'.op = "get" /\ ret'.at = at /\ ret'.n = n /\ ret'.here = here
      /\ ret'.err = FALSE /\ ret'.data = t.data
  <2>1. PICK op \in {"get"} : op = "get" /\ Finish(op, at, n, here, t)
    OBVIOUS
  <2>2. op \in {"get", "put", "seek", "tell", "flush"}
    BY <2>1
  <2>3. /\ Pointer' = PointerOf(t.file) /\ disk' = t.disk
        /\ ret'.op = op /\ ret'.at = at /\ ret'.n = n /\ ret'.here = here
        /\ ret'.err = ~t.ok /\ ret'.data = (IF t.ok THEN t.data ELSE <<>>)
    BY <2>1, <2>2, Finished
  <2> QED BY <2>1, <2>3
<1>2. disk'.samples = disk.samples
  BY <1>1, NowFine DEF Kept
<1>3. Abstract!Get
  BY <1>1, <1>2 DEF Abstract!Get, Abstract!Succeeds
<1>4. here => Abstract!GetHere
  BY <1>1, <1>3 DEF Abstract!GetHere
<1> QED BY <1>1, <1>3, <1>4 DEF Abstract!Next

LEMMA GetDataSound ==
  ASSUME IInv2, NEW s0 \in Low..High, NEW n \in Counts, GetData(s0, n)
  PROVE  Sound
<1>1. s0 \in Int /\ n \in Nat \ {0} /\ (Gentle => s0 >= FrameOffset)
  BY RawFieldAssumption DEF Counts, Gentle
<1>2. PICK t \in DoRaw(Now, s0, n) : Finish("get", s0, n, FALSE, t)
  BY DEF GetData
<1>3. /\ Fine(t) /\ Kept(Now, t)
      /\ Gentle /\ t.ok =>
           /\ t.data = Abstract!Slice(disk.samples, s0, n)
           /\ PointerOf(t.file) = s0 + Len(t.data)
  BY <1>1, NowFine, DoRawGets
<1>4. IInv2' /\ Safe /\ (~t.ok => Abstract!Next)
  BY <1>1, <1>2, <1>3, KeptSafe
<1>5. Gentle /\ t.ok => Abstract!Next
  BY <1>1, <1>2, <1>3, GetMaps
<1> QED BY <1>4, <1>5 DEF Sound

LEMMA GetHereSound ==
  ASSUME IInv2, NEW n \in Counts, GetHere(n)
  PROVE  Sound
<1>1. n \in Nat \ {0}
  BY RawFieldAssumption DEF Counts
<1>2. PICK t \in Then(GetFilePos(Now), LAMBDA s : DoRaw(s, s.at, n)) :
        Finish("get", t.at, n, TRUE, t)
  BY DEF GetHere
<1>3. PICK s \in GetFilePos(Now) : (~s.ok /\ t = s) \/ (s.ok /\ t \in DoRaw(s, s.at, n))
  BY <1>2 DEF Then
<1>4. /\ Fine(s) /\ Kept(Now, s) /\ s.data = <<>>
      /\ Gentle /\ s.ok => s.at = Pointer
  BY NowFine, FilePosKeeps
<1>5. s.at \in Int
  BY <1>4 DEF Fine, Good, StType
<1>6. CASE ~s.ok /\ t = s
  <2>1. IInv2' /\ Safe /\ Abstract!Next
    BY <1>1, <1>2, <1>4, <1>5, <1>6, KeptSafe
  <2> QED BY <2>1 DEF Sound
<1>7. CASE s.ok /\ t \in DoRaw(s, s.at, n)
  <2>1. Gentle => s.at >= FrameOffset
    BY <1>3, <1>7, NowGood, FilePosGood DEF IInv2
  <2>2. /\ Fine(t) /\ Kept(s, t) /\ t.at = s.at
        /\ Gentle /\ t.ok =>
             /\ t.data = Abstract!Slice(s.disk.samples, s.at, n)
             /\ PointerOf(t.file) = s.at + Len(t.data)
    BY <1>1, <1>4, <1>5, <1>7, <2>1, DoRawGets
  <2>3. Kept(Now, t) /\ s.disk.samples = disk.samples
    BY <1>4, <2>2, NowFine DEF Kept
  <2>4. IInv2' /\ Safe /\ (~t.ok => Abstract!Next)
    BY <1>1, <1>2, <1>5, <2>2, <2>3, KeptSafe
  <2>5. Gentle /\ t.ok => Abstract!Next
    BY <1>1, <1>2, <1>4, <1>5, <1>7, <2>2, <2>3, GetMaps
  <2> QED BY <2>4, <2>5 DEF Sound
<1> QED BY <1>3, <1>6, <1>7

(* A write, from the state st that a look-up of the position left, if any.    *)
LEMMA PutSound ==
  ASSUME IInv2, NEW st, Fine(st), st.ok, Kept(Now, st), NEW s0 \in Int,
         NEW vals \in Seq(Value), Len(vals) > 0, NEW t \in DoRawOut(st, s0, vals),
         NEW here \in BOOLEAN, Gentle /\ here => s0 = Pointer,
         Finish("put", s0, Len(vals), here, t)
  PROVE  Sound
<1>1. /\ Fine(t) /\ t.at = st.at /\ (prot \/ ~t.ok => Kept(st, t))
      /\ prot => ~t.ok
      /\ Len(t.disk.samples) >= Len(st.disk.samples)
      /\ Gentle /\ t.ok =>
           /\ s0 >= FrameOffset /\ Len(t.data) > 0
           /\ t.disk.samples = Abstract!Overlay(st.disk.samples, s0, t.data)
           /\ PointerOf(t.file) = s0 + Len(t.data)
  BY DoRawOutPuts
<1>2. Len(vals) \in Nat
  OBVIOUS
<1>3. /\ IInv2' /\ Pointer' = PointerOf(t.file) /\ disk' = t.disk
      /\ ret'.op = "put" /\ ret'.at = s0 /\ ret'.here = here
      /\ ret'.err = ~t.ok /\ ret'.data = (IF t.ok THEN t.data ELSE <<>>)
  BY <1>1, <1>2, Finished
<1>4. st.disk.samples = disk.samples /\ st.disk.tail = disk.tail
  BY NowFine DEF Kept
<1>5. Safe
  BY <1>1, <1>3, <1>4 DEF Safe, Kept
<1>6. CASE ~t.ok
  <2>1. disk'.samples = disk.samples /\ ret'.err
    BY <1>1, <1>3, <1>4, <1>6 DEF Kept
  <2> QED BY <1>3, <1>5, <2>1, ErrorMaps DEF Sound
<1>7. CASE Gentle /\ t.ok
  <2>1. Abstract!Put
    BY <1>1, <1>3, <1>4, <1>7 DEF Abstract!Put, Abstract!Succeeds
  <2>2. here => Abstract!PutHere
    BY <1>3, <1>7, <2>1 DEF Abstract!PutHere
  <2>3. Abstract!Next
    BY <1>3, <2>1, <2>2 DEF Abstract!Next
  <2> QED BY <1>3, <1>5, <2>3 DEF Sound
<1> QED BY <1>3, <1>5, <1>6, <1>7 DEF Sound

LEMMA RefusedSound ==
  ASSUME IInv2, NEW t, Fine(t), Kept(Now, t), ~t.ok, NEW at \in Int, NEW n \in Nat,
         NEW here \in BOOLEAN, Finish("put", at, n, here, t)
  PROVE  Sound
BY KeptSafe DEF Sound

LEMMA PutDataSound ==
  ASSUME IInv2, NEW s0 \in Int, NEW vals \in Seq(Value), Len(vals) > 0,
         PutData(s0, vals)
  PROVE  Sound
<1>1. PICK t \in IF AccMode = "RDWR" THEN DoRawOut(Now, s0, vals) ELSE {Fail(Now)} :
        Finish("put", s0, Len(vals), FALSE, t)
  BY DEF PutData
<1>2. Len(vals) \in Nat /\ Kept(Now, Now)
  BY DEF Kept
<1>3. CASE AccMode = "RDWR"
  BY <1>1, <1>2, <1>3, NowFine, PutSound
<1>4. CASE AccMode # "RDWR"
  BY <1>1, <1>2, <1>4, NowFine, FailFine, RefusedSound
<1> QED BY <1>3, <1>4

LEMMA PutHereSound ==
  ASSUME IInv2, NEW vals \in Seq(Value), Len(vals) > 0, PutHere(vals)
  PROVE  Sound
<1>1. PICK t \in IF AccMode = "RDWR"
                 THEN Then(GetFilePos(Now), LAMBDA s : DoRawOut(s, s.at, vals))
                 ELSE {Fail(Now)} :
        Finish("put", t.at, Len(vals), TRUE, t)
  BY DEF PutHere
<1>2. Len(vals) \in Nat
  OBVIOUS
<1>3. CASE AccMode # "RDWR"
  <2>1. t = Fail(Now) /\ Fine(t) /\ Kept(Now, t) /\ ~t.ok
    BY <1>1, <1>3, NowFine, FailFine
  <2>2. t.at \in Int
    BY <2>1 DEF Fine, Good, StType
  <2> QED BY <1>1, <1>2, <2>1, <2>2, RefusedSound
<1>4. CASE AccMode = "RDWR"
  <2>1. PICK s \in GetFilePos(Now) : \/ ~s.ok /\ t = s
                                     \/ s.ok /\ t \in DoRawOut(s, s.at, vals)
    BY <1>1, <1>4 DEF Then
  <2>2. /\ Fine(s) /\ Kept(Now, s)
        /\ Gentle /\ s.ok => s.at = Pointer
    BY NowFine, FilePosKeeps
  <2>3. s.at \in Int
    BY <2>2 DEF Fine, Good, StType
  <2>4. CASE ~s.ok /\ t = s
    BY <1>1, <1>2, <2>2, <2>3, <2>4, RefusedSound
  <2>5. CASE s.ok /\ t \in DoRawOut(s, s.at, vals)
    <3>1. t.at = s.at
      BY <2>2, <2>3, <2>5, DoRawOutPuts
    <3>2. Finish("put", s.at, Len(vals), TRUE, t)
      BY <1>1, <3>1
    <3> QED BY <2>2, <2>3, <2>5, <3>2, PutSound
  <2> QED BY <2>1, <2>4, <2>5
<1> QED BY <1>3, <1>4

LEMMA TellMaps ==
  ASSUME IInv2, NEW t, Fine(t), Kept(Now, t), NEW at \in Int, t.ok,
         at = PointerOf(t.file),
         \/ Finish("seek", at, 0, FALSE, t)
         \/ at = Pointer /\ Finish("tell", at, 0, FALSE, t)
  PROVE  Abstract!Next
<1>1. PICK op \in {"seek", "tell"} :
        Finish(op, at, 0, FALSE, t) /\ (op = "tell" => at = Pointer)
  OBVIOUS
<1>2. 0 \in Nat
  OBVIOUS
<1>3. /\ Pointer' = at /\ disk' = t.disk /\ ret'.op = op /\ ret'.at = at
      /\ ret'.err = FALSE
  BY <1>1, <1>2, Finished
<1>4. disk'.samples = disk.samples
  BY <1>3, NowFine DEF Kept
<1>5. CASE op = "seek"
  <2>1. Abstract!Seek
    BY <1>3, <1>4, <1>5 DEF Abstract!Seek, Abstract!Succeeds
  <2> QED BY <2>1 DEF Abstract!Next
<1>6. CASE op = "tell"
  <2>1. Abstract!Tell
    BY <1>1, <1>3, <1>4, <1>6 DEF Abstract!Tell, Abstract!Succeeds
  <2> QED BY <2>1 DEF Abstract!Next
<1> QED BY <1>5, <1>6

LEMMA RangeBound ==
  ASSUME NEW i \in Low..High
  PROVE  i \in Int /\ (Gentle => i >= FrameOffset)
BY RawFieldAssumption DEF Gentle

LEMMA SeekSound ==
  ASSUME IInv2, NEW n \in Int, NEW whence \in {"SET", "CUR", "END"},
         NEW mode \in Mode, Seek(n, whence, mode)
  PROVE  Sound
<1> DEFINE Move(s) == IF s.at + n \in Low..High
                      THEN SeekTo(s, s.at + n, mode) ELSE {}
           S == Then(Origin(Now, whence), Move)
<1>1. PICK t \in Then(S, GetFilePos) : Finish("seek", t.at, 0, FALSE, t)
  BY DEF Seek
<1>2. ASSUME NEW s \in S PROVE Fine(s) /\ Kept(Now, s)
  <2>1. PICK o \in Origin(Now, whence) :
          \/ ~o.ok /\ s = o
          \/ o.at + n \in Low..High /\ s \in SeekTo(o, o.at + n, mode)
    BY DEF Then
  <2>2. Fine(o) /\ Kept(Now, o)
    BY NowFine, OriginKeeps
  <2>3. CASE o.at + n \in Low..High /\ s \in SeekTo(o, o.at + n, mode)
    <3> DEFINE target == o.at + n
    <3>1. target \in Int /\ (Gentle => target >= FrameOffset)
      BY <2>3, RangeBound
    <3>2. s \in SeekTo(o, target, mode)
      BY <2>3
    <3> HIDE DEF target
    <3>3. Fine(s) /\ Kept(o, s)
      BY <2>2, <3>1, <3>2, SeekToKeeps
    <3> QED BY <2>2, <3>3 DEF Kept
  <2> QED BY <2>1, <2>2, <2>3
<1>3. PICK s \in S : (~s.ok /\ t = s) \/ (s.ok /\ t \in GetFilePos(s))
  BY <1>1 DEF Then
<1> HIDE DEF S
<1>4. /\ Fine(t) /\ Kept(Now, t) /\ (Gentle /\ t.ok => t.at = PointerOf(t.file))
  <2>1. Fine(s) /\ Kept(Now, s)
    BY <1>2
  <2>2. CASE ~s.ok /\ t = s
    BY <2>1, <2>2
  <2>3. CASE s.ok /\ t \in GetFilePos(s)
    BY <2>1, <2>3, FilePosKeeps DEF Kept
  <2> QED BY <1>3, <2>2, <2>3
<1>5. t.at \in Int /\ 0 \in Nat
  BY <1>4 DEF Fine, Good, StType
<1>6. IInv2' /\ Safe /\ (~t.ok => Abstract!Next)
  BY <1>1, <1>4, <1>5, KeptSafe
<1>7. Gentle /\ t.ok => Abstract!Next
  BY <1>1, <1>4, <1>5, TellMaps
<1> QED BY <1>6, <1>7 DEF Sound

LEMMA TellSound ==
  ASSUME IInv2, Tell
  PROVE  Sound
<1>1. PICK t \in GetFilePos(Now) : Finish("tell", t.at, 0, FALSE, t)
  BY DEF Tell
<1>2. /\ Fine(t) /\ Kept(Now, t)
      /\ Gentle /\ t.ok => t.at = PointerOf(t.file) /\ t.at = Pointer
  BY NowFine, FilePosKeeps
<1>3. t.at \in Int /\ 0 \in Nat
  BY <1>2 DEF Fine, Good, StType
<1>4. IInv2' /\ Safe /\ (~t.ok => Abstract!Next)
  BY <1>1, <1>2, <1>3, KeptSafe
<1>5. Gentle /\ t.ok => Abstract!Next
  BY <1>1, <1>2, <1>3, TellMaps
<1> QED BY <1>4, <1>5 DEF Sound

LEMMA FlushSound ==
  ASSUME IInv2, NEW syn \in BOOLEAN, NEW clo \in BOOLEAN, Flush(syn, clo)
  PROVE  Sound
<1> DEFINE synced == IF /\ syn /\ file.idata /\ AccMode = "RDWR"
                        /\ "WRITE" \in file.mode
                     THEN FailOn("fsync", Now)
                          \cup {IF file.live THEN Now ELSE Fail(Now)}
                     ELSE {Now}
<1>1. PICK t \in Then(synced, LAMBDA s : IF clo THEN FiniRawIO(s) ELSE {s}) :
        Finish("flush", 0, 0, FALSE, t)
  BY DEF Flush
<1>2. ASSUME NEW s \in synced
      PROVE  Fine(s) /\ Kept(Now, s) /\ s.file = file
  <2>1. s = Now \/ s = Fail(Now)
    BY DEF FailOn
  <2> QED BY <2>1, NowFine, FailFine DEF Kept
<1> HIDE DEF synced
<1>3. PICK s \in synced : \/ t = s
                          \/ s.file.idata /\ t \in RawClose(s)
  BY <1>1 DEF Then, FiniRawIO
<1>4. Fine(s) /\ Kept(Now, s) /\ s.file = file
  BY <1>2
<1>5. /\ Fine(t) /\ Kept(Now, t)
      /\ t.ok => PointerOf(t.file) \in {Pointer, FrameOffset}
  <2>1. CASE t = s
    BY <1>4, <2>1 DEF Pointer, PointerOf
  <2>2. CASE t \in RawClose(s)
    <3>1. /\ Fine(t) /\ Kept(s, t) /\ (t.ok => ~t.file.idata)
      BY <1>4, <2>2, CloseKeeps
    <3> QED BY <1>4, <3>1 DEF Kept, PointerOf
  <2> QED BY <1>3, <2>1, <2>2
<1>6. 0 \in Int /\ 0 \in Nat
  BY ZeroType
<1>7. IInv2' /\ Safe /\ (~t.ok => Abstract!Next)
  BY <1>1, <1>5, <1>6, KeptSafe
<1>8. ASSUME t.ok PROVE Abstract!Next
  <2>1. /\ Pointer' = PointerOf(t.file) /\ disk' = t.disk /\ ret'.op = "flush"
        /\ ret'.err = FALSE
    BY <1>1, <1>5, <1>6, <1>8, Finished
  <2>2. disk'.samples = disk.samples
    BY <1>5, <2>1, NowFine DEF Kept
  <2>3. Abstract!Flush
    BY <1>5, <1>8, <2>1, <2>2 DEF Abstract!Flush, Abstract!Succeeds
  <2> QED BY <2>3 DEF Abstract!Next
<1> QED BY <1>7, <1>8 DEF Sound

LEMMA ProtectSound ==
  ASSUME IInv2, IInv', AlterProtection
  PROVE  Sound
<1>1. UNCHANGED <<disk, file>> /\ ret'.op = "protect"
  BY DEF AlterProtection, Reply
<1>2. IInv2'
  BY <1>1 DEF IInv2, Steady
<1>3. Safe
  BY <1>1, NowFine DEF Safe
<1>4. Abstract!Next
  BY <1>1 DEF Abstract!Next, Pointer
<1> QED BY <1>2, <1>3, <1>4 DEF Sound

LEMMA ProduceSound ==
  ASSUME IInv2, IInv', NEW v \in Data, Produce(v)
  PROVE  Sound
<1>1. /\ disk \in DiskType /\ disk.samples \in Seq(Value) /\ v \in Value
      /\ Gentle => disk.tail = 0
  BY DEF IInv2, IInv, TypeOK, DiskType, Value
<1>2. file' = file /\ ret'.op = "produce"
  BY DEF Produce, Reply
<1>3. \/ disk'.samples = Append(disk.samples, v)
      \/ /\ disk'.samples = disk.samples
         /\ "bytes" \in Producer /\ disk.tail + 1 # Size
  BY <1>1 DEF Produce, DiskType
<1>4. Gentle => disk'.samples = Append(disk.samples, v)
  <2>1. Gentle /\ "bytes" \in Producer => Size = 1
    BY DEF Gentle
  <2> QED BY <1>1, <1>3, <2>1
<1>5. /\ Len(Append(disk.samples, v)) = Len(disk.samples) + 1
      /\ Append(disk.samples, v)[Len(disk.samples) + 1] = v
      /\ Len(disk.samples) \in Nat
  BY <1>1
<1>6. Safe
  BY <1>2, <1>3, <1>5 DEF Safe
<1>7. ASSUME Gentle PROVE Abstract!Next
  <2>1. Pointer' = Pointer
    BY <1>2 DEF Pointer
  <2>2. disk'.samples[Len(disk'.samples)] = v
    BY <1>4, <1>5, <1>7
  <2>3. Abstract!Extend
    BY <1>2, <1>4, <1>7, <2>1, <2>2 DEF Abstract!Extend
  <2> QED BY <2>3 DEF Abstract!Next
<1>8. IInv2'
  BY <1>2 DEF IInv2, Steady
<1> QED BY <1>6, <1>7, <1>8 DEF Sound

LEMMA NextSound ==
  ASSUME IInv2, Next
  PROVE  Sound
<1>0. IInv'
  BY NextInv DEF IInv2
<1>1. CASE \E s0 \in Low..High, n \in Counts : GetData(s0, n)
  BY <1>1, GetDataSound
<1>2. CASE \E n \in Counts : GetHere(n)
  BY <1>2, GetHereSound
<1>3. ASSUME NEW n \in Counts, NEW v \in Data
      PROVE  [i \in 1..n |-> v] \in Seq(Value) /\ Len([i \in 1..n |-> v]) > 0
  <2>1. n \in Nat /\ n > 0 /\ v \in Value
    BY RawFieldAssumption DEF Counts, Value
  <2> QED BY <2>1
<1>4. CASE \E s0 \in (Low - 1)..High, n \in Counts, v \in Data :
             PutData(s0, [i \in 1..n |-> v])
  <2>1. PICK s0 \in (Low - 1)..High, n \in Counts, v \in Data :
          PutData(s0, [i \in 1..n |-> v])
    BY <1>4
  <2> DEFINE vals == [i \in 1..n |-> v]
  <2>2. vals \in Seq(Value) /\ Len(vals) > 0 /\ PutData(s0, vals)
    BY <1>3, <2>1
  <2>3. s0 \in Int
    BY <2>1, RawFieldAssumption
  <2> HIDE DEF vals
  <2> QED BY <2>2, <2>3, PutDataSound
<1>5. CASE \E n \in Counts, v \in Data : PutHere([i \in 1..n |-> v])
  <2>1. PICK n \in Counts, v \in Data : PutHere([i \in 1..n |-> v])
    BY <1>5
  <2> DEFINE vals == [i \in 1..n |-> v]
  <2>2. vals \in Seq(Value) /\ Len(vals) > 0 /\ PutHere(vals)
    BY <1>3, <2>1
  <2> HIDE DEF vals
  <2> QED BY <2>2, PutHereSound
<1>6. CASE \E n \in (Low - High)..High, whence \in {"SET", "CUR", "END"},
              mode \in Mode : Seek(n, whence, mode)
  BY <1>6, SeekSound, RawFieldAssumption
<1>7. CASE Tell
  BY <1>7, TellSound
<1>8. CASE \E syn, clo \in BOOLEAN : (syn \/ clo) /\ Flush(syn, clo)
  BY <1>8, FlushSound
<1>9. CASE AlterProtection
  BY <1>0, <1>9, ProtectSound
<1>10. CASE \E v \in Data : Produce(v)
  BY <1>0, <1>10, ProduceSound
<1> QED BY <1>1, <1>2, <1>4, <1>5, <1>6, <1>7, <1>8, <1>9, <1>10 DEF Next

LEMMA SteadyInv == Spec => []IInv2
<1>1. Init => IInv2
  BY InitInv DEF Init, IInv2, Steady
<1>2. IInv2 /\ [Next]_vars => IInv2'
  <2>1. ASSUME IInv2, Next PROVE IInv2'
    BY <2>1, NextSound DEF Sound
  <2>2. ASSUME IInv2, UNCHANGED vars PROVE IInv2'
    <3>1. IInv'
      BY <2>2, NextInv DEF IInv2
    <3>2. file' = file
      BY <2>2 DEF vars
    <3> QED BY <2>2, <3>1, <3>2 DEF IInv2, Steady
  <2> QED BY <2>1, <2>2
<1> QED BY <1>1, <1>2, PTL DEF Spec

-------------------------------------------------------------------------------
(* Whatever fails, whatever callers pass and whatever is appended meanwhile,  *)
(* the file never gets shorter, and nothing but a write to an unprotected     *)
(* fragment and the outside program changes its samples or the bytes behind   *)
(* them (_GD_DoRaw, _GD_DoRawOut, _GD_InitRawIO, _GD_FiniRawIO, raw.c).       *)
THEOREM DiskSafeHolds == Spec => DiskSafe
<1>1. IInv2 /\ [Next]_vars => [Safe]_vars
  BY NextSound DEF Sound
<1>2. IInv2 /\ [Next]_vars =>
        [/\ Len(disk'.samples) >= Len(disk.samples)
         /\ (ret'.op \notin {"put", "produce"} \/ (ret'.op = "put" /\ prot)) =>
              disk'.samples = disk.samples /\ disk'.tail = disk.tail]_vars
  BY <1>1 DEF Safe
<1> QED BY <1>2, SteadyInv, PTL DEF Spec, DiskSafe

(* As long as transfers stop between samples and calls stay behind the start  *)
(* of the field, the calls of an unencoded field are those of an array of     *)
(* samples with an I/O pointer (ImplementsField): reads return what was last  *)
(* written where they read, writes change what they say they wrote and leave  *)
(* the pointer behind it, GD_HERE continues at the pointer, and an error      *)
(* changes no sample (raw.c, fpos.c, getdata.c, putdata.c, flush.c).          *)
THEOREM Refinement == ASSUME Gentle PROVE Spec => ImplementsField
<1>1. Init => Abstract!Init
  BY DEF Init, Abstract!Init, Pointer, Reply
<1>2. IInv2 /\ [Next]_vars => [Abstract!Next]_<<disk.samples, Pointer, ret>>
  <2>1. ASSUME IInv2, Next PROVE Abstract!Next
    BY <2>1, NextSound DEF Sound
  <2>2. ASSUME UNCHANGED vars PROVE UNCHANGED <<disk.samples, Pointer, ret>>
    BY <2>2 DEF vars, Pointer
  <2> QED BY <2>1, <2>2
<1> QED BY <1>1, <1>2, SteadyInv, PTL DEF Spec, ImplementsField, Abstract!Spec
===============================================================================
