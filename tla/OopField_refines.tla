---------------------------- MODULE OopField_refines ----------------------------
(* Where nothing fails, of a field whose file is there, and of callers that   *)
(* are careful, the calls of OopField implement the array of samples with an  *)
(* I/O pointer that is Field.                                                 *)
EXTENDS OopField_proofs

NoneFail == Faults = {}
Existing == <<>> \notin InitFiles

RW == {"READ", "WRITE"}

(* Between two calls the field is not being written, or it is: what has been  *)
(* written ends at the position of the named file, which zlib follows there   *)
(* as far as the file goes.                                                   *)
Follows(st) == st.r.at = Fewer(st.r.pos, Len(st.named.samples))
Quiet(st) ==
  /\ ~st.w.idata /\ st.w.name = "NULL" /\ "WRITE" \notin st.r.mode
  /\ st.r.idata => Follows(st)
Busy(st) ==
  /\ st.w = [idata |-> TRUE, live |-> TRUE, name |-> "temp", full |-> FALSE,
             at |-> Len(st.temp)]
  /\ st.r.idata /\ st.r.mode = RW /\ st.r.pos = Len(st.temp) /\ Follows(st)
Calm(st) ==
  /\ Good(st) /\ st.run = "ok" /\ st.end = "ok" /\ st.named.exists
  /\ Quiet(st) \/ Busy(st)

PointerOf(st) == IF st.r.idata THEN st.r.pos ELSE 0

-------------------------------------------------------------------------------
(* The steps of a call.                                                       *)

LEMMA NoFault == ASSUME NoneFail, NEW call PROVE May(call) = {FALSE}
BY DEF NoneFail, May

LEMMA OpenNamedGives ==
  ASSUME NoneFail, NEW st, st \in StType, st.named.exists, NEW mode,
         NEW t \in OpenNamed(st, mode)
  PROVE  /\ t.r = [idata |-> TRUE, mode |-> mode, pos |-> 0, at |-> 0]
         /\ t.named = st.named /\ t.temp = st.temp /\ t.w = st.w
         /\ t.run = st.run /\ t.end = st.end
<1>1. t = [st EXCEPT !.r = [idata |-> TRUE, mode |-> mode, pos |-> 0, at |-> 0]]
  BY NoFault DEF OpenNamed
<1> QED BY <1>1 DEF StType

LEMMA WriteTempGives ==
  ASSUME NoneFail, NEW st, Good(st), ~st.w.full, NEW vals \in Seq(Value),
         NEW t \in WriteTemp(st, vals)
  PROVE  /\ Good(t) /\ t.named = st.named /\ t.r = st.r /\ t.run = st.run
         /\ t.end = st.end /\ t.data = vals /\ t.temp = Padded(st) \o vals
         /\ t.w = [idata |-> st.w.idata, live |-> st.w.live, name |-> st.w.name,
                   full |-> FALSE, at |-> st.w.at + Len(vals)]
<1>1. t = [st EXCEPT !.temp = Padded(st) \o vals, !.w.at = @ + Len(vals),
                     !.data = vals]
  BY NoFault DEF WriteTemp
<1>2. Good(t) /\ t.named = st.named /\ t.r = st.r /\ t.run = st.run /\ t.end = st.end
  BY WriteTempIs
<1>3. t.temp = Padded(st) \o vals /\ t.data = vals
  BY <1>1 DEF Good, StType
<1>4. t.w = [idata |-> st.w.idata, live |-> st.w.live, name |-> st.w.name,
             full |-> FALSE, at |-> st.w.at + Len(vals)]
  BY <1>1 DEF Good, StType, WriteType
<1> QED BY <1>2, <1>3, <1>4

(* What a busy field holds.                                                   *)
LEMMA BusyHolds ==
  ASSUME NEW st, Good(st), Busy(st)
  PROVE  /\ Padded(st) = st.temp
         /\ Held(st) = st.temp \o From(st.named.samples, st.r.at)
         /\ st.r.pos <= Len(Held(st))
<1>1. Padded(st) = st.temp
  BY PaddedIs DEF Good, Busy, StType
<1>2. Written(st) /\ st.r.idata
  BY DEF Busy, Written, RW
<1>3. Held(st) = st.temp \o From(st.named.samples, st.r.at)
  BY <1>1, <1>2 DEF Held, Rest
<1>4. /\ st.temp \in Seq(Value)
      /\ From(st.named.samples, st.r.at) \in Seq(Value)
  BY FromIs DEF Good, StType, NamedType, ReadType
<1>5. Len(Held(st)) >= Len(st.temp)
  <2> DEFINE a == st.temp
             b == From(st.named.samples, st.r.at)
  <2>1. a \in Seq(Value) /\ b \in Seq(Value)
    BY <1>4
  <2> HIDE DEF a, b
  <2>2. Len(a \o b) = Len(a) + Len(b) /\ Len(a) \in Nat /\ Len(b) \in Nat
    BY <2>1
  <2>3. Len(a \o b) >= Len(a)
    BY <2>2
  <2> QED BY <1>3, <2>3 DEF a, b
<1>6. st.r.pos = Len(st.temp)
  BY DEF Busy
<1> QED BY <1>1, <1>3, <1>5, <1>6

LEMMA QuietHolds ==
  ASSUME NEW st, Quiet(st)
  PROVE  Held(st) = st.named.samples /\ ~Written(st)
BY DEF Quiet, Held, Written

(* Closing the field makes what it holds the named file.                      *)
LEMMA FiniGives ==
  ASSUME NoneFail, NEW st, Calm(st), NEW t \in Fini(st)
  PROVE  /\ Calm(t) /\ Quiet(t) /\ ~t.r.idata
         /\ t.named = [exists |-> TRUE, samples |-> Held(st)]
<1>0. /\ Good(st) /\ Defined(st) /\ st.end = "ok" /\ st.named.exists /\ st.run = "ok"
      /\ st \in StType
  BY DEF Calm, Quiet, Busy, Defined, Good
<1>1. CASE Quiet(st)
  <2>1. t = CloseNamed(st)
    BY <1>0, <1>1 DEF Fini, Quiet
  <2>2. /\ t.named = st.named /\ t.w = st.w /\ t.run = st.run /\ t.end = st.end
        /\ ~t.r.idata /\ t.r.mode = (IF st.r.idata THEN {} ELSE st.r.mode)
    BY <1>0, <2>1, CloseNamedIs
  <2>3. Good(t)
    BY <1>0, FiniIs
  <2>4. Quiet(t)
    BY <1>1, <2>2 DEF Quiet
  <2>5. st.named = [exists |-> TRUE, samples |-> Held(st)]
    BY <1>0, <1>1, QuietHolds DEF StType, NamedType
  <2> QED BY <1>0, <2>2, <2>3, <2>4, <2>5 DEF Calm
<1>2. CASE Busy(st)
  <2> DEFINE copied == CopyRest(st)
             shut == Then(copied, CloseTemp)
             done == {IF s.end = "ok" THEN CloseNamed(s) ELSE s : s \in shut}
  <2>1. t \in Then(done, MoveOver) /\ Written(st)
    BY <1>2 DEF Fini, Busy, Written, RW
  <2>2. ASSUME NEW c \in copied
        PROVE  Good(c) /\ c.end = "ok" /\ c.run = "ok" /\ c.w.idata /\ ~c.w.full
               /\ c.w.name = "temp" /\ c.r.idata
    <3> DEFINE rest == From(st.named.samples, st.r.at)
               read == [st EXCEPT !.r.at = Len(st.named.samples), !.r.pos = @ + Len(rest)]
    <3>1. /\ Good(c)
          /\ \/ /\ c.end = "ok" /\ c.run = "ok" /\ c.w.idata
                /\ c.w.name = st.w.name /\ c.r.idata = st.r.idata
             \/ c.end = "error"
      BY <1>0, <2>1, CopyRestIs
    <3>2. ASSUME NEW u, u \in WriteTemp(read, rest) PROVE ~u.w.full
      <4>1. ~read.w.full
        BY <1>0, <1>2 DEF Busy, StType
      <4> HIDE DEF rest, read
      <4>2. u = [read EXCEPT !.temp = Padded(read) \o rest, !.w.at = @ + Len(rest),
                             !.data = rest]
        BY <3>2, <4>1, NoFault DEF WriteTemp
      <4>3. read.w \in WriteType /\ "w" \in DOMAIN read
        BY <1>0 DEF StType, read
      <4> QED BY <4>1, <4>2, <4>3 DEF WriteType
    <3> HIDE DEF read, rest
    <3>3. c = st \/ \E u \in WriteTemp(read, rest) :
                       c = IF u.w.full THEN [Stop(u, "error") EXCEPT !.run = "looping"] ELSE u
      BY DEF CopyRest, read, rest
    <3>4. CASE c = st
      BY <1>0, <1>2, <3>1, <3>4 DEF Busy
    <3>5. CASE c # st
      <4>1. PICK u \in WriteTemp(read, rest) : c = u
        BY <3>2, <3>3, <3>5
      <4>2. u.end = st.end
        <5>1. read.end = st.end
          BY <1>0 DEF read, StType
        <5>2. \E fails \in BOOLEAN :
                u = IF fails THEN [read EXCEPT !.w.full = TRUE, !.data = <<>>]
                    ELSE [read EXCEPT !.temp = Padded(read) \o rest, !.w.at = @ + Len(rest),
                                      !.data = rest]
          BY NoFault DEF WriteTemp
        <5>3. "end" \in DOMAIN read
          BY <1>0 DEF read, StType
        <5> QED BY <5>1, <5>2, <5>3
      <4>3. st.w.name = "temp" /\ st.r.idata
        BY <1>2 DEF Busy
      <4>4. ~c.w.full /\ c.end = "ok"
        BY <1>0, <3>2, <4>1, <4>2
      <4> QED BY <3>1, <4>3, <4>4
    <3> QED BY <3>4, <3>5
  <2>3. ASSUME NEW s \in shut
        PROVE  /\ s \in StType /\ s.named = st.named /\ s.end = "ok" /\ s.run = "ok"
               /\ ~s.w.idata /\ s.temp = Held(st) /\ s.w.name = "temp"
               /\ s.r.idata
    <3>1. PICK c \in copied :
            (c.end # "ok" /\ s = c) \/ (c.end = "ok" /\ s \in CloseTemp(c))
      BY DEF Then
    <3>2. /\ Good(c) /\ c.end = "ok" /\ c.run = "ok" /\ c.w.idata /\ ~c.w.full
          /\ c.w.name = "temp" /\ c.r.idata /\ c.named = st.named /\ Padded(c) = Held(st)
      BY <1>0, <2>1, <2>2, CopyRestIs
    <3>3. s \in CloseTemp(c)
      BY <3>1, <3>2
    <3>4. s = [c EXCEPT !.temp = Padded(c), !.w.idata = FALSE, !.w.live = FALSE,
                        !.w.full = FALSE]
      BY <3>2, <3>3, NoFault DEF CloseTemp
    <3>5. s.end = c.end
      BY <3>2, <3>4 DEF Good, StType
    <3>6. /\ s \in StType /\ s.named = c.named /\ s.run = c.run
          /\ s.temp = Padded(c) /\ ~s.w.idata /\ s.w.name = c.w.name
          /\ s.r = c.r
      BY <3>2, <3>3, <3>5, CloseTempIs
    <3> QED BY <3>2, <3>5, <3>6
  <2> HIDE DEF copied, shut
  <2>4. PICK s \in shut : t \in MoveOver(CloseNamed(s))
    <3>1. \A s \in shut : s.end = "ok" /\ CloseNamed(s).end = "ok"
      BY <2>3, CloseNamedIs
    <3> QED BY <2>1, <3>1 DEF Then
  <2> DEFINE c == CloseNamed(s)
  <2>5. /\ c \in StType /\ c.named = st.named /\ c.temp = Held(st) /\ c.w.name = "temp"
        /\ ~c.w.idata /\ c.run = "ok" /\ c.end = "ok" /\ ~c.r.idata
        /\ c.r.mode = {}
    BY <2>3, CloseNamedIs
  <2> HIDE DEF c
  <2>6. t = [c EXCEPT !.named = [exists |-> TRUE, samples |-> c.temp],
                      !.temp = <<>>, !.w.name = "NULL"]
    BY <2>4, <2>5, NoFault DEF MoveOver, c
  <2>7. t.end = "ok" /\ t.run = "ok" /\ t.r = c.r
        /\ t.named = [exists |-> TRUE, samples |-> Held(st)]
        /\ t.w = [idata |-> FALSE, live |-> c.w.live, name |-> "NULL",
                  full |-> c.w.full, at |-> c.w.at]
    BY <2>5, <2>6 DEF StType, WriteType
  <2>8. Good(t) /\ ~Written(t) /\ ~t.r.idata
    BY <1>0, <2>7, FiniIs
  <2> QED BY <2>5, <2>7, <2>8 DEF Calm, Quiet
<1> QED BY <1>1, <1>2 DEF Calm
-------------------------------------------------------------------------------
(* Opening it to write.                                                       *)
Fresh(st, C) ==
  /\ Good(st) /\ st.run = "ok" /\ st.end = "ok" /\ st.temp = <<>>
  /\ st.named = [exists |-> TRUE, samples |-> C]
  /\ st.r = [idata |-> TRUE, mode |-> RW, pos |-> 0, at |-> 0]
  /\ st.w = [idata |-> TRUE, live |-> TRUE, name |-> "temp", full |-> FALSE, at |-> 0]

LEMMA FreshCalm ==
  ASSUME NEW st, NEW C, Fresh(st, C)
  PROVE  Calm(st) /\ Busy(st) /\ Held(st) = C /\ C \in Seq(Value)
<1>1. C \in Seq(Value)
  BY DEF Fresh, Good, StType, NamedType
<1>2. Len(st.temp) = 0 /\ Fewer(0, Len(C)) = 0
  BY <1>1 DEF Fresh, Fewer
<1>3. Busy(st)
  BY <1>2 DEF Fresh, Busy, Follows
<1>4. Held(st) = <<>> \o From(C, 0)
  <2>1. Good(st) /\ st.temp = <<>> /\ st.named.samples = C /\ st.r.at = 0
    BY DEF Fresh
  <2>2. Held(st) = st.temp \o From(st.named.samples, st.r.at)
    BY <1>3, <2>1, BusyHolds
  <2> QED BY <2>1, <2>2
<1>5. From(C, 0) = C /\ <<>> \o C = C
  BY <1>1, FromIs, ConcatEmptySeq
<1> QED BY <1>1, <1>3, <1>4, <1>5 DEF Fresh, Calm

LEMMA InitWriteGives ==
  ASSUME NoneFail, NEW st, Calm(st), NEW t \in InitWrite(st)
  PROVE  /\ Busy(st) => t = st
         /\ Quiet(st) => Fresh(t, Held(st))
<1>1. CASE Busy(st)
  <2>1. st.w.idata /\ "WRITE" \in st.r.mode
    BY <1>1 DEF Busy, RW
  <2> QED BY <2>1 DEF InitWrite, Quiet
<1>2. CASE Quiet(st)
  <2> DEFINE S == IF (st.r.idata \/ st.w.idata) /\ "WRITE" \notin st.r.mode
                  THEN Fini(st) ELSE {st}
             C == Held(st)
             Last(s) == IF s.r.idata
                        THEN {s}
                        ELSE {IF u.end = "missing"
                              THEN [Stop(u, "ok") EXCEPT !.r.mode = RW]
                              ELSE u : u \in OpenNamed(s, RW)}
  <2>1. ~st.w.idata /\ ~Busy(st)
    BY <1>2 DEF Quiet, Busy
  <2>2. t \in Then(Then(S, OpenTemp), Last)
    BY <2>1 DEF InitWrite, RW
  <2>3. ASSUME NEW s \in S
        PROVE  /\ Calm(s) /\ Quiet(s) /\ ~s.r.idata
               /\ s.named = [exists |-> TRUE, samples |-> C]
    <3>1. CASE s \in Fini(st)
      BY <3>1, FiniGives
    <3>2. CASE s = st /\ ~st.r.idata
      <4>1. st.named = [exists |-> TRUE, samples |-> st.named.samples]
        BY DEF Calm, Good, StType, NamedType
      <4> QED BY <1>2, <3>2, <4>1, QuietHolds
    <3> QED BY <1>2, <3>1, <3>2 DEF Quiet
  <2> HIDE DEF S, C
  <2>4. PICK s \in S : t \in Then(OpenTemp(s), Last)
    BY <2>2, <2>3 DEF Then, Calm
  <2>5. PICK o \in OpenTemp(s) : (o.end # "ok" /\ t = o) \/ (o.end = "ok" /\ t \in Last(o))
    BY <2>4 DEF Then
  <2>6. /\ Good(s) /\ s.run = "ok" /\ s.end = "ok" /\ ~s.r.idata
        /\ s.named = [exists |-> TRUE, samples |-> C] /\ s.w.name = "NULL"
    BY <2>3 DEF Calm, Quiet
  <2>7. o = [s EXCEPT !.temp = <<>>, !.w = [idata |-> TRUE, live |-> TRUE,
                          name |-> "temp", full |-> FALSE, at |-> 0]]
    BY <2>5, <2>6, NoFault DEF OpenTemp
  <2>8. /\ o.temp = <<>> /\ o.named = s.named /\ o.r = s.r /\ o.run = "ok"
        /\ o.end = "ok"
        /\ o.w = [idata |-> TRUE, live |-> TRUE, name |-> "temp", full |-> FALSE,
                  at |-> 0]
    BY <2>6, <2>7 DEF Good, StType
  <2>9. Good(o)
    BY <2>5, <2>6, OpenTempIs
  <2>10. t \in Last(o)
    BY <2>5, <2>8
  <2>11. PICK u \in OpenNamed(o, RW) :
           t = IF u.end = "missing" THEN [Stop(u, "ok") EXCEPT !.r.mode = RW] ELSE u
    BY <2>6, <2>8, <2>10
  <2>12. /\ u.r = [idata |-> TRUE, mode |-> RW, pos |-> 0, at |-> 0]
         /\ u.named = o.named /\ u.temp = o.temp /\ u.w = o.w
         /\ u.run = o.run /\ u.end = o.end
    BY <2>6, <2>8, <2>9, <2>11, OpenNamedGives DEF Good
  <2>13. t = u
    BY <2>8, <2>11, <2>12
  <2>14. Good(u)
    <3>1. RW \in SUBSET {"READ", "WRITE"} /\ "READ" \in RW
      BY DEF RW
    <3>2. ~o.r.idata /\ o.w.idata
      BY <2>6, <2>8
    <3>3. u \in OpenNamed(o, RW)
      BY <2>11
    <3> QED BY <2>9, <3>1, <3>2, <3>3, OpenNamedGood
  <2> QED BY <2>1, <2>6, <2>8, <2>12, <2>13, <2>14 DEF Fresh, C
<1> QED BY <1>1, <1>2 DEF Calm

-------------------------------------------------------------------------------
(* Going to the place to write: the field is at its start, or goes back.      *)
MayGo(st, offset) ==
  \/ Fresh(st, Held(st)) /\ offset <= Len(Held(st))
  \/ offset < st.r.pos

LEMMA RestartGives ==
  ASSUME NoneFail, NEW st, Calm(st), NEW t \in Reported(Then(Fini(st), InitWrite))
  PROVE  Fresh(t, Held(st))
<1>1. ASSUME NEW s \in Then(Fini(st), InitWrite) PROVE Fresh(s, Held(st))
  <2>1. PICK c \in Fini(st) : \/ c.end # "ok" /\ s = c
                              \/ c.end = "ok" /\ s \in InitWrite(c)
    BY DEF Then
  <2>2. /\ Calm(c) /\ Quiet(c)
        /\ c.named = [exists |-> TRUE, samples |-> Held(st)]
    BY FiniGives
  <2>3. Held(c) = Held(st)
    BY <2>2, QuietHolds
  <2>4. s \in InitWrite(c)
    BY <2>1, <2>2 DEF Calm
  <2> QED BY <2>2, <2>3, <2>4, InitWriteGives
<1>2. PICK s \in Then(Fini(st), InitWrite) :
        t = IF s.end = "silent" THEN Stop(s, "error") ELSE s
  BY DEF Reported
<1> QED BY <1>1, <1>2 DEF Fresh

(* As many samples of the old file as come before are copied.                 *)
LEMMA WriteSeekGives ==
  ASSUME NoneFail, NEW st, Calm(st), Busy(st), NEW offset \in Nat,
         MayGo(st, offset), NEW t \in WriteSeek(st, offset)
  PROVE  /\ Calm(t) /\ Busy(t) /\ t.r.pos = offset /\ t.r.at = offset
         /\ offset <= Len(Held(st)) /\ Held(st) \in Seq(Value)
         /\ t.temp = SubSeq(Held(st), 1, offset) /\ t.named.samples = Held(st)
<1> DEFINE S == IF offset < st.r.pos THEN Reported(Then(Fini(st), InitWrite))
                                     ELSE {st}
           C == Held(st)
           Got(s) == IF s.r.idata THEN Fewer(offset, Len(s.named.samples) - s.r.at)
                                  ELSE 0
           Old(s) == SubSeq(s.named.samples, s.r.at + 1, s.r.at + Got(s))
           Past(s) == [s EXCEPT !.r.pos = @ + Got(s), !.r.at = @ + Got(s)]
           Copy(s) == IF Got(s) = 0 THEN {s}
                      ELSE {IF u.w.full THEN Stop(u, "error") ELSE u
                            : u \in WriteTemp(Past(s), Old(s))}
           Sought(s) == Then(Copy(s), LAMBDA u : SeekWrite(u, offset - Got(s)))
           End(u, s) == IF u.end # "refused" THEN u.end
                        ELSE IF Got(s) > 0 THEN "ok" ELSE "error"
           Last(s) == {[u EXCEPT !.end = End(u, s)] : u \in Sought(s)}
<1>1. ASSUME NEW s \in S PROVE Fresh(s, C)
  BY RestartGives DEF MayGo
<1>2. C \in Seq(Value) /\ offset <= Len(C)
  <2>1. C \in Seq(Value)
    BY HeldType DEF Calm
  <2>2. st.r.pos <= Len(C) /\ st.r.pos \in Nat
    BY BusyHolds DEF Calm, Good, StType, ReadType
  <2> HIDE DEF C
  <2>3. Len(C) \in Nat
    BY <2>1
  <2>4. offset < st.r.pos \/ offset <= Len(C)
    BY DEF MayGo, C
  <2> QED BY <2>1, <2>2, <2>3, <2>4
<1>3. PICK s \in S : (s.end # "ok" /\ t = s) \/ (s.end = "ok" /\ t \in Last(s))
  BY DEF WriteSeek, Then
<1>4. Fresh(s, C)
  BY <1>1
<1>5. t \in Last(s)
  BY <1>3, <1>4 DEF Fresh
<1> HIDE DEF S, C
<1>6. /\ s.r = [idata |-> TRUE, mode |-> RW, pos |-> 0, at |-> 0]
      /\ s.named.samples = C /\ s.temp = <<>> /\ Good(s) /\ s.end = "ok"
      /\ s.w = [idata |-> TRUE, live |-> TRUE, name |-> "temp", full |-> FALSE, at |-> 0]
      /\ s.named.exists /\ s.run = "ok"
  BY <1>4 DEF Fresh
<1>7. Got(s) = offset
  <2>1. Len(C) \in Nat
    BY <1>2
  <2> QED BY <1>2, <1>6, <2>1 DEF Fewer
<1>8. Old(s) = SubSeq(C, 1, offset)
  <2>1. 0 + 1 = 1 /\ 0 + offset = offset
    OBVIOUS
  <2> QED BY <1>6, <1>7, <2>1
<1>9. ASSUME NEW c \in Copy(s)
      PROVE  /\ Good(c) /\ c.named = s.named /\ c.end = "ok" /\ c.run = "ok"
             /\ c.temp = SubSeq(C, 1, offset)
             /\ c.r = [idata |-> TRUE, mode |-> RW, pos |-> offset, at |-> offset]
             /\ c.w = [idata |-> TRUE, live |-> TRUE, name |-> "temp", full |-> FALSE,
                       at |-> offset]
  <2>1. CASE offset = 0
    <3>1. c = s
      BY <1>7, <2>1
    <3>2. SubSeq(C, 1, 0) = <<>>
      BY <1>2
    <3> QED BY <1>6, <2>1, <3>1, <3>2
  <2>2. CASE offset # 0
    <3> DEFINE past == Past(s)
               old == SubSeq(C, 1, offset)
    <3>1. PICK u \in WriteTemp(past, old) : c = IF u.w.full THEN Stop(u, "error") ELSE u
      BY <1>7, <1>8, <2>2
    <3>2. /\ past.r = [idata |-> TRUE, mode |-> RW, pos |-> offset, at |-> offset]
          /\ past.named = s.named /\ past.temp = s.temp /\ past.w = s.w
          /\ past.run = s.run /\ past.end = s.end /\ past = [s EXCEPT !.r = past.r]
      <4>1. past = [s EXCEPT !.r.pos = @ + offset, !.r.at = @ + offset]
        BY <1>7
      <4>2. 0 + offset = offset /\ s \in StType
        BY <1>6 DEF Good
      <4> HIDE DEF past
      <4>3. past.r = [idata |-> s.r.idata, mode |-> s.r.mode, pos |-> s.r.pos + offset,
                      at |-> s.r.at + offset]
        BY <4>1, <4>2 DEF StType, ReadType
      <4>4. past.r = [idata |-> TRUE, mode |-> RW, pos |-> offset, at |-> offset]
        <5>1. s.r.pos + offset = offset /\ s.r.at + offset = offset
          BY <1>6
        <5>2. s.r.mode = RW /\ s.r.idata = TRUE
          BY <1>6
        <5> QED BY <4>3, <5>1, <5>2
      <4> QED BY <4>1, <4>2, <4>4 DEF StType
    <3>3. old \in Seq(Value) /\ Len(old) = offset
      <4>1. /\ SubSeq(C, 0 + 1, 0 + offset) \in Seq(Value)
            /\ Len(SubSeq(C, 0 + 1, 0 + offset)) = offset
        BY <1>2, FromSplit
      <4> QED BY <4>1
    <3> HIDE DEF past, old
    <3>4. past.r \in ReadType /\ past \in StType
      <4>1. RW \in SUBSET {"READ", "WRITE"}
        BY DEF RW
      <4>2. past.r \in ReadType
        BY <3>2, <4>1 DEF ReadType
      <4> QED BY <1>6, <3>2, <4>2 DEF Good, StType
    <3>5. Good(past)
      <4>1. Len(s.temp) \in Nat
        BY <1>6 DEF Good, StType
      <4> QED BY <1>2, <1>6, <3>2, <3>4, <4>1 DEF Good, Tied, Defined, Written, RW
    <3>6. /\ Good(u) /\ u.named = past.named /\ u.r = past.r /\ u.run = past.run
          /\ u.end = past.end /\ u.temp = Padded(past) \o old
          /\ u.w = [idata |-> past.w.idata, live |-> past.w.live, name |-> past.w.name,
                    full |-> FALSE, at |-> past.w.at + Len(old)]
      <4>1. ~past.w.full
        BY <1>6, <3>2
      <4> QED BY <3>1, <3>3, <3>5, <4>1, WriteTempGives
    <3>7. Padded(past) = <<>>
      <4>1. past.w.at = 0 /\ past.temp = <<>> /\ Len(past.temp) = 0
        BY <1>6, <3>2
      <4>2. 0 <= 0
        OBVIOUS
      <4> QED BY <3>4, <4>1, <4>2, PaddedIs
    <3>8. <<>> \o old = old
      BY <3>3, ConcatEmptySeq
    <3>9. c = u
      BY <3>1, <3>6
    <3>10. c.w = [idata |-> TRUE, live |-> TRUE, name |-> "temp", full |-> FALSE,
                  at |-> offset]
      <4>1. past.w.at + Len(old) = offset
        BY <1>6, <3>2, <3>3
      <4>2. u.w = [idata |-> past.w.idata, live |-> past.w.live, name |-> past.w.name,
                   full |-> FALSE, at |-> offset]
        BY <3>6, <4>1
      <4> QED BY <1>6, <3>2, <3>9, <4>2
    <3>11. c.temp = old
      BY <3>6, <3>7, <3>8, <3>9
    <3> QED BY <1>6, <3>2, <3>6, <3>9, <3>10, <3>11 DEF old
  <2> QED BY <2>1, <2>2
<1>10. PICK u \in Sought(s) : t = [u EXCEPT !.end = End(u, s)]
  BY <1>5
<1>11. PICK c \in Copy(s) : \/ c.end # "ok" /\ u = c
                            \/ c.end = "ok" /\ u \in SeekWrite(c, offset - Got(s))
  BY <1>10 DEF Then
<1> HIDE DEF Copy, Sought, Last
<1>12. u = c
  <2>1. offset - Got(s) = 0
    BY <1>7
  <2>2. SeekWrite(c, 0) = {c}
    BY DEF SeekWrite
  <2> QED BY <1>9, <1>11, <2>1, <2>2
<1>13. t = c
  <2>1. c.end = "ok" /\ c \in StType
    BY <1>9 DEF Good
  <2> QED BY <1>10, <1>12, <2>1 DEF StType
<1>14. Len(SubSeq(C, 1, offset)) = offset
  BY <1>2
<1>15. Fewer(offset, Len(C)) = offset
  BY <1>2 DEF Fewer
<1>16. Busy(t)
  <2>1. Follows(c)
    BY <1>6, <1>9, <1>15 DEF Follows
  <2>2. Len(c.temp) = offset
    BY <1>9, <1>14
  <2>3. /\ c.r = [idata |-> TRUE, mode |-> RW, pos |-> offset, at |-> offset]
        /\ c.w = [idata |-> TRUE, live |-> TRUE, name |-> "temp", full |-> FALSE,
                  at |-> offset]
    BY <1>9
  <2> QED BY <1>13, <2>1, <2>2, <2>3 DEF Busy
<1> QED BY <1>2, <1>6, <1>9, <1>13, <1>16 DEF Calm, C
-------------------------------------------------------------------------------
(* What a write makes of the samples, and what a read finds.                  *)

LEMMA Joined ==
  ASSUME NEW a \in Seq(Value), NEW b \in Seq(Value)
  PROVE  a \o b \in Seq(Value) /\ Len(a \o b) = Len(a) + Len(b)
OBVIOUS

LEMMA OverlayIs ==
  ASSUME NEW C \in Seq(Value), NEW vals \in Seq(Value), NEW k \in Nat, k <= Len(C)
  PROVE  (SubSeq(C, 1, k) \o vals) \o From(C, Fewer(k + Len(vals), Len(C)))
           = Abstract!Overlay(C, k, vals)
<1> DEFINE n == Len(vals)
           m == Fewer(k + n, Len(C))
           a == SubSeq(C, 1, k)
           ab == a \o vals
           c == From(C, m)
           o == Abstract!Overlay(C, k, vals)
           top == IF Len(C) < k + n THEN k + n ELSE Len(C)
<1>1. n \in Nat /\ Len(C) \in Nat
  OBVIOUS
<1>2. a \in Seq(Value) /\ Len(a) = k /\ \A i \in 1..k : a[i] = C[i]
  OBVIOUS
<1>3. m \in Nat /\ m <= Len(C) /\ (k + n <= Len(C) => m = k + n)
      /\ (k + n > Len(C) => m = Len(C))
  BY <1>1 DEF Fewer
<1> HIDE DEF m
<1>4. c \in Seq(Value) /\ Len(c) = Len(C) - m /\ \A i \in 1..Len(c) : c[i] = C[m + i]
  BY <1>3 DEF From
<1> HIDE DEF a, c
<1>5. /\ ab \in Seq(Value) /\ Len(ab) = k + n
      /\ \A i \in 1..k : ab[i] = C[i]
      /\ \A i \in k + 1..k + n : ab[i] = vals[i - k]
  BY <1>1, <1>2
<1> HIDE DEF ab
<1>6. /\ ab \o c \in Seq(Value) /\ Len(ab \o c) = top
  <2>1. ab \in Seq(Value) /\ c \in Seq(Value)
    BY <1>4, <1>5
  <2>2. Len(ab \o c) = Len(ab) + Len(c) /\ ab \o c \in Seq(Value)
    BY <2>1, Joined
  <2>3. Len(ab) = k + n /\ Len(c) = Len(C) - m
    BY <1>4, <1>5
  <2> HIDE DEF n
  <2>4. (k + n) + (Len(C) - m) = top
    BY <1>1, <1>3
  <2> QED BY <2>2, <2>3, <2>4
<1>7. o = [i \in 1..top |-> IF i > k /\ i <= k + n THEN vals[i - k]
                            ELSE IF i <= Len(C) THEN C[i] ELSE Zero]
  <2>1. k - 0 = k
    OBVIOUS
  <2> QED BY <2>1 DEF Abstract!Overlay, Abstract!Greatest
<1>8. ASSUME NEW i \in 1..top PROVE (ab \o c)[i] = o[i]
  <2>0. i \in Nat /\ i >= 1 /\ top \in Nat
    BY <1>1
  <2>1. CASE i <= k
    <3>1. (ab \o c)[i] = ab[i]
      BY <1>1, <1>4, <1>5, <2>0, <2>1
    <3>2. ab[i] = C[i]
      BY <1>5, <2>0, <2>1
    <3>3. o[i] = C[i]
      BY <1>1, <1>7, <2>0, <2>1
    <3> QED BY <3>1, <3>2, <3>3
  <2>2. CASE i > k /\ i <= k + n
    <3>1. (ab \o c)[i] = ab[i]
      BY <1>1, <1>4, <1>5, <2>0, <2>2
    <3>2. ab[i] = vals[i - k]
      BY <1>1, <1>5, <2>0, <2>2
    <3>3. o[i] = vals[i - k]
      BY <1>7, <2>2
    <3> QED BY <3>1, <3>2, <3>3
  <2>3. CASE i > k + n
    <3>1. i <= Len(C) /\ m = k + n
      BY <1>1, <1>3, <2>0, <2>3
    <3>2. i - (k + n) \in 1..Len(c) /\ m + (i - (k + n)) = i
      BY <1>1, <1>4, <2>0, <2>3, <3>1
    <3>3. (ab \o c)[i] = c[i - (k + n)]
      BY <1>1, <1>4, <1>5, <2>0, <2>3, <3>2
    <3>4. c[i - (k + n)] = C[i]
      BY <1>4, <3>2
    <3>5. o[i] = C[i]
      BY <1>1, <1>7, <2>0, <2>3, <3>1
    <3> QED BY <3>3, <3>4, <3>5
  <2> HIDE DEF n, o
  <2>4. i <= k \/ (i > k /\ i <= k + n) \/ i > k + n
    BY <1>1, <2>0
  <2> QED BY <2>1, <2>2, <2>3, <2>4
<1>9. ab \o c = [i \in 1..top |-> (ab \o c)[i]]
  <2> DEFINE s == ab \o c
  <2>1. s \in Seq(Value) /\ Len(s) = top
    BY <1>6
  <2> HIDE DEF s
  <2>2. s = [i \in 1..Len(s) |-> s[i]]
    BY <2>1
  <2> QED BY <2>1, <2>2 DEF s
<1>10. o = [i \in 1..top |-> o[i]]
  BY <1>7
<1>11. ab \o c = o
  BY <1>8, <1>9, <1>10
<1> QED BY <1>11 DEF ab, a, c, m

LEMMA SliceIs ==
  ASSUME NEW C \in Seq(Value), NEW s0 \in Nat, NEW n \in Nat
  PROVE  LET at  == Fewer(s0, Len(C))
             got == Fewer(n, Len(C) - at)
         IN /\ SubSeq(C, at + 1, at + got) = Abstract!Slice(C, s0, n)
            /\ Len(SubSeq(C, at + 1, at + got)) = got
            /\ got \in Nat /\ at \in Nat /\ at + got <= Len(C)
            /\ Fewer(s0 + got, Len(C)) = at + got
<1> DEFINE l == Len(C)
           at == Fewer(s0, l)
           got == Fewer(n, l - at)
           a == SubSeq(C, at + 1, at + got)
           m == IF n < (IF 0 < 0 + l - s0 THEN 0 + l - s0 ELSE 0) THEN n
                ELSE (IF 0 < 0 + l - s0 THEN 0 + l - s0 ELSE 0)
<1>1. l \in Nat
  OBVIOUS
<1>2. /\ at \in Nat /\ got \in Nat /\ at + got <= l /\ got = m
      /\ Fewer(s0 + got, l) = at + got /\ (got > 0 => at = s0)
  <2> HIDE DEF l
  <2> QED BY <1>1 DEF Fewer
<1> HIDE DEF at, got
<1>3. a \in Seq(Value) /\ Len(a) = got /\ \A i \in 1..got : a[i] = C[at + i]
  BY <1>2
<1>4. Abstract!Slice(C, s0, n) = [i \in 1..m |-> IF s0 + i - 1 < 0 THEN Zero
                                                 ELSE C[s0 + i - 1 - 0 + 1]]
  BY DEF Abstract!Slice, Abstract!Least, Abstract!Greatest, Abstract!Eof,
         Abstract!SampleAt
<1> HIDE DEF a, m, l
<1>5. a = [i \in 1..got |-> a[i]]
  BY <1>3
<1>6. ASSUME NEW i \in 1..got
      PROVE  a[i] = IF s0 + i - 1 < 0 THEN Zero ELSE C[s0 + i - 1 - 0 + 1]
  <2>1. at = s0 /\ ~(s0 + i - 1 < 0) /\ s0 + i - 1 - 0 + 1 = at + i
    BY <1>2
  <2> QED BY <1>3, <2>1
<1>7. a = Abstract!Slice(C, s0, n)
  BY <1>2, <1>4, <1>5, <1>6
<1> QED BY <1>2, <1>3, <1>7 DEF a, at, got, l
LEMMA SeekReadGives ==
  ASSUME NEW st, Good(st), st.r.idata, Follows(st), NEW count \in Nat,
         count = 0 => st.r.pos = 0, NEW t, t = SeekRead(st, count)
  PROVE  /\ Good(t) /\ Follows(t) /\ t.named = st.named /\ t.temp = st.temp
         /\ t.w = st.w /\ t.run = st.run /\ t.end = st.end
         /\ t.data = st.data /\ t.at = st.at
         /\ t.r = [idata |-> TRUE, mode |-> st.r.mode, pos |-> count,
                   at |-> Fewer(count, Len(st.named.samples))]
<1> DEFINE m == Fewer(count, Len(st.named.samples))
<1>1. Good(t)
  BY SeekReadGood
<1>2. /\ t.named = st.named /\ t.temp = st.temp
      /\ t.w = st.w /\ t.run = st.run /\ t.end = st.end
      /\ t.data = st.data /\ t.at = st.at
      /\ t.r = [idata |-> TRUE, mode |-> st.r.mode, pos |-> count, at |-> m]
  <2>1. CASE st.r.pos = count
    BY <2>1 DEF SeekRead, Good, StType, ReadType, Follows
  <2>2. CASE st.r.pos # count
    <3>1. t = [st EXCEPT !.r.pos = count, !.r.at = m]
      BY <2>2 DEF SeekRead
    <3> HIDE DEF m
    <3> QED BY <3>1 DEF Good, StType, ReadType
  <2> QED BY <2>1, <2>2
<1> QED BY <1>1, <1>2 DEF Follows

(* A write, of a field that stands where it is to be written.                 *)
StandsAt(st, C, k) ==
  /\ st.temp = SubSeq(C, 1, k) /\ st.named.samples = C /\ k <= Len(C)
  /\ st.r.pos = k

LEMMA WriteOutGives ==
  ASSUME NoneFail, NEW st, Calm(st), Busy(st), NEW C \in Seq(Value),
         NEW k \in Nat, StandsAt(st, C, k), NEW vals \in Seq(Value), Len(vals) > 0,
         NEW t \in WriteOut([st EXCEPT !.data = <<>>], vals)
  PROVE  /\ Calm(t) /\ Busy(t) /\ t.r.pos = k + Len(vals) /\ t.data = vals
         /\ Held(t) = Abstract!Overlay(C, k, vals)
<1> DEFINE none == <<>>
           b == [st EXCEPT !.data = none]
<1>1. none \in Seq(Value)
  OBVIOUS
<1>2. PICK u \in WriteTemp(b, vals) :
        t = IF u.data # <<>> /\ u.r.idata THEN SeekRead(u, u.r.pos + Len(vals)) ELSE u
  BY DEF WriteOut
<1> HIDE DEF none
<1>3. /\ b \in StType /\ b.named = st.named /\ b.temp = st.temp /\ b.r = st.r
      /\ b.w = st.w /\ b.run = st.run /\ b.end = st.end
  BY <1>1 DEF Calm, Good, StType
<1> HIDE DEF b
<1>4. Good(b) /\ ~b.w.full /\ Busy(b)
  <2>1. Good(b)
    BY <1>3 DEF Calm, Good, Tied, Defined, Written
  <2>2. Busy(b)
    BY <1>3 DEF Busy, Follows
  <2>3. st.w.full = FALSE
    BY DEF Busy
  <2> QED BY <1>3, <2>1, <2>2, <2>3
<1>5. /\ Good(u) /\ u.named = b.named /\ u.r = b.r /\ u.run = b.run
      /\ u.end = b.end /\ u.data = vals /\ u.temp = Padded(b) \o vals
      /\ u.w = [idata |-> b.w.idata, live |-> b.w.live, name |-> b.w.name,
                full |-> FALSE, at |-> b.w.at + Len(vals)]
  BY <1>2, <1>4, WriteTempGives
<1>6. /\ Len(vals) \in Nat /\ vals # <<>> /\ k + Len(vals) \in Nat
      /\ k + Len(vals) # 0 /\ k <= Len(C)
  BY DEF StandsAt
<1>7. u.temp = SubSeq(C, 1, k) \o vals /\ u.r.idata /\ u.r.pos = k /\ Follows(u)
      /\ u.r.mode = RW
  BY <1>3, <1>4, <1>5, BusyHolds DEF Busy, Follows, StandsAt
<1>8. t = SeekRead(u, k + Len(vals))
  BY <1>2, <1>5, <1>6, <1>7
<1>9. /\ Good(t) /\ Follows(t) /\ t.named = u.named /\ t.temp = u.temp
      /\ t.w = u.w /\ t.run = u.run /\ t.end = u.end /\ t.data = u.data
      /\ t.r = [idata |-> TRUE, mode |-> u.r.mode, pos |-> k + Len(vals),
                at |-> Fewer(k + Len(vals), Len(u.named.samples))]
  <2> DEFINE c == k + Len(vals)
  <2>1. c \in Nat /\ (c = 0 => u.r.pos = 0) /\ t = SeekRead(u, c)
    BY <1>6, <1>8
  <2> HIDE DEF c
  <2>2. /\ Good(t) /\ Follows(t) /\ t.named = u.named /\ t.temp = u.temp
        /\ t.w = u.w /\ t.run = u.run /\ t.end = u.end /\ t.data = u.data
        /\ t.r = [idata |-> TRUE, mode |-> u.r.mode, pos |-> c,
                  at |-> Fewer(c, Len(u.named.samples))]
    <3>1. Good(u) /\ u.r.idata /\ Follows(u)
      BY <1>5, <1>7
    <3> QED BY <2>1, <3>1, SeekReadGives
  <2> QED BY <2>2 DEF c
<1>10. Len(SubSeq(C, 1, k)) = k
  BY <1>6
<1>11. Len(t.temp) = k + Len(vals) /\ b.w.at = k
  <2> DEFINE a == SubSeq(C, 1, k)
  <2>1. a \in Seq(Value) /\ Len(a) = k
    BY <1>6, <1>10
  <2> HIDE DEF a
  <2>2. Len(a \o vals) = Len(a) + Len(vals)
    BY <2>1, Joined
  <2>3. t.temp = a \o vals /\ b.temp = a
    BY <1>3, <1>7, <1>9 DEF a, StandsAt
  <2>4. b.w.at = Len(b.temp)
    BY <1>4 DEF Busy
  <2> QED BY <2>1, <2>2, <2>3, <2>4
<1>12. Busy(t)
  <2>1. b.w.idata = TRUE /\ b.w.live = TRUE /\ b.w.name = "temp"
    BY <1>4 DEF Busy
  <2>2. t.w = [idata |-> TRUE, live |-> TRUE, name |-> "temp", full |-> FALSE,
               at |-> Len(t.temp)]
    BY <1>5, <1>9, <1>11, <2>1
  <2>3. t.r.idata /\ t.r.mode = RW /\ t.r.pos = Len(t.temp)
    BY <1>7, <1>9, <1>11
  <2> QED BY <1>9, <2>2, <2>3 DEF Busy
<1>13. Held(t) = t.temp \o From(t.named.samples, t.r.at)
  BY <1>9, <1>12, BusyHolds
<1>14. Held(t) = (SubSeq(C, 1, k) \o vals) \o From(C, Fewer(k + Len(vals), Len(C)))
  <2>1. t.temp = SubSeq(C, 1, k) \o vals /\ t.named.samples = C
    BY <1>3, <1>5, <1>7, <1>9 DEF StandsAt
  <2>2. t.r.at = Fewer(k + Len(vals), Len(C))
    BY <1>3, <1>5, <1>9 DEF StandsAt
  <2> QED BY <1>13, <2>1, <2>2
<1>15. Held(t) = Abstract!Overlay(C, k, vals)
  BY <1>6, <1>14, OverlayIs
<1>16. Calm(t)
  BY <1>3, <1>5, <1>9, <1>12 DEF Calm
<1> QED BY <1>5, <1>9, <1>12, <1>15, <1>16

-------------------------------------------------------------------------------
(* Opening it to read, and reading.                                           *)
LEMMA InitReadGives ==
  ASSUME NoneFail, NEW st, Calm(st), Quiet(st), NEW t \in InitRead(st)
  PROVE  /\ Calm(t) /\ Quiet(t) /\ t.r.idata /\ t.named = st.named
         /\ t.r.pos = PointerOf(st) /\ t.at = st.at
<1>1. CASE st.r.idata
  <2>1. "READ" \in st.r.mode
    BY <1>1 DEF Calm, Good, Tied
  <2>2. t = st
    BY <1>1, <2>1 DEF InitRead
  <2> QED BY <1>1, <2>2 DEF PointerOf
<1>2. CASE ~st.r.idata
  <2> DEFINE Last(s) == {IF u.end = "missing" THEN Stop(u, "error") ELSE u
                         : u \in OpenNamed(s, {"READ"})}
  <2>1. t \in Then({st}, Last)
    BY <1>2 DEF InitRead, Quiet
  <2>2. t \in Last(st)
    BY <2>1 DEF Then, Calm
  <2>3. PICK u \in OpenNamed(st, {"READ"}) :
          t = IF u.end = "missing" THEN Stop(u, "error") ELSE u
    BY <2>2
  <2>4. u = [st EXCEPT !.r = [idata |-> TRUE, mode |-> {"READ"}, pos |-> 0, at |-> 0]]
    BY NoFault DEF OpenNamed, Calm
  <2>5. /\ u.r = [idata |-> TRUE, mode |-> {"READ"}, pos |-> 0, at |-> 0]
        /\ u.named = st.named /\ u.temp = st.temp /\ u.w = st.w
        /\ u.run = st.run /\ u.end = st.end /\ u.at = st.at
    BY <2>4 DEF Calm, Good, StType
  <2>6. t = u
    BY <2>3, <2>5 DEF Calm
  <2>7. Good(u)
    <3> DEFINE mode == {"READ"}
    <3>1. mode \in SUBSET {"READ", "WRITE"} /\ "READ" \in mode /\ "WRITE" \notin mode
      OBVIOUS
    <3>2. u \in OpenNamed(st, mode)
      BY <2>3
    <3> HIDE DEF mode
    <3> QED BY <1>2, <3>1, <3>2, OpenNamedGood DEF Calm
  <2>8. Follows(u)
    <3>1. Len(u.named.samples) \in Nat
      BY <2>7 DEF Good, StType, NamedType
    <3> QED BY <2>5, <3>1 DEF Follows, Fewer
  <2>9. Quiet(u)
    BY <2>5, <2>8 DEF Quiet
  <2> QED BY <1>2, <2>5, <2>6, <2>7, <2>9 DEF Calm, PointerOf
<1> QED BY <1>1, <1>2

LEMMA FilePosGives ==
  ASSUME NoneFail, NEW st, Calm(st), NEW t \in GetFilePos(st)
  PROVE  /\ Calm(t) /\ t.named = st.named /\ t.r.idata /\ t.r.pos = PointerOf(st)
         /\ t.at = PointerOf(st) /\ Held(t) = Held(st)
         /\ Quiet(st) => Quiet(t)
<1> DEFINE S == IF st.r.idata THEN {st} ELSE InitRead(st)
           Told(s) == [s EXCEPT !.at = s.r.pos]
<1>1. ASSUME NEW s \in S
      PROVE  /\ Calm(s) /\ s.named = st.named /\ s.r.idata /\ s.r.pos = PointerOf(st)
             /\ Held(s) = Held(st) /\ (Quiet(st) => Quiet(s))
  <2>1. CASE st.r.idata
    BY <2>1 DEF PointerOf
  <2>2. CASE ~st.r.idata
    <3>1. Quiet(st)
      BY <2>2 DEF Calm, Busy
    <3> QED BY <2>2, <3>1, InitReadGives, QuietHolds
  <2> QED BY <2>1, <2>2
<1>2. PICK s \in S : (s.end # "ok" /\ t = s) \/ (s.end = "ok" /\ t = Told(s))
  BY DEF GetFilePos, Then
<1> HIDE DEF S
<1>3. t = [s EXCEPT !.at = s.r.pos]
  BY <1>1, <1>2 DEF Calm
<1>4. /\ t \in StType /\ t.named = s.named /\ t.temp = s.temp /\ t.r = s.r /\ t.w = s.w
      /\ t.run = s.run /\ t.end = s.end /\ t.at = s.r.pos
  BY <1>1, <1>3 DEF Calm, Good, StType, ReadType
<1>5. Good(t) /\ (Quiet(s) <=> Quiet(t)) /\ (Busy(s) <=> Busy(t)) /\ Held(t) = Held(s)
  BY <1>1, <1>4 DEF Calm, Good, Tied, Defined, Written, Quiet, Busy, Follows,
                    Held, Rest, Padded
<1> QED BY <1>1, <1>4, <1>5 DEF Calm

LEMMA DoRawGives ==
  ASSUME NoneFail, NEW st, Calm(st), Quiet(st), NEW s0 \in Nat, NEW n \in Nat,
         s0 = 0 => PointerOf(st) = 0, NEW t \in DoRaw(st, s0, n)
  PROVE  /\ Calm(t) /\ Held(t) = Held(st) /\ t.at = st.at
         /\ t.data = Abstract!Slice(Held(st), s0, n)
         /\ PointerOf(t) = s0 + Len(t.data)
<1> DEFINE C == st.named.samples
           at == Fewer(s0, Len(C))
           got == Fewer(n, Len(C) - at)
<1>1. PICK s \in InitRead(st) : \/ s.end # "ok" /\ t = s
                                \/ s.end = "ok" /\ t = ReadNamed(SeekRead(s, s0), n)
  BY DEF DoRaw, Then
<1>2. /\ Calm(s) /\ Quiet(s) /\ s.r.idata /\ s.named = st.named
      /\ s.r.pos = PointerOf(st) /\ s.at = st.at
  BY InitReadGives
<1> DEFINE u == SeekRead(s, s0)
<1>3. t = ReadNamed(u, n)
  BY <1>1, <1>2 DEF Calm
<1>4. Follows(s) /\ Good(s)
  BY <1>2 DEF Quiet, Calm
<1> HIDE DEF u
<1>5. /\ Good(u) /\ u.named = st.named /\ u.temp = s.temp
      /\ u.w = s.w /\ u.run = s.run /\ u.end = s.end /\ u.at = st.at
      /\ u.r = [idata |-> TRUE, mode |-> s.r.mode, pos |-> s0, at |-> at]
  <2>1. u = SeekRead(s, s0) /\ (s0 = 0 => s.r.pos = 0)
    BY <1>2 DEF u
  <2> QED BY <1>2, <1>4, <2>1, SeekReadGives
<1>6. C \in Seq(Value)
  BY DEF Calm, Good, StType, NamedType
<1>7. /\ SubSeq(C, at + 1, at + got) = Abstract!Slice(C, s0, n)
      /\ Len(SubSeq(C, at + 1, at + got)) = got
      /\ got \in Nat /\ at \in Nat /\ at + got <= Len(C)
      /\ Fewer(s0 + got, Len(C)) = at + got
  BY <1>6, SliceIs
<1>8. t = [u EXCEPT !.r.pos = @ + got, !.r.at = @ + got,
                    !.data = SubSeq(C, at + 1, at + got)]
  BY <1>3, <1>5 DEF ReadNamed
<1> HIDE DEF C, at, got
<1>9. /\ t.named = u.named /\ t.temp = u.temp /\ t.w = u.w /\ t.run = u.run
      /\ t.end = u.end /\ t.at = u.at /\ t.data = SubSeq(C, at + 1, at + got)
      /\ t.r = [idata |-> u.r.idata, mode |-> u.r.mode, pos |-> u.r.pos + got,
                at |-> u.r.at + got]
  BY <1>5, <1>8 DEF Good, StType, ReadType
<1>10. t.r = [idata |-> TRUE, mode |-> s.r.mode, pos |-> s0 + got, at |-> at + got]
  BY <1>5, <1>9
<1>11. Good(t)
  <2>1. u.r.idata
    BY <1>5
  <2> QED BY <1>3, <1>5, <2>1, ReadNamedGood
<1>12. Follows(t)
  BY <1>5, <1>7, <1>9, <1>10 DEF Follows, C
<1>13. Quiet(t)
  BY <1>2, <1>5, <1>9, <1>10, <1>12 DEF Quiet
<1>14. Calm(t)
  BY <1>2, <1>5, <1>9, <1>11, <1>13 DEF Calm
<1>15. Held(t) = C /\ Held(st) = C
  BY <1>5, <1>9, <1>13, QuietHolds DEF C
<1>16. PointerOf(t) = s0 + got
  BY <1>10 DEF PointerOf
<1> QED BY <1>5, <1>7, <1>9, <1>14, <1>15, <1>16
-------------------------------------------------------------------------------
(* The calls: a careful one finds the field calm, leaves it calm, and is a    *)
(* step of Field.                                                             *)
Pointer == IF r.idata THEN r.pos ELSE 0

Sound == Calm(Now)' /\ Abstract!Next

LEMMA NowCalm ==
  ASSUME IInv, Calm(Now)
  PROVE  /\ Contents = Held(Now) /\ Contents \in Seq(Value)
         /\ Pointer = PointerOf(Now) /\ Now.named = named /\ named.exists
         /\ Now.r = r /\ Now.w = w
         /\ w.idata => Busy(Now) /\ r.idata
         /\ ~w.idata => Quiet(Now) /\ Contents = named.samples
<1>1. /\ Contents = Held(Now) /\ Contents \in Seq(Value) /\ Now.named = named
      /\ Now.r = r /\ Now.w = w
  BY NowIs
<1>2. Pointer = PointerOf(Now) /\ named.exists
  BY <1>1 DEF Pointer, PointerOf, Calm
<1>3. w.idata => Busy(Now) /\ r.idata
  BY <1>1 DEF Calm, Quiet, Busy
<1>4. ~w.idata => Quiet(Now)
  BY <1>1 DEF Calm, Busy
<1>5. Quiet(Now) => Contents = named.samples
  BY <1>1, QuietHolds
<1> QED BY <1>1, <1>2, <1>3, <1>4, <1>5

LEMMA CalmAfter ==
  ASSUME NEW t, Calm(t), NEW reply, Finish(t, reply)
  PROVE  /\ IInv' /\ Calm(Now)' /\ Contents' = Held(t)
         /\ Pointer' = PointerOf(t) /\ ret' = reply
<1>1. /\ named' = t.named /\ temp' = t.temp /\ r' = t.r /\ w' = t.w /\ run' = t.run
      /\ ret' = reply
  BY DEF Finish
<1>2. IInv'
  BY Finished DEF Calm
<1>3. Good(Now)'
  <2>1. TypeOK'
    BY <1>2 DEF IInv
  <2>2. Now' \in StType
    BY <2>1 DEF TypeOK, Now, StType
  <2>3. StType' = StType
    OBVIOUS
  <2> QED BY <1>2, <2>2, <2>3 DEF IInv, Good
<1>4. (Quiet(Now) \/ Busy(Now))'
  BY <1>1 DEF Now, Calm, Quiet, Busy, Follows
<1>5. Calm(Now)'
  BY <1>1, <1>3, <1>4 DEF Now, Calm
<1>6. Contents' = Held(t)
  BY <1>1 DEF Contents, Writing, Held, Rest, Written, Padded, Now
<1>7. Pointer' = PointerOf(t)
  BY <1>1 DEF Pointer, PointerOf
<1> QED BY <1>1, <1>2, <1>5, <1>6, <1>7

LEMMA GetSound ==
  ASSUME NEW t, Calm(t), Held(t) = Contents, NEW s0 \in Nat, NEW n \in Nat,
         t.data = Abstract!Slice(Contents, s0, n), PointerOf(t) = s0 + Len(t.data),
         NEW here \in BOOLEAN, here => s0 = Pointer,
         NEW reply, Finish(t, reply), reply.op = "get", reply.at = s0, reply.n = n,
         reply.here = here, reply.data = t.data, reply.err = FALSE
  PROVE  Sound
<1>1. /\ Calm(Now)' /\ Contents' = Held(t) /\ Pointer' = PointerOf(t) /\ ret' = reply
  BY CalmAfter
<1>2. Abstract!Get
  BY <1>1 DEF Abstract!Get, Abstract!Succeeds, Pointer
<1>3. here => Abstract!GetHere
  BY <1>1, <1>2 DEF Abstract!GetHere, Pointer
<1> QED BY <1>1, <1>2, <1>3 DEF Sound, Abstract!Next

LEMMA GetDataSound ==
  ASSUME NoneFail, Careful, IInv, Calm(Now), NEW s0 \in 0..High, NEW n \in Counts,
         GetData(s0, n)
  PROVE  Sound
<1>1. PICK t \in DoRaw(Now, s0, n) :
        Finish(t, [Reply("get", s0, t.data, t) EXCEPT !.n = n])
  BY DEF GetData
<1> DEFINE reply == [Reply("get", s0, t.data, t) EXCEPT !.n = n]
<1>2. ~w.idata /\ (s0 = 0 /\ r.idata => r.pos = 0)
  BY DEF GetData, MayRead
<1>3. s0 \in Nat /\ n \in Nat
  BY OopFieldAssumption DEF Counts
<1>4. /\ Quiet(Now) /\ Held(Now) = Contents /\ (s0 = 0 => PointerOf(Now) = 0)
  BY <1>2, NowCalm DEF PointerOf
<1>5. /\ Calm(t) /\ Held(t) = Contents /\ t.end = "ok"
      /\ t.data = Abstract!Slice(Contents, s0, n) /\ PointerOf(t) = s0 + Len(t.data)
  BY <1>1, <1>3, <1>4, DoRawGives DEF Calm
<1>6. /\ reply.op = "get" /\ reply.at = s0 /\ reply.n = n /\ reply.here = FALSE
      /\ reply.data = t.data /\ reply.err = FALSE /\ Finish(t, reply)
  BY <1>1, <1>5 DEF Reply
<1> HIDE DEF reply
<1> QED BY <1>3, <1>5, <1>6, GetSound

LEMMA GetHereSound ==
  ASSUME NoneFail, Careful, IInv, Calm(Now), NEW n \in Counts, GetHere(n)
  PROVE  Sound
<1>1. PICK t \in Then(GetFilePos(Now), LAMBDA s : DoRaw(s, s.at, n)) :
        Finish(t, [Reply("get", t.at, t.data, t) EXCEPT !.n = n, !.here = TRUE])
  BY DEF GetHere
<1> DEFINE reply == [Reply("get", t.at, t.data, t) EXCEPT !.n = n, !.here = TRUE]
<1>2. PICK s \in GetFilePos(Now) : \/ s.end # "ok" /\ t = s
                                   \/ s.end = "ok" /\ t \in DoRaw(s, s.at, n)
  BY <1>1 DEF Then
<1>3. Quiet(Now) /\ Held(Now) = Contents /\ PointerOf(Now) = Pointer
  BY NowCalm DEF GetHere, MayTell
<1>4. /\ Calm(s) /\ Quiet(s) /\ s.r.idata /\ s.r.pos = Pointer /\ s.at = Pointer
      /\ Held(s) = Contents
  BY <1>2, <1>3, FilePosGives
<1>5. t \in DoRaw(s, s.at, n)
  BY <1>2, <1>4 DEF Calm
<1>6. s.at \in Nat /\ n \in Nat
  BY <1>4, OopFieldAssumption DEF Counts, Calm, Good, StType
<1>7. s.at = 0 => PointerOf(s) = 0
  BY <1>4 DEF PointerOf
<1>8. /\ Calm(t) /\ Held(t) = Contents /\ t.end = "ok" /\ t.at = s.at
      /\ t.data = Abstract!Slice(Contents, s.at, n)
      /\ PointerOf(t) = s.at + Len(t.data)
  BY <1>4, <1>5, <1>6, <1>7, DoRawGives DEF Calm
<1>9. /\ reply.op = "get" /\ reply.at = s.at /\ reply.n = n /\ reply.here = TRUE
      /\ reply.data = t.data /\ reply.err = FALSE /\ Finish(t, reply)
  BY <1>1, <1>8 DEF Reply
<1> HIDE DEF reply
<1>10. TRUE \in BOOLEAN
  OBVIOUS
<1> QED BY <1>4, <1>6, <1>8, <1>9, <1>10, GetSound

(* A field that goes to a place to write stands there, and holds the same.    *)
LEMMA GoneGives ==
  ASSUME NoneFail, NEW st, Calm(st), NEW offset \in Nat,
         Busy(st) => offset < st.r.pos, Quiet(st) => offset <= Len(Held(st)),
         NEW s \in Then(InitWrite(st), LAMBDA o : WriteSeek(o, offset))
  PROVE  /\ Calm(s) /\ Busy(s) /\ StandsAt(s, Held(st), offset)
         /\ Held(s) = Held(st)
<1>1. PICK o \in InitWrite(st) : \/ o.end # "ok" /\ s = o
                                 \/ o.end = "ok" /\ s \in WriteSeek(o, offset)
  BY DEF Then
<1>2. /\ Calm(o) /\ Busy(o) /\ Held(o) = Held(st) /\ MayGo(o, offset)
  <2>1. CASE Busy(st)
    BY <1>1, <2>1, InitWriteGives DEF MayGo
  <2>2. CASE Quiet(st)
    <3>1. Fresh(o, Held(st))
      BY <1>1, <2>2, InitWriteGives
    <3> QED BY <2>2, <3>1, FreshCalm DEF MayGo
  <2> QED BY <2>1, <2>2 DEF Calm
<1>3. s \in WriteSeek(o, offset)
  BY <1>1, <1>2 DEF Calm
<1> DEFINE C == Held(st)
<1>4. /\ Calm(s) /\ Busy(s) /\ s.r.pos = offset /\ s.r.at = offset
      /\ offset <= Len(C) /\ C \in Seq(Value)
      /\ s.temp = SubSeq(C, 1, offset) /\ s.named.samples = C
  BY <1>2, <1>3, WriteSeekGives
<1>5. StandsAt(s, C, offset)
  BY <1>4 DEF StandsAt
<1>6. Held(s) = SubSeq(C, 1, offset) \o From(C, offset)
  BY <1>4, BusyHolds DEF Calm
<1> HIDE DEF C
<1>7. SubSeq(C, 1, offset) \o From(C, offset) = C
  <2>1. 0 + offset <= Len(C) /\ 0 \in Nat /\ 0 + offset = offset
    BY <1>4
  <2>2. From(C, 0) = SubSeq(C, 0 + 1, 0 + offset) \o From(C, 0 + offset)
    BY <1>4, <2>1, FromSplit
  <2>3. From(C, 0) = C /\ 0 + 1 = 1
    BY <1>4, FromIs
  <2> QED BY <2>1, <2>2, <2>3
<1> QED BY <1>4, <1>5, <1>6, <1>7 DEF C

LEMMA WriteMay ==
  ASSUME Careful, IInv, Calm(Now), NEW s0, MayWrite(s0)
  PROVE  /\ Busy(Now) => s0 < Now.r.pos
         /\ Quiet(Now) => s0 <= Len(Held(Now))
<1>1. w.idata => s0 < r.pos
  BY DEF MayWrite
<1>2. s0 <= Len(named.samples)
  BY NowCalm DEF MayWrite
<1>3. (Busy(Now) => w.idata) /\ (Quiet(Now) => ~w.idata)
  BY NowCalm DEF Busy, Quiet
<1> QED BY <1>1, <1>2, <1>3, NowCalm

LEMMA PutDataSound ==
  ASSUME NoneFail, Careful, IInv, Calm(Now), NEW s0 \in 0..High,
         NEW vals \in Seq(Value), Len(vals) > 0, PutData(s0, vals)
  PROVE  Sound
<1> DEFINE S == Then(InitWrite(Now), LAMBDA o : WriteSeek(o, s0))
<1>1. PICK t \in DoRawOut(Now, s0, vals) :
        Finish(t, [Reply("put", s0, t.data, t) EXCEPT !.n = Len(vals)])
  BY DEF PutData
<1>2. PICK s \in S : \/ s.end # "ok" /\ t = s
                     \/ s.end = "ok" /\ t \in WriteOut([s EXCEPT !.data = <<>>], vals)
  BY DEF DoRawOut, Then
<1>3. s0 \in Nat
  BY OopFieldAssumption
<1>4. /\ Calm(s) /\ Busy(s) /\ StandsAt(s, Contents, s0)
  BY <1>2, <1>3, WriteMay, NowCalm, GoneGives DEF PutData
<1> HIDE DEF S
<1>5. t \in WriteOut([s EXCEPT !.data = <<>>], vals)
  BY <1>2, <1>4 DEF Calm
<1>6. /\ Calm(t) /\ Busy(t) /\ t.r.pos = s0 + Len(vals) /\ t.data = vals
      /\ Held(t) = Abstract!Overlay(Contents, s0, vals)
  BY <1>3, <1>4, <1>5, NowCalm, WriteOutGives
<1> DEFINE reply == [Reply("put", s0, t.data, t) EXCEPT !.n = Len(vals)]
<1>7. /\ reply.op = "put" /\ reply.at = s0 /\ reply.here = FALSE
      /\ reply.data = vals /\ reply.err = FALSE /\ Finish(t, reply)
  BY <1>1, <1>6 DEF Reply, Calm
<1> HIDE DEF reply
<1>8. /\ Calm(Now)' /\ Contents' = Held(t) /\ Pointer' = PointerOf(t) /\ ret' = reply
  BY <1>6, <1>7, CalmAfter
<1>9. PointerOf(t) = s0 + Len(vals)
  BY <1>6 DEF PointerOf, Busy
<1>10. Abstract!Put
  BY <1>3, <1>6, <1>7, <1>8, <1>9 DEF Abstract!Put, Abstract!Succeeds, Pointer
<1> QED BY <1>7, <1>8, <1>10 DEF Sound, Abstract!Next
LEMMA SeekSound ==
  ASSUME NoneFail, Careful, IInv, Calm(Now), NEW target \in 0..High,
         NEW write \in BOOLEAN, Seek(target, write)
  PROVE  Sound
<1> DEFINE Moved == {IF s.end = "ok" THEN SeekRead(s, target) ELSE s
                     : s \in InitRead(Now)}
           Gone == Then(InitWrite(Now), LAMBDA o : WriteSeek(o, target))
           S == IF write THEN Gone ELSE Moved
<1>1. PICK t \in Then(Unnoticed(S), GetFilePos) :
        Finish(t, Reply("seek", t.at, <<>>, t))
  BY DEF Seek
<1>2. target \in Nat
  BY OopFieldAssumption
<1>3. ASSUME NEW s \in S PROVE Calm(s) /\ Held(s) = Contents
  <2>1. CASE write
    <3>1. MayWrite(target) /\ s \in Gone
      BY <2>1 DEF Seek
    <3> QED BY <1>2, <3>1, WriteMay, NowCalm, GoneGives
  <2>2. CASE ~write
    <3>1. ~w.idata /\ (target = 0 /\ r.idata => r.pos = 0)
      BY <2>2 DEF Seek, MayRead
    <3>2. Quiet(Now) /\ (target = 0 => PointerOf(Now) = 0)
      BY <3>1, NowCalm DEF PointerOf
    <3>3. PICK o \in InitRead(Now) : s = IF o.end = "ok" THEN SeekRead(o, target) ELSE o
      BY <2>2
    <3>4. /\ Calm(o) /\ Quiet(o) /\ o.r.idata /\ o.named = Now.named
          /\ o.r.pos = PointerOf(Now)
      BY <3>2, <3>3, InitReadGives
    <3>5. s = SeekRead(o, target) /\ Good(o) /\ Follows(o)
      BY <3>3, <3>4 DEF Calm, Quiet
    <3>6. /\ Good(s) /\ Follows(s) /\ s.named = o.named
          /\ s.w = o.w /\ s.run = o.run /\ s.end = o.end
          /\ s.r = [idata |-> TRUE, mode |-> o.r.mode, pos |-> target,
                    at |-> Fewer(target, Len(o.named.samples))]
      BY <1>2, <3>2, <3>4, <3>5, SeekReadGives
    <3>7. Quiet(s)
      BY <3>4, <3>6 DEF Quiet
    <3>8. Calm(s)
      BY <3>4, <3>6, <3>7 DEF Calm
    <3>9. Held(s) = Contents
      BY <3>1, <3>4, <3>6, <3>7, NowCalm, QuietHolds
    <3> QED BY <3>8, <3>9
  <2> QED BY <2>1, <2>2
<1> HIDE DEF S
<1>4. PICK s \in Unnoticed(S) :
        (s.end # "ok" /\ t = s) \/ (s.end = "ok" /\ t \in GetFilePos(s))
  BY <1>1 DEF Then
<1>5. s \in S
  <2>1. PICK o \in S : s = o \/ o.end = "silent"
    BY DEF Unnoticed
  <2> QED BY <1>3, <2>1 DEF Calm
<1>6. /\ Calm(t) /\ Held(t) = Contents /\ t.at = PointerOf(t)
  <2>1. Calm(s) /\ Held(s) = Contents /\ t \in GetFilePos(s)
    BY <1>3, <1>4, <1>5 DEF Calm
  <2>2. /\ Calm(t) /\ t.r.idata /\ t.r.pos = PointerOf(s) /\ t.at = PointerOf(s)
        /\ Held(t) = Held(s)
    BY <2>1, FilePosGives
  <2> QED BY <2>1, <2>2 DEF PointerOf
<1> DEFINE reply == Reply("seek", t.at, <<>>, t)
<1>7. reply.op = "seek" /\ reply.at = t.at /\ reply.err = FALSE /\ Finish(t, reply)
  BY <1>1, <1>6 DEF Reply, Calm
<1> HIDE DEF reply
<1>8. /\ Calm(Now)' /\ Contents' = Held(t) /\ Pointer' = PointerOf(t) /\ ret' = reply
  BY <1>6, <1>7, CalmAfter
<1>9. Abstract!Seek
  BY <1>6, <1>7, <1>8 DEF Abstract!Seek, Abstract!Succeeds, Pointer
<1> QED BY <1>8, <1>9 DEF Sound, Abstract!Next

LEMMA TellSound ==
  ASSUME NoneFail, Careful, IInv, Calm(Now), Tell
  PROVE  Sound
<1>1. PICK t \in GetFilePos(Now) : Finish(t, Reply("tell", t.at, <<>>, t))
  BY DEF Tell
<1>2. /\ Calm(t) /\ t.r.idata /\ t.r.pos = Pointer /\ t.at = Pointer
      /\ Held(t) = Contents
  BY <1>1, NowCalm, FilePosGives
<1> DEFINE reply == Reply("tell", t.at, <<>>, t)
<1>3. reply.op = "tell" /\ reply.at = Pointer /\ reply.err = FALSE /\ Finish(t, reply)
  BY <1>1, <1>2 DEF Reply, Calm
<1> HIDE DEF reply
<1>4. /\ Calm(Now)' /\ Contents' = Held(t) /\ Pointer' = PointerOf(t) /\ ret' = reply
  BY <1>2, <1>3, CalmAfter
<1>5. PointerOf(t) = Pointer
  BY <1>2 DEF PointerOf
<1>6. Abstract!Tell
  BY <1>2, <1>3, <1>4, <1>5 DEF Abstract!Tell, Abstract!Succeeds, Pointer
<1> QED BY <1>4, <1>6 DEF Sound, Abstract!Next

LEMMA CloseSound ==
  ASSUME NoneFail, IInv, Calm(Now), NEW t, t \in Fini(Now) \/ t = Now,
         Finish(t, Reply("flush", 0, <<>>, t))
  PROVE  Sound
<1> DEFINE reply == Reply("flush", 0, <<>>, t)
<1>1. /\ Calm(t) /\ Held(t) = Contents /\ PointerOf(t) \in {Pointer, 0}
  <2>1. CASE t = Now
    BY <2>1, NowCalm
  <2>2. CASE t \in Fini(Now)
    <3>1. /\ Calm(t) /\ Quiet(t) /\ ~t.r.idata
          /\ t.named = [exists |-> TRUE, samples |-> Contents]
      BY <2>2, FiniGives, NowCalm
    <3>2. Held(t) = Contents
      BY <3>1, QuietHolds
    <3> QED BY <3>1, <3>2 DEF PointerOf
  <2> QED BY <2>1, <2>2
<1>2. reply.op = "flush" /\ reply.err = FALSE /\ Finish(t, reply)
  BY <1>1 DEF Reply, Calm
<1> HIDE DEF reply
<1>3. /\ Calm(Now)' /\ Contents' = Held(t) /\ Pointer' = PointerOf(t) /\ ret' = reply
  BY <1>1, <1>2, CalmAfter
<1>4. Abstract!Flush
  BY <1>1, <1>2, <1>3 DEF Abstract!Flush, Abstract!Succeeds, Pointer
<1> QED BY <1>3, <1>4 DEF Sound, Abstract!Next

LEMMA FlushSound ==
  ASSUME NoneFail, IInv, Calm(Now), Flush
  PROVE  Sound
<1>1. PICK t \in IF r.idata \/ w.idata THEN Reported(Fini(Now)) ELSE {Now} :
        Finish(t, Reply("flush", 0, <<>>, t))
  BY DEF Flush
<1>2. t = Now \/ t \in Fini(Now)
  <2>1. CASE t \in Reported(Fini(Now))
    <3>1. PICK s \in Fini(Now) : t = IF s.end = "silent" THEN Stop(s, "error") ELSE s
      BY <2>1 DEF Reported
    <3>2. s.end = "ok"
      BY FiniGives DEF Calm
    <3> QED BY <3>1, <3>2
  <2> QED BY <1>1, <2>1
<1> QED BY <1>1, <1>2, CloseSound

LEMMA NextSound ==
  ASSUME NoneFail, Careful, IInv, Calm(Now), Next
  PROVE  Sound
<1>1. CASE \E s0 \in 0..High, n \in Counts : GetData(s0, n)
  BY <1>1, GetDataSound
<1>2. CASE \E n \in Counts : GetHere(n)
  BY <1>2, GetHereSound
<1>3. CASE \E s0 \in 0..High, n \in Counts, v \in Data : PutData(s0, [i \in 1..n |-> v])
  <2>1. PICK s0 \in 0..High, n \in Counts, v \in Data : PutData(s0, [i \in 1..n |-> v])
    BY <1>3
  <2> DEFINE vals == [i \in 1..n |-> v]
  <2>2. n \in Nat /\ n > 0 /\ v \in Value
    BY OopFieldAssumption DEF Counts, Value
  <2>3. vals \in Seq(Value) /\ Len(vals) > 0
    BY <2>2
  <2>4. PutData(s0, vals)
    BY <2>1
  <2> HIDE DEF vals
  <2> QED BY <2>3, <2>4, PutDataSound
<1>4. CASE \E target \in 0..High, write \in BOOLEAN : Seek(target, write)
  BY <1>4, SeekSound
<1>5. CASE Tell
  BY <1>5, TellSound
<1>6. CASE Flush
  BY <1>6, FlushSound
<1>7. CASE Rename
  BY <1>7, CloseSound DEF Rename
<1>8. CASE Kill
  BY <1>8 DEF Kill, NoneFail
<1> QED BY <1>1, <1>2, <1>3, <1>4, <1>5, <1>6, <1>7, <1>8 DEF Next

LEMMA InitCalm == ASSUME Existing, Init PROVE Calm(Now)
<1>1. IInv
  BY InitInv
<1>2. named.exists
  <2>1. PICK s \in InitFiles : named = [exists |-> s # <<>>, samples |-> s]
    BY DEF Init
  <2>2. (s # <<>>) = TRUE
    BY DEF Existing
  <2> QED BY <2>1, <2>2
<1>3. /\ Now.named = named /\ Now.r = r /\ Now.w = w /\ Now.run = run /\ Now.end = "ok"
      /\ Good(Now)
  BY <1>1, NowIs DEF Now
<1>4. Quiet(Now)
  BY <1>3 DEF Quiet, Init, Shut
<1> QED BY <1>2, <1>3, <1>4 DEF Calm, Init

-------------------------------------------------------------------------------
(* Where no system call fails, of a field whose file is there, and of callers *)
(* that keep to what Careful asks, the calls of a gzip field are those of an  *)
(* array of samples with an I/O pointer (ImplementsField): what is read is    *)
(* what was last written where it is read, before and after the temporary     *)
(* file replaced the old one; a write changes what it says and leaves the     *)
(* pointer behind it; and closing the field loses nothing (gzip.c, fpos.c,    *)
(* encoding.c, getdata.c, putdata.c, flush.c).                                *)
THEOREM Refinement ==
  ASSUME NoneFail, Existing, Careful
  PROVE  Spec => ImplementsField
<1> DEFINE Inv == IInv /\ Calm(Now)
<1>1. Init => Inv
  BY InitInv, InitCalm
<1>2. Init => Abstract!Init
  BY DEF Init, Abstract!Init, Reply
<1>3. Inv /\ [Next]_vars => Inv' /\ [Abstract!Next]_<<Contents, Pointer, ret>>
  <2>1. ASSUME Inv, Next PROVE Inv' /\ Abstract!Next
    BY <2>1, NextInv, NextSound DEF Sound
  <2>2. ASSUME Inv, UNCHANGED vars
        PROVE  Inv' /\ UNCHANGED <<Contents, Pointer, ret>>
    <3>1. IInv'
      BY <2>2, NextInv
    <3>2. UNCHANGED <<Now, Contents, Pointer, ret>>
      BY <2>2 DEF vars, Now, Contents, Writing, Pointer, Padded
    <3>3. Calm(Now)'
      BY <2>2, <3>2 DEF Calm, Good, Tied, Defined, Written, Quiet, Busy, Follows
    <3> QED BY <3>1, <3>2, <3>3
  <2> QED BY <2>1, <2>2
<1> HIDE DEF Inv
<1> QED BY <1>1, <1>2, <1>3, PTL DEF Spec, ImplementsField, Abstract!Spec, Pointer
================================================================================
