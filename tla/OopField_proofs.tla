---------------------------- MODULE OopField_proofs ----------------------------
(* The out-of-place writes of OopField are atomic: for any samples, old file, *)
(* calls and failing system calls, the named file is replaced only as a       *)
(* whole.                                                                     *)
EXTENDS OopField, SequenceTheorems, TLAPS

Value == Data \cup {Zero}

NamedType == [exists : BOOLEAN, samples : Seq(Value)]
ReadType == [idata : BOOLEAN, mode : SUBSET {"READ", "WRITE"}, pos : Nat, at : Nat]
WriteType == [idata : BOOLEAN, live : BOOLEAN, name : {"NULL", "temp", "stale"},
              full : BOOLEAN, at : Nat]
StType == [named : NamedType, temp : Seq(Value), r : ReadType, w : WriteType,
           run : {"ok", "invalid", "looping"},
           end : {"ok", "error", "silent", "missing", "refused"},
           data : Seq(Value), at : Nat]

(* The next call is defined, and how the two files then hang together.        *)
Defined(st) == st.run = "ok" /\ (st.w.idata => st.w.live)
Written(st) == st.w.idata /\ "WRITE" \in st.r.mode

Tied(st) ==
  /\ ~st.named.exists => st.named.samples = <<>>
  /\ st.r.idata => st.r.at <= Len(st.named.samples) /\ "READ" \in st.r.mode
  /\ Defined(st) =>
       /\ st.w.name = "temp" => st.w.idata
       /\ st.r.idata /\ "WRITE" \in st.r.mode => st.w.idata
       /\ Written(st) /\ ~st.r.idata => st.w.at <= Len(st.temp) \/ st.w.at <= st.r.pos

Good(st) == st \in StType /\ Tied(st)

(* What closing the field makes of it.                                        *)
Rest(st) == IF st.r.idata THEN From(st.named.samples, st.r.at) ELSE <<>>
Held(st) == IF Written(st) THEN Padded(st) \o Rest(st) ELSE st.named.samples

-------------------------------------------------------------------------------
(* Sequences.                                                                 *)

LEMMA PadIs ==
  ASSUME NEW n \in Int
  PROVE  /\ Pad(n) \in Seq(Value) /\ Len(Pad(n)) = (IF n > 0 THEN n ELSE 0)
         /\ \A i \in 1..Len(Pad(n)) : Pad(n)[i] = Zero
         /\ n <= 0 => Pad(n) = <<>>
<1>1. CASE n > 0
  BY <1>1 DEF Pad, Value
<1>2. CASE n <= 0
  <2>1. 1..n = 1..0
    BY <1>2
  <2>2. Pad(n) = [i \in 1..0 |-> Zero]
    BY <2>1 DEF Pad
  <2>3. Pad(n) = <<>>
    BY <2>2
  <2> QED BY <2>3, <1>2
<1> QED BY <1>1, <1>2

LEMMA PadOn ==
  ASSUME NEW a \in Nat, NEW b \in Nat
  PROVE  Pad(a + b) = Pad(a) \o Pad(b)
<1> DEFINE p == Pad(a)
           q == Pad(b)
           t == Pad(a + b)
<1>1. /\ p \in Seq(Value) /\ Len(p) = a /\ \A i \in 1..a : p[i] = Zero
  BY PadIs
<1>2. /\ q \in Seq(Value) /\ Len(q) = b /\ \A i \in 1..b : q[i] = Zero
  BY PadIs
<1>3. /\ t \in Seq(Value) /\ Len(t) = a + b /\ \A i \in 1..(a + b) : t[i] = Zero
  BY PadIs
<1> HIDE DEF p, q, t
<1>4. p \o q \in Seq(Value) /\ Len(p \o q) = a + b
  BY <1>1, <1>2
<1>5. ASSUME NEW i \in 1..(a + b) PROVE (p \o q)[i] = Zero
  <2>1. CASE i <= a
    BY <2>1, <1>1, <1>2
  <2>2. CASE ~(i <= a)
    <3>1. i - a \in 1..b
      BY <2>2
    <3>2. (p \o q)[i] = q[i - a]
      BY <2>2, <1>1, <1>2
    <3> QED BY <3>1, <3>2, <1>2
  <2> QED BY <2>1, <2>2
<1>6. t = p \o q
  BY <1>3, <1>4, <1>5, SeqEqual
<1> QED BY <1>6 DEF p, q, t

LEMMA FromIs ==
  ASSUME NEW s \in Seq(Value), NEW k \in Nat
  PROVE  From(s, k) \in Seq(Value) /\ (k >= Len(s) => From(s, k) = <<>>)
         /\ From(s, 0) = s /\ (k <= Len(s) => Len(From(s, k)) = Len(s) - k)
BY DEF From

(* The rest of s is what is read next and the rest after that.                *)
LEMMA FromSplit ==
  ASSUME NEW s \in Seq(Value), NEW k \in Nat, NEW n \in Nat, k + n <= Len(s)
  PROVE  /\ SubSeq(s, k + 1, k + n) \in Seq(Value) /\ Len(SubSeq(s, k + 1, k + n)) = n
         /\ From(s, k) = SubSeq(s, k + 1, k + n) \o From(s, k + n)
<1> DEFINE a == SubSeq(s, k + 1, k + n)
           b == From(s, k + n)
           c == From(s, k)
<1>1. a \in Seq(Value) /\ Len(a) = n /\ \A i \in 1..n : a[i] = s[k + i]
  OBVIOUS
<1>2. b \in Seq(Value) /\ Len(b) = Len(s) - (k + n) /\ \A i \in 1..Len(b) : b[i] = s[k + n + i]
  BY DEF From
<1>3. c \in Seq(Value) /\ Len(c) = Len(s) - k /\ \A i \in 1..Len(c) : c[i] = s[k + i]
  BY DEF From
<1> HIDE DEF a, b, c
<1>4. a \o b \in Seq(Value) /\ Len(a \o b) = Len(s) - k
  BY <1>1, <1>2, ConcatProperties
<1>5. ASSUME NEW i \in 1..Len(c) PROVE (a \o b)[i] = c[i]
  <2>1. i \in Nat /\ i <= n + Len(b)
    BY <1>2, <1>3
  <2>2. CASE i <= n
    <3>1. (a \o b)[i] = a[i]
      BY <2>1, <2>2, <1>1, <1>2
    <3> QED BY <3>1, <2>2, <1>1, <1>3
  <2>3. CASE ~(i <= n)
    <3>1. i - n \in 1..Len(b) /\ k + n + (i - n) = k + i
      BY <2>3, <1>2, <1>3
    <3>2. (a \o b)[i] = b[i - n]
      BY <2>1, <2>3, <1>1, <1>2
    <3>3. b[i - n] = s[k + i]
      BY <3>1, <1>2
    <3> QED BY <3>2, <3>3, <1>3
  <2> QED BY <2>2, <2>3
<1>6. c = a \o b
  BY <1>3, <1>4, <1>5, SeqEqual
<1> QED BY <1>1, <1>6 DEF a, b, c

LEMMA PaddedIs ==
  ASSUME NEW st \in StType
  PROVE  /\ Padded(st) \in Seq(Value)
         /\ Len(Padded(st)) = (IF st.w.at > Len(st.temp) THEN st.w.at ELSE Len(st.temp))
         /\ st.w.at <= Len(st.temp) => Padded(st) = st.temp
<1>1. st.temp \in Seq(Value) /\ st.w.at \in Nat /\ Len(st.temp) \in Nat
  BY DEF StType, WriteType
<1> DEFINE n == st.w.at - Len(st.temp)
<1>2. n \in Int
  BY <1>1
<1> HIDE DEF n
<1>3. /\ Pad(n) \in Seq(Value) /\ Len(Pad(n)) = (IF n > 0 THEN n ELSE 0)
      /\ n <= 0 => Pad(n) = <<>>
  BY <1>2, PadIs
<1>4. st.temp \o Pad(n) \in Seq(Value) /\ Len(st.temp \o Pad(n)) = Len(st.temp) + Len(Pad(n))
  BY <1>1, <1>3, ConcatProperties
<1>5. st.temp \o <<>> = st.temp
  BY <1>1, ConcatEmptySeq
<1>6. Padded(st) = st.temp \o Pad(n)
  BY DEF Padded, n
<1>7. st.w.at <= Len(st.temp) <=> n <= 0
  BY <1>1 DEF n
<1>8. Len(Padded(st)) = IF st.w.at > Len(st.temp) THEN st.w.at ELSE Len(st.temp)
  <2>1. Len(Padded(st)) = Len(st.temp) + (IF n > 0 THEN n ELSE 0)
    BY <1>3, <1>4, <1>6
  <2> DEFINE a == st.w.at
             b == Len(st.temp)
  <2>2. a \in Nat /\ b \in Nat /\ n = a - b
    BY <1>1 DEF n
  <2> HIDE DEF a, b
  <2>3. b + (IF n > 0 THEN n ELSE 0) = IF a > b THEN a ELSE b
    BY <2>2
  <2> QED BY <2>1, <2>3 DEF a, b
<1> QED BY <1>3, <1>4, <1>5, <1>6, <1>7, <1>8

-------------------------------------------------------------------------------
(* The steps of a call.                                                       *)

LEMMA StopGood ==
  ASSUME NEW st, Good(st), NEW how \in {"ok", "error", "silent", "missing", "refused"}
  PROVE  /\ Good(Stop(st, how)) /\ Stop(st, how).end = how
         /\ Stop(st, how).named = st.named /\ Held(Stop(st, how)) = Held(st)
         /\ Defined(Stop(st, how)) = Defined(st) /\ Written(Stop(st, how)) = Written(st)
         /\ Stop(st, how).r = st.r /\ Stop(st, how).w = st.w /\ Stop(st, how).temp = st.temp
<1> DEFINE t == Stop(st, how)
<1>1. /\ t \in StType /\ t.end = how /\ t.named = st.named /\ t.temp = st.temp
      /\ t.r = st.r /\ t.w = st.w /\ t.run = st.run
  BY DEF Good, StType, Stop
<1> HIDE DEF t
<1>2. Good(t) /\ Held(t) = Held(st) /\ Defined(t) = Defined(st) /\ Written(t) = Written(st)
  BY <1>1 DEF Good, Tied, Held, Rest, Padded, Defined, Written
<1> QED BY <1>1, <1>2 DEF t

(* The old file cannot be opened, and nothing changes, or it is at its start. *)
LEMMA OpenNamedGood ==
  ASSUME NEW st, Good(st), ~st.r.idata,
         NEW mode \in SUBSET {"READ", "WRITE"}, "READ" \in mode,
         Defined(st) /\ "WRITE" \in mode => st.w.idata,
         NEW t \in OpenNamed(st, mode)
  PROVE  /\ Good(t) /\ t.named = st.named /\ t.temp = st.temp /\ t.w = st.w
         /\ t.run = st.run
         /\ \/ /\ t.r = [idata |-> TRUE, mode |-> mode, pos |-> 0, at |-> 0]
               /\ t.end = st.end /\ st.named.exists
            \/ t.r = st.r /\ t.end = "error"
            \/ t.r = st.r /\ t.end = "missing" /\ ~st.named.exists
<1>1. CASE t = [st EXCEPT !.r = [idata |-> TRUE, mode |-> mode, pos |-> 0, at |-> 0]]
           /\ st.named.exists
  <2>1. /\ t.r = [idata |-> TRUE, mode |-> mode, pos |-> 0, at |-> 0]
        /\ t.named = st.named /\ t.temp = st.temp /\ t.w = st.w /\ t.run = st.run
        /\ t.end = st.end /\ t.data = st.data /\ t.at = st.at
    BY <1>1 DEF Good, StType
  <2>2. t.r \in ReadType
    BY <2>1 DEF ReadType
  <2>3. t \in StType
    BY <1>1, <2>2 DEF Good, StType
  <2>4. Tied(t)
    BY <2>1 DEF Good, StType, NamedType, Tied, Defined, Written
  <2> QED BY <1>1, <2>1, <2>3, <2>4 DEF Good
<1>2. CASE t = Stop(st, "error")
  BY <1>2, StopGood DEF Stop, Good, StType
<1>3. CASE t = Stop(st, "missing") /\ ~st.named.exists
  BY <1>3, StopGood DEF Stop, Good, StType
<1> QED BY <1>1, <1>2, <1>3 DEF OpenNamed, May

LEMMA SeekReadGood ==
  ASSUME NEW st, Good(st), st.r.idata, NEW count \in Nat
  PROVE  /\ Good(SeekRead(st, count)) /\ SeekRead(st, count).named = st.named
         /\ SeekRead(st, count).r.idata /\ SeekRead(st, count).end = st.end
<1> DEFINE n == Len(st.named.samples)
           t == [st EXCEPT !.r.pos = count, !.r.at = Fewer(count, n)]
<1>1. n \in Nat
  BY DEF Good, StType, NamedType
<1>2. /\ t.r = [idata |-> st.r.idata, mode |-> st.r.mode, pos |-> count,
                at |-> Fewer(count, n)]
      /\ t.named = st.named /\ t.temp = st.temp /\ t.w = st.w /\ t.run = st.run
      /\ t.end = st.end
  BY DEF Good, StType, ReadType
<1>3. Fewer(count, n) \in Nat /\ Fewer(count, n) <= n
  BY <1>1 DEF Fewer
<1>4. t.r \in ReadType
  <2> HIDE DEF n, t
  <2> QED BY <1>2, <1>3 DEF Good, StType, ReadType
<1>5. t \in StType
  BY <1>4 DEF Good, StType
<1> HIDE DEF t
<1>6. Tied(t)
  BY <1>2, <1>3 DEF Good, Tied, Defined, Written
<1> QED BY <1>2, <1>5, <1>6 DEF SeekRead, Good, t

LEMMA ReadNamedGood ==
  ASSUME NEW st, Good(st), st.r.idata, NEW n \in Nat
  PROVE  Good(ReadNamed(st, n)) /\ ReadNamed(st, n).named = st.named
<1> DEFINE s == st.named.samples
           a == st.r.at
           got == Fewer(n, Len(s) - a)
           t == ReadNamed(st, n)
<1>1. s \in Seq(Value) /\ a \in Nat /\ a <= Len(s) /\ st.r.pos \in Nat
  BY DEF Good, StType, NamedType, ReadType, Tied
<1>2. got \in Nat /\ a + got <= Len(s)
  <2> HIDE DEF s, a
  <2> QED BY <1>1 DEF Fewer
<1>3. /\ t.r = [idata |-> TRUE, mode |-> st.r.mode, pos |-> st.r.pos + got,
                at |-> a + got]
      /\ t.named = st.named /\ t.temp = st.temp /\ t.w = st.w /\ t.run = st.run
      /\ t.end = st.end /\ t.at = st.at /\ t.data = SubSeq(s, a + 1, a + got)
      /\ t = [st EXCEPT !.r = t.r, !.data = t.data]
  BY DEF Good, StType, ReadType, ReadNamed
<1>4. SubSeq(s, a + 1, a + got) \in Seq(Value)
  <2> HIDE DEF s, a, got
  <2> QED BY <1>1, <1>2, FromSplit
<1> HIDE DEF s, a, got, t
<1>5. t.r \in ReadType
  BY <1>1, <1>2, <1>3 DEF Good, StType, ReadType
<1>6. t \in StType
  BY <1>3, <1>4, <1>5 DEF Good, StType
<1>7. Tied(t)
  BY <1>1, <1>2, <1>3 DEF Good, Tied, Defined, Written, s
<1> QED BY <1>3, <1>6, <1>7 DEF Good, t

(* A write to the temporary file adds to what it will be, or is given up.     *)
LEMMA WriteTempIs ==
  ASSUME NEW st, Good(st), NEW vals \in Seq(Value), NEW t \in WriteTemp(st, vals)
  PROVE  /\ Good(t) /\ t.named = st.named /\ t.r = st.r /\ t.end = st.end
         /\ t.w.idata = st.w.idata /\ t.w.live = st.w.live /\ t.w.name = st.w.name
         /\ t.run = st.run /\ t.data \in Seq(Value)
         /\ t.w.full \/ (Padded(t) = Padded(st) \o vals /\ t.w.at <= Len(t.temp))
<1>1. CASE t = [st EXCEPT !.w.full = TRUE, !.data = <<>>]
  <2>1. /\ t.w = [idata |-> st.w.idata, live |-> st.w.live, name |-> st.w.name,
                  full |-> TRUE, at |-> st.w.at]
        /\ t.named = st.named /\ t.temp = st.temp /\ t.r = st.r /\ t.run = st.run
        /\ t.end = st.end /\ t.data = <<>> /\ t = [st EXCEPT !.w = t.w, !.data = <<>>]
    BY <1>1 DEF Good, StType, WriteType
  <2>2. t.w \in WriteType
    BY <2>1 DEF Good, StType, WriteType
  <2>3. t \in StType
    <3>1. <<>> \in Seq(Value)
      OBVIOUS
    <3> DEFINE none == <<>>
    <3>2. none \in Seq(Value) /\ t = [st EXCEPT !.w = t.w, !.data = none]
      BY <2>1, <3>1
    <3> HIDE DEF none
    <3> QED BY <2>2, <3>2 DEF Good, StType
  <2>4. Tied(t)
    BY <2>1 DEF Good, Tied, Defined, Written
  <2> QED BY <2>1, <2>3, <2>4 DEF Good
<1>2. CASE t = [st EXCEPT !.temp = Padded(st) \o vals, !.w.at = @ + Len(vals),
                          !.data = vals]
  <2> DEFINE p == Padded(st)
  <2>1. /\ p \in Seq(Value) /\ Len(p) \in Nat /\ st.w.at <= Len(p)
        /\ Len(vals) \in Nat /\ st.w.at \in Nat
    <3>1. p \in Seq(Value) /\ st.w.at \in Nat /\ Len(st.temp) \in Nat
          /\ Len(p) = (IF st.w.at > Len(st.temp) THEN st.w.at ELSE Len(st.temp))
      BY PaddedIs DEF Good, StType, WriteType
    <3> HIDE DEF p
    <3> QED BY <3>1
  <2>2. /\ t.w = [idata |-> st.w.idata, live |-> st.w.live, name |-> st.w.name,
                  full |-> st.w.full, at |-> st.w.at + Len(vals)]
        /\ t.temp = p \o vals /\ t.data = vals
        /\ t.named = st.named /\ t.r = st.r /\ t.run = st.run /\ t.end = st.end
        /\ t.at = st.at /\ t = [st EXCEPT !.temp = t.temp, !.w = t.w, !.data = vals]
    BY <1>2 DEF Good, StType, WriteType
  <2> HIDE DEF p
  <2>3. p \o vals \in Seq(Value) /\ Len(p \o vals) = Len(p) + Len(vals)
    BY <2>1, ConcatProperties
  <2>4. t.w \in WriteType
    BY <2>1, <2>2 DEF Good, StType, WriteType
  <2>5. t \in StType
    BY <2>2, <2>3, <2>4 DEF Good, StType
  <2>6. t.w.at <= Len(t.temp)
    BY <2>1, <2>2, <2>3
  <2>7. Tied(t)
    BY <2>2, <2>6 DEF Good, Tied, Defined, Written
  <2>8. Padded(t) = p \o vals
    BY <2>2, <2>5, <2>6, PaddedIs
  <2> QED BY <2>2, <2>5, <2>6, <2>7, <2>8 DEF Good, p
<1> QED BY <1>1, <1>2 DEF WriteTemp

LEMMA SeekWriteIs ==
  ASSUME NEW st, Good(st), NEW count \in Nat, NEW t \in SeekWrite(st, count)
  PROVE  /\ Good(t) /\ t.named = st.named /\ t.r.idata = st.r.idata
         /\ t.r.mode = st.r.mode /\ t.w.idata = st.w.idata /\ t.run = st.run
         /\ t.w.live = st.w.live
         /\ \/ t = st
            \/ t.end = "refused"
            \/ /\ t.end = st.end /\ t.w.at = count /\ t.temp = st.temp
               /\ count >= Len(st.temp)
<1>1. CASE t = st
  BY <1>1
<1>2. CASE t = [Stop(st, "refused") EXCEPT !.w.at = Len(st.temp)]
  <2>0. Len(st.temp) \in Nat
    BY DEF Good, StType
  <2>1. /\ t.w = [idata |-> st.w.idata, live |-> st.w.live, name |-> st.w.name,
                  full |-> st.w.full, at |-> Len(st.temp)]
        /\ t.named = st.named /\ t.temp = st.temp /\ t.r = st.r /\ t.run = st.run
        /\ t.end = "refused" /\ t = [st EXCEPT !.end = "refused", !.w = t.w]
    BY <1>2 DEF Good, StType, WriteType, Stop
  <2>2. t.w \in WriteType
    BY <2>0, <2>1 DEF Good, StType, WriteType
  <2>3. t \in StType
    BY <2>1, <2>2 DEF Good, StType
  <2>4. Tied(t)
    BY <2>0, <2>1 DEF Good, Tied, Defined, Written
  <2> QED BY <2>1, <2>3, <2>4 DEF Good
<1>3. CASE t = [st EXCEPT !.r.pos = count, !.w.at = count] /\ ~(count < Len(st.temp))
           /\ ~(st.r.pos = count)
  <2>1. /\ t.w = [idata |-> st.w.idata, live |-> st.w.live, name |-> st.w.name,
                  full |-> st.w.full, at |-> count]
        /\ t.r = [idata |-> st.r.idata, mode |-> st.r.mode, pos |-> count,
                  at |-> st.r.at]
        /\ t.named = st.named /\ t.temp = st.temp /\ t.run = st.run
        /\ t.end = st.end /\ t = [st EXCEPT !.r = t.r, !.w = t.w]
    BY <1>3 DEF Good, StType, WriteType, ReadType
  <2>2. t.w \in WriteType /\ t.r \in ReadType
    BY <2>1 DEF Good, StType, WriteType, ReadType
  <2>3. t \in StType
    BY <2>1, <2>2 DEF Good, StType
  <2>4. Tied(t)
    BY <2>1 DEF Good, Tied, Defined, Written
  <2>5. count >= Len(st.temp)
    BY <1>3 DEF Good, StType
  <2> QED BY <2>1, <2>3, <2>4, <2>5 DEF Good
<1> QED BY <1>1, <1>2, <1>3 DEF SeekWrite

-------------------------------------------------------------------------------
(* Closing the field.                                                         *)

(* The rest of the old file is behind what was written, or the loop never     *)
(* ends.                                                                      *)
LEMMA CopyRestIs ==
  ASSUME NEW st, Good(st), Defined(st), Written(st), st.end = "ok",
         NEW t \in CopyRest(st)
  PROVE  /\ Good(t) /\ t.named = st.named
         /\ \/ /\ t.end = "ok" /\ t.run = "ok" /\ t.w.idata /\ t.w.live
               /\ t.w.name = st.w.name /\ t.r.idata = st.r.idata
               /\ t.r.mode = st.r.mode /\ Padded(t) = Held(st)
            \/ t.end = "error" /\ t.run = "looping"
<1> DEFINE s == st.named.samples
           rest == From(s, st.r.at)
           read == [st EXCEPT !.r.at = Len(s), !.r.pos = @ + Len(rest)]
<1>1. s \in Seq(Value) /\ Len(s) \in Nat /\ st.r.at \in Nat /\ st.r.pos \in Nat
      /\ Padded(st) \in Seq(Value) /\ rest \in Seq(Value) /\ Len(rest) \in Nat
  <2>1. s \in Seq(Value) /\ st.r.at \in Nat /\ st.r.pos \in Nat
    BY DEF Good, StType, NamedType, ReadType
  <2>2. Padded(st) \in Seq(Value)
    BY PaddedIs DEF Good
  <2>3. rest \in Seq(Value)
    BY <2>1, FromIs
  <2> HIDE DEF s, rest
  <2> QED BY <2>1, <2>2, <2>3
<1>2. Padded(st) \o <<>> = Padded(st)
  BY <1>1, ConcatEmptySeq
<1>3. CASE t = st /\ (~st.r.idata \/ rest = <<>>)
  <2>1. Held(st) = Padded(st) \o <<>>
    BY <1>3 DEF Held, Rest
  <2> QED BY <1>2, <1>3, <2>1 DEF Defined, Written
<1>4. CASE st.r.idata /\ \E u \in WriteTemp(read, rest) :
             t = IF u.w.full THEN [Stop(u, "error") EXCEPT !.run = "looping"] ELSE u
  <2>1. /\ read.r = [idata |-> st.r.idata, mode |-> st.r.mode,
                     pos |-> st.r.pos + Len(rest), at |-> Len(s)]
        /\ read.named = st.named /\ read.temp = st.temp /\ read.w = st.w
        /\ read.run = st.run /\ read.end = st.end
        /\ read = [st EXCEPT !.r = read.r]
    BY DEF Good, StType, ReadType
  <2> HIDE DEF read
  <2>2. read.r \in ReadType
    <3> HIDE DEF s, rest
    <3> QED BY <1>1, <2>1 DEF Good, StType, ReadType
  <2>3. read \in StType
    BY <2>1, <2>2 DEF Good, StType
  <2>4. Good(read) /\ Padded(read) = Padded(st)
    <3>1. Tied(read)
      <4>1. read.r.at <= Len(read.named.samples)
        BY <1>1, <2>1
      <4> QED BY <1>4, <2>1, <4>1 DEF Good, Tied, Defined, Written
    <3> QED BY <2>1, <2>3, <3>1 DEF Good, Padded
  <2>5. PICK u \in WriteTemp(read, rest) :
          t = IF u.w.full THEN [Stop(u, "error") EXCEPT !.run = "looping"] ELSE u
    BY <1>4
  <2> HIDE DEF rest
  <2>6. /\ Good(u) /\ u.named = read.named /\ u.r = read.r /\ u.end = read.end
        /\ u.w.idata = read.w.idata /\ u.w.live = read.w.live
        /\ u.w.name = read.w.name /\ u.run = read.run
        /\ u.w.full \/ Padded(u) = Padded(read) \o rest
    BY <1>1, <2>4, WriteTempIs
  <2>7. CASE u.w.full
    <3>1. /\ t.named = u.named /\ t.r = u.r /\ t.w = u.w /\ t.temp = u.temp
          /\ t.end = "error" /\ t.run = "looping" /\ t \in StType
      BY <2>5, <2>6, <2>7 DEF Good, StType, Stop
    <3>2. Tied(t)
      BY <2>6, <3>1 DEF Good, Tied, Defined
    <3> QED BY <2>1, <2>6, <3>1, <3>2 DEF Good
  <2>8. CASE ~u.w.full
    <3>1. t = u
      BY <2>5, <2>8
    <3>2. Held(st) = Padded(st) \o rest
      BY <1>4 DEF Held, Rest, rest
    <3> QED BY <2>1, <2>4, <2>6, <2>8, <3>1, <3>2 DEF Defined, Written
  <2> QED BY <2>7, <2>8
<1>5. (t = st /\ (~st.r.idata \/ rest = <<>>))
      \/ (st.r.idata /\ \E u \in WriteTemp(read, rest) :
            t = IF u.w.full THEN [Stop(u, "error") EXCEPT !.run = "looping"] ELSE u)
  BY DEF CopyRest
<1> QED BY <1>3, <1>4, <1>5

(* Closed, the temporary file has its final contents.                         *)
LEMMA CloseTempIs ==
  ASSUME NEW st, Good(st), st.w.idata, NEW t \in CloseTemp(st)
  PROVE  /\ t \in StType /\ t.named = st.named /\ t.r = st.r /\ t.run = st.run
         /\ \/ t.end = "silent" /\ t.w.idata /\ ~t.w.live
            \/ /\ t.end = st.end /\ t.temp = Padded(st) /\ ~t.w.idata
               /\ t.w.name = st.w.name
<1>1. CASE t = [Stop(st, "silent") EXCEPT !.w.live = FALSE]
  <2>1. /\ t.w = [idata |-> st.w.idata, live |-> FALSE, name |-> st.w.name,
                  full |-> st.w.full, at |-> st.w.at]
        /\ t.named = st.named /\ t.r = st.r /\ t.run = st.run /\ t.end = "silent"
        /\ t = [st EXCEPT !.end = "silent", !.w = t.w]
    BY <1>1 DEF Good, StType, WriteType, Stop
  <2>2. t.w \in WriteType
    BY <2>1 DEF Good, StType, WriteType
  <2>3. t \in StType
    BY <2>1, <2>2 DEF Good, StType
  <2> QED BY <2>1, <2>3
<1>2. CASE t = [st EXCEPT !.temp = Padded(st),
                          !.w.idata = FALSE, !.w.live = FALSE, !.w.full = FALSE]
  <2>0. Padded(st) \in Seq(Value)
    BY PaddedIs DEF Good
  <2> DEFINE p == Padded(st)
  <2>1. /\ t.w = [idata |-> FALSE, live |-> FALSE, name |-> st.w.name,
                  full |-> FALSE, at |-> st.w.at]
        /\ t.named = st.named /\ t.r = st.r /\ t.run = st.run /\ t.end = st.end
        /\ t.temp = p /\ t = [st EXCEPT !.temp = p, !.w = t.w]
    BY <1>2 DEF Good, StType, WriteType
  <2> HIDE DEF p
  <2>2. t.w \in WriteType
    BY <2>1 DEF Good, StType, WriteType
  <2>3. p \in Seq(Value)
    BY <2>0 DEF p
  <2>4. t \in StType
    BY <2>1, <2>2, <2>3 DEF Good, StType
  <2> QED BY <2>1, <2>4 DEF p
<1> QED BY <1>1, <1>2 DEF CloseTemp

LEMMA CloseNamedIs ==
  ASSUME NEW st \in StType
  PROVE  LET t == CloseNamed(st)
         IN /\ t \in StType /\ t.named = st.named /\ t.temp = st.temp
            /\ t.w = st.w /\ t.run = st.run /\ t.end = st.end /\ ~t.r.idata
            /\ t.r.mode = (IF st.r.idata THEN {} ELSE st.r.mode)
<1> DEFINE t == CloseNamed(st)
<1>1. CASE st.r.idata
  <2>1. /\ t.r = [idata |-> FALSE, mode |-> {}, pos |-> st.r.pos, at |-> st.r.at]
        /\ t.named = st.named /\ t.temp = st.temp /\ t.w = st.w
        /\ t.run = st.run /\ t.end = st.end /\ t = [st EXCEPT !.r = t.r]
    BY <1>1 DEF StType, ReadType, CloseNamed
  <2> HIDE DEF t
  <2>2. t.r \in ReadType
    BY <2>1 DEF StType, ReadType
  <2>3. t \in StType
    BY <2>1, <2>2 DEF StType
  <2> QED BY <1>1, <2>1, <2>3 DEF t
<1>2. CASE ~st.r.idata
  BY <1>2 DEF CloseNamed
<1> QED BY <1>1, <1>2

(* The temporary file replaces the named one, or the dirfile becomes invalid. *)
LEMMA MoveOverIs ==
  ASSUME NEW st \in StType, NEW t \in MoveOver(st)
  PROVE  /\ t \in StType /\ t.r = st.r /\ t.w.idata = st.w.idata
         /\ \/ t.end = "error" /\ t.run = "invalid" /\ t.named = st.named
            \/ /\ st.w.name = "temp" /\ t.end = st.end /\ t.run = st.run
               /\ t.named = [exists |-> TRUE, samples |-> st.temp]
               /\ t.w.name = "NULL" /\ t.w.live = st.w.live
<1>1. CASE t = [Stop(st, "error") EXCEPT !.run = "invalid", !.w.name = "NULL",
                                         !.temp = <<>>]
  <2>1. /\ t.w = [idata |-> st.w.idata, live |-> st.w.live, name |-> "NULL",
                  full |-> st.w.full, at |-> st.w.at]
        /\ t.r = st.r /\ t.named = st.named /\ t.run = "invalid" /\ t.end = "error"
        /\ t = [st EXCEPT !.end = "error", !.run = "invalid", !.w = t.w, !.temp = <<>>]
    BY <1>1 DEF StType, WriteType, Stop
  <2>2. t.w \in WriteType
    BY <2>1 DEF StType, WriteType
  <2>3. t \in StType
    <3> DEFINE none == <<>>
    <3>1. none \in Seq(Value)
      OBVIOUS
    <3>2. t = [st EXCEPT !.end = "error", !.run = "invalid", !.w = t.w, !.temp = none]
      BY <2>1
    <3> HIDE DEF none
    <3> QED BY <2>2, <3>1, <3>2 DEF StType
  <2> QED BY <2>1, <2>3
<1>2. CASE t = [st EXCEPT !.named = [exists |-> TRUE, samples |-> st.temp],
                          !.temp = <<>>, !.w.name = "NULL"] /\ st.w.name = "temp"
  <2>1. /\ t.w = [idata |-> st.w.idata, live |-> st.w.live, name |-> "NULL",
                  full |-> st.w.full, at |-> st.w.at]
        /\ t.r = st.r /\ t.named = [exists |-> TRUE, samples |-> st.temp]
        /\ t.run = st.run /\ t.end = st.end
        /\ t = [st EXCEPT !.named = t.named, !.w = t.w, !.temp = <<>>]
    BY <1>2 DEF StType, WriteType
  <2>2. t.w \in WriteType /\ t.named \in NamedType
    BY <2>1 DEF StType, WriteType, NamedType
  <2>3. t \in StType
    <3> DEFINE none == <<>>
    <3>1. none \in Seq(Value)
      OBVIOUS
    <3>2. t = [st EXCEPT !.named = t.named, !.w = t.w, !.temp = none]
      BY <2>1
    <3> HIDE DEF none
    <3> QED BY <2>2, <3>1, <3>2 DEF StType
  <2> QED BY <1>2, <2>1, <2>3
<1> QED BY <1>1, <1>2 DEF MoveOver

(* Closing the field leaves the named file alone or makes it what the field   *)
(* holds.                                                                     *)
LEMMA FiniIs ==
  ASSUME NEW st, Good(st), Defined(st), st.end = "ok", NEW t \in Fini(st)
  PROVE  /\ Good(t)
         /\ t.named = st.named \/ t.named = [exists |-> TRUE, samples |-> Held(st)]
         /\ t.end = "ok" =>
              /\ Defined(t) /\ ~Written(t) /\ ~t.r.idata
              /\ t.named = IF Written(st) THEN [exists |-> TRUE, samples |-> Held(st)]
                                          ELSE st.named
         /\ "WRITE" \notin st.r.mode => t.w = st.w /\ t.end = "ok"
         /\ t.end = "silent" => t.w.idata /\ ~t.w.live
<1>0. st \in StType
  BY DEF Good
<1>1. CASE "WRITE" \notin st.r.mode
  <2>1. t = CloseNamed(st)
    BY <1>1 DEF Fini
  <2>2. /\ t \in StType /\ t.named = st.named /\ t.temp = st.temp
        /\ t.w = st.w /\ t.run = st.run /\ t.end = st.end /\ ~t.r.idata
        /\ t.r.mode = (IF st.r.idata THEN {} ELSE st.r.mode)
    BY <1>0, <2>1, CloseNamedIs
  <2>3. ~Written(st) /\ ~Written(t) /\ Defined(t)
    BY <1>1, <2>2 DEF Written, Defined
  <2>4. Tied(t)
    BY <2>2, <2>3 DEF Good, Tied, Defined
  <2> QED BY <1>1, <2>2, <2>3, <2>4 DEF Good
<1>2. CASE "WRITE" \in st.r.mode /\ ~st.w.idata
  <2>1. ~Written(st) /\ ~st.r.idata /\ st.w.name # "temp"
    BY <1>2 DEF Written, Good, Tied
  <2>2. CloseNamed(st) = st
    BY <2>1 DEF CloseNamed
  <2>3. t \in MoveOver(st)
    <3>1. Fini(st) = Then({CloseNamed(st)}, MoveOver)
      BY <1>2 DEF Fini
    <3> QED BY <2>2, <3>1 DEF Then
  <2>4. /\ t \in StType /\ t.r = st.r /\ t.end = "error" /\ t.run = "invalid"
        /\ t.named = st.named
    BY <1>0, <2>1, <2>3, MoveOverIs
  <2>5. Tied(t)
    BY <2>4 DEF Good, Tied, Defined
  <2> QED BY <1>2, <2>4, <2>5 DEF Good
<1>3. CASE "WRITE" \in st.r.mode /\ st.w.idata
  <2> DEFINE copied == CopyRest(st)
             shut == Then(copied, CloseTemp)
             done == {IF s.end = "ok" THEN CloseNamed(s) ELSE s : s \in shut}
  <2>1. Written(st)
    BY <1>3 DEF Written
  <2>2. t \in Then(done, MoveOver)
    BY <1>3 DEF Fini
  <2>3. ASSUME NEW s \in shut
        PROVE  /\ s \in StType /\ s.named = st.named
               /\ \/ s.end # "ok" /\ Good(s) /\ (s.end = "silent" => s.w.idata /\ ~s.w.live)
                  \/ /\ s.end = "ok" /\ s.run = "ok" /\ ~s.w.idata
                     /\ s.temp = Held(st)
    <3>1. PICK c \in copied :
            (c.end # "ok" /\ s = c) \/ (c.end = "ok" /\ s \in CloseTemp(c))
      BY DEF Then
    <3>2. CASE c.end # "ok" /\ s = c
      BY <2>1, <3>2, CopyRestIs DEF Good
    <3>3. CASE c.end = "ok" /\ s \in CloseTemp(c)
      <4>1. /\ Good(c) /\ c.named = st.named /\ c.run = "ok" /\ c.w.idata
            /\ Padded(c) = Held(st)
        BY <2>1, <3>3, CopyRestIs
      <4>2. /\ s \in StType /\ s.named = c.named /\ s.r = c.r /\ s.run = c.run
            /\ \/ s.end = "silent" /\ s.w.idata /\ ~s.w.live
               \/ s.end = c.end /\ s.temp = Padded(c) /\ ~s.w.idata
        BY <3>3, <4>1, CloseTempIs
      <4>3. s.end = "silent" => Good(s)
        BY <4>1, <4>2, <3>3 DEF Good, Tied, Defined
      <4> QED BY <3>3, <4>1, <4>2, <4>3
    <3> QED BY <3>1, <3>2, <3>3
  <2> HIDE DEF copied, shut
  <2>4. PICK s \in shut : \/ s.end # "ok" /\ t = s
                          \/ s.end = "ok" /\ t \in MoveOver(CloseNamed(s))
    <3>1. \A s \in shut : s.end = "ok" => CloseNamed(s).end = "ok"
      BY <2>3, CloseNamedIs
    <3> QED BY <2>2, <3>1 DEF Then
  <2>5. CASE s.end # "ok" /\ t = s
    BY <1>3, <2>3, <2>5
  <2>6. CASE s.end = "ok" /\ t \in MoveOver(CloseNamed(s))
    <3> DEFINE c == CloseNamed(s)
    <3>1. /\ c \in StType /\ c.named = st.named /\ c.temp = Held(st)
          /\ ~c.w.idata /\ c.run = "ok" /\ c.end = "ok" /\ ~c.r.idata
      BY <2>3, <2>6, CloseNamedIs
    <3> HIDE DEF c
    <3>2. /\ t \in StType /\ t.r = c.r /\ t.w.idata = c.w.idata
          /\ \/ t.end = "error" /\ t.run = "invalid" /\ t.named = c.named
             \/ /\ t.end = c.end /\ t.run = c.run
                /\ t.named = [exists |-> TRUE, samples |-> c.temp]
                /\ t.w.name = "NULL"
      BY <2>6, <3>1, MoveOverIs DEF c
    <3>3. Tied(t)
      BY <3>1, <3>2 DEF Good, Tied, Defined, Written
    <3> QED BY <1>3, <2>1, <3>1, <3>2, <3>3 DEF Good, Defined, Written
  <2> QED BY <2>4, <2>5, <2>6
<1> QED BY <1>1, <1>2, <1>3

-------------------------------------------------------------------------------
(* Opening it.                                                                *)

(* The named file is the old one, or replaced by what the field holds.        *)
Replaced(st, t) == t.named.samples = Held(st)
Whole(st, t) == t.named = st.named \/ Replaced(st, t)

LEMMA InitReadIs ==
  ASSUME NEW st, Good(st), Defined(st), st.end = "ok", NEW t \in InitRead(st)
  PROVE  /\ Good(t) /\ Whole(st, t)
         /\ st.r.idata /\ "READ" \in st.r.mode => t = st
         /\ t.end = "ok" => Defined(t) /\ t.r.idata /\ "READ" \in t.r.mode
         /\ t.end = "silent" => t.w.idata /\ ~t.w.live
<1>1. CASE st.r.idata /\ "READ" \in st.r.mode
  BY <1>1 DEF InitRead, Whole
<1>2. CASE ~(st.r.idata /\ "READ" \in st.r.mode)
  <2> DEFINE S == IF (st.r.idata \/ st.w.idata) /\ "WRITE" \in st.r.mode
                  THEN Fini(st) ELSE {st}
  <2>0. ~st.r.idata
    BY <1>2 DEF Good, Tied
  <2>1. ASSUME NEW s \in S
        PROVE  /\ Good(s) /\ Whole(st, s) /\ (s.end = "ok" => Defined(s) /\ ~s.r.idata)
               /\ s.end = "silent" => s.w.idata /\ ~s.w.live
    <3>1. CASE s = st
      BY <2>0, <3>1 DEF Whole
    <3>2. CASE s \in Fini(st)
      <4>1. /\ Good(s)
            /\ s.named = st.named \/ s.named = [exists |-> TRUE, samples |-> Held(st)]
            /\ s.end = "ok" => Defined(s) /\ ~s.r.idata
            /\ s.end = "silent" => s.w.idata /\ ~s.w.live
        BY <3>2, FiniIs
      <4>2. Whole(st, s)
        BY <4>1 DEF Whole, Replaced
      <4> QED BY <4>1, <4>2
    <3> QED BY <3>1, <3>2
  <2>2. PICK s \in S :
          \/ s.end # "ok" /\ t = s
          \/ s.end = "ok" /\ \E u \in OpenNamed(s, {"READ"}) :
                               t = IF u.end = "missing" THEN Stop(u, "error") ELSE u
    BY <1>2 DEF InitRead, Then
  <2> HIDE DEF S
  <2>3. CASE s.end # "ok" /\ t = s
    BY <1>2, <2>1, <2>3
  <2>4. CASE s.end = "ok" /\ \E u \in OpenNamed(s, {"READ"}) :
                               t = IF u.end = "missing" THEN Stop(u, "error") ELSE u
    <3>1. PICK u \in OpenNamed(s, {"READ"}) :
            t = IF u.end = "missing" THEN Stop(u, "error") ELSE u
      BY <2>4
    <3>2. Good(s) /\ Whole(st, s) /\ Defined(s) /\ ~s.r.idata
      BY <2>1, <2>4
    <3>3. /\ Good(u) /\ u.named = s.named /\ u.temp = s.temp /\ u.w = s.w
          /\ u.run = s.run
          /\ \/ u.r = [idata |-> TRUE, mode |-> {"READ"}, pos |-> 0, at |-> 0]
                /\ u.end = s.end
             \/ u.end = "error"
             \/ u.end = "missing"
      <4> DEFINE ro == {"READ"}
      <4>1. ro \in SUBSET {"READ", "WRITE"} /\ "READ" \in ro /\ "WRITE" \notin ro
        OBVIOUS
      <4>2. u \in OpenNamed(s, ro)
        BY <3>1
      <4> HIDE DEF ro
      <4>3. /\ Good(u) /\ u.named = s.named /\ u.temp = s.temp /\ u.w = s.w
            /\ u.run = s.run
            /\ \/ u.r = [idata |-> TRUE, mode |-> ro, pos |-> 0, at |-> 0]
                  /\ u.end = s.end
               \/ u.end = "error"
               \/ u.end = "missing"
        BY <3>2, <4>1, <4>2, OpenNamedGood
      <4> QED BY <4>3 DEF ro
    <3>4. Good(t) /\ t.named = u.named /\ t.run = u.run /\ t.w = u.w
          /\ t.r = u.r /\ (u.end = "missing" => t.end = "error")
          /\ (u.end # "missing" => t = u)
      BY <3>1, <3>3, StopGood DEF Stop, Good, StType
    <3>5. Whole(st, t)
      BY <3>2, <3>3, <3>4 DEF Whole, Replaced
    <3> QED BY <1>2, <2>4, <3>2, <3>3, <3>4, <3>5 DEF Defined
  <2> QED BY <2>2, <2>3, <2>4
<1> QED BY <1>1, <1>2

LEMMA OpenTempIs ==
  ASSUME NEW st, Good(st), ~st.r.idata, NEW t \in OpenTemp(st)
  PROVE  /\ Good(t) /\ t.named = st.named /\ t.r = st.r /\ t.run = st.run
         /\ \/ t.end = "silent" /\ t.w.idata = st.w.idata /\ t.w.live = st.w.live
            \/ /\ t.end = st.end /\ t.temp = <<>> /\ t.w.idata /\ t.w.live
               /\ t.w.at = 0
<1>1. CASE t = [Stop(st, "silent") EXCEPT !.w.name = "stale"]
  <2>1. /\ t.w = [idata |-> st.w.idata, live |-> st.w.live, name |-> "stale",
                  full |-> st.w.full, at |-> st.w.at]
        /\ t.named = st.named /\ t.temp = st.temp /\ t.r = st.r /\ t.run = st.run
        /\ t.end = "silent" /\ t = [st EXCEPT !.end = "silent", !.w = t.w]
    BY <1>1 DEF Good, StType, WriteType, Stop
  <2>2. t.w \in WriteType
    BY <2>1 DEF Good, StType, WriteType
  <2>3. t \in StType
    BY <2>1, <2>2 DEF Good, StType
  <2>4. Tied(t)
    BY <2>1 DEF Good, Tied, Defined, Written
  <2> QED BY <2>1, <2>3, <2>4 DEF Good
<1>2. CASE t = [st EXCEPT !.temp = <<>>,
                  !.w = [idata |-> TRUE, live |-> TRUE, name |-> "temp",
                         full |-> FALSE, at |-> 0]]
  <2> DEFINE none == <<>>
  <2>1. none \in Seq(Value) /\ Len(none) = 0
    OBVIOUS
  <2>2. /\ t.w = [idata |-> TRUE, live |-> TRUE, name |-> "temp",
                  full |-> FALSE, at |-> 0]
        /\ t.named = st.named /\ t.temp = none /\ t.r = st.r /\ t.run = st.run
        /\ t.end = st.end /\ t = [st EXCEPT !.temp = none, !.w = t.w]
    BY <1>2 DEF Good, StType, WriteType
  <2> HIDE DEF none
  <2>3. t.w \in WriteType
    BY <2>2 DEF WriteType
  <2>4. t \in StType
    BY <2>1, <2>2, <2>3 DEF Good, StType
  <2>5. Tied(t)
    BY <2>1, <2>2 DEF Good, Tied, Defined, Written
  <2> QED BY <2>2, <2>4, <2>5 DEF Good, none
<1> QED BY <1>1, <1>2 DEF OpenTemp, May

(* The field is opened for writing at its start, or was and is as it was.     *)
LEMMA InitWriteIs ==
  ASSUME NEW st, Good(st), Defined(st), st.end = "ok", NEW t \in InitWrite(st)
  PROVE  /\ Good(t) /\ t.named = st.named
         /\ t.end = "ok" =>
              /\ Defined(t) /\ Written(t) /\ Held(t) = Held(st)
              /\ ~Written(st) /\ st.named.exists => t.r.idata
         /\ t.end = "silent" => Defined(t) /\ ~Written(t) /\ ~t.r.idata
<1>1. CASE st.w.idata /\ "WRITE" \in st.r.mode
  BY <1>1 DEF InitWrite, Written
<1>2. CASE ~(st.w.idata /\ "WRITE" \in st.r.mode)
  <2> DEFINE S == IF (st.r.idata \/ st.w.idata) /\ "WRITE" \notin st.r.mode
                  THEN Fini(st) ELSE {st}
             rw == {"READ", "WRITE"}
             Last(s) == IF s.r.idata
                        THEN {s}
                        ELSE {IF u.end = "missing"
                              THEN [Stop(u, "ok") EXCEPT !.r.mode = rw]
                              ELSE u : u \in OpenNamed(s, rw)}
             opened == Then(S, OpenTemp)
  <2>1. ASSUME NEW s \in S
        PROVE  Good(s) /\ s.end = "ok" /\ Defined(s) /\ ~s.r.idata
               /\ s.named = st.named /\ ~Written(s)
    <3>1. CASE (st.r.idata \/ st.w.idata) /\ "WRITE" \notin st.r.mode
      BY <3>1, FiniIs DEF Written
    <3>2. CASE ~((st.r.idata \/ st.w.idata) /\ "WRITE" \notin st.r.mode)
      <4>1. s = st
        BY <3>2
      <4>2. ~st.r.idata
        BY <1>2, <3>2 DEF Good, Tied
      <4> QED BY <1>2, <4>1, <4>2 DEF Written
    <3> QED BY <3>1, <3>2
  <2>2. ~Written(st) /\ Held(st) = st.named.samples
    BY <1>2 DEF Written, Held
  <2>3. t \in Then(opened, Last)
    BY <1>2 DEF InitWrite
  <2> HIDE DEF S
  <2>4. ASSUME NEW o \in opened
        PROVE  /\ Good(o) /\ o.named = st.named /\ ~o.r.idata
               /\ o.end = "ok" => /\ o.temp = <<>> /\ o.w.idata /\ o.w.live
                                  /\ o.w.at = 0 /\ o.run = "ok"
               /\ o.end = "silent" => Defined(o) /\ ~Written(o)
               /\ o.end \in {"ok", "silent"}
    <3>1. PICK s \in S : o \in OpenTemp(s)
      BY <2>1 DEF Then
    <3>2. /\ Good(s) /\ s.end = "ok" /\ Defined(s) /\ ~s.r.idata /\ s.named = st.named
          /\ ~Written(s)
      BY <2>1
    <3>3. /\ Good(o) /\ o.named = s.named /\ o.r = s.r /\ o.run = s.run
          /\ \/ o.end = "silent" /\ o.w.idata = s.w.idata /\ o.w.live = s.w.live
             \/ /\ o.end = s.end /\ o.temp = <<>> /\ o.w.idata /\ o.w.live
                /\ o.w.at = 0
      BY <3>1, <3>2, OpenTempIs
    <3> QED BY <3>2, <3>3 DEF Defined, Written
  <2> HIDE DEF opened
  <2>5. PICK o \in opened : (o.end # "ok" /\ t = o) \/ (o.end = "ok" /\ t \in Last(o))
    BY <2>3 DEF Then
  <2>6. CASE o.end # "ok" /\ t = o
    BY <2>4, <2>6
  <2>7. CASE o.end = "ok" /\ t \in Last(o)
    <3>1. /\ Good(o) /\ o.named = st.named /\ ~o.r.idata /\ o.temp = <<>>
          /\ o.w.idata /\ o.w.live /\ o.w.at = 0 /\ o.run = "ok" /\ o.end = "ok"
      BY <2>4, <2>7
    <3>2. PICK u \in OpenNamed(o, rw) :
            t = IF u.end = "missing" THEN [Stop(u, "ok") EXCEPT !.r.mode = rw] ELSE u
      BY <2>7, <3>1
    <3>3. /\ Good(u) /\ u.named = o.named /\ u.temp = o.temp /\ u.w = o.w
          /\ u.run = o.run
          /\ \/ u.r = [idata |-> TRUE, mode |-> rw, pos |-> 0, at |-> 0]
                /\ u.end = o.end
             \/ u.end = "error"
             \/ u.r = o.r /\ u.end = "missing" /\ ~o.named.exists
      <4>1. rw \in SUBSET {"READ", "WRITE"} /\ "READ" \in rw
        OBVIOUS
      <4>2. u \in OpenNamed(o, rw) /\ (Defined(o) => o.w.idata)
        BY <3>1, <3>2
      <4> HIDE DEF rw
      <4> QED BY <3>1, <4>1, <4>2, OpenNamedGood
    <3>4. Len(o.temp) = 0 /\ From(st.named.samples, 0) = st.named.samples
      BY <3>1, FromIs DEF Good, StType, NamedType
    <3>5. CASE u.r = [idata |-> TRUE, mode |-> rw, pos |-> 0, at |-> 0]
               /\ u.end = "ok"
      <4>1. t = u
        BY <3>2, <3>5
      <4>2. Defined(t) /\ Written(t) /\ t.r.idata
        BY <3>1, <3>3, <3>5, <4>1 DEF Defined, Written
      <4>3. Padded(t) = <<>>
        BY <3>1, <3>3, <3>4, <4>1, PaddedIs DEF Good
      <4>4. Held(t) = <<>> \o st.named.samples
        BY <3>1, <3>3, <3>4, <3>5, <4>1, <4>2, <4>3 DEF Held, Rest
      <4>5. <<>> \o st.named.samples = st.named.samples
        BY ConcatEmptySeq DEF Good, StType, NamedType
      <4> QED BY <2>2, <3>1, <3>3, <4>1, <4>2, <4>4, <4>5
    <3>6. CASE u.end = "error"
      BY <3>1, <3>2, <3>3, <3>6
    <3>7. CASE u.r = o.r /\ u.end = "missing" /\ ~o.named.exists
      <4>1. /\ t.r = [idata |-> FALSE, mode |-> rw, pos |-> u.r.pos, at |-> u.r.at]
            /\ t.named = u.named /\ t.temp = u.temp /\ t.w = u.w
            /\ t.run = u.run /\ t.end = "ok" /\ t = [u EXCEPT !.end = "ok", !.r = t.r]
        BY <3>1, <3>2, <3>3, <3>7 DEF Good, StType, ReadType, Stop
      <4>2. t.r \in ReadType
        BY <3>3, <4>1 DEF Good, StType, ReadType
      <4>3. t \in StType
        BY <3>3, <4>1, <4>2 DEF Good, StType
      <4>4. Defined(t) /\ Written(t) /\ ~t.r.idata
        BY <3>1, <3>3, <4>1 DEF Defined, Written
      <4>5. t.w.at <= Len(t.temp)
        BY <3>1, <3>3, <3>4, <4>1
      <4>6. Tied(t)
        BY <3>1, <3>3, <4>1, <4>4, <4>5 DEF Good, Tied
      <4>7. Held(t) = <<>> \o <<>>
        BY <3>1, <3>3, <4>1, <4>3, <4>4, <4>5, PaddedIs DEF Held, Rest
      <4>8. st.named.samples = <<>> /\ ~st.named.exists
        BY <3>1, <3>7 DEF Good, Tied
      <4>9. <<>> \o <<>> = <<>>
        OBVIOUS
      <4> QED BY <2>2, <3>1, <3>3, <4>1, <4>3, <4>4, <4>6, <4>7, <4>8, <4>9 DEF Good
    <3> QED BY <3>1, <3>3, <3>5, <3>6, <3>7
  <2> QED BY <2>5, <2>6, <2>7
<1> QED BY <1>1, <1>2

-------------------------------------------------------------------------------
(* Going to the place to write.                                               *)

LEMMA ReportedIs ==
  ASSUME NEW S, \A s \in S : Good(s), NEW t \in Reported(S)
  PROVE  /\ Good(t) /\ t.end # "silent"
         /\ \E s \in S : /\ t.named = s.named /\ (t.end = "ok" => t = s)
                         /\ s.end # "silent" => t = s
<1>1. PICK s \in S : t = IF s.end = "silent" THEN Stop(s, "error") ELSE s
  BY DEF Reported
<1>2. CASE s.end = "silent"
  BY <1>1, <1>2, StopGood
<1>3. CASE s.end # "silent"
  BY <1>1, <1>3
<1> QED BY <1>2, <1>3

(* To go back the field is closed and opened again, from its start.           *)
LEMMA RestartIs ==
  ASSUME NEW st, Good(st), Defined(st), Written(st), st.end = "ok",
         NEW t \in Reported(Then(Fini(st), InitWrite))
  PROVE  /\ Good(t) /\ Whole(st, t) /\ t.end # "silent"
         /\ t.end = "ok" => Defined(t) /\ Written(t) /\ t.r.idata
<1> DEFINE S == Then(Fini(st), InitWrite)
<1>1. ASSUME NEW s \in S
      PROVE  /\ Good(s) /\ Whole(st, s)
             /\ s.end = "ok" => Defined(s) /\ Written(s) /\ s.r.idata
  <2>1. PICK c \in Fini(st) : \/ c.end # "ok" /\ s = c
                              \/ c.end = "ok" /\ s \in InitWrite(c)
    BY DEF Then
  <2>2. /\ Good(c)
        /\ c.named = st.named \/ c.named = [exists |-> TRUE, samples |-> Held(st)]
        /\ c.end = "ok" =>
             /\ Defined(c) /\ ~Written(c)
             /\ c.named = [exists |-> TRUE, samples |-> Held(st)]
    BY FiniIs
  <2>3. Whole(st, c)
    BY <2>2 DEF Whole, Replaced
  <2>4. CASE c.end # "ok" /\ s = c
    BY <2>2, <2>3, <2>4
  <2>5. CASE c.end = "ok" /\ s \in InitWrite(c)
    <3>1. c.named.exists
      BY <2>2, <2>5
    <3>2. /\ Good(s) /\ s.named = c.named
          /\ s.end = "ok" => Defined(s) /\ Written(s) /\ s.r.idata
      BY <2>2, <2>5, <3>1, InitWriteIs
    <3> QED BY <2>3, <3>2 DEF Whole, Replaced
  <2> QED BY <2>1, <2>4, <2>5
<1> HIDE DEF S
<1>2. /\ Good(t) /\ t.end # "silent"
      /\ \E s \in S : t.named = s.named /\ (t.end = "ok" => t = s)
  BY <1>1, ReportedIs DEF S
<1> QED BY <1>1, <1>2 DEF Whole, Replaced

(* A seek beyond the end of a new file pads it.                               *)
LEMMA SeekPads ==
  ASSUME NEW st, Good(st), Defined(st), Written(st), ~st.r.idata, NEW count \in Nat,
         ~(count < st.r.pos), NEW t, Good(t), Written(t), ~t.r.idata,
         t.w.at = count, t.temp = st.temp, count >= Len(st.temp)
  PROVE  \E k \in 0..count : Held(t) = Held(st) \o Pad(k)
<1> DEFINE l == Len(st.temp)
           a == st.w.at
           b == IF a > l THEN a ELSE l
           k == count - b
<1>1. st.temp \in Seq(Value) /\ l \in Nat /\ a \in Nat /\ (a <= l \/ a <= count)
      /\ count >= l
  BY DEF Good, StType, WriteType, ReadType, Tied
<1> HIDE DEF l, a
<1>2. k \in 0..count
  BY <1>1
<1>3. Padded(t) = st.temp \o Pad(count - l)
  BY DEF Padded, l
<1>4. Padded(st) = st.temp \o Pad(a - l)
  BY DEF Padded, l, a
<1>5. Held(t) = Padded(t) \o <<>> /\ Held(st) = Padded(st) \o <<>>
  BY DEF Held, Rest
<1>6. Padded(t) \in Seq(Value) /\ Padded(st) \in Seq(Value)
  BY PaddedIs DEF Good
<1>7. Held(t) = Padded(t) /\ Held(st) = Padded(st)
  BY <1>5, <1>6, ConcatEmptySeq
<1>8. CASE a > l
  <2>1. a - l \in Nat /\ k \in Nat /\ count - l = (a - l) + k
    BY <1>1, <1>2, <1>8
  <2>2. Pad(count - l) = Pad(a - l) \o Pad(k)
    <3> DEFINE m == a - l
    <3> HIDE DEF m, k
    <3>1. m \in Nat /\ k \in Nat /\ count - l = m + k
      BY <2>1 DEF m
    <3>2. Pad(m + k) = Pad(m) \o Pad(k)
      BY <3>1, PadOn
    <3> QED BY <3>1, <3>2 DEF m
  <2>3. /\ Pad(a - l) \in Seq(Value) /\ Pad(k) \in Seq(Value)
        /\ st.temp \in Seq(Value)
    BY <1>1, <2>1, PadIs
  <2> HIDE DEF k
  <2>4. (st.temp \o Pad(a - l)) \o Pad(k) = st.temp \o (Pad(a - l) \o Pad(k))
    <3> DEFINE p == Pad(a - l)
               q == Pad(k)
               s == st.temp
    <3>1. p \in Seq(Value) /\ q \in Seq(Value) /\ s \in Seq(Value)
      BY <2>3
    <3> HIDE DEF p, q, s
    <3>2. (s \o p) \o q = s \o (p \o q)
      BY <3>1, ConcatAssociative
    <3> QED BY <3>2 DEF p, q, s
  <2> QED BY <1>2, <1>3, <1>4, <1>7, <2>2, <2>4 DEF k
<1>9. CASE ~(a > l)
  <2>1. k = count - l /\ a - l <= 0 /\ a - l \in Int
    BY <1>1, <1>9
  <2>2. Padded(st) = st.temp
    BY <1>1, <1>4, <2>1, PadIs, ConcatEmptySeq
  <2> QED BY <1>2, <1>3, <1>7, <2>1, <2>2
<1> QED BY <1>8, <1>9

LEMMA NoPad ==
  ASSUME NEW s \in Seq(Value)
  PROVE  s = s \o Pad(0)
BY PadIs, ConcatEmptySeq

LEMMA HeldType == ASSUME NEW st, Good(st) PROVE Held(st) \in Seq(Value)
<1>1. st.named.samples \in Seq(Value) /\ st.r.at \in Nat
  BY DEF Good, StType, NamedType, ReadType
<1>2. Padded(st) \in Seq(Value)
  BY PaddedIs DEF Good
<1>3. Rest(st) \in Seq(Value)
  <2>1. From(st.named.samples, st.r.at) \in Seq(Value)
    BY <1>1, FromIs
  <2> QED BY <2>1 DEF Rest
<1>4. Padded(st) \o Rest(st) \in Seq(Value)
  BY <1>2, <1>3, ConcatProperties
<1> QED BY <1>1, <1>4 DEF Held

(* Only of a new file does a seek that succeeds change what the field holds.  *)
LEMMA WriteSeekIs ==
  ASSUME NEW st, Good(st), Defined(st), Written(st), st.end = "ok",
         NEW offset \in Nat, NEW t \in WriteSeek(st, offset)
  PROVE  /\ Good(t) /\ Whole(st, t) /\ t.end # "silent"
         /\ t.end = "ok" =>
              /\ Defined(t) /\ Written(t)
              /\ ~t.r.idata => /\ t.named = st.named
                               /\ \E k \in 0..offset : Held(t) = Held(st) \o Pad(k)
<1> DEFINE S == IF offset < st.r.pos THEN Reported(Then(Fini(st), InitWrite))
                                     ELSE {st}
           Got(s) == IF s.r.idata THEN Fewer(offset, Len(s.named.samples) - s.r.at)
                                  ELSE 0
           Old(s) == SubSeq(s.named.samples, s.r.at + 1, s.r.at + Got(s))
           Past(s) == [s EXCEPT !.r.pos = @ + Got(s), !.r.at = @ + Got(s)]
           Copy(s) == IF Got(s) = 0 THEN {s}
                      ELSE {IF u.w.full THEN Stop(u, "error") ELSE u
                            : u \in WriteTemp(Past(s), Old(s))}
           Sought(s) == Then(Copy(s), LAMBDA u : SeekWrite(u, offset - Got(s)))
           End(u, s) == IF u.end # "refused" THEN u.end
                        ELSE IF Got(s) > 0 THEN "ok" ELSE "error"
           Last(s) == {[u EXCEPT !.end = End(u, s)] : u \in Sought(s)}
<1>1. ASSUME NEW s \in S
      PROVE  /\ Good(s) /\ Whole(st, s) /\ s.end # "silent"
             /\ s.end = "ok" => /\ Defined(s) /\ Written(s)
                                /\ s.r.idata \/ (s = st /\ ~(offset < st.r.pos))
  <2>1. CASE offset < st.r.pos
    BY <2>1, RestartIs
  <2>2. CASE ~(offset < st.r.pos)
    BY <2>2 DEF Whole
  <2> QED BY <2>1, <2>2
<1>2. PICK s \in S : (s.end # "ok" /\ t = s) \/ (s.end = "ok" /\ t \in Last(s))
  BY DEF WriteSeek, Then
<1>3. CASE s.end # "ok" /\ t = s
  BY <1>1, <1>3
<1>4. CASE s.end = "ok" /\ t \in Last(s)
  <2> DEFINE got == Got(s)
  <2>1. /\ Good(s) /\ Whole(st, s) /\ Defined(s) /\ Written(s) /\ s.end = "ok"
        /\ s.r.idata \/ (s = st /\ ~(offset < st.r.pos))
    BY <1>1, <1>4
  <2>2. PICK u \in Sought(s) : t = [u EXCEPT !.end = End(u, s)]
    BY <1>4
  <2>3. /\ s.named.samples \in Seq(Value) /\ s.r.at \in Nat
        /\ s.r.idata => s.r.at <= Len(s.named.samples)
    BY <2>1 DEF Good, StType, NamedType, ReadType, Tied
  <2>4. /\ got \in 0..offset /\ (~s.r.idata => got = 0)
        /\ s.r.idata => s.r.at + got <= Len(s.named.samples)
    BY <2>3 DEF Fewer
  <2>5. ASSUME NEW c \in Copy(s)
        PROVE  /\ Good(c) /\ c.named = s.named /\ Defined(c) /\ Written(c)
               /\ c.r.idata = s.r.idata /\ (~s.r.idata => c = s)
               /\ c.end \in {"ok", "error"}
    <3>1. CASE got = 0
      BY <2>1, <3>1
    <3>2. CASE got # 0
      <4> DEFINE past == Past(s)
                 old == Old(s)
      <4>1. PICK v \in WriteTemp(past, old) :
              c = IF v.w.full THEN Stop(v, "error") ELSE v
        BY <3>2
      <4>2. s.r.idata /\ s.r.at + got <= Len(s.named.samples) /\ got \in Nat
        BY <2>4, <3>2
      <4>3. old \in Seq(Value)
        <5> HIDE DEF got
        <5>1. SubSeq(s.named.samples, s.r.at + 1, s.r.at + got) \in Seq(Value)
          BY <2>3, <4>2, FromSplit
        <5> QED BY <5>1 DEF got
      <4>4. /\ past.r = [idata |-> TRUE, mode |-> s.r.mode, pos |-> s.r.pos + got,
                         at |-> s.r.at + got]
            /\ past.named = s.named /\ past.temp = s.temp /\ past.w = s.w
            /\ past.run = s.run /\ past.end = s.end
            /\ past = [s EXCEPT !.r = past.r]
        BY <2>1, <4>2 DEF Good, StType, ReadType
      <4> HIDE DEF past, old, got, Copy
      <4>5. past.r \in ReadType
        <5>1. s.r.mode \in SUBSET {"READ", "WRITE"} /\ s.r.pos \in Nat /\ s.r.at \in Nat
          BY <2>1 DEF Good, StType, ReadType
        <5>2. s.r.pos + got \in Nat /\ s.r.at + got \in Nat
          BY <4>2, <5>1
        <5> QED BY <4>4, <5>1, <5>2 DEF ReadType
      <4>6. past \in StType
        BY <2>1, <4>4, <4>5 DEF Good, StType
      <4>7. Good(past) /\ Defined(past) /\ Written(past)
        BY <2>1, <4>2, <4>4, <4>6 DEF Good, Tied, Defined, Written
      <4>8. /\ Good(v) /\ v.named = past.named /\ v.r = past.r /\ v.end = past.end
            /\ v.w.idata = past.w.idata /\ v.w.live = past.w.live
            /\ v.run = past.run
        BY <4>1, <4>3, <4>7, WriteTempIs
      <4>9. Defined(v) /\ Written(v)
        BY <4>7, <4>8 DEF Defined, Written
      <4>10. /\ Good(c) /\ c.named = v.named /\ c.r = v.r /\ Defined(c) /\ Written(c)
             /\ c.end = "error" \/ c.end = v.end
        BY <4>1, <4>8, <4>9, StopGood
      <4> QED BY <2>1, <4>2, <4>4, <4>8, <4>10
    <3> QED BY <3>1, <3>2
  <2>6. PICK c \in Copy(s) : \/ c.end # "ok" /\ u = c
                             \/ c.end = "ok" /\ u \in SeekWrite(c, offset - got)
    BY DEF Then
  <2> HIDE DEF S, Copy, Sought, Last
  <2>7. /\ Good(c) /\ c.named = s.named /\ Defined(c) /\ Written(c)
        /\ c.r.idata = s.r.idata /\ (~s.r.idata => c = s)
        /\ c.end \in {"ok", "error"}
    BY <2>5
  <2>8. offset - got \in Nat
    <3> HIDE DEF got
    <3> QED BY <2>4
  <2>9. /\ Good(u) /\ u.named = s.named /\ u.r.idata = s.r.idata
        /\ Defined(u) /\ Written(u)
        /\ \/ u = c
           \/ u.end = "refused"
           \/ /\ u.end = "ok" /\ u.w.at = offset - got /\ u.temp = c.temp
              /\ offset - got >= Len(c.temp)
    <3>1. CASE c.end # "ok" /\ u = c
      BY <2>7, <3>1
    <3>2. CASE c.end = "ok" /\ u \in SeekWrite(c, offset - got)
      <4> DEFINE count == offset - got
      <4>1. count \in Nat /\ u \in SeekWrite(c, count)
        BY <2>8, <3>2
      <4> HIDE DEF count, got
      <4>2. /\ Good(u) /\ u.named = c.named /\ u.r.idata = c.r.idata
            /\ u.r.mode = c.r.mode /\ u.w.idata = c.w.idata /\ u.run = c.run
            /\ u.w.live = c.w.live
            /\ \/ u = c
               \/ u.end = "refused"
               \/ /\ u.end = c.end /\ u.w.at = count /\ u.temp = c.temp
                  /\ count >= Len(c.temp)
        BY <2>7, <4>1, SeekWriteIs
      <4>3. Defined(u) /\ Written(u)
        BY <2>7, <4>2 DEF Defined, Written
      <4> QED BY <2>7, <3>2, <4>2, <4>3 DEF count
    <3> QED BY <2>6, <3>1, <3>2
  <2>10. t = Stop(u, End(u, s)) /\ End(u, s) \in {"ok", "error", "missing", "refused"}
    BY <2>2, <2>7, <2>9 DEF Stop, Good, StType
  <2> DEFINE how == End(u, s)
  <2> HIDE DEF End
  <2>11. /\ Good(t) /\ t.end = how /\ t.named = u.named /\ Held(t) = Held(u)
         /\ Defined(t) /\ Written(t) /\ t.r = u.r /\ how # "silent"
    <3> HIDE DEF how
    <3>1. t = Stop(u, how)
          /\ how \in {"ok", "error", "missing", "refused"}
      BY <2>10 DEF how
    <3> QED BY <2>9, <3>1, StopGood
  <2>12. Whole(st, t)
    BY <2>1, <2>9, <2>11 DEF Whole, Replaced
  <2>13. ASSUME t.end = "ok", ~t.r.idata
         PROVE  /\ t.named = st.named
                /\ \E k \in 0..offset : Held(t) = Held(st) \o Pad(k)
    <3>1. ~s.r.idata /\ s = st /\ c = st /\ got = 0 /\ ~(offset < st.r.pos)
      BY <2>1, <2>4, <2>7, <2>9, <2>11, <2>13
    <3>2. u.end # "refused"
      BY <2>11, <2>13, <3>1 DEF End
    <3>3. CASE u = c
      <4>1. Held(t) = Held(st) \o Pad(0)
        BY <2>11, <3>1, <3>3, NoPad, HeldType
      <4> QED BY <2>9, <2>11, <3>1, <4>1
    <3>4. CASE u.w.at = offset - got /\ u.temp = c.temp /\ offset - got >= Len(c.temp)
      <4>1. offset - got = offset
        BY <3>1
      <4>2. /\ u.w.at = offset /\ u.temp = st.temp /\ offset >= Len(st.temp)
            /\ ~u.r.idata /\ ~st.r.idata
        BY <2>9, <3>1, <3>4, <4>1
      <4>3. \E k \in 0..offset : Held(u) = Held(st) \o Pad(k)
        BY <2>9, <3>1, <4>2, SeekPads
      <4> QED BY <2>9, <2>11, <3>1, <4>3
    <3> QED BY <2>9, <3>2, <3>3, <3>4
  <2> QED BY <2>11, <2>12, <2>13
<1> QED BY <1>2, <1>3, <1>4

-------------------------------------------------------------------------------
(* The calls.                                                                 *)

LEMMA FilePosIs ==
  ASSUME NEW st, Good(st), st.r.idata \/ Defined(st), st.end = "ok",
         NEW t \in GetFilePos(st)
  PROVE  /\ Good(t) /\ Whole(st, t) /\ (st.r.idata => t.named = st.named)
         /\ t.end = "ok" /\ Defined(st) => Defined(t) /\ t.r.idata /\ "READ" \in t.r.mode
<1> DEFINE S == IF st.r.idata THEN {st} ELSE InitRead(st)
           Told(s) == [s EXCEPT !.at = s.r.pos]
<1>1. ASSUME NEW s \in S
      PROVE  /\ Good(s) /\ Whole(st, s) /\ (st.r.idata => s = st)
             /\ s.end = "ok" /\ Defined(st) => Defined(s) /\ s.r.idata /\ "READ" \in s.r.mode
  <2>1. CASE st.r.idata
    BY <2>1 DEF Whole, Good, Tied
  <2>2. CASE ~st.r.idata
    BY <2>2, InitReadIs
  <2> QED BY <2>1, <2>2
<1>2. PICK s \in S : (s.end # "ok" /\ t = s) \/ (s.end = "ok" /\ t = Told(s))
  BY DEF GetFilePos, Then
<1>3. Good(s) /\ Whole(st, s) /\ (st.r.idata => s = st)
      /\ (s.end = "ok" /\ Defined(st) => Defined(s) /\ s.r.idata /\ "READ" \in s.r.mode)
  BY <1>1
<1> HIDE DEF S
<1>4. CASE s.end = "ok" /\ t = Told(s)
  <2>1. /\ t \in StType /\ t.named = s.named /\ t.temp = s.temp /\ t.r = s.r
        /\ t.w = s.w /\ t.run = s.run /\ t.end = s.end
    BY <1>3, <1>4 DEF Good, StType, ReadType
  <2>2. Good(t)
    BY <1>3, <2>1 DEF Good, Tied, Defined, Written
  <2>3. Whole(st, t)
    BY <1>3, <2>1 DEF Whole, Replaced
  <2> QED BY <1>3, <2>1, <2>2, <2>3 DEF Defined
<1> QED BY <1>2, <1>3, <1>4

LEMMA DoRawIs ==
  ASSUME NEW st, Good(st), Defined(st), st.end = "ok", NEW s0 \in Nat, NEW n \in Nat,
         NEW t \in DoRaw(st, s0, n)
  PROVE  /\ Good(t) /\ Whole(st, t)
         /\ st.r.idata /\ "READ" \in st.r.mode => t.named = st.named
<1>1. PICK s \in InitRead(st) : \/ s.end # "ok" /\ t = s
                                \/ s.end = "ok" /\ t = ReadNamed(SeekRead(s, s0), n)
  BY DEF DoRaw, Then
<1>2. /\ Good(s) /\ Whole(st, s)
      /\ st.r.idata /\ "READ" \in st.r.mode => s = st
      /\ s.end = "ok" => s.r.idata
  BY InitReadIs
<1>3. CASE s.end = "ok" /\ t = ReadNamed(SeekRead(s, s0), n)
  <2> DEFINE u == SeekRead(s, s0)
  <2>1. Good(u) /\ u.named = s.named /\ u.r.idata
    BY <1>2, <1>3, SeekReadGood
  <2>2. t = ReadNamed(u, n)
    BY <1>3
  <2> HIDE DEF u
  <2>3. Good(t) /\ t.named = s.named
    BY <2>1, <2>2, ReadNamedGood
  <2> QED BY <1>2, <2>3 DEF Whole, Replaced
<1> QED BY <1>1, <1>2, <1>3

LEMMA DoRawOutIs ==
  ASSUME NEW st, Good(st), Defined(st), st.end = "ok", NEW s0 \in Nat,
         NEW vals \in Seq(Value), NEW t \in DoRawOut(st, s0, vals)
  PROVE  Good(t) /\ Whole(st, t)
<1> DEFINE sought == Then(InitWrite(st), LAMBDA s : WriteSeek(s, s0))
           Blank(s) == [s EXCEPT !.data = <<>>]
<1>1. ASSUME NEW s \in sought
      PROVE  Good(s) /\ Whole(st, s)
  <2>1. PICK o \in InitWrite(st) : \/ o.end # "ok" /\ s = o
                                   \/ o.end = "ok" /\ s \in WriteSeek(o, s0)
    BY DEF Then
  <2>2. /\ Good(o) /\ o.named = st.named
        /\ o.end = "ok" => Defined(o) /\ Written(o) /\ Held(o) = Held(st)
    BY InitWriteIs
  <2>3. CASE o.end # "ok" /\ s = o
    BY <2>2, <2>3 DEF Whole
  <2>4. CASE o.end = "ok" /\ s \in WriteSeek(o, s0)
    <3>1. Good(s) /\ Whole(o, s)
      BY <2>2, <2>4, WriteSeekIs
    <3> QED BY <2>2, <2>4, <3>1 DEF Whole, Replaced
  <2> QED BY <2>1, <2>3, <2>4
<1>2. PICK s \in sought : \/ s.end # "ok" /\ t = s
                          \/ s.end = "ok" /\ t \in WriteOut(Blank(s), vals)
  BY DEF DoRawOut, Then
<1> HIDE DEF sought
<1>3. CASE s.end = "ok" /\ t \in WriteOut(Blank(s), vals)
  <2> DEFINE b == Blank(s)
             none == <<>>
  <2>1. none \in Seq(Value) /\ b = [s EXCEPT !.data = none]
    OBVIOUS
  <2> HIDE DEF none
  <2>2. /\ b \in StType /\ b.named = s.named /\ b.temp = s.temp /\ b.r = s.r
        /\ b.w = s.w /\ b.run = s.run /\ b.end = s.end
    <3> HIDE DEF b
    <3> QED BY <1>1, <2>1 DEF Good, StType
  <2>3. PICK u \in WriteTemp(b, vals) :
          t = IF u.data # <<>> /\ u.r.idata THEN SeekRead(u, u.r.pos + Len(vals))
                                            ELSE u
    BY <1>3 DEF WriteOut
  <2> HIDE DEF b
  <2>4. Good(b)
    BY <1>1, <2>2 DEF Good, Tied, Defined, Written
  <2>5. Good(u) /\ u.named = s.named
    BY <2>2, <2>4, WriteTempIs
  <2>6. Good(t) /\ t.named = s.named
    <3>1. u.r.pos + Len(vals) \in Nat
      BY <2>5 DEF Good, StType, ReadType
    <3> QED BY <2>3, <2>5, <3>1, SeekReadGood
  <2> QED BY <1>1, <2>6 DEF Whole, Replaced
<1> QED BY <1>1, <1>2, <1>3

(* The inductive invariant: what the steps of a call keep, of the state       *)
(* between two calls.                                                         *)
TypeOK ==
  /\ named \in NamedType /\ temp \in Seq(Value) /\ r \in ReadType
  /\ w \in WriteType /\ run \in {"ok", "invalid", "looping"}

IInv == TypeOK /\ Tied(Now)

Replacing ==
  named' # named => \E k \in 0..High : named'.samples = Contents \o Pad(k)

LEMMA NowIs ==
  ASSUME IInv
  PROVE  /\ Good(Now) /\ Now.end = "ok" /\ Now.named = named
         /\ Contents = Held(Now) /\ Contents \in Seq(Value)
         /\ Ready <=> Defined(Now)
         /\ Now.r = r /\ Now.w = w
<1>1. Now \in StType /\ Now.end = "ok" /\ Now.named = named
      /\ Now.r = r /\ Now.w = w /\ Now.temp = temp /\ Now.run = run
  BY DEF IInv, TypeOK, Now, StType
<1>2. Good(Now)
  BY <1>1 DEF IInv, Good
<1>3. Contents = Held(Now)
  <2>1. Writing <=> Written(Now)
    BY <1>1 DEF Writing, Written
  <2>2. Rest(Now) = IF r.idata THEN From(named.samples, r.at) ELSE <<>>
    BY <1>1 DEF Rest
  <2> QED BY <1>1, <2>1, <2>2 DEF Contents, Held
<1>4. Ready <=> Defined(Now)
  BY <1>1 DEF Ready, Defined
<1> QED BY <1>1, <1>2, <1>3, <1>4, HeldType

LEMMA Finished ==
  ASSUME NEW t, Good(t), NEW reply, Finish(t, reply)
  PROVE  IInv' /\ named' = t.named
<1>1. /\ named' = t.named /\ temp' = t.temp /\ r' = t.r /\ w' = t.w /\ run' = t.run
  BY DEF Finish
<1>2. TypeOK'
  BY <1>1 DEF TypeOK, Good, StType
<1>3. Tied(Now)'
  BY <1>1 DEF Good, Tied, Now, Defined, Written
<1> QED BY <1>1, <1>2, <1>3 DEF IInv

(* A call that leaves the named file whole.                                   *)
LEMMA WholeCall ==
  ASSUME IInv, NEW t, Good(t), Whole(Now, t), NEW reply, Finish(t, reply)
  PROVE  IInv' /\ Replacing
<1>1. IInv' /\ named' = t.named
  BY Finished
<1>2. Contents = Contents \o Pad(0) /\ 0 \in 0..High
  BY NowIs, NoPad, OopFieldAssumption
<1>3. named' = named \/ named'.samples = Contents
  BY <1>1, NowIs DEF Whole, Replaced
<1> QED BY <1>1, <1>2, <1>3 DEF Replacing

LEMMA GetDataStep ==
  ASSUME IInv, NEW s0 \in 0..High, NEW n \in Counts, GetData(s0, n)
  PROVE  IInv' /\ Replacing
<1>1. PICK t \in DoRaw(Now, s0, n) :
        Finish(t, [Reply("get", s0, t.data, t) EXCEPT !.n = n])
  BY DEF GetData
<1>2. Good(Now) /\ Defined(Now) /\ Now.end = "ok"
  BY NowIs DEF GetData
<1>3. s0 \in Nat /\ n \in Nat
  BY OopFieldAssumption DEF Counts
<1>4. Good(t) /\ Whole(Now, t)
  BY <1>2, <1>3, DoRawIs
<1> QED BY <1>1, <1>4, WholeCall

LEMMA GetHereStep ==
  ASSUME IInv, NEW n \in Counts, GetHere(n)
  PROVE  IInv' /\ Replacing
<1>1. PICK t \in Then(GetFilePos(Now), LAMBDA s : DoRaw(s, s.at, n)) :
        Finish(t, [Reply("get", t.at, t.data, t) EXCEPT !.n = n, !.here = TRUE])
  BY DEF GetHere
<1>2. Good(Now) /\ Defined(Now) /\ Now.end = "ok"
  BY NowIs DEF GetHere
<1>3. n \in Nat
  BY OopFieldAssumption DEF Counts
<1>4. PICK s \in GetFilePos(Now) : \/ s.end # "ok" /\ t = s
                                   \/ s.end = "ok" /\ t \in DoRaw(s, s.at, n)
  BY <1>1 DEF Then
<1>5. /\ Good(s) /\ Whole(Now, s)
      /\ s.end = "ok" => Defined(s) /\ s.r.idata /\ "READ" \in s.r.mode
  BY <1>2, FilePosIs
<1>6. CASE s.end = "ok" /\ t \in DoRaw(s, s.at, n)
  <2>1. s.at \in Nat
    BY <1>5 DEF Good, StType
  <2>2. Good(t) /\ t.named = s.named
    BY <1>3, <1>5, <1>6, <2>1, DoRawIs
  <2> QED BY <1>5, <2>2, <1>1, WholeCall DEF Whole, Replaced
<1> QED BY <1>1, <1>4, <1>5, <1>6, WholeCall

LEMMA PutDataStep ==
  ASSUME IInv, NEW s0 \in 0..High, NEW vals \in Seq(Value), PutData(s0, vals)
  PROVE  IInv' /\ Replacing
<1>1. PICK t \in DoRawOut(Now, s0, vals) :
        Finish(t, [Reply("put", s0, t.data, t) EXCEPT !.n = Len(vals)])
  BY DEF PutData
<1>2. Good(Now) /\ Defined(Now) /\ Now.end = "ok"
  BY NowIs DEF PutData
<1>3. s0 \in Nat
  BY OopFieldAssumption
<1>4. Good(t) /\ Whole(Now, t)
  BY <1>2, <1>3, DoRawOutIs
<1> QED BY <1>1, <1>4, WholeCall

LEMMA SeekStep ==
  ASSUME IInv, NEW target \in 0..High, NEW write \in BOOLEAN, Seek(target, write)
  PROVE  IInv' /\ Replacing
<1> DEFINE Gone == IF write
                   THEN Then(InitWrite(Now), LAMBDA s : WriteSeek(s, target))
                   ELSE {IF s.end = "ok" THEN SeekRead(s, target) ELSE s
                         : s \in InitRead(Now)}
           S == Unnoticed(Gone)
           Padding(s) == s.named = named /\ \E k \in 0..target : Held(s) = Contents \o Pad(k)
<1>1. PICK t \in Then(S, GetFilePos) : Finish(t, Reply("seek", t.at, <<>>, t))
  BY DEF Seek
<1>2. Good(Now) /\ Defined(Now) /\ Now.end = "ok" /\ Now.named = named
      /\ Contents = Held(Now)
  BY NowIs DEF Seek
<1>3. target \in Nat /\ 0..target \subseteq 0..High
  BY OopFieldAssumption
<1>4. ASSUME NEW s \in Gone
      PROVE  /\ Good(s) /\ Whole(Now, s)
             /\ s.end = "ok" => Defined(s) /\ (~s.r.idata => Padding(s))
             /\ s.end = "silent" /\ (s.w.idata => s.w.live) => Defined(s) /\ Padding(s)
  <2>1. CASE write
    <3>1. PICK o \in InitWrite(Now) : \/ o.end # "ok" /\ s = o
                                      \/ o.end = "ok" /\ s \in WriteSeek(o, target)
      BY <2>1 DEF Then
    <3>2. /\ Good(o) /\ o.named = Now.named
          /\ o.end = "ok" => Defined(o) /\ Written(o) /\ Held(o) = Held(Now)
          /\ o.end = "silent" => Defined(o) /\ ~Written(o)
      BY <1>2, InitWriteIs
    <3>3. CASE o.end # "ok" /\ s = o
      <4>1. o.end = "silent" => ~Written(Now)
        BY <1>2, <3>1, <3>3 DEF InitWrite, Written
      <4>2. o.end = "silent" => Held(o) = Held(Now)
        BY <3>2, <4>1 DEF Held
      <4>3. Contents = Contents \o Pad(0) /\ 0 \in 0..target
        BY <1>2, <1>3, NowIs, NoPad
      <4> QED BY <1>2, <3>2, <3>3, <4>2, <4>3 DEF Whole
    <3>4. CASE o.end = "ok" /\ s \in WriteSeek(o, target)
      <4>1. /\ Good(s) /\ Whole(o, s) /\ s.end # "silent"
            /\ s.end = "ok" =>
                 /\ Defined(s) /\ Written(s)
                 /\ ~s.r.idata => /\ s.named = o.named
                                  /\ \E k \in 0..target : Held(s) = Held(o) \o Pad(k)
        BY <1>3, <3>2, <3>4, WriteSeekIs
      <4>2. Whole(Now, s)
        BY <3>2, <3>4, <4>1 DEF Whole, Replaced
      <4> QED BY <1>2, <3>2, <3>4, <4>1, <4>2
    <3> QED BY <3>1, <3>3, <3>4
  <2>2. CASE ~write
    <3>1. PICK o \in InitRead(Now) : s = IF o.end = "ok" THEN SeekRead(o, target) ELSE o
      BY <2>2
    <3>2. /\ Good(o) /\ Whole(Now, o)
          /\ o.end = "ok" => Defined(o) /\ o.r.idata
          /\ o.end = "silent" => o.w.idata /\ ~o.w.live
      BY <1>2, InitReadIs
    <3>3. CASE o.end = "ok"
      <4>1. Good(s) /\ s.named = o.named /\ s.r.idata
        BY <1>3, <3>1, <3>2, <3>3, SeekReadGood
      <4>2. Defined(s)
        BY <3>1, <3>2, <3>3 DEF SeekRead, Defined, Good, StType
      <4>4. s.end # "silent"
        BY <3>1, <3>2, <3>3 DEF SeekRead, Good, StType
      <4>3. Whole(Now, s)
        BY <3>2, <4>1 DEF Whole, Replaced
      <4> QED BY <4>1, <4>2, <4>3, <4>4
    <3> QED BY <3>1, <3>2, <3>3
  <2> QED BY <2>1, <2>2
<1>5. PICK s \in S : (s.end # "ok" /\ t = s) \/ (s.end = "ok" /\ t \in GetFilePos(s))
  BY <1>1 DEF Then
<1> HIDE DEF Gone, Padding
<1>6. /\ Good(s) /\ Whole(Now, s)
      /\ s.end = "ok" => s.r.idata \/ (Defined(s) /\ Padding(s))
  <2>1. PICK o \in Gone : s = IF o.end = "silent" /\ (o.r.idata \/ (o.w.idata => o.w.live))
                              THEN Stop(o, "ok") ELSE o
    BY DEF Unnoticed
  <2>2. CASE o.end = "silent" /\ (o.r.idata \/ (o.w.idata => o.w.live))
    <3>1. /\ Good(s) /\ s.named = o.named /\ Held(s) = Held(o)
          /\ Defined(s) = Defined(o) /\ s.r = o.r
      BY <1>4, <2>1, <2>2, StopGood
    <3>2. Whole(Now, s)
      BY <1>4, <3>1 DEF Whole, Replaced
    <3>3. s.r.idata \/ Defined(o)
      BY <1>4, <2>2, <3>1
    <3> QED BY <1>4, <2>2, <3>1, <3>2, <3>3 DEF Padding
  <2>3. CASE ~(o.end = "silent" /\ (o.r.idata \/ (o.w.idata => o.w.live)))
    BY <1>4, <2>1, <2>3
  <2> QED BY <2>2, <2>3
<1> HIDE DEF S
<1>7. CASE s.end # "ok" /\ t = s
  BY <1>1, <1>7, <1>6, WholeCall
<1>8. CASE s.end = "ok" /\ t \in GetFilePos(s)
  <2>1. Good(t) /\ Whole(s, t) /\ (s.r.idata => t.named = s.named)
    BY <1>8, <1>6, FilePosIs
  <2>2. CASE s.r.idata
    <3>1. Whole(Now, t)
      BY <1>6, <2>1, <2>2 DEF Whole, Replaced
    <3> QED BY <1>1, <2>1, <3>1, WholeCall
  <2>3. CASE ~s.r.idata
    <3>1. s.named = named /\ \E k \in 0..target : Held(s) = Contents \o Pad(k)
      BY <1>8, <1>6, <2>3 DEF Padding
    <3>2. IInv' /\ named' = t.named
      BY <1>1, <2>1, Finished
    <3>3. named' = named \/ named'.samples = Held(s)
      BY <2>1, <3>1, <3>2 DEF Whole, Replaced
    <3> QED BY <1>3, <3>1, <3>2, <3>3 DEF Replacing
  <2> QED BY <2>2, <2>3
<1> QED BY <1>5, <1>7, <1>8

LEMMA TellStep ==
  ASSUME IInv, Tell
  PROVE  IInv' /\ Replacing
<1>1. PICK t \in GetFilePos(Now) : Finish(t, Reply("tell", t.at, <<>>, t))
  BY DEF Tell
<1>2. Good(Now) /\ Defined(Now) /\ Now.end = "ok"
  BY NowIs DEF Tell
<1>3. Good(t) /\ Whole(Now, t)
  BY <1>2, FilePosIs
<1> QED BY <1>1, <1>3, WholeCall

LEMMA FiniNow ==
  ASSUME IInv, Ready, NEW t \in Fini(Now)
  PROVE  Good(t) /\ Whole(Now, t)
<1>1. /\ Good(t)
      /\ t.named = Now.named \/ t.named = [exists |-> TRUE, samples |-> Held(Now)]
  BY NowIs, FiniIs
<1> QED BY <1>1 DEF Whole, Replaced

LEMMA FlushStep ==
  ASSUME IInv, Flush
  PROVE  IInv' /\ Replacing
<1> DEFINE S == IF r.idata \/ w.idata THEN Reported(Fini(Now)) ELSE {Now}
<1>1. Ready /\ \E t \in S : Finish(t, Reply("flush", 0, <<>>, t))
  BY DEF Flush
<1>2. ASSUME NEW t \in S PROVE Good(t) /\ Whole(Now, t)
  <2>1. CASE t = Now
    BY <2>1, NowIs DEF Whole
  <2>2. CASE t \in Reported(Fini(Now))
    <3>1. \A s \in Fini(Now) : Good(s) /\ Whole(Now, s)
      BY <1>1, FiniNow
    <3>2. Good(t) /\ \E s \in Fini(Now) : t.named = s.named
      BY <2>2, <3>1, ReportedIs
    <3> QED BY <3>1, <3>2 DEF Whole, Replaced
  <2> QED BY <2>1, <2>2
<1> HIDE DEF S
<1> QED BY <1>1, <1>2, WholeCall

LEMMA RenameStep ==
  ASSUME IInv, Rename
  PROVE  IInv' /\ Replacing
BY FiniNow, WholeCall DEF Rename

LEMMA KillStep ==
  ASSUME IInv, Kill
  PROVE  IInv' /\ Replacing
<1>1. TypeOK'
  BY DEF IInv, TypeOK, Kill, ReadType, WriteType, Shut
<1>2. Tied(Now)'
  BY DEF IInv, TypeOK, Kill, Tied, Now, Defined, Written, Shut
<1> QED BY <1>1, <1>2 DEF IInv, Kill, Replacing

LEMMA InitInv == ASSUME Init PROVE IInv
<1>1. Data \subseteq Value
  BY DEF Value
<1>2. named \in NamedType /\ (~named.exists => named.samples = <<>>)
  <2>1. PICK s \in InitFiles : named = [exists |-> s # <<>>, samples |-> s]
    BY DEF Init
  <2>2. s \in Seq(Data)
    BY OopFieldAssumption
  <2>3. s \in Seq(Value)
    BY <1>1, <2>2
  <2> QED BY <2>1, <2>3 DEF NamedType
<1>3. TypeOK
  BY <1>2 DEF Init, TypeOK, ReadType, WriteType, Shut
<1>4. Tied(Now)
  BY <1>2 DEF Init, Tied, Now, Defined, Written, Shut
<1> QED BY <1>3, <1>4 DEF IInv

LEMMA NextInv == ASSUME IInv, [Next]_vars PROVE IInv' /\ (named' # named => Replacing)
<1>1. CASE \E s0 \in 0..High, n \in Counts : GetData(s0, n)
  BY <1>1, GetDataStep
<1>2. CASE \E n \in Counts : GetHere(n)
  BY <1>2, GetHereStep
<1>3. CASE \E s0 \in 0..High, n \in Counts, v \in Data : PutData(s0, [i \in 1..n |-> v])
  <2>1. PICK s0 \in 0..High, n \in Counts, v \in Data : PutData(s0, [i \in 1..n |-> v])
    BY <1>3
  <2> DEFINE vals == [i \in 1..n |-> v]
  <2>2. n \in Nat /\ v \in Value
    BY OopFieldAssumption DEF Counts, Value
  <2>3. vals \in Seq(Value)
    BY <2>2
  <2>4. PutData(s0, vals)
    BY <2>1
  <2> HIDE DEF vals
  <2> QED BY <2>3, <2>4, PutDataStep
<1>4. CASE \E target \in 0..High, write \in BOOLEAN : Seek(target, write)
  BY <1>4, SeekStep
<1>5. CASE Tell
  BY <1>5, TellStep
<1>6. CASE Flush
  BY <1>6, FlushStep
<1>7. CASE Rename
  BY <1>7, RenameStep
<1>8. CASE Kill
  BY <1>8, KillStep
<1>9. CASE UNCHANGED vars
  <2>1. UNCHANGED <<named, temp, r, w, run>>
    BY <1>9 DEF vars
  <2>2. IInv'
    BY <2>1 DEF IInv, TypeOK, Tied, Now, Defined, Written
  <2> QED BY <2>1, <2>2
<1> QED BY <1>1, <1>2, <1>3, <1>4, <1>5, <1>6, <1>7, <1>8, <1>9 DEF Next

-------------------------------------------------------------------------------
(* The state between two calls: the types of the variables, and what the two  *)
(* files owe each other.                                                      *)
THEOREM Invariance == Spec => []IInv
<1>1. Init => IInv
  BY InitInv
<1>2. IInv /\ [Next]_vars => IInv'
  BY NextInv
<1> QED BY <1>1, <1>2, PTL DEF Spec

(* Whatever fails, whatever callers do and wherever the process dies, the     *)
(* named file is replaced only as a whole, by what the field holds: all that  *)
(* was written and all the rest of the old file (_GD_FiniRawIO, _GD_MoveOver, *)
(* _GD_WriteSeek).                                                            *)
THEOREM AtomicReplaceHolds == Spec => AtomicReplace
<1>1. IInv /\ [Next]_vars =>
        [named' # named =>
           \E k \in 0..High : named'.samples = Contents \o Pad(k)]_vars
  BY NextInv DEF Replacing
<1>2. Spec => []IInv
  BY Invariance
<1> QED BY <1>1, <1>2, PTL DEF Spec, AtomicReplace
================================================================================
