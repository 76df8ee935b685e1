-------------------------- MODULE FrameSearch_proofs --------------------------
(* The search of gd_framenum_subset, for fields of every length, with samples *)
(* and arguments of every size: its variables keep their types, the two ends  *)
(* that close in keep the value between them, and, for the calls that come to *)
(* an end, what is returned is where the field passes the value.              *)
EXTENDS FrameSearch, TLAPS, SequenceTheorems

(* The range only gets narrower.                                              *)
WithinRange == Searching => high <= field_end

(* What is remembered of the samples already read.                            *)
Remembered ==
  /\ phase \in {"start", "end"} =>
       low = field_start /\ high = field_end /\ dir = "unknown"
  /\ phase \in {"end", "scan", "bisect"} => Exists(low) /\ low_v = Samp(low)
  /\ phase \in {"end", "scan"} =>
       Exists(field_start) /\ field_start_v = Samp(field_start)

(* While the end is looked for, the value is not before the lower end.        *)
Scanning ==
  phase = "scan" => IF dir = "unknown" THEN low_v = field_start_v
                    ELSE ~Before(dir, value, low_v)

(* While the two ends close in, an end that was moved is not the value.       *)
Closing ==
  phase = "bisect" =>
    /\ ~Before(dir, high_v, value)
    /\ high # field_end => Before(dir, value, high_v)
    /\ high = field_end /\ low # field_start => Before(dir, low_v, value)

Search == TypeOK /\ WithinRange /\ Remembered /\ Scanning /\ Bracketed /\ Closing

(* Where the end of the field has to be found, the value lies inside it.      *)
Covered ==
  /\ phase \in {"start", "end"} =>
       Len(data) >= field_end \/ Inside(value, field_start)
  /\ phase = "scan" =>
       /\ Inside(value, field_start)
       /\ dir # "unknown" =>
            low_v # field_start_v /\ dir = Direction(field_start_v, low_v)

(* Extrapolation is from the first two or the last two samples of the range.  *)
Beyond ==
  phase = "extrapolate" =>
    /\ Exists(field_end - 1) /\ Samp(field_start) # Samp(field_end - 1)
    /\ dir = Direction(Samp(field_start), Samp(field_end - 1))
    /\ \/ eof = 0 /\ limit = field_start /\ Before(dir, value, Samp(limit))
       \/ eof = 1 /\ limit = field_end - 1 /\ Before(dir, Samp(limit), value)

CarefulSearch == Search /\ Covered /\ Beyond /\ FrameFound

-------------------------------------------------------------------------------
LEMMA Numbers ==
  Value \subseteq Int /\ Targets \subseteq Int /\ Unread \in Int
  BY SearchAssumption DEF Unread

(* What a read returns.                                                       *)
LEMMA ReadLen ==
  ASSUME data \in Seq(Value), ptr \in Nat, NEW f \in Nat \cup {Here}, NEW n \in Nat
  PROVE  /\ From(f) \in Nat /\ Len(Read(f, n)) \in Nat
         /\ \A i \in 1..Len(Read(f, n)) :
              From(f) + i <= Len(data) /\ Read(f, n)[i] = data[From(f) + i]
         /\ Len(Read(f, n)) = IF From(f) + n <= Len(data) THEN n
                              ELSE IF From(f) < Len(data) THEN Len(data) - From(f)
                              ELSE 0
         /\ Len(Read(f, n)) = 0 => Read(f, n) = <<>>
<1>1. From(f) \in Nat
  BY DEF From
<1> DEFINE a == From(f) + 1
           z == Least(From(f) + n, Len(data))
<1>2. a \in 1..(From(f) + 1) /\ a \in Int /\ z \in Int /\ z <= Len(data)
  BY <1>1 DEF Least
<1>3. \A i \in a..z : data[i] \in Value
  BY <1>1, <1>2
<1>4. /\ Len(SubSeq(data, a, z)) = IF a <= z THEN z - a + 1 ELSE 0
      /\ \A i \in 1..(z - a + 1) : SubSeq(data, a, z)[i] = data[a + i - 1]
  <2> HIDE DEF a, z
  <2> QED BY <1>2, <1>3, SubSeqProperties
<1>5. z < a => SubSeq(data, a, z) = <<>>
  <2> HIDE DEF a, z
  <2> QED BY <1>2, SubSeqEmpty
<1>6. Read(f, n) = SubSeq(data, a, z)
  BY DEF Read
<1>7. z = IF From(f) + n <= Len(data) THEN From(f) + n ELSE Len(data)
  BY <1>1 DEF Least
<1>8. Len(Read(f, n)) = IF a <= z THEN z - a + 1 ELSE 0
  BY <1>4, <1>6
<1>9. ASSUME NEW i \in 1..Len(Read(f, n))
      PROVE  From(f) + i <= Len(data) /\ Read(f, n)[i] = data[From(f) + i]
  <2>1. i \in 1..(z - a + 1) /\ a + i - 1 = From(f) + i
    BY <1>1, <1>2, <1>8
  <2> QED BY <1>1, <1>2, <1>4, <1>6, <2>1
<1>10. Len(Read(f, n)) = IF From(f) + n <= Len(data) THEN n
                        ELSE IF From(f) < Len(data) THEN Len(data) - From(f)
                        ELSE 0
  <2> HIDE DEF z
  <2>1. Len(data) \in Nat
    OBVIOUS
  <2> QED BY <1>1, <1>7, <1>8, <2>1
<1>11. Len(Read(f, n)) \in Nat
  BY <1>1, <1>10
<1>12. Len(Read(f, n)) = 0 => Read(f, n) = <<>>
  BY <1>1, <1>2, <1>5, <1>6, <1>8
<1> QED BY <1>1, <1>9, <1>10, <1>11, <1>12

LEMMA ReadOne ==
  ASSUME data \in Seq(Value), ptr \in Nat, NEW n \in Nat
  PROVE  /\ Read(n, 1) # <<>> => /\ Exists(n) /\ Samp(n) \in Value
                                 /\ Read(n, 1)[1] = Samp(n) /\ Len(Read(n, 1)) = 1
         /\ Read(n, 1) = <<>> => ~Exists(n)
<1>1. From(n) = n /\ n \in Nat \cup {Here} /\ 1 \in Nat /\ Len(data) \in Nat
  BY DEF From, Here
<1>2. /\ \A i \in 1..Len(Read(n, 1)) :
           From(n) + i <= Len(data) /\ Read(n, 1)[i] = data[From(n) + i]
      /\ Len(Read(n, 1)) = IF From(n) + 1 <= Len(data) THEN 1
                           ELSE IF From(n) < Len(data) THEN Len(data) - From(n)
                           ELSE 0
      /\ Len(Read(n, 1)) = 0 => Read(n, 1) = <<>>
  BY <1>1, ReadLen
<1>3. CASE n < Len(data)
  <2>1. Len(Read(n, 1)) = 1
    BY <1>1, <1>2, <1>3
  <2>2. Read(n, 1) # <<>>
    BY <2>1
  <2>3. Read(n, 1)[1] = data[n + 1] /\ data[n + 1] \in Value
    BY <1>1, <1>2, <1>3, <2>1
  <2> QED BY <1>1, <1>3, <2>1, <2>2, <2>3 DEF Exists, Samp
<1>4. CASE ~(n < Len(data))
  <2>1. Len(Read(n, 1)) = 0
    BY <1>1, <1>2, <1>4
  <2> QED BY <1>1, <1>2, <1>4, <2>1 DEF Exists
<1> QED BY <1>3, <1>4

LEMMA ReadTwo ==
  ASSUME data \in Seq(Value), ptr \in Nat, NEW n \in Nat, Len(Read(n, 2)) >= 2
  PROVE  /\ Exists(n) /\ Exists(n + 1)
         /\ Read(n, 2)[1] = Samp(n) /\ Read(n, 2)[2] = Samp(n + 1)
<1>1. From(n) = n /\ n \in Nat \cup {Here} /\ 2 \in Nat /\ Len(data) \in Nat
  BY DEF From, Here
<1>2. /\ \A i \in 1..Len(Read(n, 2)) :
           From(n) + i <= Len(data) /\ Read(n, 2)[i] = data[From(n) + i]
      /\ Len(Read(n, 2)) \in Nat
  BY <1>1, ReadLen
<1>3. 1 \in 1..Len(Read(n, 2)) /\ 2 \in 1..Len(Read(n, 2))
  BY <1>2
<1> QED BY <1>1, <1>2, <1>3 DEF Exists, Samp

LEMMA MovedNat ==
  ASSUME data \in Seq(Value), ptr \in Nat, NEW f \in Nat \cup {Here}, NEW n \in Nat,
         Moved(f, n)
  PROVE  ptr' \in Nat
<1>1. From(f) \in Nat /\ Len(Read(f, n)) \in Nat
  BY ReadLen
<1>2. ptr' = From(f) + Len(Read(f, n))
  BY DEF Moved
<1> QED BY <1>1, <1>2

(* Samples that exist stay what they are while the field grows.               *)
LEMMA Grown ==
  ASSUME data \in Seq(Value), NEW x \in Value, data' = Append(data, x)
  PROVE  /\ data' \in Seq(Value) /\ Len(data') = Len(data) + 1
         /\ \A i \in 1..Len(data) : data'[i] = data[i]
         /\ data'[Len(data) + 1] = x
         /\ \A n \in Nat : Exists(n) => Exists(n)' /\ Samp(n)' = Samp(n)
  BY DEF Exists, Samp

(* The middle of a range.                                                     *)
LEMMA Middle ==
  ASSUME low \in Nat, high \in Int, low < high
  PROVE  c \in Nat /\ low <= c /\ c < high /\ (high - low > 1 => low < c)
  BY DEF c

-------------------------------------------------------------------------------
(* The invariant of the search, action by action.                             *)
LEMMA SearchInit == Init => Search
<1> SUFFICES ASSUME Init PROVE Search
  OBVIOUS
<1>1. data = <<>> \/ \E x \in Value : data = <<x>>
  BY DEF Init
<1>2. /\ data \in Seq(Value)
      /\ \A i, j \in 1..Len(data) : ~(data[j] < data[i])
  <2>1. CASE data = <<>>
    BY <2>1
  <2>2. ASSUME NEW x \in Value, data = <<x>>
        PROVE  data \in Seq(Value) /\ \A i, j \in 1..Len(data) : ~(data[j] < data[i])
    <3>1. data \in Seq(Value) /\ Len(data) = 1 /\ data[1] = x
      BY <2>2
    <3>2. x \in Int
      BY Numbers
    <3>3. \A i \in 1..Len(data) : i = 1
      BY <3>1
    <3> QED BY <3>1, <3>2, <3>3
  <2> QED BY <1>1, <2>1, <2>2
<1>3. Monotonic(data)
  BY <1>2 DEF Monotonic, Sorted, Before
<1> QED BY <1>2, <1>3 DEF Init, Search, TypeOK, WithinRange, Remembered, Scanning,
           Bracketed, Closing, Searching, Unread, NotFound

LEMMA SearchGrow == ASSUME Search, Grow PROVE Search'
<1>1. PICK x \in Value : /\ Monotonic(Append(data, x)) /\ data' = Append(data, x)
                         /\ UNCHANGED <<ptr, phase, args, locals, sample>>
  BY DEF Grow
<1>2. data \in Seq(Value)
  BY DEF Search, TypeOK
<1>3. /\ data' \in Seq(Value) /\ Monotonic(data')
      /\ \A n \in Nat : Exists(n) => Exists(n)' /\ Samp(n)' = Samp(n)
  BY <1>1, <1>2, Grown
<1>4. TypeOK'
  BY <1>1, <1>3 DEF Search, TypeOK, Searching, args, locals
<1>5. /\ low \in Nat /\ high \in Int /\ field_start \in Nat
      /\ Searching => low < high
  BY DEF Search, TypeOK
<1>6. WithinRange' /\ Scanning' /\ Closing'
  BY <1>1 DEF Search, WithinRange, Scanning, Closing, Searching, args, locals
<1>7. Remembered'
  BY <1>1, <1>3, <1>5 DEF Search, Remembered, args, locals
<1>8. Bracketed'
  <2>1. CASE phase = "bisect"
    <3>1. low < high /\ high \in Nat /\ high - 1 \in Nat
      BY <1>5, <2>1 DEF Searching
    <3> QED BY <1>1, <1>3, <1>5, <3>1 DEF Search, Bracketed, args, locals
  <2>2. CASE phase # "bisect"
    BY <1>1, <2>2 DEF Bracketed
  <2> QED BY <2>1, <2>2
<1> QED BY <1>4, <1>6, <1>7, <1>8 DEF Search

LEMMA SearchCall == ASSUME Search, gd_framenum_subset PROVE Search'
<1>1. PICK x \in Targets, start \in StartFrames, end \in EndFrames :
        LET from == start * SPF
            to   == IF end = 0 THEN (nframes + 1) * SPF - 1 ELSE end * SPF - 1
        IN /\ value' = x /\ field_start' = from /\ field_end' = to
           /\ low' = from /\ high' = to /\ dir' = "unknown"
           /\ IF TooShort(from, to) THEN Return(NotFound)
              ELSE phase' = "start" /\ sample' = NotFound
           /\ UNCHANGED <<data, ptr, low_v, high_v, field_start_v, limit, eof>>
  BY DEF gd_framenum_subset
<1>2. start \in Nat /\ end \in Nat /\ SPF \in Nat /\ start * SPF \in Nat
  BY SearchAssumption
<1>3. nframes \in Int
  BY SearchAssumption DEF nframes, Search, TypeOK
<1>4. field_start' \in Nat /\ field_end' \in Int /\ low' = field_start' /\ high' = field_end'
  BY <1>1, <1>2, <1>3
<1>5. \/ phase' = "done"
      \/ phase' = "start" /\ field_end' - field_start' >= 2
  BY <1>1, <1>4 DEF TooShort, Return
<1> QED BY <1>1, <1>4, <1>5 DEF Search, TypeOK, WithinRange, Remembered, Scanning,
           Bracketed, Closing, Searching

LEMMA SearchReadStart == ASSUME Search, ReadStart PROVE Search'
<1>1. /\ data \in Seq(Value) /\ ptr \in Nat /\ field_start \in Nat /\ phase = "start"
      /\ low = field_start /\ high = field_end /\ dir = "unknown"
      /\ Moved(field_start, 1)
  BY DEF Search, TypeOK, Remembered, ReadStart
<1>2. ptr' \in Nat
  BY <1>1, MovedNat
<1>3. /\ Read(field_start, 1) # <<>> =>
           /\ Exists(field_start) /\ Samp(field_start) \in Value
           /\ Read(field_start, 1)[1] = Samp(field_start)
  BY <1>1, ReadOne
<1>4. UNCHANGED <<data, args, low, high, high_v, dir, limit, eof>>
  BY DEF ReadStart
<1>5. CASE Read(field_start, 1) = <<>>
  <2>1. phase' = "done" /\ UNCHANGED <<low_v, field_start_v>>
    BY <1>5 DEF ReadStart, Return
  <2> QED BY <1>1, <1>2, <1>4, <2>1 DEF Search, TypeOK, WithinRange, Remembered,
             Scanning, Bracketed, Closing, Searching, args
<1>6. CASE Read(field_start, 1) # <<>>
  <2>1. /\ low_v' = Samp(field_start) /\ field_start_v' = Samp(field_start)
        /\ phase' = "end"
    BY <1>3, <1>6 DEF ReadStart
  <2> QED BY <1>1, <1>2, <1>3, <1>4, <1>6, <2>1 DEF Search, TypeOK, WithinRange,
             Remembered, Scanning, Bracketed, Closing, Searching, args, Exists, Samp
<1> QED BY <1>5, <1>6

LEMMA SearchReadEnd == ASSUME Search, ReadEnd PROVE Search'
<1> DEFINE at == field_end - 1
<1>1. /\ data \in Seq(Value) /\ ptr \in Nat /\ field_start \in Nat /\ phase = "end"
      /\ low = field_start /\ high = field_end /\ dir = "unknown"
      /\ field_end \in Int /\ field_end - field_start >= 2 /\ at \in Nat
      /\ Exists(low) /\ low_v = Samp(low) /\ field_start_v = Samp(field_start)
      /\ value \in Int /\ low_v \in Int
  <2>1. phase = "end"
    BY DEF ReadEnd
  <2>2. /\ data \in Seq(Value) /\ ptr \in Nat /\ field_start \in Nat
        /\ field_end \in Int /\ field_end - field_start >= 2
    BY <2>1 DEF Search, TypeOK, Searching
  <2>3. value \in Int /\ low_v \in Int
    <3>1. value \in Targets \cup {Unread} /\ low_v \in Value \cup {Unread}
      BY DEF Search, TypeOK
    <3> QED BY <3>1, Numbers
  <2> QED BY <2>1, <2>2, <2>3 DEF Search, Remembered
<1>2. ptr' \in Nat
  <2>1. Moved(at, 1)
    BY DEF ReadEnd
  <2> QED BY <1>1, <2>1, MovedNat
<1>3. /\ Read(at, 1) # <<>> => /\ Exists(at) /\ Samp(at) \in Value
                               /\ Read(at, 1)[1] = Samp(at)
      /\ Read(at, 1) = <<>> => ~Exists(at)
  BY <1>1, ReadOne
<1>4. UNCHANGED <<data, value, field_start, field_end, low, high, low_v, field_start_v>>
  BY DEF ReadEnd, args
<1>5. CASE Read(at, 1) = <<>>
  <2>1. phase' = "scan" /\ UNCHANGED <<dir, high_v, limit, eof>>
    BY <1>5 DEF ReadEnd
  <2> QED BY <1>1, <1>2, <1>4, <2>1 DEF Search, TypeOK, WithinRange, Remembered,
             Scanning, Bracketed, Closing, Searching, Exists, Samp
<1>6. CASE Read(at, 1) # <<>>
  <2> DEFINE v == Read(at, 1)[1]
             d == Direction(low_v, v)
  <2>0. v = Samp(at) /\ v \in Value /\ v \in Int /\ Exists(at)
    <3>1. Exists(at) /\ v = Samp(at) /\ Samp(at) \in Value
      BY <1>3, <1>6
    <3> QED BY <3>1, Numbers
  <2>1. /\ high_v' = v
        /\ \/ phase' = "done" /\ UNCHANGED <<dir, limit, eof>>
           \/ /\ dir' = d /\ phase' = "extrapolate"
              /\ limit' \in {low, high - 1} /\ eof' \in {0, 1}
           \/ /\ dir' = d /\ phase' = "bisect" /\ UNCHANGED <<limit, eof>>
              /\ ~Before(d, value, low_v) /\ ~Before(d, v, value)
    BY <1>6 DEF ReadEnd, Return, Extrapolate
  <2>2. d \in {"up", "down"}
    BY DEF Direction
  <2>3. TypeOK' /\ WithinRange' /\ Remembered' /\ Scanning'
    BY <1>1, <1>2, <1>4, <2>0, <2>1, <2>2 DEF Search, TypeOK, WithinRange, Remembered,
       Scanning, Searching, Exists, Samp
  <2>4. Bracketed' /\ Closing'
    BY <1>1, <1>4, <2>0, <2>1, <2>2 DEF Bracketed, Closing, Between, Before, Exists, Samp
  <2> QED BY <2>3, <2>4 DEF Search
<1> QED BY <1>5, <1>6

LEMMA SearchScanPastEnd == ASSUME Search, ScanPastEnd PROVE Search'
<1>1. /\ data \in Seq(Value) /\ ptr \in Nat /\ field_start \in Nat /\ phase = "scan"
      /\ low \in Nat /\ high \in Int /\ low < high /\ field_start <= low
      /\ Exists(low) /\ high <= field_end /\ field_end \in Int
  BY DEF Search, TypeOK, Remembered, WithinRange, Searching, ScanPastEnd
<1>2. c \in Nat /\ low <= c /\ c < high
  BY <1>1, Middle
<1>3. ptr' \in Nat /\ ~Exists(c)
  <2>1. Moved(c, 1) /\ Read(c, 1) = <<>>
    BY DEF ScanPastEnd
  <2>2. ptr' \in Nat
    BY <1>1, <1>2, <2>1, MovedNat
  <2>3. ~Exists(c)
    BY <1>1, <1>2, <2>1, ReadOne
  <2> QED BY <2>2, <2>3
<1>4. low < c
  BY <1>1, <1>2, <1>3 DEF Exists
<1>5. UNCHANGED <<data, value, field_start, field_end, low, low_v, high_v,
                  field_start_v, dir>>
  BY DEF ScanPastEnd, args
<1>6. \/ high' = c /\ phase' = "scan" /\ UNCHANGED <<limit, eof>>
      \/ high' = high /\ phase' = "done" /\ UNCHANGED <<limit, eof>>
      \/ /\ high' = high /\ phase' = "extrapolate" /\ low # field_start
         /\ limit' = low - 1 /\ eof' = 1
  BY <1>1 DEF ScanPastEnd, Return, Extrapolate
<1> QED BY <1>1, <1>2, <1>3, <1>4, <1>5, <1>6 DEF Search, TypeOK, WithinRange,
           Remembered, Scanning, Bracketed, Closing, Searching, Exists, Samp

LEMMA SearchScanLevel == ASSUME Search, ScanLevel PROVE Search'
<1>1. /\ data \in Seq(Value) /\ ptr \in Nat /\ field_start \in Nat /\ phase = "scan"
      /\ low \in Nat /\ high \in Int /\ low < high /\ field_start <= low
      /\ dir = "unknown" /\ low_v = field_start_v
  BY DEF Search, TypeOK, Scanning, Searching, ScanLevel
<1>2. c \in Nat /\ low <= c /\ c < high
  BY <1>1, Middle
<1>3. Moved(c, 1) /\ Read(c, 1) = <<low_v>>
  BY DEF ScanLevel
<1>4. ptr' \in Nat
  BY <1>1, <1>2, <1>3, MovedNat
<1>5. Exists(c) /\ Samp(c) = low_v
  <2>1. Read(c, 1) # <<>> /\ Read(c, 1)[1] = low_v
    BY <1>3
  <2> QED BY <1>1, <1>2, <2>1, ReadOne
<1>6. /\ low' = c
      /\ UNCHANGED <<data, phase, value, field_start, field_end, high, low_v, high_v,
                     field_start_v, dir, limit, eof>>
  BY DEF ScanLevel, args
<1> QED BY <1>1, <1>2, <1>4, <1>5, <1>6 DEF Search, TypeOK, WithinRange,
           Remembered, Scanning, Bracketed, Closing, Searching, Exists, Samp

LEMMA SearchScanProbe == ASSUME Search, ScanProbe PROVE Search'
<1> DEFINE c_v == Read(c, 1)[1]
           d   == IF dir = "unknown" THEN Direction(field_start_v, c_v) ELSE dir
<1>1. /\ data \in Seq(Value) /\ ptr \in Nat /\ field_start \in Nat /\ phase = "scan"
      /\ low \in Nat /\ high \in Int /\ low < high /\ field_start <= low
      /\ high <= field_end /\ field_end \in Int /\ field_end - field_start >= 2
      /\ Exists(low) /\ low_v = Samp(low)
      /\ Exists(field_start) /\ field_start_v = Samp(field_start)
      /\ IF dir = "unknown" THEN low_v = field_start_v ELSE ~Before(dir, value, low_v)
      /\ dir \in {"unknown", "up", "down"}
  BY DEF Search, TypeOK, Scanning, Remembered, WithinRange, Searching, ScanProbe
<1>2. value \in Int /\ low_v \in Value /\ field_start_v \in Value
  <2>1. value \in Targets \cup {Unread}
    BY DEF Search, TypeOK
  <2>2. \A n \in Nat : Exists(n) => Samp(n) \in Value
    BY <1>1 DEF Exists, Samp
  <2> QED BY <1>1, <2>1, <2>2, Numbers
<1>3. c \in Nat /\ low <= c /\ c < high
  BY <1>1, Middle
<1>4. ptr' \in Nat
  <2>1. Moved(c, 1)
    BY DEF ScanProbe
  <2> QED BY <1>1, <1>3, <2>1, MovedNat
<1>5. Exists(c) /\ c_v = Samp(c) /\ c_v \in Value
  <2>1. Read(c, 1) # <<>>
    BY DEF ScanProbe
  <2> QED BY <1>1, <1>3, <2>1, ReadOne
<1>6. /\ c_v \in Int /\ low_v \in Int /\ field_start_v \in Int
  BY <1>2, <1>5, Numbers
<1>7. UNCHANGED <<data, value, field_start, field_end, field_start_v>>
  BY DEF ScanProbe, args
<1>8. /\ dir = "unknown" => c_v # low_v
      /\ dir' = d
      /\ \/ /\ phase' = "extrapolate" /\ limit' = field_start_v /\ eof' = 0
            /\ UNCHANGED <<low, low_v, high, high_v>>
         \/ /\ phase' = "bisect" /\ high' = c /\ high_v' = c_v
            /\ ~(dir = "unknown" /\ Before(d, value, field_start_v))
            /\ Before(d, value, c_v)
            /\ UNCHANGED <<low, low_v, limit, eof>>
         \/ /\ phase' = "scan" /\ low' = c /\ low_v' = c_v
            /\ Before(d, c_v, value)
            /\ UNCHANGED <<high, high_v, limit, eof>>
         \/ /\ phase' = "scan" /\ UNCHANGED <<low, low_v, high, high_v, limit, eof>>
            /\ ~(dir = "unknown" /\ Before(d, value, field_start_v))
  BY <1>1 DEF ScanProbe, Extrapolate
<1>9. d \in {"up", "down"}
  BY <1>1 DEF Direction
<1>10. ~(dir = "unknown" /\ Before(d, value, field_start_v)) => ~Before(d, value, low_v)
  BY <1>1
<1>11. ~Before(d, value, low_v) /\ Before(d, value, c_v) => low < c
  BY <1>1, <1>3, <1>5, <1>6
<1>12. field_start_v \in Nat
  BY <1>2, SearchAssumption
<1> HIDE DEF c_v, d
<1>13. TypeOK'
  BY <1>1, <1>2, <1>3, <1>4, <1>5, <1>7, <1>8, <1>9, <1>10, <1>11, <1>12
     DEF Search, TypeOK, Searching
<1>14. WithinRange' /\ Remembered'
  BY <1>1, <1>3, <1>5, <1>7, <1>8 DEF WithinRange, Remembered, Searching, Exists, Samp
<1>15. Scanning'
  BY <1>1, <1>2, <1>6, <1>7, <1>8, <1>9, <1>10 DEF Scanning, Before
<1>16. Bracketed' /\ Closing'
  <2>1. CASE phase' = "bisect"
    <3>1. /\ phase' = "bisect" /\ high' = c /\ high_v' = c_v /\ dir' = d
          /\ ~Before(d, value, low_v) /\ Before(d, value, c_v)
          /\ UNCHANGED <<low, low_v>>
      BY <1>8, <1>10, <2>1
    <3>2. high' # field_end' /\ low' < high'
      BY <1>1, <1>3, <1>7, <1>11, <3>1
    <3>3. Between(low_v, value, c_v) /\ ~Before(d, c_v, value)
      BY <1>2, <1>6, <3>1 DEF Between, Before
    <3>4. /\ Exists(low)' /\ low_v' = Samp(low)' /\ Exists(high)' /\ high_v' = Samp(high)'
      BY <1>1, <1>5, <1>7, <3>1 DEF Exists, Samp
    <3> QED BY <1>1, <1>7, <3>1, <3>2, <3>3, <3>4 DEF Bracketed, Closing, Between, Before
  <2>2. CASE phase' # "bisect"
    BY <2>2 DEF Bracketed, Closing
  <2> QED BY <2>1, <2>2
<1> QED BY <1>13, <1>14, <1>15, <1>16 DEF Search

LEMMA SearchBisectProbe == ASSUME Search, BisectProbe PROVE Search'
<1> DEFINE c_v == Read(c, 1)[1]
<1>1. /\ data \in Seq(Value) /\ ptr \in Nat /\ field_start \in Nat /\ phase = "bisect"
      /\ low \in Nat /\ high \in Int /\ high - low > 1 /\ field_start <= low
      /\ high <= field_end /\ field_end \in Int /\ field_end - field_start >= 2
  BY DEF Search, TypeOK, WithinRange, Searching, BisectProbe
<1>2. c \in Nat /\ low < c /\ c < high
  BY <1>1, Middle
<1>3. ptr' \in Nat
  <2>1. Moved(c, 1)
    BY DEF BisectProbe
  <2> QED BY <1>1, <1>2, <2>1, MovedNat
<1>4. Read(c, 1) # <<>> => Exists(c) /\ c_v = Samp(c) /\ c_v \in Value
  BY <1>1, <1>2, ReadOne
<1>5. UNCHANGED <<data, value, field_start, field_end, field_start_v, dir, limit, eof>>
  BY DEF BisectProbe, args
<1>6. \/ phase' = "done" /\ UNCHANGED <<low, low_v, high, high_v>>
      \/ /\ Read(c, 1) # <<>> /\ high' = c /\ high_v' = c_v
         /\ Before(dir, value, c_v) /\ UNCHANGED <<phase, low, low_v>>
      \/ /\ Read(c, 1) # <<>> /\ low' = c /\ low_v' = c_v
         /\ Before(dir, c_v, value) /\ UNCHANGED <<phase, high, high_v>>
  BY DEF BisectProbe, Return
<1>7. /\ value \in Int /\ low_v \in Int /\ high_v \in Int
      /\ c_v \in Value => c_v \in Int
  <2>1. /\ value \in Targets \cup {Unread} /\ low_v \in Value \cup {Unread}
        /\ high_v \in Value \cup {Unread}
    BY DEF Search, TypeOK
  <2> QED BY <2>1, Numbers
<1> HIDE DEF c_v
<1>8. TypeOK'
  BY <1>1, <1>2, <1>3, <1>4, <1>5, <1>6 DEF Search, TypeOK, Searching
<1>9. WithinRange' /\ Remembered' /\ Scanning'
  BY <1>1, <1>2, <1>4, <1>5, <1>6 DEF Search, WithinRange, Remembered, Scanning,
     Searching, Exists, Samp
<1>10. /\ Exists(low) /\ low_v = Samp(low) /\ ~Before(dir, value, low_v)
       /\ IF high = field_end THEN Exists(high - 1) /\ high_v = Samp(high - 1)
          ELSE Exists(high) /\ high_v = Samp(high)
       /\ ~Before(dir, high_v, value)
       /\ high # field_end => Before(dir, value, high_v)
  BY <1>1 DEF Search, Bracketed, Closing
<1>11. Bracketed' /\ Closing'
  <2>1. CASE phase' = "done"
    BY <2>1 DEF Bracketed, Closing
  <2>2. CASE /\ Read(c, 1) # <<>> /\ high' = c /\ high_v' = c_v
              /\ Before(dir, value, c_v) /\ UNCHANGED <<phase, low, low_v>>
    <3>1. high' # field_end' /\ low' < high'
      BY <1>1, <1>2, <1>5, <2>2
    <3>2. Between(low_v, value, c_v) /\ ~Before(dir, c_v, value)
      BY <1>4, <1>7, <1>10, <2>2 DEF Between, Before
    <3>3. /\ Exists(low)' /\ low_v' = Samp(low)' /\ Exists(high)' /\ high_v' = Samp(high)'
      BY <1>4, <1>5, <1>10, <2>2 DEF Exists, Samp
    <3> QED BY <1>1, <1>5, <1>10, <2>2, <3>1, <3>2, <3>3
            DEF Bracketed, Closing, Between, Before
  <2>3. CASE /\ Read(c, 1) # <<>> /\ low' = c /\ low_v' = c_v
              /\ Before(dir, c_v, value) /\ UNCHANGED <<phase, high, high_v>>
    <3>1. field_start' <= low' /\ low' < high'
      BY <1>1, <1>2, <1>5, <2>3
    <3>2. Between(c_v, value, high_v) /\ ~Before(dir, value, c_v)
      BY <1>4, <1>7, <1>10, <2>3 DEF Between, Before
    <3>3. /\ Exists(low)' /\ low_v' = Samp(low)'
          /\ IF high' = field_end' THEN Exists(high - 1)' /\ high_v' = Samp(high - 1)'
             ELSE Exists(high)' /\ high_v' = Samp(high)'
      BY <1>4, <1>5, <1>10, <2>3 DEF Exists, Samp
    <3> QED BY <1>1, <1>5, <1>10, <2>3, <3>1, <3>2, <3>3
            DEF Bracketed, Closing, Between, Before
  <2> QED BY <1>6, <2>1, <2>2, <2>3
<1> QED BY <1>8, <1>9, <1>11 DEF Search

LEMMA SearchEnd ==
  ASSUME Search, BisectEnd \/ ReadExtrapolate \/ SearchReturn
  PROVE  Search'
<1>1. CASE BisectEnd
  BY <1>1 DEF BisectEnd, Return, Search, TypeOK, WithinRange, Remembered, Scanning,
     Bracketed, Closing, Searching, args, locals
<1>2. CASE ReadExtrapolate
  <2>1. ptr' \in Nat
    <3>1. data \in Seq(Value) /\ ptr \in Nat /\ limit - eof \in Nat \cup {Here}
      BY DEF Search, TypeOK, Here
    <3>2. Moved(limit - eof, 2)
      BY <1>2 DEF ReadExtrapolate
    <3> QED BY <3>1, <3>2, MovedNat
  <2>2. phase' = "done" /\ UNCHANGED <<data, args, locals>>
    BY <1>2 DEF ReadExtrapolate, Return
  <2> QED BY <2>1, <2>2 DEF Search, TypeOK, WithinRange, Remembered, Scanning,
          Bracketed, Closing, Searching, args, locals
<1>3. CASE SearchReturn
  BY <1>3 DEF SearchReturn, Search, TypeOK, WithinRange, Remembered, Scanning,
     Bracketed, Closing, Searching, Unread
<1> QED BY <1>1, <1>2, <1>3

LEMMA SearchStutter == ASSUME Search, UNCHANGED vars PROVE Search'
  BY DEF vars, args, locals, Search, TypeOK, WithinRange, Remembered, Scanning,
     Bracketed, Closing, Searching, Exists, Samp

THEOREM SearchInvariant == Spec => []Search
<1>1. Init => Search
  BY SearchInit
<1>2. Search /\ [Next]_vars => Search'
  BY SearchGrow, SearchCall, SearchReadStart, SearchReadEnd, SearchScanPastEnd,
     SearchScanLevel, SearchScanProbe, SearchBisectProbe, SearchEnd, SearchStutter
     DEF Next, SearchStep
<1> QED BY <1>1, <1>2, PTL DEF Spec

(* Every variable of a search keeps its type; between two reads its range is  *)
(* not empty (_GD_GetIndex).                                                  *)
THEOREM TypeCorrect == Spec => []TypeOK
<1>1. Search => TypeOK
  BY DEF Search
<1> QED BY <1>1, SearchInvariant, PTL

(* The two ends that close in hold the samples remembered for them, and the   *)
(* value between them, whatever is added to the field (_GD_GetIndex).         *)
THEOREM AlwaysBracketed == Spec => []Bracketed
<1>1. Search => Bracketed
  BY DEF Search
<1> QED BY <1>1, SearchInvariant, PTL

-------------------------------------------------------------------------------
(* What the order of the samples gives.                                       *)
LEMMA Turned ==
  ASSUME data \in Seq(Value), Monotonic(data), NEW m \in Nat, NEW n \in Nat,
         Exists(m), Exists(n), m <= n, Samp(m) # Samp(n)
  PROVE  Sorted(data, Direction(Samp(m), Samp(n)))
<1>1. m + 1 \in 1..Len(data) /\ n + 1 \in 1..Len(data) /\ m + 1 <= n + 1
  BY DEF Exists
<1>2. Samp(m) \in Int /\ Samp(n) \in Int
  <2>1. Samp(m) \in Value /\ Samp(n) \in Value
    BY <1>1 DEF Samp
  <2> QED BY <2>1, Numbers
<1>3. CASE Sorted(data, "up")
  <2>1. ~(Samp(n) < Samp(m))
    BY <1>1, <1>3 DEF Sorted, Before, Samp
  <2> QED BY <1>3, <2>1 DEF Direction
<1>4. CASE Sorted(data, "down")
  <2>1. ~(Samp(n) > Samp(m))
    BY <1>1, <1>4 DEF Sorted, Before, Samp
  <2>2. Samp(n) < Samp(m)
    BY <1>2, <2>1
  <2> QED BY <1>4, <2>2 DEF Direction
<1> QED BY <1>3, <1>4 DEF Monotonic

LEMMA Ordered ==
  ASSUME data \in Seq(Value), NEW d \in {"up", "down"}, Sorted(data, d),
         NEW m \in Nat, NEW n \in Nat, Exists(m), Exists(n), m <= n
  PROVE  ~Before(d, Samp(n), Samp(m))
<1>1. m + 1 \in 1..Len(data) /\ n + 1 \in 1..Len(data) /\ m + 1 <= n + 1
  BY DEF Exists
<1> QED BY <1>1 DEF Sorted, Samp

(* A value inside the field stays inside it while the field grows.            *)
LEMMA InsideGrows ==
  ASSUME data \in Seq(Value), value \in Int, field_start \in Nat,
         Inside(value, field_start), UNCHANGED <<value, field_start>>,
         NEW x \in Value, data' = Append(data, x), Monotonic(Append(data, x))
  PROVE  Inside(value, field_start)'
<1> DEFINE long == Append(data, x)
<1>1. /\ long \in Seq(Value) /\ Len(long) = Len(data) + 1 /\ Len(data) \in Nat
      /\ \A i \in 1..Len(data) : long[i] = data[i]
      /\ long[Len(data) + 1] = x
  BY DEF long
<1>2. x \in Int /\ \A i \in 1..Len(long) : long[i] \in Int
  <2> SUFFICES ASSUME NEW i \in 1..Len(long) PROVE x \in Int /\ long[i] \in Int
    BY Numbers
  <2>1. long[i] \in Value
    BY <1>1
  <2> QED BY <2>1, Numbers
<1>3. PICK a \in (field_start + 1)..Len(data) : data[a] < value
  BY DEF Inside
<1>4. PICK b \in (field_start + 1)..Len(data) : data[b] > value
  BY DEF Inside
<1> DEFINE last == Len(data) + 1
<1>5. /\ a \in 1..Len(long) /\ b \in 1..Len(long) /\ last \in 1..Len(long)
      /\ a <= last /\ b <= last /\ long[a] = data[a] /\ long[b] = data[b]
  BY <1>1, <1>3, <1>4
<1> HIDE DEF long
<1>6. x # value
  <2>1. CASE Sorted(long, "up")
    <3>1. ~(long[last] < long[b])
      BY <1>5, <2>1 DEF Sorted, Before
    <3> QED BY <1>1, <1>2, <1>4, <1>5, <3>1
  <2>2. CASE Sorted(long, "down")
    <3>1. ~(long[last] > long[a])
      BY <1>5, <2>2 DEF Sorted, Before
    <3> QED BY <1>1, <1>2, <1>3, <1>5, <3>1
  <2> QED BY <2>1, <2>2 DEF Monotonic, long
<1>7. data' = long
  BY DEF long
<1>8. \A i \in (field_start + 1)..Len(long) : long[i] # value
  <2> SUFFICES ASSUME NEW i \in (field_start + 1)..Len(long) PROVE long[i] # value
    OBVIOUS
  <2>1. CASE i <= Len(data)
    BY <1>1, <2>1 DEF Inside
  <2>2. CASE i = Len(data) + 1
    BY <1>1, <1>6, <2>2
  <2> QED BY <1>1, <2>1, <2>2
<1>9. /\ a \in (field_start + 1)..Len(long) /\ long[a] < value
      /\ b \in (field_start + 1)..Len(long) /\ long[b] > value
  BY <1>1, <1>3, <1>4, <1>5
<1> QED BY <1>7, <1>8, <1>9 DEF Inside

(* A value inside the field is beyond its first sample and before its last.   *)
LEMMA InsideEnds ==
  ASSUME data \in Seq(Value), NEW d \in {"up", "down"}, Sorted(data, d),
         NEW v \in Int, NEW from \in Nat, Inside(v, from), Exists(from)
  PROVE  /\ Before(d, Samp(from), v)
         /\ \A n \in Nat : Len(data) = n + 1 => Before(d, v, Samp(n))
<1>1. PICK a \in (from + 1)..Len(data) : data[a] < v
  BY DEF Inside
<1>2. PICK b \in (from + 1)..Len(data) : data[b] > v
  BY DEF Inside
<1>3. \A i \in 1..Len(data) : data[i] \in Int
  <2> SUFFICES ASSUME NEW i \in 1..Len(data) PROVE data[i] \in Int
    OBVIOUS
  <2>1. data[i] \in Value
    OBVIOUS
  <2> QED BY <2>1, Numbers
<1>4. /\ from + 1 \in 1..Len(data) /\ from + 1 <= a /\ from + 1 <= b
      /\ a \in 1..Len(data) /\ b \in 1..Len(data) /\ Len(data) \in 1..Len(data)
      /\ a <= Len(data) /\ b <= Len(data)
  BY <1>1, <1>2 DEF Exists
<1>5. /\ ~Before(d, data[a], data[from + 1]) /\ ~Before(d, data[b], data[from + 1])
      /\ ~Before(d, data[Len(data)], data[a]) /\ ~Before(d, data[Len(data)], data[b])
  BY <1>4 DEF Sorted
<1>6. Before(d, data[from + 1], v) /\ Before(d, v, data[Len(data)])
  BY <1>1, <1>2, <1>3, <1>4, <1>5 DEF Before
<1> QED BY <1>6 DEF Samp

-------------------------------------------------------------------------------
(* The invariant of careful searches, action by action.                       *)
LEMMA CarefulInit == Init => CarefulSearch
  BY SearchInit DEF Init, CarefulSearch, Covered, Beyond, FrameFound

LEMMA CarefulGrow ==
  ASSUME CarefulSearch, Search', Grow PROVE CarefulSearch'
<1>1. PICK x \in Value : /\ Monotonic(Append(data, x)) /\ data' = Append(data, x)
                         /\ UNCHANGED <<ptr, phase, args, locals, sample>>
  BY DEF Grow
<1>2. /\ data \in Seq(Value) /\ value \in Int /\ field_start \in Nat
      /\ field_end \in Int /\ limit \in Nat
      /\ Searching => field_end - field_start >= 2
  <2>1. value \in Targets \cup {Unread}
    BY DEF CarefulSearch, Search, TypeOK
  <2>2. value \in Int
    BY <2>1, Numbers
  <2> QED BY <2>2 DEF CarefulSearch, Search, TypeOK
<1>3. /\ Len(data') = Len(data) + 1 /\ Len(data) \in Nat
      /\ \A n \in Nat : Exists(n) => Exists(n)' /\ Samp(n)' = Samp(n)
  BY <1>1, <1>2, Grown
<1>4. Inside(value, field_start) => Inside(value, field_start)'
  BY <1>1, <1>2, InsideGrows DEF args
<1>5. Covered'
  BY <1>1, <1>2, <1>3, <1>4 DEF CarefulSearch, Covered, args, locals, Inside
<1>6. Beyond'
  <2>1. CASE phase = "extrapolate"
    <3>1. field_end - 1 \in Nat /\ field_start < field_end - 1
      BY <1>2, <2>1 DEF Searching
    <3>2. Exists(field_end - 1) /\ Exists(field_start)
      BY <1>2, <2>1, <3>1 DEF CarefulSearch, Beyond, Exists
    <3> QED BY <1>1, <1>2, <1>3, <2>1, <3>1, <3>2 DEF CarefulSearch, Beyond, args, locals
  <2>2. CASE phase # "extrapolate"
    BY <1>1, <2>2 DEF Beyond
  <2> QED BY <2>1, <2>2
<1>7. FrameFound'
  <2>1. CASE phase = "done" /\ sample # NotFound
    <3> DEFINE n == sample[1]
    <3>1. n \in Nat /\ Exists(n) /\ n >= field_start
      BY <1>2, <2>1 DEF CarefulSearch, FrameFound, Exists
    <3>2. n + 1 \in Nat /\ (n - 1 >= field_start => n - 1 \in Nat /\ Exists(n - 1))
      BY <1>2, <3>1 DEF Exists
    <3> QED BY <1>1, <1>2, <1>3, <2>1, <3>1, <3>2 DEF CarefulSearch, FrameFound, args
  <2>2. CASE ~(phase = "done" /\ sample # NotFound)
    BY <1>1, <2>2 DEF FrameFound
  <2> QED BY <2>1, <2>2
<1> QED BY <1>5, <1>6, <1>7 DEF CarefulSearch

LEMMA CarefulCall ==
  ASSUME Careful, CarefulSearch, Search', gd_framenum_subset PROVE CarefulSearch'
<1>1. PICK x \in Targets, start \in StartFrames, end \in EndFrames :
        LET from == start * SPF
            to   == IF end = 0 THEN (nframes + 1) * SPF - 1 ELSE end * SPF - 1
        IN /\ MaySearch(x, from, to)
           /\ value' = x /\ field_start' = from /\ field_end' = to
           /\ IF TooShort(from, to) THEN Return(NotFound)
              ELSE phase' = "start" /\ sample' = NotFound
           /\ UNCHANGED data
  BY DEF gd_framenum_subset
<1>2. Len(data) >= field_end' \/ Inside(value', field_start')
  BY <1>1 DEF MaySearch
<1>3. (phase' = "done" \/ phase' = "start") /\ sample' = NotFound
  BY <1>1 DEF Return
<1> QED BY <1>1, <1>2, <1>3 DEF CarefulSearch, Covered, Beyond, FrameFound, Inside

LEMMA CarefulReadStart ==
  ASSUME CarefulSearch, Search', ReadStart PROVE CarefulSearch'
<1>1. /\ phase = "start" /\ UNCHANGED <<data, value, field_start, field_end>>
      /\ \/ phase' = "done" /\ sample' = NotFound
         \/ phase' = "end"
  BY DEF ReadStart, Return, args
<1> QED BY <1>1 DEF CarefulSearch, Covered, Beyond, FrameFound, Inside

LEMMA CarefulReadEnd ==
  ASSUME CarefulSearch, Search', ReadEnd PROVE CarefulSearch'
<1> DEFINE at == field_end - 1
<1>1. /\ data \in Seq(Value) /\ ptr \in Nat /\ field_start \in Nat /\ phase = "end"
      /\ low = field_start /\ high = field_end /\ dir = "unknown"
      /\ field_end \in Int /\ field_end - field_start >= 2 /\ at \in Nat
      /\ low_v = Samp(field_start)
  <2>1. phase = "end"
    BY DEF ReadEnd
  <2>2. /\ data \in Seq(Value) /\ ptr \in Nat /\ field_start \in Nat
        /\ field_end \in Int /\ field_end - field_start >= 2
    BY <2>1 DEF CarefulSearch, Search, TypeOK, Searching
  <2> QED BY <2>1, <2>2 DEF CarefulSearch, Search, Remembered
<1>2. UNCHANGED <<data, value, field_start, field_end, low_v, field_start_v>>
  BY DEF ReadEnd, args
<1>3. CASE Read(at, 1) = <<>>
  <2>1. phase' = "scan" /\ UNCHANGED dir
    BY <1>3 DEF ReadEnd
  <2>2. ~Exists(at)
    BY <1>1, <1>3, ReadOne
  <2>3. ~(Len(data) >= field_end)
    BY <1>1, <2>2 DEF Exists
  <2>4. Inside(value, field_start)
    BY <1>1, <2>3 DEF CarefulSearch, Covered
  <2> QED BY <1>1, <1>2, <2>1, <2>4 DEF CarefulSearch, Covered, Beyond, FrameFound, Inside
<1>4. CASE Read(at, 1) # <<>>
  <2> DEFINE v == Read(at, 1)[1]
  <2>1. Exists(at) /\ v = Samp(at)
    BY <1>1, <1>4, ReadOne
  <2>2. \/ phase' = "done" /\ sample' = NotFound
        \/ /\ phase' = "extrapolate" /\ v # low_v /\ dir' = Direction(low_v, v)
           /\ \/ limit' = low /\ eof' = 0 /\ Before(dir', value, low_v)
              \/ limit' = high - 1 /\ eof' = 1 /\ Before(dir', v, value)
        \/ phase' = "bisect"
    BY <1>4 DEF ReadEnd, Return, Extrapolate
  <2> HIDE DEF v
  <2> QED BY <1>1, <1>2, <2>1, <2>2 DEF CarefulSearch, Covered, Beyond, FrameFound,
          Exists, Samp
<1> QED BY <1>3, <1>4

LEMMA CarefulScanPastEnd ==
  ASSUME CarefulSearch, Search', ScanPastEnd PROVE CarefulSearch'
<1>1. /\ data \in Seq(Value) /\ ptr \in Nat /\ field_start \in Nat /\ phase = "scan"
      /\ low \in Nat /\ high \in Int /\ low < high /\ field_start <= low
      /\ Exists(low) /\ low_v = Samp(low)
      /\ Exists(field_start) /\ field_start_v = Samp(field_start)
      /\ dir \in {"unknown", "up", "down"} /\ Monotonic(data)
      /\ value \in Targets \cup {Unread}
      /\ IF dir = "unknown" THEN low_v = field_start_v ELSE ~Before(dir, value, low_v)
  BY DEF CarefulSearch, Search, TypeOK, Scanning, Remembered, Searching, ScanPastEnd
<1>2. c \in Nat /\ low <= c /\ c < high
  BY <1>1, Middle
<1>3. ~Exists(c)
  <2>1. Read(c, 1) = <<>>
    BY DEF ScanPastEnd
  <2> QED BY <1>1, <1>2, <2>1, ReadOne
<1>4. value \in Int
  BY <1>1, Numbers
<1>5. /\ Inside(value, field_start)
      /\ dir # "unknown" =>
           low_v # field_start_v /\ dir = Direction(field_start_v, low_v)
  BY <1>1 DEF CarefulSearch, Covered
<1>6. UNCHANGED <<data, value, field_start, field_end, low, low_v, field_start_v, dir>>
  BY DEF ScanPastEnd, args
<1>7. c - low # 1
  <2> SUFFICES ASSUME c - low = 1 PROVE FALSE
    OBVIOUS
  <2>1. Len(data) = low + 1
    BY <1>1, <1>2, <1>3 DEF Exists
  <2>2. Len(data) >= field_start + 1
    BY <1>1, <2>1
  <2>3. PICK d \in {"up", "down"} : Sorted(data, d)
    BY <1>1 DEF Monotonic
  <2>4. Before(d, Samp(field_start), value) /\ Before(d, value, Samp(low))
    BY <1>1, <1>4, <1>5, <2>1, <2>3, InsideEnds
  <2>5. low_v \in Int /\ field_start_v \in Int
    <3>1. \A n \in Nat : Exists(n) => Samp(n) \in Value
      BY <1>1 DEF Exists, Samp
    <3> QED BY <1>1, <3>1, Numbers
  <2>6. low_v # field_start_v /\ d = Direction(field_start_v, low_v)
    BY <1>1, <1>4, <2>4, <2>5 DEF Before, Direction
  <2>7. d = dir
    BY <1>1, <1>5, <2>6
  <2> QED BY <1>1, <2>4, <2>7
<1>8. phase' = "scan"
  BY <1>1, <1>7 DEF ScanPastEnd
<1> QED BY <1>1, <1>5, <1>6, <1>8 DEF CarefulSearch, Covered, Beyond, FrameFound, Inside

LEMMA CarefulScanLevel ==
  ASSUME CarefulSearch, Search', ScanLevel PROVE CarefulSearch'
<1>1. /\ phase = "scan" /\ dir = "unknown"
      /\ UNCHANGED <<data, phase, value, field_start, field_end, low_v,
                     field_start_v, dir>>
  BY DEF ScanLevel, args
<1> QED BY <1>1 DEF CarefulSearch, Covered, Beyond, FrameFound, Inside

LEMMA CarefulScanProbe ==
  ASSUME CarefulSearch, Search', ScanProbe PROVE CarefulSearch'
<1> DEFINE c_v == Read(c, 1)[1]
           d   == IF dir = "unknown" THEN Direction(field_start_v, c_v) ELSE dir
<1>1. /\ data \in Seq(Value) /\ ptr \in Nat /\ field_start \in Nat /\ phase = "scan"
      /\ low \in Nat /\ high \in Int /\ low < high /\ field_start <= low
      /\ Exists(low) /\ low_v = Samp(low)
      /\ Exists(field_start) /\ field_start_v = Samp(field_start)
      /\ dir = "unknown" => low_v = field_start_v
      /\ dir \in {"unknown", "up", "down"} /\ Monotonic(data)
      /\ value \in Targets \cup {Unread}
  BY DEF CarefulSearch, Search, TypeOK, Scanning, Remembered, Searching, ScanProbe
<1>2. c \in Nat /\ low <= c /\ c < high
  BY <1>1, Middle
<1>3. Exists(c) /\ c_v = Samp(c)
  <2>1. Read(c, 1) # <<>>
    BY DEF ScanProbe
  <2> QED BY <1>1, <1>2, <2>1, ReadOne
<1>4. value \in Int /\ low_v \in Int /\ field_start_v \in Int /\ c_v \in Int
  <2>1. \A n \in Nat : Exists(n) => Samp(n) \in Value
    BY <1>1 DEF Exists, Samp
  <2> QED BY <1>1, <1>2, <1>3, <2>1, Numbers
<1>5. /\ Inside(value, field_start)
      /\ dir # "unknown" =>
           low_v # field_start_v /\ dir = Direction(field_start_v, low_v)
  BY <1>1 DEF CarefulSearch, Covered
<1>6. UNCHANGED <<data, value, field_start, field_end, field_start_v, sample>>
  BY DEF ScanProbe, args
<1>7. /\ dir = "unknown" => c_v # low_v
      /\ dir' = d
      /\ \/ phase' = "extrapolate" /\ dir = "unknown" /\ Before(d, value, field_start_v)
         \/ phase' = "bisect"
         \/ phase' = "scan" /\ low_v' = c_v /\ Before(d, c_v, value)
         \/ phase' = "scan" /\ ~Before(d, value, c_v) /\ ~Before(d, c_v, value)
  BY <1>1 DEF ScanProbe, Extrapolate
<1> HIDE DEF c_v
<1>8. c_v # value
  <2>1. c + 1 \in (field_start + 1)..Len(data)
    BY <1>1, <1>2, <1>3 DEF Exists
  <2> QED BY <1>3, <1>5, <2>1 DEF Inside, Samp
<1>9. c_v # field_start_v /\ d = Direction(field_start_v, c_v) /\ Sorted(data, d)
  <2>1. CASE dir = "unknown"
    <3>1. c_v # field_start_v /\ field_start <= c
      BY <1>1, <1>2, <1>7, <2>1
    <3> QED BY <1>1, <1>2, <1>3, <2>1, <3>1, Turned
  <2>2. CASE dir # "unknown"
    <3>1. Sorted(data, dir) /\ dir \in {"up", "down"}
      BY <1>1, <1>5, <2>2, Turned
    <3>2. ~Before(dir, c_v, low_v)
      BY <1>1, <1>2, <1>3, <3>1, Ordered
    <3>3. c_v # field_start_v /\ dir = Direction(field_start_v, c_v)
      BY <1>4, <1>5, <2>2, <3>1, <3>2 DEF Before, Direction
    <3> QED BY <2>2, <3>1, <3>3
  <2> QED BY <2>1, <2>2
<1>10. d \in {"up", "down"}
  BY <1>1 DEF Direction
<1>11. ~Before(d, value, field_start_v)
  <2>1. Before(d, Samp(field_start), value)
    BY <1>1, <1>4, <1>5, <1>9, <1>10, InsideEnds
  <2> QED BY <1>1, <1>4, <1>10, <2>1 DEF Before
<1>12. ~(~Before(d, value, c_v) /\ ~Before(d, c_v, value))
  BY <1>4, <1>8, <1>10 DEF Before
<1> HIDE DEF d
<1>13. \/ phase' = "bisect"
       \/ phase' = "scan" /\ low_v' = c_v
  BY <1>7, <1>11, <1>12
<1> QED BY <1>1, <1>5, <1>6, <1>7, <1>9, <1>13
        DEF CarefulSearch, Covered, Beyond, FrameFound, Inside

LEMMA CarefulBisectProbe ==
  ASSUME CarefulSearch, Search', BisectProbe PROVE CarefulSearch'
<1> DEFINE c_v == Read(c, 1)[1]
<1>1. /\ data \in Seq(Value) /\ ptr \in Nat /\ field_start \in Nat /\ phase = "bisect"
      /\ low \in Nat /\ high \in Int /\ high - low > 1 /\ field_start <= low
      /\ dir \in {"unknown", "up", "down"} /\ value \in Targets \cup {Unread}
  BY DEF CarefulSearch, Search, TypeOK, Searching, BisectProbe
<1>2. c \in Nat /\ low < c /\ value \in Int
  BY <1>1, Middle, Numbers
<1>3. Read(c, 1) # <<>> => Exists(c) /\ c_v = Samp(c) /\ c_v \in Int
  BY <1>1, <1>2, ReadOne, Numbers
<1>4. UNCHANGED <<data, value, field_start>>
  BY DEF BisectProbe, args
<1>5. \/ phase' = "bisect"
      \/ phase' = "done" /\ sample' = NotFound
      \/ /\ phase' = "done" /\ sample' = Found(c, 0, 1) /\ Read(c, 1) # <<>>
         /\ ~Before(dir, value, c_v) /\ ~Before(dir, c_v, value)
  BY <1>1 DEF BisectProbe, Return
<1> HIDE DEF c_v
<1>6. Covered' /\ Beyond'
  BY <1>5 DEF Covered, Beyond
<1>7. FrameFound'
  <2>1. CASE phase' = "bisect" \/ sample' = NotFound
    BY <2>1 DEF FrameFound
  <2>2. CASE /\ sample' = Found(c, 0, 1) /\ Read(c, 1) # <<>>
             /\ ~Before(dir, value, c_v) /\ ~Before(dir, c_v, value)
    <3>1. value = Samp(c) /\ Exists(c) /\ c >= field_start
      BY <1>1, <1>2, <1>3, <2>2 DEF Before
    <3>2. sample'[1] = c /\ sample'[2] = 0 /\ sample'[3] = 1
      BY <2>2 DEF Found
    <3>3. /\ c \in 0..(Len(data') - 1) /\ c >= field_start'
          /\ 0 = value' - data'[c + 1]
      BY <1>2, <1>4, <3>1 DEF Samp, Exists
    <3> QED BY <3>2, <3>3 DEF FrameFound, Samp, Exists
  <2> QED BY <1>5, <2>1, <2>2
<1> QED BY <1>6, <1>7 DEF CarefulSearch

LEMMA CarefulBisectEnd ==
  ASSUME CarefulSearch, Search', BisectEnd PROVE CarefulSearch'
<1>1. /\ data \in Seq(Value) /\ field_start \in Nat /\ phase = "bisect"
      /\ low \in Nat /\ high \in Int /\ low < high /\ high - low <= 1
      /\ field_start <= low /\ field_end \in Int /\ field_end - field_start >= 2
      /\ value \in Targets \cup {Unread} /\ low_v \in Value \cup {Unread}
      /\ high_v \in Value \cup {Unread}
  BY DEF CarefulSearch, Search, TypeOK, Searching, BisectEnd
<1>2. high = low + 1 /\ value \in Int /\ low_v \in Int /\ high_v \in Int
  BY <1>1, Numbers
<1>3. /\ phase' = "done" /\ sample' = Found(low, value - low_v, high_v - low_v)
      /\ UNCHANGED <<data, value, field_start>>
  BY DEF BisectEnd, Return, args
<1>4. /\ Exists(low) /\ low_v = Samp(low) /\ Between(low_v, value, high_v)
      /\ ~Before(dir, value, low_v) /\ ~Before(dir, high_v, value)
      /\ IF high = field_end THEN high_v = Samp(high - 1)
         ELSE Exists(high) /\ high_v = Samp(high)
      /\ high # field_end => Before(dir, value, high_v)
      /\ high = field_end /\ low # field_start => Before(dir, low_v, value)
  BY <1>1 DEF CarefulSearch, Search, Bracketed, Closing
<1>5. high # field_end
  <2> SUFFICES ASSUME high = field_end PROVE FALSE
    OBVIOUS
  <2>1. low # field_start /\ high - 1 = low
    BY <1>1, <1>2
  <2> QED BY <1>2, <1>4, <2>1 DEF Before
<1>6. /\ Exists(low + 1) /\ high_v = Samp(low + 1)
      /\ high_v # low_v
  <2>1. Before(dir, value, high_v) /\ ~Before(dir, value, low_v)
    BY <1>4, <1>5
  <2> QED BY <1>2, <1>4, <1>5, <2>1
<1>7. /\ sample'[1] = low /\ sample'[2] = value - Samp(low)
      /\ sample'[3] = Samp(low + 1) - Samp(low) /\ sample'[3] # 0
  BY <1>2, <1>3, <1>4, <1>6 DEF Found
<1>8. FrameFound'
  BY <1>1, <1>3, <1>4, <1>6, <1>7 DEF FrameFound, Exists, Samp
<1>9. Covered' /\ Beyond'
  BY <1>3 DEF Covered, Beyond
<1> QED BY <1>8, <1>9 DEF CarefulSearch

LEMMA CarefulReadExtrapolate ==
  ASSUME CarefulSearch, Search', ReadExtrapolate PROVE CarefulSearch'
<1> DEFINE buf == Read(limit - eof, 2)
<1>1. /\ data \in Seq(Value) /\ ptr \in Nat /\ field_start \in Nat
      /\ phase = "extrapolate" /\ field_end \in Int /\ field_end - field_start >= 2
      /\ Monotonic(data) /\ value \in Targets \cup {Unread}
  BY DEF CarefulSearch, Search, TypeOK, Searching, ReadExtrapolate
<1>2. /\ Exists(field_end - 1) /\ Samp(field_start) # Samp(field_end - 1)
      /\ dir = Direction(Samp(field_start), Samp(field_end - 1))
      /\ \/ eof = 0 /\ limit = field_start /\ Before(dir, value, Samp(limit))
         \/ eof = 1 /\ limit = field_end - 1 /\ Before(dir, Samp(limit), value)
  BY <1>1 DEF CarefulSearch, Beyond
<1>3. limit \in Nat /\ limit - eof \in Nat /\ value \in Int /\ limit >= field_start
  BY <1>1, <1>2, Numbers
<1>4. /\ phase' = "done" /\ UNCHANGED <<data, value, field_start>>
      /\ sample' = IF Len(buf) < 2 THEN NotFound
                   ELSE Found(limit, value - buf[eof + 1], buf[2] - buf[1])
  BY DEF ReadExtrapolate, Return, args
<1>5. Covered' /\ Beyond'
  BY <1>4 DEF Covered, Beyond
<1>6. FrameFound'
  <2>1. CASE Len(buf) < 2
    BY <1>4, <2>1 DEF FrameFound
  <2>2. CASE Len(buf) >= 2
    <3> DEFINE n == limit - eof
    <3>1. /\ Exists(n) /\ Exists(n + 1)
          /\ buf[1] = Samp(n) /\ buf[2] = Samp(n + 1)
      BY <1>1, <1>3, <2>2, ReadTwo
    <3>2. field_end - 1 \in Nat /\ field_start <= field_end - 1 /\ Exists(field_start)
      BY <1>1, <1>2 DEF Exists
    <3>3. Sorted(data, dir) /\ dir \in {"up", "down"}
      <4>1. dir \in {"up", "down"}
        BY <1>2 DEF Direction
      <4> QED BY <1>1, <1>2, <3>2, <4>1, Turned
    <3>4. ~Before(dir, Samp(n + 1), Samp(n))
      BY <1>1, <1>3, <3>1, <3>3, Ordered
    <3>5. Samp(n) \in Int /\ Samp(n + 1) \in Int
      <4>1. Samp(n) \in Value /\ Samp(n + 1) \in Value
        BY <1>1, <1>3, <3>1 DEF Exists, Samp
      <4> QED BY <4>1, Numbers
    <3>6. sample' = Found(limit, value - buf[eof + 1], buf[2] - buf[1])
      BY <1>1, <1>4, <2>2, <1>3, ReadLen
    <3>7. /\ sample'[1] = limit /\ sample'[2] = value - buf[eof + 1]
          /\ sample'[3] = Samp(n + 1) - Samp(n)
      BY <3>1, <3>6 DEF Found
    <3> HIDE DEF buf
    <3>8. CASE eof = 0 /\ limit = field_start /\ Before(dir, value, Samp(limit))
      <4>1. n = limit /\ sample'[2] = value - Samp(limit)
        BY <1>3, <3>1, <3>7, <3>8
      <4>2. Between(value, Samp(limit), Samp(limit + 1))
        BY <1>3, <3>3, <3>4, <3>5, <3>8, <4>1 DEF Between, Before
      <4> QED BY <1>3, <1>4, <3>1, <3>7, <3>8, <4>1, <4>2 DEF FrameFound, Exists, Samp
    <3>9. CASE eof = 1 /\ limit = field_end - 1 /\ Before(dir, Samp(limit), value)
      <4>1. n = limit - 1 /\ n + 1 = limit /\ sample'[2] = value - Samp(limit)
        BY <1>3, <3>1, <3>7, <3>9
      <4>2. Between(Samp(limit - 1), Samp(limit), value) /\ limit - 1 >= field_start
        BY <1>1, <1>3, <3>3, <3>4, <3>5, <3>9, <4>1 DEF Between, Before
      <4> QED BY <1>3, <1>4, <3>1, <3>7, <3>9, <4>1, <4>2 DEF FrameFound, Exists, Samp
    <3> QED BY <1>2, <3>8, <3>9
  <2> QED BY <2>1, <2>2, <1>1, <1>3, ReadLen
<1> QED BY <1>5, <1>6 DEF CarefulSearch

LEMMA CarefulReturn ==
  ASSUME CarefulSearch, Search', SearchReturn PROVE CarefulSearch'
  BY DEF SearchReturn, CarefulSearch, Covered, Beyond, FrameFound

LEMMA CarefulStutter ==
  ASSUME CarefulSearch, Search', UNCHANGED vars PROVE CarefulSearch'
  BY DEF vars, args, locals, CarefulSearch, Covered, Beyond, FrameFound, Inside,
     Exists, Samp

(* Where the calls that need not come to an end are left out, what            *)
(* gd_framenum_subset returns is where the field passes the value, at the     *)
(* moment of the answer and from then on, whatever was added meanwhile        *)
(* (_GD_GetIndex, _GD_Extrapolate).                                           *)
THEOREM FoundRight == ASSUME Careful PROVE Spec => []FrameFound
<1>1. Init => CarefulSearch
  BY CarefulInit
<1>2. CarefulSearch /\ Search' /\ [Next]_vars => CarefulSearch'
  BY CarefulGrow, CarefulCall, CarefulReadStart, CarefulReadEnd, CarefulScanPastEnd,
     CarefulScanLevel, CarefulScanProbe, CarefulBisectProbe, CarefulBisectEnd,
     CarefulReadExtrapolate, CarefulReturn, CarefulStutter
     DEF Next, SearchStep
<1>3. CarefulSearch => FrameFound
  BY DEF CarefulSearch
<1> QED BY <1>1, <1>2, <1>3, SearchInvariant, PTL DEF Spec
===============================================================================
