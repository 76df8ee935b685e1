------------------------------ MODULE FrameSearch ------------------------------
(* gd_framenum_subset (index.c): the frame at which a monotonic field takes a *)
(* value, by bisection, while the program that writes the field adds to it.   *)
(* Every sample is read by a call of its own, so that the field may grow      *)
(* between any two of them.  When the end of the range cannot be read, the    *)
(* end of the field is looked for on the way: this is phase "scan".           *)
(*                                                                            *)
(* The field is a sequence whose first element is sample 0.  Its samples are  *)
(* no negative numbers: where one is taken for the number of a sample         *)
(* (index.c:150), what is read before the first sample is padding, which is   *)
(* not modelled.                                                              *)
EXTENDS Integers, Sequences

CONSTANTS
  SPF,           \* samples per frame
  Value,         \* what samples can be
  Targets,       \* values looked for
  StartFrames,   \* field_start
  EndFrames,     \* field_end
  MaxLen,        \* bound: samples the field may grow to
  Careful        \* leave out the calls that need not come to an end

Here == -1       \* GD_HERE

ASSUME SearchAssumption ==
  /\ SPF \in Nat \ {0} /\ MaxLen \in Nat
  /\ Value \subseteq Nat /\ Targets \subseteq Int
  /\ StartFrames \subseteq Nat /\ EndFrames \subseteq Nat
  /\ Careful \in BOOLEAN

VARIABLES
  data,          \* the samples of the field
  ptr,           \* where the next read with GD_HERE starts
  phase,         \* what the call does next
  value, field_start, field_end,            \* the arguments, in samples
  low, high, low_v, high_v, field_start_v,  \* the locals of _GD_GetIndex
  dir,
  limit, eof,    \* the arguments of _GD_Extrapolate
  sample         \* the result: low and the two differences of the quotient

locals == <<low, high, low_v, high_v, field_start_v, dir, limit, eof>>
args   == <<value, field_start, field_end>>
vars   == <<data, ptr, phase, args, locals, sample>>

Unread == 0      \* a local that was not assigned yet
Least(a, b) == IF a < b THEN a ELSE b

-------------------------------------------------------------------------------
(* Reading n samples from sample number first (_GD_DoField): as many as there *)
(* are.                                                                       *)
From(first)    == IF first = Here THEN ptr ELSE first
Read(first, n) == SubSeq(data, From(first) + 1, Least(From(first) + n, Len(data)))
Moved(first, n) == ptr' = From(first) + Len(Read(first, n))

NotFound == <<>>
Found(n, num, den) == <<n, num, den>>    \* n + num / den

Before(d, a, b) == IF d = "up" THEN a < b ELSE a > b

Direction(from, to) == IF to < from THEN "down" ELSE "up"

Return(result) == phase' = "done" /\ sample' = result

Extrapolate(n, at_end) == phase' = "extrapolate" /\ limit' = n /\ eof' = at_end

-------------------------------------------------------------------------------
Init ==
  /\ data \in {<<>>} \cup {<<x>> : x \in Value}
  /\ ptr = 0 /\ phase = "idle"
  /\ value = Unread /\ field_start = 0 /\ field_end = 0
  /\ low = 0 /\ high = 0
  /\ low_v = Unread /\ high_v = Unread /\ field_start_v = Unread
  /\ dir = "unknown" /\ limit = 0 /\ eof = 0 /\ sample = NotFound

Sorted(s, d) == \A i, j \in 1..Len(s) : i <= j => ~Before(d, s[j], s[i])

Monotonic(s) == Sorted(s, "up") \/ Sorted(s, "down")

Grow ==
  \E x \in Value :
    /\ Len(data) < MaxLen /\ Monotonic(Append(data, x))
    /\ data' = Append(data, x)
    /\ UNCHANGED <<ptr, phase, args, locals, sample>>

(* A search that has to find the end of the field itself ends if the value    *)
(* lies between two samples and is none of them.                              *)
Inside(x, from) ==
  /\ \A i \in (from + 1)..Len(data) : data[i] # x
  /\ \E i \in (from + 1)..Len(data) : data[i] < x
  /\ \E i \in (from + 1)..Len(data) : data[i] > x

MaySearch(x, from, to) == Careful => Len(data) >= to \/ Inside(x, from)

(* Slip: ranges of any length are accepted.                                   *)
TooShortNever(from, to) == FALSE
TooShort(from, to) == to - from < 2

nframes == Len(data) \div SPF

gd_framenum_subset ==
  \E x \in Targets, start \in StartFrames, end \in EndFrames :
    LET from == start * SPF
        to   == IF end = 0 THEN (nframes + 1) * SPF - 1 ELSE end * SPF - 1
    IN /\ phase = "idle" /\ MaySearch(x, from, to)
       /\ value' = x /\ field_start' = from /\ field_end' = to
       /\ low' = from /\ high' = to /\ dir' = "unknown"
       /\ IF TooShort(from, to) THEN Return(NotFound)
          ELSE phase' = "start" /\ sample' = NotFound
       /\ UNCHANGED <<data, ptr, low_v, high_v, field_start_v, limit, eof>>

ReadStart ==
  /\ phase = "start"
  /\ LET buf == Read(field_start, 1)
     IN /\ Moved(field_start, 1)
        /\ IF buf = <<>> THEN /\ Return(NotFound)
                              /\ UNCHANGED <<low_v, field_start_v>>
           ELSE /\ low_v' = buf[1] /\ field_start_v' = buf[1]
                /\ phase' = "end" /\ sample' = sample
  /\ UNCHANGED <<data, args, low, high, high_v, dir, limit, eof>>

(* Slip: a value beyond the last sample is looked for all the same.           *)
ReadEndNoExtrapolate ==
  /\ phase = "end"
  /\ LET buf == Read(field_end - 1, 1)
         d   == Direction(low_v, buf[1])
     IN /\ Moved(field_end - 1, 1)
        /\ IF buf = <<>>
           THEN phase' = "scan" /\ UNCHANGED <<dir, high_v, limit, eof, sample>>
           ELSE /\ dir' = d /\ high_v' = buf[1] /\ phase' = "bisect"
                /\ UNCHANGED <<limit, eof, sample>>
  /\ UNCHANGED <<data, args, low, high, low_v, field_start_v>>

ReadEnd ==
  /\ phase = "end"
  /\ LET buf == Read(field_end - 1, 1)
         d   == Direction(low_v, buf[1])
     IN /\ Moved(field_end - 1, 1)
        /\ IF buf = <<>>
           THEN phase' = "scan" /\ UNCHANGED <<dir, high_v, limit, eof, sample>>
           ELSE /\ high_v' = buf[1]
                /\ IF buf[1] = low_v
                   THEN Return(NotFound) /\ UNCHANGED <<dir, limit, eof>>
                   ELSE /\ dir' = d
                        /\ IF Before(d, value, low_v)
                           THEN Extrapolate(low, 0) /\ sample' = sample
                           ELSE IF Before(d, buf[1], value)
                           THEN Extrapolate(high - 1, 1) /\ sample' = sample
                           ELSE phase' = "bisect" /\ UNCHANGED <<limit, eof, sample>>
  /\ UNCHANGED <<data, args, low, high, low_v, field_start_v>>

c == (high + low) \div 2

(* Nothing at sample c: the end of the field is there or before.              *)
ScanPastEnd ==
  /\ phase = "scan" /\ Read(c, 1) = <<>> /\ Moved(c, 1)
  /\ IF c - low # 1
     THEN high' = c /\ UNCHANGED <<phase, limit, eof, sample>>
     ELSE /\ high' = high
          /\ IF low = field_start
             THEN Return(NotFound) /\ UNCHANGED <<limit, eof>>
             ELSE Extrapolate(low - 1, 1) /\ sample' = sample
  /\ UNCHANGED <<data, args, low, low_v, high_v, field_start_v, dir>>

(* Every sample so far is the same.                                           *)
ScanLevel ==
  /\ phase = "scan" /\ dir = "unknown" /\ Read(c, 1) = <<low_v>> /\ Moved(c, 1)
  /\ low' = c
  /\ UNCHANGED <<data, phase, args, high, low_v, high_v, field_start_v, dir,
                 limit, eof, sample>>

(* A probe that hits the value moves neither end.  Before the first sample    *)
(* the search goes on from the sample whose number is the first one's value.  *)
ScanProbe ==
  /\ phase = "scan" /\ Read(c, 1) # <<>> /\ Moved(c, 1)
  /\ LET c_v == Read(c, 1)[1]
         d   == IF dir = "unknown" THEN Direction(field_start_v, c_v) ELSE dir
     IN /\ dir = "unknown" => c_v # low_v
        /\ dir' = d
        /\ IF dir = "unknown" /\ Before(d, value, field_start_v)
           THEN Extrapolate(field_start_v, 0) /\ UNCHANGED <<low, low_v, high, high_v>>
           ELSE IF Before(d, value, c_v)
           THEN /\ high' = c /\ high_v' = c_v /\ phase' = "bisect"
                /\ UNCHANGED <<low, low_v, limit, eof>>
           ELSE IF Before(d, c_v, value)
           THEN low' = c /\ low_v' = c_v /\ UNCHANGED <<phase, high, high_v, limit, eof>>
           ELSE UNCHANGED <<phase, low, low_v, high, high_v, limit, eof>>
  /\ UNCHANGED <<data, args, field_start_v, sample>>

(* Slip: the lower end stays where it is.                                     *)
BisectProbeStuck ==
  /\ phase = "bisect" /\ high - low > 1 /\ Moved(c, 1)
  /\ LET buf == Read(c, 1)
     IN IF buf = <<>> THEN Return(NotFound) /\ UNCHANGED <<low, low_v, high, high_v>>
        ELSE IF Before(dir, value, buf[1])
        THEN high' = c /\ high_v' = buf[1] /\ UNCHANGED <<phase, low, low_v, sample>>
        ELSE low_v' = buf[1] /\ UNCHANGED <<phase, low, high, high_v, sample>>
  /\ UNCHANGED <<data, args, field_start_v, dir, limit, eof>>

BisectProbe ==
  /\ phase = "bisect" /\ high - low > 1 /\ Moved(c, 1)
  /\ LET buf == Read(c, 1)
     IN IF buf = <<>> THEN Return(NotFound) /\ UNCHANGED <<low, low_v, high, high_v>>
        ELSE IF Before(dir, value, buf[1])
        THEN high' = c /\ high_v' = buf[1] /\ UNCHANGED <<phase, low, low_v, sample>>
        ELSE IF Before(dir, buf[1], value)
        THEN low' = c /\ low_v' = buf[1] /\ UNCHANGED <<phase, high, high_v, sample>>
        ELSE Return(Found(c, 0, 1)) /\ UNCHANGED <<low, low_v, high, high_v>>
  /\ UNCHANGED <<data, args, field_start_v, dir, limit, eof>>

BisectEnd ==
  /\ phase = "bisect" /\ high - low <= 1
  /\ Return(Found(low, value - low_v, high_v - low_v))
  /\ UNCHANGED <<data, ptr, args, locals>>

ReadExtrapolate ==
  /\ phase = "extrapolate" /\ Moved(limit - eof, 2)
  /\ LET buf == Read(limit - eof, 2)
     IN Return(IF Len(buf) < 2 THEN NotFound
               ELSE Found(limit, value - buf[eof + 1], buf[2] - buf[1]))
  /\ UNCHANGED <<data, args, locals>>

SearchStep == \/ ReadStart \/ ReadEnd \/ ScanPastEnd \/ ScanLevel \/ ScanProbe
              \/ BisectProbe \/ BisectEnd \/ ReadExtrapolate

(* The caller takes the result; it may call again.                            *)
SearchReturn ==
  /\ phase = "done" /\ phase' = "idle" /\ value' = Unread /\ sample' = NotFound
  /\ field_start' = 0 /\ field_end' = 0 /\ low' = 0 /\ high' = 0
  /\ low_v' = Unread /\ high_v' = Unread /\ field_start_v' = Unread
  /\ dir' = "unknown" /\ limit' = 0 /\ eof' = 0
  /\ UNCHANGED <<data, ptr>>

Next == Grow \/ gd_framenum_subset \/ SearchStep \/ SearchReturn

Spec == Init /\ [][Next]_vars

(* A call that has begun runs on; the producer need not do anything.          *)
FairSpec == Spec /\ WF_vars(SearchStep)

-------------------------------------------------------------------------------
Searching == phase \notin {"idle", "done"}

Samp(n) == data[n + 1]

Exists(n) == n \in 0..(Len(data) - 1)

TypeOK ==
  /\ data \in Seq(Value) /\ Monotonic(data)
  /\ ptr \in Nat
  /\ phase \in {"idle", "start", "end", "scan", "bisect", "extrapolate", "done"}
  /\ value \in Targets \cup {Unread} /\ field_start \in Nat /\ field_end \in Int
  /\ low \in Nat /\ high \in Int
  /\ {low_v, high_v, field_start_v} \subseteq Value \cup {Unread}
  /\ dir \in {"unknown", "up", "down"}
  /\ limit \in Nat /\ eof \in {0, 1}
  /\ Searching => field_start <= low /\ low < high /\ field_end - field_start >= 2

Between(a, x, b) == (a <= x /\ x <= b) \/ (b <= x /\ x <= a)

(* A frame number that is returned is where the field passes the value: at a  *)
(* sample, between two neighbours in proportion, or on the line through two   *)
(* neighbours if the value lies beyond the samples there were                 *)
(* (_GD_GetIndex, _GD_Extrapolate).  Only there may the quotient be one by 0. *)
FrameFound ==
  (phase = "done" /\ sample # NotFound) =>
    LET n   == sample[1]
        num == sample[2]
        den == sample[3]
    IN /\ n >= field_start /\ Exists(n) /\ num = value - Samp(n)
       /\ \/ num = 0 /\ den # 0
          \/ /\ Exists(n + 1) /\ den = Samp(n + 1) - Samp(n) /\ den # 0
             /\ Between(Samp(n), value, Samp(n + 1))
          \/ /\ n = field_start /\ Exists(n + 1) /\ den = Samp(n + 1) - Samp(n)
             /\ Between(value, Samp(n), Samp(n + 1))
          \/ /\ n - 1 >= field_start /\ den = Samp(n) - Samp(n - 1)
             /\ Between(Samp(n - 1), Samp(n), value)

(* While the two ends close in, the samples at the ends are those that were   *)
(* remembered for them and have the value between them, however much the      *)
(* field grows meanwhile.  The upper end starts one past the sample read.     *)
Bracketed ==
  phase = "bisect" =>
    /\ field_start <= low /\ low < high /\ Exists(low) /\ low_v = Samp(low)
    /\ IF high = field_end THEN Exists(high - 1) /\ high_v = Samp(high - 1)
       ELSE Exists(high) /\ high_v = Samp(high)
    /\ Between(low_v, value, high_v) /\ ~Before(dir, value, low_v)

(* A search comes to an end (the loops of _GD_GetIndex), even while the field *)
(* is added to: the comment at index.c:105 says of the first loop that it     *)
(* runs "until either we find the end or we find a subdomain in which our     *)
(* value lies".                                                               *)
SearchEnds == Searching ~> phase = "done"
===============================================================================
