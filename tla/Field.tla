--------------------------------- MODULE Field ---------------------------------
(* What a RAW field promises to its callers, whatever encoding stores it: an  *)
(* array of samples that starts at sample number Bof, and an I/O pointer.     *)
(* Reads return the samples of the array, writes replace them, both leave the *)
(* pointer on the sample after the last one moved (gd_getdata(3)              *)
(* gd_putdata(3), gd_seek(3)).  RawField and OopField are shown to implement  *)
(* this module, each by a mapping of its files and positions to data and ptr. *)
EXTENDS Integers, Sequences

CONSTANTS Bof, Zero   \* the first sample number stored, the padding

VARIABLES data, ptr, ret

Eof(d) == Bof + Len(d)

Least(a, b) == IF a < b THEN a ELSE b
Greatest(a, b) == IF a < b THEN b ELSE a

(* Sample number k: padding before Bof.                                       *)
SampleAt(d, k) == IF k < Bof THEN Zero ELSE d[k - Bof + 1]

(* At most n samples from number s0, fewer when the end of the field is met.  *)
Slice(d, s0, n) ==
  LET m == Least(n, Greatest(0, Eof(d) - s0))
  IN [i \in 1..m |-> SampleAt(d, s0 + i - 1)]

(* The array after vals were written from sample number s0 on; a gap between  *)
(* the old end and s0 is padded.                                              *)
Overlay(d, s0, vals) ==
  LET first == s0 - Bof
      Cell(i) == IF i > first /\ i <= first + Len(vals) THEN vals[i - first]
                 ELSE IF i <= Len(d) THEN d[i] ELSE Zero
  IN [i \in 1..Greatest(Len(d), first + Len(vals)) |-> Cell(i)]

Succeeds(op) == ret'.op = op /\ ~ret'.err

Get ==
  /\ Succeeds("get")
  /\ ret'.data = Slice(data, ret'.at, ret'.n)
  /\ \/ ptr' = ret'.at + Len(ret'.data)
     \/ ret'.at > Eof(data) /\ ptr' = Eof(data)
  /\ data' = data

(* With GD_HERE the samples moved start at the pointer.                       *)
GetHere == ret'.here /\ ret'.at = ptr /\ Get

(* A write may fall short; what it counts has been written.                   *)
Put ==
  /\ Succeeds("put")
  /\ ret'.at >= Bof
  /\ Len(ret'.data) > 0
  /\ data' = Overlay(data, ret'.at, ret'.data)
  /\ ptr' = ret'.at + Len(ret'.data)

PutHere == ret'.here /\ ret'.at = ptr /\ Put

(* A seek returns the position it moved the pointer to; seeking for writing   *)
(* may pad the field up to there.                                             *)
Seek ==
  /\ Succeeds("seek")
  /\ ptr' = ret'.at
  /\ \/ data' = data
     \/ /\ ptr' > Eof(data)
        /\ \E n \in {ptr' - Bof, ptr' - Bof + 1} :
             data' = [i \in 1..n |-> IF i <= Len(data) THEN data[i] ELSE Zero]

Tell == Succeeds("tell") /\ ret'.at = ptr /\ UNCHANGED <<data, ptr>>

(* The number of the sample after the last.                                   *)
EndOf == Succeeds("eof") /\ ret'.at = Eof(data) /\ UNCHANGED <<data, ptr>>

(* Closing the file forgets the pointer.                                      *)
Flush == Succeeds("flush") /\ ptr' \in {ptr, Bof} /\ data' = data

(* After an error the pointer is not specified, the data are.                 *)
Error == ret'.err /\ data' = data

(* Somebody else extends the field.                                           *)
Extend ==
  /\ ret'.op = "produce"
  /\ \E v \in {data'[Len(data')]} : data' = Append(data, v)
  /\ ptr' = ptr

Init == ptr = Bof /\ ret.op = "none"

Next ==
  \/ (~ret'.here /\ Get) \/ GetHere
  \/ (~ret'.here /\ Put) \/ PutHere
  \/ Seek \/ Tell \/ EndOf \/ Flush \/ Error \/ Extend
  \/ ret'.op = "protect" /\ UNCHANGED <<data, ptr>>

Spec == Init /\ [][Next]_<<data, ptr, ret>>
===============================================================================
