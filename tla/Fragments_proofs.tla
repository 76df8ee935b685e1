---------------------------- MODULE Fragments_proofs ----------------------------
(* For any files, fields and contents of the format files, any calls and any  *)
(* renames that fail, as long as callers are careful: indices stay in range   *)
(* and nothing freed is used (TypeOK), what no fragment reports as modified   *)
(* is on disk (CleanOnDisk), and what is protected is kept (ProtectedKept).   *)
(*                                                                            *)
(* Reading a format file, collecting the fragments below another and removing *)
(* them are loops, which the model states as recursive functions.  That such  *)
(* a function does what its definition says, and what a loop preserves, is    *)
(* shown by induction, for which the first lemma gives the principle.         *)
EXTENDS Fragments, FiniteSetTheorems, TLAPS

-------------------------------------------------------------------------------
(* Induction.  The numbers up to one outside T that are outside T, too, would *)
(* each have a predecessor among them: too many for a finite set.             *)
LEMMA Induction ==
  ASSUME NEW T, 0 \in T, \A n \in Nat : n \in T => n + 1 \in T
  PROVE  \A n \in Nat : n \in T
<1> SUFFICES ASSUME NEW n \in Nat, n \notin T PROVE FALSE
  OBVIOUS
<1> DEFINE S == {k \in 0..n : k \notin T}
           f == [k \in S |-> k - 1]
<1>1. IsFiniteSet(S)
  <2>1. IsFiniteSet(0..n) /\ S \in SUBSET (0..n)
    BY FS_Interval
  <2> QED BY <2>1, FS_Subset
<1>2. n \in S
  OBVIOUS
<1>3. \A k \in S : k - 1 \in S \ {n}
  <2> SUFFICES ASSUME NEW k \in S PROVE k - 1 \in S \ {n}
    OBVIOUS
  <2>1. k # 0 /\ k \in Nat
    OBVIOUS
  <2>2. k - 1 \in Nat /\ (k - 1) + 1 = k
    BY <2>1
  <2>3. k - 1 \notin T
    BY <2>2
  <2> QED BY <2>1, <2>2, <2>3
<1>4. f \in Injection(S, S \ {n})
  BY <1>3 DEF Injection, IsInjective
<1>5. IsFiniteSet(S \ {n}) /\ Cardinality(S \ {n}) = Cardinality(S) - 1
  BY <1>1, <1>2, FS_RemoveElement
<1>6. Cardinality(S) <= Cardinality(S \ {n})
  BY <1>4, <1>5, FS_Injection
<1>7. Cardinality(S) \in Nat
  BY <1>1, FS_CardinalityType
<1> QED BY <1>5, <1>6, <1>7

(* Induction up to N.                                                         *)
LEMMA InductionTo ==
  ASSUME NEW N \in Nat, NEW T, 0 \in T, \A k \in 1..N : k - 1 \in T => k \in T
  PROVE  \A k \in 0..N : k \in T
<1> DEFINE U == {n \in Nat : n <= N => n \in T}
<1>1. 0 \in U
  OBVIOUS
<1>2. ASSUME NEW n \in Nat, n \in U PROVE n + 1 \in U
  <2>1. CASE n + 1 <= N
    <3>1. n \in T /\ n + 1 \in 1..N /\ (n + 1) - 1 = n
      BY <1>2, <2>1
    <3> QED BY <3>1
  <2> QED BY <2>1
<1> HIDE DEF U
<1>3. \A n \in Nat : n \in U
  BY <1>1, <1>2, Induction
<1> QED BY <1>3 DEF U

(* A set of numbers that is not empty has a least element.                    *)
LEMMA Least ==
  ASSUME NEW S, S \subseteq Nat, S # {}
  PROVE  \E m \in S : \A k \in S : m <= k
<1> SUFFICES ASSUME \A m \in S : \E k \in S : k < m PROVE FALSE
  OBVIOUS
<1> DEFINE T == {n \in Nat : \A k \in 0..n : k \notin S}
<1>1. 0 \in T
  OBVIOUS
<1>2. ASSUME NEW n \in Nat, n \in T PROVE n + 1 \in T
  <2>1. \A k \in 0..n : k \notin S
    BY <1>2
  <2>2. n + 1 \notin S
    BY <2>1
  <2> QED BY <2>1, <2>2
<1> HIDE DEF T
<1>3. \A n \in Nat : n \in T
  BY <1>1, <1>2, Induction
<1>4. \A n \in Nat : n \in 0..n /\ n \notin S
  BY <1>3 DEF T
<1> QED BY <1>4

-------------------------------------------------------------------------------
(* Among.                                                                     *)
AmongUpTo(seq, S) ==
  CHOOSE f : f = [k \in 0..Len(seq) |->
    IF k = 0 THEN <<>> ELSE IF seq[k] \in S THEN Append(f[k - 1], seq[k]) ELSE f[k - 1]]

LEMMA AmongDefined ==
  ASSUME NEW A, NEW seq \in Seq(A), NEW S
  PROVE  LET f == AmongUpTo(seq, S)
         IN /\ Among(seq, S) = f[Len(seq)] /\ f[0] = <<>>
            /\ \A k \in 1..Len(seq) :
                 f[k] = IF seq[k] \in S THEN Append(f[k - 1], seq[k]) ELSE f[k - 1]
<1> DEFINE start == <<>>
           Step(k, q) == IF seq[k] \in S THEN Append(q, seq[k]) ELSE q
           Good(g, n) == g = [k \in 0..n |-> IF k = 0 THEN start ELSE Step(k, g[k - 1])]
           T == {n \in Nat : \E g : Good(g, n)}
<1>0. Len(seq) \in Nat
  OBVIOUS
<1>1. AmongUpTo(seq, S) = CHOOSE f : Good(f, Len(seq))
  BY DEF AmongUpTo
<1>2. Among(seq, S) = AmongUpTo(seq, S)[Len(seq)]
  BY DEF Among, AmongUpTo
<1> HIDE DEF Step, start
<1>3. 0 \in T
  <2>1. \A k \in 0..0 : k = 0
    OBVIOUS
  <2>2. ASSUME NEW g
        PROVE  [k \in 0..0 |-> IF k = 0 THEN start ELSE Step(k, g[k - 1])]
                 = [k \in 0..0 |-> start]
    BY <2>1
  <2>3. Good([k \in 0..0 |-> start], 0)
    BY <2>2
  <2> QED BY <2>3
<1>4. ASSUME NEW n \in Nat, NEW g, Good(g, n) PROVE \E h : Good(h, n + 1)
  <2> DEFINE h == [k \in 0..(n + 1) |-> IF k = 0 THEN start ELSE Step(k, g[k - 1])]
  <2>0. \A k \in 0..n : g[k] = IF k = 0 THEN start ELSE Step(k, g[k - 1])
    BY <1>4
  <2>1. \A k \in 0..n : h[k] = g[k]
    BY <2>0
  <2>2. \A k \in 0..(n + 1) : k # 0 => k - 1 \in 0..n
    OBVIOUS
  <2>3. Good(h, n + 1)
    BY <2>1, <2>2
  <2> HIDE DEF h
  <2> QED BY <2>3
<1>5. \E g : Good(g, Len(seq))
  <2> HIDE DEF Good
  <2>0. \A n \in Nat : n \in T => n + 1 \in T
    BY <1>4
  <2>1. Len(seq) \in T
    <3> HIDE DEF T
    <3> QED BY <1>0, <1>3, <2>0, Induction
  <2> QED BY <2>1
<1>6. Good(AmongUpTo(seq, S), Len(seq))
  <2> HIDE DEF Good
  <2> QED BY <1>1, <1>5
<1>7. /\ AmongUpTo(seq, S)[0] = start
      /\ \A k \in 1..Len(seq) : AmongUpTo(seq, S)[k] = Step(k, AmongUpTo(seq, S)[k - 1])
  BY <1>0, <1>6
<1> QED BY <1>2, <1>7 DEF Step, start

LEMMA SeqIs ==
  ASSUME NEW A, NEW n \in Nat, NEW f \in [1..n -> A]
  PROVE  f \in Seq(A) /\ Len(f) = n
OBVIOUS

Injective(seq) == \A j, k \in DOMAIN seq : seq[j] = seq[k] => j = k

(* Among keeps the elements that are in S, and nothing else.                  *)
LEMMA AmongIs ==
  ASSUME NEW A, NEW seq \in Seq(A), NEW S
  PROVE  LET q == Among(seq, S)
         IN /\ q \in Seq(A) /\ ToSet(q) = ToSet(seq) \cap S
            /\ Injective(seq) => Injective(q)
<1> DEFINE f == AmongUpTo(seq, S)
           Good(k) ==
             /\ f[k] \in Seq(A)
             /\ {f[k][j] : j \in DOMAIN f[k]} = {seq[j] : j \in 1..k} \cap S
             /\ Injective(seq) => Injective(f[k])
           T == {k \in Nat : Good(k)}
<1>0. Len(seq) \in Nat /\ DOMAIN seq = 1..Len(seq)
  OBVIOUS
<1>1. /\ Among(seq, S) = f[Len(seq)] /\ f[0] = <<>>
      /\ \A k \in 1..Len(seq) :
           f[k] = IF seq[k] \in S THEN Append(f[k - 1], seq[k]) ELSE f[k - 1]
  BY AmongDefined
<1> HIDE DEF f
<1>2. Good(0)
  BY <1>1 DEF Injective
<1>3. ASSUME NEW k \in Nat, k \in 1..Len(seq), Good(k - 1) PROVE Good(k)
  <2> DEFINE g == f[k - 1]
  <2>0. /\ k - 1 \in Nat /\ k \in Nat /\ k \in DOMAIN seq /\ seq[k] \in A
        /\ 1..k = (1..(k - 1)) \cup {k}
    BY <1>0, <1>3
  <2>1. /\ g \in Seq(A)
        /\ {g[j] : j \in DOMAIN g} = {seq[j] : j \in 1..(k - 1)} \cap S
        /\ Injective(seq) => Injective(g)
    BY <1>3
  <2>2. {seq[j] : j \in 1..k} = {seq[j] : j \in 1..(k - 1)} \cup {seq[k]}
    BY <2>0
  <2>3. CASE seq[k] \in S
    <3>1. f[k] = Append(g, seq[k])
      BY <1>1, <1>3, <2>3
    <3> HIDE DEF g
    <3>2. /\ f[k] \in Seq(A) /\ DOMAIN f[k] = (DOMAIN g) \cup {Len(g) + 1}
          /\ \A j \in DOMAIN g : f[k][j] = g[j] /\ j # Len(g) + 1
          /\ f[k][Len(g) + 1] = seq[k]
      BY <2>0, <2>1, <3>1
    <3>3. {f[k][j] : j \in DOMAIN f[k]} = {g[j] : j \in DOMAIN g} \cup {seq[k]}
      BY <3>2
    <3>4. {f[k][j] : j \in DOMAIN f[k]} = {seq[j] : j \in 1..k} \cap S
      BY <2>1, <2>2, <2>3, <3>3
    <3>5. ASSUME Injective(seq) PROVE Injective(f[k])
      <4>1. \A j \in 1..(k - 1) : seq[j] # seq[k]
        BY <1>0, <2>0, <3>5 DEF Injective
      <4>2. \A j \in DOMAIN g : g[j] # seq[k]
        BY <2>1, <4>1
      <4> QED BY <2>1, <3>2, <3>5, <4>2 DEF Injective
    <3> QED BY <3>2, <3>4, <3>5
  <2>4. CASE seq[k] \notin S
    <3>1. f[k] = g
      BY <1>1, <1>3, <2>4
    <3>2. {seq[j] : j \in 1..k} \cap S = {seq[j] : j \in 1..(k - 1)} \cap S
      BY <2>2, <2>4
    <3> QED BY <2>1, <3>1, <3>2
  <2> QED BY <2>3, <2>4
<1>4. \A k \in 0..Len(seq) : k \in T
  <2>1. 0 \in T
    BY <1>2
  <2>2. \A k \in 1..Len(seq) : k - 1 \in T => k \in T
    <3> SUFFICES ASSUME NEW k \in 1..Len(seq), k - 1 \in T PROVE k \in T
      OBVIOUS
    <3>1. k \in Nat /\ Good(k - 1)
      <4> HIDE DEF Good
      <4> QED BY <1>0
    <3>2. Good(k)
      <4> HIDE DEF Good
      <4> QED BY <1>3, <3>1
    <3> HIDE DEF Good
    <3> QED BY <3>1, <3>2
  <2> HIDE DEF T
  <2> QED BY <1>0, <2>1, <2>2, InductionTo
<1>5. Good(Len(seq))
  <2> HIDE DEF Good
  <2> QED BY <1>0, <1>4
<1> DEFINE q == Among(seq, S)
<1>6. q = f[Len(seq)] /\ 1..Len(seq) = DOMAIN seq
  BY <1>0, <1>1
<1> HIDE DEF q
<1>7. /\ q \in Seq(A)
      /\ {q[k] : k \in DOMAIN q} = {seq[k] : k \in DOMAIN seq} \cap S
      /\ Injective(seq) => Injective(q)
  BY <1>5, <1>6
<1> QED BY <1>7 DEF q, ToSet

-------------------------------------------------------------------------------
(* The loops: what their recursive functions are.                             *)
Parsed(st) ==
  CHOOSE f : f = [k \in 0..MaxLines |-> IF k = 0 THEN st ELSE ParseNext(f[k - 1])]

LEMMA ParsedDefined ==
  ASSUME NEW st, MaxLines \in Nat
  PROVE  LET f == Parsed(st)
         IN /\ ParseFragment(st) = [f[MaxLines] EXCEPT !.err = @ \/ f[MaxLines].open # <<>>]
            /\ f[0] = st
            /\ \A k \in 1..MaxLines : f[k] = ParseNext(f[k - 1])
<1> DEFINE start == st
           Step(k, q) == ParseNext(q)
           Good(g, n) == g = [k \in 0..n |-> IF k = 0 THEN start ELSE Step(k, g[k - 1])]
           T == {n \in Nat : \E g : Good(g, n)}
<1>1. Parsed(st) = CHOOSE f : Good(f, MaxLines)
  BY DEF Parsed
<1>2. LET f == Parsed(st) IN ParseFragment(st) = [f[MaxLines] EXCEPT !.err = @ \/ f[MaxLines].open # <<>>]
  BY DEF ParseFragment, Parsed
<1> HIDE DEF Step, start
<1>3. 0 \in T
  <2>1. \A k \in 0..0 : k = 0
    OBVIOUS
  <2>2. ASSUME NEW g
        PROVE  [k \in 0..0 |-> IF k = 0 THEN start ELSE Step(k, g[k - 1])]
                 = [k \in 0..0 |-> start]
    BY <2>1
  <2>3. Good([k \in 0..0 |-> start], 0)
    BY <2>2
  <2> QED BY <2>3
<1>4. ASSUME NEW n \in Nat, NEW g, Good(g, n) PROVE \E h : Good(h, n + 1)
  <2> DEFINE h == [k \in 0..(n + 1) |-> IF k = 0 THEN start ELSE Step(k, g[k - 1])]
  <2>0. \A k \in 0..n : g[k] = IF k = 0 THEN start ELSE Step(k, g[k - 1])
    BY <1>4
  <2>1. \A k \in 0..n : h[k] = g[k]
    BY <2>0
  <2>2. \A k \in 0..(n + 1) : k # 0 => k - 1 \in 0..n
    OBVIOUS
  <2>3. Good(h, n + 1)
    BY <2>1, <2>2
  <2> HIDE DEF h
  <2> QED BY <2>3
<1>5. \E g : Good(g, MaxLines)
  <2> HIDE DEF Good
  <2>0. \A n \in Nat : n \in T => n + 1 \in T
    BY <1>4
  <2>1. MaxLines \in T
    <3> HIDE DEF T
    <3> QED BY <1>3, <2>0, Induction
  <2> QED BY <2>1
<1>6. Good(Parsed(st), MaxLines)
  <2> HIDE DEF Good
  <2> QED BY <1>1, <1>5
<1>7. /\ Parsed(st)[0] = start
      /\ \A k \in 1..MaxLines : Parsed(st)[k] = Step(k, Parsed(st)[k - 1])
  BY <1>6
<1> QED BY <1>2, <1>7 DEF Step, start

Collected(i) ==
  CHOOSE f : f = [k \in 0..Len(frag) |-> IF k = 0 THEN [list |-> <<>>, todo |-> <<i>>] ELSE CollectNext(f[k - 1])]

LEMMA CollectedDefined ==
  ASSUME NEW i, Len(frag) \in Nat
  PROVE  LET f == Collected(i)
         IN /\ Collect(i) = f[Len(frag)].list
            /\ f[0] = [list |-> <<>>, todo |-> <<i>>]
            /\ \A k \in 1..Len(frag) : f[k] = CollectNext(f[k - 1])
<1> DEFINE start == [list |-> <<>>, todo |-> <<i>>]
           Step(k, q) == CollectNext(q)
           Good(g, n) == g = [k \in 0..n |-> IF k = 0 THEN start ELSE Step(k, g[k - 1])]
           T == {n \in Nat : \E g : Good(g, n)}
<1>1. Collected(i) = CHOOSE f : Good(f, Len(frag))
  BY DEF Collected
<1>2. LET f == Collected(i) IN Collect(i) = f[Len(frag)].list
  BY DEF Collect, Collected
<1> HIDE DEF Step, start
<1>3. 0 \in T
  <2>1. \A k \in 0..0 : k = 0
    OBVIOUS
  <2>2. ASSUME NEW g
        PROVE  [k \in 0..0 |-> IF k = 0 THEN start ELSE Step(k, g[k - 1])]
                 = [k \in 0..0 |-> start]
    BY <2>1
  <2>3. Good([k \in 0..0 |-> start], 0)
    BY <2>2
  <2> QED BY <2>3
<1>4. ASSUME NEW n \in Nat, NEW g, Good(g, n) PROVE \E h : Good(h, n + 1)
  <2> DEFINE h == [k \in 0..(n + 1) |-> IF k = 0 THEN start ELSE Step(k, g[k - 1])]
  <2>0. \A k \in 0..n : g[k] = IF k = 0 THEN start ELSE Step(k, g[k - 1])
    BY <1>4
  <2>1. \A k \in 0..n : h[k] = g[k]
    BY <2>0
  <2>2. \A k \in 0..(n + 1) : k # 0 => k - 1 \in 0..n
    OBVIOUS
  <2>3. Good(h, n + 1)
    BY <2>1, <2>2
  <2> HIDE DEF h
  <2> QED BY <2>3
<1>5. \E g : Good(g, Len(frag))
  <2> HIDE DEF Good
  <2>0. \A n \in Nat : n \in T => n + 1 \in T
    BY <1>4
  <2>1. Len(frag) \in T
    <3> HIDE DEF T
    <3> QED BY <1>3, <2>0, Induction
  <2> QED BY <2>1
<1>6. Good(Collected(i), Len(frag))
  <2> HIDE DEF Good
  <2> QED BY <1>1, <1>5
<1>7. /\ Collected(i)[0] = start
      /\ \A k \in 1..Len(frag) : Collected(i)[k] = Step(k, Collected(i)[k - 1])
  BY <1>6
<1> QED BY <1>2, <1>7 DEF Step, start

RemovalStart(fr, list) ==
  [arr |-> [fr EXCEPT ![fr[list[1]].parent].modified = TRUE], n |-> Len(fr),
   home |-> WithoutFields(list), gone |-> {}]

Removing(fr, list) ==
  CHOOSE f : f = [k \in 0..Len(list) |-> IF k = 0 THEN RemovalStart(fr, list) ELSE RemoveOne(f[k - 1], list[k])]

LEMMA RemovingDefined ==
  ASSUME NEW fr, NEW list, Len(list) \in Nat
  PROVE  LET f == Removing(fr, list)
         IN /\ Removed(fr, list) = f[Len(list)]
            /\ f[0] = RemovalStart(fr, list)
            /\ \A k \in 1..Len(list) : f[k] = RemoveOne(f[k - 1], list[k])
<1> DEFINE start == RemovalStart(fr, list)
           Step(k, q) == RemoveOne(q, list[k])
           Good(g, n) == g = [k \in 0..n |-> IF k = 0 THEN start ELSE Step(k, g[k - 1])]
           T == {n \in Nat : \E g : Good(g, n)}
<1>1. Removing(fr, list) = CHOOSE f : Good(f, Len(list))
  BY DEF Removing
<1>2. LET f == Removing(fr, list) IN Removed(fr, list) = f[Len(list)]
  BY DEF Removed, RemovalStart, Removing
<1> HIDE DEF Step, start
<1>3. 0 \in T
  <2>1. \A k \in 0..0 : k = 0
    OBVIOUS
  <2>2. ASSUME NEW g
        PROVE  [k \in 0..0 |-> IF k = 0 THEN start ELSE Step(k, g[k - 1])]
                 = [k \in 0..0 |-> start]
    BY <2>1
  <2>3. Good([k \in 0..0 |-> start], 0)
    BY <2>2
  <2> QED BY <2>3
<1>4. ASSUME NEW n \in Nat, NEW g, Good(g, n) PROVE \E h : Good(h, n + 1)
  <2> DEFINE h == [k \in 0..(n + 1) |-> IF k = 0 THEN start ELSE Step(k, g[k - 1])]
  <2>0. \A k \in 0..n : g[k] = IF k = 0 THEN start ELSE Step(k, g[k - 1])
    BY <1>4
  <2>1. \A k \in 0..n : h[k] = g[k]
    BY <2>0
  <2>2. \A k \in 0..(n + 1) : k # 0 => k - 1 \in 0..n
    OBVIOUS
  <2>3. Good(h, n + 1)
    BY <2>1, <2>2
  <2> HIDE DEF h
  <2> QED BY <2>3
<1>5. \E g : Good(g, Len(list))
  <2> HIDE DEF Good
  <2>0. \A n \in Nat : n \in T => n + 1 \in T
    BY <1>4
  <2>1. Len(list) \in T
    <3> HIDE DEF T
    <3> QED BY <1>3, <2>0, Induction
  <2> QED BY <2>1
<1>6. Good(Removing(fr, list), Len(list))
  <2> HIDE DEF Good
  <2> QED BY <1>1, <1>5
<1>7. /\ Removing(fr, list)[0] = start
      /\ \A k \in 1..Len(list) : Removing(fr, list)[k] = Step(k, Removing(fr, list)[k - 1])
  BY <1>6
<1> QED BY <1>2, <1>7 DEF Step, start
-------------------------------------------------------------------------------
(* The inductive invariant.  The fragments are a tree of which the first is   *)
(* the root: in every set of others, one is included from outside the set, so *)
(* that no fragment is below itself.  Without that, what gd_uninclude collects*)
(* would not be the fragments below one, each once.                           *)
FragType ==
  [file : Files, parent : Nat, modified : BOOLEAN, prot : ProtLevels, ref : Fields \cup {None}]

Shape(d, fr, hm) ==
  /\ Formats(d)
  /\ fr \in Seq(FragType) /\ Len(fr) >= 1 /\ fr[1].file = Root /\ fr[1].parent = 0
  /\ \A i \in 2..Len(fr) : fr[i].parent \in 1..Len(fr)
  /\ \A S \in SUBSET (2..Len(fr)) : S # {} => \E i \in S : fr[i].parent \notin S
  /\ hm \in [Fields -> 0..Len(fr)]

Told(lines, is) == {lines[k].of : k \in {k \in DOMAIN lines : lines[k].is = is}}

Written(d, fr, hm, i) ==
  /\ fr[i].file \in DOMAIN d
  /\ Told(d[fr[i].file], "field") = {x \in Fields : hm[x] = i}
  /\ Told(d[fr[i].file], "include") = IncludedIn(fr, i)

Clean(d, fr, hm) == \A i \in DOMAIN fr : fr[i].modified \/ Written(d, fr, hm, i)

IInv ==
  /\ Shape(disk, frag, home) /\ EachOnce(frag)
  /\ reference \in Raws \cup {None} /\ run \in {"ok", "invalid"}
  /\ run = "ok" => Clean(disk, frag, home)

-------------------------------------------------------------------------------
(* Writing.  The lines written of a fragment tell its fields and includes.    *)
LEMMA ToldConcat ==
  ASSUME NEW A, NEW p \in Seq(A), NEW q \in Seq(A), NEW is
  PROVE  /\ p \o q \in Seq(A)
         /\ Told(p \o q, is) = Told(p, is) \cup Told(q, is)
<1> DEFINE pq == p \o q
<1>1. /\ pq \in Seq(A) /\ Len(p) \in Nat /\ Len(q) \in Nat /\ Len(pq) = Len(p) + Len(q)
      /\ DOMAIN p = 1..Len(p) /\ DOMAIN q = 1..Len(q) /\ DOMAIN pq = 1..(Len(p) + Len(q))
      /\ \A k \in 1..Len(p) : pq[k] = p[k]
      /\ \A k \in 1..Len(q) : pq[Len(p) + k] = q[k]
  OBVIOUS
<1> HIDE DEF pq
<1>2. ASSUME NEW of \in Told(pq, is) PROVE of \in Told(p, is) \cup Told(q, is)
  <2>1. PICK k \in DOMAIN pq : pq[k].is = is /\ of = pq[k].of
    BY <1>2 DEF Told
  <2>2. CASE k \in 1..Len(p)
    BY <1>1, <2>1, <2>2 DEF Told
  <2>3. CASE k \notin 1..Len(p)
    <3>1. k - Len(p) \in 1..Len(q) /\ k = Len(p) + (k - Len(p))
      BY <1>1, <2>3
    <3>2. pq[k] = q[k - Len(p)]
      BY <1>1, <3>1
    <3> QED BY <1>1, <2>1, <3>1, <3>2 DEF Told
  <2> QED BY <2>2, <2>3
<1>3. ASSUME NEW k \in DOMAIN p, p[k].is = is PROVE p[k].of \in Told(pq, is)
  <2>1. k \in DOMAIN pq /\ pq[k] = p[k]
    BY <1>1
  <2> QED BY <1>3, <2>1 DEF Told
<1>4. ASSUME NEW k \in DOMAIN q, q[k].is = is PROVE q[k].of \in Told(pq, is)
  <2>1. Len(p) + k \in DOMAIN pq /\ pq[Len(p) + k] = q[k]
    BY <1>1
  <2> QED BY <1>4, <2>1 DEF Told
<1>5. Told(p, is) \subseteq Told(pq, is) /\ Told(q, is) \subseteq Told(pq, is)
  BY <1>3, <1>4 DEF Told
<1>6. Told(pq, is) = Told(p, is) \cup Told(q, is)
  BY <1>2, <1>5
<1> QED BY <1>1, <1>6 DEF pq

LEMMA LinesTold ==
  ASSUME NEW A, NEW of \in Seq(A), NEW is, \A a \in A : Line(is, a) \in FormatLines
  PROVE  /\ Lines(is, of) \in Seq(FormatLines)
         /\ Told(Lines(is, of), is) = ToSet(of)
         /\ \A other : other # is => Told(Lines(is, of), other) = {}
<1>1. Len(of) \in Nat /\ DOMAIN of = 1..Len(of) /\ \A k \in 1..Len(of) : of[k] \in A
  OBVIOUS
<1>2. /\ DOMAIN Lines(is, of) = 1..Len(of)
      /\ \A k \in 1..Len(of) : Lines(is, of)[k] = Line(is, of[k])
  BY <1>1 DEF Lines
<1>3. Lines(is, of) \in Seq(FormatLines)
  <2>1. \A k \in 1..Len(of) : Line(is, of[k]) \in FormatLines
    BY <1>1
  <2>2. Lines(is, of) = [k \in 1..Len(of) |-> Line(is, of[k])]
    BY <1>1 DEF Lines
  <2> QED BY <1>1, <2>1, <2>2
<1>4. \A k \in 1..Len(of) : Lines(is, of)[k].is = is /\ Lines(is, of)[k].of = of[k]
  BY <1>2 DEF Line
<1> QED BY <1>1, <1>2, <1>3, <1>4 DEF Told, ToSet

LEMMA FormatLineIs ==
  /\ \A level \in ProtLevels : Line("protect", level) \in FormatLines
  /\ \A f \in Files : Line("include", f) \in FormatLines
  /\ \A x \in Fields : Line("field", x) \in FormatLines /\ Line("reference", x) \in FormatLines
BY DEF FormatLines

LEMMA ChildrenIs ==
  ASSUME NEW fr \in Seq(FragType), NEW i
  PROVE  LET q == Children(fr, i)
         IN /\ q \in Seq(1..Len(fr)) /\ Injective(q)
            /\ ToSet(q) = {j \in 1..Len(fr) : fr[j].parent = i}
<1> DEFINE S == {j \in 1..Len(fr) : fr[j].parent = i}
           all == [j \in 1..Len(fr) |-> j]
<1>1. /\ Len(fr) \in Nat /\ all \in Seq(1..Len(fr)) /\ DOMAIN all = 1..Len(fr)
      /\ ToSet(all) = 1..Len(fr)
      /\ \A j \in 1..Len(fr) : all[j] = j
  BY DEF ToSet
<1>2. Injective(all)
  BY <1>1 DEF Injective
<1>3. Children(fr, i) = Among(all, S)
  BY DEF Children
<1>4. S = 1..Len(fr) \cap S
  OBVIOUS
<1> HIDE DEF all, S
<1>5. LET q == Among(all, S)
      IN /\ q \in Seq(1..Len(fr)) /\ Injective(q)
         /\ ToSet(q) = S
  <2>1. LET q == Among(all, S)
        IN /\ q \in Seq(1..Len(fr)) /\ ToSet(q) = ToSet(all) \cap S
           /\ Injective(all) => Injective(q)
    BY <1>1, AmongIs
  <2> QED BY <1>1, <1>2, <1>4, <2>1
<1> QED BY <1>3, <1>5 DEF S

LEMMA FormatIs ==
  ASSUME NEW fr \in Seq(FragType), NEW hm, NEW i \in DOMAIN fr
  PROVE  LET lines == FormatOf(fr, hm, i)
         IN /\ lines \in Seq(FormatLines)
            /\ Told(lines, "field") = {x \in Fields : hm[x] = i}
            /\ Told(lines, "include") = IncludedIn(fr, i)
<1> DEFINE head == <<Line("protect", fr[i].prot)>>
           files == [k \in DOMAIN Children(fr, i) |-> fr[Children(fr, i)[k]].file]
           names == Among(Names, {x \in Fields : hm[x] = i})
           tail == IF fr[i].ref = None THEN <<>> ELSE <<Line("reference", fr[i].ref)>>
<1>0. FormatOf(fr, hm, i) = ((head \o Lines("include", files)) \o Lines("field", names)) \o tail
  BY DEF FormatOf
<1>1. fr[i] \in FragType /\ Len(fr) \in Nat /\ DOMAIN fr = 1..Len(fr)
  OBVIOUS
<1>2. /\ head \in Seq(FormatLines)
      /\ Told(head, "field") = {} /\ Told(head, "include") = {}
  <2>1. Line("protect", fr[i].prot) \in FormatLines
    BY <1>1, FormatLineIs DEF FragType
  <2> QED BY <2>1 DEF Told, Line
<1>3. /\ tail \in Seq(FormatLines)
      /\ Told(tail, "field") = {} /\ Told(tail, "include") = {}
  <2>1. CASE fr[i].ref = None
    BY <2>1 DEF Told
  <2>2. CASE fr[i].ref # None
    <3>1. Line("reference", fr[i].ref) \in FormatLines
      BY <1>1, <2>2, FormatLineIs DEF FragType
    <3> QED BY <2>2, <3>1 DEF Told, Line
  <2> QED BY <2>1, <2>2
<1>4. files \in Seq(Files) /\ ToSet(files) = IncludedIn(fr, i)
  <2> DEFINE q == Children(fr, i)
  <2>1. /\ q \in Seq(1..Len(fr))
        /\ ToSet(q) = {j \in 1..Len(fr) : fr[j].parent = i}
    BY ChildrenIs
  <2>2. files = [k \in DOMAIN q |-> fr[q[k]].file]
    OBVIOUS
  <2> HIDE DEF q
  <2>3. \A k \in DOMAIN q : q[k] \in 1..Len(fr) /\ fr[q[k]].file \in Files
    <3>1. \A j \in 1..Len(fr) : fr[j].file \in Files
      <4> SUFFICES ASSUME NEW j \in 1..Len(fr) PROVE fr[j].file \in Files
        OBVIOUS
      <4>1. fr[j] \in FragType
        OBVIOUS
      <4> QED BY <4>1 DEF FragType
    <3> QED BY <2>1, <3>1
  <2>4. files \in Seq(Files)
    <3>1. Len(q) \in Nat /\ DOMAIN q = 1..Len(q)
      BY <2>1
    <3>2. files = [k \in 1..Len(q) |-> fr[q[k]].file]
      BY <2>2, <3>1
    <3> HIDE DEF files
    <3> QED BY <2>3, <3>1, <3>2
  <2>5. ToSet(files) = {fr[j].file : j \in ToSet(q)}
    BY <2>2 DEF ToSet
  <2> QED BY <1>1, <2>1, <2>4, <2>5 DEF IncludedIn
<1>5. names \in Seq(Fields) /\ ToSet(names) = {x \in Fields : hm[x] = i}
  <2> DEFINE S == {x \in Fields : hm[x] = i}
  <2>1. Names \in Seq(Fields) /\ ToSet(Names) \cap S = S
    BY FragmentsAssumption DEF ToSet
  <2> HIDE DEF S
  <2>2. Among(Names, S) \in Seq(Fields) /\ ToSet(Among(Names, S)) = S
    BY <2>1, AmongIs
  <2> QED BY <2>2 DEF S
<1> DEFINE hereIs == {x \in Fields : hm[x] = i}
           below == IncludedIn(fr, i)
<1> HIDE DEF head, files, names, tail, hereIs, below
<1>6. /\ Lines("include", files) \in Seq(FormatLines)
      /\ Told(Lines("include", files), "include") = below
      /\ Told(Lines("include", files), "field") = {}
  <2>1. "field" # "include" /\ \A f \in Files : Line("include", f) \in FormatLines
    BY FormatLineIs
  <2> QED BY <1>4, <2>1, LinesTold DEF below
<1>7. /\ Lines("field", names) \in Seq(FormatLines)
      /\ Told(Lines("field", names), "field") = hereIs
      /\ Told(Lines("field", names), "include") = {}
  <2>1. "field" # "include" /\ \A x \in Fields : Line("field", x) \in FormatLines
    BY FormatLineIs
  <2>2. names \in Seq(Fields) /\ ToSet(names) = hereIs
    BY <1>5 DEF hereIs
  <2> QED BY <2>1, <2>2, LinesTold
<1>8. LET p == head \o Lines("include", files)
      IN /\ p \in Seq(FormatLines)
         /\ Told(p, "field") = {} /\ Told(p, "include") = below
  <2>1. head \o Lines("include", files) \in Seq(FormatLines)
    BY <1>2, <1>6, ToldConcat
  <2>2. \A is : Told(head \o Lines("include", files), is)
                 = Told(head, is) \cup Told(Lines("include", files), is)
    BY <1>2, <1>6, ToldConcat
  <2> QED BY <1>2, <1>6, <2>1, <2>2
<1> DEFINE p == head \o Lines("include", files)
<1> HIDE DEF p
<1>9. LET q == p \o Lines("field", names)
      IN /\ q \in Seq(FormatLines)
         /\ Told(q, "field") = hereIs /\ Told(q, "include") = below
  <2>1. p \in Seq(FormatLines) /\ Told(p, "field") = {} /\ Told(p, "include") = below
    BY <1>8 DEF p
  <2>2. p \o Lines("field", names) \in Seq(FormatLines)
    BY <1>7, <2>1, ToldConcat
  <2>3. \A is : Told(p \o Lines("field", names), is)
                 = Told(p, is) \cup Told(Lines("field", names), is)
    BY <1>7, <2>1, ToldConcat
  <2> QED BY <1>7, <2>1, <2>2, <2>3
<1> DEFINE q == p \o Lines("field", names)
<1> HIDE DEF q
<1>10. q \in Seq(FormatLines) /\ Told(q, "field") = hereIs /\ Told(q, "include") = below
  BY <1>9 DEF q
<1>11. /\ q \o tail \in Seq(FormatLines)
       /\ \A is : Told(q \o tail, is) = Told(q, is) \cup Told(tail, is)
  BY <1>3, <1>10, ToldConcat
<1>12. FormatOf(fr, hm, i) = q \o tail
  BY <1>0 DEF p, q
<1> QED BY <1>3, <1>10, <1>11, <1>12 DEF hereIs, below
(* The same fragments, but perhaps marked, protected or referring otherwise.  *)
Like(fr, gr) ==
  /\ gr \in Seq(FragType) /\ Len(gr) = Len(fr)
  /\ \A i \in 1..Len(fr) : gr[i].file = fr[i].file /\ gr[i].parent = fr[i].parent

LEMMA LikeSame ==
  ASSUME NEW fr \in Seq(FragType), NEW gr, Like(fr, gr)
  PROVE  /\ \A d, hm : Shape(d, fr, hm) => Shape(d, gr, hm)
         /\ EachOnce(fr) => EachOnce(gr)
         /\ \A i : IncludedIn(gr, i) = IncludedIn(fr, i)
         /\ \A d, hm : \A i \in 1..Len(fr) : Written(d, gr, hm, i) <=> Written(d, fr, hm, i)
<1>1. /\ Len(fr) \in Nat /\ DOMAIN fr = 1..Len(fr) /\ DOMAIN gr = 1..Len(fr) /\ Len(gr) = Len(fr)
      /\ \A i \in 1..Len(fr) : gr[i].file = fr[i].file /\ gr[i].parent = fr[i].parent
      /\ gr \in Seq(FragType)
  BY DEF Like
<1>2. \A i : IncludedIn(gr, i) = IncludedIn(fr, i)
  <2> SUFFICES ASSUME NEW i PROVE IncludedIn(gr, i) = IncludedIn(fr, i)
    OBVIOUS
  <2> DEFINE S == {j \in DOMAIN fr : fr[j].parent = i}
  <2>1. {j \in DOMAIN gr : gr[j].parent = i} = S
    BY <1>1
  <2>2. \A j \in S : gr[j].file = fr[j].file
    BY <1>1
  <2>3. IncludedIn(gr, i) = {gr[j].file : j \in S} /\ IncludedIn(fr, i) = {fr[j].file : j \in S}
    BY <2>1 DEF IncludedIn
  <2> HIDE DEF S
  <2> QED BY <2>2, <2>3
<1>3. ASSUME NEW d, NEW hm, Shape(d, fr, hm) PROVE Shape(d, gr, hm)
  <2>1. \A i \in 2..Len(fr) : i \in 1..Len(fr)
    BY <1>1
  <2>2. ASSUME NEW S \in SUBSET (2..Len(fr)), S # {} PROVE \E i \in S : gr[i].parent \notin S
    BY <1>1, <1>3, <2>1, <2>2 DEF Shape
  <2>3. 1 \in 1..Len(fr)
    BY <1>1, <1>3 DEF Shape
  <2> QED BY <1>1, <1>3, <2>1, <2>2, <2>3 DEF Shape
<1>4. EachOnce(fr) => EachOnce(gr)
  BY <1>1 DEF EachOnce
<1>5. \A d, hm : \A i \in 1..Len(fr) : Written(d, gr, hm, i) <=> Written(d, fr, hm, i)
  BY <1>1, <1>2 DEF Written
<1> QED BY <1>2, <1>3, <1>4, <1>5

IsState(st) == DOMAIN st = {"disk", "frag", "home", "reference", "ref", "open", "err"}

(* What is flushed is on disk, and nothing else has changed there.            *)
LEMMA FlushedIs ==
  ASSUME NEW st, IsState(st),
         st.frag \in Seq(FragType), EachOnce(st.frag), Formats(st.disk),
         NEW S \in SUBSET (1..Len(st.frag))
  PROVE  LET t == Flushed(st, S)
         IN /\ IsState(t) /\ t.home = st.home /\ t.reference = st.reference /\ t.err = st.err
            /\ Like(st.frag, t.frag)
            /\ \A i \in 1..Len(st.frag) :
                 /\ t.frag[i].modified = (st.frag[i].modified /\ i \notin S)
                 /\ t.frag[i].prot = st.frag[i].prot
            /\ Formats(t.disk) /\ DOMAIN st.disk \subseteq DOMAIN t.disk
            /\ \A i \in S : Written(t.disk, st.frag, st.home, i)
            /\ \A i \in 1..Len(st.frag) \ S :
                 st.frag[i].file \in DOMAIN st.disk =>
                   t.disk[st.frag[i].file] = st.disk[st.frag[i].file]
<1> DEFINE t == Flushed(st, S)
           fr == st.frag
           d == st.disk
           dom == DOMAIN d \cup {fr[i].file : i \in S}
           the(f) == CHOOSE i \in S : fr[i].file = f
           disk2 == [f \in dom |-> IF \E i \in S : fr[i].file = f
                                   THEN FormatOf(fr, st.home, the(f)) ELSE d[f]]
           frag2 == [i \in DOMAIN fr |->
                      IF i \in S THEN [fr[i] EXCEPT !.modified = FALSE] ELSE fr[i]]
<1>2. /\ IsState(t) /\ t.home = st.home /\ t.reference = st.reference /\ t.err = st.err
      /\ t.disk = disk2 /\ t.frag = frag2
  BY DEF Flushed, IsState
<1>3. /\ Len(fr) \in Nat /\ DOMAIN fr = 1..Len(fr) /\ \A i \in 1..Len(fr) : fr[i] \in FragType
  OBVIOUS
<1>4. ASSUME NEW i \in 1..Len(fr)
      PROVE  /\ frag2[i] \in FragType /\ frag2[i].file = fr[i].file /\ frag2[i].parent = fr[i].parent
             /\ frag2[i].modified = (fr[i].modified /\ i \notin S) /\ frag2[i].prot = fr[i].prot
  <2>1. /\ frag2[i] = IF i \in S THEN [fr[i] EXCEPT !.modified = FALSE] ELSE fr[i]
        /\ fr[i] \in FragType
    BY <1>3
  <2> HIDE DEF frag2
  <2> QED BY <2>1 DEF FragType
<1>5. Like(fr, frag2)
  <2>1. DOMAIN frag2 = 1..Len(fr)
    BY <1>3
  <2>2. frag2 = [i \in 1..Len(fr) |-> frag2[i]]
    BY <2>1
  <2> HIDE DEF frag2
  <2>3. \A i \in 1..Len(fr) : frag2[i] \in FragType
    BY <1>4
  <2>4. frag2 \in [1..Len(fr) -> FragType]
    BY <2>2, <2>3
  <2>5. frag2 \in Seq(FragType) /\ Len(frag2) = Len(fr)
    BY <1>3, <2>4, SeqIs
  <2> QED BY <1>4, <2>5 DEF Like
<1>6. \A i \in S : the(fr[i].file) = i
  <2> SUFFICES ASSUME NEW i \in S PROVE the(fr[i].file) = i
    OBVIOUS
  <2>1. \A j \in S : fr[j].file = fr[i].file => j = i
    BY <1>3 DEF EachOnce
  <2>2. \E j \in S : fr[j].file = fr[i].file
    OBVIOUS
  <2> QED BY <2>1, <2>2
<1>7. \A i \in S : fr[i].file \in dom /\ disk2[fr[i].file] = FormatOf(fr, st.home, i)
  <2> HIDE DEF the
  <2> QED BY <1>6
<1>8. \A f \in DOMAIN d : (\A i \in S : fr[i].file # f) => disk2[f] = d[f]
  OBVIOUS
<1>9. DOMAIN disk2 = dom /\ DOMAIN d \subseteq dom
  OBVIOUS
<1> HIDE DEF the, disk2
<1>10. Formats(disk2)
  <2>1. \A i \in S : fr[i].file \in Files /\ disk2[fr[i].file] \in Seq(FormatLines)
    <3> SUFFICES ASSUME NEW i \in S
                 PROVE  fr[i].file \in Files /\ disk2[fr[i].file] \in Seq(FormatLines)
      OBVIOUS
    <3>1. i \in DOMAIN fr /\ fr[i] \in FragType
      BY <1>3
    <3>2. FormatOf(fr, st.home, i) \in Seq(FormatLines)
      BY <3>1, FormatIs
    <3> QED BY <1>7, <3>1, <3>2 DEF FragType
  <2>2. ASSUME NEW f \in DOMAIN disk2 PROVE f \in Files /\ disk2[f] \in Seq(FormatLines)
    <3>1. CASE \E i \in S : fr[i].file = f
      BY <2>1, <3>1
    <3>2. CASE \A i \in S : fr[i].file # f
      <4>1. f \in DOMAIN d
        BY <1>9, <3>2
      <4> QED BY <1>8, <3>2, <4>1 DEF Formats
    <3> QED BY <3>1, <3>2
  <2>3. Root \in DOMAIN disk2
    BY <1>9 DEF Formats
  <2> QED BY <2>2, <2>3 DEF Formats
<1>11. ASSUME NEW i \in S PROVE Written(disk2, fr, st.home, i)
  <2>1. i \in DOMAIN fr
    BY <1>3
  <2>2. /\ Told(FormatOf(fr, st.home, i), "field") = {x \in Fields : st.home[x] = i}
        /\ Told(FormatOf(fr, st.home, i), "include") = IncludedIn(fr, i)
    BY <2>1, FormatIs
  <2>3. fr[i].file \in DOMAIN disk2 /\ disk2[fr[i].file] = FormatOf(fr, st.home, i)
    BY <1>7, <1>9
  <2> QED BY <2>2, <2>3 DEF Written
<1>12. ASSUME NEW i \in 1..Len(fr) \ S, fr[i].file \in DOMAIN d
       PROVE  disk2[fr[i].file] = d[fr[i].file]
  <2>1. \A j \in S : fr[j].file # fr[i].file
    BY <1>3 DEF EachOnce
  <2> QED BY <1>8, <1>12, <2>1
<1> HIDE DEF t, frag2
<1> QED BY <1>2, <1>4, <1>5, <1>9, <1>10, <1>11, <1>12 DEF t

(* Flushing, which may stop anywhere, keeps on disk what is not modified.     *)
LEMMA FlushSound ==
  ASSUME NEW st, IsState(st),
         Shape(st.disk, st.frag, st.home), EachOnce(st.frag),
         Clean(st.disk, st.frag, st.home),
         NEW list \in Seq(1..Len(st.frag)), NEW t \in FlushMeta(st, list)
  PROVE  /\ IsState(t) /\ t.home = st.home /\ t.reference = st.reference
         /\ Like(st.frag, t.frag)
         /\ \A i \in 1..Len(st.frag) : /\ t.frag[i].prot = st.frag[i].prot
                                       /\ t.frag[i].modified => st.frag[i].modified
         /\ Shape(t.disk, t.frag, t.home) /\ EachOnce(t.frag)
         /\ Clean(t.disk, t.frag, t.home)
         /\ \A i \in 1..Len(st.frag) :
              Written(st.disk, st.frag, st.home, i) => Written(t.disk, t.frag, t.home, i)
<1>1. PICK n \in Reached(list) :
        t = [Flushed(st, Due(st, list, 1, n)) EXCEPT !.err = Due(st, list, n + 1, Len(list)) # {}]
  BY DEF FlushMeta
<1> DEFINE S == Due(st, list, 1, n)
           u == Flushed(st, S)
<1>2. n \in 0..Len(list) /\ Len(list) \in Nat
  BY DEF Reached
<1>3. S \in SUBSET (1..Len(st.frag))
  <2>1. \A k \in 1..n : k \in DOMAIN list /\ list[k] \in 1..Len(st.frag)
    BY <1>2
  <2> QED BY <2>1 DEF Due
<1>4. st.frag \in Seq(FragType) /\ Formats(st.disk)
  BY DEF Shape
<1> HIDE DEF S
<1>5. /\ IsState(u) /\ u.home = st.home /\ u.reference = st.reference /\ u.err = st.err
      /\ Like(st.frag, u.frag)
      /\ \A i \in 1..Len(st.frag) :
           /\ u.frag[i].modified = (st.frag[i].modified /\ i \notin S)
           /\ u.frag[i].prot = st.frag[i].prot
      /\ Formats(u.disk) /\ DOMAIN st.disk \subseteq DOMAIN u.disk
      /\ \A i \in S : Written(u.disk, st.frag, st.home, i)
      /\ \A i \in 1..Len(st.frag) \ S :
           st.frag[i].file \in DOMAIN st.disk =>
             u.disk[st.frag[i].file] = st.disk[st.frag[i].file]
  BY <1>3, <1>4, FlushedIs
<1>6. t = [u EXCEPT !.err = Due(st, list, n + 1, Len(list)) # {}]
  BY <1>1 DEF S
<1> HIDE DEF u
<1>7. /\ IsState(t) /\ t.home = st.home /\ t.reference = st.reference
      /\ t.disk = u.disk /\ t.frag = u.frag
  BY <1>5, <1>6 DEF IsState
<1>8. Shape(u.disk, st.frag, st.home)
  BY <1>5 DEF Shape
<1>9. Shape(u.disk, u.frag, st.home) /\ EachOnce(u.frag)
  BY <1>4, <1>5, <1>8, LikeSame
<1>10. \A i \in 1..Len(st.frag) : Written(u.disk, u.frag, st.home, i) <=> Written(u.disk, st.frag, st.home, i)
  BY <1>4, <1>5, LikeSame
<1>11. ASSUME NEW i \in 1..Len(st.frag), Written(st.disk, st.frag, st.home, i)
       PROVE  Written(u.disk, u.frag, st.home, i)
  <2>1. CASE i \in S
    BY <1>5, <1>10, <2>1
  <2>2. CASE i \notin S
    <3>1. st.frag[i].file \in DOMAIN st.disk
      BY <1>11 DEF Written
    <3>2. st.frag[i].file \in DOMAIN u.disk /\ u.disk[st.frag[i].file] = st.disk[st.frag[i].file]
      BY <1>5, <2>2, <3>1
    <3>3. Written(u.disk, st.frag, st.home, i)
      BY <1>11, <3>2 DEF Written
    <3> QED BY <1>10, <3>3
  <2> QED BY <2>1, <2>2
<1>12. Clean(u.disk, u.frag, st.home)
  <2>1. DOMAIN st.frag = 1..Len(st.frag) /\ DOMAIN u.frag = 1..Len(st.frag)
    BY <1>4, <1>5 DEF Like
  <2> SUFFICES ASSUME NEW i \in 1..Len(st.frag), ~u.frag[i].modified
               PROVE  Written(u.disk, u.frag, st.home, i)
    BY <2>1 DEF Clean
  <2>2. CASE i \in S
    BY <1>5, <1>10, <2>2
  <2>3. CASE i \notin S
    <3>1. ~st.frag[i].modified
      BY <1>5, <2>3
    <3> QED BY <1>11, <2>1, <3>1 DEF Clean
  <2> QED BY <2>2, <2>3
<1> QED BY <1>5, <1>7, <1>9, <1>11, <1>12
-------------------------------------------------------------------------------
(* The calls that leave the fragments where they are.                         *)
KeptStep ==
  ret'.op # "open" =>
    \A i \in Indices : Protected(i) => \A j \in 1..Len(frag') :
      frag'[j].file = frag[i].file =>
        /\ {x \in Fields : home[x] = i} = {x \in Fields : home'[x] = j}
        /\ IncludedIn(frag, i) = IncludedIn(frag', j)

LEMMA LikeKept ==
  ASSUME IInv, Like(frag, frag'),
         \A i \in Indices : Protected(i) => \A x \in Fields : home'[x] = i <=> home[x] = i
  PROVE  KeptStep
<1>1. /\ frag \in Seq(FragType) /\ DOMAIN frag = Indices /\ Len(frag') = Len(frag)
      /\ \A i \in Indices : frag'[i].file = frag[i].file
      /\ \A i, j \in Indices : frag[i].file = frag[j].file => i = j
  <2>1. frag \in Seq(FragType) /\ EachOnce(frag)
    BY DEF IInv, Shape
  <2>2. DOMAIN frag = Indices
    BY <2>1 DEF Indices
  <2> QED BY <2>1, <2>2 DEF EachOnce, Indices, Like
<1>2. \A i : IncludedIn(frag', i) = IncludedIn(frag, i)
  BY <1>1, LikeSame
<1> SUFFICES ASSUME NEW i \in Indices, Protected(i), NEW j \in 1..Len(frag'),
                    frag'[j].file = frag[i].file
             PROVE  /\ {x \in Fields : home[x] = i} = {x \in Fields : home'[x] = j}
                    /\ IncludedIn(frag, i) = IncludedIn(frag', j)
  BY DEF KeptStep
<1>3. j \in Indices /\ j = i
  BY <1>1 DEF Indices
<1> QED BY <1>2, <1>3

LEMMA Update ==
  ASSUME IInv, run = "ok", run' = "ok", disk' = disk, Like(frag, frag'),
         home' \in [Fields -> 0..Len(frag)], reference' \in Raws \cup {None},
         \A i \in Indices :
           /\ frag[i].modified => frag'[i].modified
           /\ ~frag'[i].modified \/ Protected(i) => \A x \in Fields : home'[x] = i <=> home[x] = i
  PROVE  IInv' /\ KeptStep
<1>1. /\ frag \in Seq(FragType) /\ DOMAIN frag = Indices /\ Len(frag') = Len(frag)
      /\ DOMAIN frag' = Indices
  BY DEF IInv, Shape, Indices, Like
<1>2. KeptStep
  BY LikeKept
<1>3. Shape(disk, frag', home) /\ EachOnce(frag')
  BY <1>1, LikeSame DEF IInv
<1>4. Shape(disk', frag', home')
  BY <1>1, <1>3 DEF Shape
<1>5. ASSUME NEW i \in Indices, ~frag'[i].modified PROVE Written(disk', frag', home', i)
  <2>1. Written(disk, frag, home, i)
    BY <1>1, <1>5 DEF IInv, Clean
  <2>2. Written(disk, frag', home, i)
    BY <1>1, <2>1, LikeSame DEF Indices
  <2>3. {x \in Fields : home'[x] = i} = {x \in Fields : home[x] = i}
    BY <1>5
  <2> QED BY <2>2, <2>3 DEF Written
<1>6. Clean(disk', frag', home')
  BY <1>1, <1>5 DEF Clean
<1>7. Shape(disk', frag', home') /\ EachOnce(frag') /\ Clean(disk', frag', home')
  BY <1>3, <1>4, <1>6
<1> QED BY <1>2, <1>7 DEF IInv

LEMMA RefuseSound ==
  ASSUME IInv, NEW op, Refuse(op)
  PROVE  IInv' /\ KeptStep
<1>1. disk' = disk /\ frag' = frag /\ home' = home /\ reference' = reference /\ run' = run
  BY DEF Refuse
<1>2. Like(frag, frag')
  BY <1>1 DEF Like, IInv, Shape
<1>3. KeptStep
  BY <1>1, <1>2, LikeKept
<1>4. IInv'
  BY <1>1 DEF IInv
<1> QED BY <1>3, <1>4

LEMMA NowIs ==
  /\ IsState(Now) /\ Now.disk = disk /\ Now.frag = frag /\ Now.home = home
  /\ Now.reference = reference /\ Now.ref = None /\ Now.open = <<>> /\ Now.err = FALSE
BY DEF Now, Blank, IsState

LEMMA PropagateIs ==
  ASSUME NEW fr \in Seq(FragType), NEW i, NEW x \in Fields \cup {None}
  PROVE  LET gr == Propagate(fr, i, x)
         IN /\ Like(fr, gr)
            /\ \A j \in 1..Len(fr) : /\ gr[j].prot = fr[j].prot
                                     /\ fr[j].modified => gr[j].modified
<1> DEFINE gr == Propagate(fr, i, x)
<1>1. /\ Len(fr) \in Nat /\ DOMAIN fr = 1..Len(fr) /\ \A j \in 1..Len(fr) : fr[j] \in FragType
  OBVIOUS
<1>2. PICK bare : gr = [j \in DOMAIN fr |->
                         IF j \in bare THEN [fr[j] EXCEPT !.ref = x, !.modified = TRUE] ELSE fr[j]]
  BY DEF Propagate
<1> HIDE DEF gr
<1>3. ASSUME NEW j \in 1..Len(fr)
      PROVE  /\ gr[j] \in FragType /\ gr[j].file = fr[j].file /\ gr[j].parent = fr[j].parent
             /\ gr[j].prot = fr[j].prot
             /\ fr[j].modified => gr[j].modified
  <2>1. gr[j] = IF j \in bare THEN [fr[j] EXCEPT !.ref = x, !.modified = TRUE] ELSE fr[j]
    BY <1>1, <1>2
  <2>2. fr[j] \in FragType
    BY <1>1
  <2> QED BY <2>1, <2>2 DEF FragType
<1>4. gr \in [1..Len(fr) -> FragType]
  BY <1>1, <1>2, <1>3
<1>5. gr \in Seq(FragType) /\ Len(gr) = Len(fr)
  BY <1>1, <1>4, SeqIs
<1> QED BY <1>3, <1>5 DEF gr, Like
LEMMA AddSound ==
  ASSUME IInv, run = "ok", NEW g \in Indices, NEW x \in Fields, Add(g, x)
  PROVE  IInv' /\ KeptStep
<1>1. CASE Protected(g) \/ home[x] # 0
  <2>1. Refuse("add")
    BY <1>1 DEF Add
  <2> QED BY <2>1, RefuseSound
<1>2. CASE ~Protected(g) /\ home[x] = 0
  <2> DEFINE gr == IF x \in Raws THEN Propagate(frag, g, x) ELSE frag
             fr2 == [gr EXCEPT ![g].modified = TRUE]
  <2>0. /\ frag \in Seq(FragType) /\ Len(frag) \in Nat /\ DOMAIN frag = Indices
        /\ home \in [Fields -> 0..Len(frag)] /\ Indices = 1..Len(frag)
        /\ reference \in Raws \cup {None}
    BY DEF IInv, Shape, Indices
  <2>1. /\ disk' = disk /\ run' = "ok" /\ home' = [home EXCEPT ![x] = g]
        /\ frag' = fr2 /\ reference' \in {reference, x} /\ (reference' = x => x \in Raws \/ x = reference)
    BY <1>2 DEF Add, Call, Becomes, Now, Blank
  <2>2. /\ Like(frag, gr)
        /\ \A j \in 1..Len(frag) : /\ gr[j].prot = frag[j].prot
                                   /\ frag[j].modified => gr[j].modified
    <3>1. CASE x \in Raws
      <4>1. gr = Propagate(frag, g, x)
        BY <3>1
      <4>2. x \in Fields \cup {None}
        OBVIOUS
      <4>3. /\ Like(frag, Propagate(frag, g, x))
            /\ \A j \in 1..Len(frag) : /\ Propagate(frag, g, x)[j].prot = frag[j].prot
                                       /\ frag[j].modified => Propagate(frag, g, x)[j].modified
        BY <2>0, <4>2, PropagateIs
      <4> HIDE DEF gr
      <4> QED BY <4>1, <4>3
    <3>2. CASE x \notin Raws
      BY <2>0, <3>2 DEF Like
    <3> QED BY <3>1, <3>2
  <2> HIDE DEF gr
  <2>3. Like(frag, fr2) /\ \A j \in Indices : fr2[j].modified = (gr[j].modified \/ j = g)
    <3>1. gr \in Seq(FragType) /\ DOMAIN gr = 1..Len(frag) /\ \A j \in 1..Len(frag) : gr[j] \in FragType
      BY <2>0, <2>2 DEF Like
    <3>2. [gr[g] EXCEPT !.modified = TRUE] \in FragType
      BY <2>0, <3>1 DEF FragType
    <3>3. fr2 \in [1..Len(frag) -> FragType]
      BY <3>1, <3>2
    <3>4. fr2 \in Seq(FragType) /\ Len(fr2) = Len(frag)
      <4> HIDE DEF fr2
      <4> QED BY <2>0, <3>3, SeqIs
    <3>5. ASSUME NEW j \in 1..Len(frag)
          PROVE  /\ fr2[j].file = frag[j].file /\ fr2[j].parent = frag[j].parent
                 /\ fr2[j].modified = (gr[j].modified \/ j = g)
      <4>1. /\ gr[j] \in FragType /\ gr[j].file = frag[j].file
            /\ gr[j].parent = frag[j].parent
        BY <2>2, <3>1 DEF Like
      <4>2. fr2[j] = IF j = g THEN [gr[j] EXCEPT !.modified = TRUE] ELSE gr[j]
        BY <3>1
      <4> HIDE DEF fr2
      <4>3. CASE j = g
        BY <4>1, <4>2, <4>3 DEF FragType
      <4>4. CASE j # g
        <5>1. gr[j].modified \in BOOLEAN /\ fr2[j] = gr[j]
          BY <4>1, <4>2, <4>4 DEF FragType
        <5> QED BY <4>1, <4>4, <5>1
      <4> QED BY <4>3, <4>4
    <3> HIDE DEF fr2
    <3> QED BY <2>0, <3>4, <3>5 DEF Like
  <2> HIDE DEF fr2
  <2>4. home' \in [Fields -> 0..Len(frag)] /\ \A i \in Indices : i # g => \A y \in Fields : home'[y] = i <=> home[y] = i
    BY <1>2, <2>0, <2>1
  <2>5. reference' \in Raws \cup {None}
    BY <2>0, <2>1
  <2>6. \A i \in Indices :
          /\ frag[i].modified => frag'[i].modified
          /\ ~frag'[i].modified \/ Protected(i) => i # g
    BY <1>2, <2>0, <2>1, <2>2, <2>3
  <2> QED BY <2>1, <2>3, <2>4, <2>5, <2>6, Update
<1> QED BY <1>1, <1>2

LEMMA NewRefIs ==
  ASSUME NEW i, NEW x
  PROVE  NewRef(i, x) \in (Raws \ {x}) \cup {None}
<1> DEFINE S == {y \in Raws \ {x} : i \in Above(frag, home[y])}
           q == Among(Names, S)
<1>1. Names \in Seq(Fields)
  BY FragmentsAssumption
<1>2. NewRef(i, x) = IF q = <<>> THEN None ELSE Head(q)
  BY DEF NewRef
<1>3. S \subseteq Raws \ {x}
  OBVIOUS
<1> HIDE DEF S
<1>4. q \in Seq(Fields) /\ ToSet(q) = ToSet(Names) \cap S
  BY <1>1, AmongIs
<1> HIDE DEF q
<1>5. CASE q # <<>>
  <2>1. 1 \in DOMAIN q /\ Head(q) = q[1]
    BY <1>4, <1>5
  <2>2. Head(q) \in ToSet(q)
    BY <2>1 DEF ToSet
  <2> QED BY <1>2, <1>3, <1>4, <1>5, <2>2
<1> QED BY <1>2, <1>5

LEMMA DeleteSound ==
  ASSUME Careful, IInv, run = "ok", NEW x \in Fields, Delete(x)
  PROVE  IInv' /\ KeptStep
<1>1. CASE home[x] = 0 \/ Protected(home[x])
  <2>1. Refuse("delete")
    BY <1>1 DEF Delete
  <2> QED BY <2>1, RefuseSound
<1>2. CASE home[x] # 0 /\ ~Protected(home[x])
  <2>0. /\ frag \in Seq(FragType) /\ Len(frag) \in Nat /\ DOMAIN frag = Indices
        /\ home \in [Fields -> 0..Len(frag)] /\ Indices = 1..Len(frag)
        /\ reference \in Raws \cup {None} /\ \A i \in Indices : frag[i] \in FragType
    BY DEF IInv, Shape, Indices
  <2>1. /\ disk' = disk /\ run' = "ok" /\ home' = [home EXCEPT ![x] = 0]
        /\ frag' = WithoutRef(x)
        /\ reference' = IF frag[1].ref = x /\ NewRef(1, x) # None THEN NewRef(1, x)
                        ELSE IF reference = x THEN Freed ELSE reference
    BY <1>2 DEF Delete, Call, Becomes, Now, Blank
  <2>2. reference' \in Raws \cup {None}
    <3>1. reference = x => frag[1].ref = x /\ NewRef(1, x) # None
      BY DEF Delete, MayDelete
    <3> QED BY <2>0, <2>1, <3>1, NewRefIs
  <2>3. ASSUME NEW i \in Indices
        PROVE  /\ frag'[i] \in FragType /\ frag'[i].file = frag[i].file
               /\ frag'[i].parent = frag[i].parent
               /\ frag'[i].modified = (frag[i].modified \/ i = home[x])
    <3> DEFINE r == IF x \in Raws /\ frag[i].ref = x THEN NewRef(i, x) ELSE frag[i].ref
               b == frag[i].modified \/ i = home[x]
    <3>1. frag'[i] = [frag[i] EXCEPT !.ref = r, !.modified = b]
      BY <2>0, <2>1 DEF WithoutRef
    <3>2. frag[i] \in FragType /\ r \in Fields \cup {None} /\ b \in BOOLEAN
      <4>1. frag[i] \in FragType
        BY <2>0
      <4>2. frag[i].ref \in Fields \cup {None}
        BY <4>1 DEF FragType
      <4> QED BY <4>1, <4>2, NewRefIs DEF Fields
    <3> HIDE DEF r
    <3> QED BY <3>1, <3>2 DEF FragType
  <2>4. Like(frag, frag')
    <3>1. frag' \in [1..Len(frag) -> FragType]
      BY <2>0, <2>1, <2>3 DEF WithoutRef
    <3>2. frag' \in Seq(FragType) /\ Len(frag') = Len(frag)
      BY <2>0, <3>1, SeqIs
    <3> QED BY <2>0, <2>3, <3>2 DEF Like
  <2>5. home' \in [Fields -> 0..Len(frag)] /\ \A i \in Indices : i # home[x] => \A y \in Fields : home'[y] = i <=> home[y] = i
    BY <1>2, <2>0, <2>1
  <2>6. \A i \in Indices :
          /\ frag[i].modified => frag'[i].modified
          /\ ~frag'[i].modified \/ Protected(i) => i # home[x]
    BY <1>2, <2>3
  <2> QED BY <2>1, <2>2, <2>4, <2>5, <2>6, Update
<1> QED BY <1>1, <1>2

LEMMA MoveSound ==
  ASSUME IInv, run = "ok", NEW g \in Indices, NEW x \in Fields, Move(x, g)
  PROVE  IInv' /\ KeptStep
<1>1. CASE Protected(home[x]) \/ Protected(g)
  <2>1. Refuse("move")
    BY <1>1 DEF Move
  <2> QED BY <2>1, RefuseSound
<1>2. CASE ~Protected(home[x]) /\ ~Protected(g)
  <2> DEFINE h == home[x]
             gr == [frag EXCEPT ![h].modified = TRUE]
             fr2 == [gr EXCEPT ![g].modified = TRUE]
  <2>0. /\ frag \in Seq(FragType) /\ Len(frag) \in Nat /\ DOMAIN frag = Indices
        /\ home \in [Fields -> 0..Len(frag)] /\ Indices = 1..Len(frag)
        /\ reference \in Raws \cup {None} /\ \A i \in Indices : frag[i] \in FragType
    BY DEF IInv, Shape, Indices
  <2>1. /\ disk' = disk /\ run' = "ok" /\ home' = [home EXCEPT ![x] = g]
        /\ frag' = fr2 /\ reference' = reference
    BY <1>2 DEF Move, Call, Becomes, Now, Blank
  <2>2. home[x] \in Indices /\ g \in Indices
    BY <2>0 DEF Move
  <2>3. ASSUME NEW i \in Indices
        PROVE  /\ fr2[i] \in FragType /\ fr2[i].file = frag[i].file
               /\ fr2[i].parent = frag[i].parent
               /\ fr2[i].modified = (frag[i].modified \/ i \in {h, g})
    <3>1. frag[i] \in FragType
      BY <2>0
    <3>2. gr[i] = IF i = h THEN [frag[i] EXCEPT !.modified = TRUE] ELSE frag[i]
      BY <2>0, <2>2
    <3>3. DOMAIN gr = Indices
      BY <2>0
    <3> HIDE DEF gr, h
    <3>4. fr2[i] = IF i = g THEN [gr[i] EXCEPT !.modified = TRUE] ELSE gr[i]
      BY <2>2, <3>3
    <3> HIDE DEF fr2
    <3>5. gr[i] \in FragType /\ gr[i].file = frag[i].file /\ gr[i].parent = frag[i].parent
      BY <3>1, <3>2 DEF FragType
    <3>6. gr[i].modified = (frag[i].modified \/ i = h)
      <4>1. CASE i = h
        BY <3>1, <3>2, <4>1 DEF FragType
      <4>2. CASE i # h
        <5>1. frag[i].modified \in BOOLEAN /\ gr[i] = frag[i]
          BY <3>1, <3>2, <4>2 DEF FragType
        <5> QED BY <4>2, <5>1
      <4> QED BY <4>1, <4>2
    <3>7. CASE i = g
      BY <3>4, <3>5, <3>7 DEF FragType
    <3>8. CASE i # g
      BY <3>4, <3>5, <3>6, <3>8
    <3> QED BY <3>7, <3>8
  <2>4. Like(frag, fr2)
    <3>1. DOMAIN fr2 = Indices /\ fr2 = [i \in Indices |-> fr2[i]]
      BY <2>0
    <3> HIDE DEF fr2
    <3>2. fr2 \in [1..Len(frag) -> FragType]
      BY <2>0, <2>3, <3>1
    <3>3. fr2 \in Seq(FragType) /\ Len(fr2) = Len(frag)
      BY <2>0, <3>2, SeqIs
    <3> QED BY <2>0, <2>3, <3>3 DEF Like
  <2> HIDE DEF fr2
  <2>5. home' \in [Fields -> 0..Len(frag)] /\ \A i \in Indices : i \notin {h, g} => \A y \in Fields : home'[y] = i <=> home[y] = i
    BY <2>0, <2>1, <2>2
  <2>6. \A i \in Indices :
          /\ frag[i].modified => frag'[i].modified
          /\ ~frag'[i].modified \/ Protected(i) => i \notin {h, g}
    BY <1>2, <2>1, <2>3
  <2> QED BY <2>0, <2>1, <2>4, <2>5, <2>6, Update
<1> QED BY <1>1, <1>2

LEMMA ReferenceSound ==
  ASSUME IInv, run = "ok", NEW x \in Fields, Reference(x)
  PROVE  IInv' /\ KeptStep
<1>1. CASE home[x] = 0 \/ x \notin Raws \/ Protected(1)
  <2>1. Refuse("reference")
    BY <1>1 DEF Reference
  <2> QED BY <2>1, RefuseSound
<1>2. CASE home[x] # 0 /\ x \in Raws /\ ~Protected(1)
  <2>0. /\ frag \in Seq(FragType) /\ Len(frag) \in Nat /\ DOMAIN frag = Indices
        /\ home \in [Fields -> 0..Len(frag)] /\ Indices = 1..Len(frag) /\ 1 \in Indices
        /\ \A i \in Indices : frag[i] \in FragType
    BY DEF IInv, Shape, Indices
  <2>1. /\ disk' = disk /\ run' = "ok" /\ home' = home /\ reference' = x
        /\ frag' = [[frag EXCEPT ![1].ref = x] EXCEPT ![1].modified = TRUE]
    BY <1>2 DEF Reference, Call, Becomes, Now, Blank
  <2>2. ASSUME NEW i \in Indices
        PROVE  /\ frag'[i] \in FragType /\ frag'[i].file = frag[i].file
               /\ frag'[i].parent = frag[i].parent
               /\ frag[i].modified => frag'[i].modified
    <3>1. frag[i] \in FragType
      BY <2>0
    <3>2. frag'[i] = IF i = 1 THEN [[frag[i] EXCEPT !.ref = x] EXCEPT !.modified = TRUE] ELSE frag[i]
      BY <2>0, <2>1
    <3> QED BY <3>1, <3>2 DEF FragType
  <2>3. Like(frag, frag')
    <3>1. DOMAIN frag' = Indices /\ frag' = [i \in Indices |-> frag'[i]]
      BY <2>0, <2>1
    <3>2. frag' \in [1..Len(frag) -> FragType]
      BY <2>0, <2>2, <3>1
    <3>3. frag' \in Seq(FragType) /\ Len(frag') = Len(frag)
      BY <2>0, <3>2, SeqIs
    <3> QED BY <2>0, <2>2, <3>3 DEF Like
  <2>4. \A i \in Indices : frag[i].modified => frag'[i].modified
    BY <2>2
  <2> QED BY <1>2, <2>0, <2>1, <2>3, <2>4, Update
<1> QED BY <1>1, <1>2

LEMMA ProtectSound ==
  ASSUME IInv, run = "ok", NEW i \in Indices, NEW level \in Levels,
         AlterProtection(i, level)
  PROVE  IInv' /\ KeptStep
<1>0. /\ frag \in Seq(FragType) /\ Len(frag) \in Nat /\ DOMAIN frag = Indices
      /\ home \in [Fields -> 0..Len(frag)] /\ Indices = 1..Len(frag)
      /\ reference \in Raws \cup {None} /\ \A j \in Indices : frag[j] \in FragType
      /\ level \in ProtLevels
  BY FragmentsAssumption DEF IInv, Shape, Indices
<1>1. /\ disk' = disk /\ run' = "ok" /\ home' = home /\ reference' = reference
      /\ frag' = [frag EXCEPT ![i].prot = level]
  BY DEF AlterProtection, Call, Becomes, Now, Blank
<1>2. ASSUME NEW j \in Indices
      PROVE  /\ frag'[j] \in FragType /\ frag'[j].file = frag[j].file
             /\ frag'[j].parent = frag[j].parent
             /\ frag[j].modified => frag'[j].modified
  <2>1. frag[j] \in FragType
    BY <1>0
  <2>2. frag'[j] = IF j = i THEN [frag[j] EXCEPT !.prot = level] ELSE frag[j]
    BY <1>0, <1>1
  <2> QED BY <1>0, <2>1, <2>2 DEF FragType
<1>3. Like(frag, frag')
  <2>1. DOMAIN frag' = Indices /\ frag' = [j \in Indices |-> frag'[j]]
    BY <1>0, <1>1
  <2>2. frag' \in [1..Len(frag) -> FragType]
    BY <1>0, <1>2, <2>1
  <2>3. frag' \in Seq(FragType) /\ Len(frag') = Len(frag)
    BY <1>0, <2>2, SeqIs
  <2> QED BY <1>0, <1>2, <2>3 DEF Like
<1>4. \A j \in Indices : frag[j].modified => frag'[j].modified
  BY <1>2
<1> QED BY <1>0, <1>1, <1>3, <1>4, Update
-------------------------------------------------------------------------------
(* The calls that write.                                                      *)
LEMMA CallSound ==
  ASSUME IInv, NEW t, NEW op, Call(op, t),
         Like(frag, t.frag), t.home = home, t.reference = reference,
         Shape(t.disk, t.frag, home), Clean(t.disk, t.frag, home)
  PROVE  IInv' /\ KeptStep
<1>1. disk' = t.disk /\ frag' = t.frag /\ home' = home /\ reference' = reference /\ run' = "ok"
  BY DEF Call, Becomes
<1>2. KeptStep
  BY <1>1, LikeKept
<1>3. EachOnce(frag')
  BY <1>1, LikeSame DEF IInv, Shape
<1>4. IInv'
  BY <1>1, <1>3 DEF IInv
<1> QED BY <1>2, <1>4

LEMMA FlushNow ==
  ASSUME IInv, run = "ok", NEW list \in Seq(1..Len(frag)),
         NEW t \in FlushMeta(Now, list)
  PROVE  /\ Like(frag, t.frag) /\ t.home = home /\ t.reference = reference
         /\ Shape(t.disk, t.frag, home) /\ Clean(t.disk, t.frag, home) /\ EachOnce(t.frag)
         /\ IsState(t)
         /\ \A i \in 1..Len(frag) : t.frag[i].prot = frag[i].prot
<1>1. /\ IsState(Now) /\ Shape(Now.disk, Now.frag, Now.home) /\ EachOnce(Now.frag)
      /\ Clean(Now.disk, Now.frag, Now.home) /\ list \in Seq(1..Len(Now.frag))
  BY NowIs DEF IInv
<1>2. /\ IsState(t) /\ t.home = Now.home /\ t.reference = Now.reference
      /\ Like(Now.frag, t.frag)
      /\ \A i \in 1..Len(Now.frag) : t.frag[i].prot = Now.frag[i].prot
      /\ Shape(t.disk, t.frag, t.home) /\ EachOnce(t.frag)
      /\ Clean(t.disk, t.frag, t.home)
  BY <1>1, FlushSound
<1> QED BY <1>2, NowIs

LEMMA AllIs == ASSUME Len(frag) \in Nat PROVE AllFragments \in Seq(1..Len(frag))
<1>1. AllFragments \in [1..Len(frag) -> 1..Len(frag)]
  BY DEF AllFragments, Indices
<1> QED BY <1>1, SeqIs

LEMMA FlushCall ==
  ASSUME IInv, run = "ok", NEW list \in Seq(1..Len(frag)),
         NEW t \in FlushMeta(Now, list), NEW op, Call(op, t)
  PROVE  IInv' /\ KeptStep
BY FlushNow, CallSound

LEMMA RewriteSound ==
  ASSUME IInv, run = "ok", NEW list \in Seq(1..Len(frag)),
         RewriteFragment(list)
  PROVE  IInv' /\ KeptStep
<1> DEFINE forced == [i \in Indices |-> IF Contains(list, i) THEN [frag[i] EXCEPT !.modified = TRUE]
                                       ELSE frag[i]]
           kept(fr) == [i \in Indices |-> IF frag[i].modified THEN fr[i]
                                         ELSE [fr[i] EXCEPT !.modified = FALSE]]
           st == [Now EXCEPT !.frag = forced]
<1>0. /\ frag \in Seq(FragType) /\ Len(frag) \in Nat /\ DOMAIN frag = Indices
      /\ Indices = 1..Len(frag) /\ \A i \in Indices : frag[i] \in FragType
  BY DEF IInv, Shape, Indices
<1>1. /\ IsState(st) /\ st.disk = disk /\ st.frag = forced /\ st.home = home
      /\ st.reference = reference
  <2> HIDE DEF forced
  <2> QED BY NowIs DEF IsState
<1>2. Like(frag, forced) /\ \A i \in Indices : frag[i].modified => forced[i].modified
  <2>1. ASSUME NEW i \in Indices
        PROVE  /\ forced[i] \in FragType /\ forced[i].file = frag[i].file
               /\ forced[i].parent = frag[i].parent
               /\ frag[i].modified => forced[i].modified
    <3>1. frag[i] \in FragType
      BY <1>0
    <3>2. forced[i] = IF Contains(list, i) THEN [frag[i] EXCEPT !.modified = TRUE] ELSE frag[i]
      OBVIOUS
    <3> QED BY <3>1, <3>2 DEF FragType
  <2>2. forced = [i \in Indices |-> forced[i]]
    OBVIOUS
  <2> HIDE DEF forced
  <2>3. forced \in [1..Len(frag) -> FragType]
    BY <1>0, <2>1, <2>2
  <2>4. forced \in Seq(FragType) /\ Len(forced) = Len(frag)
    BY <1>0, <2>3, SeqIs
  <2> QED BY <1>0, <2>1, <2>4 DEF Like
<1>3. PICK t \in FlushMeta(st, list) : Call("flush", [t EXCEPT !.frag = kept(@)])
  BY DEF RewriteFragment
<1> HIDE DEF forced, st
<1>4. Shape(disk, forced, home) /\ EachOnce(forced) /\ Clean(disk, forced, home)
  <2>1. Shape(disk, forced, home) /\ EachOnce(forced)
    BY <1>0, <1>2, LikeSame DEF IInv
  <2>2. \A i \in Indices : Written(disk, forced, home, i) <=> Written(disk, frag, home, i)
    BY <1>0, <1>2, LikeSame
  <2>3. DOMAIN forced = Indices
    BY <1>0, <1>2 DEF Like
  <2> QED BY <1>0, <1>2, <2>1, <2>2, <2>3 DEF Clean, IInv
<1>5. Len(forced) = Len(frag) /\ list \in Seq(1..Len(forced))
  BY <1>2 DEF Like
<1>6. /\ IsState(t) /\ t.home = st.home /\ t.reference = st.reference
      /\ Like(st.frag, t.frag)
      /\ Shape(t.disk, t.frag, t.home)
      /\ Clean(t.disk, t.frag, t.home)
      /\ \A i \in 1..Len(st.frag) :
           Written(st.disk, st.frag, st.home, i) => Written(t.disk, t.frag, t.home, i)
  BY <1>1, <1>4, <1>5, FlushSound
<1> DEFINE fr3 == kept(t.frag)
           t3 == [t EXCEPT !.frag = fr3]
<1>7. Call("flush", t3)
  BY <1>3
<1>8. /\ t3.disk = t.disk /\ t3.frag = fr3 /\ t3.home = home /\ t3.reference = reference
  <2> HIDE DEF fr3
  <2> QED BY <1>1, <1>6 DEF IsState
<1>9. /\ t.frag \in Seq(FragType) /\ DOMAIN t.frag = Indices /\ Len(t.frag) = Len(frag)
      /\ \A i \in Indices : t.frag[i] \in FragType
      /\ \A i \in Indices : t.frag[i].file = frag[i].file /\ t.frag[i].parent = frag[i].parent
  <2>1. t.frag \in Seq(FragType) /\ Len(t.frag) = Len(frag)
    BY <1>1, <1>5, <1>6 DEF Like
  <2>2. \A i \in 1..Len(frag) : t.frag[i].file = frag[i].file /\ t.frag[i].parent = frag[i].parent
    BY <1>1, <1>2, <1>5, <1>6 DEF Like
  <2>3. DOMAIN t.frag = Indices
    BY <1>0, <2>1
  <2> QED BY <1>0, <2>1, <2>2, <2>3
<1>10. ASSUME NEW i \in Indices
       PROVE  /\ fr3[i] \in FragType /\ fr3[i].file = t.frag[i].file
              /\ fr3[i].parent = t.frag[i].parent
              /\ ~fr3[i].modified => ~t.frag[i].modified \/ ~frag[i].modified
  <2>1. t.frag[i] \in FragType
    BY <1>9
  <2>2. fr3[i] = IF frag[i].modified THEN t.frag[i] ELSE [t.frag[i] EXCEPT !.modified = FALSE]
    OBVIOUS
  <2> HIDE DEF fr3
  <2> QED BY <2>1, <2>2 DEF FragType
<1>11. Like(t.frag, fr3) /\ Like(frag, fr3)
  <2>1. fr3 = [i \in Indices |-> fr3[i]]
    OBVIOUS
  <2> HIDE DEF fr3
  <2>2. fr3 \in [1..Len(frag) -> FragType]
    BY <1>0, <1>10, <2>1
  <2>3. fr3 \in Seq(FragType) /\ Len(fr3) = Len(frag)
    BY <1>0, <2>2, SeqIs
  <2> QED BY <1>0, <1>9, <1>10, <2>3 DEF Like
<1> HIDE DEF fr3
<1>12. Shape(t.disk, fr3, home)
  BY <1>1, <1>6, <1>9, <1>11, LikeSame
<1>13. Clean(t.disk, fr3, home)
  <2>1. DOMAIN fr3 = Indices
    BY <1>0, <1>11 DEF Like
  <2> SUFFICES ASSUME NEW i \in Indices, ~fr3[i].modified
               PROVE  Written(t.disk, fr3, home, i)
    BY <2>1 DEF Clean
  <2>2. Written(t.disk, t.frag, home, i)
    <3>1. CASE ~t.frag[i].modified
      BY <1>1, <1>6, <1>9, <3>1 DEF Clean
    <3>2. CASE ~frag[i].modified
      <4>1. Written(disk, frag, home, i)
        BY <1>0, <3>2 DEF IInv, Clean
      <4>2. Written(disk, forced, home, i)
        BY <1>0, <1>2, <4>1, LikeSame
      <4> QED BY <1>0, <1>1, <1>5, <1>6, <4>2
    <3> QED BY <1>10, <3>1, <3>2
  <2> QED BY <1>0, <1>9, <1>11, <2>2, LikeSame
<1> HIDE DEF t3
<1> QED BY <1>7, <1>8, <1>11, <1>12, <1>13, CallSound
-------------------------------------------------------------------------------
(* Reading.  Files are read into the fragments after those of old, g.file,    *)
(* included by g.parent, first; what a file that is open has told so far, and *)
(* one that is not has told, are the fields and the includes of its fragment. *)
FrameType == [me : Nat, level : Nat, at : Nat, first : Fields \cup {None}]

ReadOf(lines, r, is) == {lines[k].of : k \in {k \in 1..r : lines[k].is = is}}

HasRead(d, fr, hm, i, r) ==
  /\ {x \in Fields : hm[x] = i} = ReadOf(d[fr[i].file], r, "field")
  /\ IncludedIn(fr, i) = ReadOf(d[fr[i].file], r, "include")

NewFragments(d, old, g, fr) ==
  /\ fr \in Seq(FragType) /\ Len(fr) > Len(old)
  /\ \A i \in 1..Len(old) : fr[i] = old[i]
  /\ \A i \in (Len(old) + 1)..Len(fr) :
       /\ fr[i].file \in DOMAIN d /\ ~fr[i].modified
       /\ IF i = Len(old) + 1 THEN fr[i].parent = g.parent /\ fr[i].file = g.file
          ELSE fr[i].parent > Len(old) /\ fr[i].parent < i

NewHomes(b, hm, n, hm2) ==
  /\ hm2 \in [Fields -> 0..n]
  /\ \A x \in Fields : IF hm[x] # 0 THEN hm2[x] = hm[x] ELSE hm2[x] = 0 \/ hm2[x] > b

OpenFiles(d, b, fr, open) ==
  /\ open \in Seq(FrameType)
  /\ \A k \in 1..Len(open) : /\ open[k].me \in (b + 1)..Len(fr)
                             /\ open[k].at <= Len(d[fr[open[k].me].file])
  /\ \A k, l \in 1..Len(open) : open[k].me = open[l].me => k = l

ReadThrough(d, b, n, fr, hm, open) ==
  \A i \in (b + 1)..n :
    /\ \A k \in 1..Len(open) : open[k].me = i => HasRead(d, fr, hm, i, open[k].at)
    /\ (\A k \in 1..Len(open) : open[k].me # i) => HasRead(d, fr, hm, i, Len(d[fr[i].file]))

AllRead(d, b, fr, hm, open) == ReadThrough(d, b, Len(fr), fr, hm, open)

Reader(d, old, g, hm) ==
  /\ Formats(d) /\ old \in Seq(FragType) /\ g.parent \in 0..Len(old)
  /\ \A i \in 1..Len(old) : old[i].parent \in 0..Len(old)
  /\ hm \in [Fields -> 0..Len(old)]

Reading(d, old, g, hm, st) ==
  /\ IsState(st) /\ st.disk = d /\ st.err = FALSE
  /\ NewFragments(d, old, g, st.frag)
  /\ NewHomes(Len(old), hm, Len(st.frag), st.home)
  /\ st.reference \in Raws \cup {None} /\ st.ref \in Fields \cup {None}
  /\ OpenFiles(d, Len(old), st.frag, st.open)
  /\ AllRead(d, Len(old), st.frag, st.home, st.open)

LEMMA LineIs ==
  ASSUME NEW line \in FormatLines
  PROVE  \/ line.is = "protect" /\ line.of \in ProtLevels
         \/ line.is = "include" /\ line.of \in Files
         \/ line.is = "field" /\ line.of \in Fields
         \/ line.is = "reference" /\ line.of \in Fields
BY DEF FormatLines, Line

LEMMA ReadMore ==
  ASSUME NEW A, NEW lines \in Seq(A), NEW r \in Nat, r < Len(lines), NEW is
  PROVE  /\ lines[r + 1].is = is => ReadOf(lines, r + 1, is) = ReadOf(lines, r, is) \cup {lines[r + 1].of}
         /\ lines[r + 1].is # is => ReadOf(lines, r + 1, is) = ReadOf(lines, r, is)
<1>1. 1..(r + 1) = (1..r) \cup {r + 1}
  OBVIOUS
<1> QED BY <1>1 DEF ReadOf

LEMMA ReadNone == \A lines, is : ReadOf(lines, 0, is) = {}
BY DEF ReadOf

LEMMA ReadAll ==
  ASSUME NEW A, NEW lines \in Seq(A)
  PROVE  \A is : ReadOf(lines, Len(lines), is) = Told(lines, is)
BY DEF ReadOf, Told

LEMMA LikeRead ==
  ASSUME NEW fr \in Seq(FragType), NEW gr, Like(fr, gr), NEW d, NEW hm, NEW i \in 1..Len(fr), NEW r
  PROVE  HasRead(d, gr, hm, i, r) <=> HasRead(d, fr, hm, i, r)
<1>1. gr[i].file = fr[i].file
  BY DEF Like
<1>2. IncludedIn(gr, i) = IncludedIn(fr, i)
  BY LikeSame
<1> QED BY <1>1, <1>2 DEF HasRead

LEMMA IncludedAppend ==
  ASSUME NEW fr \in Seq(FragType), NEW f \in FragType, NEW i
  PROVE  /\ f.parent # i => IncludedIn(Append(fr, f), i) = IncludedIn(fr, i)
         /\ f.parent = i => IncludedIn(Append(fr, f), i) = IncludedIn(fr, i) \cup {f.file}
<1> DEFINE gr == Append(fr, f)
<1>1. /\ Len(fr) \in Nat /\ DOMAIN fr = 1..Len(fr) /\ DOMAIN gr = (DOMAIN fr) \cup {Len(fr) + 1}
      /\ \A j \in DOMAIN fr : gr[j] = fr[j]
      /\ gr[Len(fr) + 1] = f
  OBVIOUS
<1> HIDE DEF gr
<1>2. ASSUME f.parent # i PROVE IncludedIn(gr, i) = IncludedIn(fr, i)
  BY <1>1, <1>2 DEF IncludedIn
<1>3. ASSUME f.parent = i PROVE IncludedIn(gr, i) = IncludedIn(fr, i) \cup {f.file}
  BY <1>1, <1>3 DEF IncludedIn
<1> QED BY <1>2, <1>3 DEF gr

InFile(d, old, st) ==
  LET m == Len(st.open)
      top == st.open[m]
      lines == d[st.frag[top.me].file]
  IN /\ m \in Nat /\ m >= 1 /\ m \in DOMAIN st.open /\ top = Last(st.open) /\ top \in FrameType
     /\ DOMAIN st.open = 1..m
     /\ Len(st.frag) \in Nat /\ DOMAIN st.frag = 1..Len(st.frag) /\ Len(old) \in Nat
     /\ top.me \in (Len(old) + 1)..Len(st.frag) /\ top.me \in 1..Len(st.frag)
     /\ st.frag[top.me] \in FragType
     /\ lines \in Seq(FormatLines) /\ Len(lines) \in Nat /\ top.at \in Nat /\ top.at <= Len(lines)

LEMMA FrameIs ==
  ASSUME NEW d, NEW old, NEW g, NEW hm, Reader(d, old, g, hm),
         NEW st, Reading(d, old, g, hm, st), st.open # <<>>
  PROVE  InFile(d, old, st)
<1>1. st.open \in Seq(FrameType) /\ st.frag \in Seq(FragType) /\ Len(old) \in Nat
  BY DEF Reading, OpenFiles, NewFragments, Reader
<1> DEFINE m == Len(st.open)
           top == st.open[m]
<1>2. m \in Nat /\ m >= 1 /\ m \in DOMAIN st.open /\ top \in FrameType /\ DOMAIN st.open = 1..m
  BY <1>1
<1>3. top = Last(st.open)
  BY DEF Last
<1>4. /\ Len(st.frag) \in Nat /\ DOMAIN st.frag = 1..Len(st.frag)
      /\ top.me \in (Len(old) + 1)..Len(st.frag) /\ top.at <= Len(d[st.frag[top.me].file])
  BY <1>1, <1>2 DEF Reading, OpenFiles
<1>5. top.me \in 1..Len(st.frag) /\ st.frag[top.me] \in FragType
  BY <1>1, <1>4
<1> DEFINE lines == d[st.frag[top.me].file]
<1>6. lines \in Seq(FormatLines) /\ Len(lines) \in Nat /\ top.at \in Nat
  <2>1. st.frag[top.me].file \in DOMAIN d
    BY <1>4 DEF Reading, NewFragments
  <2>2. lines \in Seq(FormatLines)
    BY <2>1 DEF Reader, Formats
  <2>3. Len(lines) \in Nat
    <3> HIDE DEF lines
    <3> QED BY <2>2
  <2> QED BY <1>2, <2>2, <2>3 DEF FrameType
<1> QED BY <1>1, <1>2, <1>3, <1>4, <1>5, <1>6 DEF InFile

LEMMA ReadOther ==
  ASSUME NEW d, NEW old, NEW g, NEW hm, Reader(d, old, g, hm),
         NEW st, Reading(d, old, g, hm, st),
         NEW st2, IsState(st2), st2.disk = d, st2.err = FALSE, st2.home = st.home,
         st2.reference = st.reference, st2.ref \in Fields \cup {None},
         Like(st.frag, st2.frag),
         \A i \in 1..Len(st.frag) : /\ st2.frag[i].modified = st.frag[i].modified
                                    /\ i <= Len(old) => st2.frag[i] = st.frag[i],
         OpenFiles(d, Len(old), st.frag, st2.open),
         AllRead(d, Len(old), st.frag, st.home, st2.open)
  PROVE  Reading(d, old, g, hm, st2)
<1>1. /\ st.frag \in Seq(FragType) /\ Len(st.frag) \in Nat /\ Len(old) \in Nat
      /\ Len(st2.frag) = Len(st.frag) /\ st2.frag \in Seq(FragType) /\ Len(st.frag) > Len(old)
      /\ \A i \in 1..Len(st.frag) : /\ st2.frag[i].file = st.frag[i].file
                                    /\ st2.frag[i].parent = st.frag[i].parent
  BY DEF Reading, NewFragments, Reader, Like
<1>2. NewFragments(d, old, g, st2.frag)
  <2>1. \A i \in 1..Len(old) : i \in 1..Len(st.frag) /\ i <= Len(old)
    BY <1>1
  <2>2. \A i \in (Len(old) + 1)..Len(st.frag) : i \in 1..Len(st.frag)
    BY <1>1
  <2> QED BY <1>1, <2>1, <2>2 DEF Reading, NewFragments
<1>3. OpenFiles(d, Len(old), st2.frag, st2.open)
  <2>1. \A k \in 1..Len(st2.open) : st2.open[k].me \in 1..Len(st.frag)
    BY <1>1 DEF OpenFiles
  <2> QED BY <1>1, <2>1 DEF OpenFiles
<1>4. AllRead(d, Len(old), st2.frag, st2.home, st2.open)
  <2> SUFFICES ASSUME NEW i \in (Len(old) + 1)..Len(st.frag)
               PROVE  /\ \A k \in 1..Len(st2.open) :
                           st2.open[k].me = i => HasRead(d, st2.frag, st.home, i, st2.open[k].at)
                      /\ (\A k \in 1..Len(st2.open) : st2.open[k].me # i) =>
                           HasRead(d, st2.frag, st.home, i, Len(d[st2.frag[i].file]))
    BY <1>1 DEF AllRead, ReadThrough
  <2>1. i \in 1..Len(st.frag)
    BY <1>1
  <2>2. \A r : HasRead(d, st2.frag, st.home, i, r) <=> HasRead(d, st.frag, st.home, i, r)
    BY <1>1, <2>1, LikeRead
  <2> QED BY <1>1, <2>1, <2>2 DEF AllRead, ReadThrough
<1>5. NewHomes(Len(old), hm, Len(st2.frag), st2.home)
  BY <1>1 DEF Reading
<1> QED BY <1>2, <1>3, <1>4, <1>5 DEF Reading
(* The end of a file.                                                         *)
LEMMA ReadEnd ==
  ASSUME NEW d, NEW old, NEW g, NEW hm, Reader(d, old, g, hm),
         NEW st, Reading(d, old, g, hm, st), st.open # <<>>,
         ~(Last(st.open).at < Len(d[st.frag[Last(st.open).me].file]))
  PROVE  Reading(d, old, g, hm, ParseNext(st))
<1> DEFINE m == Len(st.open)
           top == st.open[m]
           fr == st.frag
           v == IF st.ref # None THEN st.ref ELSE top.first
           fr2 == [fr EXCEPT ![top.me].ref = v]
           open2 == Front(st.open)
           st2 == ParseNext(st)
<1>1. /\ m \in Nat /\ m >= 1 /\ m \in DOMAIN st.open /\ top = Last(st.open) /\ top \in FrameType
      /\ DOMAIN st.open = 1..m
      /\ Len(fr) \in Nat /\ DOMAIN fr = 1..Len(fr) /\ Len(old) \in Nat
      /\ top.me \in (Len(old) + 1)..Len(fr) /\ top.me \in 1..Len(fr) /\ fr[top.me] \in FragType
      /\ Len(d[fr[top.me].file]) \in Nat /\ top.at \in Nat /\ top.at <= Len(d[fr[top.me].file])
  BY FrameIs DEF InFile
<1>2. IsState(st) /\ st.disk = d /\ st.err = FALSE /\ st.ref \in Fields \cup {None} /\ fr \in Seq(FragType)
  BY DEF Reading, NewFragments
<1>3. st2 = [st EXCEPT !.frag[top.me].ref = v, !.open = Front(@)]
  <2>1. ~(st.err \/ st.open = <<>>)
    BY <1>2
  <2>2. ~(top.at < Len(st.disk[st.frag[top.me].file]))
    BY <1>1, <1>2
  <2> HIDE DEF top
  <2> QED BY <1>1, <2>1, <2>2 DEF ParseNext
<1>4. /\ IsState(st2) /\ st2.disk = d /\ st2.err = FALSE /\ st2.home = st.home
      /\ st2.reference = st.reference /\ st2.ref = st.ref /\ st2.frag = fr2 /\ st2.open = open2
  <2> HIDE DEF v, top, st2
  <2> QED BY <1>2, <1>3 DEF IsState
<1>5. v \in Fields \cup {None}
  BY <1>1, <1>2 DEF FrameType
<1> HIDE DEF st2, v
<1>6. ASSUME NEW i \in 1..Len(fr)
      PROVE  /\ fr2[i] \in FragType /\ fr2[i].file = fr[i].file /\ fr2[i].parent = fr[i].parent
             /\ fr2[i].modified = fr[i].modified /\ (i # top.me => fr2[i] = fr[i])
  <2>1. fr[i] \in FragType
    BY <1>2
  <2>2. fr2[i] = IF i = top.me THEN [fr[i] EXCEPT !.ref = v] ELSE fr[i]
    BY <1>1
  <2> HIDE DEF fr2
  <2> QED BY <1>5, <2>1, <2>2 DEF FragType
<1>7. Like(fr, fr2)
  <2>1. fr2 = [i \in 1..Len(fr) |-> fr2[i]]
    BY <1>1
  <2> HIDE DEF fr2
  <2>2. fr2 \in [1..Len(fr) -> FragType]
    BY <1>6, <2>1
  <2>3. fr2 \in Seq(FragType) /\ Len(fr2) = Len(fr)
    BY <1>1, <2>2, SeqIs
  <2> QED BY <1>6, <2>3 DEF Like
<1>8. /\ open2 \in Seq(FrameType) /\ Len(open2) = m - 1
      /\ \A k \in 1..(m - 1) : k \in 1..m /\ open2[k] = st.open[k]
  <2>1. st.open \in Seq(FrameType)
    BY DEF Reading, OpenFiles
  <2> QED BY <1>1, <2>1 DEF Front
<1> HIDE DEF open2
<1>9. OpenFiles(d, Len(old), fr, open2)
  BY <1>8 DEF Reading, OpenFiles
<1>10. AllRead(d, Len(old), fr, st.home, open2)
  <2> SUFFICES ASSUME NEW i \in (Len(old) + 1)..Len(fr)
               PROVE  /\ \A k \in 1..Len(open2) :
                           open2[k].me = i => HasRead(d, fr, st.home, i, open2[k].at)
                      /\ (\A k \in 1..Len(open2) : open2[k].me # i) =>
                           HasRead(d, fr, st.home, i, Len(d[fr[i].file]))
    BY DEF AllRead, ReadThrough
  <2>1. /\ \A k \in 1..m : st.open[k].me = i => HasRead(d, fr, st.home, i, st.open[k].at)
        /\ (\A k \in 1..m : st.open[k].me # i) => HasRead(d, fr, st.home, i, Len(d[fr[i].file]))
    BY DEF Reading, AllRead, ReadThrough
  <2>2. CASE i = top.me
    <3>1. HasRead(d, fr, st.home, i, top.at)
      <4>1. m \in 1..m /\ st.open[m].me = i
        BY <1>1, <2>2
      <4> QED BY <2>1, <4>1
    <3>3. top.at = Len(d[fr[i].file])
      <4>1. ~(top.at < Len(d[fr[top.me].file]))
        BY <1>1
      <4> HIDE DEF top
      <4> QED BY <1>1, <2>2, <4>1
    <3>2. \A k \in 1..(m - 1) : st.open[k].me # i
      <4>1. \A k, l \in 1..m : st.open[k].me = st.open[l].me => k = l
        BY DEF Reading, OpenFiles
      <4>2. \A k \in 1..(m - 1) : k \in 1..m /\ k # m /\ m \in 1..m
        BY <1>1
      <4> QED BY <2>2, <4>1, <4>2
    <3> QED BY <1>8, <3>1, <3>3, <3>2
  <2>3. CASE i # top.me
    <3>1. ASSUME \A k \in 1..(m - 1) : open2[k].me # i PROVE \A k \in 1..m : st.open[k].me # i
      <4>1. \A k \in 1..m : k = m \/ k \in 1..(m - 1)
        BY <1>1
      <4> QED BY <1>8, <2>3, <3>1, <4>1
    <3> QED BY <1>8, <2>1, <3>1
  <2> QED BY <2>2, <2>3
<1>11. \A i \in 1..Len(fr) : /\ fr2[i].modified = fr[i].modified
                             /\ i <= Len(old) => fr2[i] = fr[i]
  <2>1. \A i \in 1..Len(fr) : i <= Len(old) => i # top.me
    BY <1>1
  <2> QED BY <1>6, <2>1
<1> HIDE DEF fr2
<1> QED BY <1>2, <1>4, <1>7, <1>9, <1>10, <1>11, ReadOther DEF st2

(* A line is read: what that does to the files that are open.                 *)
Advanced(open) == [open EXCEPT ![Len(open)].at = @ + 1]

AtLine(d, old, st) ==
  LET m == Len(st.open)
      top == st.open[m]
      line == d[st.frag[top.me].file][top.at + 1]
      st1 == [st EXCEPT !.open = Advanced(st.open)]
  IN /\ line \in FormatLines
     /\ ParseNext(st) = ParseLine(top.level, top.me, line, st1)
     /\ IsState(st1) /\ st1.disk = d /\ st1.frag = st.frag /\ st1.home = st.home
     /\ st1.reference = st.reference /\ st1.ref = st.ref /\ st1.err = FALSE
     /\ st1.open = Advanced(st.open)
     /\ OpenFiles(d, Len(old), st.frag, Advanced(st.open)) /\ Len(Advanced(st.open)) = m
     /\ \A k \in 1..m : /\ Advanced(st.open)[k].me = st.open[k].me
                        /\ Advanced(st.open)[k].at = IF k = m THEN top.at + 1 ELSE st.open[k].at

(* The innermost of the open files has a next line, and it is of these kinds. *)
Coming(d, st, kinds) ==
  LET top == Last(st.open)
      lines == d[st.frag[top.me].file]
  IN /\ st.open # <<>> /\ top.at < Len(lines)
     /\ lines[top.at + 1].is \in kinds

AtKind(d, st, kinds) ==
  LET top == st.open[Len(st.open)]
      lines == d[st.frag[top.me].file]
  IN /\ top = Last(st.open) /\ top.at < Len(lines)
     /\ lines[top.at + 1].is \in kinds

LEMMA LineRead ==
  ASSUME NEW d, NEW old, NEW g, NEW hm, Reader(d, old, g, hm),
         NEW st, Reading(d, old, g, hm, st), st.open # <<>>,
         Last(st.open).at < Len(d[st.frag[Last(st.open).me].file])
  PROVE  AtLine(d, old, st)
<1> DEFINE m == Len(st.open)
           top == st.open[m]
           lines == d[st.frag[top.me].file]
           line == lines[top.at + 1]
           st1 == [st EXCEPT !.open = Advanced(st.open)]
           open1 == Advanced(st.open)
<1>1. /\ m \in Nat /\ m >= 1 /\ m \in DOMAIN st.open /\ top = Last(st.open) /\ top \in FrameType
      /\ DOMAIN st.open = 1..m
      /\ lines \in Seq(FormatLines) /\ Len(lines) \in Nat /\ top.at \in Nat
  BY FrameIs DEF InFile
<1>2. IsState(st) /\ st.disk = d /\ st.err = FALSE /\ st.open \in Seq(FrameType)
  BY DEF Reading, OpenFiles
<1>3. line \in FormatLines /\ top.at < Len(lines)
  <2>1. top.at < Len(lines)
    BY <1>1
  <2> HIDE DEF lines
  <2>2. top.at + 1 \in 1..Len(lines)
    BY <1>1, <2>1
  <2> QED BY <1>1, <2>1, <2>2
<1>4. ParseNext(st) = ParseLine(top.level, top.me, line, st1)
  <2>1. ~(st.err \/ st.open = <<>>)
    BY <1>2
  <2>2. top.at < Len(st.disk[st.frag[top.me].file]) /\ st.disk = d
    BY <1>2, <1>3
  <2>3. [st EXCEPT !.open[Len(st.open)].at = @ + 1] = st1
    BY DEF Advanced
  <2> HIDE DEF st1
  <2> QED BY <1>1, <2>1, <2>2, <2>3 DEF ParseNext
<1>5. /\ IsState(st1) /\ st1.disk = d /\ st1.frag = st.frag /\ st1.home = st.home
      /\ st1.reference = st.reference /\ st1.ref = st.ref /\ st1.err = FALSE
      /\ st1.open = open1
  <2> HIDE DEF open1
  <2>1. st1 = [st EXCEPT !.open = open1]
    BY DEF open1
  <2> HIDE DEF st1
  <2> QED BY <1>2, <2>1 DEF IsState
<1>6. /\ open1 \in Seq(FrameType) /\ Len(open1) = m
      /\ \A k \in 1..m : /\ open1[k].me = st.open[k].me
                         /\ open1[k].at = IF k = m THEN top.at + 1 ELSE st.open[k].at
  <2>1. ASSUME NEW k \in 1..m
        PROVE  /\ open1[k] \in FrameType /\ open1[k].me = st.open[k].me
               /\ open1[k].at = IF k = m THEN top.at + 1 ELSE st.open[k].at
    <3>1. st.open[k] \in FrameType
      BY <1>1, <1>2
    <3>2. open1[k] = IF k = m THEN [st.open[k] EXCEPT !.at = @ + 1] ELSE st.open[k]
      BY <1>1 DEF Advanced
    <3> HIDE DEF open1
    <3>3. st.open[k].at \in Nat
      BY <3>1 DEF FrameType
    <3>4. CASE k = m
      <4>1. open1[k] = [st.open[k] EXCEPT !.at = st.open[k].at + 1]
        BY <3>2, <3>4
      <4>2. open1[k] \in FrameType /\ open1[k].me = st.open[k].me
            /\ open1[k].at = st.open[k].at + 1
        <5>1. \A f \in FrameType, a \in Nat :
                /\ [f EXCEPT !.at = a] \in FrameType
                /\ [f EXCEPT !.at = a].me = f.me /\ [f EXCEPT !.at = a].at = a
          BY DEF FrameType
        <5>2. st.open[k].at + 1 \in Nat
          BY <3>3
        <5> QED BY <3>1, <4>1, <5>1, <5>2
      <4> QED BY <3>4, <4>2
    <3>5. CASE k # m
      BY <3>1, <3>2, <3>5
    <3> QED BY <3>4, <3>5
  <2>2. DOMAIN open1 = 1..m /\ open1 = [k \in 1..m |-> open1[k]]
    BY <1>1 DEF Advanced
  <2> HIDE DEF open1
  <2>3. open1 \in [1..m -> FrameType]
    BY <2>1, <2>2
  <2>4. open1 \in Seq(FrameType) /\ Len(open1) = m
    BY <1>1, <2>3, SeqIs
  <2> QED BY <2>1, <2>4
<1> HIDE DEF open1
<1>7. OpenFiles(d, Len(old), st.frag, open1)
  <2>1. ASSUME NEW k \in 1..m
        PROVE  /\ open1[k].me \in (Len(old) + 1)..Len(st.frag)
               /\ open1[k].at <= Len(d[st.frag[open1[k].me].file])
    <3>1. /\ st.open[k].me \in (Len(old) + 1)..Len(st.frag)
          /\ st.open[k].at <= Len(d[st.frag[st.open[k].me].file])
      BY DEF Reading, OpenFiles
    <3>2. CASE k = m
      <4>1. open1[k].me = top.me /\ open1[k].at = top.at + 1
        BY <1>6, <3>2
      <4>2. top.at + 1 <= Len(d[st.frag[top.me].file])
        <5>1. top.at < Len(d[st.frag[top.me].file]) /\ Len(d[st.frag[top.me].file]) \in Nat /\ top.at \in Nat
          BY <1>1, <1>3
        <5> HIDE DEF top
        <5> QED BY <5>1
      <4>3. top.me \in (Len(old) + 1)..Len(st.frag)
        BY <3>1, <3>2
      <4> HIDE DEF top
      <4> QED BY <4>1, <4>2, <4>3
    <3>3. CASE k # m
      BY <1>6, <3>1, <3>3
    <3> QED BY <3>2, <3>3
  <2>2. \A k, l \in 1..m : open1[k].me = open1[l].me => k = l
    BY <1>6 DEF Reading, OpenFiles
  <2> QED BY <1>6, <2>1, <2>2 DEF OpenFiles
<1> HIDE DEF st1
<1> QED BY <1>3, <1>4, <1>5, <1>6, <1>7 DEF st1, open1, AtLine

LEMMA ComingIs ==
  ASSUME NEW d, NEW old, NEW g, NEW hm, Reader(d, old, g, hm),
         NEW st, Reading(d, old, g, hm, st), NEW kinds, Coming(d, st, kinds)
  PROVE  InFile(d, old, st) /\ AtLine(d, old, st) /\ AtKind(d, st, kinds)
<1>1. st.open # <<>> /\ Last(st.open).at < Len(d[st.frag[Last(st.open).me].file])
  BY DEF Coming
<1>2. InFile(d, old, st) /\ AtLine(d, old, st)
  BY <1>1, FrameIs, LineRead
<1>3. Last(st.open) = st.open[Len(st.open)]
  BY <1>2 DEF InFile
<1>4. AtKind(d, st, kinds)
  BY <1>3 DEF Coming, AtKind
<1> QED BY <1>2, <1>4

Halfway(d, old, g, hm, st) == IsState(st) /\ (st.err = TRUE \/ Reading(d, old, g, hm, st))

(* What was read of the other files stays as it is, if their fragments do.    *)
LEMMA ReadOn ==
  ASSUME NEW d, NEW old, NEW g, NEW hm, Reader(d, old, g, hm),
         NEW st, Reading(d, old, g, hm, st), NEW kinds, Coming(d, st, kinds),
         NEW fr2, NEW hm2,
         HasRead(d, fr2, hm2, Last(st.open).me, Last(st.open).at + 1),
         \A i \in (Len(old) + 1)..Len(st.frag) :
           /\ fr2[i].file = st.frag[i].file
           /\ i # Last(st.open).me =>
                \A r : HasRead(d, st.frag, st.home, i, r) => HasRead(d, fr2, hm2, i, r),
         NEW open2, Len(open2) = Len(st.open),
         \A k \in 1..Len(open2) : /\ open2[k].me = Advanced(st.open)[k].me
                                  /\ open2[k].at = Advanced(st.open)[k].at
  PROVE  ReadThrough(d, Len(old), Len(st.frag), fr2, hm2, open2)
<1> DEFINE m == Len(st.open)
           top == st.open[m]
<1>1. m \in Nat /\ m >= 1 /\ m \in 1..m /\ top = Last(st.open) /\ top.at \in Nat
  <2>1. InFile(d, old, st)
    BY ComingIs
  <2> QED BY <2>1 DEF InFile
<1>2. \A k \in 1..m : /\ open2[k].me = st.open[k].me
                      /\ open2[k].at = IF k = m THEN top.at + 1 ELSE st.open[k].at
  <2>1. AtLine(d, old, st)
    BY ComingIs
  <2>2. \A k \in 1..m : /\ Advanced(st.open)[k].me = st.open[k].me
                        /\ Advanced(st.open)[k].at = IF k = m THEN top.at + 1 ELSE st.open[k].at
    BY <2>1 DEF AtLine
  <2> QED BY <2>2
<1>3. \A k \in 1..m : st.open[k].me = top.me => k = m
  BY <1>1 DEF Reading, OpenFiles
<1> SUFFICES ASSUME NEW i \in (Len(old) + 1)..Len(st.frag)
             PROVE  /\ \A k \in 1..m : open2[k].me = i => HasRead(d, fr2, hm2, i, open2[k].at)
                    /\ (\A k \in 1..m : open2[k].me # i) => HasRead(d, fr2, hm2, i, Len(d[fr2[i].file]))
  BY DEF ReadThrough
<1>4. /\ \A k \in 1..m : st.open[k].me = i => HasRead(d, st.frag, st.home, i, st.open[k].at)
      /\ (\A k \in 1..m : st.open[k].me # i) =>
           HasRead(d, st.frag, st.home, i, Len(d[st.frag[i].file]))
  BY DEF Reading, AllRead, ReadThrough
<1> HIDE DEF top
<1>5. CASE i = top.me
  <2>1. HasRead(d, fr2, hm2, i, top.at + 1)
    BY <1>1, <1>5
  <2>2. open2[m].me = i
    BY <1>1, <1>2, <1>5 DEF top
  <2>3. \A k \in 1..m : open2[k].me = i => open2[k].at = top.at + 1
    BY <1>2, <1>3, <1>5
  <2> QED BY <1>1, <2>1, <2>2, <2>3
<1>6. CASE i # top.me
  <2>1. \A r : HasRead(d, st.frag, st.home, i, r) => HasRead(d, fr2, hm2, i, r)
    BY <1>1, <1>6
  <2>2. \A k \in 1..m : open2[k].me = i => k # m /\ open2[k].at = st.open[k].at
    BY <1>2, <1>6 DEF top
  <2>3. fr2[i].file = st.frag[i].file
    OBVIOUS
  <2> QED BY <1>2, <1>4, <2>1, <2>2, <2>3
<1> QED BY <1>5, <1>6

(* A line that is neither a field nor an include.                             *)
LEMMA PassRead ==
  ASSUME NEW d, NEW old, NEW g, NEW hm, Reader(d, old, g, hm),
         NEW st, Reading(d, old, g, hm, st), Coming(d, st, {"protect", "reference"})
  PROVE  AllRead(d, Len(old), st.frag, st.home, Advanced(st.open))
<1> DEFINE top == Last(st.open)
           lines == d[st.frag[top.me].file]
<1>1. /\ lines \in Seq(FormatLines) /\ top.at \in Nat /\ top.at < Len(lines)
      /\ top.me \in (Len(old) + 1)..Len(st.frag)
      /\ Len(st.open) \in 1..Len(st.open) /\ top = st.open[Len(st.open)]
      /\ lines[top.at + 1].is \in {"protect", "reference"}
  <2>1. InFile(d, old, st) /\ AtKind(d, st, {"protect", "reference"})
    BY ComingIs
  <2> QED BY <2>1 DEF InFile, AtKind
<1>2. HasRead(d, st.frag, st.home, top.me, top.at)
  BY <1>1 DEF Reading, AllRead, ReadThrough
<1>3. /\ ReadOf(lines, top.at + 1, "field") = ReadOf(lines, top.at, "field")
      /\ ReadOf(lines, top.at + 1, "include") = ReadOf(lines, top.at, "include")
  <2>1. lines[top.at + 1].is \notin {"field", "include"}
    BY <1>1
  <2> HIDE DEF top, lines
  <2> QED BY <1>1, <2>1, ReadMore
<1>4. HasRead(d, st.frag, st.home, top.me, top.at + 1)
  BY <1>2, <1>3 DEF HasRead
<1>5. Len(Advanced(st.open)) = Len(st.open)
  <2>1. AtLine(d, old, st)
    BY ComingIs
  <2> QED BY <2>1 DEF AtLine
<1> DEFINE open1 == Advanced(st.open)
<1> HIDE DEF open1, lines, top
<1>6. ReadThrough(d, Len(old), Len(st.frag), st.frag, st.home, open1)
  BY <1>4, <1>5, ReadOn DEF open1, top
<1> QED BY <1>6 DEF AllRead, open1

LEMMA ReadPass ==
  ASSUME NEW d, NEW old, NEW g, NEW hm, Reader(d, old, g, hm),
         NEW st, Reading(d, old, g, hm, st), Coming(d, st, {"protect", "reference"})
  PROVE  Reading(d, old, g, hm, ParseNext(st))
<1> DEFINE m == Len(st.open)
           top == st.open[m]
           fr == st.frag
           line == d[fr[top.me].file][top.at + 1]
           st1 == [st EXCEPT !.open = Advanced(st.open)]
           st2 == ParseNext(st)
           fr2 == [fr EXCEPT ![top.me].prot = line.of]
<1>1. /\ m \in Nat /\ top = Last(st.open) /\ fr \in Seq(FragType)
      /\ Len(fr) \in Nat /\ DOMAIN fr = 1..Len(fr) /\ Len(old) \in Nat
      /\ top.me \in (Len(old) + 1)..Len(fr) /\ top.me \in 1..Len(fr) /\ fr[top.me] \in FragType
  <2>1. InFile(d, old, st)
    BY ComingIs
  <2> QED BY <2>1 DEF InFile, Reading, NewFragments
<1>2. /\ line \in FormatLines
      /\ st2 = ParseLine(top.level, top.me, line, st1)
      /\ IsState(st1) /\ st1.disk = d /\ st1.frag = st.frag /\ st1.home = st.home
      /\ st1.reference = st.reference /\ st1.ref = st.ref /\ st1.err = FALSE
      /\ st1.open = Advanced(st.open)
      /\ OpenFiles(d, Len(old), st.frag, st1.open)
  <2>1. AtLine(d, old, st)
    BY ComingIs
  <2> QED BY <2>1 DEF AtLine
<1>3. st.ref \in Fields \cup {None} /\ line.is \in {"protect", "reference"}
  <2>1. AtKind(d, st, {"protect", "reference"})
    BY ComingIs
  <2> QED BY <2>1 DEF AtKind, Reading
<1>4. AllRead(d, Len(old), st.frag, st.home, st1.open)
  BY <1>2, PassRead
<1> HIDE DEF st1, st2, line, top
<1>5. CASE line.is = "protect"
  <2>1. st2 = [st1 EXCEPT !.frag[top.me].prot = line.of]
    BY <1>2, <1>5 DEF ParseLine
  <2>2. /\ IsState(st2) /\ st2.disk = d /\ st2.err = FALSE /\ st2.home = st.home
        /\ st2.reference = st.reference /\ st2.ref = st.ref /\ st2.frag = fr2
        /\ st2.open = st1.open
    BY <1>2, <2>1 DEF IsState
  <2>3. line.of \in ProtLevels
    BY <1>2, <1>5, LineIs
  <2>4. ASSUME NEW i \in 1..Len(fr)
        PROVE  /\ fr2[i] \in FragType /\ fr2[i].file = fr[i].file /\ fr2[i].parent = fr[i].parent
               /\ fr2[i].modified = fr[i].modified /\ (i # top.me => fr2[i] = fr[i])
    <3>1. fr[i] \in FragType
      BY <1>1
    <3>2. fr2[i] = IF i = top.me THEN [fr[i] EXCEPT !.prot = line.of] ELSE fr[i]
      BY <1>1
    <3> HIDE DEF fr2
    <3> QED BY <2>3, <3>1, <3>2 DEF FragType
  <2>5. Like(fr, fr2)
    <3>1. fr2 = [i \in 1..Len(fr) |-> fr2[i]]
      BY <1>1
    <3> HIDE DEF fr2
    <3>2. fr2 \in [1..Len(fr) -> FragType]
      BY <2>4, <3>1
    <3>3. fr2 \in Seq(FragType) /\ Len(fr2) = Len(fr)
      BY <1>1, <3>2, SeqIs
    <3> QED BY <2>4, <3>3 DEF Like
  <2>6. \A i \in 1..Len(fr) : /\ fr2[i].modified = fr[i].modified
                              /\ i <= Len(old) => fr2[i] = fr[i]
    <3>1. \A i \in 1..Len(fr) : i <= Len(old) => i # top.me
      BY <1>1
    <3> QED BY <2>4, <3>1
  <2> HIDE DEF fr2
  <2>7. Reading(d, old, g, hm, st2)
    BY <1>2, <1>3, <1>4, <2>2, <2>5, <2>6, ReadOther
  <2> QED BY <2>7 DEF st2
<1>6. CASE line.is = "reference"
  <2>1. st2 = [st1 EXCEPT !.ref = line.of]
    BY <1>2, <1>6 DEF ParseLine
  <2>2. /\ IsState(st2) /\ st2.disk = d /\ st2.err = FALSE /\ st2.home = st.home
        /\ st2.reference = st.reference /\ st2.ref = line.of /\ st2.frag = fr
        /\ st2.open = st1.open
    BY <1>2, <2>1 DEF IsState
  <2>3. line.of \in Fields
    BY <1>2, <1>6, LineIs
  <2>4. Like(fr, fr)
    BY <1>1 DEF Like
  <2>5. Reading(d, old, g, hm, st2)
    BY <1>2, <1>3, <1>4, <2>2, <2>3, <2>4, ReadOther
  <2> QED BY <2>5 DEF st2
<1> QED BY <1>3, <1>5, <1>6
LEMMA OpenSame ==
  ASSUME NEW d, NEW b, NEW fr, NEW open, OpenFiles(d, b, fr, open),
         NEW open2 \in Seq(FrameType), Len(open2) = Len(open),
         \A k \in 1..Len(open) : open2[k].me = open[k].me /\ open2[k].at = open[k].at
  PROVE  OpenFiles(d, b, fr, open2)
BY DEF OpenFiles

LEMMA ReadField ==
  ASSUME NEW d, NEW old, NEW g, NEW hm, Reader(d, old, g, hm),
         NEW st, Reading(d, old, g, hm, st), Coming(d, st, {"field"})
  PROVE  Halfway(d, old, g, hm, ParseNext(st))
<1> DEFINE m == Len(st.open)
           top == st.open[m]
           fr == st.frag
           lines == d[fr[top.me].file]
           line == lines[top.at + 1]
           x == line.of
           st1 == [st EXCEPT !.open = Advanced(st.open)]
           st2 == ParseNext(st)
           chosen == x \in Raws /\ st1.reference = None /\ st1.frag[1].ref = None
           first2 == IF x \in Raws THEN x ELSE None
           open1 == Advanced(st.open)
           open2 == [open1 EXCEPT ![m].first = first2]
           hm2 == [st.home EXCEPT ![x] = top.me]
<1>1. /\ m \in Nat /\ m \in 1..m /\ top = Last(st.open) /\ fr \in Seq(FragType)
      /\ Len(fr) \in Nat /\ DOMAIN fr = 1..Len(fr) /\ Len(old) \in Nat
      /\ top.me \in (Len(old) + 1)..Len(fr) /\ top.me \in 1..Len(fr)
      /\ lines \in Seq(FormatLines) /\ top.at \in Nat
  <2>1. InFile(d, old, st)
    BY ComingIs
  <2> QED BY <2>1 DEF InFile, Reading, NewFragments
<1>2. /\ line \in FormatLines
      /\ st2 = ParseLine(top.level, top.me, line, st1)
      /\ IsState(st1) /\ st1.disk = d /\ st1.frag = st.frag /\ st1.home = st.home
      /\ st1.reference = st.reference /\ st1.ref = st.ref /\ st1.err = FALSE
      /\ st1.open = open1
      /\ OpenFiles(d, Len(old), st.frag, open1) /\ Len(open1) = m
      /\ \A k \in 1..m : /\ open1[k].me = st.open[k].me
                         /\ open1[k].at = IF k = m THEN top.at + 1 ELSE st.open[k].at
  <2>1. AtLine(d, old, st)
    BY ComingIs
  <2> QED BY <2>1 DEF AtLine
<1>3. line.is = "field" /\ top.at < Len(lines)
  <2>1. AtKind(d, st, {"field"})
    BY ComingIs
  <2> QED BY <2>1 DEF AtKind
<1>4. x \in Fields
  BY <1>2, <1>3, LineIs
<1>5. /\ st.reference \in Raws \cup {None} /\ st.ref \in Fields \cup {None}
      /\ NewFragments(d, old, g, fr) /\ NewHomes(Len(old), hm, Len(fr), st.home)
      /\ HasRead(d, fr, st.home, top.me, top.at)
  BY <1>1 DEF Reading, AllRead, ReadThrough
<1> HIDE DEF st1, st2, line, open1
<1>6. st2 = ParseFieldSpec(top.me, x, st1)
  BY <1>2, <1>3 DEF ParseLine
<1>7. CASE st.home[x] # 0
  <2>1. st2 = [st1 EXCEPT !.err = TRUE, !.reference = IF chosen THEN Freed ELSE @]
    BY <1>2, <1>6, <1>7 DEF ParseFieldSpec
  <2>2. IsState(st2) /\ st2.err = TRUE
    BY <1>2, <2>1 DEF IsState
  <2> QED BY <2>2 DEF Halfway, st2
<1>8. CASE st.home[x] = 0
  <2>1. st2 = [st1 EXCEPT !.home[x] = top.me, !.reference = IF chosen THEN x ELSE @,
                          !.open[Len(st1.open)].first = first2]
    BY <1>2, <1>6, <1>8 DEF ParseFieldSpec
  <2>2. /\ IsState(st2) /\ st2.disk = d /\ st2.err = FALSE /\ st2.home = hm2
        /\ st2.reference \in {st.reference} \cup (IF x \in Raws THEN {x} ELSE {})
        /\ st2.ref = st.ref /\ st2.frag = fr
        /\ st2.open = open2
    <3> HIDE DEF top, chosen, first2
    <3>1. /\ IsState(st2) /\ st2.disk = d /\ st2.err = FALSE /\ st2.ref = st.ref /\ st2.frag = fr
          /\ st2.home = [st1.home EXCEPT ![x] = top.me]
          /\ st2.open = [st1.open EXCEPT ![Len(st1.open)].first = first2]
          /\ st2.reference = IF chosen THEN x ELSE st1.reference
      BY <1>2, <2>1 DEF IsState
    <3> QED BY <1>2, <3>1 DEF chosen
  <2>3. /\ open2 \in Seq(FrameType) /\ Len(open2) = m
        /\ \A k \in 1..m : open2[k].me = open1[k].me /\ open2[k].at = open1[k].at
    <3>1. open1 \in Seq(FrameType) /\ DOMAIN open1 = 1..m
      BY <1>1, <1>2 DEF OpenFiles
    <3>2. first2 \in Fields \cup {None}
      BY <1>4
    <3> HIDE DEF first2
    <3>3. ASSUME NEW k \in 1..m
          PROVE  open2[k] \in FrameType /\ open2[k].me = open1[k].me /\ open2[k].at = open1[k].at
      <4>1. open1[k] \in FrameType
        BY <3>1
      <4>2. open2[k] = IF k = m THEN [open1[k] EXCEPT !.first = first2] ELSE open1[k]
        BY <3>1
      <4> HIDE DEF open2
      <4> QED BY <3>2, <4>1, <4>2 DEF FrameType
    <3>4. open2 = [k \in 1..m |-> open2[k]]
      BY <3>1
    <3> HIDE DEF open2
    <3>5. open2 \in [1..m -> FrameType]
      BY <3>3, <3>4
    <3> QED BY <1>1, <3>3, <3>5, SeqIs
  <2> HIDE DEF open2, first2
  <2>4. OpenFiles(d, Len(old), fr, open2)
    <3>1. OpenFiles(d, Len(old), fr, open1) /\ Len(open1) = m
      BY <1>2
    <3> QED BY <2>3, <3>1, OpenSame
  <2>5. /\ hm2 \in [Fields -> 0..Len(fr)] /\ NewHomes(Len(old), hm, Len(fr), hm2)
        /\ {y \in Fields : hm2[y] = top.me} = {y \in Fields : st.home[y] = top.me} \cup {x}
        /\ \A i \in 1..Len(fr) : i # top.me =>
             {y \in Fields : hm2[y] = i} = {y \in Fields : st.home[y] = i}
    <3>1. st.home \in [Fields -> 0..Len(fr)]
      BY <1>5 DEF NewHomes
    <3> HIDE DEF top
    <3>2. hm2 \in [Fields -> 0..Len(fr)] /\ \A y \in Fields : hm2[y] = IF y = x THEN top.me ELSE st.home[y]
      BY <1>1, <1>4, <3>1
    <3> HIDE DEF hm2
    <3>3. NewHomes(Len(old), hm, Len(fr), hm2)
      <4>1. hm[x] = 0 /\ top.me > Len(old)
        BY <1>1, <1>4, <1>5, <1>8 DEF NewHomes
      <4> QED BY <1>4, <1>5, <3>2, <4>1 DEF NewHomes
    <3>4. {y \in Fields : hm2[y] = top.me} = {y \in Fields : st.home[y] = top.me} \cup {x}
      BY <1>4, <3>2
    <3>5. \A i \in 1..Len(fr) : i # top.me =>
             {y \in Fields : hm2[y] = i} = {y \in Fields : st.home[y] = i}
      BY <1>1, <1>8, <3>2
    <3> QED BY <3>2, <3>3, <3>4, <3>5
  <2> HIDE DEF hm2
  <2>6. HasRead(d, fr, hm2, top.me, top.at + 1)
    <3>1. /\ ReadOf(lines, top.at + 1, "field") = ReadOf(lines, top.at, "field") \cup {x}
          /\ ReadOf(lines, top.at + 1, "include") = ReadOf(lines, top.at, "include")
      <4>1. lines[top.at + 1].is = "field" /\ lines[top.at + 1].of = x
        BY <1>3 DEF line
      <4>2. lines \in Seq(FormatLines) /\ top.at \in Nat /\ top.at < Len(lines)
        BY <1>1, <1>3
      <4> HIDE DEF top, lines, x
      <4>3. ReadOf(lines, top.at + 1, "field") = ReadOf(lines, top.at, "field") \cup {x}
        BY <4>1, <4>2, ReadMore
      <4>4. "field" # "include"
        OBVIOUS
      <4>5. ReadOf(lines, top.at + 1, "include") = ReadOf(lines, top.at, "include")
        BY <4>1, <4>2, <4>4, ReadMore
      <4> QED BY <4>3, <4>5
    <3> QED BY <1>5, <2>5, <3>1 DEF HasRead
  <2>7. ASSUME NEW i \in (Len(old) + 1)..Len(fr), i # top.me, NEW r, HasRead(d, fr, st.home, i, r)
        PROVE  HasRead(d, fr, hm2, i, r)
    <3>1. i \in 1..Len(fr)
      BY <1>1
    <3> QED BY <2>5, <2>7, <3>1 DEF HasRead
  <2>8. ReadThrough(d, Len(old), Len(fr), fr, hm2, open2)
    <3> HIDE DEF top
    <3>1. top = Last(st.open)
      BY <1>1
    <3>2. \A k \in 1..Len(open2) : /\ open2[k].me = Advanced(st.open)[k].me
                                   /\ open2[k].at = Advanced(st.open)[k].at
      BY <2>3 DEF open1
    <3>3. Len(open2) = Len(st.open)
      BY <2>3
    <3> QED BY <2>6, <2>7, <3>1, <3>2, <3>3, ReadOn
  <2>9. st2.reference \in Raws \cup {None}
    BY <1>5, <2>2
  <2>10. Reading(d, old, g, hm, st2)
    BY <1>5, <2>2, <2>4, <2>5, <2>8, <2>9 DEF Reading, AllRead
  <2> QED BY <2>10 DEF Halfway, Reading, st2
<1> QED BY <1>7, <1>8

LEMMA ReadInclude ==
  ASSUME NEW d, NEW old, NEW g, NEW hm, Reader(d, old, g, hm),
         NEW st, Reading(d, old, g, hm, st), Coming(d, st, {"include"})
  PROVE  Halfway(d, old, g, hm, ParseNext(st))
<1> DEFINE m == Len(st.open)
           top == st.open[m]
           fr == st.frag
           n == Len(fr)
           lines == d[fr[top.me].file]
           line == lines[top.at + 1]
           file == line.of
           st1 == [st EXCEPT !.open = Advanced(st.open)]
           st2 == ParseNext(st)
           open1 == Advanced(st.open)
           new == FragmentOf(file, top.me)
           fr2 == Append(fr, new)
           frame == Frame(n + 1, top.level + 1)
           open2 == Append(open1, frame)
<1>1. /\ m \in Nat /\ m \in 1..m /\ top = Last(st.open) /\ top \in FrameType /\ fr \in Seq(FragType)
      /\ n \in Nat /\ DOMAIN fr = 1..n /\ Len(old) \in Nat
      /\ top.me \in (Len(old) + 1)..n /\ top.me \in 1..n /\ fr[top.me] \in FragType
      /\ lines \in Seq(FormatLines) /\ top.at \in Nat
  <2>1. InFile(d, old, st)
    BY ComingIs
  <2> QED BY <2>1 DEF InFile, Reading, NewFragments
<1>2. /\ line \in FormatLines
      /\ st2 = ParseLine(top.level, top.me, line, st1)
      /\ IsState(st1) /\ st1.disk = d /\ st1.frag = st.frag /\ st1.home = st.home
      /\ st1.reference = st.reference /\ st1.ref = st.ref /\ st1.err = FALSE
      /\ st1.open = open1
      /\ OpenFiles(d, Len(old), st.frag, open1) /\ Len(open1) = m
      /\ \A k \in 1..m : /\ open1[k].me = st.open[k].me
                         /\ open1[k].at = IF k = m THEN top.at + 1 ELSE st.open[k].at
  <2>1. AtLine(d, old, st)
    BY ComingIs
  <2> QED BY <2>1 DEF AtLine
<1>3. line.is = "include" /\ top.at < Len(lines)
  <2>1. AtKind(d, st, {"include"})
    BY ComingIs
  <2> QED BY <2>1 DEF AtKind
<1>4. file \in Files /\ top.level + 1 \in Nat
  <2>1. file \in Files
    BY <1>2, <1>3, LineIs
  <2>2. top.level \in Nat
    BY <1>1 DEF FrameType
  <2>3. top.level + 1 \in Nat
    BY <2>2
  <2> HIDE DEF file, top
  <2> QED BY <2>1, <2>3
<1>5. /\ st.reference \in Raws \cup {None}
      /\ NewFragments(d, old, g, fr) /\ NewHomes(Len(old), hm, n, st.home)
      /\ HasRead(d, fr, st.home, top.me, top.at)
  BY <1>1 DEF Reading, AllRead, ReadThrough
<1> HIDE DEF st1, st2, line, open1
<1>6. st2 = IncludeFile(top.level + 1, top.me, file, st1)
  BY <1>2, <1>3 DEF ParseLine
<1>7. CASE top.level + 1 >= MaxLevel \/ file \notin DOMAIN d
  <2>1. st2 = [st1 EXCEPT !.err = TRUE]
    BY <1>2, <1>6, <1>7 DEF IncludeFile
  <2>2. IsState(st2) /\ st2.err = TRUE
    BY <1>2, <2>1 DEF IsState
  <2> QED BY <2>2 DEF Halfway, st2
<1>8. CASE ~(top.level + 1 >= MaxLevel) /\ file \in DOMAIN d
  <2>1. st2 = [st1 EXCEPT !.frag = Append(@, new), !.ref = None,
                          !.open = Append(@, Frame(Len(st1.frag) + 1, top.level + 1))]
    BY <1>2, <1>6, <1>8 DEF IncludeFile
  <2>2. /\ IsState(st2) /\ st2.disk = d /\ st2.err = FALSE /\ st2.home = st.home
        /\ st2.reference = st.reference /\ st2.ref = None /\ st2.frag = fr2
        /\ st2.open = open2
    <3> HIDE DEF top, new
    <3> QED BY <1>2, <2>1 DEF IsState
  <2>3. /\ new \in FragType /\ new.file = file /\ new.parent = top.me /\ ~new.modified
    BY <1>1, <1>4 DEF FragmentOf, FragType, ProtLevels
  <2>4. frame \in FrameType /\ frame.me = n + 1 /\ frame.at = 0
    BY <1>1, <1>4 DEF Frame, FrameType
  <2> HIDE DEF new, frame
  <2>5. /\ fr2 \in Seq(FragType) /\ Len(fr2) = n + 1 /\ fr2[n + 1] = new
        /\ \A i \in 1..n : fr2[i] = fr[i]
    BY <1>1, <2>3
  <2>6. /\ open2 \in Seq(FrameType) /\ Len(open2) = m + 1 /\ open2[m + 1] = frame
        /\ \A k \in 1..m : open2[k] = open1[k]
    <3>1. open1 \in Seq(FrameType)
      BY <1>2 DEF OpenFiles
    <3> QED BY <1>1, <1>2, <2>4, <3>1
  <2>7. \A i \in 1..n : fr[i].parent \in 0..n
    <3> SUFFICES ASSUME NEW i \in 1..n PROVE fr[i].parent \in 0..n
      OBVIOUS
    <3>1. CASE i <= Len(old)
      <4>1. i \in 1..Len(old)
        BY <1>1, <3>1
      <4>2. fr[i] = old[i] /\ Len(old) < n
        BY <1>1, <1>5, <4>1 DEF NewFragments
      <4>3. old[i].parent \in 0..Len(old)
        BY <4>1 DEF Reader
      <4>4. 0..Len(old) \subseteq 0..n
        BY <1>1, <4>2
      <4> QED BY <4>2, <4>3, <4>4
    <3>2. CASE i > Len(old)
      <4>1. i \in (Len(old) + 1)..n
        BY <1>1, <3>2
      <4>2. IF i = Len(old) + 1 THEN fr[i].parent = g.parent /\ fr[i].file = g.file
            ELSE fr[i].parent > Len(old) /\ fr[i].parent < i
        BY <1>5, <4>1 DEF NewFragments
      <4>3. g.parent \in 0..Len(old) /\ fr[i].parent \in Nat
        <5>1. fr[i] \in FragType
          BY <1>1
        <5> QED BY <5>1 DEF Reader, FragType
      <4> QED BY <1>1, <4>1, <4>2, <4>3
    <3> QED BY <1>1, <3>1, <3>2
  <2>8. NewFragments(d, old, g, fr2)
    <3>1. n > Len(old)
      BY <1>5 DEF NewFragments
    <3>2. \A i \in 1..Len(old) : fr2[i] = old[i]
      <4>1. \A i \in 1..Len(old) : i \in 1..n
        BY <1>1, <3>1
      <4> QED BY <1>5, <2>5, <4>1 DEF NewFragments
    <3>3. ASSUME NEW i \in (Len(old) + 1)..(n + 1)
          PROVE  /\ fr2[i].file \in DOMAIN d /\ ~fr2[i].modified
                 /\ IF i = Len(old) + 1 THEN fr2[i].parent = g.parent /\ fr2[i].file = g.file
                    ELSE fr2[i].parent > Len(old) /\ fr2[i].parent < i
      <4>1. CASE i = n + 1
        <5>1. i # Len(old) + 1 /\ top.me > Len(old) /\ top.me < i
          BY <1>1, <3>1, <4>1
        <5> QED BY <1>8, <2>3, <2>5, <4>1, <5>1
      <4>2. CASE i # n + 1
        <5>1. i \in (Len(old) + 1)..n /\ i \in 1..n
          <6>1. n \in Nat /\ Len(old) \in Nat
            BY <1>1
          <6> HIDE DEF n
          <6> QED BY <4>2, <6>1
        <5> QED BY <1>5, <2>5, <5>1 DEF NewFragments
      <4> QED BY <4>1, <4>2
    <3>4. Len(fr2) > Len(old)
      BY <1>1, <2>5, <3>1
    <3> HIDE DEF fr2
    <3> QED BY <2>5, <3>2, <3>3, <3>4 DEF NewFragments
  <2> HIDE DEF fr2, open2
  <2>9. NewHomes(Len(old), hm, n + 1, st.home)
    BY <1>1, <1>5 DEF NewHomes
  <2>10. OpenFiles(d, Len(old), fr2, open2)
    <3>1. ASSUME NEW k \in 1..(m + 1)
          PROVE  /\ open2[k].me \in (Len(old) + 1)..(n + 1)
                 /\ open2[k].at <= Len(d[fr2[open2[k].me].file])
                 /\ k # m + 1 => open2[k].me = open1[k].me /\ open2[k].me # n + 1 /\ k \in 1..m
      <4>1. CASE k = m + 1
        <5>1. open2[k].me = n + 1 /\ open2[k].at = 0 /\ fr2[n + 1].file = file
          BY <2>3, <2>4, <2>5, <2>6, <4>1
        <5>2. Len(d[file]) \in Nat
          BY <1>8 DEF Reader, Formats
        <5> QED BY <1>1, <4>1, <5>1, <5>2
      <4>2. CASE k # m + 1
        <5>1. k \in 1..m
          BY <1>1, <4>2
        <5>2. open2[k] = open1[k]
          BY <2>6, <5>1
        <5>3. open1[k].me \in (Len(old) + 1)..n /\ open1[k].at <= Len(d[fr[open1[k].me].file])
          BY <1>2, <5>1 DEF OpenFiles
        <5>4. open1[k].me \in 1..n /\ open1[k].me # n + 1 /\ open1[k].me \in (Len(old) + 1)..(n + 1)
          BY <1>1, <5>3
        <5> QED BY <2>5, <5>1, <5>2, <5>3, <5>4
      <4> QED BY <4>1, <4>2
    <3>2. ASSUME NEW k \in 1..(m + 1), NEW l \in 1..(m + 1), open2[k].me = open2[l].me PROVE k = l
      <4>1. open2[m + 1].me = n + 1
        BY <2>4, <2>6
      <4>2. CASE k = m + 1 \/ l = m + 1
        BY <3>1, <3>2, <4>1, <4>2
      <4>3. CASE k # m + 1 /\ l # m + 1
        <5>1. k \in 1..m /\ l \in 1..m /\ open1[k].me = open1[l].me
          BY <3>1, <3>2, <4>3
        <5> QED BY <1>2, <5>1 DEF OpenFiles
      <4> QED BY <4>2, <4>3
    <3> QED BY <2>5, <2>6, <3>1, <3>2 DEF OpenFiles
  <2>11. /\ IncludedIn(fr2, top.me) = IncludedIn(fr, top.me) \cup {file}
         /\ \A i : i # top.me => IncludedIn(fr2, i) = IncludedIn(fr, i)
    <3>1. \A i : /\ new.parent # i => IncludedIn(Append(fr, new), i) = IncludedIn(fr, i)
                 /\ new.parent = i => IncludedIn(Append(fr, new), i) = IncludedIn(fr, i) \cup {new.file}
      BY <1>1, <2>3, IncludedAppend
    <3> QED BY <2>3, <3>1 DEF fr2
  <2>12. HasRead(d, fr2, st.home, top.me, top.at + 1)
    <3>1. /\ ReadOf(lines, top.at + 1, "include") = ReadOf(lines, top.at, "include") \cup {file}
          /\ ReadOf(lines, top.at + 1, "field") = ReadOf(lines, top.at, "field")
      <4>1. lines[top.at + 1].is = "include" /\ lines[top.at + 1].of = file
        BY <1>3 DEF line
      <4>2. lines \in Seq(FormatLines) /\ top.at \in Nat /\ top.at < Len(lines)
        BY <1>1, <1>3
      <4> HIDE DEF top, lines, file
      <4>3. ReadOf(lines, top.at + 1, "include") = ReadOf(lines, top.at, "include") \cup {file}
        BY <4>1, <4>2, ReadMore
      <4>4. "include" # "field"
        OBVIOUS
      <4>5. ReadOf(lines, top.at + 1, "field") = ReadOf(lines, top.at, "field")
        BY <4>1, <4>2, <4>4, ReadMore
      <4> QED BY <4>3, <4>5
    <3>2. fr2[top.me].file = fr[top.me].file
      BY <1>1, <2>5
    <3> QED BY <1>5, <2>11, <3>1, <3>2 DEF HasRead
  <2>13. ASSUME NEW i \in (Len(old) + 1)..n
         PROVE  /\ fr2[i].file = fr[i].file
                /\ i # top.me => \A r : HasRead(d, fr, st.home, i, r) => HasRead(d, fr2, st.home, i, r)
    <3>1. i \in 1..n
      BY <1>1
    <3>2. fr2[i].file = fr[i].file
      BY <2>5, <3>1
    <3> QED BY <2>11, <3>2 DEF HasRead
  <2>14. ReadThrough(d, Len(old), n, fr2, st.home, open1)
    <3> HIDE DEF top, n
    <3>1. top = Last(st.open) /\ n = Len(st.frag)
      BY <1>1 DEF n
    <3>2. \A k \in 1..Len(open1) : /\ open1[k].me = Advanced(st.open)[k].me
                                   /\ open1[k].at = Advanced(st.open)[k].at
      BY DEF open1
    <3>3. Len(open1) = Len(st.open)
      BY <1>2
    <3> QED BY <2>12, <2>13, <3>1, <3>2, <3>3, ReadOn
  <2>15. HasRead(d, fr2, st.home, n + 1, 0)
    <3>1. {x \in Fields : st.home[x] = n + 1} = {}
      BY <1>1, <1>5 DEF NewHomes
    <3>2. IncludedIn(fr2, n + 1) = {}
      <4>1. \A j \in 1..n : fr[j].parent # n + 1
        <5>1. n \in Nat
          BY <1>1
        <5> HIDE DEF n, fr
        <5> QED BY <2>7, <5>1
      <4>2. IncludedIn(fr, n + 1) = {}
        BY <1>1, <4>1 DEF IncludedIn
      <4>3. n + 1 # top.me
        BY <1>1
      <4> QED BY <2>11, <4>2, <4>3
    <3> QED BY <3>1, <3>2, ReadNone DEF HasRead
  <2>16. ASSUME NEW i \in (Len(old) + 1)..(n + 1)
         PROVE  /\ \A k \in 1..(m + 1) : open2[k].me = i => HasRead(d, fr2, st.home, i, open2[k].at)
                /\ (\A k \in 1..(m + 1) : open2[k].me # i) => HasRead(d, fr2, st.home, i, Len(d[fr2[i].file]))
    <3>1. open2[m + 1].me = n + 1 /\ open2[m + 1].at = 0 /\ m + 1 \in 1..(m + 1)
      BY <1>1, <2>4, <2>6
    <3>2. \A k \in 1..(m + 1) : k # m + 1 => k \in 1..m /\ open2[k] = open1[k]
      <4>1. \A k \in 1..(m + 1) : k # m + 1 => k \in 1..m
        BY <1>1
      <4> QED BY <2>6, <4>1
    <3>3. CASE i = n + 1
      <4>1. \A k \in 1..(m + 1) : open2[k].me = i => k = m + 1
        <5>1. \A k, l \in 1..(m + 1) : open2[k].me = open2[l].me => k = l
          BY <2>6, <2>10 DEF OpenFiles
        <5> QED BY <3>1, <3>3, <5>1
      <4> QED BY <2>15, <3>1, <3>3, <4>1
    <3>4. CASE i # n + 1
      <4>1. i \in (Len(old) + 1)..n
        BY <1>1, <3>4
      <4>2. /\ \A k \in 1..m : open1[k].me = i => HasRead(d, fr2, st.home, i, open1[k].at)
            /\ (\A k \in 1..m : open1[k].me # i) => HasRead(d, fr2, st.home, i, Len(d[fr2[i].file]))
        BY <1>2, <2>14, <4>1 DEF ReadThrough
      <4>3. \A k \in 1..(m + 1) : open2[k].me = i => k \in 1..m /\ open2[k] = open1[k]
        BY <3>1, <3>2, <3>4
      <4>4. \A k \in 1..m : k \in 1..(m + 1) /\ open2[k] = open1[k]
        BY <1>1, <2>6
      <4> QED BY <4>2, <4>3, <4>4
    <3> QED BY <3>3, <3>4
  <2>17. AllRead(d, Len(old), fr2, st.home, open2)
    BY <2>5, <2>6, <2>16 DEF AllRead, ReadThrough
  <2>18. Reading(d, old, g, hm, st2)
    BY <1>5, <2>2, <2>5, <2>8, <2>9, <2>10, <2>17 DEF Reading
  <2> QED BY <2>18 DEF Halfway, Reading, st2
<1> QED BY <1>7, <1>8
LEMMA ReadNext ==
  ASSUME NEW d, NEW old, NEW g, NEW hm, Reader(d, old, g, hm),
         NEW st, Halfway(d, old, g, hm, st)
  PROVE  Halfway(d, old, g, hm, ParseNext(st))
<1>1. CASE st.err = TRUE \/ st.open = <<>>
  <2>1. ParseNext(st) = st
    BY <1>1 DEF ParseNext
  <2> QED BY <2>1
<1>2. CASE st.err # TRUE /\ st.open # <<>>
  <2>1. Reading(d, old, g, hm, st)
    BY <1>2 DEF Halfway
  <2> DEFINE at == Last(st.open).at
             lines == d[st.frag[Last(st.open).me].file]
  <2>2. CASE ~(at < Len(lines))
    <3>1. Reading(d, old, g, hm, ParseNext(st))
      BY <1>2, <2>1, <2>2, ReadEnd
    <3> QED BY <3>1 DEF Halfway, Reading
  <2>3. CASE at < Len(lines)
    <3>1. lines[at + 1] \in FormatLines
      <4>1. InFile(d, old, st)
        BY <1>2, <2>1, FrameIs
      <4>2. lines \in Seq(FormatLines) /\ at \in Nat
        BY <4>1 DEF InFile
      <4> HIDE DEF lines, at
      <4> QED BY <2>3, <4>2
    <3>2. \/ lines[at + 1].is \in {"protect", "reference"}
          \/ lines[at + 1].is = "include" \/ lines[at + 1].is = "field"
      BY <3>1, LineIs
    <3>3. CASE lines[at + 1].is \in {"protect", "reference"}
      <4>1. Coming(d, st, {"protect", "reference"})
        BY <1>2, <2>3, <3>3 DEF Coming
      <4>2. Reading(d, old, g, hm, ParseNext(st))
        BY <2>1, <4>1, ReadPass
      <4> QED BY <4>2 DEF Halfway, Reading
    <3>4. CASE lines[at + 1].is = "include"
      <4>1. Coming(d, st, {"include"})
        BY <1>2, <2>3, <3>4 DEF Coming
      <4> QED BY <2>1, <4>1, ReadInclude
    <3>5. CASE lines[at + 1].is = "field"
      <4>1. Coming(d, st, {"field"})
        BY <1>2, <2>3, <3>5 DEF Coming
      <4> QED BY <2>1, <4>1, ReadField
    <3> QED BY <3>2, <3>3, <3>4, <3>5
  <2> QED BY <2>2, <2>3
<1> QED BY <1>1, <1>2

(* A file that is read without an error is read to its end, and so are those  *)
(* it includes.                                                               *)
LEMMA ParseIs ==
  ASSUME NEW d, NEW old, NEW g, NEW hm, Reader(d, old, g, hm),
         NEW start, Halfway(d, old, g, hm, start)
  PROVE  /\ IsState(ParseFragment(start)) /\ ParseFragment(start).err \in BOOLEAN
         /\ ~ParseFragment(start).err =>
              /\ Reading(d, old, g, hm, ParseFragment(start))
              /\ ParseFragment(start).open = <<>>
<1> DEFINE f == Parsed(start)
           end == f[MaxLines]
           T == {k \in Nat : Halfway(d, old, g, hm, f[k])}
<1>0. MaxLines \in Nat
  BY FragmentsAssumption
<1>1. /\ ParseFragment(start) = [f[MaxLines] EXCEPT !.err = @ \/ f[MaxLines].open # <<>>]
      /\ f[0] = start
      /\ \A k \in 1..MaxLines : f[k] = ParseNext(f[k - 1])
  BY <1>0, ParsedDefined
<1> HIDE DEF f
<1>2. 0 \in T
  BY <1>1
<1>3. \A k \in 1..MaxLines : k - 1 \in T => k \in T
  <2> SUFFICES ASSUME NEW k \in 1..MaxLines, k - 1 \in T PROVE k \in T
    OBVIOUS
  <2>1. f[k] = ParseNext(f[k - 1]) /\ k \in Nat
    BY <1>0, <1>1
  <2>2. Halfway(d, old, g, hm, f[k])
    BY <2>1, ReadNext
  <2> QED BY <2>1, <2>2
<1>4. \A k \in 0..MaxLines : k \in T
  <2> HIDE DEF T
  <2> QED BY <1>0, <1>2, <1>3, InductionTo
<1>5. Halfway(d, old, g, hm, end)
  BY <1>0, <1>4
<1> DEFINE r == ParseFragment(start)
<1>6. r = [end EXCEPT !.err = end.err \/ end.open # <<>>]
  BY <1>1
<1> HIDE DEF end, r, T
<1>7. /\ IsState(r) /\ r.disk = end.disk /\ r.frag = end.frag /\ r.home = end.home
      /\ r.reference = end.reference /\ r.ref = end.ref /\ r.open = end.open
      /\ r.err = (end.err \/ end.open # <<>>)
  BY <1>5, <1>6 DEF Halfway, IsState
<1>8. CASE end.err = TRUE
  BY <1>7, <1>8 DEF r
<1>9. CASE Reading(d, old, g, hm, end)
  <2>1. end.err = FALSE
    BY <1>9 DEF Reading
  <2>2. r.err = (end.open # <<>>)
    BY <1>7, <2>1
  <2>3. ASSUME r.err = FALSE PROVE Reading(d, old, g, hm, r) /\ r.open = <<>>
    <3>1. end.open = <<>>
      BY <2>2, <2>3
    <3> QED BY <1>7, <1>9, <2>3, <3>1 DEF Reading
  <2> QED BY <1>7, <2>2, <2>3 DEF r
<1> QED BY <1>5, <1>8, <1>9 DEF Halfway

(* What was read is on disk, and the fragments are a tree.                    *)
LEMMA ReadShape ==
  ASSUME NEW d, NEW old, NEW g, NEW hm, Reader(d, old, g, hm),
         NEW st, Reading(d, old, g, hm, st), st.open = <<>>,
         \/ Len(old) = 0 /\ g.parent = 0 /\ g.file = Root
         \/ Shape(d, old, hm) /\ g.parent # 0
  PROVE  /\ Shape(d, st.frag, st.home)
         /\ \A i \in 1..Len(st.frag) : i > Len(old) => Written(d, st.frag, st.home, i)
         /\ \A i \in 1..Len(old) :
              i # g.parent => /\ Written(d, old, hm, i) => Written(d, st.frag, st.home, i)
                              /\ {x \in Fields : st.home[x] = i} = {x \in Fields : hm[x] = i}
                              /\ IncludedIn(st.frag, i) = IncludedIn(old, i)
<1> DEFINE fr == st.frag
           b == Len(old)
           n == Len(fr)
<1>1. /\ fr \in Seq(FragType) /\ n \in Nat /\ b \in Nat /\ n > b /\ DOMAIN fr = 1..n
      /\ old \in Seq(FragType) /\ DOMAIN old = 1..b
      /\ \A i \in 1..b : fr[i] = old[i] /\ i \in 1..n
      /\ \A i \in 1..n : i > b =>
           /\ fr[i].file \in DOMAIN d
           /\ IF i = b + 1 THEN fr[i].parent = g.parent /\ fr[i].file = g.file
              ELSE fr[i].parent > b /\ fr[i].parent < i
      /\ \A i \in 1..n : fr[i].parent \in Nat
      /\ g.parent \in 0..b
  <2>1. fr \in Seq(FragType) /\ old \in Seq(FragType) /\ n > b /\ g.parent \in 0..b
    BY DEF Reading, NewFragments, Reader
  <2>2. n \in Nat /\ b \in Nat
    BY <2>1
  <2>3. \A i \in 1..b : fr[i] = old[i] /\ i \in 1..n
    <3>1. \A i \in 1..b : i \in 1..n
      BY <2>1, <2>2
    <3> QED BY <3>1 DEF Reading, NewFragments
  <2>4. \A i \in 1..n : i > b => i \in (b + 1)..n
    BY <2>2
  <2>5. \A i \in 1..n : fr[i].parent \in Nat
    <3>1. \A i \in 1..n : fr[i] \in FragType
      BY <2>1
    <3> QED BY <3>1 DEF FragType
  <2> QED BY <2>1, <2>2, <2>3, <2>4, <2>5 DEF Reading, NewFragments
<1>2. \A i \in 1..b : old[i].parent \in 0..b
  BY DEF Reader
<1>3. st.home \in [Fields -> 0..n] /\ NewHomes(b, hm, n, st.home)
  BY DEF Reading, NewHomes
<1>4. ASSUME NEW i \in 1..n, i > b PROVE Written(d, fr, st.home, i)
  <2>1. i \in (b + 1)..n /\ fr[i].file \in DOMAIN d
    BY <1>1, <1>4
  <2>2. HasRead(d, fr, st.home, i, Len(d[fr[i].file]))
    <3>1. \A k \in 1..Len(st.open) : st.open[k].me # i
      OBVIOUS
    <3> QED BY <2>1, <3>1 DEF Reading, AllRead, ReadThrough
  <2>3. d[fr[i].file] \in Seq(FormatLines)
    BY <2>1 DEF Reader, Formats
  <2>4. \A is : ReadOf(d[fr[i].file], Len(d[fr[i].file]), is) = Told(d[fr[i].file], is)
    BY <2>3, ReadAll
  <2> QED BY <2>1, <2>2, <2>4 DEF HasRead, Written
<1>5. ASSUME NEW i \in 1..b, i # g.parent
      PROVE  /\ {x \in Fields : st.home[x] = i} = {x \in Fields : hm[x] = i}
             /\ IncludedIn(fr, i) = IncludedIn(old, i)
             /\ Written(d, old, hm, i) => Written(d, fr, st.home, i)
  <2>1. {x \in Fields : st.home[x] = i} = {x \in Fields : hm[x] = i}
    <3>1. \A x \in Fields : IF hm[x] # 0 THEN st.home[x] = hm[x]
                            ELSE st.home[x] = 0 \/ st.home[x] > b
      BY <1>3 DEF NewHomes
    <3>2. i # 0 /\ ~(i > b)
      BY <1>1
    <3> QED BY <3>1, <3>2
  <2>2. IncludedIn(fr, i) = IncludedIn(old, i)
    <3>1. \A j \in 1..n : j > b => fr[j].parent # i
      BY <1>1, <1>5
    <3>2. \A j \in 1..n : fr[j].parent = i => j \in 1..b /\ old[j].parent = i /\ old[j].file = fr[j].file
      <4>1. \A j \in 1..n : ~(j > b) => j \in 1..b
        BY <1>1
      <4> QED BY <1>1, <3>1, <4>1
    <3>3. \A j \in 1..b : j \in 1..n /\ fr[j].parent = old[j].parent /\ fr[j].file = old[j].file
      BY <1>1
    <3> QED BY <1>1, <3>2, <3>3 DEF IncludedIn
  <2>3. fr[i] = old[i]
    BY <1>1
  <2> QED BY <2>1, <2>2, <2>3 DEF Written
<1>6. Shape(d, fr, st.home)
  <2>1. Formats(d)
    BY DEF Reader
  <2>2. fr[1].file = Root /\ fr[1].parent = 0
    <3>1. CASE b = 0 /\ g.parent = 0 /\ g.file = Root
      <4>1. 1 \in 1..n /\ 1 > b /\ 1 = b + 1
        BY <1>1, <3>1
      <4> QED BY <1>1, <3>1, <4>1
    <3>2. CASE Shape(d, old, hm)
      <4>1. 1 \in 1..b
        BY <1>1, <3>2 DEF Shape
      <4> QED BY <1>1, <3>2, <4>1 DEF Shape
    <3> QED BY <3>1, <3>2
  <2>3. ASSUME NEW i \in 2..n PROVE fr[i].parent \in 1..n
    <3>1. i \in 1..n /\ fr[i].parent \in Nat
      BY <1>1
    <3>2. CASE i > b /\ i # b + 1
      BY <1>1, <3>1, <3>2
    <3>3. CASE i = b + 1
      <4>1. b # 0 /\ g.parent # 0
        BY <1>1, <3>3 DEF Shape
      <4>2. fr[i].parent = g.parent
        BY <1>1, <3>1, <3>3
      <4> QED BY <1>1, <4>1, <4>2
    <3>4. CASE ~(i > b)
      <4>1. i \in 2..b /\ b # 0
        BY <1>1, <3>4
      <4>2. old[i].parent \in 1..b
        BY <4>1 DEF Shape
      <4> QED BY <1>1, <3>1, <4>1, <4>2
    <3> QED BY <1>1, <3>2, <3>3, <3>4
  <2>4. ASSUME NEW S \in SUBSET (2..n), S # {} PROVE \E i \in S : fr[i].parent \notin S
    <3>1. CASE \E i \in S : i <= b
      <4> DEFINE U == {i \in S : i <= b}
      <4>1. U \in SUBSET (2..b) /\ U # {} /\ b # 0
        <5>1. \A i \in S : i \in 2..n /\ i \in Nat /\ (i <= b => i \in 2..b)
          BY <1>1
        <5>2. U # {}
          BY <3>1
        <5>3. U \subseteq 2..b
          BY <5>1
        <5>4. b # 0
          BY <1>1, <3>1, <5>1
        <5> HIDE DEF U
        <5> QED BY <5>2, <5>3, <5>4
      <4>2. PICK i \in U : old[i].parent \notin U
        BY <4>1 DEF Shape
      <4>3. i \in 1..b /\ old[i].parent <= b /\ fr[i].parent = old[i].parent
        BY <1>1, <1>2, <4>1
      <4> QED BY <4>2, <4>3
    <3>2. CASE \A i \in S : i > b
      <4>1. S \subseteq Nat
        BY <1>1
      <4>2. PICK i \in S : \A k \in S : i <= k
        BY <2>4, <4>1, Least
      <4>3. i \in 1..n /\ i > b /\ fr[i].parent \in Nat
        BY <1>1, <3>2
      <4>4. CASE i = b + 1
        <5>1. fr[i].parent <= b
          BY <1>1, <4>3, <4>4
        <5> QED BY <1>1, <3>2, <5>1, <4>3
      <4>5. CASE i # b + 1
        <5>1. fr[i].parent < i
          BY <1>1, <4>3, <4>5
        <5>2. fr[i].parent \notin S
          BY <4>2, <4>3, <5>1
        <5> QED BY <5>2
      <4> QED BY <4>4, <4>5
    <3> QED BY <1>1, <3>1, <3>2
  <2>5. fr \in Seq(FragType) /\ n >= 1 /\ st.home \in [Fields -> 0..n]
    <3>1. n \in Nat /\ b \in Nat /\ n > b /\ fr \in Seq(FragType)
      BY <1>1
    <3> HIDE DEF n, b, fr
    <3> QED BY <1>3, <3>1
  <2> QED BY <2>1, <2>2, <2>3, <2>4, <2>5 DEF Shape
<1> QED BY <1>4, <1>5, <1>6
(* A format file that is opened, or a file that is included: its first line   *)
(* is about to be read.                                                       *)
LEMMA OpenIs ==
  ASSUME NEW d, Formats(d), ~OpenDirfile(d).err
  PROVE  LET st == OpenDirfile(d)
         IN /\ Shape(d, st.frag, st.home) /\ Clean(d, st.frag, st.home)
            /\ st.disk = d /\ st.reference \in Raws \cup {None}
<1> DEFINE old == <<>>
           g == [parent |-> 0, file |-> Root]
           hm == [x \in Fields |-> 0]
           root == FragmentOf(Root, 0)
           frame == Frame(1, 0)
           start == [Blank(d, <<root>>) EXCEPT !.open = <<frame>>]
           st == ParseFragment(start)
<1>1. Root \in DOMAIN d /\ Root \in Files /\ d[Root] \in Seq(FormatLines)
  BY FragmentsAssumption DEF Formats
<1>2. /\ IsState(start) /\ start.disk = d /\ start.frag = <<root>> /\ start.home = hm
      /\ start.reference = None /\ start.ref = None /\ start.open = <<frame>> /\ start.err = FALSE
  <2> HIDE DEF root, frame
  <2> QED BY DEF Blank, IsState
<1>3. root \in FragType /\ root.file = Root /\ root.parent = 0 /\ ~root.modified
  BY <1>1 DEF FragmentOf, FragType, ProtLevels
<1>4. frame \in FrameType /\ frame.me = 1 /\ frame.at = 0
  <2>1. MaxLevel \in Nat
    BY FragmentsAssumption
  <2> QED BY <2>1 DEF Frame, FrameType
<1> HIDE DEF start, root, frame
<1>5. Reader(d, old, g, hm)
  BY DEF Reader
<1>6. Reading(d, old, g, hm, start)
  <2>1. /\ <<root>> \in Seq(FragType) /\ Len(<<root>>) = 1 /\ <<root>>[1] = root /\ Len(old) = 0
        /\ 1..0 = {} /\ \A i \in 1..1 : i = 1
    BY <1>3
  <2>2. NewFragments(d, old, g, <<root>>)
    BY <1>1, <1>3, <2>1 DEF NewFragments
  <2>3. NewHomes(Len(old), hm, Len(<<root>>), hm)
    BY <2>1 DEF NewHomes
  <2>4. OpenFiles(d, Len(old), <<root>>, <<frame>>)
    <3>1. /\ <<frame>> \in Seq(FrameType) /\ Len(<<frame>>) = 1 /\ <<frame>>[1] = frame
      BY <1>4
    <3>2. Len(d[Root]) \in Nat
      BY <1>1
    <3> QED BY <1>3, <1>4, <2>1, <3>1, <3>2 DEF OpenFiles
  <2>5. HasRead(d, <<root>>, hm, 1, 0)
    <3>1. {x \in Fields : hm[x] = 1} = {}
      OBVIOUS
    <3>2. IncludedIn(<<root>>, 1) = {}
      BY <1>3, <2>1 DEF IncludedIn
    <3> HIDE DEF hm
    <3> QED BY <3>1, <3>2, ReadNone DEF HasRead
  <2>6. AllRead(d, Len(old), <<root>>, hm, <<frame>>)
    <3>1. Len(<<frame>>) = 1 /\ <<frame>>[1] = frame
      BY <1>4
    <3> HIDE DEF hm
    <3>2. ASSUME NEW i \in 1..1
          PROVE  /\ \A k \in 1..1 : <<frame>>[k].me = i => HasRead(d, <<root>>, hm, i, <<frame>>[k].at)
                 /\ ~\A k \in 1..1 : <<frame>>[k].me # i
      <4>1. i = 1 /\ \A k \in 1..1 : k = 1
        OBVIOUS
      <4> QED BY <1>4, <2>5, <3>1, <4>1
    <3>3. Len(old) + 1 = 1 /\ Len(<<root>>) = 1
      BY <2>1
    <3> HIDE DEF old
    <3> QED BY <3>1, <3>2, <3>3 DEF AllRead, ReadThrough
  <2> HIDE DEF hm
  <2> QED BY <1>2, <2>2, <2>3, <2>4, <2>6 DEF Reading
<1>7. /\ IsState(st) /\ st.err \in BOOLEAN
      /\ ~st.err => Reading(d, old, g, hm, st) /\ st.open = <<>>
  <2> HIDE DEF old, g, hm
  <2>1. Halfway(d, old, g, hm, start)
    BY <1>6 DEF Halfway, Reading
  <2> QED BY <1>5, <2>1, ParseIs
<1>8. OpenDirfile(d) = IF st.err THEN st ELSE Honour(st)
  BY DEF OpenDirfile, start, root, frame
<1> HIDE DEF st
<1>9. ~st.err /\ OpenDirfile(d) = Honour(st)
  BY <1>7, <1>8
<1>10. Reading(d, old, g, hm, st) /\ st.open = <<>>
  BY <1>7, <1>9
<1>11. Len(old) = 0 /\ g.parent = 0 /\ g.file = Root
  OBVIOUS
<1> HIDE DEF old, g, hm
<1>12. /\ Shape(d, st.frag, st.home)
       /\ \A i \in 1..Len(st.frag) : i > Len(old) => Written(d, st.frag, st.home, i)
  BY <1>5, <1>10, <1>11, ReadShape
<1>13. Clean(d, st.frag, st.home)
  <2>1. DOMAIN st.frag = 1..Len(st.frag) /\ \A i \in 1..Len(st.frag) : i > Len(old)
    BY <1>11, <1>12 DEF Shape
  <2> QED BY <1>12, <2>1 DEF Clean
<1>14. st.disk = d /\ st.reference \in Raws \cup {None}
  BY <1>10 DEF Reading
<1> DEFINE r == Honour(st)
<1>15. r.disk = st.disk /\ r.frag = st.frag /\ r.home = st.home /\ r.reference \in {st.reference} \cup Raws
  BY <1>7, <1>9 DEF Honour, IsState
<1> HIDE DEF r
<1> QED BY <1>9, <1>12, <1>13, <1>14, <1>15 DEF r

LEMMA ReopenSound ==
  ASSUME NEW d, Formats(d), Reopens(d), EachOnce(frag')
  PROVE  IInv' /\ KeptStep
<1> DEFINE st == OpenDirfile(d)
           root == FragmentOf(Root, 0)
           blank == Blank(d, <<root>>)
<1>1. KeptStep
  BY DEF Reopens, Returns, KeptStep
<1>2. CASE st.err
  <2>1. disk' = blank.disk /\ frag' = blank.frag /\ home' = blank.home
        /\ reference' = blank.reference /\ run' = "invalid"
    BY <1>2 DEF Reopens, Becomes
  <2>2. disk' = d /\ frag' = <<root>> /\ home' = [x \in Fields |-> 0] /\ reference' = None
    BY <2>1 DEF Blank
  <2>3. root \in FragType /\ root.file = Root /\ root.parent = 0
    BY FragmentsAssumption DEF FragmentOf, FragType, ProtLevels
  <2> HIDE DEF root
  <2>4. /\ <<root>> \in Seq(FragType) /\ Len(<<root>>) = 1 /\ <<root>>[1] = root
        /\ 2..1 = {}
    BY <2>3
  <2>5. Shape(d, <<root>>, [x \in Fields |-> 0])
    <3>1. SUBSET (2..1) = {{}}
      BY <2>4
    <3>2. \A i \in 2..1 : FALSE
      BY <2>4
    <3>3. [x \in Fields |-> 0] \in [Fields -> 0..1]
      OBVIOUS
    <3> DEFINE fr == <<root>>
               hm == [x \in Fields |-> 0]
    <3>4. fr \in Seq(FragType) /\ Len(fr) = 1 /\ fr[1] = root
      BY <2>4
    <3> HIDE DEF fr, hm
    <3>5. Shape(d, fr, hm)
      <4>1. 2..Len(fr) = {}
        BY <2>4, <3>4
      <4>2. \A S \in SUBSET (2..Len(fr)) : S = {}
        BY <4>1
      <4>3. hm \in [Fields -> 0..Len(fr)]
        BY <3>3, <3>4 DEF hm
      <4>4. \A i \in 2..Len(fr) : fr[i].parent \in 1..Len(fr)
        BY <4>1
      <4>5. fr[1].file = Root /\ fr[1].parent = 0 /\ Len(fr) >= 1
        BY <2>3, <3>4
      <4> QED BY <3>4, <4>2, <4>3, <4>4, <4>5 DEF Shape
    <3> QED BY <3>5 DEF fr, hm
  <2>6. Shape(disk', frag', home')
    BY <2>2, <2>5
  <2> QED BY <1>1, <2>1, <2>2, <2>6 DEF IInv
<1>3. CASE ~st.err
  <2>1. /\ disk' = st.disk /\ frag' = st.frag /\ home' = st.home
        /\ reference' = st.reference /\ run' = "ok"
    BY <1>3 DEF Reopens, Becomes
  <2>2. /\ Shape(d, st.frag, st.home) /\ Clean(d, st.frag, st.home)
        /\ st.disk = d /\ st.reference \in Raws \cup {None}
    BY <1>3, OpenIs
  <2> HIDE DEF st
  <2> QED BY <1>1, <2>1, <2>2 DEF IInv
<1> QED BY <1>2, <1>3
LEMMA IncludeStart ==
  ASSUME IInv, NEW i \in Indices, NEW file \in Files, NEW d, Formats(d)
  PROVE  LET g == [parent |-> i, file |-> file]
         IN /\ Reader(d, frag, g, home)
            /\ Halfway(d, frag, g, home, IncludeFile(1, i, file, [Now EXCEPT !.disk = d]))
<1> DEFINE g == [parent |-> i, file |-> file]
           now == [Now EXCEPT !.disk = d]
           n == Len(frag)
           new == FragmentOf(file, i)
           frame == Frame(n + 1, 1)
           fr2 == Append(frag, new)
           start == IncludeFile(1, i, file, now)
<1>1. /\ frag \in Seq(FragType) /\ n \in Nat /\ DOMAIN frag = 1..n /\ i \in 1..n /\ n >= 1
      /\ home \in [Fields -> 0..n] /\ frag[1].parent = 0 /\ reference \in Raws \cup {None}
      /\ \A j \in 2..n : frag[j].parent \in 1..n
  BY DEF IInv, Shape, Indices
<1>2. g.parent = i /\ g.file = file
  OBVIOUS
<1>3. \A j \in 1..n : frag[j].parent \in 0..n
  <2>1. \A j \in 1..n : j = 1 \/ j \in 2..n
    BY <1>1
  <2> QED BY <1>1, <2>1
<1> HIDE DEF g
<1>4. Reader(d, frag, g, home)
  BY <1>1, <1>2, <1>3 DEF Reader
<1>5. /\ IsState(now) /\ now.disk = d /\ now.frag = frag /\ now.home = home
      /\ now.reference = reference /\ now.ref = None /\ now.open = <<>> /\ now.err = FALSE
  BY NowIs DEF IsState
<1> HIDE DEF now
<1>6. CASE 1 >= MaxLevel \/ file \notin DOMAIN d
  <2>1. start = [now EXCEPT !.err = TRUE]
    BY <1>5, <1>6 DEF IncludeFile
  <2> HIDE DEF start
  <2>2. IsState(start) /\ start.err = TRUE
    BY <1>5, <2>1 DEF IsState
  <2>3. Halfway(d, frag, g, home, start)
    BY <2>2 DEF Halfway
  <2> QED BY <1>4, <2>3 DEF g, start, now
<1>7. CASE ~(1 >= MaxLevel) /\ file \in DOMAIN d
  <2>1. start = [now EXCEPT !.frag = Append(frag, new), !.ref = None, !.open = Append(<<>>, frame)]
    BY <1>5, <1>7 DEF IncludeFile
  <2>2. Append(<<>>, frame) = <<frame>>
    OBVIOUS
  <2>3. new \in FragType /\ new.file = file /\ new.parent = i /\ ~new.modified
    BY <1>1 DEF FragmentOf, FragType, ProtLevels
  <2>4. frame \in FrameType /\ frame.me = n + 1 /\ frame.at = 0
    BY <1>1 DEF Frame, FrameType
  <2> HIDE DEF start, new, frame
  <2>5. /\ IsState(start) /\ start.disk = d /\ start.err = FALSE /\ start.home = home
        /\ start.reference = reference /\ start.ref = None /\ start.frag = fr2
        /\ start.open = <<frame>>
    <3> HIDE DEF fr2
    <3> QED BY <1>5, <2>1, <2>2 DEF IsState, fr2
  <2>6. /\ fr2 \in Seq(FragType) /\ Len(fr2) = n + 1 /\ fr2[n + 1] = new
        /\ \A j \in 1..n : fr2[j] = frag[j]
    BY <1>1, <2>3
  <2>7. IncludedIn(fr2, n + 1) = {}
    <3>1. \A j \in 1..n : frag[j].parent # n + 1
      BY <1>1, <1>3
    <3>2. IncludedIn(frag, n + 1) = {}
      BY <1>1, <3>1 DEF IncludedIn
    <3>3. new.parent # n + 1
      BY <1>1, <2>3
    <3>4. IncludedIn(Append(frag, new), n + 1) = IncludedIn(frag, n + 1)
      BY <1>1, <2>3, <3>3, IncludedAppend
    <3> QED BY <3>2, <3>4
  <2> HIDE DEF fr2
  <2>8. \A j \in (n + 1)..(n + 1) : j = n + 1
    BY <1>1
  <2>9. NewFragments(d, frag, g, fr2)
    <3>1. \A j \in (n + 1)..Len(fr2) : j = n + 1
      BY <2>6, <2>8
    <3>2. Len(fr2) > n
      BY <1>1, <2>6
    <3> QED BY <1>2, <1>7, <2>3, <2>6, <3>1, <3>2 DEF NewFragments
  <2>10. NewHomes(n, home, n + 1, home)
    BY <1>1 DEF NewHomes
  <2>11. /\ <<frame>> \in Seq(FrameType) /\ Len(<<frame>>) = 1 /\ <<frame>>[1] = frame
         /\ \A k \in 1..1 : k = 1
    BY <2>4
  <2>12. OpenFiles(d, n, fr2, <<frame>>)
    <3>1. Len(d[file]) \in Nat
      BY <1>7 DEF Formats
    <3>2. frame.at <= Len(d[fr2[frame.me].file])
      BY <2>3, <2>4, <2>6, <3>1
    <3>3. frame.me \in (n + 1)..Len(fr2)
      BY <1>1, <2>4, <2>6
    <3> QED BY <2>11, <3>2, <3>3 DEF OpenFiles
  <2>13. HasRead(d, fr2, home, n + 1, 0)
    <3>1. {x \in Fields : home[x] = n + 1} = {}
      BY <1>1
    <3> QED BY <2>7, <3>1, ReadNone DEF HasRead
  <2>14. AllRead(d, n, fr2, home, <<frame>>)
    <3>1. ASSUME NEW j \in (n + 1)..Len(fr2)
          PROVE  /\ \A k \in 1..1 : <<frame>>[k].me = j => HasRead(d, fr2, home, j, <<frame>>[k].at)
                 /\ ~\A k \in 1..1 : <<frame>>[k].me # j
      <4>1. j = n + 1
        BY <2>6, <2>8
      <4> QED BY <2>4, <2>11, <2>13, <4>1
    <3> QED BY <2>11, <3>1 DEF AllRead, ReadThrough
  <2>15. Reading(d, frag, g, home, start)
    BY <1>1, <2>5, <2>6, <2>9, <2>10, <2>12, <2>14 DEF Reading
  <2>16. Halfway(d, frag, g, home, start)
    BY <2>15 DEF Halfway, Reading
  <2> QED BY <1>4, <2>16 DEF g, start, now
<1> QED BY <1>6, <1>7

LEMMA IncludeSound ==
  ASSUME Careful, IInv, run = "ok", NEW g \in Indices, NEW file \in Files,
         NEW creat \in BOOLEAN, NEW ignore \in BOOLEAN, Include(g, file, creat, ignore),
         EachOnce(frag')
  PROVE  IInv' /\ KeptStep
<1> DEFINE d == IF creat /\ file \notin DOMAIN disk
                THEN [f \in DOMAIN disk \cup {file} |-> IF f = file THEN <<>> ELSE disk[f]]
                ELSE disk
           from == [parent |-> g, file |-> file]
           p == ParseFragment(IncludeFile(1, g, file, [Now EXCEPT !.disk = d]))
           new == p.frag[Len(p.frag)].ref
           marked == IF p.err THEN p ELSE [p EXCEPT !.frag[g].modified = TRUE]
           chosen == IF Len(p.frag) = Len(frag) \/ new = None THEN marked
                     ELSE [marked EXCEPT !.frag = Propagate(@, g, new)]
           r == IncludeResult(g, file, creat, ignore)
<1>1. CASE Protected(g)
  <2>1. Refuse("include")
    BY <1>1 DEF Include
  <2> QED BY <2>1, RefuseSound
<1>2. CASE ~Protected(g)
  <2>1. /\ Formats(disk) /\ frag \in Seq(FragType) /\ Len(frag) \in Nat /\ g \in 1..Len(frag)
        /\ Shape(disk, frag, home) /\ EachOnce(frag) /\ Clean(disk, frag, home)
        /\ DOMAIN frag = 1..Len(frag) /\ Indices = 1..Len(frag) /\ g # 0
    <3> HIDE DEF d, p, new, marked, chosen, r
    <3>1. Shape(disk, frag, home) /\ EachOnce(frag) /\ Clean(disk, frag, home)
      BY DEF IInv
    <3>2. Formats(disk) /\ frag \in Seq(FragType)
      BY <3>1 DEF Shape
    <3> QED BY <3>1, <3>2 DEF Indices
  <2>2. Formats(d) /\ DOMAIN disk \subseteq DOMAIN d /\ \A f \in DOMAIN disk : d[f] = disk[f]
    <3>1. CASE creat /\ file \notin DOMAIN disk
      <4>1. d = [f \in DOMAIN disk \cup {file} |-> IF f = file THEN <<>> ELSE disk[f]]
        BY <3>1
      <4> HIDE DEF d
      <4> QED BY <2>1, <3>1, <4>1 DEF Formats
    <3>2. CASE ~(creat /\ file \notin DOMAIN disk)
      BY <2>1, <3>2
    <3> QED BY <3>1, <3>2
  <2>3. Call("include", r) /\ ~r.err
    BY <1>2 DEF Include, MayInclude
  <2>4. r = IF ignore \/ Len(p.frag) = Len(frag) THEN chosen ELSE Honour(chosen)
    BY Zenon DEF IncludeResult
  <2> HIDE DEF d
  <2>5. /\ Reader(d, frag, from, home)
        /\ Halfway(d, frag, from, home, IncludeFile(1, g, file, [Now EXCEPT !.disk = d]))
    BY <2>2, IncludeStart
  <2>6. from.parent = g
    OBVIOUS
  <2> HIDE DEF from
  <2>7. /\ IsState(p) /\ p.err \in BOOLEAN
        /\ ~p.err => Reading(d, frag, from, home, p) /\ p.open = <<>>
    BY <2>5, ParseIs
  <2> HIDE DEF p
  <2>8. ~p.err
    <3>1. ASSUME p.err = TRUE PROVE FALSE
      <4>1. marked = p
        BY <3>1
      <4>2. chosen.err = TRUE /\ IsState(chosen)
        BY <2>7, <3>1, <4>1 DEF IsState
      <4> HIDE DEF chosen
      <4>3. r.err = TRUE
        BY <2>4, <4>2 DEF Honour, IsState
      <4> QED BY <2>3, <4>3
    <3> QED BY <2>7, <3>1
  <2>9. Reading(d, frag, from, home, p) /\ p.open = <<>>
    BY <2>7, <2>8
  <2>10. /\ p.frag \in Seq(FragType) /\ Len(p.frag) > Len(frag) /\ p.disk = d /\ p.err = FALSE
         /\ p.reference \in Raws \cup {None}
         /\ \A i \in 1..Len(frag) : p.frag[i] = frag[i]
    BY <2>9 DEF Reading, NewFragments
  <2>11. /\ Len(p.frag) \in Nat /\ g \in 1..Len(p.frag) /\ DOMAIN p.frag = 1..Len(p.frag)
         /\ \A i \in 1..Len(frag) : i \in 1..Len(p.frag)
         /\ new \in Fields \cup {None}
    <3>1. Len(p.frag) \in Nat /\ DOMAIN p.frag = 1..Len(p.frag) /\ Len(p.frag) \in 1..Len(p.frag)
      BY <2>1, <2>10
    <3>2. \A i \in 1..Len(frag) : i \in 1..Len(p.frag)
      BY <2>1, <2>10, <3>1
    <3>3. p.frag[Len(p.frag)] \in FragType
      BY <2>10, <3>1
    <3>4. new \in Fields \cup {None}
      BY <3>3 DEF FragType
    <3> QED BY <2>1, <3>1, <3>2, <3>4
  <2> HIDE DEF new
  <2> DEFINE fr1 == [p.frag EXCEPT ![g].modified = TRUE]
             fr2 == IF new = None THEN fr1 ELSE Propagate(fr1, g, new)
  <2>12. /\ IsState(marked) /\ marked.disk = d /\ marked.frag = fr1 /\ marked.home = p.home
         /\ marked.reference = p.reference /\ marked.err = FALSE /\ marked.ref = p.ref
    <3>1. marked = [p EXCEPT !.frag[g].modified = TRUE]
      BY <2>8
    <3> HIDE DEF marked
    <3> QED BY <2>7, <2>10, <3>1 DEF IsState
  <2> HIDE DEF marked
  <2>13. /\ IsState(chosen) /\ chosen.disk = d /\ chosen.frag = fr2 /\ chosen.home = p.home
         /\ chosen.reference = p.reference
    <3>1. Len(p.frag) # Len(frag)
      BY <2>1, <2>10, <2>11
    <3>2. CASE new = None
      BY <2>12, <3>1, <3>2
    <3>3. CASE new # None
      <4>1. chosen = [marked EXCEPT !.frag = Propagate(marked.frag, g, new)]
        BY <3>1, <3>3
      <4>2. fr2 = Propagate(marked.frag, g, new)
        BY <2>12, <3>3
      <4> HIDE DEF chosen, fr2, fr1
      <4> QED BY <2>12, <4>1, <4>2 DEF IsState
    <3> QED BY <3>2, <3>3
  <2> HIDE DEF chosen
  <2>14. /\ r.disk = d /\ r.frag = fr2 /\ r.home = p.home /\ r.reference \in Raws \cup {None}
    <3> HIDE DEF fr2
    <3>1. /\ Honour(chosen).disk = d \/ Honour(chosen).err = TRUE
          /\ Honour(chosen).frag = fr2 /\ Honour(chosen).home = p.home
          /\ Honour(chosen).reference \in {p.reference} \cup Raws
      BY <2>13 DEF Honour, IsState
    <3>2. Honour(chosen).disk = d
      BY <2>13 DEF Honour, IsState
    <3> HIDE DEF r
    <3> QED BY <2>4, <2>10, <2>13, <3>1, <3>2
  <2>15. /\ Like(p.frag, fr1)
         /\ \A i \in 1..Len(p.frag) : /\ p.frag[i].modified => fr1[i].modified
                                      /\ i = g => fr1[i].modified
    <3>1. ASSUME NEW i \in 1..Len(p.frag)
          PROVE  /\ fr1[i] \in FragType /\ fr1[i].file = p.frag[i].file
                 /\ fr1[i].parent = p.frag[i].parent
                 /\ p.frag[i].modified => fr1[i].modified
                 /\ i = g => fr1[i].modified
      <4>1. p.frag[i] \in FragType
        BY <2>10
      <4>2. fr1[i] = IF i = g THEN [p.frag[i] EXCEPT !.modified = TRUE] ELSE p.frag[i]
        BY <2>11
      <4> HIDE DEF fr1
      <4> QED BY <4>1, <4>2 DEF FragType
    <3>2. fr1 = [i \in 1..Len(p.frag) |-> fr1[i]]
      BY <2>11
    <3> HIDE DEF fr1
    <3>3. fr1 \in [1..Len(p.frag) -> FragType]
      BY <3>1, <3>2
    <3>4. fr1 \in Seq(FragType) /\ Len(fr1) = Len(p.frag)
      BY <2>11, <3>3, SeqIs
    <3> QED BY <3>1, <3>4 DEF Like
  <2> HIDE DEF fr1
  <2>16. /\ Like(p.frag, fr2)
         /\ \A i \in 1..Len(p.frag) : /\ p.frag[i].modified => fr2[i].modified
                                      /\ i = g => fr2[i].modified
    <3>1. CASE new = None
      BY <2>15, <3>1
    <3>2. CASE new # None
      <4>1. fr1 \in Seq(FragType) /\ Len(fr1) = Len(p.frag)
        BY <2>15 DEF Like
      <4>2. /\ Like(fr1, Propagate(fr1, g, new))
            /\ \A i \in 1..Len(fr1) : fr1[i].modified => Propagate(fr1, g, new)[i].modified
        BY <2>11, <4>1, PropagateIs
      <4>3. fr2 = Propagate(fr1, g, new)
        BY <3>2
      <4> HIDE DEF fr2
      <4>4. Like(fr1, fr2) /\ \A i \in 1..Len(p.frag) : fr1[i].modified => fr2[i].modified
        BY <4>1, <4>2, <4>3
      <4> QED BY <2>15, <4>1, <4>4 DEF Like
    <3> QED BY <3>1, <3>2
  <2> HIDE DEF fr2
  <2>17. /\ Shape(d, p.frag, p.home)
         /\ \A i \in 1..Len(p.frag) : i > Len(frag) => Written(d, p.frag, p.home, i)
         /\ \A i \in 1..Len(frag) :
              i # g => /\ Written(d, frag, home, i) => Written(d, p.frag, p.home, i)
                       /\ {x \in Fields : p.home[x] = i} = {x \in Fields : home[x] = i}
                       /\ IncludedIn(p.frag, i) = IncludedIn(frag, i)
    <3>1. Shape(d, frag, home)
      BY <2>1, <2>2 DEF Shape
    <3>2. from.parent # 0
      BY <2>1, <2>6
    <3> QED BY <2>5, <2>6, <2>9, <3>1, <3>2, ReadShape
  <2>18. Shape(d, fr2, p.home)
    BY <2>10, <2>16, <2>17, LikeSame
  <2>19. /\ \A i : IncludedIn(fr2, i) = IncludedIn(p.frag, i)
         /\ \A i \in 1..Len(p.frag) : Written(d, fr2, p.home, i) <=> Written(d, p.frag, p.home, i)
    BY <2>10, <2>16, LikeSame
  <2>20. Clean(d, fr2, p.home)
    <3>1. DOMAIN fr2 = 1..Len(p.frag)
      BY <2>16 DEF Like
    <3> SUFFICES ASSUME NEW i \in 1..Len(p.frag), ~fr2[i].modified
                 PROVE  Written(d, fr2, p.home, i)
      BY <3>1 DEF Clean
    <3>2. CASE i > Len(frag)
      BY <2>17, <2>19, <3>2
    <3>3. CASE ~(i > Len(frag))
      <4>1. i \in 1..Len(frag) /\ i # g
        BY <2>1, <2>11, <2>16, <3>3
      <4>2. ~frag[i].modified
        BY <2>10, <2>16, <4>1
      <4>3. Written(disk, frag, home, i)
        BY <2>1, <4>1, <4>2 DEF Clean
      <4>4. Written(d, frag, home, i)
        BY <2>2, <4>3 DEF Written
      <4> QED BY <2>17, <2>19, <4>1, <4>4
    <3> QED BY <3>2, <3>3
  <2>21. /\ disk' = d /\ frag' = fr2 /\ home' = p.home /\ reference' = r.reference /\ run' = "ok"
    BY <2>3, <2>14 DEF Call, Becomes
  <2>22. IInv'
    BY <2>14, <2>18, <2>20, <2>21 DEF IInv
  <2>23. KeptStep
    <3> SUFFICES ASSUME NEW i \in Indices, Protected(i), NEW j \in 1..Len(frag'),
                        frag'[j].file = frag[i].file
                 PROVE  /\ {x \in Fields : home[x] = i} = {x \in Fields : home'[x] = j}
                        /\ IncludedIn(frag, i) = IncludedIn(frag', j)
      BY DEF KeptStep
    <3>1. i \in 1..Len(frag) /\ i # g /\ i \in 1..Len(p.frag)
      BY <1>2, <2>1, <2>11
    <3>2. frag'[i].file = frag[i].file
      <4>1. fr2[i].file = p.frag[i].file /\ p.frag[i] = frag[i]
        BY <2>10, <2>16, <3>1 DEF Like
      <4> QED BY <2>21, <4>1
    <3>3. DOMAIN frag' = 1..Len(p.frag) /\ Len(frag') = Len(p.frag)
      BY <2>16, <2>21 DEF Like
    <3>4. j = i
      BY <3>1, <3>2, <3>3 DEF EachOnce
    <3>5. /\ {x \in Fields : p.home[x] = i} = {x \in Fields : home[x] = i}
          /\ IncludedIn(p.frag, i) = IncludedIn(frag, i)
      BY <2>17, <3>1
    <3> QED BY <2>19, <2>21, <3>4, <3>5
  <2> QED BY <2>22, <2>23
<1> QED BY <1>1, <1>2
-------------------------------------------------------------------------------
(* Collecting the fragments below one.                                        *)
LEMMA Pigeonhole ==
  ASSUME NEW N \in Nat, NEW list \in Seq(1..N), Injective(list), NEW h \in 1..N, h \notin ToSet(list)
  PROVE  Len(list) < N
<1> DEFINE S == 1..Len(list)
           U == (1..N) \ {h}
<1>0. Len(list) \in Nat /\ DOMAIN list = S /\ \A k \in S : list[k] \in U
  <2>1. \A k \in DOMAIN list : list[k] # h
    BY DEF ToSet
  <2> QED BY <2>1
<1>1. IsFiniteSet(S) /\ Cardinality(S) = Len(list)
  <2>1. \A n \in Nat : IsFiniteSet(1..n) /\ Cardinality(1..n) = n
    BY FS_Interval
  <2> QED BY <1>0, <2>1
<1>2. IsFiniteSet(1..N) /\ Cardinality(1..N) = N
  BY FS_Interval
<1>3. IsFiniteSet(U) /\ Cardinality(U) = N - 1
  BY <1>2, FS_RemoveElement
<1>4. list \in Injection(S, U)
  <2>1. list \in [S -> U]
    BY <1>0
  <2> QED BY <1>0, <2>1 DEF Injection, IsInjective, Injective
<1> HIDE DEF S, U
<1>5. Cardinality(S) <= Cardinality(U)
  BY <1>3, <1>4, FS_Injection
<1> QED BY <1>0, <1>1, <1>3, <1>5

LEMMA InjectiveAppend ==
  ASSUME NEW A, NEW p \in Seq(A), NEW h \in A
  PROVE  /\ Append(p, h) \in Seq(A) /\ Len(Append(p, h)) = Len(p) + 1
         /\ ToSet(Append(p, h)) = ToSet(p) \cup {h}
         /\ Injective(p) /\ h \notin ToSet(p) => Injective(Append(p, h))
         /\ p # <<>> => Append(p, h)[1] = p[1]
         /\ p = <<>> => Append(p, h)[1] = h
<1> DEFINE q == Append(p, h)
<1>1. /\ q \in Seq(A) /\ Len(p) \in Nat /\ Len(q) = Len(p) + 1 /\ DOMAIN p = 1..Len(p)
      /\ DOMAIN q = (DOMAIN p) \cup {Len(p) + 1}
      /\ \A k \in DOMAIN p : q[k] = p[k]
      /\ q[Len(p) + 1] = h
  OBVIOUS
<1>2. p # <<>> => 1 \in DOMAIN p
  OBVIOUS
<1>3. p = <<>> => Len(p) + 1 = 1
  OBVIOUS
<1> HIDE DEF q
<1>4. ToSet(q) = ToSet(p) \cup {h}
  BY <1>1 DEF ToSet
<1>5. ASSUME Injective(p), h \notin ToSet(p) PROVE Injective(q)
  <2>1. \A k \in DOMAIN p : q[k] # h
    BY <1>1, <1>5 DEF ToSet
  <2> SUFFICES ASSUME NEW j \in DOMAIN q, NEW k \in DOMAIN q, q[j] = q[k] PROVE j = k
    BY DEF Injective
  <2>2. CASE j \in DOMAIN p /\ k \in DOMAIN p
    BY <1>1, <1>5, <2>2 DEF Injective
  <2>3. CASE ~(j \in DOMAIN p /\ k \in DOMAIN p)
    BY <1>1, <2>1, <2>3
  <2> QED BY <2>2, <2>3
<1> QED BY <1>1, <1>2, <1>3, <1>4, <1>5 DEF q

LEMMA InjectiveConcat ==
  ASSUME NEW A, NEW p \in Seq(A), NEW q \in Seq(A)
  PROVE  /\ p \o q \in Seq(A)
         /\ ToSet(p \o q) = ToSet(p) \cup ToSet(q)
         /\ Injective(p) /\ Injective(q) /\ ToSet(p) \cap ToSet(q) = {} => Injective(p \o q)
<1> DEFINE pq == p \o q
<1>1. /\ pq \in Seq(A) /\ Len(p) \in Nat /\ Len(q) \in Nat
      /\ DOMAIN p = 1..Len(p) /\ DOMAIN q = 1..Len(q) /\ DOMAIN pq = 1..(Len(p) + Len(q))
      /\ \A k \in 1..Len(p) : pq[k] = p[k]
      /\ \A k \in 1..Len(q) : pq[Len(p) + k] = q[k]
  OBVIOUS
<1> HIDE DEF pq
<1>2. \A k \in DOMAIN pq : \/ k \in DOMAIN p /\ pq[k] = p[k]
                           \/ k - Len(p) \in DOMAIN q /\ pq[k] = q[k - Len(p)]
  <2> SUFFICES ASSUME NEW k \in DOMAIN pq, k \notin DOMAIN p
               PROVE  k - Len(p) \in DOMAIN q /\ pq[k] = q[k - Len(p)]
    BY <1>1
  <2>1. k - Len(p) \in 1..Len(q) /\ k = Len(p) + (k - Len(p))
    BY <1>1
  <2> QED BY <1>1, <2>1
<1>3. ToSet(pq) = ToSet(p) \cup ToSet(q)
  <2>1. \A k \in DOMAIN p : k \in DOMAIN pq /\ pq[k] = p[k]
    BY <1>1
  <2>2. \A k \in DOMAIN q : Len(p) + k \in DOMAIN pq /\ pq[Len(p) + k] = q[k]
    BY <1>1
  <2>3. ToSet(pq) \subseteq ToSet(p) \cup ToSet(q)
    BY <1>2 DEF ToSet
  <2>4. ToSet(p) \subseteq ToSet(pq)
    BY <2>1 DEF ToSet
  <2>5. ToSet(q) \subseteq ToSet(pq)
    BY <2>2 DEF ToSet
  <2> QED BY <2>3, <2>4, <2>5
<1>4. ASSUME Injective(p), Injective(q), ToSet(p) \cap ToSet(q) = {},
             NEW j \in DOMAIN pq, NEW k \in DOMAIN pq, pq[j] = pq[k]
      PROVE  j = k
  <2>1. \A a \in DOMAIN p, b \in DOMAIN q : p[a] # q[b]
    BY <1>4 DEF ToSet
  <2>2. CASE j \in DOMAIN p /\ pq[j] = p[j] /\ k \in DOMAIN p /\ pq[k] = p[k]
    BY <1>4, <2>2 DEF Injective
  <2>3. CASE /\ j - Len(p) \in DOMAIN q /\ pq[j] = q[j - Len(p)]
             /\ k - Len(p) \in DOMAIN q /\ pq[k] = q[k - Len(p)]
    <3>1. j - Len(p) = k - Len(p)
      BY <1>4, <2>3 DEF Injective
    <3> QED BY <1>1, <3>1
  <2> QED BY <1>2, <1>4, <2>1, <2>2, <2>3
<1>5. Injective(p) /\ Injective(q) /\ ToSet(p) \cap ToSet(q) = {} => Injective(pq)
  BY <1>4 DEF Injective
<1> QED BY <1>1, <1>3, <1>5 DEF pq

LEMMA InjectiveTail ==
  ASSUME NEW A, NEW p \in Seq(A), p # <<>>, Injective(p)
  PROVE  /\ Head(p) \in A /\ Tail(p) \in Seq(A) /\ Injective(Tail(p))
         /\ Head(p) \in ToSet(p) /\ Head(p) \notin ToSet(Tail(p))
         /\ ToSet(p) = ToSet(Tail(p)) \cup {Head(p)}
<1> DEFINE q == Tail(p)
<1>1. /\ q \in Seq(A) /\ Len(p) \in Nat /\ Len(p) >= 1 /\ Len(q) = Len(p) - 1
      /\ DOMAIN p = 1..Len(p) /\ DOMAIN q = 1..(Len(p) - 1)
      /\ \A k \in 1..(Len(p) - 1) : q[k] = p[k + 1]
      /\ Head(p) = p[1]
  OBVIOUS
<1> HIDE DEF q
<1>2. 1 \in DOMAIN p /\ \A k \in DOMAIN q : k + 1 \in DOMAIN p /\ k + 1 # 1 /\ q[k] = p[k + 1]
  BY <1>1
<1>3. \A k \in DOMAIN p : k = 1 \/ (k - 1 \in DOMAIN q /\ q[k - 1] = p[k])
  <2> SUFFICES ASSUME NEW k \in DOMAIN p, k # 1 PROVE k - 1 \in DOMAIN q /\ q[k - 1] = p[k]
    OBVIOUS
  <2>1. k - 1 \in 1..(Len(p) - 1) /\ (k - 1) + 1 = k
    BY <1>1
  <2> QED BY <1>1, <2>1
<1>4. Head(p) \in A /\ Head(p) \in ToSet(p)
  BY <1>1, <1>2 DEF ToSet
<1>5. Head(p) \notin ToSet(q)
  BY <1>1, <1>2 DEF ToSet, Injective
<1>6. ToSet(p) = ToSet(q) \cup {Head(p)}
  <2>1. ToSet(q) \subseteq ToSet(p)
    BY <1>2 DEF ToSet
  <2>2. ToSet(p) \subseteq ToSet(q) \cup {Head(p)}
    BY <1>1, <1>3 DEF ToSet
  <2> QED BY <1>4, <2>1, <2>2
<1>7. Injective(q)
  <2> SUFFICES ASSUME NEW j \in DOMAIN q, NEW k \in DOMAIN q, q[j] = q[k] PROVE j = k
    BY DEF Injective
  <2>1. j + 1 = k + 1
    BY <1>2 DEF Injective
  <2> QED BY <1>1, <2>1
<1> QED BY <1>1, <1>4, <1>5, <1>6, <1>7 DEF q

(* In the loop, list and todo hold fragments that are i or below it, each     *)
(* once, and the children of those on list are among them.                    *)
Gathering(i, c) ==
  /\ DOMAIN c = {"list", "todo"} /\ c.list \in Seq(1..Len(frag)) /\ c.todo \in Seq(1..Len(frag))
  /\ Injective(c.list) /\ Injective(c.todo) /\ ToSet(c.list) \cap ToSet(c.todo) = {}
  /\ c.list = <<>> => c.todo = <<i>>
  /\ c.list # <<>> => c.list[1] = i
  /\ i \in ToSet(c.list) \cup ToSet(c.todo)
  /\ \A j \in ToSet(c.list) \cup ToSet(c.todo) : j = i \/ frag[j].parent \in ToSet(c.list)
  /\ \A j \in 1..Len(frag) : frag[j].parent \in ToSet(c.list) => j \in ToSet(c.list) \cup ToSet(c.todo)

LEMMA NotAbove ==
  ASSUME IInv, NEW i \in Indices \ {1}, NEW c, Gathering(i, c)
  PROVE  /\ 1 \notin ToSet(c.list) \cup ToSet(c.todo)
         /\ frag[i].parent \notin ToSet(c.list) \cup ToSet(c.todo)
<1> DEFINE S == ToSet(c.list) \cup ToSet(c.todo)
<1>1. S \subseteq 1..Len(frag) /\ ToSet(c.list) \subseteq 1..Len(frag) /\ i \in S /\ Len(frag) \in Nat
  BY DEF Gathering, ToSet, IInv, Shape
<1>2. \A j \in S : j = i \/ frag[j].parent \in ToSet(c.list)
  BY DEF Gathering
<1>3. 1 \notin S
  <2>1. frag[1].parent = 0
    BY DEF IInv, Shape
  <2>2. frag[1].parent \notin ToSet(c.list)
    BY <1>1, <2>1
  <2> QED BY <1>2, <2>2
<1>4. frag[i].parent \notin S
  <2> SUFFICES ASSUME frag[i].parent \in S PROVE FALSE
    OBVIOUS
  <2>1. \A j \in S : frag[j].parent \in S
    BY <1>2
  <2>2. S \in SUBSET (2..Len(frag)) /\ S # {}
    <3>1. \A j \in S : j \in 1..Len(frag) /\ j # 1
      BY <1>1, <1>3
    <3>2. \A j \in S : j \in 2..Len(frag)
      BY <1>1, <3>1
    <3> QED BY <1>1, <3>2
  <2> HIDE DEF S
  <2> QED BY <2>1, <2>2 DEF IInv, Shape
<1> QED BY <1>3, <1>4

LEMMA GatherNext ==
  ASSUME IInv, NEW i \in Indices \ {1}, NEW c, Gathering(i, c)
  PROVE  /\ Gathering(i, CollectNext(c))
         /\ c.todo # <<>> => Len(CollectNext(c).list) = Len(c.list) + 1
         /\ c.todo = <<>> => CollectNext(c) = c
<1>1. CASE c.todo = <<>>
  BY <1>1 DEF CollectNext
<1>2. CASE c.todo # <<>>
  <2> DEFINE N == Len(frag)
             h == Head(c.todo)
             rest == Tail(c.todo)
             below == Children(frag, h)
             list2 == Append(c.list, h)
             todo2 == below \o rest
             c2 == CollectNext(c)
  <2>1. /\ c.list \in Seq(1..N) /\ c.todo \in Seq(1..N)
        /\ Injective(c.list) /\ Injective(c.todo) /\ ToSet(c.list) \cap ToSet(c.todo) = {}
    BY DEF Gathering
  <2>2. /\ h \in 1..N /\ rest \in Seq(1..N) /\ Injective(rest)
        /\ h \in ToSet(c.todo) /\ h \notin ToSet(rest)
        /\ ToSet(c.todo) = ToSet(rest) \cup {h}
    BY <1>2, <2>1, InjectiveTail
  <2>3. /\ below \in Seq(1..N) /\ Injective(below)
        /\ ToSet(below) = {j \in 1..N : frag[j].parent = h}
    <3>1. frag \in Seq(FragType)
      BY DEF IInv, Shape
    <3> QED BY <3>1, ChildrenIs
  <2>4. c2 = [list |-> list2, todo |-> todo2]
    BY <1>2 DEF CollectNext
  <2>5. c2.list = list2 /\ c2.todo = todo2 /\ DOMAIN c2 = {"list", "todo"}
    <3> HIDE DEF c2, list2, todo2
    <3> QED BY <2>4
  <2> HIDE DEF c2, h, rest, below
  <2>6. \A j \in ToSet(below) : j \notin ToSet(c.list) \cup ToSet(c.todo)
    <3> SUFFICES ASSUME NEW j \in ToSet(below), j \in ToSet(c.list) \cup ToSet(c.todo) PROVE FALSE
      OBVIOUS
    <3>1. frag[j].parent = h /\ h \notin ToSet(c.list)
      BY <2>1, <2>2, <2>3
    <3>2. j = i
      BY <3>1 DEF Gathering
    <3> QED BY <2>2, <3>1, <3>2, NotAbove
  <2>7. /\ list2 \in Seq(1..N) /\ Len(list2) = Len(c.list) + 1
        /\ ToSet(list2) = ToSet(c.list) \cup {h} /\ Injective(list2)
        /\ c.list # <<>> => list2[1] = c.list[1]
        /\ c.list = <<>> => list2[1] = h
    <3>1. h \notin ToSet(c.list)
      BY <2>1, <2>2
    <3> QED BY <2>1, <2>2, <3>1, InjectiveAppend
  <2>8. todo2 \in Seq(1..N) /\ ToSet(todo2) = ToSet(below) \cup ToSet(rest) /\ Injective(todo2)
    <3>1. ToSet(below) \cap ToSet(rest) = {}
      BY <2>2, <2>6
    <3> QED BY <2>2, <2>3, <3>1, InjectiveConcat
  <2>9. list2 # <<>> /\ list2[1] = i
    <3>1. CASE c.list # <<>>
      <4>1. c.list[1] = i
        BY <3>1 DEF Gathering
      <4>2. list2 # <<>>
        <5> HIDE DEF list2
        <5>1. Len(c.list) \in Nat /\ Len(list2) = Len(c.list) + 1
          BY <2>1, <2>7
        <5> QED BY <5>1
      <4> QED BY <2>7, <3>1, <4>1, <4>2
    <3>2. CASE c.list = <<>>
      <4>1. c.todo = <<i>>
        BY <3>2 DEF Gathering
      <4>2. h = i
        BY <4>1 DEF h
      <4> QED BY <2>1, <2>7, <3>2, <4>2
    <3>3. Len(list2) # 0
      BY <2>1, <2>7
    <3> QED BY <3>1, <3>2, <3>3
  <2> HIDE DEF list2, todo2
  <2>10. ToSet(list2) \cap ToSet(todo2) = {}
    BY <2>1, <2>2, <2>6, <2>7, <2>8
  <2>11. ToSet(list2) \cup ToSet(todo2) = ToSet(c.list) \cup ToSet(c.todo) \cup ToSet(below)
    BY <2>2, <2>7, <2>8
  <2>12. \A j \in ToSet(list2) \cup ToSet(todo2) : j = i \/ frag[j].parent \in ToSet(list2)
    BY <2>3, <2>7, <2>11 DEF Gathering
  <2>13. \A j \in 1..N : frag[j].parent \in ToSet(list2) => j \in ToSet(list2) \cup ToSet(todo2)
    BY <2>3, <2>7, <2>11 DEF Gathering
  <2>14. i \in ToSet(list2) \cup ToSet(todo2)
    BY <2>11 DEF Gathering
  <2>15. Gathering(i, c2)
    BY <2>5, <2>7, <2>8, <2>9, <2>10, <2>12, <2>13, <2>14 DEF Gathering
  <2> QED BY <1>2, <2>5, <2>7, <2>15 DEF c2
<1> QED BY <1>1, <1>2

LEMMA CollectIs ==
  ASSUME IInv, NEW i \in Indices \ {1}
  PROVE  LET list == Collect(i)
             leaving == ToSet(Collect(i))
         IN /\ list \in Seq(1..Len(frag)) /\ Injective(list) /\ list # <<>> /\ list[1] = i
            /\ i \in leaving /\ 1 \notin leaving /\ frag[i].parent \notin leaving
            /\ \A j \in leaving : j = i \/ frag[j].parent \in leaving
            /\ \A j \in 1..Len(frag) : frag[j].parent \in leaving => j \in leaving
<1> DEFINE f == Collected(i)
           N == Len(frag)
           start == [list |-> <<>>, todo |-> <<i>>]
           T == {k \in Nat : Gathering(i, f[k]) /\ (f[k].todo = <<>> \/ Len(f[k].list) = k)}
           end == f[N]
<1>0. N \in Nat /\ i \in 1..N
  BY DEF IInv, Shape, Indices
<1>1. Collect(i) = f[N].list /\ f[0] = start /\ \A k \in 1..N : f[k] = CollectNext(f[k - 1])
  BY <1>0, CollectedDefined
<1> HIDE DEF f
<1>2. 0 \in T
  <2>1. start.list = <<>> /\ start.todo = <<i>> /\ DOMAIN start = {"list", "todo"}
    OBVIOUS
  <2>2. ToSet(<<>>) = {} /\ ToSet(<<i>>) = {i} /\ Injective(<<>>) /\ Injective(<<i>>)
    BY DEF ToSet, Injective
  <2> HIDE DEF start
  <2>3. <<>> \in Seq(1..N) /\ <<i>> \in Seq(1..N)
    BY <1>0
  <2>4. Gathering(i, start)
    BY <2>1, <2>2, <2>3 DEF Gathering
  <2>5. Len(start.list) = 0
    BY <2>1
  <2> QED BY <1>1, <2>4, <2>5
<1>3. \A k \in 1..N : k - 1 \in T => k \in T
  <2> SUFFICES ASSUME NEW k \in 1..N, k - 1 \in T PROVE k \in T
    OBVIOUS
  <2> DEFINE c == f[k - 1]
  <2>1. f[k] = CollectNext(c) /\ Gathering(i, c) /\ (c.todo = <<>> \/ Len(c.list) = k - 1) /\ k \in Nat
    BY <1>0, <1>1
  <2> HIDE DEF c, T
  <2>2. /\ Gathering(i, CollectNext(c))
        /\ c.todo # <<>> => Len(CollectNext(c).list) = Len(c.list) + 1
        /\ c.todo = <<>> => CollectNext(c) = c
    BY <2>1, GatherNext
  <2>3. Gathering(i, f[k]) /\ (f[k].todo = <<>> \/ Len(f[k].list) = k)
    <3>1. CASE c.todo = <<>>
      BY <2>1, <2>2, <3>1
    <3>2. CASE c.todo # <<>>
      <4>1. Len(f[k].list) = (k - 1) + 1
        BY <2>1, <2>2, <3>2
      <4> QED BY <2>1, <2>2, <4>1
    <3> QED BY <3>1, <3>2
  <2> QED BY <2>1, <2>3 DEF T
<1>4. \A k \in 0..N : k \in T
  <2> HIDE DEF T
  <2> QED BY <1>0, <1>2, <1>3, InductionTo
<1>5. Gathering(i, end) /\ (end.todo = <<>> \/ Len(end.list) = N)
  BY <1>0, <1>4
<1> HIDE DEF end, T
<1>6. end.todo = <<>>
  <2> SUFFICES ASSUME end.todo # <<>> PROVE FALSE
    OBVIOUS
  <2>1. /\ end.list \in Seq(1..N) /\ end.todo \in Seq(1..N)
        /\ Injective(end.list) /\ Injective(end.todo) /\ ToSet(end.list) \cap ToSet(end.todo) = {}
    BY <1>5 DEF Gathering
  <2>2. Head(end.todo) \in 1..N /\ Head(end.todo) \in ToSet(end.todo)
    BY <2>1, InjectiveTail
  <2>3. Len(end.list) < N
    BY <1>0, <2>1, <2>2, Pigeonhole
  <2> QED BY <1>0, <1>5, <2>3
<1>7. ToSet(end.todo) = {}
  BY <1>6 DEF ToSet
<1>8. end.list # <<>> /\ end.list[1] = i
  <2>1. <<i>> # <<>>
    OBVIOUS
  <2> QED BY <1>5, <1>6, <2>1 DEF Gathering
<1>9. Collect(i) = end.list
  BY <1>1 DEF end
<1>10. 1 \notin ToSet(end.list) /\ frag[i].parent \notin ToSet(end.list)
  BY <1>5, NotAbove
<1>11. /\ end.list \in Seq(1..N) /\ Injective(end.list) /\ i \in ToSet(end.list)
       /\ \A j \in ToSet(end.list) : j = i \/ frag[j].parent \in ToSet(end.list)
       /\ \A j \in 1..N : frag[j].parent \in ToSet(end.list) => j \in ToSet(end.list)
  BY <1>5, <1>7 DEF Gathering
<1> QED BY <1>8, <1>9, <1>10, <1>11
-------------------------------------------------------------------------------
(* Removing the fragments collected.  What careful callers remove fits: what  *)
(* moves to the place of one of them stays and loses all that it includes.    *)
Fits(list) ==
  \A j \in DOMAIN list :
    LET moved == Len(frag) + 1 - j
    IN IF list[j] > Len(frag) - Len(list) THEN moved \in ToSet(list)
       ELSE moved \notin ToSet(list) /\ \A c \in Indices : frag[c].parent = moved => c \in ToSet(list)

(* After the first k of the list: they hold what was moved there, if they are *)
(* not dropped in the end, too; and nothing else has changed its place.       *)
Emptied(fr, list, k, r) ==
  /\ r.n = Len(fr) - k /\ r.arr \in Seq(FragType) /\ Len(r.arr) = Len(fr)
  /\ \A q \in 1..Len(fr) : (\A j \in 1..k : list[j] # q) => r.arr[q] = fr[q]
  /\ \A j \in 1..k : list[j] <= Len(fr) - Len(list) => r.arr[list[j]] = fr[Len(fr) + 1 - j]
  /\ r.gone = {fr[list[j]].file : j \in 1..k}

Rehomed(n, list, k, hm) ==
  /\ hm \in [Fields -> 0..n]
  /\ \A x \in Fields :
       (\A j \in 1..k : WithoutFields(list)[x] # n + 1 - j) => hm[x] = WithoutFields(list)[x]
  /\ \A x \in Fields, j \in 1..k :
       WithoutFields(list)[x] = n + 1 - j => hm[x] = list[j] /\ list[j] <= n - Len(list)

LEMMA EmptyOne ==
  ASSUME NEW fr \in Seq(FragType), NEW list \in Seq(1..Len(fr)), Injective(list),
         \A j \in DOMAIN list : list[j] <= Len(fr) - Len(list) => Len(fr) + 1 - j \notin ToSet(list),
         NEW k \in 1..Len(list), Len(list) <= Len(fr), NEW r, Emptied(fr, list, k - 1, r)
  PROVE  Emptied(fr, list, k, RemoveOne(r, list[k]))
<1> DEFINE N == Len(fr)
           L == Len(list)
           i == list[k]
           arr == r.arr
           arr2 == [arr EXCEPT ![i] = arr[r.n]]
           s == RemoveOne(r, list[k])
<1>1. /\ N \in Nat /\ L \in Nat /\ L <= N /\ k \in 1..L /\ DOMAIN list = 1..L /\ DOMAIN fr = 1..N
      /\ \A j \in 1..L : list[j] \in 1..N
  OBVIOUS
<1>2. /\ r.n = N - (k - 1) /\ arr \in Seq(FragType) /\ Len(arr) = N
      /\ \A q \in 1..N : (\A j \in 1..(k - 1) : list[j] # q) => arr[q] = fr[q]
      /\ \A j \in 1..(k - 1) : list[j] <= N - L => arr[list[j]] = fr[N + 1 - j]
      /\ r.gone = {fr[list[j]].file : j \in 1..(k - 1)}
  BY DEF Emptied
<1>3. s.arr = arr2 /\ s.n = r.n - 1 /\ s.gone = r.gone \cup {arr[i].file}
  BY DEF RemoveOne
<1>4. \A j \in 1..(k - 1) : list[j] # i
  <2>1. \A j \in 1..(k - 1) : j \in DOMAIN list /\ j # k
    BY <1>1
  <2>2. k \in DOMAIN list
    BY <1>1
  <2> QED BY <2>1, <2>2 DEF Injective
<1>5. r.n \in 1..N /\ i \in 1..N /\ s.n = N - k /\ r.n = N + 1 - k
  <2>1. k >= 1 /\ k <= L /\ k \in Nat
    BY <1>1
  <2>2. N - (k - 1) \in 1..N /\ N - (k - 1) - 1 = N - k /\ N - (k - 1) = N + 1 - k
    BY <1>1, <2>1
  <2>3. s.n = r.n - 1
    BY <1>3
  <2> HIDE DEF s
  <2> QED BY <1>1, <1>2, <2>2, <2>3
<1>6. arr[i] = fr[i]
  BY <1>2, <1>4, <1>5
<1> HIDE DEF i, arr, s
<1>7. /\ arr2 \in Seq(FragType) /\ Len(arr2) = N /\ arr2[i] = arr[r.n]
      /\ \A q \in 1..N : q # i => arr2[q] = arr[q]
  BY <1>2, <1>5
<1> HIDE DEF arr2
<1>8. 1..k = (1..(k - 1)) \cup {k}
  BY <1>1
<1>9. ASSUME NEW q \in 1..N, \A j \in 1..k : list[j] # q PROVE arr2[q] = fr[q]
  <2>1. q # i /\ \A j \in 1..(k - 1) : list[j] # q
    BY <1>8, <1>9 DEF i
  <2> QED BY <1>2, <1>7, <2>1
<1>10. ASSUME NEW j \in 1..k, list[j] <= N - L PROVE arr2[list[j]] = fr[N + 1 - j]
  <2>1. CASE j \in 1..(k - 1)
    <3>1. list[j] # i /\ list[j] \in 1..N
      <4>1. j \in 1..L
        BY <1>1, <2>1
      <4> QED BY <1>1, <1>4, <2>1, <4>1
    <3> QED BY <1>2, <1>7, <1>10, <2>1, <3>1
  <2>2. CASE j = k
    <3>1. N + 1 - k \notin ToSet(list)
      BY <1>1, <1>10, <2>2
    <3>2. \A a \in 1..(k - 1) : list[a] # r.n
      <4>1. \A a \in 1..(k - 1) : a \in DOMAIN list
        BY <1>1
      <4> QED BY <1>5, <3>1, <4>1 DEF ToSet
    <3>3. arr[r.n] = fr[N + 1 - k]
      BY <1>2, <1>5, <3>2
    <3> QED BY <1>7, <2>2, <3>3 DEF i
  <2> QED BY <1>8, <2>1, <2>2
<1>11. s.gone = {fr[list[j]].file : j \in 1..k}
  <2>1. {fr[list[j]].file : j \in 1..k} = {fr[list[j]].file : j \in 1..(k - 1)} \cup {fr[i].file}
    BY <1>8 DEF i
  <2> QED BY <1>2, <1>3, <1>6, <2>1
<1>12. Emptied(fr, list, k, s)
  BY <1>3, <1>5, <1>7, <1>9, <1>10, <1>11 DEF Emptied
<1> QED BY <1>12 DEF s

LEMMA RehomeOne ==
  ASSUME NEW n \in Nat, home \in [Fields -> 0..n], NEW list \in Seq(1..n), Len(list) <= n,
         \A j \in DOMAIN list : list[j] > n - Len(list) => n + 1 - j \in ToSet(list),
         NEW k \in 1..Len(list), NEW r, r.n = n + 1 - k, Rehomed(n, list, k - 1, r.home)
  PROVE  Rehomed(n, list, k, RemoveOne(r, list[k]).home)
<1> DEFINE L == Len(list)
           h == WithoutFields(list)
           hm == r.home
           hm2 == [x \in Fields |-> IF hm[x] = n + 1 - k THEN list[k] ELSE hm[x]]
<1>1. /\ L \in Nat /\ L <= n /\ k \in 1..L /\ DOMAIN list = 1..L
      /\ \A j \in 1..L : list[j] \in 1..n
  OBVIOUS
<1>2. /\ hm \in [Fields -> 0..n]
      /\ \A x \in Fields : (\A j \in 1..(k - 1) : h[x] # n + 1 - j) => hm[x] = h[x]
      /\ \A x \in Fields, j \in 1..(k - 1) : h[x] = n + 1 - j => hm[x] = list[j] /\ list[j] <= n - L
  BY DEF Rehomed
<1>3. RemoveOne(r, list[k]).home = hm2
  BY DEF RemoveOne
<1>4. \A x \in Fields : h[x] \in 0..n /\ h[x] \notin ToSet(list)
  <2> SUFFICES ASSUME NEW x \in Fields PROVE h[x] \in 0..n /\ h[x] \notin ToSet(list)
    OBVIOUS
  <2>1. h[x] = IF Contains(list, home[x]) THEN 0 ELSE home[x]
    BY DEF WithoutFields
  <2>2. \A y : y \in ToSet(list) <=> Contains(list, y)
    BY <1>1 DEF ToSet, Contains
  <2>3. 0 \notin ToSet(list)
    BY <1>1 DEF ToSet
  <2> HIDE DEF h
  <2> QED BY <2>1, <2>2, <2>3
<1> HIDE DEF h, hm
<1>5. 1..k = (1..(k - 1)) \cup {k} /\ k \in Nat /\ k <= L /\ k >= 1
  BY <1>1
<1>6. hm2 \in [Fields -> 0..n]
  BY <1>1, <1>2
<1>7. ASSUME NEW x \in Fields, \A j \in 1..k : h[x] # n + 1 - j PROVE hm2[x] = h[x]
  <2>1. h[x] # n + 1 - k /\ hm[x] = h[x]
    BY <1>2, <1>5, <1>7
  <2> QED BY <2>1
<1>8. ASSUME NEW x \in Fields, NEW j \in 1..k, h[x] = n + 1 - j
      PROVE  hm2[x] = list[j] /\ list[j] <= n - L
  <2>1. CASE j \in 1..(k - 1)
    <3>1. hm[x] = list[j] /\ list[j] <= n - L
      BY <1>2, <1>8, <2>1
    <3>2. list[j] # n + 1 - k
      <4>1. j \in 1..L
        BY <1>1, <2>1
      <4>2. list[j] \in Nat
        BY <1>1, <4>1
      <4> QED BY <1>1, <1>5, <3>1, <4>2
    <3> QED BY <3>1, <3>2
  <2>2. CASE j = k
    <3>1. \A a \in 1..(k - 1) : h[x] # n + 1 - a
      BY <1>5, <1>8, <2>2
    <3>2. hm[x] = n + 1 - k
      BY <1>2, <1>8, <2>2, <3>1
    <3>3. list[k] <= n - L
      <4>1. list[k] \in 1..n /\ k \in DOMAIN list
        BY <1>1
      <4>2. n + 1 - k \notin ToSet(list)
        BY <1>4, <1>8, <2>2
      <4>3. ~(list[k] > n - L)
        BY <4>1, <4>2
      <4> QED BY <1>1, <4>1, <4>3
    <3> QED BY <2>2, <3>2, <3>3
  <2> QED BY <1>5, <2>1, <2>2
<1>9. Rehomed(n, list, k, hm2)
  <2> HIDE DEF hm2
  <2> QED BY <1>6, <1>7, <1>8 DEF Rehomed, h
<1> QED BY <1>3, <1>9

(* What is moved to a place that is kept stays, and nothing else that moves.  *)
Swaps(list, n) ==
  \A j \in DOMAIN list : list[j] > n - Len(list) <=> n + 1 - j \in ToSet(list)

LEMMA RemovedLoop ==
  ASSUME NEW fr \in Seq(FragType), home \in [Fields -> 0..Len(fr)],
         NEW list \in Seq(1..Len(fr)), list # <<>>, Injective(list), Len(list) <= Len(fr),
         fr[list[1]].parent \in 1..Len(fr),
         Swaps(list, Len(fr))
  PROVE  LET r == Removed(fr, list)
             marked == [fr EXCEPT ![fr[list[1]].parent].modified = TRUE]
         IN Emptied(marked, list, Len(list), r) /\ Rehomed(Len(fr), list, Len(list), r.home)
<1> DEFINE N == Len(fr)
           L == Len(list)
           f == Removing(fr, list)
           p == fr[list[1]].parent
           marked == [fr EXCEPT ![p].modified = TRUE]
           T == {k \in Nat : Emptied(marked, list, k, f[k]) /\ Rehomed(N, list, k, f[k].home)}
<1>1. /\ N \in Nat /\ L \in Nat /\ L <= N /\ DOMAIN list = 1..L /\ DOMAIN fr = 1..N
      /\ \A j \in 1..L : list[j] \in 1..N
  OBVIOUS
<1>2. Removed(fr, list) = f[L] /\ f[0] = RemovalStart(fr, list) /\ \A k \in 1..L : f[k] = RemoveOne(f[k - 1], list[k])
  BY <1>1, RemovingDefined
<1> HIDE DEF f
<1>3. marked \in Seq(FragType) /\ Len(marked) = N
  <2>1. p \in 1..N /\ fr[p] \in FragType
    BY <1>1
  <2>2. [fr[p] EXCEPT !.modified = TRUE] \in FragType
    BY <2>1 DEF FragType
  <2>3. marked = [fr EXCEPT ![p] = [fr[p] EXCEPT !.modified = TRUE]]
    BY <1>1, <2>1
  <2> HIDE DEF marked, p
  <2> QED BY <1>1, <2>1, <2>2, <2>3
<1>4. 0 \in T
  <2> DEFINE start == RemovalStart(fr, list)
  <2>1. start.arr = marked /\ start.n = N /\ start.home = WithoutFields(list) /\ start.gone = {}
    BY DEF RemovalStart
  <2> HIDE DEF start, marked
  <2>2. 1..0 = {}
    OBVIOUS
  <2>3. Emptied(marked, list, 0, start)
    BY <1>1, <1>3, <2>1, <2>2 DEF Emptied
  <2>4. WithoutFields(list) \in [Fields -> 0..N]
    BY <1>1 DEF WithoutFields
  <2>5. Rehomed(N, list, 0, start.home)
    BY <2>1, <2>2, <2>4 DEF Rehomed
  <2> QED BY <1>2, <2>3, <2>5 DEF start
<1> HIDE DEF marked
<1>5. \A k \in 1..L : k - 1 \in T => k \in T
  <2> SUFFICES ASSUME NEW k \in 1..L, k - 1 \in T PROVE k \in T
    OBVIOUS
  <2> DEFINE r == f[k - 1]
  <2>1. /\ k \in Nat /\ k - 1 \in Nat /\ f[k] = RemoveOne(r, list[k])
        /\ Emptied(marked, list, k - 1, r) /\ Rehomed(N, list, k - 1, r.home)
    BY <1>1, <1>2
  <2> HIDE DEF r, T
  <2>2. Emptied(marked, list, k, RemoveOne(r, list[k]))
    <3>1. list \in Seq(1..Len(marked)) /\ Len(list) <= Len(marked)
      BY <1>3
    <3>2. \A j \in DOMAIN list : list[j] <= Len(marked) - Len(list) => Len(marked) + 1 - j \notin ToSet(list)
      <4> SUFFICES ASSUME NEW j \in 1..L, list[j] <= N - L PROVE N + 1 - j \notin ToSet(list)
        BY <1>1, <1>3
      <4>1. list[j] \in 1..N
        BY <1>1
      <4>2. ~(list[j] > N - L)
        BY <1>1, <4>1
      <4> QED BY <1>1, <4>2 DEF Swaps
    <3> QED BY <1>3, <2>1, <3>1, <3>2, EmptyOne
  <2>3. r.n = N + 1 - k
    <3>1. r.n = N - (k - 1)
      BY <1>3, <2>1 DEF Emptied
    <3> QED BY <1>1, <3>1
  <2>4. Rehomed(N, list, k, RemoveOne(r, list[k]).home)
    BY <1>1, <2>1, <2>3, RehomeOne DEF Swaps
  <2> QED BY <2>1, <2>2, <2>4 DEF T
<1>6. \A k \in 0..L : k \in T
  <2> HIDE DEF T
  <2> QED BY <1>1, <1>4, <1>5, InductionTo
<1>7. Emptied(marked, list, L, f[L]) /\ Rehomed(N, list, L, f[L].home)
  BY <1>1, <1>6
<1> QED BY <1>2, <1>7 DEF marked
(* Where the fragment was that is in place q when all of a list are removed.  *)
From(list, q) ==
  IF q \in ToSet(list) THEN Len(frag) + 1 - (CHOOSE j \in DOMAIN list : list[j] = q) ELSE q

Leaving(i, list) ==
  /\ list \in Seq(1..Len(frag)) /\ Injective(list) /\ list # <<>> /\ list[1] = i
  /\ i \in ToSet(list) /\ 1 \notin ToSet(list) /\ frag[i].parent \notin ToSet(list)
  /\ \A j \in ToSet(list) : j = i \/ frag[j].parent \in ToSet(list)
  /\ \A j \in 1..Len(frag) : frag[j].parent \in ToSet(list) => j \in ToSet(list)

LEMMA FromIs ==
  ASSUME IInv, NEW i, NEW list, Leaving(i, list), Fits(list)
  PROVE  LET n == Len(frag)
             m == Len(frag) - Len(list)
             stay == (1..Len(frag)) \ ToSet(list)
         IN /\ n \in Nat /\ m \in 1..n /\ Swaps(list, n)
            /\ \A q \in 1..m : From(list, q) \in stay
            /\ \A q, s \in 1..m : From(list, q) = From(list, s) => q = s
            /\ \A s \in stay : s <= m => From(list, s) = s
            /\ \A s \in stay : \E q \in 1..m : From(list, q) = s
            /\ \A s \in stay : s > m =>
                 \A c \in 1..n : frag[c].parent = s => c \in ToSet(list)
            /\ \A q \in 1..m, j \in DOMAIN list : list[j] = q => From(list, q) = n + 1 - j
            /\ \A q \in 1..m : From(list, q) <= m => q = From(list, q) /\ q \in stay
<1> DEFINE n == Len(frag)
           L == Len(list)
           m == n - L
           stay == (1..n) \ ToSet(list)
           F(q) == From(list, q)
<1>1. /\ n \in Nat /\ L \in Nat /\ DOMAIN list = 1..L /\ \A j \in 1..L : list[j] \in 1..n
      /\ Indices = 1..n
  BY DEF IInv, Shape, Indices, Leaving
<1>2. m \in 1..n
  <2>1. n >= 1
    BY DEF IInv, Shape
  <2>2. L < n
    BY <1>1, <2>1, Pigeonhole DEF Leaving
  <2> QED BY <1>1, <2>2
<1>3. \A j \in 1..L : IF list[j] > m THEN n + 1 - j \in ToSet(list)
                      ELSE /\ n + 1 - j \notin ToSet(list)
                           /\ \A c \in 1..n : frag[c].parent = n + 1 - j => c \in ToSet(list)
  BY <1>1 DEF Fits
<1> HIDE DEF n, L, m
<1>4. ASSUME NEW j \in 1..L, list[j] <= m
      PROVE  /\ n + 1 - j \in stay /\ n + 1 - j > m
             /\ \A c \in 1..n : frag[c].parent = n + 1 - j => c \in ToSet(list)
  <2>1. list[j] \in 1..n
    BY <1>1
  <2>2. ~(list[j] > m)
    BY <1>2, <1>4, <2>1
  <2>3. n + 1 - j \in 1..n /\ n + 1 - j > m
    BY <1>1, <1>2 DEF m
  <2> QED BY <1>3, <2>2, <2>3
<1>5. ASSUME NEW q \in 1..m, NEW j \in 1..L, list[j] = q PROVE F(q) = n + 1 - j
  <2>1. \A a \in DOMAIN list : list[a] = q => a = j
    BY <1>1, <1>5 DEF Leaving, Injective
  <2>2. q \in ToSet(list) /\ j \in DOMAIN list
    BY <1>1, <1>5 DEF ToSet
  <2>3. (CHOOSE a \in DOMAIN list : list[a] = q) = j
    BY <1>5, <2>1, <2>2
  <2> QED BY <2>2, <2>3 DEF From, n
<1>6. \A q : q \notin ToSet(list) => F(q) = q
  BY DEF From
<1>7. \A q \in ToSet(list) : \E j \in 1..L : list[j] = q
  BY <1>1 DEF ToSet
<1> HIDE DEF F
<1>8. ASSUME NEW q \in 1..m
      PROVE  \/ q \in stay /\ F(q) = q
             \/ \E j \in 1..L : list[j] = q /\ F(q) = n + 1 - j /\ F(q) \in stay /\ F(q) > m
  <2>1. CASE q \in ToSet(list)
    <3>1. PICK j \in 1..L : list[j] = q
      BY <1>7, <2>1
    <3>2. list[j] <= m
      BY <1>2, <3>1
    <3> QED BY <1>4, <1>5, <3>1, <3>2
  <2>2. CASE q \notin ToSet(list)
    <3>1. q \in 1..n
      BY <1>1, <1>2
    <3> QED BY <1>6, <2>2, <3>1
  <2> QED BY <2>1, <2>2
<1>9. Swaps(list, n)
  <2> SUFFICES ASSUME NEW j \in 1..L PROVE list[j] > n - L <=> n + 1 - j \in ToSet(list)
    BY <1>1 DEF Swaps, L
  <2>1. n - L = m
    BY DEF m
  <2> QED BY <1>3, <2>1
<1>10. \A q \in 1..m : F(q) \in stay
  BY <1>8
<1>11. ASSUME NEW q \in 1..m, NEW s \in 1..m, F(q) = F(s) PROVE q = s
  <2>1. CASE q \in stay /\ F(q) = q
    <3>1. ~(F(s) > m)
      BY <1>2, <1>11, <2>1
    <3> QED BY <1>8, <1>11, <2>1, <3>1
  <2>2. CASE F(q) > m
    <3>1. ~(s \in stay /\ F(s) = s)
      BY <1>2, <1>11, <2>2
    <3>2. PICK a \in 1..L : list[a] = s /\ F(s) = n + 1 - a
      BY <1>8, <3>1
    <3>3. ~(q \in stay /\ F(q) = q)
      BY <1>2, <2>2
    <3>4. PICK b \in 1..L : list[b] = q /\ F(q) = n + 1 - b
      BY <1>8, <3>3
    <3>5. a = b
      BY <1>1, <1>11, <3>2, <3>4
    <3> QED BY <3>2, <3>4, <3>5
  <2> QED BY <1>8, <2>1, <2>2
<1>12. \A s \in stay : s <= m => F(s) = s
  BY <1>6
<1>13. ASSUME NEW s \in stay, s > m
       PROVE  /\ \E q \in 1..m : F(q) = s
              /\ \A c \in 1..n : frag[c].parent = s => c \in ToSet(list)
  <2> DEFINE j == n + 1 - s
  <2>1. j \in 1..L /\ s = n + 1 - j
    <3>1. s \in 1..n /\ s > n - L
      BY <1>13 DEF m
    <3> QED BY <1>1, <3>1
  <2> HIDE DEF j
  <2>2. ~(list[j] > m)
    BY <1>3, <2>1
  <2>3. list[j] <= m /\ list[j] \in 1..m
    BY <1>1, <1>2, <2>1, <2>2
  <2>4. F(list[j]) = s
    BY <1>5, <2>1, <2>3
  <2> QED BY <1>4, <2>1, <2>3, <2>4
<1>14. ASSUME NEW s \in stay PROVE \E q \in 1..m : F(q) = s
  <2>1. CASE s <= m
    <3>1. s \in 1..m
      BY <1>1, <1>2, <2>1
    <3> QED BY <1>12, <2>1, <3>1
  <2>2. CASE ~(s <= m)
    <3>1. s > m
      BY <1>1, <1>2, <2>2
    <3> QED BY <1>13, <3>1
  <2> QED BY <2>1, <2>2
<1>15. ASSUME NEW q \in 1..m, F(q) <= m PROVE q = F(q) /\ q \in stay
  <2>1. ~(F(q) > m)
    BY <1>1, <1>2, <1>10, <1>15
  <2> QED BY <1>8, <2>1
<1>16. \A q \in 1..m, j \in DOMAIN list : list[j] = q => F(q) = n + 1 - j
  BY <1>1, <1>5
<1> QED BY <1>1, <1>2, <1>9, <1>10, <1>11, <1>12, <1>13, <1>14, <1>15, <1>16 DEF F, n, m, L
LEMMA RemovedIs ==
  ASSUME IInv, NEW i \in Indices \ {1}, NEW list, Leaving(i, list), Fits(list),
         NEW fr, Like(frag, fr)
  PROVE  LET r == Removed(fr, list)
             m == Len(frag) - Len(list)
         IN /\ r.n = m /\ r.arr \in Seq(FragType) /\ Len(r.arr) = Len(frag)
            /\ \A q \in 1..m :
                 /\ r.arr[q].file = frag[From(list, q)].file
                 /\ r.arr[q].parent = frag[From(list, q)].parent
                 /\ ~r.arr[q].modified =>
                      From(list, q) # frag[i].parent /\ ~fr[From(list, q)].modified
            /\ r.home \in [Fields -> 0..m]
            /\ \A q \in 1..m, x \in Fields : r.home[x] = q <=> home[x] = From(list, q)
            /\ r.gone = {frag[j].file : j \in ToSet(list)}
<1> DEFINE n == Len(frag)
           L == Len(list)
           m == n - L
           stay == (1..n) \ ToSet(list)
           F(q) == From(list, q)
           p == frag[i].parent
           marked == [fr EXCEPT ![p].modified = TRUE]
           r == Removed(fr, list)
           h == WithoutFields(list)
<1>1. /\ n \in Nat /\ m \in 1..n /\ Swaps(list, n)
      /\ \A q \in 1..m : F(q) \in stay
      /\ \A s \in stay : s <= m => F(s) = s
      /\ \A q \in 1..m, j \in DOMAIN list : list[j] = q => F(q) = n + 1 - j
      /\ \A q \in 1..m : F(q) <= m => q = F(q) /\ q \in stay
  BY FromIs
<1>2. /\ list \in Seq(1..n) /\ Injective(list) /\ list # <<>> /\ list[1] = i
      /\ L \in Nat /\ DOMAIN list = 1..L /\ \A j \in 1..L : list[j] \in 1..n
  BY DEF Leaving
<1>3. /\ fr \in Seq(FragType) /\ Len(fr) = n /\ fr[i].parent = p /\ p \in 1..n
      /\ home \in [Fields -> 0..n] /\ i \in 1..n
      /\ \A q \in 1..n : fr[q].file = frag[q].file /\ fr[q].parent = frag[q].parent /\ fr[q] \in FragType
  <2>1. i \in 1..n /\ i # 1 /\ i \in 2..n
    BY <1>1 DEF Indices
  <2>2. p \in 1..n /\ home \in [Fields -> 0..n]
    BY <2>1 DEF IInv, Shape
  <2> QED BY <2>1, <2>2 DEF Like
<1>4. Emptied(marked, list, L, r) /\ Rehomed(n, list, L, r.home)
  <2>1. L <= n
    BY <1>1, <1>2
  <2> QED BY <1>1, <1>2, <1>3, <2>1, RemovedLoop
<1>5. /\ Len(marked) = n
      /\ \A q \in 1..n : /\ marked[q].file = frag[q].file /\ marked[q].parent = frag[q].parent
                         /\ ~marked[q].modified => q # p /\ ~fr[q].modified
  <2>1. Len(marked) = n
    BY <1>3
  <2>2. \A q \in 1..n : marked[q] = IF q = p THEN [fr[q] EXCEPT !.modified = TRUE] ELSE fr[q]
    <3>1. DOMAIN fr = 1..n
      BY <1>3
    <3> HIDE DEF p, n
    <3> QED BY <3>1
  <2> HIDE DEF marked
  <2>3. ASSUME NEW q \in 1..n
        PROVE  /\ marked[q].file = frag[q].file /\ marked[q].parent = frag[q].parent
               /\ ~marked[q].modified => q # p /\ ~fr[q].modified
    <3>1. fr[q] \in FragType /\ marked[q] = IF q = p THEN [fr[q] EXCEPT !.modified = TRUE] ELSE fr[q]
      BY <1>3, <2>2
    <3> HIDE DEF p
    <3> QED BY <1>3, <3>1 DEF FragType
  <2> QED BY <2>1, <2>3
<1> HIDE DEF marked, r, p, F
<1>6. /\ r.n = n - L /\ r.arr \in Seq(FragType) /\ Len(r.arr) = n
      /\ \A q \in 1..n : (\A j \in 1..L : list[j] # q) => r.arr[q] = marked[q]
      /\ \A j \in 1..L : list[j] <= n - L => r.arr[list[j]] = marked[n + 1 - j]
      /\ r.gone = {marked[list[j]].file : j \in 1..L}
  BY <1>4, <1>5 DEF Emptied
<1>7. /\ r.home \in [Fields -> 0..n]
      /\ \A x \in Fields : (\A j \in 1..L : h[x] # n + 1 - j) => r.home[x] = h[x]
      /\ \A x \in Fields, j \in 1..L : h[x] = n + 1 - j => r.home[x] = list[j] /\ list[j] <= n - L
  BY <1>4 DEF Rehomed
<1>8. \A x \in Fields : /\ h[x] \in 0..n /\ h[x] \notin ToSet(list)
                        /\ \A s \in stay : h[x] = s <=> home[x] = s
  <2> SUFFICES ASSUME NEW x \in Fields
               PROVE  /\ h[x] \in 0..n /\ h[x] \notin ToSet(list)
                      /\ \A s \in stay : h[x] = s <=> home[x] = s
    OBVIOUS
  <2>1. h[x] = IF Contains(list, home[x]) THEN 0 ELSE home[x]
    BY DEF WithoutFields
  <2>2. \A y : y \in ToSet(list) <=> Contains(list, y)
    BY <1>2 DEF ToSet, Contains
  <2>3. 0 \notin ToSet(list) /\ 0 \notin stay /\ home[x] \in 0..n
    BY <1>2, <1>3 DEF ToSet
  <2> HIDE DEF h
  <2> QED BY <1>1, <2>1, <2>2, <2>3
<1> HIDE DEF h, n, L, m
<1>9. ASSUME NEW q \in 1..m PROVE r.arr[q] = marked[F(q)]
  <2>1. q \in 1..n /\ q <= m
    BY <1>1
  <2>2. CASE \E j \in 1..L : list[j] = q
    <3>1. PICK j \in 1..L : list[j] = q
      BY <2>2
    <3>2. F(q) = n + 1 - j
      BY <1>1, <1>2, <3>1
    <3> QED BY <1>6, <2>1, <3>1, <3>2 DEF m
  <2>3. CASE \A j \in 1..L : list[j] # q
    <3>1. q \in stay
      BY <1>2, <2>1, <2>3 DEF ToSet
    <3>2. F(q) = q
      BY <1>1, <2>1, <3>1
    <3> QED BY <1>6, <2>1, <2>3, <3>2
  <2> QED BY <2>2, <2>3
<1>10. ASSUME NEW q \in 1..m
       PROVE  /\ r.arr[q].file = frag[F(q)].file /\ r.arr[q].parent = frag[F(q)].parent
              /\ ~r.arr[q].modified => F(q) # p /\ ~fr[F(q)].modified
  <2>1. F(q) \in 1..n
    BY <1>1
  <2> QED BY <1>5, <1>9, <2>1
<1>11. ASSUME NEW x \in Fields
       PROVE  r.home[x] \in 0..m /\ \A q \in 1..m : r.home[x] = q <=> h[x] = F(q)
  <2>1. CASE \E j \in 1..L : h[x] = n + 1 - j
    <3>1. PICK j \in 1..L : h[x] = n + 1 - j
      BY <2>1
    <3>2. r.home[x] = list[j] /\ list[j] <= m /\ list[j] \in 1..n
      BY <1>2, <1>7, <3>1 DEF m
    <3>3. list[j] \in 1..m
      BY <1>1, <3>2
    <3>4. F(list[j]) = h[x]
      BY <1>1, <1>2, <3>1, <3>3
    <3>5. ASSUME NEW q \in 1..m, h[x] = F(q) PROVE q = list[j]
      <4>1. \A a, b \in 1..m : F(a) = F(b) => a = b
        BY FromIs DEF F, m, n, L
      <4> QED BY <3>3, <3>4, <3>5, <4>1
    <3> QED BY <1>1, <3>2, <3>3, <3>4, <3>5
  <2>2. CASE \A j \in 1..L : h[x] # n + 1 - j
    <3>1. r.home[x] = h[x]
      BY <1>7, <2>2
    <3>2. h[x] \in 0..m
      <4> SUFFICES ASSUME h[x] > m PROVE FALSE
        BY <1>1, <1>8
      <4>1. h[x] \in 0..n
        BY <1>8
      <4>2. n + 1 - h[x] \in 1..L /\ h[x] = n + 1 - (n + 1 - h[x])
        BY <1>1, <1>2, <4>1 DEF m
      <4> QED BY <2>2, <4>2
    <3>3. ASSUME NEW q \in 1..m, h[x] = q PROVE h[x] = F(q)
      <4>1. q \in stay /\ q <= m
        BY <1>1, <1>8, <3>3
      <4> QED BY <1>1, <3>3, <4>1
    <3>4. ASSUME NEW q \in 1..m, h[x] = F(q) PROVE h[x] = q
      BY <1>1, <3>2, <3>4
    <3> QED BY <3>1, <3>2, <3>3, <3>4
  <2> QED BY <2>1, <2>2
<1>12. r.home \in [Fields -> 0..m]
  BY <1>7, <1>11
<1>13. \A q \in 1..m, x \in Fields : r.home[x] = q <=> home[x] = F(q)
  BY <1>1, <1>8, <1>11
<1>14. r.gone = {frag[j].file : j \in ToSet(list)}
  <2>1. \A j \in 1..L : marked[list[j]].file = frag[list[j]].file
    BY <1>2, <1>5
  <2>2. {marked[list[j]].file : j \in 1..L} = {frag[list[j]].file : j \in 1..L}
    BY <2>1
  <2>3. {frag[list[j]].file : j \in 1..L} = {frag[j].file : j \in ToSet(list)}
    BY <1>2 DEF ToSet
  <2> QED BY <1>6, <2>2, <2>3
<1> QED BY <1>6, <1>10, <1>12, <1>13, <1>14 DEF r, m, n, L, F, p
LEMMA SubSeqIs ==
  ASSUME NEW A, NEW seq \in Seq(A), NEW m \in 1..Len(seq)
  PROVE  LET q == SubSeq(seq, 1, m)
         IN q \in Seq(A) /\ Len(q) = m /\ DOMAIN q = 1..m /\ \A k \in 1..m : q[k] = seq[k]
<1>1. Len(seq) \in Nat /\ m \in Nat /\ \A k \in 1..m : k \in 1..Len(seq)
  OBVIOUS
<1> QED BY <1>1

(* What is left is the tree without the fragments removed.                    *)
Remains(i, list, fr, gr) ==
  LET m == Len(frag) - Len(list)
  IN /\ gr \in Seq(FragType) /\ Len(gr) = m /\ m \in 1..Len(frag)
     /\ \A q \in 1..m : /\ gr[q].file = frag[From(list, q)].file
                        /\ ~gr[q].modified =>
                             From(list, q) # frag[i].parent /\ ~fr[From(list, q)].modified
                        /\ From(list, q) # frag[i].parent =>
                             IncludedIn(gr, q) = IncludedIn(frag, From(list, q))
     /\ EachOnce(gr) /\ gr[1].file = Root /\ gr[1].parent = 0
     /\ \A q \in 2..m : gr[q].parent \in 1..m
     /\ \A S \in SUBSET (2..m) : S # {} => \E q \in S : gr[q].parent \notin S

LEMMA RemovedKept ==
  ASSUME IInv, NEW i \in Indices \ {1}, NEW list, Leaving(i, list), Fits(list),
         NEW fr, Like(frag, fr)
  PROVE  LET r == Removed(fr, list)
         IN Intact(r) /\ Remains(i, list, fr, SubSeq(r.arr, 1, r.n))
<1> DEFINE n == Len(frag)
           m == n - Len(list)
           stay == (1..n) \ ToSet(list)
           F(q) == From(list, q)
           p == frag[i].parent
           r == Removed(fr, list)
           gr == SubSeq(r.arr, 1, r.n)
<1>1. /\ n \in Nat /\ m \in 1..n
      /\ \A q \in 1..m : F(q) \in stay
      /\ \A q, s \in 1..m : F(q) = F(s) => q = s
      /\ \A s \in stay : s <= m => F(s) = s
      /\ \A s \in stay : \E q \in 1..m : F(q) = s
      /\ \A s \in stay : s > m => \A c \in 1..n : frag[c].parent = s => c \in ToSet(list)
      /\ \A q \in 1..m : F(q) <= m => q = F(q) /\ q \in stay
  BY FromIs
<1>2. /\ r.n = m /\ r.arr \in Seq(FragType) /\ Len(r.arr) = n
      /\ \A q \in 1..m :
           /\ r.arr[q].file = frag[F(q)].file /\ r.arr[q].parent = frag[F(q)].parent
           /\ ~r.arr[q].modified => F(q) # p /\ ~fr[F(q)].modified
      /\ r.home \in [Fields -> 0..m]
      /\ r.gone = {frag[j].file : j \in ToSet(list)}
  BY RemovedIs
<1>3. /\ 1 \notin ToSet(list) /\ ToSet(list) \subseteq 1..n
      /\ \A j \in ToSet(list) : j = i \/ frag[j].parent \in ToSet(list)
      /\ \A j \in 1..n : frag[j].parent \in ToSet(list) => j \in ToSet(list)
  BY DEF Leaving, ToSet
<1>4. /\ frag[1].parent = 0 /\ frag[1].file = Root
      /\ \A c \in 2..n : frag[c].parent \in 1..n
      /\ \A S \in SUBSET (2..n) : S # {} => \E q \in S : frag[q].parent \notin S
      /\ \A a, b \in 1..n : frag[a].file = frag[b].file => a = b
  <2>1. DOMAIN frag = 1..n
    BY DEF IInv, Shape
  <2> QED BY <2>1 DEF IInv, Shape, EachOnce
<1> HIDE DEF F, r, p, n, m, gr
<1>5. 1 \in 1..m /\ 1 \in 1..n /\ F(1) = 1
  <2>1. 1 \in 1..m /\ 1 \in 1..n /\ 1 <= m
    BY <1>1
  <2> QED BY <1>1, <1>3, <2>1
<1>6. /\ gr \in Seq(FragType) /\ Len(gr) = m /\ DOMAIN gr = 1..m
      /\ \A q \in 1..m : gr[q] = r.arr[q]
  <2>1. gr = SubSeq(r.arr, 1, m)
    BY <1>2 DEF gr
  <2>2. m \in 1..Len(r.arr)
    BY <1>1, <1>2
  <2> QED BY <1>2, <2>1, <2>2, SubSeqIs
<1>7. \A q \in 1..m :
        /\ gr[q].file = frag[F(q)].file /\ gr[q].parent = frag[F(q)].parent
        /\ ~gr[q].modified => F(q) # p /\ ~fr[F(q)].modified
  BY <1>2, <1>6
<1>8. ASSUME NEW q \in 2..m
      PROVE  /\ F(q) \in 2..n /\ gr[q].parent \in 1..m
             /\ F(gr[q].parent) = gr[q].parent /\ q \in 1..m
  <2>1. q \in 1..m /\ q # 1
    BY <1>1
  <2>2. F(q) \in 1..n /\ F(q) \notin ToSet(list) /\ F(q) # 1
    BY <1>1, <1>5, <2>1
  <2>3. F(q) \in 2..n
    BY <1>1, <2>2
  <2> DEFINE a == frag[F(q)].parent
  <2>4. a \in 1..n /\ a \notin ToSet(list) /\ gr[q].parent = a
    BY <1>3, <1>4, <1>7, <2>1, <2>2, <2>3
  <2>5. ~(a > m)
    BY <1>1, <2>2, <2>4
  <2> HIDE DEF a
  <2>6. a \in 1..m /\ a <= m
    BY <1>1, <2>4, <2>5
  <2>7. F(a) = a
    BY <1>1, <2>4, <2>6
  <2> QED BY <2>1, <2>3, <2>4, <2>6, <2>7
<1>9. gr[1].file = Root /\ gr[1].parent = 0
  BY <1>4, <1>5, <1>7
<1>10. ASSUME NEW S \in SUBSET (2..m), S # {} PROVE \E q \in S : gr[q].parent \notin S
  <2> DEFINE R == {F(q) : q \in S}
  <2>1. R \in SUBSET (2..n) /\ R # {}
    BY <1>8, <1>10
  <2>2. PICK c \in R : frag[c].parent \notin R
    <3> HIDE DEF R
    <3> QED BY <1>4, <2>1
  <2>3. PICK q \in S : c = F(q)
    OBVIOUS
  <2>4. gr[q].parent = frag[c].parent /\ F(gr[q].parent) = gr[q].parent
    BY <1>7, <1>8, <2>3
  <2>5. gr[q].parent \in S => F(gr[q].parent) \in R
    OBVIOUS
  <2> HIDE DEF R
  <2> QED BY <2>2, <2>4, <2>5
<1>11. EachOnce(gr)
  <2>1. \A a, b \in 1..m : gr[a].file = gr[b].file => a = b
    <3>1. \A a \in 1..m : F(a) \in 1..n /\ gr[a].file = frag[F(a)].file
      BY <1>1, <1>7
    <3>2. \A a, b \in 1..m : F(a) = F(b) => a = b
      BY <1>1
    <3> QED BY <1>4, <3>1, <3>2
  <2> QED BY <1>6, <2>1 DEF EachOnce
<1>12. ASSUME NEW q \in 1..m, F(q) # p PROVE IncludedIn(gr, q) = IncludedIn(frag, F(q))
  <2>1. ASSUME NEW c \in 1..m, gr[c].parent = q
        PROVE  F(c) \in 1..n /\ frag[F(c)].parent = F(q) /\ gr[c].file = frag[F(c)].file
    <3>1. c # 1
      <4>1. q # 0
        BY <1>1
      <4> QED BY <1>9, <2>1, <4>1
    <3>2. c \in 2..m
      BY <1>1, <3>1
    <3>3. F(q) = q
      BY <1>8, <2>1, <3>2
    <3> QED BY <1>1, <1>7, <2>1, <3>3
  <2>2. ASSUME NEW c \in 1..n, frag[c].parent = F(q)
        PROVE  \E b \in 1..m : gr[b].parent = q /\ gr[b].file = frag[c].file
    <3>1. F(q) \in stay /\ F(q) \in 1..n /\ F(q) \notin ToSet(list)
      BY <1>1
    <3>2. c \notin ToSet(list)
      BY <1>3, <1>12, <2>2, <3>1 DEF p
    <3>3. PICK b \in 1..m : F(b) = c
      BY <1>1, <3>2
    <3>4. ~(F(q) > m)
      BY <1>1, <2>2, <3>1, <3>2
    <3>5. F(q) <= m
      BY <1>1, <3>1, <3>4
    <3>6. F(q) = q
      BY <1>1, <3>5
    <3> QED BY <1>7, <2>2, <3>3, <3>6
  <2>3. IncludedIn(gr, q) = {gr[c].file : c \in {c \in 1..m : gr[c].parent = q}}
    BY <1>6 DEF IncludedIn
  <2>4. IncludedIn(frag, F(q)) = {frag[c].file : c \in {c \in 1..n : frag[c].parent = F(q)}}
    <3>1. DOMAIN frag = 1..n
      BY DEF n, IInv, Shape
    <3> QED BY <3>1 DEF IncludedIn
  <2>5. IncludedIn(gr, q) \subseteq IncludedIn(frag, F(q))
    <3> SUFFICES ASSUME NEW c \in 1..m, gr[c].parent = q PROVE gr[c].file \in IncludedIn(frag, F(q))
      BY <2>3
    <3> QED BY <2>1, <2>4
  <2>6. IncludedIn(frag, F(q)) \subseteq IncludedIn(gr, q)
    BY <2>2, <2>3, <2>4
  <2> QED BY <2>5, <2>6
<1>13. Intact(r)
  <2>1. ASSUME NEW q \in 1..m PROVE r.arr[q].file \notin r.gone /\ r.arr[q].parent <= m
    <3>1. F(q) \in 1..n /\ F(q) \notin ToSet(list)
      BY <1>1
    <3>2. \A j \in ToSet(list) : frag[j].file # frag[F(q)].file
      BY <1>3, <1>4, <3>1
    <3>3. r.arr[q].file \notin r.gone
      BY <1>2, <3>2
    <3>4. r.arr[q].parent = gr[q].parent
      BY <1>6
    <3>5. CASE q = 1
      <4>1. r.arr[q].parent = 0 /\ 0 <= m
        BY <1>1, <1>9, <3>4, <3>5
      <4> QED BY <3>3, <4>1
    <3>6. CASE q # 1
      <4>1. q \in 2..m
        BY <1>1, <3>6
      <4>2. gr[q].parent \in 1..m
        BY <1>8, <4>1
      <4>3. gr[q].parent <= m
        BY <1>1, <4>2
      <4> QED BY <3>3, <3>4, <4>3
    <3> QED BY <3>5, <3>6
  <2>2. \A x \in Fields : r.home[x] <= m
    <3>1. \A x \in Fields : r.home[x] \in 0..m
      BY <1>2
    <3> QED BY <1>1, <3>1
  <2> QED BY <1>2, <2>1, <2>2 DEF Intact
<1>14. Remains(i, list, fr, gr)
  BY <1>1, <1>6, <1>7, <1>8, <1>9, <1>10, <1>11, <1>12 DEF Remains, F, p, n, m
<1> QED BY <1>13, <1>14 DEF gr, r

LEMMA RemovedSound ==
  ASSUME IInv, NEW i \in Indices \ {1}, NEW list, Leaving(i, list), Fits(list),
         ~Protected(frag[i].parent),
         NEW d, NEW fr, Like(frag, fr), Shape(d, fr, home), Clean(d, fr, home),
         NEW gone \in {{}, {frag[j].file : j \in ToSet(list)}},
         disk' = Restrict(d, DOMAIN d \ gone),
         frag' = SubSeq(Removed(fr, list).arr, 1, Removed(fr, list).n),
         home' = Removed(fr, list).home,
         reference' = reference, run' = IF Intact(Removed(fr, list)) THEN "ok" ELSE "broken"
  PROVE  IInv' /\ KeptStep
<1> DEFINE n == Len(frag)
           m == n - Len(list)
           stay == (1..n) \ ToSet(list)
           F(q) == From(list, q)
           p == frag[i].parent
           r == Removed(fr, list)
<1>1. /\ n \in Nat /\ m \in 1..n /\ \A q \in 1..m : F(q) \in stay
      /\ \A s \in stay : s <= m => F(s) = s
  BY FromIs
<1>2. /\ Intact(r) /\ frag' \in Seq(FragType) /\ Len(frag') = m
      /\ \A q \in 1..m : /\ frag'[q].file = frag[F(q)].file
                         /\ ~frag'[q].modified => F(q) # p /\ ~fr[F(q)].modified
                         /\ F(q) # p => IncludedIn(frag', q) = IncludedIn(frag, F(q))
      /\ EachOnce(frag') /\ frag'[1].file = Root /\ frag'[1].parent = 0
      /\ \A q \in 2..m : frag'[q].parent \in 1..m
      /\ \A S \in SUBSET (2..m) : S # {} => \E q \in S : frag'[q].parent \notin S
  <2>1. Intact(r) /\ Remains(i, list, fr, SubSeq(r.arr, 1, r.n))
    BY RemovedKept
  <2>2. Remains(i, list, fr, frag')
    BY <2>1
  <2> HIDE DEF r
  <2> QED BY <2>1, <2>2 DEF Remains
<1>3. /\ home' \in [Fields -> 0..m]
      /\ \A q \in 1..m, x \in Fields : home'[x] = q <=> home[x] = F(q)
  BY RemovedIs
<1>4. /\ 1 \notin ToSet(list) /\ ToSet(list) \subseteq 1..n
      /\ \A a, b \in 1..n : frag[a].file = frag[b].file => a = b
      /\ DOMAIN frag = 1..n /\ DOMAIN fr = 1..n /\ frag \in Seq(FragType)
      /\ DOMAIN frag' = 1..m
  <2>1. DOMAIN frag = 1..n /\ frag \in Seq(FragType)
    BY DEF IInv, Shape
  <2>2. 1 \notin ToSet(list) /\ ToSet(list) \subseteq 1..n
    BY DEF Leaving, ToSet
  <2>3. \A a, b \in 1..n : frag[a].file = frag[b].file => a = b
    BY <2>1 DEF IInv, EachOnce
  <2>4. DOMAIN fr = 1..n
    BY DEF Like
  <2>5. DOMAIN frag' = 1..m
    BY <1>2
  <2> QED BY <2>1, <2>2, <2>3, <2>4, <2>5
<1> HIDE DEF F, r, p, n, m
<1>5. \A q \in 1..m : frag[F(q)].file \notin gone
  <2> SUFFICES ASSUME NEW q \in 1..m PROVE frag[F(q)].file \notin gone
    OBVIOUS
  <2>1. F(q) \in 1..n /\ F(q) \notin ToSet(list)
    BY <1>1
  <2>2. \A j \in ToSet(list) : frag[j].file # frag[F(q)].file
    BY <1>4, <2>1
  <2> QED BY <2>2
<1>6. /\ DOMAIN disk' = DOMAIN d \ gone
      /\ \A f \in DOMAIN d \ gone : disk'[f] = d[f]
  BY DEF Restrict
<1>7. Formats(disk')
  <2>1. Formats(d)
    BY DEF Shape
  <2>2. Root \notin gone
    <3>1. 1 \in 1..m
      BY <1>1
    <3> QED BY <1>2, <1>5, <3>1
  <2> QED BY <1>6, <2>1, <2>2 DEF Formats
<1>8. Shape(disk', frag', home')
  <2>1. Len(frag') >= 1
    BY <1>1, <1>2
  <2> QED BY <1>2, <1>3, <1>7, <2>1 DEF Shape
<1>9. ASSUME NEW q \in 1..m, ~frag'[q].modified PROVE Written(disk', frag', home', q)
  <2>1. F(q) \in 1..n /\ F(q) # p /\ ~fr[F(q)].modified
    BY <1>1, <1>2, <1>9
  <2>2. Written(d, fr, home, F(q))
    BY <1>4, <2>1 DEF Clean
  <2>3. Written(d, frag, home, F(q))
    BY <1>4, <2>1, <2>2, LikeSame DEF n
  <2> DEFINE f == frag[F(q)].file
  <2>4. /\ f \in DOMAIN d /\ Told(d[f], "field") = {x \in Fields : home[x] = F(q)}
        /\ Told(d[f], "include") = IncludedIn(frag, F(q))
    BY <2>3 DEF Written
  <2>5. frag'[q].file = f /\ f \in DOMAIN disk' /\ disk'[f] = d[f]
    BY <1>2, <1>5, <1>6, <2>4
  <2>6. {x \in Fields : home'[x] = q} = {x \in Fields : home[x] = F(q)}
    BY <1>3
  <2>7. IncludedIn(frag', q) = IncludedIn(frag, F(q))
    BY <1>2, <2>1
  <2> HIDE DEF f
  <2> QED BY <2>4, <2>5, <2>6, <2>7 DEF Written
<1>10. Clean(disk', frag', home')
  BY <1>4, <1>9 DEF Clean
<1>11. KeptStep
  <2> SUFFICES ASSUME NEW a \in Indices, Protected(a), NEW j \in 1..Len(frag'),
                      frag'[j].file = frag[a].file
               PROVE  /\ {x \in Fields : home[x] = a} = {x \in Fields : home'[x] = j}
                      /\ IncludedIn(frag, a) = IncludedIn(frag', j)
    BY DEF KeptStep
  <2>1. j \in 1..m /\ a \in 1..n
    BY <1>2 DEF Indices, n
  <2>2. F(j) = a
    BY <1>1, <1>2, <1>4, <2>1
  <2>3. a # p
    BY DEF p
  <2>4. IncludedIn(frag', j) = IncludedIn(frag, a)
    BY <1>2, <2>1, <2>2, <2>3
  <2>5. {x \in Fields : home'[x] = j} = {x \in Fields : home[x] = a}
    BY <1>3, <2>1, <2>2
  <2> QED BY <2>4, <2>5
<1>12. run' = "ok" /\ reference' = reference
  BY <1>2 DEF r
<1>13. IInv'
  BY <1>2, <1>8, <1>10, <1>12 DEF IInv
<1> QED BY <1>11, <1>13
LEMMA UnincludeSound ==
  ASSUME Careful, IInv, run = "ok", NEW i \in Indices \ {1}, NEW del \in BOOLEAN,
         Uninclude(i, del)
  PROVE  IInv' /\ KeptStep
<1> DEFINE list == Collect(i)
           p == frag[i].parent
           files == {frag[j].file : j \in ToSet(list)}
           Finish(st) ==
             /\ disk' = Restrict(st.disk, DOMAIN st.disk \ (IF del THEN files ELSE {}))
             /\ frag' = SubSeq(Removed(st.frag, list).arr, 1, Removed(st.frag, list).n)
             /\ home' = Removed(st.frag, list).home
             /\ reference' = IF reference \in Fields /\ Contains(list, home[reference])
                             THEN Freed ELSE reference
             /\ run' = IF Intact(Removed(st.frag, list)) THEN "ok" ELSE "broken"
<1>1. Leaving(i, list)
  BY CollectIs DEF Leaving
<1>2. MayUninclude(list)
  BY DEF Uninclude
<1>3. CASE Protected(p)
  <2>1. Refuse("uninclude")
    BY <1>3 DEF Uninclude
  <2> QED BY <2>1, RefuseSound
<1>4. CASE ~Protected(p)
  <2>1. PICK st \in IF del THEN {Now} ELSE FlushMeta(Now, list) :
          IF st.err THEN Call("uninclude", st) ELSE Finish(st)
    BY <1>4 DEF Uninclude
  <2> HIDE DEF list, Finish
  <2>2. /\ list \in Seq(1..Len(frag)) /\ Len(list) \in Nat
        /\ \A y : Contains(list, y) <=> y \in ToSet(list)
    <3>1. list \in Seq(1..Len(frag))
      BY <1>1 DEF Leaving
    <3>2. Len(list) \in Nat /\ DOMAIN list = 1..Len(list)
      BY <3>1
    <3> QED BY <3>1, <3>2 DEF Contains, ToSet
  <2>3. CASE st.err
    <3>1. st # Now
      BY <2>3, NowIs
    <3>2. st \in FlushMeta(Now, list) /\ Call("uninclude", st)
      BY <2>1, <2>3, <3>1
    <3> QED BY <2>2, <3>2, FlushCall
  <2>4. CASE ~st.err
    <3>1. Finish(st)
      BY <2>1, <2>4
    <3>2. Like(frag, st.frag) /\ Shape(st.disk, st.frag, home) /\ Clean(st.disk, st.frag, home)
      <4>1. CASE st = Now
        <5>1. frag \in Seq(FragType) /\ Like(frag, frag)
          BY DEF IInv, Shape, Like
        <5> QED BY <4>1, <5>1, NowIs DEF IInv
      <4>2. CASE st \in FlushMeta(Now, list)
        BY <2>2, <4>2, FlushNow
      <4> QED BY <2>1, <4>1, <4>2
    <3>3. Fits(list)
      BY <1>2, <2>2 DEF MayUninclude, Fits
    <3>4. reference' = reference
      <4>1. reference \in Fields => ~Contains(list, home[reference])
        BY <1>2 DEF MayUninclude
      <4> QED BY <3>1, <4>1 DEF Finish
    <3>5. /\ disk' = Restrict(st.disk, DOMAIN st.disk \ (IF del THEN files ELSE {}))
          /\ frag' = SubSeq(Removed(st.frag, list).arr, 1, Removed(st.frag, list).n)
          /\ home' = Removed(st.frag, list).home
          /\ run' = IF Intact(Removed(st.frag, list)) THEN "ok" ELSE "broken"
      BY <3>1 DEF Finish
    <3>6. (IF del THEN files ELSE {}) \in {{}, files}
      OBVIOUS
    <3> QED BY <1>1, <1>4, <3>2, <3>3, <3>4, <3>5, <3>6, RemovedSound
  <2> QED BY <2>3, <2>4
<1> QED BY <1>3, <1>4
-------------------------------------------------------------------------------
(* Every step.                                                                *)
LEMMA DiscardSound ==
  ASSUME IInv, Discard, EachOnce(frag')
  PROVE  IInv' /\ KeptStep
<1>1. Formats(disk) /\ Reopens(disk)
  BY DEF Discard, IInv, Shape
<1> QED BY <1>1, ReopenSound

LEMMA WriteSound ==
  ASSUME IInv, run = "ok", Metaflush \/ Close, run' = "broken" \/ EachOnce(frag')
  PROVE  IInv' /\ KeptStep
<1>1. AllFragments \in Seq(1..Len(frag))
  BY AllIs DEF IInv, Shape
<1>2. CASE Metaflush
  <2>1. PICK st \in FlushMeta(Now, AllFragments) : Call("flush", st)
    BY <1>2 DEF Metaflush
  <2> QED BY <1>1, <2>1, FlushCall
<1>3. CASE Close
  <2>1. PICK st \in FlushMeta(Now, AllFragments) :
          IF st.err THEN Call("close", st) ELSE Reopens(st.disk)
    BY <1>3 DEF Close
  <2>2. CASE st.err
    BY <1>1, <2>1, <2>2, FlushCall
  <2>3. CASE ~st.err
    <3>1. Reopens(st.disk) /\ run' # "broken"
      BY <2>1, <2>3 DEF Reopens
    <3>2. Formats(st.disk)
      BY <1>1, FlushNow DEF Shape
    <3> QED BY <3>1, <3>2, ReopenSound
  <2> QED BY <2>2, <2>3
<1> QED BY <1>2, <1>3

LEMMA NextSound ==
  ASSUME Careful, IInv, Next
  PROVE  IInv' /\ KeptStep
<1>1. run = "ok" /\ (run' = "broken" \/ EachOnce(frag'))
  BY DEF Next
<1>2. ASSUME NEW g \in Indices, NEW file \in Files, NEW creat \in BOOLEAN, NEW ignore \in BOOLEAN,
             Include(g, file, creat, ignore)
      PROVE  IInv' /\ KeptStep
  <2>1. run' # "broken"
    BY <1>1, <1>2 DEF Include, Refuse, Call
  <2> QED BY <1>1, <1>2, <2>1, IncludeSound
<1>3. ASSUME NEW i \in Indices \ {1}, NEW del \in BOOLEAN, Uninclude(i, del)
      PROVE  IInv' /\ KeptStep
  BY <1>1, <1>3, UnincludeSound
<1>4. ASSUME NEW g \in Indices, NEW x \in Fields, Add(g, x) PROVE IInv' /\ KeptStep
  BY <1>1, <1>4, AddSound
<1>5. ASSUME NEW g \in Indices, NEW x \in Fields, Move(x, g) PROVE IInv' /\ KeptStep
  BY <1>1, <1>5, MoveSound
<1>6. ASSUME NEW x \in Fields, Delete(x) PROVE IInv' /\ KeptStep
  BY <1>1, <1>6, DeleteSound
<1>7. ASSUME NEW x \in Fields, Reference(x) PROVE IInv' /\ KeptStep
  BY <1>1, <1>7, ReferenceSound
<1>8. ASSUME NEW i \in Indices, NEW level \in Levels, AlterProtection(i, level)
      PROVE  IInv' /\ KeptStep
  <2>1. level \in ProtLevels
    BY FragmentsAssumption
  <2> QED BY <1>1, <1>8, <2>1, ProtectSound
<1>9. ASSUME NEW list \in {<<i>> : i \in Indices} \cup {AllFragments}, RewriteFragment(list)
      PROVE  IInv' /\ KeptStep
  <2>1. list \in Seq(1..Len(frag))
    <3>1. AllFragments \in Seq(1..Len(frag))
      BY AllIs DEF IInv, Shape
    <3>2. \A i \in 1..Len(frag) : <<i>> \in Seq(1..Len(frag))
      OBVIOUS
    <3> QED BY <3>1, <3>2 DEF Indices
  <2> QED BY <1>1, <1>9, <2>1, RewriteSound
<1>10. ASSUME Metaflush \/ Close PROVE IInv' /\ KeptStep
  BY <1>1, <1>10, WriteSound
<1>11. ASSUME Discard PROVE IInv' /\ KeptStep
  <2>1. run' # "broken"
    BY <1>11 DEF Discard, Reopens
  <2> QED BY <1>1, <1>11, <2>1, DiscardSound
<1> QED BY <1>2, <1>3, <1>4, <1>5, <1>6, <1>7, <1>8, <1>9, <1>10, <1>11 DEF Next

LEMMA StutterSound ==
  ASSUME IInv, UNCHANGED vars
  PROVE  IInv' /\ KeptStep
<1>1. disk' = disk /\ frag' = frag /\ home' = home /\ reference' = reference /\ run' = run
  BY DEF vars
<1>2. Like(frag, frag')
  BY <1>1 DEF Like, IInv, Shape
<1>3. KeptStep
  BY <1>1, <1>2, LikeKept
<1>4. IInv'
  BY <1>1 DEF IInv
<1> QED BY <1>3, <1>4

LEMMA InitSound == Init => IInv
<1> SUFFICES ASSUME Init PROVE IInv
  OBVIOUS
<1> DEFINE st == OpenDirfile(disk)
<1>1. /\ ~st.err /\ EachOnce(st.frag) /\ frag = st.frag /\ home = st.home
      /\ reference = st.reference /\ run = "ok" /\ disk \in InitDisks
  BY DEF Init
<1>2. Formats(disk)
  BY <1>1, FragmentsAssumption
<1>3. /\ Shape(disk, st.frag, st.home) /\ Clean(disk, st.frag, st.home)
      /\ st.reference \in Raws \cup {None}
  BY <1>1, <1>2, OpenIs
<1> HIDE DEF st
<1> QED BY <1>1, <1>3 DEF IInv

LEMMA InvariantHolds == ASSUME Careful PROVE Spec => []IInv
<1>1. Init => IInv
  BY InitSound
<1>2. IInv /\ [Next]_vars => IInv'
  BY NextSound, StutterSound
<1> QED BY <1>1, <1>2, PTL DEF Spec

LEMMA TypeIs == IInv => TypeOK
<1> SUFFICES ASSUME IInv PROVE TypeOK
  OBVIOUS
<1>1. /\ Formats(disk) /\ frag \in Seq(FragType) /\ Len(frag) \in Nat /\ Len(frag) >= 1
      /\ frag[1].parent = 0 /\ \A i \in 2..Len(frag) : frag[i].parent \in 1..Len(frag)
      /\ home \in [Fields -> 0..Len(frag)]
      /\ reference \in Raws \cup {None} /\ run \in {"ok", "invalid"}
  BY DEF IInv, Shape
<1>2. ASSUME NEW i \in Indices
      PROVE  frag[i] \in [file : Files, parent : 0..Len(frag), modified : BOOLEAN,
                          prot : ProtLevels, ref : Fields \cup {None}]
  <2>1. frag[i] \in FragType
    BY <1>1 DEF Indices
  <2>2. frag[i].parent \in 0..Len(frag)
    <3>1. i = 1 \/ i \in 2..Len(frag)
      BY <1>1 DEF Indices
    <3> QED BY <1>1, <3>1
  <2> QED BY <2>1, <2>2 DEF FragType
<1>3. reference # Freed
  BY <1>1, FragmentsAssumption DEF Fields
<1> QED BY <1>1, <1>2, <1>3 DEF TypeOK

(* Whatever the format files contain and whichever calls careful callers make,*)
(* the indices that _GD_ParseFragment, gd_uninclude and the others keep of    *)
(* parents and of the fragments of fields have fragments, and nothing that    *)
(* gd_uninclude or gd_delete freed is used.                                   *)
THEOREM TypeCorrect == ASSUME Careful PROVE Spec => []TypeOK
BY InvariantHolds, TypeIs, PTL

(* Whatever careful callers do, and whichever rename in _GD_FlushMeta fails,  *)
(* the format file of each fragment that is not marked as modified tells      *)
(* exactly the fields and the fragments that the fragment has in memory.      *)
THEOREM CleanOnDiskHolds == ASSUME Careful PROVE Spec => []CleanOnDisk
<1>1. IInv => CleanOnDisk
  <2> SUFFICES ASSUME IInv, NEW i \in Indices, run = "ok", ~frag[i].modified
               PROVE  /\ frag[i].file \in DOMAIN disk
                      /\ OnDisk(i, "field") = {x \in Fields : home[x] = i}
                      /\ OnDisk(i, "include") = IncludedIn(frag, i)
    BY DEF CleanOnDisk
  <2>1. i \in DOMAIN frag
    BY DEF IInv, Shape, Indices
  <2>2. Written(disk, frag, home, i)
    BY <2>1 DEF IInv, Clean
  <2>3. \A is : OnDisk(i, is) = Told(disk[frag[i].file], is)
    BY DEF OnDisk, Told
  <2> QED BY <2>2, <2>3 DEF Written
<1> QED BY <1>1, InvariantHolds, PTL

(* No call but opening changes the fields or the includes of a fragment whose *)
(* format is protected, as long as the fragment is part of the dirfile, even  *)
(* when it moves in the array because gd_uninclude removes another.           *)
THEOREM ProtectedKeptHolds == ASSUME Careful PROVE Spec => ProtectedKept
<1>1. IInv /\ [Next]_vars => [KeptStep]_vars
  BY NextSound, StutterSound
<1>2. ProtectedKept <=> [][KeptStep]_vars
  BY PTL DEF ProtectedKept, KeptStep
<1> QED BY <1>1, <1>2, InvariantHolds, PTL DEF Spec
=================================================================================
