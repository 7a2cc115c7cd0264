----------------------------- MODULE RingLemmas -----------------------------
(***************************************************************************)
(* Facts the proofs about both rings of std/sync/ring.ts rest on.  A ring  *)
(* keeps ever-growing positions and finds the memory of position k at      *)
(* k % n (MpscRing.slotAt, and the masked offsets of SpscRing): the first  *)
(* facts say when two positions share a slot.  The others say what         *)
(* appending to a sequence, and taking its first element, do to the part   *)
(* after its first d elements: a history of records split by a count is a  *)
(* queue.                                                                  *)
(***************************************************************************)
EXTENDS Integers, Sequences, SequenceTheorems, TLAPS

\* A number is its quotient and its remainder.
LEMMA DivMod ==
  ASSUME NEW n \in Nat \ {0}, NEW a \in Nat
  PROVE  /\ a \div n \in Nat
         /\ a % n \in 0..(n - 1)
         /\ a = n * (a \div n) + (a % n)
OBVIOUS

\* A positive multiple of n is at least n.
LEMMA MultipleAtLeast ==
  ASSUME NEW n \in Nat \ {0}, NEW q \in Int, q >= 1
  PROVE  n * q >= n
OBVIOUS

\* Quotient and remainder are unique.
LEMMA DivModUnique ==
  ASSUME NEW n \in Nat \ {0}, NEW q \in Nat, NEW s \in Nat,
         NEW r \in 0..(n - 1), NEW t \in 0..(n - 1),
         n * q + r = n * s + t
  PROVE  q = s /\ r = t
<1>1. CASE q >= s + 1
  <2>1. n * (q - s) >= n BY <1>1, MultipleAtLeast
  <2>2. n * (q - s) = n * q - n * s OBVIOUS
  <2> QED BY <2>1, <2>2
<1>2. CASE s >= q + 1
  <2>1. n * (s - q) >= n BY <1>2, MultipleAtLeast
  <2>2. n * (s - q) = n * s - n * q OBVIOUS
  <2> QED BY <2>1, <2>2
<1>3. CASE s = q BY <1>3
<1> QED BY <1>1, <1>2, <1>3

\* The remainder of q * n + r, for a remainder r.
LEMMA ModOf ==
  ASSUME NEW n \in Nat \ {0}, NEW a \in Nat, NEW q \in Nat, NEW r \in 0..(n - 1),
         a = n * q + r
  PROVE  a % n = r
<1> DEFINE s == a \div n
<1> DEFINE t == a % n
<1>1. s \in Nat /\ t \in 0..(n - 1) /\ n * q + r = n * s + t BY DivMod
<1> HIDE DEF s, t
<1>2. r = t BY <1>1, DivModUnique
<1> QED BY <1>2 DEF t

\* Two positions less than a lap apart do not share a slot.
LEMMA SameSlot ==
  ASSUME NEW n \in Nat \ {0}, NEW a \in Nat, NEW b \in Nat,
         a <= b, b < a + n, a % n = b % n
  PROVE  a = b
<1> DEFINE qa == a \div n
<1> DEFINE qb == b \div n
<1> DEFINE r == a % n
<1>1. qa \in Nat /\ r \in 0..(n - 1) /\ a = n * qa + r BY DivMod
<1>2. qb \in Nat /\ b = n * qb + r BY DivMod
<1> HIDE DEF qa, qb, r
<1>3. n * (qb - qa) = b - a
  <2>1. n * (qb - qa) = n * qb - n * qa BY <1>1, <1>2
  <2> QED BY <1>1, <1>2, <2>1
<1>4. ~(qb - qa >= 1) BY <1>1, <1>2, <1>3, MultipleAtLeast
<1>5. ~(qa - qb >= 1)
  <2>1. n * (qa - qb) = n * qa - n * qb BY <1>1, <1>2
  <2>2. n * (qb - qa) = n * qb - n * qa BY <1>1, <1>2
  <2>3. n * (qa - qb) = a - b BY <1>1, <1>2, <2>1
  <2> QED BY <1>1, <1>2, <2>3, MultipleAtLeast
<1>6. qa = qb BY <1>1, <1>2, <1>4, <1>5
<1> QED BY <1>1, <1>2, <1>6

\* A position and the one a lap later share a slot.
LEMMA NextLap ==
  ASSUME NEW n \in Nat \ {0}, NEW a \in Nat
  PROVE  (a + n) % n = a % n
<1> DEFINE q == a \div n
<1> DEFINE r == a % n
<1>1. q \in Nat /\ r \in 0..(n - 1) /\ a = n * q + r BY DivMod
<1> HIDE DEF q, r
<1>2. n * (q + 1) = n * q + n BY <1>1
<1>3. a + n \in Nat /\ a + n = n * (q + 1) + r /\ q + 1 \in Nat BY <1>1, <1>2
<1>4. (a + n) % n = r BY <1>1, <1>3, ModOf
<1> QED BY <1>4 DEF r

\* Every lap starting at d has a position in each slot.
LEMMA SlotInLap ==
  ASSUME NEW n \in Nat \ {0}, NEW d \in Nat, NEW i \in 0..(n - 1)
  PROVE  \E k \in d..(d + n - 1) : k % n = i
<1> DEFINE q == d \div n
<1> DEFINE r == d % n
<1>1. q \in Nat /\ r \in 0..(n - 1) /\ d = n * q + r BY DivMod
<1> HIDE DEF q, r
<1>2. CASE i >= r
  <2>1. n * q + i \in d..(d + n - 1) /\ n * q + i \in Nat BY <1>1, <1>2
  <2>2. (n * q + i) % n = i BY <1>1, <2>1, ModOf
  <2> QED BY <2>1, <2>2
<1>3. CASE i < r
  <2>1. n * (q + 1) = n * q + n BY <1>1
  <2>2. n * (q + 1) + i \in d..(d + n - 1) /\ n * (q + 1) + i \in Nat BY <1>1, <1>3, <2>1
  <2>3. (n * (q + 1) + i) % n = i BY <1>1, <2>2, ModOf
  <2> QED BY <2>2, <2>3
<1> QED BY <1>1, <1>2, <1>3
-----------------------------------------------------------------------------
\* The part of a sequence after its first d elements.
LEMMA RestProperties ==
  ASSUME NEW S, NEW q \in Seq(S), NEW d \in 0..Len(q)
  PROVE  /\ SubSeq(q, d + 1, Len(q)) \in Seq(S)
         /\ Len(SubSeq(q, d + 1, Len(q))) = Len(q) - d
         /\ \A i \in 1..(Len(q) - d) : SubSeq(q, d + 1, Len(q))[i] = q[d + i]
<1>1. \A i \in (d + 1)..Len(q) : q[i] \in S BY ElementOfSeq
<1>2. d + 1 \in Int /\ Len(q) \in Int OBVIOUS
<1>3. /\ SubSeq(q, d + 1, Len(q)) \in Seq(S)
      /\ Len(SubSeq(q, d + 1, Len(q))) = IF d + 1 <= Len(q) THEN Len(q) - (d + 1) + 1 ELSE 0
      /\ \A i \in 1..(Len(q) - (d + 1) + 1) :
           SubSeq(q, d + 1, Len(q))[i] = q[(d + 1) + i - 1]
  BY <1>1, <1>2, SubSeqProperties
<1> QED BY <1>3

\* Appending to a sequence appends to the part after its first d elements.
LEMMA RestOfAppend ==
  ASSUME NEW S, NEW q \in Seq(S), NEW x \in S, NEW d \in 0..Len(q)
  PROVE  SubSeq(Append(q, x), d + 1, Len(q) + 1) = Append(SubSeq(q, d + 1, Len(q)), x)
<1> DEFINE a == Append(q, x)
           r == SubSeq(q, d + 1, Len(q))
<1>1. a \in Seq(S) /\ Len(a) = Len(q) + 1 /\ d \in 0..Len(a) BY AppendProperties
<1>2. /\ SubSeq(a, d + 1, Len(a)) \in Seq(S)
      /\ Len(SubSeq(a, d + 1, Len(a))) = Len(a) - d
      /\ \A i \in 1..(Len(a) - d) : SubSeq(a, d + 1, Len(a))[i] = a[d + i]
  BY <1>1, RestProperties
<1>3. r \in Seq(S) /\ Len(r) = Len(q) - d /\ \A i \in 1..(Len(q) - d) : r[i] = q[d + i]
  BY RestProperties
<1>4. Append(r, x) \in Seq(S) /\ Len(Append(r, x)) = Len(q) - d + 1 BY <1>3, AppendProperties
<1>5. ASSUME NEW i \in 1..(Len(q) - d + 1)
      PROVE  SubSeq(a, d + 1, Len(a))[i] = Append(r, x)[i]
  <2>1. SubSeq(a, d + 1, Len(a))[i] = a[d + i] BY <1>1, <1>2
  <2>2. CASE i = Len(q) - d + 1
    <3>1. a[Len(q) + 1] = x BY AppendProperties
    <3>2. Append(r, x)[Len(r) + 1] = x BY <1>3, AppendProperties
    <3>3. d + i = Len(q) + 1 /\ i = Len(r) + 1 BY <2>2, <1>3
    <3> QED BY <2>1, <3>1, <3>2, <3>3
  <2>3. CASE i <= Len(q) - d
    <3>1. i \in 1..Len(r) /\ d + i \in 1..Len(q) BY <2>3, <1>3
    <3>2. a[d + i] = q[d + i] BY <3>1, AppendProperties
    <3>3. Append(r, x)[i] = r[i] BY <3>1, <1>3, AppendProperties
    <3>4. r[i] = q[d + i] BY <2>3, <1>3
    <3> QED BY <2>1, <3>2, <3>3, <3>4
  <2> QED BY <2>2, <2>3
<1>6. SubSeq(a, d + 1, Len(a)) = Append(r, x)
  <2> DEFINE v == SubSeq(a, d + 1, Len(a))
             w == Append(r, x)
  <2>1. v \in Seq(S) /\ w \in Seq(S) /\ Len(v) = Len(w) BY <1>1, <1>2, <1>4
  <2>2. \A i \in 1..Len(v) : v[i] = w[i] BY <1>1, <1>2, <1>5
  <2> HIDE DEF v, w
  <2>3. v = w BY <2>1, <2>2, SeqEqual
  <2> QED BY <2>3 DEF v, w
<1> QED BY <1>1, <1>6

\* The first element of that part, and what is left without it.
LEMMA FirstOfRest ==
  ASSUME NEW S, NEW q \in Seq(S), NEW d \in Nat, d < Len(q)
  PROVE  LET r == SubSeq(q, d + 1, Len(q))
         IN  /\ Len(r) = Len(q) - d
             /\ SubSeq(r, 1, 1) = <<q[d + 1]>>
             /\ SubSeq(r, 2, Len(r)) = SubSeq(q, (d + 1) + 1, Len(q))
<1> DEFINE r == SubSeq(q, d + 1, Len(q))
           t == SubSeq(q, (d + 1) + 1, Len(q))
           u == SubSeq(r, 1 + 1, Len(r))
<1>1. r \in Seq(S) /\ Len(r) = Len(q) - d /\ \A i \in 1..(Len(q) - d) : r[i] = q[d + i]
  BY RestProperties
<1>2. t \in Seq(S) /\ Len(t) = Len(q) - (d + 1)
      /\ \A i \in 1..(Len(q) - (d + 1)) : t[i] = q[(d + 1) + i]
  <2>1. d + 1 \in 0..Len(q) OBVIOUS
  <2> QED BY <2>1, RestProperties
<1>3. u \in Seq(S) /\ Len(u) = Len(r) - 1 /\ \A i \in 1..(Len(r) - 1) : u[i] = r[1 + i]
  <2>1. 1 \in 0..Len(r) BY <1>1
  <2> QED BY <1>1, <2>1, RestProperties
<1>4. u = t
  <2>1. ASSUME NEW i \in 1..Len(u) PROVE u[i] = t[i]
    <3>1. i \in 1..(Len(r) - 1) /\ 1 + i \in 1..(Len(q) - d) BY <1>1, <1>3
    <3>2. u[i] = q[d + (1 + i)] BY <3>1, <1>1, <1>3
    <3>3. t[i] = q[(d + 1) + i] BY <3>1, <1>1, <1>2
    <3>4. d + (1 + i) = (d + 1) + i BY <3>1
    <3> QED BY <3>2, <3>3, <3>4
  <2>2. Len(u) = Len(t) BY <1>1, <1>2, <1>3
  <2> QED BY <1>2, <1>3, <2>1, <2>2, SeqEqual
<1>5. SubSeq(r, 1, 1) = <<q[d + 1]>>
  <2>1. r[1] = q[d + 1] /\ r[1] \in S BY <1>1, ElementOfSeq
  <2>2. SubSeq(r, 1, 1) \in Seq(S) /\ Len(SubSeq(r, 1, 1)) = 1 /\ SubSeq(r, 1, 1)[1] = r[1]
    <3>1. \A i \in 1..1 : r[i] \in S BY <2>1
    <3>2. /\ SubSeq(r, 1, 1) \in Seq(S)
          /\ Len(SubSeq(r, 1, 1)) = IF 1 <= 1 THEN 1 - 1 + 1 ELSE 0
          /\ \A i \in 1..(1 - 1 + 1) : SubSeq(r, 1, 1)[i] = r[1 + i - 1]
      BY <3>1, SubSeqProperties
    <3> QED BY <3>2
  <2>3. <<q[d + 1]>> \in Seq(S) /\ Len(<<q[d + 1]>>) = 1 BY <2>1
  <2>4. \A i \in 1..Len(SubSeq(r, 1, 1)) : SubSeq(r, 1, 1)[i] = <<q[d + 1]>>[i]
    <3>1. <<q[d + 1]>>[1] = q[d + 1] OBVIOUS
    <3>2. \A i \in 1..1 : i = 1 OBVIOUS
    <3> QED BY <2>1, <2>2, <3>1, <3>2
  <2>5. Len(SubSeq(r, 1, 1)) = Len(<<q[d + 1]>>) BY <2>2, <2>3
  <2>6. SubSeq(r, 1, 1) \in Seq(S) /\ <<q[d + 1]>> \in Seq(S) BY <2>2, <2>3
  <2> HIDE DEF r
  <2> QED BY <2>4, <2>5, <2>6, SeqEqual
<1> QED BY <1>1, <1>4, <1>5
=============================================================================
