---------------------------- MODULE RingsProofs -----------------------------
(***************************************************************************)
(* Proofs about the one-producer ring of std/sync/ring.ts, for every       *)
(* capacity, every length and every mix of calls, with processes that die  *)
(* and are replaced at any step: records stay whole, and come out in the   *)
(* order they went in.  After it, the doorbell of both rings.               *)
(*                                                                         *)
(* The ring keeps no list of its records: the consumer finds the next one  *)
(* only by parsing lengths and skip markers.  The invariant therefore says *)
(* that there are boundaries, one per record ever published, such that     *)
(* each record not freed lies between its own and the next one, and that   *)
(* every position either side holds, however stale, is a boundary.         *)
(***************************************************************************)
EXTENDS MCRings, RingLemmas, FiniteSetTheorems, TLAPS

Published == Len(pushed)
Freed == Len(delivered)
Read == Len(got)
Recs == {RecordOf(id, n) : id \in Nat, n \in Nat}

\* lengthAt from position b: past a skip marker.
SkipTo(b) == IF mem[CellAt(b)].len = Skip THEN b + (Capacity - (b % Capacity)) ELSE b

\* Record x lies in the ring from position b, and the next one begins at e.
Lies(b, e, x) ==
  /\ x.len \in Nat
  /\ mem[CellAt(SkipTo(b))].len = x.len
  /\ RecordAt(SkipTo(b), x.len) = x
  /\ e = SkipTo(b) + ringRecordBytes(x.len)

\* The boundaries st: the k-th record begins at st[k], the next one to be
\* published at the producer's position.
Boundaries(st) ==
  /\ st \in [1..(Published + 1) -> Nat]
  /\ \A k \in 1..(Published + 1) : st[k] % Word = 0
  /\ \A i, k \in 1..(Published + 1) : i < k => st[i] < st[k]
  /\ st[Freed + 1] = headWord /\ st[Published + 1] = tailWord
  /\ \A k \in (Freed + 1)..Published : Lies(st[k], st[k + 1], pushed[k])

\* The consumer stands on boundaries: at its own position, at the cached one of
\* the producer, and at the record it parses.
ConsumerInv(st) ==
  /\ \E k \in (Freed + 1)..(Published + 1) : seenTail = st[k]
  /\ cpc \in {"length", "copy", "store"} => pos = st[Freed + Read + 1] /\ pos <= seenTail
  /\ cpc \in {"length", "copy"} => pos # seenTail
  /\ cpc = "copy" => found = SkipTo(pos) /\ clen = pushed[Freed + Read + 1].len
  /\ peekedEnd # None =>
       /\ peekedEnd = st[Freed + 2] /\ peekedEnd <= seenTail /\ Freed < Published
       /\ found = SkipTo(headWord) /\ clen = pushed[Freed + 1].len

ChainInv == \E st : Boundaries(st) /\ ConsumerInv(st)

\* What was freed, and what a batch has read so far, are the oldest records.
OrderInv ==
  /\ pushed \in Seq(Recs) /\ delivered \in Seq(Recs) /\ got \in Seq(Recs)
  /\ Freed + Read <= Published
  /\ \A i \in 1..Freed : delivered[i] = pushed[i]
  /\ \A i \in 1..Read : got[i] = pushed[Freed + i]
  /\ head = headWord
  /\ cpc # "panic"
  /\ cpc = "idle" \/ op = "peek" => got = <<>>
  /\ op = "peek" => cpc \in {"idle", "length"}
  /\ peekedEnd # None => cpc = "idle"

\* The bytes of the record being written, and where they end.
Need == IF reserved >= 0 THEN reserved ELSE plen
End == RecordStart + ringRecordBytes(Need)

\* The producer's position is the published one, what it writes ends within a
\* lap of the consumer's, and what it has written so far is in the ring.
ProducerInv ==
  /\ tail = tailWord /\ seenHead <= headWord /\ made \in Nat
  /\ tailWord % Word = 0 /\ headWord % Word = 0
  /\ headWord <= tailWord /\ tailWord <= headWord + Capacity
  /\ reserved >= 0 <=> ppc \in {"reserved", "filled"}
  /\ InPlace => reservedPad \in {0, Capacity - (tail % Capacity)}
  /\ ppc # "idle" => End <= headWord + Capacity
  /\ ppc \in {"filled", "commitSkip", "commitLength", "commitPublish", "publish"} =>
       \A j \in 1..Words(Need) : mem[CellAt(RecordStart + j * Word)] = PayloadCell(made, j)
  /\ ppc \in {"commitLength", "commitPublish"} /\ reservedPad > 0 => mem[CellAt(tail)].len = Skip
  /\ ppc \in {"write", "publish", "commitPublish"} => mem[CellAt(RecordStart)].len = plen

\* The inductive invariant.
IInv == TypeOK /\ OrderInv /\ ProducerInv /\ ChainInv
-----------------------------------------------------------------------------
\* A ring has whole words.
LEMMA CapacityIs ==
  /\ Capacity \in Nat \ {0} /\ Capacity >= 8 /\ Capacity % 4 = 0
  /\ Word = 4 /\ Skip = -1 /\ None = -1 /\ Garbage = -2
BY CapacityAssumption DEF Word, Skip, None, Garbage

\* A record takes its words and the one of its length, which hold its bytes.
LEMMA RecordBytes ==
  ASSUME NEW n \in Nat
  PROVE  /\ Words(n) \in Nat /\ ringRecordBytes(n) \in Nat
         /\ ringRecordBytes(n) = Words(n) * 4 + 4 /\ Words(n) * 4 >= n
         /\ ringRecordBytes(n) % 4 = 0
         /\ \A m \in 0..n : Words(m) \in 0..Words(n)
BY DEF Words, ringRecordBytes, Word

\* A multiple of four is one after taking away laps.
LEMMA AlignedMod ==
  ASSUME NEW a \in Nat, a % 4 = 0
  PROVE  a % Capacity \in 0..(Capacity - 1) /\ (a % Capacity) % 4 = 0
<1> DEFINE q == a \div Capacity
           r == a % Capacity
<1>1. q \in Nat /\ r \in 0..(Capacity - 1) /\ a = Capacity * q + r
      BY CapacityIs, DivMod
<1>2. PICK c \in Nat : Capacity = 4 * c
  <2>1. Capacity = 4 * (Capacity \div 4) /\ Capacity \div 4 \in Nat
        BY CapacityIs
  <2> QED BY <2>1
<1> HIDE DEF q, r
<1>3. PICK t \in Int : t = c * q
      BY <1>1, <1>2
<1>4. Capacity * q = 4 * t
      BY <1>1, <1>2, <1>3
<1>5. r % 4 = 0
      BY <1>1, <1>4
<1> QED BY <1>1, <1>5 DEF r

\* A position has its cell.
LEMMA CellIs ==
  ASSUME NEW a \in Nat
  PROVE  CellAt(a) \in Cells
<1>1. a % Capacity \in 0..(Capacity - 1)
      BY CapacityIs, DivMod
<1> QED BY <1>1, CapacityIs DEF CellAt, Cells, Word

\* Two positions of a lap have two cells.
LEMMA Apart ==
  ASSUME NEW a \in Nat, NEW b \in Nat, NEW h \in Nat, a % 4 = 0, b % 4 = 0,
         h <= a, h <= b, a < h + Capacity, b < h + Capacity, a # b
  PROVE  CellAt(a) # CellAt(b)
<1> SUFFICES ASSUME CellAt(a) = CellAt(b) PROVE FALSE
    OBVIOUS
<1>1. /\ a % Capacity \in 0..(Capacity - 1) /\ (a % Capacity) % 4 = 0
      /\ b % Capacity \in 0..(Capacity - 1) /\ (b % Capacity) % 4 = 0
      BY AlignedMod
<1>2. a % Capacity = b % Capacity
  <2>1. PICK x \in Nat, y \in Nat : x = a % Capacity /\ y = b % Capacity
        BY <1>1
  <2>2. x \div 4 = y \div 4 /\ x % 4 = 0 /\ y % 4 = 0
        BY <1>1, <2>1 DEF CellAt, Word
  <2>3. x = y
        BY <2>2
  <2> QED BY <2>1, <2>3
<1>3. ASSUME NEW x \in Nat, NEW y \in Nat, x <= y, h <= x, y < h + Capacity, x % Capacity = y % Capacity
      PROVE  x = y
  <2>1. y < x + Capacity /\ Capacity \in Nat \ {0}
        BY <1>3, CapacityIs
  <2> QED BY <1>3, <2>1, SameSlot
<1>4. a <= b \/ b <= a
      OBVIOUS
<1> QED BY <1>2, <1>3, <1>4

\* lengthAt goes forward, from word to word.
LEMMA SkipIs ==
  ASSUME NEW b \in Nat, b % 4 = 0
  PROVE  SkipTo(b) \in Nat /\ SkipTo(b) >= b /\ SkipTo(b) % 4 = 0
<1>1. PICK r \in 0..(Capacity - 1) : r = b % Capacity /\ r % 4 = 0
      BY AlignedMod
<1> QED BY <1>1, CapacityIs DEF SkipTo

\* A record stays where it lies while its own words do.
LEMMA LiesFrame ==
  ASSUME NEW b \in Nat, NEW e \in Nat, NEW x, b % 4 = 0, Lies(b, e, x),
         \A p \in Nat : p % 4 = 0 /\ b <= p /\ p < e => mem'[CellAt(p)] = mem[CellAt(p)]
  PROVE  Lies(b, e, x)' /\ SkipTo(b)' = SkipTo(b)
<1>1. PICK r \in Nat : r = SkipTo(b) /\ r >= b /\ r % 4 = 0
      BY SkipIs
<1>2. PICK n \in Nat : n = x.len
      BY DEF Lies
<1>3. e = r + (Words(n) * 4 + 4) /\ Words(n) \in Nat
      BY <1>1, <1>2, RecordBytes DEF Lies
<1>4. mem'[CellAt(b)] = mem[CellAt(b)] /\ mem'[CellAt(r)] = mem[CellAt(r)]
      BY <1>1, <1>3
<1>5. SkipTo(b)' = r
      BY <1>1, <1>4 DEF SkipTo
<1>6. \A j \in 1..Words(n) : mem'[CellAt(r + j * Word)] = mem[CellAt(r + j * Word)]
  <2> SUFFICES ASSUME NEW j \in 1..Words(n) PROVE mem'[CellAt(r + j * 4)] = mem[CellAt(r + j * 4)]
      BY CapacityIs
  <2>1. r + j * 4 \in Nat /\ (r + j * 4) % 4 = 0 /\ b <= r + j * 4 /\ r + j * 4 < e
        BY <1>1, <1>3
  <2> QED BY <2>1
<1>7. RecordAt(r, n)' = RecordAt(r, n)
      BY <1>6 DEF RecordAt
<1> QED BY <1>1, <1>2, <1>4, <1>5, <1>7 DEF Lies
-----------------------------------------------------------------------------
\* The types the steps need most.
LEMMA Basics ==
  ASSUME IInv
  PROVE  /\ tailWord \in Nat /\ headWord \in Nat /\ tail \in Nat /\ seenHead \in Nat /\ seenTail \in Nat
         /\ tail % 4 = 0 /\ headWord % 4 = 0 /\ tail = tailWord /\ headWord <= tail
         /\ tail <= headWord + Capacity /\ seenHead <= headWord
         /\ pos \in Nat /\ found \in Nat /\ clen \in Int
         /\ Published \in Nat /\ Freed \in Nat /\ Read \in Nat /\ Freed + Read <= Published
BY SMTT(40), CapacityIs DEF IInv, TypeOK, OrderInv, ProducerInv, Published, Freed, Read

\* Where the record being written lies.
LEMMA Writing ==
  ASSUME IInv
  PROVE  /\ plen \in Nat /\ Need \in Nat /\ made \in Nat
         /\ RecordStart \in Nat /\ RecordStart % 4 = 0 /\ RecordStart >= tail
         /\ RecordStart \in {tail, tail + reservedPad}
         /\ Words(Need) \in Nat /\ End = RecordStart + (Words(Need) * 4 + 4)
<1>1. plen \in Nat /\ Need \in Nat /\ made \in Nat
      BY CapacityIs DEF IInv, TypeOK, ProducerInv, Need
<1>2. RecordStart \in Nat /\ RecordStart % 4 = 0 /\ RecordStart >= tail /\ RecordStart \in {tail, tail + reservedPad}
  <2>0. PICK r \in 0..(Capacity - 1) : r = tail % Capacity /\ r % 4 = 0
        BY Basics, AlignedMod
  <2>1. CASE ~InPlace
        BY <2>1, Basics DEF RecordStart
  <2>2. CASE InPlace
    <3>1. reservedPad \in {0, Capacity - r}
          BY <2>0, <2>2 DEF IInv, ProducerInv
    <3>2. RecordStart = tail + reservedPad
          BY <2>2 DEF RecordStart
    <3> QED BY <2>0, <3>1, <3>2, Basics, CapacityIs
  <2> QED BY <2>1, <2>2
<1>3. Words(Need) \in Nat /\ End = RecordStart + (Words(Need) * 4 + 4)
      BY <1>1, RecordBytes DEF End
<1> QED BY <1>1, <1>2, <1>3

\* What the producer does to its own object moves no record.
LEMMA ChainFrame ==
  ASSUME IInv, UNCHANGED <<shared, consumer, history>>
  PROVE  ChainInv' /\ OrderInv'
<1>1. PICK st : Boundaries(st) /\ ConsumerInv(st)
      BY DEF IInv, ChainInv
<1>2. Boundaries(st)'
      BY <1>1 DEF Boundaries, Lies, SkipTo, RecordAt, Published, Freed, shared, consumer, history
<1>3. ConsumerInv(st)'
      BY <1>1 DEF ConsumerInv, SkipTo, Published, Freed, Read, shared, consumer, history
<1>4. OrderInv'
      BY DEF IInv, OrderInv, Published, Freed, Read, shared, consumer, history
<1> QED BY <1>2, <1>3, <1>4 DEF ChainInv

\* The ring as initSpscRing leaves it.
LEMMA InitIInv == Init => IInv
<1> SUFFICES ASSUME Init PROVE IInv
    OBVIOUS
<1> USE CapacityIs
<1>1. TypeOK
      BY DEF Init, TypeOK, CellType, LengthCell
<1>2. OrderInv
      BY DEF Init, OrderInv, Published, Freed, Read
<1>3. ProducerInv
      BY DEF Init, ProducerInv, InPlace
<1>4. ChainInv
  <2>1. Published = 0 /\ Freed = 0 /\ 1..(Published + 1) = {1} /\ (Freed + 1)..Published = {}
        BY DEF Init, Published, Freed
  <2>2. PICK st : st = [k \in {1} |-> 0]
        OBVIOUS
  <2>3. Boundaries(st)
        BY <2>1, <2>2 DEF Init, Boundaries
  <2>4. ConsumerInv(st)
        BY <2>1, <2>2 DEF Init, ConsumerInv
  <2> QED BY <2>3, <2>4 DEF ChainInv
<1> QED BY <1>1, <1>2, <1>3, <1>4 DEF IInv
-----------------------------------------------------------------------------
\* tryPush finds room, or not.
LEMMA TryPushKeeps ==
  ASSUME IInv, NEW n \in Lens, TryPush(n)
  PROVE  IInv'
<1>1. UNCHANGED <<shared, tail, consumer, history, reserved, reservedPad>> /\ ppc = "idle"
      BY DEF TryPush, CheckRoom
<1>2. n \in Nat /\ n <= Capacity /\ ringRecordBytes(n) \in Nat
  <2>1. n \in Nat /\ ringRecordBytes(n) <= Capacity
        BY LengthAssumption
  <2> QED BY <2>1, RecordBytes, CapacityIs
<1>3. seenHead' \in Nat /\ seenHead' <= headWord
      BY Basics DEF TryPush, CheckRoom
<1>4. CASE ppc' = "idle" /\ plen' = plen /\ made' = made
  <2>1. TypeOK'
        BY <1>1, <1>3, <1>4 DEF IInv, TypeOK, shared, consumer
  <2>2. ProducerInv'
        BY <1>1, <1>3, <1>4 DEF IInv, ProducerInv, InPlace, shared
  <2> QED BY <1>1, <2>1, <2>2, ChainFrame DEF IInv
<1>5. CASE /\ ppc' = "length" /\ plen' = n /\ made' = made + 1
           /\ (tail + ringRecordBytes(n)) - seenHead' <= Capacity
  <2>1. TypeOK'
        BY <1>1, <1>2, <1>3, <1>5, CapacityIs DEF IInv, TypeOK, shared, consumer
  <2>2. ~(reserved >= 0)
        BY <1>1 DEF IInv, ProducerInv
  <2>3. ~InPlace' /\ RecordStart' = tail /\ Need' = n
        BY <1>1, <1>5, <2>2 DEF InPlace, RecordStart, Need
  <2>4. End' <= headWord + Capacity
        BY <1>2, <1>3, <1>5, <2>3, Basics, CapacityIs DEF End
  <2>5. ProducerInv'
        BY <1>1, <1>3, <1>5, <2>2, <2>3, <2>4 DEF IInv, ProducerInv, shared
  <2> QED BY <1>1, <2>1, <2>5, ChainFrame DEF IInv
<1>6. \/ ppc' = ppc /\ plen' = plen /\ made' = made
      \/ /\ ppc' = "length" /\ plen' = n /\ made' = made + 1
         /\ \/ (tail + ringRecordBytes(n)) - seenHead <= Capacity /\ seenHead' = seenHead
            \/ ~((tail + ringRecordBytes(n)) - seenHead' > Capacity)
      BY Zenon DEF TryPush, CheckRoom
<1>7. \/ ppc' = ppc /\ plen' = plen /\ made' = made
      \/ /\ ppc' = "length" /\ plen' = n /\ made' = made + 1
         /\ (tail + ringRecordBytes(n)) - seenHead' <= Capacity
      BY <1>2, <1>3, <1>6, Basics, CapacityIs
<1> QED BY <1>1, <1>4, <1>5, <1>7

\* reserve finds room for the window and the padding before it, or not.
LEMMA ReserveKeeps ==
  ASSUME IInv, NEW n \in Reserves, Reserve(n)
  PROVE  IInv'
<1>1. UNCHANGED <<shared, tail, consumer, history, plen>> /\ ppc = "idle"
      BY DEF Reserve, CheckRoom
<1>2. n \in Nat /\ n >= 0 /\ n <= Capacity /\ ringRecordBytes(n) \in Nat
  <2>1. n \in 1..(Capacity \div 2 - 4)
        BY LengthAssumption DEF Word
  <2> QED BY <2>1, RecordBytes, CapacityIs
<1>3. seenHead' \in Nat /\ seenHead' <= headWord
      BY Basics DEF Reserve, CheckRoom
<1>a. PICK r \in 0..(Capacity - 1) : r = tail % Capacity
      BY Basics, AlignedMod
<1>b. PadFor(n) \in {0, Capacity - r} /\ PadFor(n) \in 0..Capacity
      BY <1>a, CapacityIs DEF PadFor
<1>4. CASE UNCHANGED <<ppc, reserved, reservedPad, made>>
  <2>1. TypeOK'
        BY <1>1, <1>3, <1>4 DEF IInv, TypeOK, shared, consumer
  <2>2. ProducerInv'
        BY <1>1, <1>3, <1>4 DEF IInv, ProducerInv, InPlace, shared
  <2> QED BY <1>1, <2>1, <2>2, ChainFrame DEF IInv
<1>5. CASE /\ ppc' = "reserved" /\ reserved' = n /\ reservedPad' = PadFor(n) /\ made' = made + 1
           /\ (tail + PadFor(n) + ringRecordBytes(n)) - seenHead' <= Capacity
  <2>2. TypeOK'
        BY <1>1, <1>2, <1>3, <1>5, <1>b DEF IInv, TypeOK, shared, consumer
  <2>3. InPlace' /\ RecordStart' = tail + PadFor(n) /\ Need' = n
        BY <1>1, <1>2, <1>5 DEF InPlace, RecordStart, Need
  <2>4. End' <= headWord + Capacity
        BY <1>2, <1>3, <1>5, <1>b, <2>3, Basics, CapacityIs DEF End
  <2>5. ProducerInv'
        BY <1>1, <1>2, <1>3, <1>5, <1>a, <1>b, <2>3, <2>4 DEF IInv, ProducerInv, shared
  <2> QED BY <1>1, <2>2, <2>5, ChainFrame DEF IInv
<1>6. \/ ppc' = ppc /\ reserved' = reserved /\ reservedPad' = reservedPad /\ made' = made
      \/ /\ ppc' = "reserved" /\ reserved' = n /\ reservedPad' = PadFor(n) /\ made' = made + 1
         /\ \/ (tail + PadFor(n) + ringRecordBytes(n)) - seenHead <= Capacity /\ seenHead' = seenHead
            \/ ~((tail + PadFor(n) + ringRecordBytes(n)) - seenHead' > Capacity)
      BY Zenon DEF Reserve, CheckRoom
<1>7. \/ ppc' = ppc /\ reserved' = reserved /\ reservedPad' = reservedPad /\ made' = made
      \/ /\ ppc' = "reserved" /\ reserved' = n /\ reservedPad' = PadFor(n) /\ made' = made + 1
         /\ (tail + PadFor(n) + ringRecordBytes(n)) - seenHead' <= Capacity
      BY <1>2, <1>3, <1>b, <1>6, Basics, CapacityIs
<1> QED BY <1>1, <1>4, <1>5, <1>7

\* commit of no more than was reserved.
LEMMA CommitKeeps ==
  ASSUME IInv, NEW n \in Lens \cup Reserves, Commit(n)
  PROVE  IInv'
<1>1. /\ UNCHANGED <<shared, tail, seenHead, reservedPad, made, consumer, history>>
      /\ ppc = "filled" /\ n <= reserved /\ plen' = n /\ reserved' = -1
      /\ ppc' = IF reservedPad > 0 THEN "commitSkip" ELSE "commitLength"
      BY CapacityIs DEF Commit
<1>2. n \in Nat /\ n <= Capacity
  <2>1. CASE n \in Lens
    <3>1. n \in Nat /\ ringRecordBytes(n) <= Capacity
          BY <2>1, LengthAssumption
    <3> QED BY <3>1, RecordBytes, CapacityIs
  <2>2. CASE n \in Reserves
    <3>1. n \in 1..(Capacity \div 2 - 4)
          BY <2>2, LengthAssumption DEF Word
    <3> QED BY <3>1, CapacityIs
  <2> QED BY <2>1, <2>2
<1>3. reserved \in Nat /\ Need = reserved /\ Need' = n
      BY <1>1, <1>2, CapacityIs DEF IInv, TypeOK, ProducerInv, Need
<1>4. InPlace /\ InPlace' /\ RecordStart' = RecordStart
      BY <1>1 DEF InPlace, RecordStart
<1>5. Words(n) \in Nat /\ Words(reserved) \in Nat /\ Words(n) <= Words(reserved) /\ RecordStart \in Nat
  <2>1. n \in 0..reserved
        BY <1>1, <1>2, <1>3
  <2> QED BY <1>3, <2>1, RecordBytes, Writing
<1>6. End' <= headWord + Capacity
  <2>1. End <= headWord + Capacity
        BY <1>1 DEF IInv, ProducerInv
  <2>2. End = RecordStart + (Words(reserved) * 4 + 4)
        BY <1>3, Writing
  <2>3. End' = RecordStart + (Words(n) * 4 + 4)
        BY <1>2, <1>3, <1>4, RecordBytes DEF End
  <2> QED BY <1>5, <2>1, <2>2, <2>3, Basics, CapacityIs
<1>7. \A j \in 1..Words(n) : mem[CellAt(RecordStart + j * Word)] = PayloadCell(made, j)
  <2>1. \A j \in 1..Words(reserved) : mem[CellAt(RecordStart + j * Word)] = PayloadCell(made, j)
        BY <1>1, <1>3 DEF IInv, ProducerInv
  <2> QED BY <1>5, <2>1
<1>8. TypeOK'
      BY <1>1, <1>2, CapacityIs DEF IInv, TypeOK, shared, consumer
<1>9. ProducerInv'
  <2>1. reservedPad \in {0, Capacity - (tail % Capacity)}
        BY <1>4 DEF IInv, ProducerInv
  <2>2. \A j \in 1..Words(Need') : mem'[CellAt(RecordStart' + j * Word)] = PayloadCell(made', j)
        BY <1>1, <1>3, <1>4, <1>7 DEF shared
  <2> QED BY <1>1, <1>3, <1>4, <1>6, <2>1, <2>2 DEF IInv, ProducerInv, shared
<1> QED BY <1>1, <1>8, <1>9, ChainFrame DEF IInv

\* abandon, and a producer that dies and is replaced.
LEMMA GiveUpKeeps ==
  ASSUME IInv, Abandon \/ ProducerAttach
  PROVE  IInv'
<1>1. /\ UNCHANGED <<shared, reservedPad, plen, made, consumer, history>>
      /\ ppc' = "idle" /\ reserved' = -1 /\ tail' = tail /\ seenHead' \in {seenHead, headWord}
      BY CapacityIs DEF Abandon, ProducerAttach, IInv, ProducerInv
<1>2. TypeOK'
      BY <1>1, CapacityIs DEF IInv, TypeOK, shared, consumer
<1>3. ProducerInv'
      BY <1>1, Basics DEF IInv, ProducerInv, InPlace, shared
<1> QED BY <1>1, <1>2, <1>3, ChainFrame DEF IInv
-----------------------------------------------------------------------------
\* A boundary before another has the smaller number.
LEMMA Before ==
  ASSUME IInv, NEW st, Boundaries(st), NEW i \in 1..(Published + 1), NEW k \in 1..(Published + 1)
  PROVE  /\ st[i] \in Nat /\ st[k] \in Nat /\ st[i] % 4 = 0
         /\ st[i] < st[k] <=> i < k
         /\ st[i] <= st[k] <=> i <= k
<1>1. Published \in Nat /\ i \in Int /\ k \in Int
      BY Basics
<1>2. st[i] \in Nat /\ st[k] \in Nat /\ st[i] % 4 = 0
      BY CapacityIs DEF Boundaries
<1>3. (i < k => st[i] < st[k]) /\ (k < i => st[k] < st[i])
      BY DEF Boundaries
<1>4. i = k => st[i] = st[k]
      OBVIOUS
<1> QED BY <1>1, <1>2, <1>3, <1>4

\* The record a consumer stands at, when it is not at its cached end.
LEMMA Standing ==
  ASSUME IInv, NEW st, Boundaries(st), ConsumerInv(st),
         NEW m \in (Freed + 1)..(Published + 1), st[m] # seenTail, st[m] <= seenTail
  PROVE  /\ m <= Published /\ m \in (Freed + 1)..Published
         /\ st[m] \in Nat /\ st[m] % 4 = 0 /\ st[m + 1] \in Nat
         /\ headWord <= st[m] /\ st[m] < st[m + 1] /\ st[m + 1] <= seenTail /\ st[m + 1] <= tailWord
         /\ Lies(st[m], st[m + 1], pushed[m])
<1>1. PICK k \in (Freed + 1)..(Published + 1) : seenTail = st[k]
      BY DEF ConsumerInv
<1>2. /\ m \in 1..(Published + 1) /\ k \in 1..(Published + 1) /\ Freed + 1 \in 1..(Published + 1)
      /\ Published + 1 \in 1..(Published + 1)
      BY Basics
<1>3. m < k
  <2>1. m <= k
        BY <1>1, <1>2, Before
  <2>2. m # k
        BY <1>1
  <2> QED BY <2>1, <2>2, Basics
<1>4. m + 1 \in 1..(Published + 1) /\ m \in (Freed + 1)..Published
      BY <1>2, <1>3, Basics
<1>5. st[Freed + 1] = headWord /\ st[Published + 1] = tailWord
      BY DEF Boundaries
<1>6. st[m] \in Nat /\ st[m] % 4 = 0 /\ st[m + 1] \in Nat /\ st[m] < st[m + 1]
      BY <1>2, <1>4, Before, Basics
<1>7. headWord <= st[m]
      BY <1>2, <1>4, <1>5, Before, Basics
<1>8. st[m + 1] <= seenTail /\ st[m + 1] <= tailWord
  <2>1. m + 1 <= k /\ m + 1 <= Published + 1
        BY <1>2, <1>3, Basics
  <2> QED BY <1>1, <1>2, <1>4, <1>5, <2>1, Before
<1>9. Lies(st[m], st[m + 1], pushed[m])
      BY <1>4 DEF Boundaries
<1> QED BY <1>4, <1>6, <1>7, <1>8, <1>9

\* A store of the producer outside the queued records moves none of them, and
\* none of what the consumer found of them.
LEMMA MemFrame ==
  ASSUME IInv, UNCHANGED <<tailWord, headWord, consumer, history>>,
         \A p \in Nat : p % 4 = 0 /\ headWord <= p /\ p < tailWord => mem'[CellAt(p)] = mem[CellAt(p)]
  PROVE  ChainInv' /\ OrderInv'
<1>1. PICK st : Boundaries(st) /\ ConsumerInv(st)
      BY DEF IInv, ChainInv
<1>0. Published' = Published /\ Freed' = Freed /\ Read' = Read /\ headWord' = headWord /\ tailWord' = tailWord
      BY DEF Published, Freed, Read, consumer, history
<1>2. ASSUME NEW k \in (Freed + 1)..Published
      PROVE  Lies(st[k], st[k + 1], pushed[k])' /\ SkipTo(st[k])' = SkipTo(st[k])
  <2>1. /\ k \in 1..(Published + 1) /\ k + 1 \in 1..(Published + 1) /\ Freed + 1 \in 1..(Published + 1)
        /\ Published + 1 \in 1..(Published + 1)
        BY Basics
  <2>2. PICK b, e, x : b \in Nat /\ e \in Nat /\ b = st[k] /\ e = st[k + 1] /\ x = pushed[k] /\ b % 4 = 0
        BY <1>1, <2>1, Before
  <2>3. headWord <= b /\ e <= tailWord
    <3>1. st[Freed + 1] <= st[k] /\ st[k + 1] <= st[Published + 1]
          BY <1>1, <2>1, Before, Basics
    <3> QED BY <1>1, <2>2, <3>1 DEF Boundaries
  <2>4. Lies(b, e, x)
        BY <1>1, <2>2 DEF Boundaries
  <2>5. \A p \in Nat : p % 4 = 0 /\ b <= p /\ p < e => mem'[CellAt(p)] = mem[CellAt(p)]
        BY <2>2, <2>3, Basics
  <2>6. Lies(b, e, x)' /\ SkipTo(b)' = SkipTo(b)
        BY <2>2, <2>4, <2>5, LiesFrame
  <2>7. pushed'[k] = x
        BY <2>2 DEF history
  <2> QED BY <2>2, <2>6, <2>7
<1>3. Boundaries(st)'
      BY <1>0, <1>1, <1>2 DEF Boundaries, history
<1>4. ConsumerInv(st)'
  <2>0. UNCHANGED <<cpc, seenTail, peekedEnd, pos, found, clen, pushed>>
        BY DEF consumer, history
  <2>1. cpc = "copy" => SkipTo(pos)' = SkipTo(pos)
    <3> SUFFICES ASSUME cpc = "copy" PROVE SkipTo(pos)' = SkipTo(pos)
        OBVIOUS
    <3>1. pos = st[Freed + Read + 1] /\ pos # seenTail /\ pos <= seenTail
          BY <1>1 DEF ConsumerInv
    <3>2. Freed + Read + 1 \in (Freed + 1)..(Published + 1)
          BY Basics
    <3>3. Freed + Read + 1 \in (Freed + 1)..Published
          BY <1>1, <3>1, <3>2, Standing
    <3>4. pos' = st[Freed + Read + 1]
          BY <2>0, <3>1
    <3> QED BY <1>2, <3>1, <3>3, <3>4 DEF SkipTo
  <2>2. peekedEnd # None => SkipTo(headWord)' = SkipTo(headWord)
    <3> SUFFICES ASSUME peekedEnd # None PROVE SkipTo(headWord)' = SkipTo(headWord)
        OBVIOUS
    <3>1. Freed + 1 \in (Freed + 1)..Published /\ headWord = st[Freed + 1]
          BY SMTT(40), <1>1, Basics DEF ConsumerInv, Boundaries
    <3>2. headWord' = st[Freed + 1]
          BY <1>0, <3>1
    <3> QED BY <1>2, <3>1, <3>2 DEF SkipTo
  <2> QED BY <1>0, <1>1, <2>0, <2>1, <2>2 DEF ConsumerInv
<1>5. OrderInv'
      BY <1>0 DEF IInv, OrderInv, consumer, history
<1> QED BY <1>3, <1>4, <1>5 DEF ChainInv
-----------------------------------------------------------------------------
\* The words from the consumer's position to the end of the record being
\* written are apart.
LEMMA WriteApart ==
  ASSUME IInv, ppc # "idle", NEW a \in Nat, NEW p \in Nat, a % 4 = 0, p % 4 = 0,
         headWord <= a, a < End, headWord <= p, p < End, a # p
  PROVE  CellAt(a) # CellAt(p)
<1>1. End <= headWord + Capacity /\ End \in Nat
  <2>1. End = RecordStart + (Words(Need) * 4 + 4) /\ RecordStart \in Nat /\ Words(Need) \in Nat
        BY Writing
  <2>2. End \in Nat
        BY <2>1
  <2> QED BY <2>2 DEF IInv, ProducerInv
<1>2. a < headWord + Capacity /\ p < headWord + Capacity
      BY <1>1, Basics, CapacityIs
<1> QED BY <1>2, Basics, Apart

\* A length or a marker stored into the room of the record.
LEMMA StoreLengthWord ==
  ASSUME IInv, ppc # "idle", NEW a \in Nat, a % 4 = 0, tail <= a, a < End, NEW n \in Int,
         mem' = [mem EXCEPT ![CellAt(a)] = LengthCell(n)],
         UNCHANGED <<tailWord, headWord, consumer, history>>
  PROVE  /\ mem' \in [Cells -> CellType] /\ mem'[CellAt(a)].len = n
         /\ \A p \in Nat : p % 4 = 0 /\ headWord <= p /\ p < End /\ p # a => mem'[CellAt(p)] = mem[CellAt(p)]
         /\ ChainInv' /\ OrderInv'
<1>1. mem \in [Cells -> CellType] /\ CellAt(a) \in Cells
      BY CellIs DEF IInv, TypeOK
<1>2. mem' \in [Cells -> CellType] /\ mem'[CellAt(a)].len = n
      BY <1>1 DEF LengthCell, CellType
<1>3. \A p \in Nat : p % 4 = 0 /\ headWord <= p /\ p < End /\ p # a => mem'[CellAt(p)] = mem[CellAt(p)]
  <2> SUFFICES ASSUME NEW p \in Nat, p % 4 = 0, headWord <= p, p < End, p # a
               PROVE  mem'[CellAt(p)] = mem[CellAt(p)]
      OBVIOUS
  <2>1. headWord <= a
        BY Basics
  <2>2. CellAt(a) # CellAt(p) /\ CellAt(p) \in Cells
        BY <2>1, WriteApart, CellIs
  <2> QED BY <1>1, <2>2
<1>4. \A p \in Nat : p % 4 = 0 /\ headWord <= p /\ p < tailWord => mem'[CellAt(p)] = mem[CellAt(p)]
  <2> SUFFICES ASSUME NEW p \in Nat, p % 4 = 0, headWord <= p, p < tailWord
               PROVE  mem'[CellAt(p)] = mem[CellAt(p)]
      OBVIOUS
  <2>1. End \in Nat /\ p < End /\ p # a
    <3>1. End = RecordStart + (Words(Need) * 4 + 4) /\ RecordStart \in Nat /\ Words(Need) \in Nat
          BY Writing
    <3> QED BY <3>1, Basics
  <2> QED BY <1>3, <2>1
<1> QED BY <1>2, <1>3, <1>4, MemFrame

\* The skip marker of a commit.
LEMMA StoreSkipKeeps ==
  ASSUME IInv, StoreSkip
  PROVE  IInv'
<1>1. /\ ppc = "commitSkip" /\ mem' = [mem EXCEPT ![CellAt(tail)] = LengthCell(-1)] /\ ppc' = "commitLength"
      /\ UNCHANGED <<tailWord, headWord, tail, seenHead, reserved, reservedPad, plen, made, consumer, history>>
      BY CapacityIs DEF StoreSkip
<1>2. tail \in Nat /\ tail % 4 = 0 /\ tail < End /\ ppc # "idle" /\ -1 \in Int
  <2>1. End = RecordStart + (Words(Need) * 4 + 4) /\ RecordStart \in Nat /\ Words(Need) \in Nat /\ RecordStart >= tail
        BY Writing
  <2> QED BY <1>1, <2>1, Basics
<1>3. /\ mem' \in [Cells -> CellType] /\ mem'[CellAt(tail)].len = -1
      /\ \A p \in Nat : p % 4 = 0 /\ headWord <= p /\ p < End /\ p # tail => mem'[CellAt(p)] = mem[CellAt(p)]
      /\ ChainInv' /\ OrderInv'
  <2>1. PICK m \in Int, a \in Nat : m = -1 /\ a = tail
        BY <1>2
  <2>2. mem' = [mem EXCEPT ![CellAt(a)] = LengthCell(m)]
        BY <1>1, <2>1
  <2>3. tail <= a /\ a < End /\ a % 4 = 0
        BY <1>2, <2>1
  <2>4. /\ mem' \in [Cells -> CellType] /\ mem'[CellAt(a)].len = m
        /\ \A p \in Nat : p % 4 = 0 /\ headWord <= p /\ p < End /\ p # a => mem'[CellAt(p)] = mem[CellAt(p)]
        /\ ChainInv' /\ OrderInv'
        BY <1>1, <1>2, <2>2, <2>3, StoreLengthWord
  <2> QED BY <2>1, <2>4
<1>4. InPlace /\ InPlace' /\ RecordStart' = RecordStart /\ Need' = Need /\ End' = End
      BY <1>1 DEF InPlace, RecordStart, Need, End
<1>5. \A j \in 1..Words(Need) : mem'[CellAt(RecordStart + j * Word)] = PayloadCell(made, j)
  <2> SUFFICES ASSUME NEW j \in 1..Words(Need)
               PROVE  mem'[CellAt(RecordStart + j * 4)] = PayloadCell(made, j)
      BY CapacityIs
  <2>1. mem[CellAt(RecordStart + j * 4)] = PayloadCell(made, j)
        BY <1>1, CapacityIs DEF IInv, ProducerInv
  <2>2. PICK p \in Nat : p = RecordStart + j * 4 /\ p % 4 = 0 /\ headWord <= p /\ p < End /\ p # tail
    <3>1. /\ End = RecordStart + (Words(Need) * 4 + 4) /\ RecordStart \in Nat /\ Words(Need) \in Nat
          /\ RecordStart >= tail /\ RecordStart % 4 = 0
          BY Writing
    <3> QED BY <3>1, Basics
  <2> QED BY <1>3, <2>1, <2>2
<1>6. TypeOK'
      BY <1>1, <1>3 DEF IInv, TypeOK, consumer
<1>7. ProducerInv'
  <2>1. reservedPad \in {0, Capacity - (tail % Capacity)} /\ End <= headWord + Capacity
        BY <1>1, <1>4 DEF IInv, ProducerInv
  <2> QED BY <1>1, <1>3, <1>4, <1>5, <2>1, CapacityIs DEF IInv, ProducerInv
<1> QED BY <1>3, <1>6, <1>7 DEF IInv

\* The length word of a push or a commit.
LEMMA StoreLengthKeeps ==
  ASSUME IInv, StoreLength
  PROVE  IInv'
<1>1. /\ ppc \in {"length", "commitLength"} /\ mem' = [mem EXCEPT ![CellAt(RecordStart)] = LengthCell(plen)]
      /\ ppc' = IF ppc = "commitLength" THEN "commitPublish" ELSE "write"
      /\ UNCHANGED <<tailWord, headWord, tail, seenHead, reserved, reservedPad, plen, made, consumer, history>>
      BY DEF StoreLength, InPlace
<1>2. /\ End = RecordStart + (Words(Need) * 4 + 4) /\ RecordStart \in Nat /\ Words(Need) \in Nat
      /\ RecordStart >= tail /\ RecordStart % 4 = 0 /\ plen \in Nat
      BY Writing
<1>3. /\ mem' \in [Cells -> CellType] /\ mem'[CellAt(RecordStart)].len = plen
      /\ \A p \in Nat : p % 4 = 0 /\ headWord <= p /\ p < End /\ p # RecordStart => mem'[CellAt(p)] = mem[CellAt(p)]
      /\ ChainInv' /\ OrderInv'
  <2>1. PICK m \in Int, a \in Nat : m = plen /\ a = RecordStart
        BY <1>2
  <2>2. mem' = [mem EXCEPT ![CellAt(a)] = LengthCell(m)]
        BY <1>1, <2>1
  <2>3. tail <= a /\ a < End /\ a % 4 = 0
        BY <1>2, <2>1, Basics
  <2>4. /\ mem' \in [Cells -> CellType] /\ mem'[CellAt(a)].len = m
        /\ \A p \in Nat : p % 4 = 0 /\ headWord <= p /\ p < End /\ p # a => mem'[CellAt(p)] = mem[CellAt(p)]
        /\ ChainInv' /\ OrderInv'
        BY <1>1, <2>2, <2>3, StoreLengthWord
  <2> QED BY <2>1, <2>4
<1>4. (InPlace' <=> InPlace) /\ RecordStart' = RecordStart /\ Need' = Need /\ End' = End
      BY <1>1 DEF InPlace, RecordStart, Need, End
<1>5. ppc = "commitLength" =>
        \A j \in 1..Words(Need) : mem'[CellAt(RecordStart + j * Word)] = PayloadCell(made, j)
  <2> SUFFICES ASSUME ppc = "commitLength", NEW j \in 1..Words(Need)
               PROVE  mem'[CellAt(RecordStart + j * 4)] = PayloadCell(made, j)
      BY CapacityIs
  <2>1. mem[CellAt(RecordStart + j * 4)] = PayloadCell(made, j)
        BY CapacityIs DEF IInv, ProducerInv
  <2>2. PICK p \in Nat : p = RecordStart + j * 4 /\ p % 4 = 0 /\ headWord <= p /\ p < End /\ p # RecordStart
        BY <1>2, Basics
  <2> QED BY <1>3, <2>1, <2>2
<1>6. ppc = "commitLength" /\ reservedPad > 0 => mem'[CellAt(tail)].len = -1
  <2> SUFFICES ASSUME ppc = "commitLength", reservedPad > 0 PROVE mem'[CellAt(tail)].len = -1
      OBVIOUS
  <2>1. mem[CellAt(tail)].len = -1
        BY CapacityIs DEF IInv, ProducerInv
  <2>2. RecordStart = tail + reservedPad /\ reservedPad \in Nat
        BY CapacityIs DEF RecordStart, InPlace, IInv, TypeOK
  <2>3. tail < End /\ tail # RecordStart
        BY <1>2, <2>2, Basics
  <2> QED BY <1>3, <2>1, <2>3, Basics
<1>7. TypeOK'
      BY <1>1, <1>3 DEF IInv, TypeOK, consumer
<1>8. ProducerInv'
  <2>1. (InPlace => reservedPad \in {0, Capacity - (tail % Capacity)}) /\ End <= headWord + Capacity
        BY <1>1, <1>4 DEF IInv, ProducerInv
  <2> QED BY <1>1, <1>3, <1>4, <1>5, <1>6, <2>1, CapacityIs DEF IInv, ProducerInv
<1> QED BY <1>3, <1>7, <1>8 DEF IInv

\* The payload stored after the length word: its words in their order, and
\* nothing before it touched.
LEMMA StorePayload ==
  ASSUME IInv, ppc # "idle", mem' = WithPayload(mem, RecordStart, made, Need),
         UNCHANGED <<tailWord, headWord, consumer, history>>
  PROVE  /\ mem' \in [Cells -> CellType]
         /\ \A j \in 1..Words(Need) : mem'[CellAt(RecordStart + j * Word)] = PayloadCell(made, j)
         /\ mem'[CellAt(RecordStart)] = mem[CellAt(RecordStart)]
         /\ ChainInv' /\ OrderInv'
<1> DEFINE At(j) == RecordStart + j * 4
<1>1. /\ End = RecordStart + (Words(Need) * 4 + 4) /\ RecordStart \in Nat /\ Words(Need) \in Nat
      /\ RecordStart >= tail /\ RecordStart % 4 = 0 /\ made \in Nat
      BY Writing
<1>2. mem' = [c \in Cells |->
                IF \E j \in 1..Words(Need) : CellAt(At(j)) = c
                THEN PayloadCell(made, CHOOSE j \in 1..Words(Need) : CellAt(At(j)) = c)
                ELSE mem[c]]
      BY CapacityIs DEF WithPayload
<1>3. \A j \in 1..Words(Need) : At(j) \in Nat /\ At(j) % 4 = 0 /\ headWord <= At(j) /\ At(j) < End /\ At(j) > RecordStart
      BY <1>1, Basics
<1>4. ASSUME NEW i \in 1..Words(Need), NEW j \in 1..Words(Need), CellAt(At(i)) = CellAt(At(j)) PROVE i = j
  <2>1. At(i) = At(j)
        BY <1>3, <1>4, WriteApart
  <2> QED BY <1>1, <2>1
<1>5. ASSUME NEW p \in Nat, p % 4 = 0, headWord <= p, p <= RecordStart
      PROVE  mem'[CellAt(p)] = mem[CellAt(p)]
  <2>1. CellAt(p) \in Cells /\ p < End
        BY <1>1, <1>5, CellIs
  <2>2. \A j \in 1..Words(Need) : CellAt(At(j)) # CellAt(p)
    <3> SUFFICES ASSUME NEW j \in 1..Words(Need) PROVE CellAt(At(j)) # CellAt(p)
        OBVIOUS
    <3>1. At(j) # p
          BY <1>1, <1>3, <1>5
    <3> QED BY <1>3, <1>5, <2>1, <3>1, WriteApart
  <2> HIDE DEF At
  <2> QED BY <1>2, <2>1, <2>2
<1>6. ASSUME NEW j \in 1..Words(Need) PROVE mem'[CellAt(At(j))] = PayloadCell(made, j)
  <2>1. PICK c \in Cells : c = CellAt(At(j))
        BY <1>3, CellIs
  <2>2. (CHOOSE i \in 1..Words(Need) : CellAt(At(i)) = c) = j
        BY <1>4, <2>1
  <2>3. mem'[c] = PayloadCell(made, CHOOSE i \in 1..Words(Need) : CellAt(At(i)) = c)
        BY <1>2, <2>1
  <2> QED BY <2>1, <2>2, <2>3
<1>7. mem' \in [Cells -> CellType]
  <2>1. mem \in [Cells -> CellType]
        BY DEF IInv, TypeOK
  <2>2. ASSUME NEW c \in Cells PROVE mem'[c] \in CellType
    <3>1. CASE \E j \in 1..Words(Need) : CellAt(At(j)) = c
      <4>1. PICK j \in 1..Words(Need) : CellAt(At(j)) = c
            BY <3>1
      <4>2. mem'[c] = PayloadCell(made, j) /\ j \in Nat
            BY <1>1, <1>6, <4>1
      <4> QED BY <1>1, <4>2, CapacityIs DEF PayloadCell, CellType
    <3>2. CASE ~(\E j \in 1..Words(Need) : CellAt(At(j)) = c)
          BY <1>2, <2>1, <3>2
    <3> QED BY <3>1, <3>2
  <2>3. mem' = [c \in Cells |-> mem'[c]]
        BY <1>2
  <2> QED BY <2>2, <2>3
<1>8. \A p \in Nat : p % 4 = 0 /\ headWord <= p /\ p < tailWord => mem'[CellAt(p)] = mem[CellAt(p)]
      BY <1>1, <1>5, Basics
<1>9. mem'[CellAt(RecordStart)] = mem[CellAt(RecordStart)]
      BY <1>1, <1>5, Basics
<1> QED BY <1>6, <1>7, <1>8, <1>9, MemFrame, CapacityIs

\* The bytes of tryPush, and those the program writes into a window.
LEMMA PayloadKeeps ==
  ASSUME IInv, FillWindow \/ WritePayload
  PROVE  IInv'
<1>1. /\ ppc \in {"reserved", "write"} /\ ppc' = IF ppc = "reserved" THEN "filled" ELSE "publish"
      /\ UNCHANGED <<tailWord, headWord, tail, seenHead, reserved, reservedPad, plen, made, consumer, history>>
      BY DEF FillWindow, WritePayload
<1>2. mem' = WithPayload(mem, RecordStart, made, Need)
  <2>1. CASE FillWindow
        BY <2>1 DEF FillWindow, Need, IInv, ProducerInv
  <2>2. CASE WritePayload
    <3>1. Need = plen /\ RecordStart = tail
          BY <2>2 DEF WritePayload, Need, RecordStart, InPlace, IInv, ProducerInv
    <3> QED BY <2>2, <3>1 DEF WritePayload
  <2> QED BY <2>1, <2>2
<1>3. /\ mem' \in [Cells -> CellType]
      /\ \A j \in 1..Words(Need) : mem'[CellAt(RecordStart + j * Word)] = PayloadCell(made, j)
      /\ mem'[CellAt(RecordStart)] = mem[CellAt(RecordStart)]
      /\ ChainInv' /\ OrderInv'
      BY <1>1, <1>2, StorePayload
<1>4. (InPlace' <=> InPlace) /\ RecordStart' = RecordStart /\ Need' = Need /\ End' = End
      BY <1>1 DEF InPlace, RecordStart, Need, End
<1>5. TypeOK'
      BY <1>1, <1>3 DEF IInv, TypeOK, consumer
<1>6. ProducerInv'
  <2>1. (InPlace => reservedPad \in {0, Capacity - (tail % Capacity)}) /\ End <= headWord + Capacity
        BY <1>1, <1>4 DEF IInv, ProducerInv
  <2> QED BY <1>1, <1>3, <1>4, <2>1 DEF IInv, ProducerInv
<1> QED BY <1>3, <1>5, <1>6 DEF IInv
-----------------------------------------------------------------------------
\* Publishing the producer's position adds the record that was written.
LEMMA PublishKeeps ==
  ASSUME IInv, Publish
  PROVE  IInv'
<1>1. /\ ppc \in {"publish", "commitPublish"} /\ ppc' = "idle"
      /\ tail' = RecordStart + ringRecordBytes(plen) /\ tailWord' = tail'
      /\ pushed' = Append(pushed, RecordOf(made, plen))
      /\ UNCHANGED <<mem, headWord, seenHead, reserved, reservedPad, plen, made, consumer, delivered>>
      BY DEF Publish
<1>2. ~(reserved >= 0) /\ Need = plen
      BY <1>1 DEF IInv, ProducerInv, Need
<1>3. /\ End = RecordStart + (Words(plen) * 4 + 4) /\ RecordStart \in Nat /\ Words(plen) \in Nat
      /\ RecordStart >= tail /\ RecordStart % 4 = 0 /\ made \in Nat /\ plen \in Nat
      BY <1>2, Writing
<1>4. tail' = End /\ End \in Nat /\ End % 4 = 0 /\ End > tail /\ End <= headWord + Capacity /\ headWord <= End
  <2>1. tail' = End
        BY <1>1, <1>2 DEF End
  <2>3. End \in Nat /\ End % 4 = 0 /\ End > tail
        BY <1>3, Basics
  <2>2. End <= headWord + Capacity
        BY <1>1 DEF IInv, ProducerInv
  <2> QED BY <2>1, <2>2, <2>3, Basics
<1>5. PICK x \in Recs : x = RecordOf(made, plen) /\ x.len = plen
  <2>1. RecordOf(made, plen) \in Recs
        BY <1>3 DEF Recs
  <2>2. RecordOf(made, plen).len = plen
        BY DEF RecordOf
  <2> QED BY <2>1, <2>2
<1>6. SkipTo(tail) = RecordStart
  <2>1. CASE InPlace /\ reservedPad > 0
    <3>1. ppc = "commitPublish" /\ mem[CellAt(tail)].len = Skip
          BY <1>1, <2>1 DEF InPlace, IInv, ProducerInv
    <3>2. reservedPad = Capacity - (tail % Capacity) /\ RecordStart = tail + reservedPad
          BY <2>1 DEF RecordStart, IInv, ProducerInv
    <3> QED BY <3>1, <3>2 DEF SkipTo
  <2>2. CASE ~(InPlace /\ reservedPad > 0)
    <3>1. RecordStart = tail
      <4>1. InPlace => reservedPad = 0
            BY <2>2, CapacityIs DEF IInv, TypeOK
      <4> QED BY <4>1, Basics DEF RecordStart
    <3>2. mem[CellAt(tail)].len = plen
          BY <1>1, <3>1 DEF IInv, ProducerInv
    <3> QED BY <1>3, <3>1, <3>2, CapacityIs DEF SkipTo
  <2> QED BY <2>1, <2>2
<1>7. Lies(tail, End, x)
  <2>1. mem[CellAt(RecordStart)].len = plen
        BY <1>1 DEF IInv, ProducerInv
  <2>2. \A j \in 1..Words(plen) : mem[CellAt(RecordStart + j * Word)] = PayloadCell(made, j)
        BY <1>1, <1>2 DEF IInv, ProducerInv
  <2>3. RecordAt(RecordStart, plen) = RecordOf(made, plen)
        BY <2>2 DEF RecordAt, RecordOf
  <2>4. End = RecordStart + ringRecordBytes(plen)
        BY <1>2 DEF End
  <2> QED BY <1>3, <1>5, <1>6, <2>1, <2>3, <2>4 DEF Lies
<1>8. /\ pushed' \in Seq(Recs) /\ Published' = Published + 1 /\ pushed'[Published + 1] = x
      /\ \A k \in 1..Published : pushed'[k] = pushed[k]
      /\ Freed' = Freed /\ Read' = Read
  <2>1. pushed \in Seq(Recs) /\ pushed' = Append(pushed, x)
        BY <1>1, <1>5 DEF IInv, OrderInv
  <2> QED BY <1>1, <2>1 DEF Published, Freed, Read, consumer
<1>9. PICK st : Boundaries(st) /\ ConsumerInv(st)
      BY DEF IInv, ChainInv
<1>10. PICK su : su = [k \in 1..(Published + 2) |-> IF k = Published + 2 THEN End ELSE st[k]]
      OBVIOUS
<1>11. /\ su[Published + 2] = End /\ \A k \in 1..(Published + 1) : su[k] = st[k]
       /\ Published + 2 \in Nat
  <2>1. Published \in Nat
        BY Basics
  <2> QED BY <1>10, <2>1
<1>12. Boundaries(su)'
  <2>1. su \in [1..(Published + 2) -> Nat] /\ \A k \in 1..(Published + 2) : su[k] % 4 = 0
    <3>1. \A k \in 1..(Published + 1) : st[k] \in Nat /\ st[k] % 4 = 0
          BY <1>9, CapacityIs DEF Boundaries
    <3>2. ASSUME NEW k \in 1..(Published + 2) PROVE su[k] \in Nat /\ su[k] % 4 = 0
      <4>1. k = Published + 2 \/ k \in 1..(Published + 1)
            BY Basics
      <4> QED BY <1>4, <1>11, <3>1, <4>1
    <3> QED BY <1>10, <3>2
  <2>2. ASSUME NEW i \in 1..(Published + 2), NEW k \in 1..(Published + 2), i < k PROVE su[i] < su[k]
    <3>1. CASE k # Published + 2
      <4>1. i \in 1..(Published + 1) /\ k \in 1..(Published + 1)
            BY <2>2, <3>1, Basics
      <4> QED BY <1>9, <1>11, <2>2, <4>1 DEF Boundaries
    <3>2. CASE k = Published + 2
      <4>1. i \in 1..(Published + 1) /\ Published + 1 \in 1..(Published + 1) /\ i <= Published + 1
            BY <2>2, <3>2, Basics
      <4>2. st[i] <= st[Published + 1] /\ st[i] \in Nat
            BY <1>9, <4>1, Before
      <4>3. st[Published + 1] = tail
            BY <1>9, Basics DEF Boundaries
      <4> QED BY <1>4, <1>11, <3>2, <4>1, <4>2, <4>3, Basics
    <3> QED BY <3>1, <3>2
  <2>3. su[Freed + 1] = headWord /\ su[Published + 2] = tailWord'
    <3>1. Freed + 1 \in 1..(Published + 1)
          BY Basics
    <3> QED BY <1>1, <1>4, <1>9, <1>11, <3>1 DEF Boundaries
  <2>4. ASSUME NEW k \in (Freed + 1)..(Published + 1) PROVE Lies(su[k], su[k + 1], pushed[k])'
    <3>1. CASE k = Published + 1
      <4>1. su[k] = tail /\ su[k + 1] = End /\ pushed'[k] = x
        <5>1. k + 1 = Published + 2 /\ k \in 1..(Published + 1)
              BY <3>1, Basics
        <5> QED BY <1>8, <1>9, <1>11, <3>1, <5>1, Basics DEF Boundaries
      <4>2. Lies(su[k], su[k + 1], pushed'[k])
            BY <1>7, <4>1
      <4> QED BY <1>1, <4>2 DEF Lies, SkipTo, RecordAt
    <3>2. CASE k # Published + 1
      <4>1. k \in (Freed + 1)..Published /\ k \in 1..Published /\ k + 1 \in 1..(Published + 1) /\ k \in 1..(Published + 1)
            BY <3>2, Basics
      <4>2. su[k] = st[k] /\ su[k + 1] = st[k + 1] /\ pushed'[k] = pushed[k]
            BY <1>8, <1>11, <4>1
      <4>3. Lies(st[k], st[k + 1], pushed[k])
            BY <1>9, <4>1 DEF Boundaries
      <4> QED BY <1>1, <4>2, <4>3 DEF Lies, SkipTo, RecordAt
    <3> QED BY <3>1, <3>2
  <2>5. Published' + 1 = Published + 2
        BY <1>8, Basics
  <2> QED BY <1>1, <1>8, <2>1, <2>2, <2>3, <2>4, <2>5, CapacityIs DEF Boundaries
<1>13. ConsumerInv(su)'
  <2>0. UNCHANGED <<cpc, seenTail, peekedEnd, pos, found, clen, mem, headWord>>
        BY <1>1 DEF consumer
  <2>1. \E k \in (Freed' + 1)..(Published' + 1) : seenTail' = su[k]
    <3>1. PICK k \in (Freed + 1)..(Published + 1) : seenTail = st[k]
          BY <1>9 DEF ConsumerInv
    <3>2. su[k] = st[k] /\ k \in (Freed' + 1)..(Published' + 1)
      <4>1. k \in 1..(Published + 1) /\ k \in (Freed + 1)..((Published + 1) + 1)
            BY Basics
      <4> QED BY <1>8, <1>11, <4>1
    <3> QED BY <2>0, <3>1, <3>2
  <2>2. Freed + Read + 1 \in 1..(Published + 1)
        BY Basics
  <2>3. cpc = "copy" => pushed'[Freed + Read + 1] = pushed[Freed + Read + 1]
    <3> SUFFICES ASSUME cpc = "copy" PROVE Freed + Read + 1 \in 1..Published
        BY <1>8
    <3>1. Freed + Read + 1 \in (Freed + 1)..(Published + 1)
          BY Basics
    <3>2. Freed + Read + 1 \in (Freed + 1)..Published
          BY <1>9, <3>1, Standing DEF ConsumerInv
    <3> QED BY <3>2, Basics
  <2>4. peekedEnd # None => su[Freed + 2] = st[Freed + 2] /\ pushed'[Freed + 1] = pushed[Freed + 1] /\ Freed < Published'
    <3> SUFFICES ASSUME peekedEnd # None
                 PROVE  Freed + 2 \in 1..(Published + 1) /\ Freed + 1 \in 1..Published /\ Freed < Published + 1
        BY <1>8, <1>11
    <3>1. Freed < Published
          BY <1>9 DEF ConsumerInv
    <3> QED BY <3>1, Basics
  <2>5. SkipTo(pos)' = SkipTo(pos) /\ SkipTo(headWord)' = SkipTo(headWord)
        BY <2>0 DEF SkipTo
  <2> QED BY <1>8, <1>9, <1>11, <2>0, <2>1, <2>2, <2>3, <2>4, <2>5 DEF ConsumerInv
<1>14. OrderInv'
  <2>1. UNCHANGED <<cpc, peekedEnd, op, got, head, headWord, delivered>>
        BY <1>1 DEF consumer
  <2>2. \A i \in 1..Freed : pushed'[i] = pushed[i]
        BY SMTT(40), <1>8, Basics
  <2>3. \A i \in 1..Read : pushed'[Freed + i] = pushed[Freed + i]
    <3>1. \A i \in 1..Read : Freed + i \in 1..Published
          BY Basics
    <3> QED BY <1>8, <3>1
  <2>4. Freed + Read <= Published'
        BY SMTT(40), <1>8, Basics
  <2> QED BY <1>8, <2>1, <2>2, <2>3, <2>4 DEF IInv, OrderInv
<1>15. TypeOK'
      BY <1>1, <1>4 DEF IInv, TypeOK, consumer
<1>16. ProducerInv'
      BY <1>1, <1>2, <1>4, Basics, CapacityIs DEF IInv, ProducerInv, InPlace
<1> QED BY <1>9, <1>12, <1>13, <1>14, <1>15, <1>16 DEF IInv, ChainInv
-----------------------------------------------------------------------------
\* What the consumer frees is room gained by the producer.
LEMMA ProducerFrame ==
  ASSUME IInv, UNCHANGED <<mem, tailWord, producer>>,
         headWord' \in Nat, headWord' % 4 = 0, headWord <= headWord', headWord' <= tailWord
  PROVE  ProducerInv'
<1>1. (InPlace' <=> InPlace) /\ RecordStart' = RecordStart /\ Need' = Need /\ End' = End
      BY DEF producer, InPlace, RecordStart, Need, End
<1>2. ppc # "idle" => End <= headWord' + Capacity
  <2>1. End \in Nat
    <3>1. End = RecordStart + (Words(Need) * 4 + 4) /\ RecordStart \in Nat /\ Words(Need) \in Nat
          BY Writing
    <3> QED BY <3>1
  <2>2. ppc # "idle" => End <= headWord + Capacity
        BY DEF IInv, ProducerInv
  <2>3. headWord \in Nat /\ Capacity \in Nat
        BY Basics, CapacityIs
  <2>4. PICK h \in Nat, g \in Nat, e \in Nat : h = headWord /\ g = headWord' /\ e = End
        BY <2>1, <2>3
  <2>5. h <= g
        BY <2>4
  <2>6. ppc # "idle" => e <= h + Capacity
        BY <2>2, <2>4
  <2>7. ppc # "idle" => e <= g + Capacity
        BY <2>3, <2>5, <2>6
  <2> QED BY <2>4, <2>7
<1>3. seenHead <= headWord' /\ tailWord <= headWord' + Capacity
      BY Basics, CapacityIs
<1>4. UNCHANGED <<ppc, tail, seenHead, reserved, reservedPad, plen, made, mem, tailWord>>
      BY DEF producer
<1> QED BY <1>1, <1>2, <1>3, <1>4, CapacityIs DEF IInv, ProducerInv

\* tryPop, peek and popBatch begin: the cached end is loaded or kept.
LEMMA BeginKeeps ==
  ASSUME IInv, cpc = "idle", peekedEnd = None,
         UNCHANGED <<shared, producer, head, peekedEnd, found, clen, got, history>>,
         seenTail' \in {seenTail, tailWord}, cpc' = IF head # seenTail' THEN "length" ELSE "idle",
         op' \in {"tryPop", "popBatch", "peek"}, pos' = head, room' \in Int, left' \in Int
  PROVE  IInv'
<1>0. headWord' = headWord /\ tailWord' = tailWord /\ mem' = mem
      BY DEF shared
<1>1. Published' = Published /\ Freed' = Freed /\ Read' = Read
      BY DEF Published, Freed, Read, history
<1>2. got = <<>> /\ Read = 0 /\ head = headWord
      BY DEF IInv, OrderInv, Read
<1>3. PICK st : Boundaries(st) /\ ConsumerInv(st)
      BY DEF IInv, ChainInv
<1>4. PICK k \in (Freed + 1)..(Published + 1) : seenTail' = st[k]
  <2>1. CASE seenTail' = seenTail
        BY <1>3, <2>1 DEF ConsumerInv
  <2>2. CASE seenTail' = tailWord
    <3>1. Published + 1 \in (Freed + 1)..(Published + 1)
          BY Basics
    <3> QED BY <1>3, <2>2, <3>1 DEF Boundaries
  <2> QED BY <2>1, <2>2
<1>5. headWord = st[Freed + 1] /\ headWord <= seenTail'
  <2>1. k \in 1..(Published + 1) /\ Freed + 1 \in 1..(Published + 1) /\ Freed + 1 <= k
        BY Basics
  <2>2. headWord = st[Freed + 1]
        BY <1>3 DEF Boundaries
  <2> QED BY <1>3, <1>4, <2>1, <2>2, Before
<1>6. Boundaries(st)'
      BY <1>0, <1>1, <1>3 DEF Boundaries, Lies, SkipTo, RecordAt, history
<1>7. ConsumerInv(st)'
  <2>1. Freed + Read + 1 = Freed + 1
        BY <1>2, Basics
  <2>2. cpc' # "idle" => pos' = st[Freed + Read + 1] /\ pos' <= seenTail' /\ pos' # seenTail'
        BY <1>2, <1>5, <2>1
  <2>3. cpc' \in {"idle", "length"} /\ peekedEnd' = None
        OBVIOUS
  <2> QED BY <1>1, <1>4, <2>2, <2>3 DEF ConsumerInv
<1>8. OrderInv'
      BY <1>0, <1>1, <1>2 DEF IInv, OrderInv, history
<1>9. TypeOK'
      BY <1>0, Basics DEF IInv, TypeOK, shared, producer
<1>10. ProducerInv'
      BY <1>0, ProducerFrame, Basics
<1> QED BY <1>6, <1>7, <1>8, <1>9, <1>10 DEF IInv, ChainInv

\* lengthAt finds a record, and never the panic.
LEMMA LengthAtKeeps ==
  ASSUME IInv, LengthAt
  PROVE  IInv'
<1>0. /\ headWord' = headWord /\ tailWord' = tailWord /\ mem' = mem /\ cpc = "length"
      /\ UNCHANGED <<shared, producer, head, seenTail, op, room, left, pos, got, history>>
      /\ found' = Found /\ clen' = mem[CellAt(Found)].len
      BY DEF LengthAt, shared
<1>1. Published' = Published /\ Freed' = Freed /\ Read' = Read
      BY <1>0 DEF Published, Freed, Read, history
<1>2. PICK st : Boundaries(st) /\ ConsumerInv(st)
      BY DEF IInv, ChainInv
<1>3. PICK m \in (Freed + 1)..(Published + 1) : m = Freed + Read + 1 /\ pos = st[m] /\ pos # seenTail /\ pos <= seenTail
  <2>1. Freed + Read + 1 \in (Freed + 1)..(Published + 1)
        BY Basics
  <2> QED BY <1>0, <1>2, <2>1 DEF ConsumerInv
<1>4. /\ m \in (Freed + 1)..Published /\ st[m] \in Nat /\ st[m] % 4 = 0 /\ st[m + 1] \in Nat
      /\ headWord <= st[m] /\ st[m] < st[m + 1] /\ st[m + 1] <= seenTail /\ st[m + 1] <= tailWord
      /\ Lies(st[m], st[m + 1], pushed[m])
      BY <1>2, <1>3, Standing
<1>5. PICK r \in Nat, n \in Nat : r = SkipTo(pos) /\ n = pushed[m].len /\ r >= st[m]
      BY <1>3, <1>4, SkipIs DEF Lies
<1>6. found' = r /\ clen' = n /\ st[m + 1] = r + ringRecordBytes(n)
  <2>1. Found = r
        BY <1>5 DEF Found, SkipTo
  <2> QED BY <1>0, <1>3, <1>4, <1>5, <2>1 DEF Lies
<1>7. ~Corrupt(clen', found')
  <2>1. ringRecordBytes(n) \in Nat /\ ringRecordBytes(n) >= n + 4
    <3>1. PICK w \in Nat : ringRecordBytes(n) = w * 4 + 4 /\ w * 4 >= n
          BY RecordBytes
    <3> QED BY <3>1
  <2>2. n <= Capacity - 4
        BY <1>4, <1>5, <1>6, <2>1, Basics, CapacityIs
  <2>3. ringRecordBytes(n) <= seenTail - r
        BY <1>4, <1>5, <1>6, <2>1, Basics
  <2> QED BY <1>5, <1>6, <2>1, <2>2, <2>3, Basics, CapacityIs DEF Corrupt
<1>8. \/ /\ op = "peek" /\ cpc' = "idle"
         /\ peekedEnd' = -1 \/ peekedEnd' = r + ringRecordBytes(n)
      \/ /\ op # "peek" /\ peekedEnd' = peekedEnd
         /\ cpc' \in {"copy", "store", "idle"} /\ (cpc' = "idle" => got = <<>>)
  <2>1. CASE op = "peek" /\ cpc' = "idle" /\ peekedEnd' = IF clen' = 0 \/ Wraps(found', clen') THEN None ELSE found' + ringRecordBytes(clen')
        BY <1>6, <2>1, CapacityIs
  <2>2. CASE op # "peek" /\ cpc' = (IF clen' <= room THEN "copy" ELSE IF got # <<>> THEN "store" ELSE "idle") /\ peekedEnd' = peekedEnd
        BY <2>2
  <2> QED BY <1>7, <2>1, <2>2, Zenon DEF LengthAt
<1>9. Boundaries(st)'
      BY <1>0, <1>1, <1>2 DEF Boundaries, Lies, SkipTo, RecordAt, history
<1>10. peekedEnd = None
      BY <1>0 DEF IInv, OrderInv
<1>11. ConsumerInv(st)'
  <2>1. \E k \in (Freed + 1)..(Published + 1) : seenTail = st[k]
        BY <1>2 DEF ConsumerInv
  <2>2. SkipTo(pos)' = SkipTo(pos) /\ SkipTo(headWord)' = SkipTo(headWord)
        BY <1>0 DEF SkipTo
  <2>3. CASE op = "peek"
    <3>1. cpc' = "idle" /\ (peekedEnd' # None => peekedEnd' = st[m + 1])
          BY <1>6, <1>8, <2>3, CapacityIs
    <3>2. m = Freed + 1 /\ m + 1 = Freed + 2 /\ Freed < Published
      <4>1. Read = 0
            BY <2>3 DEF IInv, OrderInv, Read
      <4> QED BY <1>3, <1>4, <4>1, Basics
    <3>3. pos = headWord
          BY <1>2, <1>3, <3>2 DEF Boundaries
    <3>4. pushed'[Freed + 1].len = n /\ found' = SkipTo(headWord)
          BY <1>0, <1>5, <1>6, <3>2, <3>3 DEF history
    <3> QED BY <1>0, <1>1, <1>4, <1>6, <2>1, <2>2, <3>1, <3>2, <3>4 DEF ConsumerInv
  <2>4. CASE op # "peek"
    <3>1. peekedEnd' = None /\ cpc' \in {"copy", "store", "idle"}
          BY <1>8, <1>10, <2>4
    <3>2. pushed'[Freed + Read + 1].len = n
          BY <1>0, <1>3, <1>5 DEF history
    <3> QED BY <1>0, <1>1, <1>3, <1>5, <1>6, <2>1, <2>2, <3>1, <3>2 DEF ConsumerInv
  <2> QED BY <2>3, <2>4
<1>12. OrderInv'
      BY <1>0, <1>1, <1>8, <1>10, CapacityIs DEF IInv, OrderInv, history
<1>13. TypeOK'
  <2>1. ringRecordBytes(n) \in Nat
        BY RecordBytes
  <2>2. peekedEnd' \in Nat \cup {None} /\ cpc' \in {"idle", "length", "copy", "store", "panic"} /\ found' \in Nat /\ clen' \in Int
        BY <1>5, <1>6, <1>8, <1>10, <2>1, CapacityIs
  <2> QED BY <1>0, <2>2 DEF IInv, TypeOK, shared, producer
<1>14. ProducerInv'
      BY <1>0, ProducerFrame, Basics
<1> QED BY <1>9, <1>11, <1>12, <1>13, <1>14 DEF IInv, ChainInv

\* copyOut reads the record that was published.
LEMMA CopyOutKeeps ==
  ASSUME IInv, CopyOut
  PROVE  IInv'
<1>0. /\ headWord' = headWord /\ tailWord' = tailWord /\ mem' = mem /\ cpc = "copy"
      /\ UNCHANGED <<shared, producer, head, seenTail, peekedEnd, op, found, clen, history>>
      /\ got' = Append(got, RecordAt(found, clen)) /\ pos' = found + ringRecordBytes(clen)
      /\ room' = room - clen /\ left' = left - 1
      /\ cpc' = IF left' > 0 /\ pos' # seenTail THEN "length" ELSE "store"
      BY DEF CopyOut, shared
<1>1. Published' = Published /\ Freed' = Freed
      BY <1>0 DEF Published, Freed, history
<1>2. PICK st : Boundaries(st) /\ ConsumerInv(st)
      BY DEF IInv, ChainInv
<1>3. PICK m \in (Freed + 1)..(Published + 1) : m = Freed + Read + 1 /\ pos = st[m] /\ pos # seenTail /\ pos <= seenTail
  <2>1. Freed + Read + 1 \in (Freed + 1)..(Published + 1)
        BY Basics
  <2> QED BY <1>0, <1>2, <2>1 DEF ConsumerInv
<1>4. /\ m \in (Freed + 1)..Published /\ st[m] \in Nat /\ st[m] % 4 = 0 /\ st[m + 1] \in Nat
      /\ st[m + 1] <= seenTail /\ Lies(st[m], st[m + 1], pushed[m])
      BY <1>2, <1>3, Standing
<1>5. found = SkipTo(st[m]) /\ clen = pushed[m].len
      BY <1>0, <1>2, <1>3 DEF ConsumerInv
<1>6. RecordAt(found, clen) = pushed[m] /\ pos' = st[m + 1]
      BY <1>0, <1>4, <1>5 DEF Lies
<1>7. pushed[m] \in Recs
  <2>1. Freed \in Nat /\ Published \in Nat
        BY Basics
  <2>2. m \in 1..Published
        BY <1>4, <2>1
  <2>3. pushed \in Seq(Recs) /\ Published = Len(pushed)
        BY DEF IInv, OrderInv, Published
  <2> QED BY <2>2, <2>3
<1>8. /\ got' \in Seq(Recs) /\ Read' = Read + 1 /\ got'[Read + 1] = pushed[m]
      /\ \A i \in 1..Read : got'[i] = got[i]
  <2>1. got \in Seq(Recs) /\ got' = Append(got, pushed[m])
        BY <1>0, <1>6 DEF IInv, OrderInv
  <2> QED BY <1>7, <2>1 DEF Read
<1>9. Boundaries(st)'
      BY <1>0, <1>1, <1>2 DEF Boundaries, Lies, SkipTo, RecordAt, history
<1>10. ConsumerInv(st)'
  <2>1. \E k \in (Freed + 1)..(Published + 1) : seenTail = st[k]
        BY <1>2 DEF ConsumerInv
  <2>2. Freed + Read' + 1 = m + 1
        BY <1>3, <1>8, Basics
  <2>3. peekedEnd' = None
        BY <1>0 DEF IInv, OrderInv
  <2>4. cpc' \in {"length", "store"} /\ (cpc' = "length" => pos' # seenTail)
        BY <1>0
  <2> QED BY <1>0, <1>1, <1>4, <1>6, <2>1, <2>2, <2>3, <2>4 DEF ConsumerInv
<1>11. OrderInv'
  <2>1. Freed + Read' <= Published
        BY <1>3, <1>4, <1>8, Basics
  <2>0. Read \in Nat /\ Read' = Read + 1
        BY <1>8, Basics
  <2>2. ASSUME NEW i \in 1..(Read + 1) PROVE got'[i] = pushed'[Freed + i]
    <3>1. CASE i = Read + 1
      <4>1. Freed + i = m
            BY <1>3, <3>1, Basics
      <4> QED BY <1>0, <1>8, <3>1, <4>1 DEF history
    <3>2. CASE i # Read + 1
      <4>1. i \in 1..Read
            BY <2>0, <3>2
      <4> QED BY <1>0, <1>8, <4>1 DEF IInv, OrderInv, history
    <3> QED BY <3>1, <3>2
  <2>3. cpc' \in {"length", "store"} /\ op # "peek" /\ peekedEnd = None
        BY <1>0 DEF IInv, OrderInv
  <2> QED BY <1>0, <1>1, <1>8, <2>0, <2>1, <2>2, <2>3 DEF IInv, OrderInv, history
<1>12. TypeOK'
  <2>1. pos' \in Nat /\ room' \in Int /\ left' \in Int
    <3>1. room \in Int /\ left \in Int /\ clen \in Int
          BY DEF IInv, TypeOK
    <3> QED BY <1>0, <1>4, <1>6, <3>1
  <2> QED BY <1>0, <2>1 DEF IInv, TypeOK, shared, producer
<1>13. ProducerInv'
      BY <1>0, ProducerFrame, Basics
<1> QED BY <1>9, <1>10, <1>11, <1>12, <1>13 DEF IInv, ChainInv

\* What freeing the next n records does, when the consumer's position goes to
\* the boundary after them.
LEMMA FreeKeeps ==
  ASSUME IInv, NEW st, Boundaries(st), ConsumerInv(st), NEW n \in Nat, Freed + n <= Published,
         NEW p, p = st[Freed + n + 1], p <= seenTail,
         head' = p, headWord' = p, mem' = mem, tailWord' = tailWord, pushed' = pushed, got' = <<>>,
         UNCHANGED <<producer, seenTail, op, room, left, pos, found, clen>>,
         cpc' = "idle", peekedEnd' = None,
         delivered' \in Seq(Recs), Len(delivered') = Freed + n, \A i \in 1..(Freed + n) : delivered'[i] = pushed[i]
  PROVE  IInv'
<1>1. Published' = Published /\ Freed' = Freed + n /\ Read' = 0
      BY DEF Published, Freed, Read
<1>0. Published \in Nat /\ Freed \in Nat
      BY Basics
<1>2. Freed + n + 1 \in 1..(Published + 1) /\ Freed + 1 \in 1..(Published + 1) /\ Published + 1 \in 1..(Published + 1)
      BY <1>0
<1>3. p \in Nat /\ p % 4 = 0 /\ headWord <= p /\ p <= tailWord
  <2>1. st[Freed + 1] = headWord /\ st[Published + 1] = tailWord
        BY DEF Boundaries
  <2>2. Freed + 1 <= Freed + n + 1 /\ Freed + n + 1 <= Published + 1
        BY SMTT(40), Basics
  <2>3. st[Freed + n + 1] \in Nat /\ st[Freed + n + 1] % 4 = 0
        BY <1>2, Before
  <2>4. st[Freed + 1] <= st[Freed + n + 1] /\ st[Freed + n + 1] <= st[Published + 1]
        BY <1>2, <2>2, Before
  <2> QED BY <2>1, <2>3, <2>4
<1>4. Boundaries(st)'
  <2>1. \A k \in (Freed + n + 1)..Published : Lies(st[k], st[k + 1], pushed[k])
    <3>1. \A k \in (Freed + n + 1)..Published : k \in (Freed + 1)..Published
          BY <1>0
    <3> QED BY <3>1 DEF Boundaries
  <2>2. \A k \in (Freed + n + 1)..Published : Lies(st[k], st[k + 1], pushed[k])'
        BY <2>1 DEF Lies, SkipTo, RecordAt
  <2> QED BY <1>1, <2>2 DEF Boundaries
<1>5. ConsumerInv(st)'
  <2>1. PICK k \in (Freed + 1)..(Published + 1) : seenTail = st[k]
        BY DEF ConsumerInv
  <2>2. k \in 1..(Published + 1)
        BY SMTT(40), Basics
  <2>3. Freed + n + 1 <= k
        BY <1>2, <2>1, <2>2, Before
  <2>4. k \in (Freed + n + 1)..(Published + 1)
        BY <2>3, Basics
  <2> QED BY <1>1, <2>1, <2>4 DEF ConsumerInv
<1>6. OrderInv'
      BY <1>1, CapacityIs DEF IInv, OrderInv
<1>7. TypeOK'
      BY <1>3, CapacityIs DEF IInv, TypeOK, producer
<1>8. ProducerInv'
      BY <1>3, ProducerFrame
<1> QED BY <1>4, <1>5, <1>6, <1>7, <1>8 DEF IInv, ChainInv

\* The consumer's position goes past what tryPop or a batch read.
LEMMA StoreHeadKeeps ==
  ASSUME IInv, StoreHead
  PROVE  IInv'
<1>1. /\ cpc = "store" /\ head' = pos /\ headWord' = pos /\ delivered' = delivered \o got
      /\ got' = <<>> /\ cpc' = "idle"
      /\ UNCHANGED <<mem, tailWord, producer, seenTail, peekedEnd, op, room, left, pos, found, clen, pushed>>
      BY DEF StoreHead
<1>2. PICK st : Boundaries(st) /\ ConsumerInv(st)
      BY DEF IInv, ChainInv
<1>3. peekedEnd' = None
      BY <1>1 DEF IInv, OrderInv
<1>4. PICK n, p : n \in Nat /\ n = Read /\ Freed + n <= Published /\ p = pos
      BY Basics
<1>5. p = st[Freed + n + 1] /\ p <= seenTail
      BY <1>1, <1>2, <1>4 DEF ConsumerInv
<1>6. /\ delivered' \in Seq(Recs) /\ Len(delivered') = Freed + n
      /\ \A i \in 1..(Freed + n) : delivered'[i] = pushed[i]
  <2>1. delivered \in Seq(Recs) /\ got \in Seq(Recs) /\ Len(delivered) = Freed /\ Len(got) = n
        BY <1>4 DEF IInv, OrderInv, Freed, Read
  <2>2. /\ delivered' \in Seq(Recs) /\ Len(delivered') = Freed + n
        /\ \A i \in 1..(Freed + n) : delivered'[i] = IF i <= Freed THEN delivered[i] ELSE got[i - Freed]
    <3>1. /\ delivered \o got \in Seq(Recs) /\ Len(delivered \o got) = Len(delivered) + Len(got)
          /\ \A i \in 1..(Len(delivered) + Len(got)) :
               (delivered \o got)[i] = IF i <= Len(delivered) THEN delivered[i] ELSE got[i - Len(delivered)]
          BY <2>1, ConcatProperties, Zenon
    <3>2. PICK d : d = delivered \o got
          OBVIOUS
    <3>3. /\ d \in Seq(Recs) /\ Len(d) = Freed + n
          /\ \A i \in 1..(Freed + n) : d[i] = IF i <= Freed THEN delivered[i] ELSE got[i - Freed]
          BY <2>1, <3>1, <3>2, Zenon
    <3>4. delivered' = d
          BY <1>1, <3>2
    <3> QED BY <3>3, <3>4, Zenon
  <2>3. ASSUME NEW i \in 1..(Freed + n) PROVE delivered'[i] = pushed[i]
    <3>1. CASE i <= Freed
      <4>1. i \in 1..Freed
            BY <3>1, Basics
      <4> QED BY <2>2, <3>1, <4>1 DEF IInv, OrderInv
    <3>2. CASE ~(i <= Freed)
      <4>1. i - Freed \in 1..Read /\ Freed + (i - Freed) = i
            BY <1>4, <3>2, Basics
      <4>2. got[i - Freed] = pushed[Freed + (i - Freed)]
            BY <4>1 DEF IInv, OrderInv
      <4> QED BY <2>2, <3>2, <4>1, <4>2
    <3> QED BY <3>1, <3>2
  <2> QED BY <2>2, <2>3
<1>7. head' = p /\ headWord' = p
      BY <1>1, <1>4
<1> QED BY <1>1, <1>2, <1>3, <1>4, <1>5, <1>6, <1>7, FreeKeeps

\* release frees the record that was lent.
LEMMA ReleaseKeeps ==
  ASSUME IInv, Release
  PROVE  IInv'
<1>1. /\ cpc = "idle" /\ peekedEnd # None /\ head' = peekedEnd /\ headWord' = peekedEnd /\ peekedEnd' = None
      /\ delivered' = Append(delivered, RecordAt(found, clen))
      /\ UNCHANGED <<mem, tailWord, producer, cpc, seenTail, op, room, left, pos, found, clen, got, pushed>>
      BY DEF Release
<1>2. PICK st : Boundaries(st) /\ ConsumerInv(st)
      BY DEF IInv, ChainInv
<1>3. /\ peekedEnd = st[Freed + 2] /\ peekedEnd <= seenTail /\ Freed < Published
      /\ found = SkipTo(headWord) /\ clen = pushed[Freed + 1].len
      BY <1>1, <1>2 DEF ConsumerInv
<1>4. RecordAt(found, clen) = pushed[Freed + 1]
  <2>1. Freed + 1 \in (Freed + 1)..Published
        BY <1>3, Basics
  <2>2. Lies(st[Freed + 1], st[(Freed + 1) + 1], pushed[Freed + 1]) /\ st[Freed + 1] = headWord
        BY <1>2, <2>1 DEF Boundaries
  <2> QED BY <1>3, <2>2 DEF Lies
<1>5. pushed[Freed + 1] \in Recs
  <2>1. pushed \in Seq(Recs) /\ Freed + 1 \in 1..Len(pushed)
        BY SMTT(40), <1>3, Basics DEF IInv, OrderInv, Published
  <2> QED BY <2>1
<1>6. PICK n, p : n \in Nat /\ n = 1 /\ Freed + n <= Published /\ p = peekedEnd
                 /\ Freed + n + 1 = Freed + 2
      BY <1>3, Basics
<1>7. /\ delivered' \in Seq(Recs) /\ Len(delivered') = Freed + n
      /\ \A i \in 1..(Freed + n) : delivered'[i] = pushed[i]
  <2>1. delivered \in Seq(Recs) /\ Len(delivered) = Freed /\ delivered' = Append(delivered, pushed[Freed + 1])
        BY <1>1, <1>4 DEF IInv, OrderInv, Freed
  <2>2. /\ delivered' \in Seq(Recs) /\ Len(delivered') = Freed + 1 /\ delivered'[Freed + 1] = pushed[Freed + 1]
        /\ \A i \in 1..Freed : delivered'[i] = delivered[i]
        BY <1>5, <2>1
  <2>3. ASSUME NEW i \in 1..(Freed + n) PROVE delivered'[i] = pushed[i]
    <3>1. i = Freed + 1 \/ i \in 1..Freed
          BY <1>6, Basics
    <3> QED BY <2>2, <3>1 DEF IInv, OrderInv
  <2> QED BY <1>6, <2>2, <2>3
<1>8. p = st[Freed + n + 1] /\ p <= seenTail /\ head' = p /\ headWord' = p
      BY <1>1, <1>3, <1>6
<1>9. got' = <<>> /\ cpc' = "idle"
      BY <1>1 DEF IInv, OrderInv
<1> QED BY <1>1, <1>2, <1>6, <1>7, <1>8, <1>9, FreeKeeps

\* A consumer that dies is replaced by one that finds its record again.
LEMMA ConsumerAttachKeeps ==
  ASSUME IInv, ConsumerAttach
  PROVE  IInv'
<1>0. /\ headWord' = headWord /\ tailWord' = tailWord /\ mem' = mem /\ UNCHANGED <<shared, producer, op, room, left, pos, found, clen, history>>
      /\ head' = headWord /\ seenTail' = tailWord /\ peekedEnd' = None /\ got' = <<>> /\ cpc' = "idle"
      BY DEF ConsumerAttach, shared
<1>1. Published' = Published /\ Freed' = Freed /\ Read' = 0
      BY <1>0 DEF Published, Freed, Read, history
<1>2. PICK st : Boundaries(st) /\ ConsumerInv(st)
      BY DEF IInv, ChainInv
<1>3. Boundaries(st)'
      BY <1>0, <1>1, <1>2 DEF Boundaries, Lies, SkipTo, RecordAt, history
<1>4. ConsumerInv(st)'
  <2>1. Published + 1 \in (Freed + 1)..(Published + 1) /\ tailWord = st[Published + 1]
        BY <1>2, Basics DEF Boundaries
  <2> QED BY <1>0, <1>1, <2>1 DEF ConsumerInv
<1>5. OrderInv'
      BY SMTT(40), <1>0, <1>1, Basics, CapacityIs DEF IInv, OrderInv, history
<1>6. TypeOK'
      BY <1>0, Basics, CapacityIs DEF IInv, TypeOK, shared, producer
<1>7. ProducerInv'
      BY <1>0, ProducerFrame, Basics
<1> QED BY <1>3, <1>4, <1>5, <1>6, <1>7 DEF IInv, ChainInv
-----------------------------------------------------------------------------
\* The invariant gives what RecordsIntact promises: the record being written
\* and those queued have no word in common, and what was lent is the oldest.
LEMMA IInvIntact == IInv => RecordsIntact
<1> SUFFICES ASSUME IInv PROVE RecordsIntact
    OBVIOUS
<1>1. TypeOK /\ NeverCorrupt
      BY DEF IInv, OrderInv, NeverCorrupt
<1>2. LentIntact
  <2> SUFFICES ASSUME peekedEnd # None
               PROVE  Len(pushed) > Len(delivered) /\ RecordAt(found, clen) = pushed[Len(delivered) + 1]
      BY DEF LentIntact
  <2>1. PICK st : Boundaries(st) /\ ConsumerInv(st)
        BY DEF IInv, ChainInv
  <2>2. Freed < Published /\ found = SkipTo(headWord) /\ clen = pushed[Freed + 1].len
        BY <2>1 DEF ConsumerInv
  <2>3. Freed + 1 \in (Freed + 1)..Published
        BY <2>2, Basics
  <2>4. Lies(st[Freed + 1], st[(Freed + 1) + 1], pushed[Freed + 1]) /\ st[Freed + 1] = headWord
        BY <2>1, <2>3 DEF Boundaries
  <2>5. RecordAt(found, clen) = pushed[Freed + 1]
        BY <2>2, <2>4 DEF Lies
  <2>6. Published > Freed
        BY <2>2, Basics
  <2> QED BY <2>5, <2>6 DEF Published, Freed
<1>3. NoTrespass
  <2> SUFFICES ASSUME ppc # "idle", NEW c \in WriteCells, c \in QueuedCells PROVE FALSE
      BY DEF NoTrespass
  <2>1. /\ End = RecordStart + (Words(Need) * 4 + 4) /\ RecordStart \in Nat /\ Words(Need) \in Nat
        /\ RecordStart >= tail /\ RecordStart % 4 = 0
        BY Writing
  <2>2. PICK a \in Nat : a % 4 = 0 /\ tail <= a /\ a < End /\ c = CellAt(a)
    <3>a. ringRecordBytes(Need) \in Nat
          BY Writing, RecordBytes
    <3>b. End - tail = RecordStart + ringRecordBytes(Need) - tail
          BY <2>1, <3>a, Basics DEF End
    <3>c. WriteCells = {CellAt(tail + i * Word) :
                        i \in 0..(((RecordStart + ringRecordBytes(Need) - tail) \div Word) - 1)}
          BY Zenon DEF WriteCells, Need
    <3>1. WriteCells = {CellAt(tail + i * Word) : i \in 0..(((End - tail) \div Word) - 1)}
          BY <3>b, <3>c, Zenon
    <3>2. PICK i \in 0..(((End - tail) \div 4) - 1) : c = CellAt(tail + i * 4)
          BY <3>1, CapacityIs
    <3>3. tail + i * 4 \in Nat /\ (tail + i * 4) % 4 = 0 /\ tail <= tail + i * 4 /\ tail + i * 4 < End
          BY <2>1, <3>2, Basics
    <3> QED BY <3>2, <3>3
  <2>3. PICK p \in Nat : p % 4 = 0 /\ headWord <= p /\ p < tailWord /\ c = CellAt(p)
    <3>1. PICK i \in 0..(((tailWord - headWord) \div 4) - 1) : c = CellAt(headWord + i * 4)
          BY CapacityIs DEF QueuedCells
    <3>2. /\ headWord + i * 4 \in Nat /\ (headWord + i * 4) % 4 = 0 /\ headWord <= headWord + i * 4
          /\ headWord + i * 4 < tailWord
          BY <3>1, Basics
    <3> QED BY <3>1, <3>2
  <2>4. headWord <= a /\ p < End /\ a # p
        BY <2>1, <2>2, <2>3, Basics
  <2> QED BY <2>2, <2>3, <2>4, WriteApart
<1> QED BY <1>1, <1>2, <1>3 DEF RecordsIntact

\* Every step of either process keeps the invariant.
LEMMA StepKeeps == IInv /\ [Next]_vars => IInv'
<1> SUFFICES ASSUME IInv, [Next]_vars PROVE IInv'
    OBVIOUS
<1>1. ASSUME NEW n \in Lens, TryPush(n) PROVE IInv'
      BY <1>1, TryPushKeeps
<1>2. ASSUME NEW n \in Reserves, Reserve(n) PROVE IInv'
      BY <1>2, ReserveKeeps
<1>3. ASSUME NEW n \in Lens \cup Reserves, Commit(n) PROVE IInv'
      BY <1>3, CommitKeeps
<1>4. CASE FillWindow \/ WritePayload
      BY <1>4, PayloadKeeps
<1>5. CASE Abandon \/ ProducerAttach
      BY <1>5, GiveUpKeeps
<1>6. CASE StoreSkip
      BY <1>6, StoreSkipKeeps
<1>7. CASE StoreLength
      BY <1>7, StoreLengthKeeps
<1>8. CASE Publish
      BY <1>8, PublishKeeps
<1>9. ASSUME NEW r \in Rooms, TryPop(r) PROVE IInv'
  <2>1. r \in Int
        BY LengthAssumption
  <2> QED BY <1>9, <2>1, BeginKeeps DEF TryPop
<1>10. ASSUME NEW r \in Rooms, NEW b \in Batches, PopBatch(r, b) PROVE IInv'
  <2>1. r \in Int /\ b \in Int
        BY LengthAssumption
  <2> QED BY <1>10, <2>1, BeginKeeps DEF PopBatch
<1>11. CASE Peek
  <2>1. room \in Int /\ left \in Int
        BY DEF IInv, TypeOK
  <2> QED BY <1>11, <2>1, BeginKeeps DEF Peek
<1>12. CASE LengthAt
      BY <1>12, LengthAtKeeps
<1>13. CASE CopyOut
      BY <1>13, CopyOutKeeps
<1>14. CASE StoreHead
      BY <1>14, StoreHeadKeeps
<1>15. CASE Release
      BY <1>15, ReleaseKeeps
<1>16. CASE ConsumerAttach
      BY <1>16, ConsumerAttachKeeps
<1>17. CASE UNCHANGED vars
  <2>1. UNCHANGED <<shared, consumer, history>> /\ UNCHANGED producer
        BY <1>17 DEF vars
  <2>2. TypeOK'
        BY <2>1 DEF IInv, TypeOK, shared, consumer, producer
  <2>3. ProducerInv'
        BY <2>1, ProducerFrame, Basics DEF shared
  <2> QED BY <2>1, <2>2, <2>3, ChainFrame DEF IInv
<1> QED BY <1>1, <1>2, <1>3, <1>4, <1>5, <1>6, <1>7, <1>8, <1>9, <1>10, <1>11, <1>12, <1>13, <1>14, <1>15,
           <1>16, <1>17 DEF Next, Produce, Consume

\* Records stay whole, whatever the two processes do and wherever they die: the
\* producer's stores never touch a word the consumer may be reading, a window
\* lent by peek holds the oldest record until release, and lengthAt never finds
\* the ring corrupt (tryPush, reserve, commit, peek, lengthAt).
THEOREM RecordsStayIntact == Spec => []RecordsIntact
<1>1. Init => IInv
      BY InitIInv
<1>2. IInv /\ [Next]_vars => IInv'
      BY StepKeeps
<1>3. IInv => RecordsIntact
      BY IInvIntact
<1> QED BY <1>1, <1>2, <1>3, PTL DEF Spec

\* The records freed are the first ones published, whole and in order: a death
\* of either process loses none of them and repeats none (tryPop, popBatch,
\* release, publish).
FreedInOrder ==
  /\ Len(delivered) <= Len(pushed)
  /\ \A i \in 1..Len(delivered) : delivered[i] = pushed[i]

\* Delivery is first in, first out (tryPop, popBatch, peek, release).
THEOREM DeliversInOrder == Spec => []FreedInOrder
<1>1. IInv => FreedInOrder
  <2> SUFFICES ASSUME IInv PROVE FreedInOrder
      OBVIOUS
  <2>1. Freed <= Published
        BY Basics
  <2>2. \A i \in 1..Freed : delivered[i] = pushed[i]
        BY DEF IInv, OrderInv
  <2> QED BY <2>1, <2>2 DEF FreedInOrder, Freed, Published
<1> QED BY <1>1, InitIInv, StepKeeps, PTL DEF Spec

-----------------------------------------------------------------------------
Waking == {p \in Producers : pc[p] = "wake"}
Pending == <<[word |-> Bell!Flag, value |-> Bell!Awake]>>

\* Only the consumer's last StoreAwake is ever in a buffer.
BufferInv ==
  /\ buffer \in [Bell!Processes -> Seq([word : Bell!Words, value : Nat])]
  /\ \A p \in Producers : buffer[p] = <<>>
  /\ buffer[Bell!Consumer] \in {<<>>, Pending}
  /\ pc[Bell!Consumer] \notin {"idle", "raise"} => buffer[Bell!Consumer] = <<>>

\* A consumer about to sleep, or asleep, with the flag up has looked after it
\* raised it: what came later is in the hands of a producer that will ring.
LookedInv ==
  pc[Bell!Consumer] \in {"futex", "asleep"} /\ memory[Bell!Flag] = Bell!Asleep =>
    \A p \in Producers : memory[p] > taken[p] =>
      \E q \in Producers : pc[q] \in {"bell", "exchange"}

\* A sleeper whose flag was taken down is about to be woken.
WakerInv ==
  pc[Bell!Consumer] = "asleep" /\ memory[Bell!Flag] = Bell!Awake => Waking # {}

\* Each raising of the flag is one token: on the flag, with one producer, spent.
TokenInv ==
  /\ IsFiniteSet(Waking)
  /\ wakes + Cardinality(Waking) + memory[Bell!Flag] <= sleeps
  /\ pc[Bell!Consumer] = "raise" => sleeps < MaxSleeps

BellIInv == Bell!TypeOK /\ BufferInv /\ LookedInv /\ WakerInv /\ TokenInv

\* An empty buffer changes nothing.
LEMMA ApplyNone ==
  ASSUME NEW m \in [Bell!Words -> Nat]
  PROVE  Bell!Apply(m, <<>>) = m
<1>1. \A w \in Bell!Words : {i \in DOMAIN <<>> : <<>>[i].word = w} = {}
      OBVIOUS
<1> QED BY <1>1 DEF Bell!Apply

\* The pending store takes the flag down.
LEMMA ApplyPending ==
  ASSUME NEW m \in [Bell!Words -> Nat]
  PROVE  Bell!Apply(m, Pending) = [m EXCEPT ![Bell!Flag] = Bell!Awake]
<1> DEFINE Mine(w) == {i \in DOMAIN Pending : Pending[i].word = w}
<1>1. DOMAIN Pending = {1} /\ Pending[1].word = Bell!Flag /\ Pending[1].value = Bell!Awake
      BY DEF Pending
<1>2. ASSUME NEW w \in Bell!Words, w # Bell!Flag PROVE Mine(w) = {}
      BY <1>1, <1>2
<1>3. Mine(Bell!Flag) = {1}
      BY <1>1
<1>4. (CHOOSE i \in Mine(Bell!Flag) : \A j \in Mine(Bell!Flag) : j <= i) = 1
      BY <1>3
<1>5. Bell!Apply(m, Pending) = [w \in Bell!Words |-> IF Mine(w) = {} THEN m[w]
                            ELSE Pending[CHOOSE i \in Mine(w) : \A j \in Mine(w) : j <= i].value]
      BY DEF Bell!Apply
<1> HIDE DEF Mine
<1>6. ASSUME NEW w \in Bell!Words PROVE Bell!Apply(m, Pending)[w] = [m EXCEPT ![Bell!Flag] = Bell!Awake][w]
  <2>1. CASE w = Bell!Flag
        BY <2>1, <1>1, <1>3, <1>4, <1>5
  <2>2. CASE w # Bell!Flag
        BY <2>2, <1>2, <1>5
  <2> QED BY <2>1, <2>2
<1> QED BY <1>5, <1>6

\* What the types and the buffers say of a state, in one place.
LEMMA Facts ==
  ASSUME Bell!NamesApart, BellIInv
  PROVE  /\ Bell!Flag \in Bell!Words /\ Bell!Flag \notin Producers /\ Bell!Consumer \notin Producers
         /\ \A p \in Producers : p \in Bell!Words /\ p \in Bell!Processes /\ p # Bell!Flag /\ p # Bell!Consumer
         /\ Bell!Consumer \in Bell!Processes
         /\ memory \in [Bell!Words -> Nat] /\ memory[Bell!Flag] \in {Bell!Awake, Bell!Asleep}
         /\ pc \in [Bell!Processes -> {"idle", "bell", "exchange", "wake", "raise", "look", "futex",
                                  "asleep", "woken"}]
         /\ \A p \in Producers : buffer[p] = <<>> /\ Bell!Apply(memory, buffer[p]) = memory
         /\ \A p \in Producers : Bell!Load(Bell!Consumer, p) = memory[p]
         /\ \A p \in Producers : Bell!Load(p, p) = memory[p] /\ Bell!Load(p, Bell!Flag) = memory[Bell!Flag]
         /\ taken \in [Producers -> Nat] /\ sleeps \in Nat /\ wakes \in Nat /\ MaxSleeps \in Nat
         /\ IsFiniteSet(Waking) /\ Cardinality(Waking) \in Nat
<1>1. /\ Bell!Flag \in Bell!Words /\ Bell!Flag \notin Producers /\ Bell!Consumer \notin Producers
      /\ \A p \in Producers : p \in Bell!Words /\ p \in Bell!Processes /\ p # Bell!Flag /\ p # Bell!Consumer
      /\ Bell!Consumer \in Bell!Processes /\ MaxSleeps \in Nat
      BY DEF Bell!NamesApart, Bell!Words, Bell!Processes
<1>2. /\ memory \in [Bell!Words -> Nat] /\ memory[Bell!Flag] \in {Bell!Awake, Bell!Asleep}
      /\ taken \in [Producers -> Nat] /\ sleeps \in Nat /\ wakes \in Nat
      /\ pc \in [Bell!Processes -> {"idle", "bell", "exchange", "wake", "raise", "look", "futex",
                               "asleep", "woken"}]
      BY <1>1 DEF BellIInv, Bell!TypeOK
<1>3. \A p \in Producers : buffer[p] = <<>> /\ Bell!Apply(memory, buffer[p]) = memory
      BY <1>2, ApplyNone DEF BellIInv, BufferInv
<1>4. ASSUME NEW p \in Producers PROVE Bell!Load(Bell!Consumer, p) = memory[p]
  <2>1. CASE buffer[Bell!Consumer] = <<>>
        BY <2>1, <1>2, ApplyNone DEF Bell!Load
  <2>2. CASE buffer[Bell!Consumer] = Pending
        BY <2>2, <1>1, <1>2, ApplyPending DEF Bell!Load
  <2> QED BY <2>1, <2>2 DEF BellIInv, BufferInv
<1>5. \A p \in Producers : Bell!Load(p, p) = memory[p] /\ Bell!Load(p, Bell!Flag) = memory[Bell!Flag]
      BY <1>3 DEF Bell!Load
<1>6. IsFiniteSet(Waking) /\ Cardinality(Waking) \in Nat
      BY FS_CardinalityType DEF BellIInv, TokenInv
<1> QED BY <1>1, <1>2, <1>3, <1>4, <1>5, <1>6

\* At the start nothing is published and nobody sleeps.
LEMMA InitBell ==
  ASSUME Bell!NamesApart, Bell!Init
  PROVE  BellIInv
<1>1. Bell!TypeOK
  <2>1. \A x \in Bell!Processes : buffer[x] = <<>>
        BY DEF Bell!Init
  <2>2. <<>> \in Seq([word : Bell!Words, value : Nat])
        OBVIOUS
  <2> QED BY <2>1, <2>2 DEF Bell!Init, Bell!TypeOK, Bell!NamesApart, Bell!Words, Bell!Awake, Bell!Asleep
<1>2. BufferInv
  <2>1. <<>> \in Seq([word : Bell!Words, value : Nat])
        OBVIOUS
  <2> QED BY <2>1 DEF Bell!Init, BufferInv, Bell!Processes
<1>3. pc[Bell!Consumer] = "idle" /\ \A p \in Producers : pc[p] = "idle"
      BY DEF Bell!Init, Bell!Processes
<1>4. Waking = {}
      BY <1>3 DEF Waking
<1>5. LookedInv /\ WakerInv
      BY <1>3 DEF LookedInv, WakerInv
<1>6. TokenInv
  <2>1. memory[Bell!Flag] = 0 /\ wakes = 0 /\ sleeps = 0
        BY DEF Bell!Init, Bell!Words
  <2> QED BY <1>3, <1>4, <2>1, FS_EmptySet DEF TokenInv
<1> QED BY <1>1, <1>2, <1>5, <1>6 DEF BellIInv

\* The consumer's store of Awake reaches memory; no other store waits.
LEMMA FlushKeeps ==
  ASSUME Bell!NamesApart, BellIInv, NEW x \in Bell!Processes, Bell!Flush(x)
  PROVE  BellIInv'
<1>1. x = Bell!Consumer /\ buffer[Bell!Consumer] = Pending /\ pc[Bell!Consumer] \in {"idle", "raise"}
      BY Facts DEF Bell!Flush, BellIInv, BufferInv, Bell!Processes
<1>2. Head(buffer[x]) = [word |-> Bell!Flag, value |-> Bell!Awake] /\ Tail(buffer[x]) = <<>>
      BY <1>1 DEF Pending
<1>3. memory' = [memory EXCEPT ![Bell!Flag] = Bell!Awake]
  <2>1. memory' = Bell!Apply(memory, Pending)
        BY <1>2 DEF Bell!Flush, Pending
  <2> QED BY <2>1, Facts, ApplyPending
<1>4. buffer' = [buffer EXCEPT ![Bell!Consumer] = <<>>] /\ UNCHANGED <<pc, taken, sleeps, wakes>>
      BY <1>1, <1>2 DEF Bell!Flush
<1>5. memory' \in [Bell!Words -> Nat] /\ memory'[Bell!Flag] = 0 /\ \A p \in Producers : memory'[p] = memory[p]
      BY <1>3, Facts DEF Bell!Awake
<1>6. Waking' = Waking
      BY <1>4 DEF Waking
<1>7. /\ buffer' \in [Bell!Processes -> Seq([word : Bell!Words, value : Nat])]
      /\ \A p \in Producers : buffer'[p] = <<>>
      /\ buffer'[Bell!Consumer] = <<>>
  <2>1. buffer \in [Bell!Processes -> Seq([word : Bell!Words, value : Nat])]
        BY DEF BellIInv, BufferInv
  <2>2. <<>> \in Seq([word : Bell!Words, value : Nat])
        OBVIOUS
  <2> QED BY <1>4, <2>1, <2>2, Facts
<1>8. Bell!TypeOK'
      BY <1>4, <1>5, <1>7, Facts DEF BellIInv, Bell!TypeOK, Bell!Awake
<1>9. BufferInv'
      BY <1>7 DEF BufferInv
<1>10. LookedInv' /\ WakerInv'
      BY <1>1, <1>4 DEF LookedInv, WakerInv
<1>11. TokenInv'
      BY <1>4, <1>5, <1>6, Facts DEF BellIInv, TokenInv, Bell!Awake, Bell!Asleep
<1> QED BY <1>8, <1>9, <1>10, <1>11 DEF BellIInv

\* A record is published: its producer is at the bell.
LEMMA BellPublishKeeps ==
  ASSUME Bell!NamesApart, BellIInv, NEW p \in Producers, Bell!Publish(p)
  PROVE  BellIInv'
<1>1. /\ pc[p] = "idle" /\ memory' = [memory EXCEPT ![p] = memory[p] + 1]
      /\ buffer' = [buffer EXCEPT ![p] = <<>>] /\ pc' = [pc EXCEPT ![p] = "bell"]
      /\ UNCHANGED <<taken, sleeps, wakes>>
      BY Facts DEF Bell!Publish, Bell!StoreSeqCst, Bell!Goto
<1>2. buffer' = buffer
  <2>1. buffer \in [Bell!Processes -> Seq([word : Bell!Words, value : Nat])] /\ buffer[p] = <<>>
        BY Facts DEF BellIInv, BufferInv
  <2> QED BY <1>1, <2>1
<1>3. /\ memory' \in [Bell!Words -> Nat] /\ memory'[Bell!Flag] = memory[Bell!Flag]
      /\ pc'[Bell!Consumer] = pc[Bell!Consumer] /\ pc'[p] = "bell"
      /\ \A q \in Producers : q # p => pc'[q] = pc[q]
      BY <1>1, Facts
<1>4. Waking' = Waking
      BY <1>1, <1>3 DEF Waking
<1>5. Bell!TypeOK'
      BY <1>1, <1>2, <1>3, Facts DEF BellIInv, Bell!TypeOK
<1>6. BufferInv'
      BY <1>2, <1>3 DEF BellIInv, BufferInv
<1>7. LookedInv'
      BY <1>3 DEF LookedInv
<1>8. WakerInv' /\ TokenInv'
      BY <1>1, <1>3, <1>4 DEF BellIInv, WakerInv, TokenInv
<1> QED BY <1>5, <1>6, <1>7, <1>8 DEF BellIInv

\* A producer that sees the flag up goes on to take it down; one that sees it
\* down leaves.
LEMMA LoadFlagKeeps ==
  ASSUME Bell!NamesApart, BellIInv, NEW p \in Producers, Bell!LoadFlag(p)
  PROVE  BellIInv'
<1> DEFINE to == IF memory[Bell!Flag] # Bell!Awake THEN "exchange" ELSE "idle"
<1>1. /\ pc[p] = "bell" /\ pc' = [pc EXCEPT ![p] = to]
      /\ UNCHANGED <<memory, buffer, taken, sleeps, wakes>>
      BY Facts DEF Bell!LoadFlag, Bell!Goto
<1>2. /\ pc'[Bell!Consumer] = pc[Bell!Consumer] /\ pc'[p] = to
      /\ \A q \in Producers : q # p => pc'[q] = pc[q]
      BY <1>1, Facts
<1>3. Waking' = Waking
      BY <1>1, <1>2 DEF Waking
<1>4. Bell!TypeOK'
      BY <1>1, Facts DEF BellIInv, Bell!TypeOK
<1>5. BufferInv'
      BY <1>1, <1>2 DEF BellIInv, BufferInv
<1>6. LookedInv'
      BY <1>1, <1>2 DEF BellIInv, LookedInv, Bell!Awake, Bell!Asleep
<1>7. WakerInv' /\ TokenInv'
      BY <1>1, <1>2, <1>3 DEF BellIInv, WakerInv, TokenInv
<1> QED BY <1>4, <1>5, <1>6, <1>7 DEF BellIInv

\* The producer that takes the flag down gets its token and is the one to wake.
LEMMA ExchangeKeeps ==
  ASSUME Bell!NamesApart, BellIInv, NEW p \in Producers, Bell!ExchangeFlag(p)
  PROVE  BellIInv'
<1> DEFINE to == IF memory[Bell!Flag] # Bell!Awake THEN "wake" ELSE "idle"
<1>1. /\ pc[p] = "exchange" /\ pc' = [pc EXCEPT ![p] = to]
      /\ memory' = [memory EXCEPT ![Bell!Flag] = Bell!Awake]
      /\ buffer' = [buffer EXCEPT ![p] = <<>>]
      /\ UNCHANGED <<taken, sleeps, wakes>>
      BY Facts DEF Bell!ExchangeFlag, Bell!StoreSeqCst, Bell!Goto
<1>2. buffer' = buffer
  <2>1. buffer \in [Bell!Processes -> Seq([word : Bell!Words, value : Nat])] /\ buffer[p] = <<>>
        BY Facts DEF BellIInv, BufferInv
  <2> QED BY <1>1, <2>1
<1>3. /\ pc'[Bell!Consumer] = pc[Bell!Consumer] /\ pc'[p] = to
      /\ \A q \in Producers : q # p => pc'[q] = pc[q]
      /\ memory' \in [Bell!Words -> Nat] /\ memory'[Bell!Flag] = 0
      /\ p \notin Waking
      BY <1>1, Facts DEF Bell!Awake, Waking
<1>4. Bell!TypeOK'
      BY <1>1, <1>2, <1>3, Facts DEF BellIInv, Bell!TypeOK, Bell!Awake
<1>5. BufferInv'
      BY <1>2, <1>3 DEF BellIInv, BufferInv
<1>6. LookedInv'
      BY <1>3 DEF LookedInv, Bell!Asleep
<1>7. CASE memory[Bell!Flag] = Bell!Awake
  <2>1. Waking' = Waking
        BY <1>1, <1>3, <1>7 DEF Waking
  <2>2. memory'[Bell!Flag] = memory[Bell!Flag]
        BY <1>3, <1>7 DEF Bell!Awake
  <2>3. WakerInv' /\ TokenInv'
        BY <1>1, <1>3, <2>1, <2>2 DEF BellIInv, WakerInv, TokenInv
  <2> QED BY <1>4, <1>5, <1>6, <2>3 DEF BellIInv
<1>8. CASE memory[Bell!Flag] # Bell!Awake
  <2>1. Waking' = Waking \cup {p}
        BY <1>1, <1>3, <1>8 DEF Waking
  <2>2. memory[Bell!Flag] = 1
        BY <1>8, Facts DEF Bell!Asleep
  <2>3. IsFiniteSet(Waking') /\ Cardinality(Waking') = Cardinality(Waking) + 1
        BY <1>3, <2>1, Facts, FS_AddElement
  <2>4. WakerInv'
        BY <2>1 DEF WakerInv
  <2>5. TokenInv'
        BY <1>1, <1>3, <2>2, <2>3, Facts DEF BellIInv, TokenInv
  <2> QED BY <1>4, <1>5, <1>6, <2>4, <2>5 DEF BellIInv
<1> QED BY <1>7, <1>8

\* The wake spends its producer's token.
LEMMA WakeKeeps ==
  ASSUME Bell!NamesApart, BellIInv, NEW p \in Producers, Bell!Wake(p)
  PROVE  BellIInv'
<1> DEFINE c == IF pc[Bell!Consumer] = "asleep" THEN "woken" ELSE pc[Bell!Consumer]
<1>1. /\ pc[p] = "wake" /\ wakes' = wakes + 1
      /\ pc' = [pc EXCEPT ![p] = "idle", ![Bell!Consumer] = c]
      /\ UNCHANGED <<memory, buffer, taken, sleeps>>
      BY Facts DEF Bell!Wake
<1>2. /\ pc'[Bell!Consumer] = c /\ pc'[p] = "idle"
      /\ \A q \in Producers : q # p => pc'[q] = pc[q]
      /\ p \in Waking
      BY <1>1, Facts DEF Waking
<1>3. Waking' = Waking \ {p}
      BY <1>2 DEF Waking
<1>4. IsFiniteSet(Waking') /\ Cardinality(Waking') = Cardinality(Waking) - 1
      BY <1>2, <1>3, Facts, FS_RemoveElement
<1>5. Bell!TypeOK'
  <2>1. c \in {"idle", "bell", "exchange", "wake", "raise", "look", "futex", "asleep", "woken"}
        BY Facts
  <2> HIDE DEF c
  <2>2. pc' \in [Bell!Processes -> {"idle", "bell", "exchange", "wake", "raise", "look", "futex",
                               "asleep", "woken"}]
        BY <1>1, <2>1, Facts
  <2>3. wakes' \in Nat
        BY <1>1, Facts
  <2>4. UNCHANGED <<memory, buffer, taken, sleeps>>
        BY <1>1
  <2> QED BY <2>2, <2>3, <2>4 DEF BellIInv, Bell!TypeOK
<1>6. BufferInv'
      BY <1>1, <1>2 DEF BellIInv, BufferInv
<1>7. LookedInv'
      BY <1>1, <1>2 DEF BellIInv, LookedInv
<1>8. WakerInv'
      BY <1>2 DEF WakerInv
<1>9. TokenInv'
      BY <1>1, <1>2, <1>4, Facts DEF BellIInv, TokenInv, Bell!Awake, Bell!Asleep
<1> QED BY <1>5, <1>6, <1>7, <1>8, <1>9 DEF BellIInv

\* Steps of the consumer that move only it: none of them leaves a record
\* behind, since it goes to "futex" only after a look that found nothing.
LEMMA ConsumerMoves ==
  ASSUME Bell!NamesApart, BellIInv, NEW to \in {"raise", "futex", "asleep", "woken"},
         pc' = [pc EXCEPT ![Bell!Consumer] = to],
         UNCHANGED <<memory, buffer, taken, sleeps, wakes>>,
         to = "raise" => sleeps < MaxSleeps,
         to # "raise" => buffer[Bell!Consumer] = <<>>,
         to = "futex" => \A p \in Producers : ~(memory[p] > taken[p]),
         to = "asleep" => pc[Bell!Consumer] = "futex" /\ memory[Bell!Flag] = Bell!Asleep
  PROVE  BellIInv'
<1>1. pc'[Bell!Consumer] = to /\ \A q \in Producers : pc'[q] = pc[q]
      BY Facts
<1>2. Waking' = Waking
      BY <1>1 DEF Waking
<1>3. Bell!TypeOK'
      BY Facts DEF BellIInv, Bell!TypeOK
<1>4. BufferInv'
      BY <1>1 DEF BellIInv, BufferInv
<1>5. LookedInv'
      BY <1>1 DEF BellIInv, LookedInv
<1>6. WakerInv'
      BY <1>1, <1>2 DEF WakerInv, Bell!Awake, Bell!Asleep
<1>7. TokenInv'
      BY <1>1, <1>2 DEF BellIInv, TokenInv
<1> QED BY <1>3, <1>4, <1>5, <1>6, <1>7 DEF BellIInv

\* The consumer raises the flag, which empties its buffer: a token is made.
LEMMA RaiseKeeps ==
  ASSUME Bell!NamesApart, BellIInv, Bell!RaiseFlag
  PROVE  BellIInv'
<1>1. /\ pc[Bell!Consumer] = "raise" /\ sleeps' = sleeps + 1 /\ pc' = [pc EXCEPT ![Bell!Consumer] = "look"]
      /\ memory' = [Bell!Apply(memory, buffer[Bell!Consumer]) EXCEPT ![Bell!Flag] = Bell!Asleep]
      /\ buffer' = [buffer EXCEPT ![Bell!Consumer] = <<>>]
      /\ UNCHANGED <<taken, wakes>>
      BY DEF Bell!RaiseFlag, Bell!StoreSeqCst, Bell!Goto
<1>2. memory' = [memory EXCEPT ![Bell!Flag] = Bell!Asleep]
  <2>1. CASE buffer[Bell!Consumer] = <<>>
        BY <1>1, <2>1, Facts, ApplyNone
  <2>2. CASE buffer[Bell!Consumer] = Pending
        BY <1>1, <2>2, Facts, ApplyPending
  <2> QED BY <2>1, <2>2 DEF BellIInv, BufferInv
<1>3. /\ pc'[Bell!Consumer] = "look" /\ \A q \in Producers : pc'[q] = pc[q]
      /\ memory' \in [Bell!Words -> Nat] /\ memory'[Bell!Flag] = 1
      /\ sleeps < MaxSleeps
  <2>1. sleeps < MaxSleeps
        BY <1>1 DEF BellIInv, TokenInv
  <2>2. memory' \in [Bell!Words -> Nat] /\ memory'[Bell!Flag] = 1
        BY <1>2, Facts DEF Bell!Asleep
  <2>3. pc'[Bell!Consumer] = "look" /\ \A q \in Producers : pc'[q] = pc[q]
        BY <1>1, Facts
  <2> QED BY <2>1, <2>2, <2>3
<1>4. Waking' = Waking
      BY <1>3 DEF Waking
<1>5. /\ buffer' \in [Bell!Processes -> Seq([word : Bell!Words, value : Nat])]
      /\ \A p \in Producers : buffer'[p] = <<>>
      /\ buffer'[Bell!Consumer] = <<>>
  <2>1. buffer \in [Bell!Processes -> Seq([word : Bell!Words, value : Nat])]
        BY DEF BellIInv, BufferInv
  <2>2. <<>> \in Seq([word : Bell!Words, value : Nat])
        OBVIOUS
  <2> QED BY <1>1, <2>1, <2>2, Facts
<1>6. Bell!TypeOK'
  <2>1. pc' \in [Bell!Processes -> {"idle", "bell", "exchange", "wake", "raise", "look", "futex",
                               "asleep", "woken"}]
        BY <1>1, Facts
  <2>2. sleeps' \in 0..MaxSleeps
        BY <1>1, <1>3, Facts
  <2>3. \A x \in Bell!Processes : buffer'[x] \in Seq([word : Bell!Words, value : Nat])
        BY <1>5
  <2>4. memory'[Bell!Flag] \in {Bell!Awake, Bell!Asleep}
        BY <1>3 DEF Bell!Asleep
  <2> QED BY <1>1, <1>3, <2>1, <2>2, <2>3, <2>4, Facts DEF Bell!TypeOK
<1>7. BufferInv'
      BY <1>5 DEF BufferInv
<1>8. LookedInv' /\ WakerInv'
      BY <1>3 DEF LookedInv, WakerInv
<1>9. TokenInv'
      BY <1>1, <1>3, <1>4, Facts DEF BellIInv, TokenInv, Bell!Awake, Bell!Asleep
<1> QED BY <1>6, <1>7, <1>8, <1>9 DEF BellIInv

\* The consumer's Awake waits in its buffer.
LEMMA StoreAwakeKeeps ==
  ASSUME Bell!NamesApart, BellIInv, Bell!StoreAwake
  PROVE  BellIInv'
<1>1. /\ pc[Bell!Consumer] = "woken" /\ pc' = [pc EXCEPT ![Bell!Consumer] = "idle"]
      /\ buffer' = [buffer EXCEPT ![Bell!Consumer] = Append(buffer[Bell!Consumer], [word |-> Bell!Flag, value |-> Bell!Awake])]
      /\ UNCHANGED <<memory, taken, sleeps, wakes>>
      BY DEF Bell!StoreAwake, Bell!StoreBuffered, Bell!Goto
<1>2. Append(buffer[Bell!Consumer], [word |-> Bell!Flag, value |-> Bell!Awake]) = Pending
  <2>1. buffer[Bell!Consumer] = <<>>
        BY <1>1 DEF BellIInv, BufferInv
  <2> QED BY <2>1 DEF Pending
<1>3. pc'[Bell!Consumer] = "idle" /\ \A q \in Producers : pc'[q] = pc[q]
      BY <1>1, Facts
<1>4. Waking' = Waking
      BY <1>3 DEF Waking
<1>5. /\ buffer' \in [Bell!Processes -> Seq([word : Bell!Words, value : Nat])]
      /\ \A p \in Producers : buffer'[p] = <<>>
      /\ buffer'[Bell!Consumer] = Pending
  <2>1. buffer \in [Bell!Processes -> Seq([word : Bell!Words, value : Nat])]
        BY DEF BellIInv, BufferInv
  <2>2. Pending \in Seq([word : Bell!Words, value : Nat])
        BY Facts DEF Pending, Bell!Awake
  <2> QED BY <1>1, <1>2, <2>1, <2>2, Facts
<1>6. Bell!TypeOK'
      BY <1>1, <1>5, Facts DEF BellIInv, Bell!TypeOK
<1>7. BufferInv'
      BY <1>3, <1>5 DEF BufferInv
<1>8. LookedInv' /\ WakerInv'
      BY <1>3 DEF LookedInv, WakerInv
<1>9. TokenInv'
      BY <1>1, <1>3, <1>4 DEF BellIInv, TokenInv
<1> QED BY <1>6, <1>7, <1>8, <1>9 DEF BellIInv

\* A record is taken by a consumer that is awake.
LEMMA TakeKeeps ==
  ASSUME Bell!NamesApart, BellIInv, NEW p \in Producers, Bell!TakeRecord(p)
  PROVE  BellIInv'
<1>1. /\ pc[Bell!Consumer] = "idle" /\ taken' \in [Producers -> Nat]
      /\ UNCHANGED <<memory, buffer, pc, sleeps, wakes>>
      BY Facts DEF Bell!TakeRecord
<1>2. Waking' = Waking
      BY <1>1 DEF Waking
<1>3. Bell!TypeOK'
      BY <1>1 DEF BellIInv, Bell!TypeOK
<1>4. BufferInv' /\ LookedInv' /\ WakerInv'
      BY <1>1 DEF BellIInv, BufferInv, LookedInv, WakerInv
<1>5. TokenInv'
      BY <1>1, <1>2 DEF BellIInv, TokenInv
<1> QED BY <1>3, <1>4, <1>5 DEF BellIInv

\* Every step keeps the invariant.
LEMMA BellStepKeeps ==
  ASSUME Bell!NamesApart, BellIInv, [Bell!Next]_(Bell!vars)
  PROVE  BellIInv'
<1>1. ASSUME NEW x \in Bell!Processes, Bell!Flush(x) PROVE BellIInv'
      BY <1>1, FlushKeeps
<1>2. ASSUME NEW p \in Producers, Bell!Publish(p) \/ Bell!Ring(p) PROVE BellIInv'
      BY <1>2, BellPublishKeeps, LoadFlagKeeps, ExchangeKeeps, WakeKeeps DEF Bell!Ring
<1>3. CASE Bell!RoundEmpty
      BY <1>3, ConsumerMoves DEF Bell!RoundEmpty, Bell!Goto
<1>4. CASE Bell!RaiseFlag
      BY <1>4, RaiseKeeps
<1>5. CASE Bell!LookAgain
  <2>1. buffer[Bell!Consumer] = <<>>
        BY <1>5 DEF Bell!LookAgain, BellIInv, BufferInv
  <2>2. CASE \E p \in Producers : Bell!Ready(p)
        BY <1>5, <2>1, <2>2, ConsumerMoves DEF Bell!LookAgain, Bell!Goto
  <2>3. CASE \A p \in Producers : ~Bell!Ready(p)
    <3>1. \A p \in Producers : ~(memory[p] > taken[p])
          BY <2>3, Facts DEF Bell!Ready
    <3> QED BY <1>5, <2>1, <2>3, <3>1, ConsumerMoves DEF Bell!LookAgain, Bell!Goto
  <2> QED BY <2>2, <2>3
<1>6. CASE Bell!FutexWait
  <2>1. buffer[Bell!Consumer] = <<>>
        BY <1>6 DEF Bell!FutexWait, BellIInv, BufferInv
  <2>2. CASE memory[Bell!Flag] = Bell!Asleep
        BY <1>6, <2>1, <2>2, ConsumerMoves DEF Bell!FutexWait, Bell!Goto
  <2>3. CASE memory[Bell!Flag] # Bell!Asleep
        BY <1>6, <2>1, <2>3, ConsumerMoves DEF Bell!FutexWait, Bell!Goto
  <2> QED BY <2>2, <2>3
<1>7. CASE Bell!StoreAwake
      BY <1>7, StoreAwakeKeeps
<1>8. ASSUME NEW p \in Producers, Bell!TakeRecord(p) PROVE BellIInv'
      BY <1>8, TakeKeeps
<1>9. CASE Bell!WaitEnds
  <2>1. buffer[Bell!Consumer] = <<>>
        BY <1>9 DEF Bell!WaitEnds, BellIInv, BufferInv
  <2> QED BY <1>9, <2>1, ConsumerMoves DEF Bell!WaitEnds, Bell!Goto
<1>10. CASE UNCHANGED Bell!vars
  <2>1. Waking' = Waking
        BY <1>10 DEF Bell!vars, Waking
  <2> QED BY <1>10, <2>1 DEF Bell!vars, BellIInv, Bell!TypeOK, BufferInv, LookedInv, WakerInv, TokenInv
<1> QED BY <1>1, <1>2, <1>3, <1>4, <1>5, <1>6, <1>7, <1>8, <1>9, <1>10 DEF Bell!Next, Bell!Consume

\* The doorbell's cardinality is this module's.
LEMMA SameCardinality ==
  ASSUME NEW S
  PROVE  Bell!Cardinality(S) = Cardinality(S)
BY DEF Bell!Cardinality, Cardinality

\* The invariant says that the doorbell is sound.
LEMMA BellSoundNow ==
  ASSUME Bell!NamesApart, BellIInv
  PROVE  Bell!BellSound
<1>1. Bell!OneWakePerSleep
  <2>1. wakes + Cardinality(Waking) + memory[Bell!Flag] <= sleeps /\ memory[Bell!Flag] \in Nat
        BY Facts DEF BellIInv, TokenInv, Bell!Awake, Bell!Asleep
  <2>2. wakes + Cardinality(Waking) <= sleeps
        BY <2>1, Facts
  <2> QED BY <2>2, SameCardinality DEF Bell!OneWakePerSleep, Waking
<1>2. Bell!NoRecordLeftBehind
  <2>1. CASE memory[Bell!Flag] = Bell!Asleep
        BY <2>1 DEF BellIInv, LookedInv, Bell!NoRecordLeftBehind
  <2>2. CASE memory[Bell!Flag] = Bell!Awake
        BY <2>2 DEF BellIInv, WakerInv, Bell!NoRecordLeftBehind, Waking
  <2> QED BY <2>1, <2>2, Facts
<1> QED BY <1>1, <1>2 DEF Bell!BellSound, BellIInv

\* For any producers and any bounds on pushes and sleeps, with stores that wait
\* in buffers: no record is left behind a sleeping consumer unless a producer
\* is about to ring for it, and one producer pays for each wake (publish,
\* ringRing, ringSleep).
THEOREM BellIsSound == RingsSpec => []BellSound
<1>1. RingsInit => BellIInv
      BY InitBell, BellAssumption DEF RingsInit
<1>2. ASSUME BellIInv, [RingsNext]_allVars PROVE BellIInv'
  <2>1. [Bell!Next]_(Bell!vars)
        BY <1>2 DEF RingsNext, allVars, bellVars, Bell!vars
  <2> QED BY <1>2, <2>1, BellStepKeeps, BellAssumption
<1>3. BellIInv => BellSound
      BY BellSoundNow, BellAssumption DEF BellSound
<1> QED BY <1>1, <1>2, <1>3, PTL DEF RingsSpec
=============================================================================
