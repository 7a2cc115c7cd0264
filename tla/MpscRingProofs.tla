--------------------------- MODULE MpscRingProofs ---------------------------
(***************************************************************************)
(* The safety of MpscRing for every set of producers, every number of      *)
(* slots from 2 and every mix of calls, deaths and re-attachments.         *)
(*                                                                         *)
(* The inductive invariant says what each slot's sequence number is.  With *)
(* D records freed, the ring's window is the positions D .. D + Slots - 1, *)
(* one per slot; the number in position k's slot is k + 1 when the record  *)
(* was published, and k while the position is free or claimed.             *)
(***************************************************************************)
EXTENDS MpscRing, RingLemmas, TLAPS

Freed == Len(delivered)
Window == Freed..(Freed + Slots - 1)
Held(k) == \E p \in Producers : Holding(p) /\ pos[p] = k
Filled(k) == k < tail /\ ~Held(k)

\* Positions: what is claimed is within a lap of what is freed.
PositionInv ==
  /\ tail = Len(claims)
  /\ Freed <= tail /\ tail <= Freed + Slots
  /\ \A p \in Producers : /\ pos[p] <= tail
                          /\ pc[p] = "cas" => pos[p] < Freed + Slots
                          /\ Holding(p) => pos[p] \in Freed..(tail - 1)
  /\ \A p, q \in Producers : p # q /\ Holding(p) /\ Holding(q) => pos[p] # pos[q]

SeqInv == \A k \in Window : seq[SlotAt(k)] = IF Filled(k) THEN k + 1 ELSE k

\* Contents: a claimed position's record is its claimer's, and a published
\* position's slot holds it.
SlotHolds(k) ==
  /\ slotLen[SlotAt(k)] = claims[k + 1].len
  /\ claims[k + 1].len # 0 => slotBody[SlotAt(k)] = claims[k + 1].body

ContentInv ==
  /\ \A p \in Producers : /\ rec[p].len = 0 => rec[p].body = NoBody
                          /\ Holding(p) => claims[pos[p] + 1] = rec[p]
                          /\ pc[p] \in {"write", "publish"} =>
                               slotLen[SlotAt(pos[p])] = rec[p].len
                          /\ pc[p] = "publish" /\ rec[p].len # 0 =>
                               slotBody[SlotAt(pos[p])] = rec[p].body
  /\ \A i \in 1..Len(claims) : claims[i].len = 0 => claims[i].body = NoBody
  /\ \A k \in Window : Filled(k) => SlotHolds(k)

\* The consumer: its position is the first not freed, or one behind it for
\* good after a death between the stores of release.
ConsumerInv ==
  /\ IF cpc = "storeHead" THEN head = Freed /\ headWord = Freed - 1
                          ELSE headWord = head /\ head \in {Freed, Freed - 1}
  /\ Reading => head = Freed /\ Filled(Freed)
  /\ cpc \in {"read", "release"} => clen = claims[Freed + 1].len
  /\ cpc = "release" => cbody = claims[Freed + 1].body
  /\ cpc # "panic"
  /\ \A i \in 1..Freed : delivered[i] = claims[i]

RingInv == TypeOK /\ PositionInv /\ SeqInv /\ ContentInv /\ ConsumerInv

DoorbellInv ==
  /\ cpc \in {"look", "futex", "asleep"} => Doorbell
  /\ cpc \in {"futex", "asleep"} /\ sleep = Asleep /\ HeadReady =>
       \E p \in Producers : pc[p] \in {"bell", "exchange"}
  /\ cpc = "asleep" /\ sleep = Awake => \E p \in Producers : pc[p] = "wake"
-----------------------------------------------------------------------------
\* The ring has slots.
LEMMA SlotsPositive == Slots \in Nat \ {0}
BY SlotsAssumption

\* A position's slot is one of the ring's.
LEMMA SlotType ==
  ASSUME NEW k \in Nat PROVE SlotAt(k) \in SlotIndex
BY SlotsPositive, DivMod DEF SlotAt, SlotIndex

\* Two positions within a lap have slots of their own.
LEMMA SlotApart ==
  ASSUME NEW d \in Nat, NEW j \in d..(d + Slots - 1), NEW k \in d..(d + Slots - 1),
         SlotAt(j) = SlotAt(k)
  PROVE  j = k
<1>1. j \in Nat /\ k \in Nat /\ j < k + Slots /\ k < j + Slots BY SlotsPositive
<1>2. j % Slots = k % Slots BY DEF SlotAt
<1>3. CASE j <= k BY <1>1, <1>2, <1>3, SlotsPositive, SameSlot
<1>4. CASE k <= j BY <1>1, <1>2, <1>4, SlotsPositive, SameSlot
<1> QED BY <1>1, <1>3, <1>4

\* A position shares its slot with the one a lap on.
LEMMA SlotLap ==
  ASSUME NEW k \in Nat PROVE SlotAt(k + Slots) = SlotAt(k)
BY SlotsPositive, NextLap DEF SlotAt

\* Every slot is some position's of any lap.
LEMMA SlotCovered ==
  ASSUME NEW d \in Nat, NEW j \in Nat
  PROVE  \E k \in d..(d + Slots - 1) : SlotAt(k) = SlotAt(j)
<1>1. SlotAt(j) \in 0..(Slots - 1) BY SlotType DEF SlotIndex
<1>2. \E k \in d..(d + Slots - 1) : k % Slots = SlotAt(j) BY <1>1, SlotsPositive, SlotInLap
<1> QED BY <1>2 DEF SlotAt
-----------------------------------------------------------------------------
\* The initial state has the types.
LEMMA TypeInit == Init => TypeOK
BY SlotsAssumption, RecordAssumption
DEF Init, TypeOK, SlotIndex, Labels, ConsumerLabels, Bodies, Records, Pop, Garbage, Awake

\* Every step of a producer keeps the types.
LEMMA TypeProducer ==
  ASSUME TypeOK, NEW p \in Producers, PushCall(p) \/ Push(p) \/ Die(p)
  PROVE  TypeOK'
<1> USE SlotsAssumption, RecordAssumption, CallAssumption
<1> USE DEF TypeOK, Labels, ConsumerLabels, Goto, At, shared, producer, consumer, history, Awake
<1>1. CASE PushCall(p)
  <2>1. PICK l \in Lens : rec' = [rec EXCEPT ![p] =
                 [len |-> l, body |-> IF l = 0 THEN NoBody ELSE <<p, made[p]>>]]
    BY <1>1 DEF PushCall
  <2>2. [len |-> l, body |-> IF l = 0 THEN NoBody ELSE <<p, made[p]>>] \in Records
    BY DEF Records, Bodies
  <2>3. rec' \in [Producers -> Records] BY <2>1, <2>2
  <2> QED BY <1>1, <2>3 DEF PushCall
<1>2. CASE LoadTail(p) BY <1>2 DEF LoadTail
<1>3. CASE LoadSeq(p) BY <1>3 DEF LoadSeq
<1>4. CASE Claim(p) BY <1>4 DEF Claim
<1>5. CASE ClaimLost(p) BY <1>5 DEF ClaimLost
<1>6. CASE StoreLen(p)
  <2>1. rec[p].len \in Nat BY DEF Records
  <2>2. slotLen' \in [SlotIndex -> Nat \cup {Garbage}] BY <1>6, <2>1 DEF StoreLen
  <2>3. pc' \in [Producers -> Labels] BY <1>6 DEF StoreLen
  <2> QED BY <1>6, <2>2, <2>3 DEF StoreLen
<1>7. CASE WriteBody(p) BY <1>7 DEF WriteBody, Records
<1>8. CASE Publish(p)
  <2>1. pos[p] + 1 \in Nat OBVIOUS
  <2>2. seq' \in [SlotIndex -> Nat] BY <1>8, <2>1 DEF Publish
  <2>3. pc' \in [Producers -> Labels] BY <1>8 DEF Publish
  <2> QED BY <1>8, <2>2, <2>3 DEF Publish
<1>9. CASE LoadFlag(p) BY <1>9 DEF LoadFlag
<1>10. CASE ExchangeFlag(p) BY <1>10 DEF ExchangeFlag
<1>11. CASE WakeConsumer(p) BY <1>11 DEF WakeConsumer
<1>12. CASE Die(p) BY <1>12 DEF Die
<1> QED BY <1>1, <1>2, <1>3, <1>4, <1>5, <1>6, <1>7, <1>8, <1>9, <1>10, <1>11, <1>12 DEF Push

\* Every step of the consumer keeps the types.
LEMMA TypeConsumer ==
  ASSUME TypeOK, ConsumerCall \/ Consume \/ WaitEnds \/ Attach
  PROVE  TypeOK'
<1> USE SlotsAssumption, RecordAssumption, CallAssumption
<1> USE DEF TypeOK, Labels, ConsumerLabels, shared, producer, consumer, history, Awake, Asleep
<1>1. CASE ConsumerCall BY <1>1 DEF ConsumerCall
<1>2. CASE LoadReady BY <1>2 DEF LoadReady
<1>3. CASE LoadLength
  <2>1. SlotAt(head) \in SlotIndex BY SlotType
  <2> QED BY <1>3, <2>1 DEF LoadLength, Garbage
<1>4. CASE ReadBody
  <2>1. SlotAt(head) \in SlotIndex BY SlotType
  <2> QED BY <1>4, <2>1 DEF ReadBody, Bodies
<1>5. CASE Release
  <2>1. [len |-> clen, body |-> cbody] \in [len : Int, body : Bodies] OBVIOUS
  <2>2. delivered' \in Seq([len : Int, body : Bodies]) BY <1>5, <2>1 DEF Release
  <2>3. head + Slots \in Nat /\ head + 1 \in Nat OBVIOUS
  <2>4. seq' \in [SlotIndex -> Nat] BY <1>5, <2>3 DEF Release
  <2> QED BY <1>5, <2>2, <2>3, <2>4 DEF Release
<1>6. CASE StoreHead BY <1>6 DEF StoreHead
<1>7. CASE SpinAgain \/ RoundGivesUp BY <1>7 DEF SpinAgain, RoundGivesUp
<1>8. CASE StoreAsleep BY <1>8 DEF StoreAsleep
<1>9. CASE LookAgain \/ FutexWait BY <1>9 DEF LookAgain, FutexWait
<1>10. CASE StoreAwake BY <1>10 DEF StoreAwake
<1>11. CASE WaitEnds \/ Attach BY <1>11 DEF WaitEnds, Attach
<1> QED BY <1>1, <1>2, <1>3, <1>4, <1>5, <1>6, <1>7, <1>8, <1>9, <1>10, <1>11 DEF Consume

\* Every step keeps the types.
LEMMA TypeStep == TypeOK /\ [Next]_vars => TypeOK'
<1> SUFFICES ASSUME TypeOK, [Next]_vars PROVE TypeOK' OBVIOUS
<1>1. CASE UNCHANGED vars
  BY <1>1 DEF TypeOK, vars, shared, producer, consumer, history
<1> QED BY <1>1, TypeProducer, TypeConsumer DEF Next

\* Every variable always has its type.
THEOREM TypeCorrect == Spec => []TypeOK
BY TypeInit, TypeStep, PTL DEF Spec
-----------------------------------------------------------------------------
\* The ring as initMpscRing leaves it satisfies the invariant.
LEMMA RingInit == Init => RingInv
<1> SUFFICES ASSUME Init PROVE RingInv OBVIOUS
<1>1. TypeOK BY TypeInit
<1>2. Freed = 0 /\ Len(claims) = 0 BY DEF Init, Freed
<1>3. PositionInv BY <1>2, SlotsAssumption DEF Init, PositionInv, Holding
<1>4. SeqInv
  <2> SUFFICES ASSUME NEW k \in Window PROVE seq[SlotAt(k)] = IF Filled(k) THEN k + 1 ELSE k
    BY DEF SeqInv
  <2>1. k \in 0..(Slots - 1) BY <1>2, SlotsAssumption DEF Window
  <2>2. Slots * 0 + k = k BY <2>1, SlotsAssumption
  <2>3. SlotAt(k) = k BY <2>1, <2>2, SlotsPositive, ModOf DEF SlotAt
  <2>4. ~Filled(k) BY <2>1, SlotsAssumption DEF Filled, Init
  <2> QED BY <2>1, <2>3, <2>4 DEF Init, SlotIndex
<1>5. ContentInv
  <2>1. \A k \in Window : ~Filled(k) BY <1>2, SlotsAssumption DEF Filled, Init, Window
  <2> QED BY <1>2, <2>1 DEF Init, ContentInv, Holding
<1>6. ConsumerInv BY <1>2 DEF Init, ConsumerInv, Reading
<1> QED BY <1>1, <1>3, <1>4, <1>5, <1>6 DEF RingInv

\* The steps of a producer that neither claim, fill nor publish a slot.
LEMMA RingQuietProducer ==
  ASSUME RingInv, TypeOK', NEW p \in Producers,
         \/ PushCall(p) \/ LoadTail(p) \/ LoadSeq(p) \/ ClaimLost(p)
         \/ LoadFlag(p) \/ ExchangeFlag(p) \/ WakeConsumer(p) \/ Die(p)
  PROVE  RingInv'
<1> USE DEF RingInv, shared, producer, consumer, history, At, Goto
<1>1. /\ UNCHANGED <<tail, headWord, seq, slotLen, slotBody, mode, head, room, left, clen,
                     cbody, claims, delivered>>
      /\ cpc' = cpc \/ (cpc = "asleep" /\ cpc' = "woken")
  BY DEF PushCall, LoadTail, LoadSeq, ClaimLost, LoadFlag, ExchangeFlag, WakeConsumer, Die
<1>2. \A q \in Producers : q # p => pc'[q] = pc[q] /\ pos'[q] = pos[q] /\ rec'[q] = rec[q]
  BY DEF PushCall, LoadTail, LoadSeq, ClaimLost, LoadFlag, ExchangeFlag, WakeConsumer, Die, TypeOK
<1>3. \/ pc'[p] = pc[p] /\ pos'[p] = pos[p] /\ rec'[p] = rec[p]
      \/ ~Holding(p) /\ ~Holding(p)'
  BY DEF PushCall, LoadTail, LoadSeq, ClaimLost, LoadFlag, ExchangeFlag, WakeConsumer, Die,
         TypeOK, Holding
<1>4. \A q \in Producers : /\ Holding(q)' <=> Holding(q)
                           /\ Holding(q) => pos'[q] = pos[q] /\ rec'[q] = rec[q] /\ pc'[q] = pc[q]
  BY <1>2, <1>3 DEF Holding
<1>5. Freed' = Freed BY <1>1 DEF Freed
<1>6. \A k : Held(k)' <=> Held(k) BY <1>4 DEF Held
<1>7. \A k : Filled(k)' <=> Filled(k) BY <1>1, <1>6 DEF Filled
<1>8. PositionInv'
  <2>1. pos'[p] <= tail
    BY SMTT(40) DEF PushCall, LoadTail, LoadSeq, ClaimLost, LoadFlag, ExchangeFlag, WakeConsumer, Die,
                    TypeOK, PositionInv
  <2>2. pc'[p] = "cas" => pos'[p] < Freed + Slots
    <3>1. CASE LoadSeq(p)
      <4> SUFFICES ASSUME pc'[p] = "cas" PROVE pos[p] < Freed + Slots
        BY <3>1 DEF LoadSeq
      <4>1. seq[SlotAt(pos[p])] = pos[p] BY <3>1 DEF LoadSeq, TypeOK
      <4>2. pos[p] \in Nat /\ Freed \in Nat /\ pos[p] <= Freed + Slots
        BY SMTT(40), SlotsAssumption DEF TypeOK, PositionInv, Freed
      <4>3. CASE pos[p] = Freed + Slots
        <5>1. SlotAt(pos[p]) = SlotAt(Freed) BY <4>2, <4>3, SlotLap
        <5>2. seq[SlotAt(Freed)] \in {Freed, Freed + 1}
          BY <4>2, SlotsAssumption DEF SeqInv, Window
        <5> QED BY <4>1, <4>2, <4>3, <5>1, <5>2, SlotsAssumption
      <4> QED BY <4>2, <4>3, SlotsAssumption
    <3>2. CASE ~LoadSeq(p)
      BY <3>2 DEF PushCall, LoadTail, ClaimLost, LoadFlag, ExchangeFlag, WakeConsumer, Die,
                  TypeOK, PositionInv
    <3> QED BY <3>1, <3>2
  <2> QED BY <1>1, <1>2, <1>4, <1>5, <2>1, <2>2 DEF PositionInv
<1>9. SeqInv' BY <1>1, <1>5, <1>7 DEF SeqInv, Window, SlotAt
<1>10. ContentInv'
  <2>1. rec'[p].len = 0 => rec'[p].body = NoBody
    <3>1. CASE PushCall(p)
      <4>1. PICK l \in Lens : rec' = [rec EXCEPT ![p] =
                 [len |-> l, body |-> IF l = 0 THEN NoBody ELSE <<p, made[p]>>]]
        BY <3>1 DEF PushCall
      <4>2. rec'[p] = [len |-> l, body |-> IF l = 0 THEN NoBody ELSE <<p, made[p]>>]
        BY <4>1 DEF TypeOK
      <4> QED BY <4>2
    <3>2. CASE ~PushCall(p)
      BY <3>2 DEF LoadTail, LoadSeq, ClaimLost, LoadFlag, ExchangeFlag, WakeConsumer, Die,
                  TypeOK, ContentInv
    <3> QED BY <3>1, <3>2
  <2>2. \A q \in Producers : rec'[q].len = 0 => rec'[q].body = NoBody
    BY <1>2, <2>1 DEF ContentInv
  <2>3. \A k \in Window' : Filled(k)' => SlotHolds(k)'
    BY <1>1, <1>5, <1>7 DEF ContentInv, Window, SlotHolds, SlotAt
  <2> QED BY <1>1, <1>4, <2>2, <2>3 DEF ContentInv, Holding, SlotAt
<1>11. ConsumerInv' BY <1>1, <1>5, <1>7 DEF ConsumerInv, Reading
<1> QED BY <1>8, <1>9, <1>10, <1>11

\* The compare-exchange that claims a slot.
LEMMA RingClaim ==
  ASSUME RingInv, TypeOK', NEW p \in Producers, Claim(p)
  PROVE  RingInv'
<1> USE DEF RingInv, consumer, At, Goto
<1>1. /\ tail = pos[p] /\ tail' = tail + 1 /\ claims' = Append(claims, rec[p])
      /\ UNCHANGED <<headWord, sleep, seq, slotLen, slotBody, pos, rec, cpc, head, clen, cbody,
                     delivered>>
      /\ ~Holding(p) /\ Holding(p)' /\ pc'[p] = "storeLen"
  BY DEF Claim, Holding, TypeOK
<1>2. \A q \in Producers : q # p => pc'[q] = pc[q] /\ (Holding(q)' <=> Holding(q))
  BY DEF Claim, Holding, TypeOK
<1>3. Freed' = Freed /\ Freed \in Nat /\ tail \in Nat BY <1>1 DEF Freed, TypeOK
<1>4. tail < Freed + Slots BY <1>1 DEF PositionInv, Claim
<1>5. \A k \in Nat : k # tail => (Held(k)' <=> Held(k))
  BY <1>1, <1>2 DEF Held
<1>6. \A k \in Nat : k = tail => Held(k)' BY <1>1 DEF Held
<1>7. \A k \in Nat : Filled(k)' <=> Filled(k)
  BY <1>1, <1>3, <1>5, <1>6 DEF Filled
<1>8. /\ Len(claims') = Len(claims) + 1
      /\ \A i \in 1..Len(claims) : claims'[i] = claims[i]
      /\ claims'[Len(claims) + 1] = rec[p]
  BY <1>1 DEF TypeOK
<1>9. PositionInv'
  <2>1. \A q \in Producers : /\ pos[q] \in Nat /\ pos[q] <= tail'
                             /\ pc'[q] = "cas" => pos[q] < Freed + Slots
                             /\ Holding(q)' => pos[q] \in Freed..(tail' - 1)
    BY SMTT(40), <1>1, <1>2, <1>3 DEF PositionInv, TypeOK
  <2>2. \A q \in Producers : q # p /\ Holding(q) => pos[q] # tail
    BY SMTT(40), <1>3 DEF PositionInv, TypeOK
  <2>3. \A q, r \in Producers : q # r /\ Holding(q)' /\ Holding(r)' => pos[q] # pos[r]
    BY <1>1, <1>2, <2>2 DEF PositionInv
  <2>4. tail' = Len(claims') /\ Freed <= tail' /\ tail' <= Freed + Slots
    BY <1>1, <1>3, <1>4, <1>8, SlotsAssumption DEF PositionInv
  <2> QED BY <1>1, <1>3, <2>1, <2>3, <2>4 DEF PositionInv
<1>10. Window \subseteq Nat BY <1>3 DEF Window
<1>11. SeqInv' BY <1>1, <1>3, <1>7, <1>10 DEF SeqInv, Window, SlotAt
<1>12. ContentInv'
  <2>1. \A q \in Producers : Holding(q)' => claims'[pos[q] + 1] = rec[q]
    <3>1. \A q \in Producers : q # p /\ Holding(q) => pos[q] + 1 \in 1..Len(claims)
      <4> SUFFICES ASSUME NEW q \in Producers, Holding(q) PROVE pos[q] + 1 \in 1..Len(claims)
        OBVIOUS
      <4>1. pos[q] \in Freed..(tail - 1) /\ tail = Len(claims) BY DEF PositionInv
      <4> QED BY <1>3, <4>1
    <3> QED BY <1>1, <1>2, <1>8, <3>1 DEF ContentInv, PositionInv
  <2>2. \A k \in Window' : Filled(k)' => SlotHolds(k)'
    <3> SUFFICES ASSUME NEW k \in Window, Filled(k) PROVE SlotHolds(k)'
      BY <1>3, <1>7, <1>10 DEF Window
    <3>1. k + 1 \in 1..Len(claims) BY <1>3 DEF Filled, PositionInv, Window
    <3>2. claims'[k + 1] = claims[k + 1] BY <1>8, <3>1
    <3> QED BY <1>1, <3>2 DEF SlotHolds, ContentInv, SlotAt
  <2>3. \A i \in 1..Len(claims') : claims'[i].len = 0 => claims'[i].body = NoBody
    <3> SUFFICES ASSUME NEW i \in 1..(Len(claims) + 1), claims'[i].len = 0
                 PROVE  claims'[i].body = NoBody
      BY <1>8
    <3>1. CASE i = Len(claims) + 1 BY <1>8, <3>1 DEF ContentInv
    <3>2. CASE i \in 1..Len(claims) BY <1>8, <3>2 DEF ContentInv
    <3>3. Len(claims) \in Nat BY <1>3 DEF PositionInv
    <3> QED BY <3>1, <3>2, <3>3
  <2> QED BY <1>1, <1>2, <2>1, <2>2, <2>3 DEF ContentInv, SlotAt
<1>13. ConsumerInv'
  <2>1. Filled(Freed)' <=> Filled(Freed) BY <1>3, <1>7
  <2>2. Reading => Freed + 1 \in 1..Len(claims)
    BY <1>3 DEF ConsumerInv, Filled, PositionInv
  <2>3. \A i \in 1..Freed : i \in 1..Len(claims) BY <1>3 DEF PositionInv
  <2> QED BY <1>1, <1>3, <1>8, <2>1, <2>2, <2>3 DEF ConsumerInv, Reading
<1> QED BY <1>9, <1>11, <1>12, <1>13

\* The plain stores of a record into its claimed slot.
LEMMA RingFill ==
  ASSUME RingInv, TypeOK', NEW p \in Producers, StoreLen(p) \/ WriteBody(p)
  PROVE  RingInv'
<1> USE DEF RingInv, consumer, history, At, Goto
<1>1. /\ UNCHANGED <<tail, headWord, sleep, seq, pos, rec, cpc, head, clen, cbody, claims, delivered>>
      /\ Holding(p) /\ Holding(p)'
  BY DEF StoreLen, WriteBody, Holding, TypeOK
<1>2. \A q \in Producers : q # p => pc'[q] = pc[q] /\ (Holding(q)' <=> Holding(q))
  BY DEF StoreLen, WriteBody, Holding, TypeOK
<1>3. Freed' = Freed /\ Freed \in Nat /\ tail \in Nat /\ pos[p] \in Nat
  BY <1>1 DEF Freed, TypeOK
<1>4. \A k : Held(k)' <=> Held(k) BY <1>1, <1>2 DEF Held
<1>5. \A k : Filled(k)' <=> Filled(k) BY <1>1, <1>4 DEF Filled
<1>6. pos[p] \in Window /\ Held(pos[p])
  BY <1>1, <1>3, SlotsAssumption DEF Window, PositionInv, Held
<1>7. \A k \in Window : k # pos[p] => SlotAt(k) # SlotAt(pos[p])
  BY <1>3, <1>6, SlotApart DEF Window
<1>8. \A i \in SlotIndex : i # SlotAt(pos[p]) => slotLen'[i] = slotLen[i] /\ slotBody'[i] = slotBody[i]
  BY DEF StoreLen, WriteBody, TypeOK
<1>9. \A k \in Window : SlotAt(k) \in SlotIndex BY <1>3, SlotType DEF Window
<1>10. PositionInv'
  <2>1. pc'[p] # "cas" BY <1>1 DEF Holding
  <2> QED BY <1>1, <1>2, <1>3, <2>1 DEF PositionInv
<1>11. SeqInv' BY <1>1, <1>3, <1>5 DEF SeqInv, Window, SlotAt
<1>12. ContentInv'
  <2>1. \A q \in Producers : q # p /\ Holding(q) => pos[q] \in Window /\ pos[q] # pos[p]
    BY <1>1, <1>3, SlotsAssumption DEF Window, PositionInv, TypeOK
  <2>2. \A q \in Producers : q # p /\ Holding(q) =>
          /\ slotLen'[SlotAt(pos[q])] = slotLen[SlotAt(pos[q])]
          /\ slotBody'[SlotAt(pos[q])] = slotBody[SlotAt(pos[q])]
    BY <1>7, <1>8, <1>9, <2>1
  <2>3. SlotAt(pos[p]) \in SlotIndex BY <1>6, <1>9
  <2>4. /\ pc'[p] \in {"write", "publish"} => slotLen'[SlotAt(pos[p])] = rec[p].len
        /\ pc'[p] = "publish" /\ rec[p].len # 0 => slotBody'[SlotAt(pos[p])] = rec[p].body
    BY <2>3 DEF StoreLen, WriteBody, ContentInv, TypeOK
  <2>5. \A k \in Window : Filled(k) => SlotHolds(k)'
    <3> SUFFICES ASSUME NEW k \in Window, Filled(k) PROVE SlotHolds(k)' OBVIOUS
    <3>1. k # pos[p] BY <1>6 DEF Filled
    <3> QED BY <1>1, <1>7, <1>8, <1>9, <3>1 DEF SlotHolds, ContentInv, SlotAt
  <2>6. \A k \in Window' : Filled(k)' => SlotHolds(k)' BY <1>3, <1>5, <2>5 DEF Window
  <2>7. \A q \in Producers : q # p => /\ pc'[q] \in {"write", "publish"} =>
                                            slotLen'[SlotAt(pos[q])] = rec[q].len
                                      /\ pc'[q] = "publish" /\ rec[q].len # 0 =>
                                            slotBody'[SlotAt(pos[q])] = rec[q].body
    BY <1>2, <2>2 DEF ContentInv, Holding
  <2> QED BY <1>1, <1>2, <2>4, <2>6, <2>7 DEF ContentInv, SlotAt
<1>13. ConsumerInv' BY <1>1, <1>3, <1>5 DEF ConsumerInv, Reading
<1> QED BY <1>10, <1>11, <1>12, <1>13

\* The store of the sequence number that hands the slot to the consumer.
LEMMA RingPublish ==
  ASSUME RingInv, TypeOK', NEW p \in Producers, Publish(p)
  PROVE  RingInv'
<1> USE DEF RingInv, consumer, history, At, Goto
<1>1. /\ UNCHANGED <<tail, headWord, sleep, slotLen, slotBody, pos, rec, cpc, head, clen, cbody,
                     claims, delivered>>
      /\ pc[p] = "publish" /\ Holding(p) /\ ~Holding(p)' /\ pc'[p] \in {"bell", "idle"}
      /\ seq' = [seq EXCEPT ![SlotAt(pos[p])] = pos[p] + 1]
  BY DEF Publish, Holding, TypeOK
<1>2. \A q \in Producers : q # p => pc'[q] = pc[q] /\ (Holding(q)' <=> Holding(q))
  BY DEF Publish, Holding, TypeOK
<1>3. Freed' = Freed /\ Freed \in Nat /\ tail \in Nat /\ pos[p] \in Nat
  BY <1>1 DEF Freed, TypeOK
<1>4. pos[p] \in Window /\ pos[p] < tail
  BY <1>1, <1>3, SlotsAssumption DEF Window, PositionInv
<1>5. \A k \in Nat : k # pos[p] => (Held(k)' <=> Held(k)) BY <1>1, <1>2 DEF Held
<1>6. ~Held(pos[p])' BY <1>1, <1>2 DEF Held, PositionInv
<1>7. Window \subseteq Nat /\ Window' = Window BY <1>3 DEF Window
<1>8. \A k \in Window : k # pos[p] => (Filled(k)' <=> Filled(k)) BY <1>1, <1>5, <1>7 DEF Filled
<1>9. Filled(pos[p])' BY <1>1, <1>4, <1>6 DEF Filled
<1>10. \A k \in Window : k # pos[p] => SlotAt(k) # SlotAt(pos[p])
  BY <1>3, <1>4, SlotApart DEF Window
<1>11. \A k \in Window : SlotAt(k) \in SlotIndex BY <1>3, SlotType DEF Window
<1>12. PositionInv' BY <1>1, <1>2, <1>3 DEF PositionInv
<1>13. SeqInv'
  <2> SUFFICES ASSUME NEW k \in Window
               PROVE  seq'[SlotAt(k)] = IF Filled(k)' THEN k + 1 ELSE k
    BY <1>7 DEF SeqInv, SlotAt
  <2>1. CASE k = pos[p] BY <1>1, <1>4, <1>9, <1>11, <2>1 DEF TypeOK
  <2>2. CASE k # pos[p]
    <3>1. seq'[SlotAt(k)] = seq[SlotAt(k)] BY <1>1, <1>10, <1>11, <2>2 DEF TypeOK
    <3> QED BY <1>8, <2>2, <3>1 DEF SeqInv
  <2> QED BY <2>1, <2>2
<1>14. ContentInv'
  <2>1. \A k \in Window : Filled(k)' => SlotHolds(k)
    <3> SUFFICES ASSUME NEW k \in Window, Filled(k)' PROVE SlotHolds(k) OBVIOUS
    <3>1. CASE k = pos[p] BY <1>1, <3>1 DEF ContentInv, SlotHolds
    <3>2. CASE k # pos[p] BY <1>8, <3>2 DEF ContentInv
    <3> QED BY <3>1, <3>2
  <2>2. \A k : SlotHolds(k)' <=> SlotHolds(k) BY <1>1 DEF SlotHolds, SlotAt
  <2> QED BY <1>1, <1>2, <1>7, <2>1, <2>2 DEF ContentInv, SlotAt
<1>15. ConsumerInv'
  <2>1. \A k \in Window : Filled(k) => Filled(k)' BY <1>8, <1>9, <1>1
  <2>2. Freed \in Window BY <1>3, SlotsAssumption DEF Window
  <2>3. \A k : k = Freed /\ Filled(k) => Filled(k)' BY <2>1, <2>2
  <2>4. Filled(Freed) => Filled(Freed)' BY <1>3, <2>3
  <2> QED BY <1>1, <1>3, <2>4 DEF ConsumerInv, Reading
<1> QED BY <1>12, <1>13, <1>14, <1>15

\* A ready slot is the oldest record's: a consumer one record behind, left by
\* a death between the stores of release, never sees its slot ready again.
LEMMA ReadyIsOldest ==
  ASSUME RingInv, HeadReady, cpc # "storeHead"
  PROVE  head = Freed /\ Filled(Freed)
<1> USE DEF RingInv
<1>1. Freed \in Nat /\ head \in Nat /\ head \in {Freed, Freed - 1} /\ seq[SlotAt(head)] = head + 1
  BY DEF ConsumerInv, HeadReady, TypeOK, Freed
<1>2. head = Freed
  <2> SUFFICES ASSUME head = Freed - 1 PROVE FALSE BY <1>1
  <2>1. head + Slots \in Window BY <1>1, SlotsAssumption DEF Window
  <2>2. SlotAt(head + Slots) = SlotAt(head) BY <1>1, SlotLap
  <2>3. seq[SlotAt(head)] \in {head + Slots, head + Slots + 1} BY <2>1, <2>2 DEF SeqInv
  <2> QED BY <1>1, <2>3, SlotsAssumption
<1>3. Freed \in Window BY <1>1, SlotsAssumption DEF Window
<1>4. Filled(Freed) BY <1>1, <1>2, <1>3 DEF SeqInv
<1> QED BY <1>2, <1>4

\* The steps of the consumer that free no slot.
LEMMA RingQuietConsumer ==
  ASSUME RingInv, TypeOK',
         \/ ConsumerCall \/ LoadReady \/ LoadLength \/ ReadBody \/ StoreHead \/ SpinAgain
         \/ RoundGivesUp \/ StoreAsleep \/ LookAgain \/ FutexWait \/ StoreAwake
         \/ WaitEnds \/ Attach
  PROVE  RingInv'
<1> USE DEF RingInv, shared, producer, history
<1>1. UNCHANGED <<tail, seq, slotLen, slotBody, pc, pos, rec, claims, delivered>>
  BY DEF ConsumerCall, LoadReady, LoadLength, ReadBody, StoreHead, SpinAgain, RoundGivesUp,
         StoreAsleep, LookAgain, FutexWait, StoreAwake, WaitEnds, Attach
<1>2. Freed' = Freed /\ Freed \in Nat /\ Window' = Window BY <1>1 DEF Freed, Window, TypeOK
<1>3. \A k : Filled(k)' <=> Filled(k) BY <1>1 DEF Filled, Held, Holding
<1>4. PositionInv' BY <1>1, <1>2 DEF PositionInv, Holding
<1>5. SeqInv' BY <1>1, <1>2, <1>3 DEF SeqInv, SlotAt
<1>6. ContentInv'
  <2>1. \A k : SlotHolds(k)' <=> SlotHolds(k) BY <1>1 DEF SlotHolds, SlotAt
  <2> QED BY <1>1, <1>2, <1>3, <2>1 DEF ContentInv, SlotAt, Holding
<1>7. Filled(Freed)' <=> Filled(Freed)
  <2>1. \A k : k = Freed => (Filled(k)' <=> Filled(k)) BY <1>3
  <2> QED BY <1>2, <2>1
<1>8. ConsumerInv'
  <2>1. CASE LoadReady
    <3>1. UNCHANGED <<headWord, head, clen, cbody>> BY <2>1 DEF LoadReady
    <3>2. cpc' \in {"length", "empty", "idle"} /\ cpc = "ready" /\ (cpc' = "length" => HeadReady)
      BY <2>1 DEF LoadReady
    <3>3. cpc' = "length" => head = Freed /\ Filled(Freed) BY <3>2, ReadyIsOldest
    <3> QED BY <1>1, <1>2, <1>7, <3>1, <3>2, <3>3 DEF ConsumerInv, Reading
  <2>2. CASE LoadLength
    <3>1. UNCHANGED <<headWord, head, cbody>> /\ cpc = "length" BY <2>2 DEF LoadLength
    <3>2. head = Freed /\ Filled(Freed) BY <3>1 DEF ConsumerInv, Reading
    <3>3. SlotHolds(Freed) BY <1>2, <3>2, SlotsAssumption DEF ContentInv, Window
    <3>4. clen' = claims[Freed + 1].len BY <2>2, <3>2, <3>3 DEF LoadLength, SlotHolds
    <3>5. Freed + 1 \in 1..Len(claims) BY <1>2, <3>2 DEF Filled, PositionInv
    <3>6. claims[Freed + 1] \in Records BY <3>5 DEF TypeOK
    <3>7. clen' \in 0..SlotBytes BY <3>4, <3>6 DEF Records
    <3>8. cpc' \in {"read", "idle"} BY <2>2, <3>7, RecordAssumption DEF LoadLength
    <3> QED BY <1>1, <1>2, <1>7, <3>1, <3>2, <3>4, <3>8 DEF ConsumerInv, Reading
  <2>3. CASE ReadBody
    <3>1. UNCHANGED <<headWord, head, clen>> /\ cpc = "read" /\ cpc' = "release"
      BY <2>3 DEF ReadBody
    <3>2. head = Freed /\ Filled(Freed) /\ clen = claims[Freed + 1].len
      BY <3>1 DEF ConsumerInv, Reading
    <3>3. SlotHolds(Freed) BY <1>2, <3>2, SlotsAssumption DEF ContentInv, Window
    <3>4. Freed + 1 \in 1..Len(claims) BY <1>2, <3>2 DEF Filled, PositionInv
    <3>5. cbody' = claims[Freed + 1].body
      BY <2>3, <3>2, <3>3, <3>4 DEF ReadBody, SlotHolds, ContentInv
    <3> QED BY <1>1, <1>2, <1>7, <3>1, <3>2, <3>5 DEF ConsumerInv, Reading
  <2>4. CASE StoreHead
    <3>1. /\ head' = head /\ headWord' = head /\ cpc = "storeHead" /\ cpc' \in {"ready", "idle"}
      BY <2>4 DEF StoreHead
    <3> QED BY <1>1, <1>2, <3>1 DEF ConsumerInv, Reading
  <2>5. CASE Attach
    <3>1. /\ head' = headWord /\ headWord' = headWord /\ cpc' = "idle" BY <2>5 DEF Attach
    <3> QED BY <1>1, <1>2, <3>1 DEF ConsumerInv, Reading
  <2>6. CASE \/ ConsumerCall \/ SpinAgain \/ RoundGivesUp \/ StoreAsleep \/ LookAgain
             \/ FutexWait \/ StoreAwake \/ WaitEnds
    <3>1. /\ UNCHANGED <<headWord, head>> /\ ~Reading /\ ~Reading' /\ cpc # "storeHead"
          /\ cpc' # "storeHead" /\ cpc' # "panic"
      BY <2>6 DEF ConsumerCall, SpinAgain, RoundGivesUp, StoreAsleep, LookAgain, FutexWait,
                  StoreAwake, WaitEnds, Reading
    <3> QED BY <1>1, <1>2, <3>1 DEF ConsumerInv, Reading
  <2> QED BY <2>1, <2>2, <2>3, <2>4, <2>5, <2>6
<1> QED BY <1>4, <1>5, <1>6, <1>8

\* The store that frees the oldest record's slot for the next lap.
LEMMA RingRelease ==
  ASSUME RingInv, TypeOK', Release
  PROVE  RingInv'
<1> USE DEF RingInv, producer
<1>1. /\ UNCHANGED <<tail, headWord, slotLen, slotBody, pc, pos, rec, claims>>
      /\ seq' = [seq EXCEPT ![SlotAt(head)] = head + Slots]
      /\ head' = head + 1 /\ cpc = "release" /\ cpc' = "storeHead"
      /\ delivered' = Append(delivered, [len |-> clen, body |-> cbody])
  BY DEF Release
<1>2. Freed \in Nat /\ head = Freed /\ headWord = Freed /\ Filled(Freed)
  BY <1>1 DEF ConsumerInv, Reading, Freed, TypeOK
<1>3. /\ Freed' = Freed + 1
      /\ delivered'[Freed + 1] = [len |-> clen, body |-> cbody]
      /\ \A i \in 1..Freed : delivered'[i] = delivered[i]
  BY <1>1 DEF Freed, TypeOK
<1>4. Freed < tail /\ tail \in Nat BY <1>2 DEF Filled, TypeOK
<1>5. \A k : Held(k)' <=> Held(k) BY <1>1 DEF Held, Holding
<1>6. \A k : Filled(k)' <=> Filled(k) BY <1>1, <1>5 DEF Filled
<1>7. PositionInv'
  <2>1. \A q \in Producers : Holding(q) => pos[q] # Freed BY <1>2 DEF Filled, Held
  <2>2. \A q \in Producers : Holding(q) => pos[q] \in Freed'..(tail - 1)
    BY <1>2, <1>3, <1>4, <2>1 DEF PositionInv
  <2>3. \A q \in Producers : pos[q] \in Nat BY DEF TypeOK
  <2> QED BY <1>1, <1>2, <1>3, <1>4, <2>2, <2>3, SlotsAssumption DEF PositionInv, Holding
<1>8. Window' = (Freed + 1)..(Freed + Slots) BY <1>2, <1>3, SlotsAssumption DEF Window
<1>9. \A k \in Window' : k \in Window \/ k = Freed + Slots
  BY <1>2, <1>3, SlotsAssumption DEF Window
<1>10. Freed \in Window BY <1>2, SlotsAssumption DEF Window
<1>11. SeqInv'
  <2> SUFFICES ASSUME NEW k \in Window'
               PROVE  seq'[SlotAt(k)] = IF Filled(k)' THEN k + 1 ELSE k
    BY DEF SeqInv, SlotAt
  <2>1. SlotAt(Freed) \in SlotIndex BY <1>2, SlotType
  <2>2. CASE k = Freed + Slots
    <3>1. SlotAt(k) = SlotAt(Freed) BY <1>2, <2>2, SlotLap
    <3>2. seq'[SlotAt(k)] = k BY <1>1, <1>2, <2>1, <2>2, <3>1 DEF TypeOK
    <3>3. ~Filled(k) BY <1>2, <1>4, <2>2, SlotsAssumption DEF Filled, PositionInv
    <3> QED BY <1>6, <3>2, <3>3
  <2>3. CASE k \in Window
    <3>1. k # Freed /\ k \in Nat BY <1>2, <1>8
    <3>2. SlotAt(k) # SlotAt(Freed) BY <1>2, <1>10, <2>3, <3>1, SlotApart DEF Window
    <3>3. SlotAt(k) \in SlotIndex BY <3>1, SlotType
    <3>4. seq'[SlotAt(k)] = seq[SlotAt(k)] BY <1>1, <1>2, <3>2, <3>3 DEF TypeOK
    <3> QED BY <1>6, <2>3, <3>4 DEF SeqInv
  <2> QED BY <1>9, <2>2, <2>3
<1>12. ContentInv'
  <2>1. \A k : SlotHolds(k)' <=> SlotHolds(k) BY <1>1 DEF SlotHolds, SlotAt
  <2>2. ~Filled(Freed + Slots)
    BY <1>2, <1>4, SlotsAssumption DEF Filled, PositionInv
  <2>3. \A k \in Window' : Filled(k)' => SlotHolds(k)'
    BY <1>6, <1>9, <2>1, <2>2 DEF ContentInv
  <2> QED BY <1>1, <2>3 DEF ContentInv, SlotAt, Holding
<1>13. ConsumerInv'
  <2>1. Freed + 1 \in 1..Len(claims) BY <1>2, <1>4 DEF PositionInv
  <2>2. claims[Freed + 1] \in Records BY <2>1 DEF TypeOK
  <2>3. clen = claims[Freed + 1].len /\ cbody = claims[Freed + 1].body
    BY <1>1 DEF ConsumerInv
  <2>4. claims[Freed + 1] = [len |-> clen, body |-> cbody] BY <2>2, <2>3 DEF Records
  <2>5. \A i \in 1..Freed' : delivered'[i] = claims[i]
    BY <1>2, <1>3, <2>4 DEF ConsumerInv
  <2>6. head' = Freed' /\ headWord' = Freed' - 1 BY <1>1, <1>2, <1>3
  <2>7. ~Reading' /\ cpc' \notin {"read", "release", "panic"} BY <1>1 DEF Reading
  <2> QED BY <1>1, <2>5, <2>6, <2>7 DEF ConsumerInv
<1> QED BY <1>7, <1>11, <1>12, <1>13

\* Every step keeps the invariant.
LEMMA RingStep == RingInv /\ [Next]_vars => RingInv'
<1> SUFFICES ASSUME RingInv, [Next]_vars PROVE RingInv' OBVIOUS
<1>1. TypeOK' BY TypeStep DEF RingInv
<1>2. CASE UNCHANGED vars
  <2>1. /\ UNCHANGED <<tail, headWord, seq, slotLen, slotBody, pc, pos, rec, cpc, head, clen,
                       cbody, claims, delivered>>
    BY <1>2 DEF vars, shared, producer, consumer, history
  <2>2. Freed' = Freed /\ Window' = Window BY <2>1 DEF Freed, Window
  <2>3. \A k : Filled(k)' <=> Filled(k) BY <2>1 DEF Filled, Held, Holding
  <2>4. PositionInv' /\ SeqInv'
    BY <2>1, <2>2, <2>3 DEF RingInv, PositionInv, SeqInv, Holding, SlotAt
  <2>5. \A k : SlotHolds(k)' <=> SlotHolds(k) BY <2>1 DEF SlotHolds, SlotAt
  <2>6. ContentInv' BY <2>1, <2>2, <2>3, <2>5 DEF RingInv, ContentInv, Holding, SlotAt
  <2>7. \A k : k = Freed => (Filled(k)' <=> Filled(k)) BY <2>3
  <2>8. Filled(Freed)' <=> Filled(Freed) BY <2>2, <2>7
  <2>9. ConsumerInv' BY <2>1, <2>2, <2>8 DEF RingInv, ConsumerInv, Reading
  <2> QED BY <1>1, <2>4, <2>6, <2>9 DEF RingInv
<1>3. CASE \E p \in Producers : PushCall(p) \/ Push(p) \/ Die(p)
  BY <1>1, <1>3, RingQuietProducer, RingClaim, RingFill, RingPublish DEF Push
<1>4. CASE ConsumerCall \/ Consume \/ WaitEnds \/ Attach
  BY <1>1, <1>4, RingQuietConsumer, RingRelease DEF Consume
<1> QED BY <1>2, <1>3, <1>4 DEF Next

\* The numbers, the contents and the positions agree in every reachable state.
THEOREM RingInvariant == Spec => []RingInv
BY RingInit, RingStep, PTL DEF Spec
-----------------------------------------------------------------------------
\* Records come out whole, once each and in the order they were claimed.
THEOREM DeliversInOrder == Spec => []Fifo
<1>1. RingInv => Fifo BY DEF RingInv, PositionInv, ConsumerInv, Fifo, Freed
<1> QED BY <1>1, RingInvariant, PTL

\* No slot's bytes are written by one process while another accesses them.
THEOREM RaceFree == Spec => []NoDataRace
<1>1. RingInv => NoDataRace
  <2> SUFFICES ASSUME RingInv PROVE NoDataRace OBVIOUS
  <2> USE DEF RingInv
  <2>1. Freed \in Nat BY DEF Freed, TypeOK
  <2>2. \A p \in Producers : Holding(p) => pos[p] \in Window /\ Held(pos[p])
    BY <2>1, SlotsAssumption DEF PositionInv, Window, Held, TypeOK
  <2>3. \A j, k \in Window : SlotAt(j) = SlotAt(k) => j = k BY <2>1, SlotApart DEF Window
  <2>4. Reading => head \in Window /\ ~Held(head)
    BY <2>1, SlotsAssumption DEF ConsumerInv, Filled, Window
  <2> QED BY <2>2, <2>3, <2>4 DEF NoDataRace, PositionInv
<1> QED BY <1>1, RingInvariant, PTL

\* The consumer never meets a length that no producer wrote.
THEOREM NoCorruptRecord == Spec => []NeverCorrupt
<1>1. RingInv => NeverCorrupt BY DEF RingInv, ConsumerInv, NeverCorrupt
<1> QED BY <1>1, RingInvariant, PTL

\* A claim that was never filled keeps what is behind it from the consumer, and
\* a consumer that attaches to a header left one record behind never pops.
THEOREM CrashOnlyStalls == Spec => []CrashesStall
<1>1. RingInv => DeadClaimStalls
  BY DEF RingInv, TypeOK, PositionInv, DeadClaimStalls, Freed
<1>2. RingInv => LateCrashStalls
  <2> SUFFICES ASSUME RingInv, head # Len(delivered) PROVE ~HeadReady /\ ~Reading
    BY DEF LateCrashStalls
  <2>1. cpc # "storeHead" /\ ~Reading BY DEF RingInv, ConsumerInv, Freed
  <2> QED BY <2>1, ReadyIsOldest DEF Freed
<1>3. RingInv => CrashesStall BY <1>1, <1>2 DEF CrashesStall
<1> QED BY <1>3, RingInvariant, PTL

\* A push answers false only while every slot is taken.
THEOREM FullAnswer == Spec => FalseMeansFull
<1> DEFINE A == \A p \in Producers :
       pc[p] = "loadSeq" /\ pc'[p] = "idle" => tail - Len(delivered) = Slots
<1>1. RingInv /\ [Next]_vars => [A]_vars
  <2> SUFFICES ASSUME RingInv, Next, NEW p \in Producers, pc[p] = "loadSeq", pc'[p] = "idle"
               PROVE  tail - Len(delivered) = Slots
    OBVIOUS
  <2> USE DEF RingInv
  <2>1. LoadSeq(p)
    <3>1. CASE \E q \in Producers : PushCall(q) \/ Push(q) \/ Die(q)
      BY <3>1 DEF PushCall, Push, Die, LoadTail, LoadSeq, Claim, ClaimLost, StoreLen, WriteBody,
                  Publish, LoadFlag, ExchangeFlag, WakeConsumer, At, Goto, TypeOK
    <3>2. CASE ConsumerCall \/ Consume \/ WaitEnds \/ Attach
      <4>1. pc' = pc
        BY <3>2 DEF Consume, ConsumerCall, LoadReady, LoadLength, ReadBody, Release, StoreHead,
                    SpinAgain, RoundGivesUp, StoreAsleep, LookAgain, FutexWait, StoreAwake,
                    WaitEnds, Attach, producer
      <4> QED BY <4>1
    <3> QED BY <3>1, <3>2 DEF Next
  <2>2. seq[SlotAt(pos[p])] < pos[p] BY <2>1 DEF LoadSeq, Goto, TypeOK
  <2>3. /\ Freed \in Nat /\ pos[p] \in Nat /\ tail \in Nat
        /\ pos[p] <= tail /\ tail <= Freed + Slots
    BY DEF PositionInv, TypeOK, Freed
  <2>4. pos[p] \notin Window BY <2>2, <2>3 DEF SeqInv
  <2>5. ~(pos[p] < Freed)
    <3>1. PICK k \in Freed..(Freed + Slots - 1) : SlotAt(k) = SlotAt(pos[p])
      BY <2>3, SlotCovered
    <3>2. seq[SlotAt(pos[p])] \in {k, k + 1} BY <3>1 DEF SeqInv, Window
    <3> QED BY <2>2, <2>3, <3>1, <3>2
  <2>6. tail = Freed + Slots BY <2>3, <2>4, <2>5, SlotsAssumption DEF Window
  <2> QED BY <2>3, <2>6, SlotsAssumption DEF Freed
<1> QED BY <1>1, RingInvariant, PTL DEF Spec, FalseMeansFull
-----------------------------------------------------------------------------
\* The doorbell as the ring is made: nobody sleeps.
LEMMA DoorbellInit == Init => DoorbellInv
BY DEF Init, DoorbellInv

\* A producer's step: one that publishes is at the bell, one that took the
\* flag goes on to wake, and one that leaves saw the flag down.
LEMMA DoorbellProducer ==
  ASSUME TypeOK, DoorbellInv, NEW p \in Producers, PushCall(p) \/ Push(p) \/ Die(p)
  PROVE  DoorbellInv'
<1> USE DEF DoorbellInv, At, Goto, Awake, Asleep, shared, producer, consumer, history
<1>1. CASE \/ PushCall(p) \/ LoadTail(p) \/ LoadSeq(p) \/ Claim(p) \/ ClaimLost(p)
           \/ StoreLen(p) \/ WriteBody(p) \/ Die(p)
  <2>1. UNCHANGED <<cpc, sleep, seq, head>>
    BY <1>1 DEF PushCall, LoadTail, LoadSeq, Claim, ClaimLost, StoreLen, WriteBody, Die
  <2>2. \A q \in Producers : pc[q] \in {"bell", "exchange", "wake"} => pc'[q] = pc[q]
    BY <1>1 DEF PushCall, LoadTail, LoadSeq, Claim, ClaimLost, StoreLen, WriteBody, Die, TypeOK
  <2> QED BY <2>1, <2>2 DEF HeadReady, SlotAt
<1>2. CASE Publish(p)
  <2>1. UNCHANGED <<cpc, sleep, head>> /\ pc[p] = "publish" BY <1>2 DEF Publish
  <2>2. \A q \in Producers : q # p => pc'[q] = pc[q] BY <1>2 DEF Publish, TypeOK
  <2>3. Doorbell => pc'[p] = "bell" BY <1>2 DEF Publish, TypeOK
  <2> QED BY <2>1, <2>2, <2>3
<1>3. CASE LoadFlag(p)
  <2>1. UNCHANGED <<cpc, sleep, seq, head>> /\ pc[p] = "bell" BY <1>3 DEF LoadFlag
  <2>2. \A q \in Producers : q # p => pc'[q] = pc[q] BY <1>3 DEF LoadFlag, TypeOK
  <2>3. sleep = Asleep => pc'[p] = "exchange" BY <1>3 DEF LoadFlag, TypeOK
  <2> QED BY <2>1, <2>2, <2>3 DEF HeadReady, SlotAt
<1>4. CASE ExchangeFlag(p)
  <2>1. UNCHANGED <<cpc, seq, head>> /\ pc[p] = "exchange" /\ sleep' = Awake
    BY <1>4 DEF ExchangeFlag
  <2>2. \A q \in Producers : q # p => pc'[q] = pc[q] BY <1>4 DEF ExchangeFlag, TypeOK
  <2>3. sleep = Asleep => pc'[p] = "wake" BY <1>4 DEF ExchangeFlag, TypeOK
  <2>4. sleep \in {Awake, Asleep} BY DEF TypeOK
  <2> QED BY <2>1, <2>2, <2>3, <2>4
<1>5. CASE WakeConsumer(p)
  <2>1. UNCHANGED <<sleep, seq, head>> /\ pc[p] = "wake" /\ cpc' # "asleep"
        /\ (cpc' = cpc \/ cpc' = "woken")
    BY <1>5 DEF WakeConsumer
  <2>2. \A q \in Producers : q # p => pc'[q] = pc[q] BY <1>5 DEF WakeConsumer, TypeOK
  <2> QED BY <2>1, <2>2 DEF HeadReady, SlotAt
<1> QED BY <1>1, <1>2, <1>3, <1>4, <1>5 DEF Push

\* A consumer's step: it goes to sleep only after looking with the flag up.
LEMMA DoorbellConsumer ==
  ASSUME TypeOK, DoorbellInv, ConsumerCall \/ Consume \/ WaitEnds \/ Attach
  PROVE  DoorbellInv'
<1> USE DEF DoorbellInv, Awake, Asleep, shared, producer, consumer, history
<1>1. CASE StoreAsleep BY <1>1 DEF StoreAsleep
<1>2. CASE LookAgain
  <2>1. UNCHANGED <<sleep, seq, head, pc>> /\ cpc = "look" /\ Doorbell
    BY <1>2 DEF LookAgain
  <2>2. cpc' = "woken" \/ (cpc' = "futex" /\ ~HeadReady) BY <1>2 DEF LookAgain
  <2> QED BY <2>1, <2>2 DEF HeadReady, SlotAt
<1>3. CASE FutexWait
  <2>1. UNCHANGED <<sleep, seq, head, pc>> /\ cpc = "futex" /\ Doorbell
    BY <1>3 DEF FutexWait
  <2>2. cpc' \in {"woken", "unsupported"} \/ (cpc' = "asleep" /\ sleep = Asleep)
    BY <1>3 DEF FutexWait
  <2> QED BY <2>1, <2>2 DEF HeadReady, SlotAt
<1>4. CASE \/ ConsumerCall \/ LoadReady \/ LoadLength \/ ReadBody \/ Release \/ StoreHead
           \/ SpinAgain \/ RoundGivesUp \/ StoreAwake \/ WaitEnds \/ Attach
  <2>1. cpc' \notin {"look", "futex", "asleep"}
    BY <1>4 DEF ConsumerCall, LoadReady, LoadLength, ReadBody, Release, StoreHead, SpinAgain,
                RoundGivesUp, StoreAwake, WaitEnds, Attach
  <2> QED BY <2>1
<1> QED BY <1>1, <1>2, <1>3, <1>4 DEF Consume

\* No record is left behind a sleeping consumer while its producer lives.
THEOREM Doorbells == Spec => []NoLostWakeup
<1>1. TypeOK /\ DoorbellInv /\ [Next]_vars => DoorbellInv'
  <2> SUFFICES ASSUME TypeOK, DoorbellInv, [Next]_vars PROVE DoorbellInv' OBVIOUS
  <2>1. CASE UNCHANGED vars
    BY <2>1 DEF DoorbellInv, vars, shared, producer, consumer, HeadReady, SlotAt
  <2> QED BY <2>1, DoorbellProducer, DoorbellConsumer DEF Next
<1>2. TypeOK /\ DoorbellInv => NoLostWakeup BY DEF TypeOK, DoorbellInv, NoLostWakeup, Awake, Asleep
<1> QED BY <1>1, <1>2, DoorbellInit, TypeCorrect, PTL DEF Spec
-----------------------------------------------------------------------------
\* Claiming a slot puts its record in the queue.
LEMMA ClaimPuts ==
  ASSUME RingInv, RingInv', NEW p \in Producers, Claim(p)
  PROVE  Queue!Put
<1> USE DEF RingInv, TypeOK, PositionInv, Freed
<1>1. rec[p] \in Records OBVIOUS
<1>2. claims' = Append(claims, rec[p]) /\ delivered' = delivered BY DEF Claim
<1>3. Len(claims') = Len(claims) + 1 BY <1>1, <1>2
<1>4. Queued' = Append(Queued, rec[p])
  <2>1. Len(delivered) \in 0..Len(claims) /\ claims \in Seq(Records) BY SMTT(40)
  <2> HIDE DEF RingInv, TypeOK, PositionInv, Freed
  <2>2. SubSeq(Append(claims, rec[p]), Len(delivered) + 1, Len(claims) + 1)
          = Append(SubSeq(claims, Len(delivered) + 1, Len(claims)), rec[p])
    BY <1>1, <2>1, RestOfAppend
  <2>3. Queued' = SubSeq(Append(claims, rec[p]), Len(delivered) + 1, Len(claims) + 1)
    BY <1>2, <1>3, Zenon DEF Queued
  <2> QED BY <2>2, <2>3, Zenon DEF Queued
<1>5. Len(Queued') <= Slots
  <2>1. Len(delivered') \in Nat /\ Len(claims') \in Nat /\ Len(delivered') <= Len(claims')
        /\ Len(claims') <= Len(delivered') + Slots
    OBVIOUS
  <2>2. Len(Queued') = Len(claims') - Len(delivered')
    <3>1. claims' \in Seq(Records) /\ Len(delivered') \in 0..Len(claims') BY <2>1
    <3> QED BY <3>1, RestProperties DEF Queued
  <2> QED BY <2>1, <2>2, SlotsAssumption
<1>6. Queued \in Seq(Records)
  <2>1. claims \in Seq(Records) /\ Len(delivered) \in 0..Len(claims) OBVIOUS
  <2> QED BY <2>1, RestProperties DEF Queued
<1>7. Queued' # <<>> /\ Queued'[Len(Queued')] = rec[p]
  <2> HIDE DEF RingInv, TypeOK, PositionInv
  <2> QED BY <1>1, <1>4, <1>6
<1> HIDE DEF RingInv, TypeOK, PositionInv
<1> QED BY <1>1, <1>2, <1>4, <1>5, <1>7 DEF Queue!Put, FitsSlots

\* Freeing a slot takes the oldest record from the queue.
LEMMA ReleaseTakes ==
  ASSUME RingInv, RingInv', Release
  PROVE  Queue!Take
<1> USE DEF RingInv, TypeOK, PositionInv, ConsumerInv, Freed
<1>1. claims' = claims /\ Len(delivered') = Len(delivered) + 1 BY DEF Release
<1>2. Len(delivered) < Len(claims) BY <1>1
<1>3. delivered' = Append(delivered, claims[Len(delivered) + 1])
  <2>1. delivered' = Append(delivered, [len |-> clen, body |-> cbody]) BY DEF Release
  <2>2. delivered'[Len(delivered) + 1] = [len |-> clen, body |-> cbody] BY <2>1
  <2>3. delivered'[Len(delivered) + 1] = claims[Len(delivered) + 1] BY SMTT(40), <1>1
  <2> QED BY <2>1, <2>2, <2>3
<1>4. /\ Len(Queued) = Len(claims) - Len(delivered)
      /\ SubSeq(Queued, 1, 1) = <<claims[Len(delivered) + 1]>>
      /\ SubSeq(Queued, 2, Len(Queued)) = SubSeq(claims, (Len(delivered) + 1) + 1, Len(claims))
  <2>1. claims \in Seq(Records) /\ Len(delivered) \in Nat OBVIOUS
  <2> QED BY <1>2, <2>1, FirstOfRest DEF Queued
<1>5. delivered' = delivered \o <<claims[Len(delivered) + 1]>>
  <2> DEFINE T == [len : Int, body : Bodies]
             x == claims[Len(delivered) + 1]
  <2>1. Len(delivered) + 1 \in 1..Len(claims) BY SMTT(40), <1>2
  <2>2. x \in Records BY SMTT(40), <2>1
  <2>3. x \in T BY <2>2, RecordAssumption DEF Records
  <2>4. delivered \in Seq(T) OBVIOUS
  <2> HIDE DEF T, x
  <2>5. Append(delivered, x) = delivered \o <<x>> BY <2>3, <2>4, AppendIsConcat
  <2> QED BY <1>3, <2>5 DEF x
<1>6. delivered' = delivered \o SubSeq(Queued, 1, 1) BY <1>4, <1>5
<1>7. Queued' = SubSeq(Queued, 2, Len(Queued)) BY <1>1, <1>4 DEF Queued
<1>8. 1 \in 1..Len(Queued) BY <1>2, <1>4
<1>9. SubSeq(Queued, 2, Len(Queued)) = SubSeq(Queued, 1 + 1, Len(Queued)) OBVIOUS
<1> QED BY <1>6, <1>7, <1>8, <1>9 DEF Queue!Take

\* The ring implements the bounded queue of RecordQueue: every step is a put, a
\* take or no change of the queue, deaths and re-attachments included.
THEOREM RefinesQueue == Spec => ImplementsQueue
<1>1. Init => Queue!Init
  BY DEF Init, Queue!Init, Queued
<1>2. RingInv /\ RingInv' /\ [Next]_vars => [Queue!Next]_<<Queued, delivered>>
  <2> SUFFICES ASSUME RingInv, RingInv', [Next]_vars
               PROVE  Queue!Next \/ UNCHANGED <<Queued, delivered>>
    OBVIOUS
  <2>1. CASE \E p \in Producers : Claim(p) BY <2>1, ClaimPuts DEF Queue!Next
  <2>2. CASE Release BY <2>2, ReleaseTakes DEF Queue!Next
  <2>3. CASE UNCHANGED <<claims, delivered>> BY <2>3 DEF Queued
  <2>4. \/ \E p \in Producers : Claim(p)
        \/ Release
        \/ UNCHANGED <<claims, delivered>>
    BY DEF Next, Push, Consume, vars, history, PushCall, LoadTail, LoadSeq, ClaimLost, StoreLen,
           WriteBody, Publish, LoadFlag, ExchangeFlag, WakeConsumer, Die, ConsumerCall, LoadReady,
           LoadLength, ReadBody, StoreHead, SpinAgain, RoundGivesUp, StoreAsleep, LookAgain,
           FutexWait, StoreAwake, WaitEnds, Attach
  <2> QED BY <2>1, <2>2, <2>3, <2>4
<1> QED BY <1>1, <1>2, RingInvariant, PTL DEF Spec, ImplementsQueue, Queue!Spec
=============================================================================
