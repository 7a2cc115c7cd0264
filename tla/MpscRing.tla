------------------------------ MODULE MpscRing ------------------------------
(***************************************************************************)
(* The many-producer ring of std/sync/ring.ts (class MpscRing), Vyukov's   *)
(* bounded queue over shared memory: every shared-memory access of         *)
(* tryPush, tryPop, popBatch and popWait is a step of its own, so the      *)
(* processes interleave between any two of them.  Producers may die at any *)
(* step, and a consumer may die at any step and be replaced by one that    *)
(* attaches to the ring.                                                   *)
(*                                                                         *)
(* Memory order.  The enqueue position is loaded RELAXED, so LoadTail may  *)
(* read any value it has held since this producer last saw it.  A slot's   *)
(* length and bytes are plain data published by the RELEASE or SEQ_CST     *)
(* store of its sequence number and read after an ACQUIRE load of it: the  *)
(* invariant NoDataRace is what makes reading them as the latest values    *)
(* sound.  Sequence numbers and the sleep flag of a doorbell ring are      *)
(* SEQ_CST where the code relies on their order.                           *)
(***************************************************************************)
EXTENDS Integers, Sequences, FiniteSets

CONSTANTS
  Producers,     \* the producing processes
  Slots,         \* how many records the ring holds at once
  SlotBytes,     \* the longest record
  Lens,          \* the lengths producers push, within a slot
  Rooms,         \* the bytes left in the buffers consumers pop into
  Batches,       \* the lengths of the lens arrays given to popBatch
  Modes,         \* which of the consumer's calls are made
  Doorbell,      \* whether the ring was made with a doorbell
  HasFutex,      \* whether the platform has a futex (Linux)
  Mortal,        \* the producers that may die
  ConsumerDies,  \* whether the consumer may die and be replaced
  MaxPushes      \* bound: the records one producer queues

NoBody == <<>>
Pop == "tryPop"
Batch == "popBatch"
Wait == "popWait, no limit"
Timed == "popWait, limited"

ASSUME SlotsAssumption == Slots \in Nat /\ Slots >= 2

ASSUME RecordAssumption ==
  /\ SlotBytes \in Nat
  /\ Lens \subseteq 0..SlotBytes
  /\ Rooms \subseteq Nat
  /\ Batches \subseteq Nat \ {0}

ASSUME CallAssumption ==
  /\ Modes \subseteq {Pop, Batch, Wait, Timed}
  /\ Doorbell \in BOOLEAN
  /\ HasFutex \in BOOLEAN
  /\ Mortal \subseteq Producers
  /\ ConsumerDies \in BOOLEAN
  /\ MaxPushes \in Nat

Awake == 0
Asleep == 1
Garbage == -1          \* what a slot's length word may hold before its first record

Bodies == (Producers \X Nat) \cup {NoBody}
Records == [len : 0..SlotBytes, body : Bodies]

VARIABLES
  \* The shared region.
  tail,      \* the enqueue position
  headWord,  \* the consumer's position as the header holds it
  sleep,     \* the consumer's sleep flag
  seq,       \* each slot's sequence number
  slotLen,   \* each slot's length word
  slotBody,  \* each slot's payload
  \* Each producer's locals.
  pc, pos, rec,
  made,      \* how many records it has queued
  dead,      \* the producers that died
  \* The consumer's locals.
  cpc, mode, head, room, left, clen, cbody,
  \* History.
  claims,    \* the records, in the order their slots were claimed
  delivered  \* the records popped, in order

shared == <<tail, headWord, sleep, seq, slotLen, slotBody>>
producer == <<pc, pos, rec, made, dead>>
consumer == <<cpc, mode, head, room, left, clen, cbody>>
history == <<claims, delivered>>
vars == <<shared, producer, consumer, history>>

-----------------------------------------------------------------------------
SlotAt(k) == k % Slots
SlotIndex == 0..(Slots - 1)

\* initMpscRing: the memory of the slots is whatever it was.
Init ==
  /\ tail = 0
  /\ headWord = 0
  /\ sleep = Awake
  /\ seq = [i \in SlotIndex |-> i]
  /\ slotLen = [i \in SlotIndex |-> Garbage]
  /\ slotBody = [i \in SlotIndex |-> NoBody]
  /\ pc = [p \in Producers |-> "idle"]
  /\ pos = [p \in Producers |-> 0]
  /\ rec = [p \in Producers |-> [len |-> 0, body |-> NoBody]]
  /\ made = [p \in Producers |-> 0]
  /\ dead = {}
  /\ cpc = "idle"
  /\ mode = Pop
  /\ head = 0
  /\ room = 0
  /\ left = 0
  /\ clen = 0
  /\ cbody = NoBody
  /\ claims = <<>>
  /\ delivered = <<>>

(***************************************************************************)
(* tryPush.                                                                *)
(***************************************************************************)
Goto(p, label) == pc' = [pc EXCEPT ![p] = label]
At(p, label) == p \notin dead /\ pc[p] = label

\* A record's bytes name the record; one of length 0 has none.
PushCall(p) ==
  /\ At(p, "idle")
  /\ made[p] < MaxPushes
  /\ \E l \in Lens :
       rec' = [rec EXCEPT ![p] =
                 [len |-> l, body |-> IF l = 0 THEN NoBody ELSE <<p, made[p]>>]]
  /\ Goto(p, "loadTail")
  /\ UNCHANGED <<shared, pos, made, dead, consumer, history>>

\* A RELAXED load: any value of the position from the one p last saw on.
LoadTail(p) ==
  /\ At(p, "loadTail")
  /\ \E v \in pos[p]..tail : pos' = [pos EXCEPT ![p] = v]
  /\ Goto(p, "loadSeq")
  /\ UNCHANGED <<shared, rec, made, dead, consumer, history>>

\* Mutant: a slot of the lap before counts as free.
LoadSeq_OldLap(p) ==
  /\ At(p, "loadSeq")
  /\ Goto(p, IF seq[SlotAt(pos[p])] <= pos[p] THEN "cas" ELSE "loadTail")
  /\ UNCHANGED <<shared, pos, rec, made, dead, consumer, history>>

\* Mutant: a slot another producer claimed answers full.
LoadSeq_TakenIsFull(p) ==
  /\ At(p, "loadSeq")
  /\ Goto(p, IF seq[SlotAt(pos[p])] = pos[p] THEN "cas" ELSE "idle")
  /\ UNCHANGED <<shared, pos, rec, made, dead, consumer, history>>

\* The ACQUIRE load of the slot's number: free for this lap, still in use
\* (the push answers false), or already claimed by another producer.
LoadSeq(p) ==
  /\ At(p, "loadSeq")
  /\ LET s == seq[SlotAt(pos[p])]
     IN  \/ s = pos[p] /\ Goto(p, "cas")
         \/ s < pos[p] /\ Goto(p, "idle")
         \/ s > pos[p] /\ Goto(p, "loadTail")
  /\ UNCHANGED <<shared, pos, rec, made, dead, consumer, history>>

\* Mutant: a plain store where the compare-exchange is.
Claim_Unchecked(p) ==
  /\ At(p, "cas")
  /\ tail' = pos[p] + 1
  /\ made' = [made EXCEPT ![p] = @ + 1]
  /\ claims' = Append(claims, rec[p])
  /\ Goto(p, "storeLen")
  /\ UNCHANGED <<headWord, sleep, seq, slotLen, slotBody, pos, rec, dead, consumer, delivered>>

\* Mutant: the slot is published before its record is written.
Claim_PublishFirst(p) ==
  /\ At(p, "cas")
  /\ tail = pos[p]
  /\ tail' = tail + 1
  /\ made' = [made EXCEPT ![p] = @ + 1]
  /\ claims' = Append(claims, rec[p])
  /\ Goto(p, "publish")
  /\ UNCHANGED <<headWord, sleep, seq, slotLen, slotBody, pos, rec, dead, consumer, delivered>>

Claim(p) ==
  /\ At(p, "cas")
  /\ tail = pos[p]
  /\ tail' = tail + 1
  /\ made' = [made EXCEPT ![p] = @ + 1]
  /\ claims' = Append(claims, rec[p])
  /\ Goto(p, "storeLen")
  /\ UNCHANGED <<headWord, sleep, seq, slotLen, slotBody, pos, rec, dead, consumer, delivered>>

\* Mutant: the exchange is tried again at the position that failed.
ClaimLost_SamePosition(p) ==
  /\ At(p, "cas")
  /\ tail # pos[p]
  /\ UNCHANGED vars

\* The compare-exchange failed and answered the position it found.
ClaimLost(p) ==
  /\ At(p, "cas")
  /\ tail # pos[p]
  /\ pos' = [pos EXCEPT ![p] = tail]
  /\ Goto(p, "loadSeq")
  /\ UNCHANGED <<shared, rec, made, dead, consumer, history>>

StoreLen(p) ==
  /\ At(p, "storeLen")
  /\ slotLen' = [slotLen EXCEPT ![SlotAt(pos[p])] = rec[p].len]
  /\ Goto(p, "write")
  /\ UNCHANGED <<tail, headWord, sleep, seq, slotBody, pos, rec, made, dead, consumer, history>>

WriteBody(p) ==
  /\ At(p, "write")
  /\ slotBody' = IF rec[p].len = 0 THEN slotBody
                 ELSE [slotBody EXCEPT ![SlotAt(pos[p])] = rec[p].body]
  /\ Goto(p, "publish")
  /\ UNCHANGED <<tail, headWord, sleep, seq, slotLen, pos, rec, made, dead, consumer, history>>

\* Mutant: a push on a doorbell ring does not ring.
Publish_Silent(p) ==
  /\ At(p, "publish")
  /\ seq' = [seq EXCEPT ![SlotAt(pos[p])] = pos[p] + 1]
  /\ Goto(p, "idle")
  /\ UNCHANGED <<tail, headWord, sleep, slotLen, slotBody, pos, rec, made, dead, consumer, history>>

Publish(p) ==
  /\ At(p, "publish")
  /\ seq' = [seq EXCEPT ![SlotAt(pos[p])] = pos[p] + 1]
  /\ Goto(p, IF Doorbell THEN "bell" ELSE "idle")
  /\ UNCHANGED <<tail, headWord, sleep, slotLen, slotBody, pos, rec, made, dead, consumer, history>>

\* ringRing: load the flag, exchange it, wake the consumer.
LoadFlag(p) ==
  /\ At(p, "bell")
  /\ Goto(p, IF sleep # Awake THEN "exchange" ELSE "idle")
  /\ UNCHANGED <<shared, pos, rec, made, dead, consumer, history>>

ExchangeFlag(p) ==
  /\ At(p, "exchange")
  /\ sleep' = Awake
  /\ Goto(p, IF sleep # Awake THEN "wake" ELSE "idle")
  /\ UNCHANGED <<tail, headWord, seq, slotLen, slotBody, pos, rec, made, dead, consumer, history>>

WakeConsumer(p) ==
  /\ At(p, "wake")
  /\ cpc' = IF cpc = "asleep" THEN "woken" ELSE cpc
  /\ Goto(p, "idle")
  /\ UNCHANGED <<shared, pos, rec, made, dead, mode, head, room, left, clen, cbody, history>>

\* A producing process dies: what it was doing stays as it left it.
Die(p) ==
  /\ p \in Mortal \ dead
  /\ dead' = dead \cup {p}
  /\ UNCHANGED <<shared, pc, pos, rec, made, consumer, history>>

(***************************************************************************)
(* tryPop, popBatch and popWait.                                           *)
(***************************************************************************)
ConsumerCall ==
  /\ cpc = "idle"
  /\ \E m \in Modes, r \in Rooms, b \in Batches :
       /\ mode' = m
       /\ room' = r
       /\ left' = IF m = Batch THEN b ELSE 1
  /\ cpc' = "ready"
  /\ UNCHANGED <<shared, producer, head, clen, cbody, history>>

\* Mutant: a slot that was claimed counts as filled.
HeadReady_Claimed == head < tail /\ seq[SlotAt(head)] >= head

HeadReady == seq[SlotAt(head)] = head + 1

LoadReady ==
  /\ cpc = "ready"
  /\ cpc' = IF HeadReady THEN "length"
            ELSE IF mode \in {Wait, Timed} THEN "empty" ELSE "idle"
  /\ UNCHANGED <<shared, producer, mode, head, room, left, clen, cbody, history>>

\* lengthAt panics on a length no producer writes; a record longer than the
\* room stays queued.
LoadLength ==
  /\ cpc = "length"
  /\ clen' = slotLen[SlotAt(head)]
  /\ cpc' = IF clen' < 0 \/ clen' > SlotBytes THEN "panic"
            ELSE IF clen' > room THEN "idle" ELSE "read"
  /\ UNCHANGED <<shared, producer, mode, head, room, left, cbody, history>>

ReadBody ==
  /\ cpc = "read"
  /\ cbody' = IF clen = 0 THEN NoBody ELSE slotBody[SlotAt(head)]
  /\ cpc' = "release"
  /\ UNCHANGED <<shared, producer, mode, head, room, left, clen, history>>

\* Mutant: the slot's number goes back a lap.
Release_LapBack ==
  /\ cpc = "release"
  /\ seq' = [seq EXCEPT ![SlotAt(head)] = head - Slots]
  /\ head' = head + 1
  /\ delivered' = Append(delivered, [len |-> clen, body |-> cbody])
  /\ cpc' = "storeHead"
  /\ UNCHANGED <<tail, headWord, sleep, slotLen, slotBody, producer, mode, room, left, clen, cbody, claims>>

Release ==
  /\ cpc = "release"
  /\ seq' = [seq EXCEPT ![SlotAt(head)] = head + Slots]
  /\ head' = head + 1
  /\ delivered' = Append(delivered, [len |-> clen, body |-> cbody])
  /\ cpc' = "storeHead"
  /\ UNCHANGED <<tail, headWord, sleep, slotLen, slotBody, producer, mode, room, left, clen, cbody, claims>>

StoreHead ==
  /\ cpc = "storeHead"
  /\ headWord' = head
  /\ left' = left - 1
  /\ room' = room - clen
  /\ cpc' = IF left' > 0 THEN "ready" ELSE "idle"
  /\ UNCHANGED <<tail, sleep, seq, slotLen, slotBody, producer, mode, head, clen, cbody, history>>

\* A tryPop of popWait's round found nothing: try again in the round, or end
\* the round, where a ring with no doorbell answers SHM_UNSUPPORTED and a
\* wait whose time has passed RING_EMPTY.
SpinAgain ==
  /\ cpc = "empty"
  /\ cpc' = "ready"
  /\ UNCHANGED <<shared, producer, mode, head, room, left, clen, cbody, history>>

RoundGivesUp ==
  /\ cpc = "empty"
  /\ ~Doorbell \/ mode = Timed
  /\ cpc' = "idle"
  /\ UNCHANGED <<shared, producer, mode, head, room, left, clen, cbody, history>>

StoreAsleep ==
  /\ cpc = "empty"
  /\ Doorbell
  /\ sleep' = Asleep
  /\ cpc' = "look"
  /\ UNCHANGED <<tail, headWord, seq, slotLen, slotBody, producer, mode, head, room, left, clen, cbody, history>>

\* Mutant: the consumer sleeps without looking again.
LookAgain_Skipped ==
  /\ cpc = "look"
  /\ cpc' = "futex"
  /\ UNCHANGED <<shared, producer, mode, head, room, left, clen, cbody, history>>

LookAgain ==
  /\ cpc = "look"
  /\ cpc' = IF HeadReady THEN "woken" ELSE "futex"
  /\ UNCHANGED <<shared, producer, mode, head, room, left, clen, cbody, history>>

\* The kernel compares the flag and sleeps in one step.
FutexWait ==
  /\ cpc = "futex"
  /\ cpc' = IF ~HasFutex THEN "unsupported"
            ELSE IF sleep = Asleep THEN "asleep" ELSE "woken"
  /\ UNCHANGED <<shared, producer, mode, head, room, left, clen, cbody, history>>

\* The wait's time runs out, or a signal ends it.
WaitEnds ==
  /\ cpc = "asleep"
  /\ cpc' = "woken"
  /\ UNCHANGED <<shared, producer, mode, head, room, left, clen, cbody, history>>

StoreAwake ==
  /\ cpc \in {"woken", "unsupported"}
  /\ sleep' = Awake
  /\ cpc' = IF cpc = "woken" THEN "ready" ELSE "idle"
  /\ UNCHANGED <<tail, headWord, seq, slotLen, slotBody, producer, mode, head, room, left, clen, cbody, history>>

\* The consumer dies and another process attaches as the consumer.
Attach ==
  /\ ConsumerDies
  /\ head' = headWord
  /\ cpc' = "idle"
  /\ UNCHANGED <<shared, producer, mode, room, left, clen, cbody, history>>

-----------------------------------------------------------------------------
Push(p) ==
  \/ LoadTail(p) \/ LoadSeq(p) \/ Claim(p) \/ ClaimLost(p)
  \/ StoreLen(p) \/ WriteBody(p) \/ Publish(p)
  \/ LoadFlag(p) \/ ExchangeFlag(p) \/ WakeConsumer(p)

Consume ==
  \/ LoadReady \/ LoadLength \/ ReadBody \/ Release \/ StoreHead
  \/ SpinAgain \/ RoundGivesUp \/ StoreAsleep \/ LookAgain \/ FutexWait \/ StoreAwake

Next ==
  \/ \E p \in Producers : PushCall(p) \/ Push(p) \/ Die(p)
  \/ ConsumerCall \/ Consume \/ WaitEnds \/ Attach

Spec == Init /\ [][Next]_vars

\* A process inside a call keeps running, the consumer keeps calling, and a
\* RELAXED store becomes visible in the end.  Nothing ends a wait but a wake.
Fairness ==
  /\ \A p \in Producers : /\ WF_vars(Push(p))
                          /\ SF_vars(LoadTail(p) /\ pos'[p] = tail)
  /\ WF_vars(Consume)
  /\ WF_vars(ConsumerCall)

FairSpec == Spec /\ Fairness
-----------------------------------------------------------------------------
Labels == {"idle", "loadTail", "loadSeq", "cas", "storeLen", "write", "publish",
           "bell", "exchange", "wake"}
ConsumerLabels == {"idle", "ready", "length", "read", "release", "storeHead", "empty",
                   "look", "futex", "asleep", "woken", "unsupported", "panic"}

\* Every variable has the type the code gives it.
TypeOK ==
  /\ tail \in Nat /\ headWord \in Nat /\ sleep \in {Awake, Asleep}
  /\ seq \in [SlotIndex -> Nat]
  /\ slotLen \in [SlotIndex -> Nat \cup {Garbage}]
  /\ slotBody \in [SlotIndex -> Bodies]
  /\ pc \in [Producers -> Labels]
  /\ pos \in [Producers -> Nat]
  /\ rec \in [Producers -> Records]
  /\ made \in [Producers -> Nat]
  /\ dead \subseteq Producers
  /\ cpc \in ConsumerLabels
  /\ mode \in {Pop, Batch, Wait, Timed}
  /\ head \in Nat /\ room \in Int /\ left \in Int
  /\ clen \in Int /\ cbody \in Bodies
  /\ claims \in Seq(Records)
  /\ delivered \in Seq([len : Int, body : Bodies])

\* p has claimed a slot and not published it.
Holding(p) == pc[p] \in {"storeLen", "write", "publish"}

\* The consumer is between seeing its slot filled and freeing it.
Reading == cpc \in {"length", "read", "release"}

\* Records come out whole, once each and in the order their slots were
\* claimed: what tryPop, popBatch and popWait have moved out is a prefix of
\* what the compare-exchange of tryPush claimed (ring.ts:746-776, 810-855).
Fifo ==
  /\ Len(delivered) <= Len(claims)
  /\ \A i \in 1..Len(delivered) : delivered[i] = claims[i]

\* A slot's plain bytes are never accessed by two processes at once when one
\* of them writes: the sequence number alone says whose turn it is
\* (ring.ts:766-768 against 814-820).
NoDataRace ==
  /\ \A p, q \in Producers :
       p # q /\ Holding(p) /\ Holding(q) => SlotAt(pos[p]) # SlotAt(pos[q])
  /\ \A p \in Producers :
       Holding(p) /\ Reading => SlotAt(pos[p]) # SlotAt(head)

\* The panic of lengthAt ("the ring is corrupt", ring.ts:793) is not reached
\* with well-behaved producers, even when they die half way through a push.
NeverCorrupt == cpc # "panic"

\* tryPush answers false only while every slot is taken, although the
\* position it compares with may be stale (ring.ts:760).
FalseMeansFull ==
  [][\A p \in Producers :
       pc[p] = "loadSeq" /\ pc'[p] = "idle" => tail - Len(delivered) = Slots]_vars

\* The doorbell: a consumer asleep on the futex while its record is there has
\* a producer on its way to wake it (ring.ts:173-181, 201-210, 887-888).
NoLostWakeup ==
  cpc = "asleep" /\ HeadReady =>
    \/ \E p \in Producers : pc[p] = "wake"
    \/ sleep = Asleep /\ \E p \in Producers : pc[p] \in {"bell", "exchange"}

\* A producer that died between claiming its slot and filling it keeps every
\* record behind it from the consumer (ring.ts:78-80).
DeadClaimStalls ==
  \A p \in dead : Holding(p) => Len(delivered) <= pos[p]

\* A consumer that dies between the two stores of release leaves the header
\* one record behind: the next consumer waits at a slot whose number has
\* passed it, and never pops (ring.ts:784-788, 723).
LateCrashStalls ==
  head # Len(delivered) => ~HeadReady /\ ~Reading

\* Wherever a process dies, the ring at worst stalls: nothing is delivered past
\* a record that never came, and none is popped twice (push, release).
CrashesStall == DeadClaimStalls /\ LateCrashStalls

\* The records claimed and not freed.
Queued == SubSeq(claims, Len(delivered) + 1, Len(claims))
FitsSlots(q) == Len(q) <= Slots

Queue ==
  INSTANCE RecordQueue WITH
    Record <- Records, Fits <- FitsSlots, queue <- Queued, taken <- delivered

\* The ring implements a queue of at most Slots whole records, in which a
\* record is put when its slot is claimed and taken when its slot is freed;
\* no death of a process puts or takes anything (ring.ts:746-855).
ImplementsQueue == Queue!Spec

\* Every record whose slot was claimed is popped in the end, by a consumer
\* that waits without a limit and is woken by nothing but the doorbell.
Delivery ==
  \A k \in 1..(Cardinality(Producers) * MaxPushes) :
    Len(claims) >= k ~> Len(delivered) >= k

\* Every tryPush returns, however often another producer takes its slot.
PushReturns ==
  \A p \in Producers : pc[p] # "idle" ~> pc[p] = "idle"
=============================================================================
