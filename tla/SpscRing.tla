------------------------------ MODULE SpscRing ------------------------------
(***************************************************************************)
(* The one-producer one-consumer ring of std/sync/ring.ts (class           *)
(* SpscRing): records of any length back to back in a ring of Capacity     *)
(* bytes, the in-place calls reserve / commit / abandon and peek /         *)
(* release, and the skip marker a reservation leaves at a lap's end.       *)
(*                                                                         *)
(* Positions and lengths are bytes, as in the code; the memory is kept by  *)
(* words of four bytes, since every length word is aligned.  A step makes  *)
(* at most one access to a shared position.  The bytes of a record are     *)
(* plain data between the producer's position and the consumer's, which    *)
(* NoTrespass shows no process touches while the other may.  The doorbell  *)
(* a push may ring is the subject of module Doorbell.                      *)
(*                                                                         *)
(* Either process may die between any two steps and be replaced by one     *)
(* that attaches to the ring.                                              *)
(***************************************************************************)
EXTENDS Integers, Sequences

CONSTANTS
  Capacity,    \* data bytes, a power of two from 8
  Lens,        \* lengths given to tryPush
  Reserves,    \* lengths given to reserve
  Rooms,       \* bytes left in the buffers popped into
  Batches,     \* lengths of the lens arrays given to popBatch
  Crashes,     \* whether the processes may die
  MaxRecords   \* bound: the records begun

Word == 4
Skip == -1
Garbage == -2    \* what a length word may read as where no length was stored
None == -1

ASSUME CapacityAssumption == Capacity \in Nat /\ Capacity >= 8 /\ Capacity % Word = 0

\* The bytes a record takes: its length word and the payload rounded up.
ringRecordBytes(len) == ((len + 3) \div Word) * Word + Word

ASSUME LengthAssumption ==
  /\ Lens \subseteq {n \in Nat : ringRecordBytes(n) <= Capacity}
  /\ Reserves \subseteq 1..(Capacity \div 2 - Word)
  /\ Rooms \subseteq Nat
  /\ Batches \subseteq Nat \ {0}
  /\ MaxRecords \in Nat
  /\ Crashes \in BOOLEAN

Words(len) == (len + 3) \div Word
Cells == 0..(Capacity \div Word - 1)
CellAt(pos) == (pos % Capacity) \div Word

\* A word of the ring: a length, or the j-th word of record id's payload.
LengthCell(n) == [len |-> n, id |-> 0, part |-> 0]
PayloadCell(id, j) == [len |-> Garbage, id |-> id, part |-> j]

\* A record as it is pushed or popped: its length and its words.
RecordOf(id, len) ==
  [len |-> len, body |-> [j \in 1..Words(len) |-> PayloadCell(id, j)]]

VARIABLES
  \* The shared region.
  mem, tailWord, headWord,
  \* The producer's object.
  ppc, tail, seenHead, reserved, reservedPad,
  plen,        \* the length being pushed
  made,        \* the records begun, which numbers them
  \* The consumer's object and the call in progress.
  cpc, head, seenTail, peekedEnd,
  op, room, left, pos, found, clen, got,
  \* History.
  pushed,      \* the records published, in order
  delivered    \* the records freed, in order, as the consumer read them

shared == <<mem, tailWord, headWord>>
producer == <<ppc, tail, seenHead, reserved, reservedPad, plen, made>>
consumer == <<cpc, head, seenTail, peekedEnd, op, room, left, pos, found, clen, got>>
history == <<pushed, delivered>>
vars == <<shared, producer, consumer, history>>

\* initSpscRing: the memory of the data is whatever it was.
Init ==
  /\ mem = [c \in Cells |-> LengthCell(Garbage)]
  /\ tailWord = 0 /\ headWord = 0
  /\ ppc = "idle" /\ tail = 0 /\ seenHead = 0
  /\ reserved = None /\ reservedPad = 0 /\ plen = 0 /\ made = 0
  /\ cpc = "idle" /\ head = 0 /\ seenTail = 0 /\ peekedEnd = None
  /\ op = "none" /\ room = 0 /\ left = 0 /\ pos = 0 /\ found = 0 /\ clen = 0 /\ got = <<>>
  /\ pushed = <<>> /\ delivered = <<>>

(***************************************************************************)
(* The producer: tryPush, reserve, commit, abandon.                        *)
(***************************************************************************)
\* Mutant: a word too much is taken for room.
CheckRoom_WordOver(end, fits) ==
  /\ seenHead' = IF end - seenHead <= Capacity + Word THEN seenHead ELSE headWord
  /\ IF end - seenHead' > Capacity + Word
     THEN UNCHANGED <<ppc, reserved, reservedPad, plen, made>>
     ELSE fits

\* Mutant: the cached position is the last word.
CheckRoom_Stale(end, fits) ==
  /\ UNCHANGED seenHead
  /\ IF end - seenHead > Capacity
     THEN UNCHANGED <<ppc, reserved, reservedPad, plen, made>>
     ELSE fits

\* The room check both pushes make: the cached position of the consumer
\* first, then the shared one.  fits is what the call does when there is room.
CheckRoom(end, fits) ==
  \/ /\ end - seenHead <= Capacity
     /\ UNCHANGED seenHead
     /\ fits
  \/ /\ end - seenHead > Capacity
     /\ seenHead' = headWord
     /\ IF end - seenHead' > Capacity
        THEN UNCHANGED <<ppc, reserved, reservedPad, plen, made>>
        ELSE fits

TryPush(len) ==
  /\ ppc = "idle" /\ made < MaxRecords
  /\ CheckRoom(tail + ringRecordBytes(len),
               /\ ppc' = "length" /\ plen' = len /\ made' = made + 1
               /\ UNCHANGED <<reserved, reservedPad>>)
  /\ UNCHANGED <<shared, tail, consumer, history>>

\* The padding that keeps a reservation of n from crossing the lap's end.
PadFor(n) ==
  LET rest == Capacity - (tail % Capacity)
  IN  IF ringRecordBytes(n) <= rest THEN 0 ELSE rest

Reserve(n) ==
  /\ ppc = "idle" /\ made < MaxRecords
  /\ CheckRoom(tail + PadFor(n) + ringRecordBytes(n),
               /\ ppc' = "reserved" /\ reserved' = n /\ reservedPad' = PadFor(n)
               /\ made' = made + 1 /\ UNCHANGED plen)
  /\ UNCHANGED <<shared, tail, consumer, history>>

\* Where the record being written starts: past the padding of a reservation.
InPlace == ppc \in {"reserved", "filled", "commitSkip", "commitLength", "commitPublish"}
RecordStart == IF InPlace THEN tail + reservedPad ELSE tail

\* m with the words of the payload of record id, len bytes, after its length
\* word at start; a record of tryPush may wrap.
WithPayload(m, start, id, len) ==
  [c \in Cells |->
     IF \E j \in 1..Words(len) : CellAt(start + j * Word) = c
     THEN PayloadCell(id, CHOOSE j \in 1..Words(len) : CellAt(start + j * Word) = c)
     ELSE m[c]]

\* The program writes into the window reserve lent it.
FillWindow ==
  /\ ppc = "reserved"
  /\ mem' = WithPayload(mem, RecordStart, made, reserved)
  /\ ppc' = "filled"
  /\ UNCHANGED <<tailWord, headWord, tail, seenHead, reserved, reservedPad, plen, made, consumer, history>>

\* commit of the window's first len bytes: the marker, the length, the position.
Commit(len) ==
  /\ ppc = "filled" /\ len <= reserved
  /\ plen' = len
  /\ reserved' = None
  /\ ppc' = IF reservedPad > 0 THEN "commitSkip" ELSE "commitLength"
  /\ UNCHANGED <<shared, tail, seenHead, reservedPad, made, consumer, history>>

Abandon ==
  /\ ppc \in {"reserved", "filled"}
  /\ reserved' = None
  /\ ppc' = "idle"
  /\ UNCHANGED <<shared, tail, seenHead, reservedPad, plen, made, consumer, history>>

StoreSkip ==
  /\ ppc = "commitSkip"
  /\ mem' = [mem EXCEPT ![CellAt(tail)] = LengthCell(Skip)]
  /\ ppc' = "commitLength"
  /\ UNCHANGED <<tailWord, headWord, tail, seenHead, reserved, reservedPad, plen, made, consumer, history>>

StoreLength ==
  /\ ppc \in {"length", "commitLength"}
  /\ mem' = [mem EXCEPT ![CellAt(RecordStart)] = LengthCell(plen)]
  /\ ppc' = IF InPlace THEN "commitPublish" ELSE "write"
  /\ UNCHANGED <<tailWord, headWord, tail, seenHead, reserved, reservedPad, plen, made, consumer, history>>

WritePayload ==
  /\ ppc = "write"
  /\ mem' = WithPayload(mem, tail, made, plen)
  /\ ppc' = "publish"
  /\ UNCHANGED <<tailWord, headWord, tail, seenHead, reserved, reservedPad, plen, made, consumer, history>>

Publish ==
  /\ ppc \in {"publish", "commitPublish"}
  /\ tail' = RecordStart + ringRecordBytes(plen)
  /\ tailWord' = tail'
  /\ pushed' = Append(pushed, RecordOf(made, plen))
  /\ ppc' = "idle"
  /\ UNCHANGED <<mem, headWord, seenHead, reserved, reservedPad, plen, made, consumer, delivered>>

\* The producer dies and another attaches: what it had not published is lost.
ProducerAttach ==
  /\ Crashes
  /\ tail' = tailWord /\ seenHead' = headWord
  /\ reserved' = None /\ ppc' = "idle"
  /\ UNCHANGED <<shared, reservedPad, plen, made, consumer, history>>

(***************************************************************************)
(* The consumer: tryPop, popBatch, peek, release.                          *)
(***************************************************************************)
\* ready: the producer's position is loaded when the cache says empty.
TryPop(r) ==
  /\ cpc = "idle" /\ peekedEnd = None
  /\ seenTail' = IF head # seenTail THEN seenTail ELSE tailWord
  /\ cpc' = IF head # seenTail' THEN "length" ELSE "idle"
  /\ op' = "tryPop" /\ room' = r /\ left' = 1 /\ pos' = head
  /\ UNCHANGED <<shared, producer, head, peekedEnd, found, clen, got, history>>

Peek ==
  /\ cpc = "idle" /\ peekedEnd = None
  /\ seenTail' = IF head # seenTail THEN seenTail ELSE tailWord
  /\ cpc' = IF head # seenTail' THEN "length" ELSE "idle"
  /\ op' = "peek" /\ pos' = head
  /\ UNCHANGED <<shared, producer, head, peekedEnd, room, left, found, clen, got, history>>

PopBatch(r, b) ==
  /\ cpc = "idle" /\ peekedEnd = None
  /\ seenTail' = tailWord
  /\ cpc' = IF head # seenTail' THEN "length" ELSE "idle"
  /\ op' = "popBatch" /\ room' = r /\ left' = b /\ pos' = head
  /\ UNCHANGED <<shared, producer, head, peekedEnd, found, clen, got, history>>

\* lengthAt: where the record at pos starts, past a skip marker, and its length.
Found == IF mem[CellAt(pos)].len = Skip THEN pos + (Capacity - (pos % Capacity)) ELSE pos
Corrupt(len, at) ==
  \/ len < 0 \/ len > Capacity - Word
  \/ ringRecordBytes(len) > seenTail - at

\* Whether the record's payload, from the byte after its length word, wraps.
Wraps(at, len) == len > Capacity - ((at + Word) % Capacity)

LengthAt ==
  /\ cpc = "length"
  /\ found' = Found
  /\ clen' = mem[CellAt(Found)].len
  /\ \/ /\ Corrupt(clen', found')
        /\ cpc' = "panic" /\ UNCHANGED peekedEnd
     \/ /\ ~Corrupt(clen', found') /\ op = "peek"
        /\ cpc' = "idle"
        /\ peekedEnd' = IF clen' = 0 \/ Wraps(found', clen') THEN None
                        ELSE found' + ringRecordBytes(clen')
     \/ /\ ~Corrupt(clen', found') /\ op # "peek"
        /\ cpc' = IF clen' <= room THEN "copy"
                  ELSE IF got # <<>> THEN "store" ELSE "idle"
        /\ UNCHANGED peekedEnd
  /\ UNCHANGED <<shared, producer, head, seenTail, op, room, left, pos, got, history>>

RecordAt(at, len) ==
  [len |-> len, body |-> [j \in 1..Words(len) |-> mem[CellAt(at + j * Word)]]]

\* Mutant: a batch steps from the consumer's position, not from the record's.
CopyOut_FromHead ==
  /\ cpc = "copy"
  /\ got' = Append(got, RecordAt(found, clen))
  /\ pos' = head + ringRecordBytes(clen)
  /\ room' = room - clen
  /\ left' = left - 1
  /\ cpc' = IF left' > 0 /\ pos' # seenTail THEN "length" ELSE "store"
  /\ UNCHANGED <<shared, producer, head, seenTail, peekedEnd, op, found, clen, history>>

\* copyOut, and the step to the batch's next record.
CopyOut ==
  /\ cpc = "copy"
  /\ got' = Append(got, RecordAt(found, clen))
  /\ pos' = found + ringRecordBytes(clen)
  /\ room' = room - clen
  /\ left' = left - 1
  /\ cpc' = IF left' > 0 /\ pos' # seenTail THEN "length" ELSE "store"
  /\ UNCHANGED <<shared, producer, head, seenTail, peekedEnd, op, found, clen, history>>

StoreHead ==
  /\ cpc = "store"
  /\ head' = pos /\ headWord' = pos
  /\ delivered' = delivered \o got
  /\ got' = <<>>
  /\ cpc' = "idle"
  /\ UNCHANGED <<mem, tailWord, producer, seenTail, peekedEnd, op, room, left, pos, found, clen, pushed>>

\* release of the record peek lent, read in place until now.
Release ==
  /\ cpc = "idle" /\ peekedEnd # None
  /\ head' = peekedEnd /\ headWord' = peekedEnd
  /\ peekedEnd' = None
  /\ delivered' = Append(delivered, RecordAt(found, clen))
  /\ UNCHANGED <<mem, tailWord, producer, cpc, seenTail, op, room, left, pos, found, clen, got, pushed>>

\* The consumer dies and another attaches: what it had not freed is queued.
ConsumerAttach ==
  /\ Crashes
  /\ head' = headWord /\ seenTail' = tailWord
  /\ peekedEnd' = None /\ got' = <<>> /\ cpc' = "idle"
  /\ UNCHANGED <<shared, producer, op, room, left, pos, found, clen, history>>

-----------------------------------------------------------------------------
Produce ==
  \/ FillWindow \/ Abandon \/ StoreSkip \/ StoreLength \/ WritePayload \/ Publish
  \/ \E n \in Lens : TryPush(n)
  \/ \E n \in Reserves : Reserve(n)
  \/ \E n \in Lens \cup Reserves : Commit(n)

Consume ==
  \/ Peek \/ LengthAt \/ CopyOut \/ StoreHead \/ Release
  \/ \E r \in Rooms : TryPop(r) \/ \E b \in Batches : PopBatch(r, b)

Next == Produce \/ Consume \/ ProducerAttach \/ ConsumerAttach

Spec == Init /\ [][Next]_vars
-----------------------------------------------------------------------------
CellType == [len : Int, id : Nat, part : Nat]

\* Every variable has the type the code gives it.
TypeOK ==
  /\ mem \in [Cells -> CellType]
  /\ {tailWord, headWord, tail, seenHead, head, seenTail, pos, found} \subseteq Nat
  /\ ppc \in {"idle", "length", "write", "publish", "reserved", "filled", "commitSkip",
              "commitLength", "commitPublish"}
  /\ cpc \in {"idle", "length", "copy", "store", "panic"}
  /\ reserved \in Nat \cup {None} /\ reservedPad \in 0..Capacity /\ plen \in 0..Capacity
  /\ peekedEnd \in Nat \cup {None}
  /\ op \in {"none", "tryPop", "popBatch", "peek"}
  /\ {room, left, clen} \subseteq Int

\* The words the producer may be writing: from its position to the end of the
\* room it found for the record.
WriteCells ==
  LET n == IF reserved >= 0 THEN reserved ELSE plen
      words == (RecordStart + ringRecordBytes(n) - tail) \div Word
  IN  {CellAt(tail + i * Word) : i \in 0..(words - 1)}

\* The words of the records published and not freed, which the consumer reads.
QueuedCells ==
  {CellAt(headWord + i * Word) : i \in 0..((tailWord - headWord) \div Word - 1)}

\* The producer's plain stores never touch a word the consumer may be reading,
\* although each works from a stale cache of the other's position
\* (ring.ts:294-299, 369-376, 425-431).
NoTrespass == ppc # "idle" => WriteCells \cap QueuedCells = {}

\* A window peek lent holds the oldest record's bytes until release, whatever
\* the producer pushes meanwhile (ring.ts:597-615: "stay the record's until
\* release").
LentIntact ==
  peekedEnd # None =>
    /\ Len(pushed) > Len(delivered)
    /\ RecordAt(found, clen) = pushed[Len(delivered) + 1]

\* The panic of lengthAt ("the ring is corrupt", ring.ts:449-451) is never
\* reached: every position the consumer parses from is a record's or a skip
\* marker's with a record after it.
NeverCorrupt == cpc # "panic"

\* Records stay whole: no store of the producer touches what the consumer may
\* read or was lent, and what it parses is a record (tryPush, reserve, peek,
\* lengthAt).
RecordsIntact == TypeOK /\ NoTrespass /\ LentIntact /\ NeverCorrupt

\* A reservation of at most half the ring, and any tryPush, is refused only
\* while records are queued: an empty ring takes one wherever its position is
\* in the lap and however old the producer's cache is (ring.ts:290-299,
\* 339-342, 364-376).
EmptyRingAccepts ==
  ppc = "idle" /\ tailWord = headWord /\ made < MaxRecords =>
    /\ \A n \in Reserves : ENABLED (Reserve(n) /\ made' = made + 1)
    /\ \A n \in Lens : ENABLED (TryPush(n) /\ made' = made + 1)
=============================================================================
