----------------------------- MODULE QuicBuffers -----------------------------
(***************************************************************************)
(* The buffers the streams of several QUIC connections borrow: a           *)
(* BufferPool (std/net/buffer-pool.ts), the reserve that QuicStreamPools   *)
(* keeps in front of it so that nothing is made while a packet is handled, *)
(* and the borrowing and giving back of the sides of every stream          *)
(* (std/net/quic-stream.ts).  A buffer and its bitmap go together and are  *)
(* one buffer here.  A packet is handled frame by frame; the program acts  *)
(* between packets.                                                        *)
(***************************************************************************)
EXTENDS Integers, Sequences, FiniteSets, FiniteSetsExt, SequencesExt

CONSTANTS
  Conns, Slots,  \* the connections that share the pools, the streams of each
  Buffers,       \* names of the buffers the pool may make: two for each stream
  Size           \* bytes of a buffer, and bound: the bytes of a stream

VARIABLES
  made, free,  \* the pool's buffers, and those given back to it
  ready,       \* the reserve
  dirty,       \* the bytes left in each buffer
  st,          \* the streams
  packet,      \* the connection whose packet is handled, and the receive sides it may still start
  panic        \* why the program stopped

vars == <<made, free, ready, dirty, st, packet, panic>>

None == "none"
Hold == Cardinality(Slots)
Gone == [recv |-> "gone", send |-> "gone", rbuf |-> None, sbuf |-> None, highest |-> 0, end |-> 0, next |-> 0]

Init ==
  /\ made = {} /\ free = <<>> /\ ready = <<>> /\ dirty = [b \in Buffers |-> {}]
  /\ st = [c \in Conns |-> [k \in Slots |-> Gone]]
  /\ packet = [of |-> None, starts |-> 0] /\ panic = "no"

World == [made |-> made, free |-> free, ready |-> ready, dirty |-> dirty, st |-> st, panic |-> panic]

Becomes(w) ==
  /\ made' = w.made /\ free' = w.free /\ ready' = w.ready /\ dirty' = w.dirty /\ st' = w.st /\ panic' = w.panic
-----------------------------------------------------------------------------
\* BufferPool.take(): the worlds with the buffer taken as `b`.
Takes(w) ==
  IF w.free # <<>> THEN {[w |-> [w EXCEPT !.free = Front(@)], b |-> Last(w.free)]}
  ELSE IF w.made = Buffers THEN {[w |-> [w EXCEPT !.panic = "ceiling"], b |-> None]}
  ELSE {[w |-> [w EXCEPT !.made = @ \cup {b}], b |-> b] : b \in Buffers \ w.made}

\* BufferPool.give() of a buffer that keep() has cleared.
Give(w, b) ==
  [w EXCEPT !.free = Append(@, b),
            !.panic = IF Cardinality(w.made) = Len(w.free) THEN "none lent" ELSE @]

\* QuicStreamPools.drain().
Drain(w, most) ==
  LET out == SubSeq(w.ready, most + 1, Len(w.ready))
  IN  [FoldLeft(Give, w, Reverse(out)) EXCEPT !.ready = SubSeq(@, 1, Min({most, Len(@)}))]

\* QuicStreamPools.prime().
Topped(ws) == UNION {{[t.w EXCEPT !.ready = Append(@, t.b)] : t \in Takes(w)} : w \in ws}
Prime(w, need) == FoldLeft(LAMBDA ws, n : Topped(ws), {w}, [n \in 1..Max({0, need - Len(w.ready)}) |-> n])

ReserveRoom == 3 * Hold

\* QuicStreamPools.keep().
Keep(w, b, used) ==
  IF Len(w.ready) >= ReserveRoom THEN [w EXCEPT !.panic = "full"]
  ELSE [w EXCEPT !.dirty[b] = @ \ 0..(used - 1), !.ready = Append(@, b)]

\* giveRecv() and giveSend().
GiveRecv(w, c, k) ==
  LET v == w.st[c][k] IN
  IF v.rbuf = None THEN w ELSE [Keep(w, v.rbuf, Min({v.highest, Size})) EXCEPT !.st[c][k].rbuf = None]

\* Mutant: the side still holds the buffer it gave back.
GiveSend_Kept(w, c, k) ==
  LET v == w.st[c][k] IN
  IF v.sbuf = None THEN w ELSE Keep(w, v.sbuf, Min({v.end, Size}))

GiveSend(w, c, k) ==
  LET v == w.st[c][k] IN
  IF v.sbuf = None THEN w ELSE [Keep(w, v.sbuf, Min({v.end, Size})) EXCEPT !.st[c][k].sbuf = None]

\* release(): a stream whose sides are both done frees its slot.
Release(w, c, k) ==
  IF w.st[c][k].recv # "done" \/ w.st[c][k].send # "done" THEN w
  ELSE [GiveSend(GiveRecv(w, c, k), c, k) EXCEPT !.st[c][k] = Gone]

\* resetSlot().
ResetSlot(w, c, k) ==
  [GiveSend(w, c, k) EXCEPT !.st[c][k].end = w.st[c][k].next, !.st[c][k].send = "reset"]

Opened(w, c, k) == [w EXCEPT !.st[c][k] = [Gone EXCEPT !.recv = "recv", !.send = "send"]]
-----------------------------------------------------------------------------
\* prime(): the receive sides that hold nothing.
Idle(c) == Cardinality({k \in Slots : st[c][k].rbuf = None})

\* openPacket(): a packet of a length that lets it start `most` receive sides.
BeginPacket(c, most) ==
  /\ packet.of = None
  /\ \E w \in Prime(Drain(World, Hold), Min({Idle(c), most})) : Becomes(w)
  /\ packet' = [of |-> c, starts |-> most]

\* onStream(): bytes up to `top`, and the FIN, for a stream open or new.
OnStream(c, k, top, fin) ==
  /\ packet.of = c
  /\ LET w == IF st[c][k] = Gone THEN Opened(World, c, k) ELSE World
         v == w.st[c][k]
         lend == v.rbuf = None /\ top > v.highest
         b == IF lend THEN Last(ready) ELSE v.rbuf
     IN  /\ v.recv = "recv" /\ top >= v.highest
         /\ lend => packet.starts > 0
         /\ packet' = [packet EXCEPT !.starts = IF lend THEN @ - 1 ELSE @]
         /\ IF lend /\ ready = <<>> THEN Becomes([w EXCEPT !.panic = "empty"])
            ELSE Becomes([w EXCEPT !.ready = IF lend THEN Front(@) ELSE @,
                                   !.dirty = IF b = None THEN @ ELSE [@ EXCEPT ![b] = @ \cup v.highest..(top - 1)],
                                   !.st[c][k] = [v EXCEPT !.rbuf = b, !.highest = top, !.recv = IF fin THEN "all" ELSE @]])

\* onReset().
OnReset(c, k) ==
  /\ packet.of = c /\ st[c][k].recv \in {"recv", "all"}
  /\ Becomes([GiveRecv(World, c, k) EXCEPT !.st[c][k].recv = "reset"])
  /\ UNCHANGED packet

\* onStopSending().
OnStopSending(c, k) ==
  /\ packet.of = c /\ st[c][k].send = "send"
  /\ Becomes(ResetSlot(World, c, k))
  /\ UNCHANGED packet

\* chunkAcked() of the last byte, controlAcked() of a reset.
Acked(c, k) ==
  /\ packet.of = c
  /\ \/ st[c][k].send = "send" /\ st[c][k].next = st[c][k].end
     \/ st[c][k].send = "reset"
  /\ LET done == [World EXCEPT !.st[c][k].send = "done"]
     IN  Becomes(Release(IF st[c][k].send = "send" THEN GiveSend(done, c, k) ELSE done, c, k))
  /\ UNCHANGED packet

EndPacket ==
  /\ packet.of # None
  /\ packet' = [of |-> None, starts |-> 0]
  /\ UNCHANGED <<made, free, ready, dirty, st, panic>>
-----------------------------------------------------------------------------
\* open().
Open(c, k) ==
  /\ packet.of = None /\ st[c][k] = Gone
  /\ Becomes(Opened(World, c, k))
  /\ UNCHANGED packet

\* lendSend(): the reserve lends when the pool has nothing left.
FromReserve == free = <<>> /\ made = Buffers /\ ready # <<>>

\* write(): borrowSend(), then a byte.
Write(c, k) ==
  /\ packet.of = None /\ st[c][k].send = "send" /\ st[c][k].end < Size
  /\ LET v == st[c][k] IN
     \E t \in (IF v.sbuf # None THEN {[w |-> World, b |-> v.sbuf]}
               ELSE IF FromReserve THEN {[w |-> [World EXCEPT !.ready = Front(@)], b |-> Last(ready)]}
               ELSE Takes(World)) :
       IF t.b = None THEN Becomes(t.w)
       ELSE Becomes([t.w EXCEPT !.dirty[t.b] = @ \cup {v.end}, !.st[c][k].sbuf = t.b, !.st[c][k].end = @ + 1])
  /\ UNCHANGED packet

\* What was written is sent.
Send(c, k) ==
  /\ packet.of = None /\ st[c][k].next < st[c][k].end
  /\ st' = [st EXCEPT ![c][k].next = st[c][k].end]
  /\ UNCHANGED <<made, free, ready, dirty, packet, panic>>

\* resetStream().
ResetStream(c, k) ==
  /\ packet.of = None /\ st[c][k].send = "send"
  /\ Becomes(ResetSlot(World, c, k))
  /\ UNCHANGED packet

\* read(), of the end or of a reset.
ReadEnd(c, k) ==
  /\ packet.of = None /\ st[c][k].recv \in {"all", "reset"}
  /\ LET w == [World EXCEPT !.st[c][k].recv = "done"]
     IN  Becomes(Release(IF st[c][k].recv = "all" THEN GiveRecv(Drain(w, Hold), c, k) ELSE w, c, k))
  /\ UNCHANGED packet

\* giveBack(), and reset() of the table for the next client.
Reset(c) ==
  /\ packet.of = None /\ st[c] # [k \in Slots |-> Gone]
  /\ LET given == FoldSet(LAMBDA k, w : GiveSend(GiveRecv(w, c, k), c, k), Drain(World, Hold), Slots)
     IN  Becomes([Drain(given, 0) EXCEPT !.st[c] = [k \in Slots |-> Gone]])
  /\ UNCHANGED packet

Next ==
  /\ panic = "no"
  /\ \/ \E c \in Conns, most \in 1..(Hold + 1) : BeginPacket(c, most)
     \/ \E c \in Conns, k \in Slots :
          \/ \E top \in 0..Size, fin \in BOOLEAN : OnStream(c, k, top, fin)
          \/ OnReset(c, k) \/ OnStopSending(c, k) \/ Acked(c, k)
          \/ Open(c, k) \/ Write(c, k) \/ Send(c, k) \/ ResetStream(c, k) \/ ReadEnd(c, k)
     \/ EndPacket
     \/ \E c \in Conns : Reset(c)

Spec == Init /\ [][Next]_vars
-----------------------------------------------------------------------------
Places(b) ==
  {<<"free", i>> : i \in {i \in DOMAIN free : free[i] = b}} \cup {<<"ready", i>> : i \in {i \in DOMAIN ready : ready[i] = b}}
    \cup {<<"recv", x>> : x \in {x \in Conns \X Slots : st[x[1]][x[2]].rbuf = b}}
    \cup {<<"send", x>> : x \in {x \in Conns \X Slots : st[x[1]][x[2]].sbuf = b}}

TypeOK ==
  /\ made \subseteq Buffers /\ {free, ready} \subseteq Seq(Buffers) /\ Len(free) + Len(ready) <= Cardinality(made)
  /\ \A b \in Buffers : dirty[b] \subseteq 0..(Size - 1)
  /\ panic \in {"no", "ceiling", "empty", "full", "none lent"}

\* Every buffer the pool made is in one place: with the pool, in the reserve, or
\* with one side of one stream, of whichever connection (take, give, lend, keep).
OnePlaceEach == panic = "no" => \A b \in Buffers : Cardinality(Places(b)) = IF b \in made THEN 1 ELSE 0

\* A buffer that waits to be lent holds nothing of the stream that had it
\* (keep, giveRecv, giveSend, resetSlot).
CleanWhenLent == panic = "no" => \A b \in ToSet(free) \cup ToSet(ready) : dirty[b] = {}

\* The pools that several connections share do not run out, and a frame of any
\* of them finds the reserve primed (take, prime, lend, lendSend).
NeverExhausted == panic \notin {"ceiling", "empty", "none lent"}

\* What keep's comment says: no more is given back between two drains than the
\* reserve has room for (keep, resetStream).
ReserveHolds == panic # "full"

\* The lending is sound: one place for each buffer, nothing left in it for the
\* next stream, and none missing when a stream or a frame needs one.
LendingSound == TypeOK /\ OnePlaceEach /\ CleanWhenLent /\ NeverExhausted
=============================================================================
