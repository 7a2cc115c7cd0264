---------------------------- MODULE QuicTransfer ----------------------------
(***************************************************************************)
(* One direction of a QUIC stream between two ends that both run           *)
(* std/net/quic-stream.ts: the sending side with its ring of bytes not yet *)
(* acknowledged, the receiving side with its ring of bytes not yet read,   *)
(* and the credit that flows back, for the stream and for the connection.  *)
(* Packets are lost, reordered and wrongly taken for lost.  The programs   *)
(* at the two ends write and read only when an event tells them to.        *)
(*                                                                         *)
(* The byte at offset o of the stream is the number o.  With one stream    *)
(* the totals of the connection are the offsets of the stream.  The        *)
(* BLOCKED frames, which the other end ignores, are left out.              *)
(***************************************************************************)
EXTENDS Integers, FiniteSets, FiniteSetsExt

CONSTANTS
  Size,      \* bytes of the buffer of each side
  Window,    \* the connection's receive window
  Length,    \* bound: the bytes the program writes
  MaxFrame,  \* bound: the bytes of one frame
  Packets,   \* the packets there is room for on the way
  MaxFaults  \* bound: how many packets vanish or are wrongly taken for lost

ASSUME SizeAssumption == {Size, Window, Length, MaxFrame} \subseteq Nat \ {0} /\ MaxFaults \in Nat

VARIABLES
  s, r,      \* the sending and the receiving side
  pk,        \* the packets
  app,       \* the two programs
  faults,    \* how many packets went astray
  error      \* the receiving end closed the connection with an error

vars == <<s, r, pk, app, faults, error>>

None == -1
At(o) == o % Size
Gone == [kind |-> "none", off |-> 0, bytes |-> <<>>, fin |-> FALSE, rec |-> FALSE, wire |-> FALSE, got |-> FALSE]

Init ==
  /\ s = [state |-> "ready", base |-> 0, next |-> 0, end |-> 0, lim |-> Size, conn |-> Window,
          low |-> None, high |-> None, refin |-> FALSE, finQueued |-> FALSE, finSent |-> FALSE, finAcked |-> FALSE,
          acked |-> {}, buf |-> [k \in 0..(Size - 1) |-> None], stopped |-> FALSE, resetOwed |-> FALSE,
          wants |-> FALSE, queued |-> FALSE]
  /\ r = [state |-> "recv", read |-> 0, contig |-> 0, highest |-> 0, final |-> None, lim |-> Size, conn |-> Window,
          have |-> {}, buf |-> [k \in 0..(Size - 1) |-> None], maxOwed |-> FALSE, connOwed |-> FALSE,
          stop |-> FALSE, stopOwed |-> FALSE, queued |-> FALSE]
  /\ pk = [p \in Packets |-> Gone]
  /\ app = [todo |-> Length, reading |-> FALSE, seen |-> 0, told |-> "open"]
  /\ faults = 0 /\ error = FALSE

Sending == s.state \in {"ready", "send", "dataSent"}
Released == r.state \in {"dataRead", "resetRead"}
-----------------------------------------------------------------------------
\* room().
Room == Size - (s.end - s.base)

CanWrite == Sending /\ ~s.finQueued /\ ~s.stopped

\* write(): what is left, with the FIN or without; it is queued once all fits.
Written(fin) ==
  LET n == Min({app.todo, Room})
      all == n = app.todo
  IN  /\ s' = [s EXCEPT !.buf = [k \in DOMAIN @ |-> LET new == {o \in s.end..(s.end + n - 1) : At(o) = k}
                                                    IN  IF new = {} THEN @[k] ELSE Max(new)],
                        !.end = @ + n, !.wants = ~all, !.finQueued = all /\ fin, !.queued = FALSE,
                        !.state = IF n > 0 \/ (all /\ fin) THEN "send" ELSE @]
      /\ app' = [app EXCEPT !.todo = @ - n]

\* The sending program opens the stream, or takes its next event, and writes.
Write ==
  /\ s.state = "ready" \/ s.queued
  /\ CanWrite /\ \E fin \in BOOLEAN : Written(fin)
  /\ UNCHANGED <<r, pk, faults, error>>

\* write() of no bytes: the FIN by itself, of a program that held it back.
Finish ==
  /\ CanWrite /\ s.state = "send" /\ app.todo = 0
  /\ s' = [s EXCEPT !.wants = FALSE, !.finQueued = TRUE]
  /\ UNCHANGED <<r, pk, app, faults, error>>

\* An event with nothing left to write.
SenderEvent ==
  /\ s.queued /\ ~CanWrite /\ s.state \notin {"dataRecvd", "resetRecvd"}
  /\ s' = [s EXCEPT !.queued = FALSE]
  /\ UNCHANGED <<r, pk, app, faults, error>>

\* resetSlot(), of a side that can be reset.
ResetSlot(q) ==
  [q EXCEPT !.end = q.next, !.state = "resetSent", !.resetOwed = TRUE,
            !.low = None, !.high = None, !.refin = FALSE]

\* resetStream().
ResetStream ==
  /\ Sending
  /\ s' = ResetSlot(s)
  /\ UNCHANGED <<r, pk, app, faults, error>>

-----------------------------------------------------------------------------
\* A packet goes out in a free place.
Put(p, kind, off, bytes, fin) ==
  /\ pk[p] = Gone
  /\ pk' = [pk EXCEPT ![p] = [kind |-> kind, off |-> off, bytes |-> bytes, fin |-> fin,
                              rec |-> TRUE, wire |-> TRUE, got |-> FALSE]]

Chunk(off, n) == [k \in 1..n |-> s.buf[At(off + k - 1)]]

\* The first byte to send again, past those acknowledged since; s.high if none.
ResendFrom ==
  LET todo == {o \in Max({s.low, s.base})..(s.high - 1) : At(o) \notin s.acked}
  IN  IF todo = {} THEN s.high ELSE Min(todo)

\* putResend(), bytes.
PutResend(p) ==
  /\ Sending /\ s.low # None /\ ResendFrom < s.high
  /\ LET low == ResendFrom
         want == s.high - low
     IN  \E n \in 1..Min({want, MaxFrame}) :
           LET fin == s.refin /\ n = want /\ low + n = s.end IN
           /\ Put(p, "data", low, Chunk(low, n), fin)
           /\ s' = [s EXCEPT !.low = IF n = want THEN None ELSE low + n, !.high = IF n = want THEN None ELSE @,
                             !.refin = @ /\ ~fin]
  /\ UNCHANGED <<r, app, faults, error>>

NoBytesAgain == s.low = None \/ ResendFrom = s.high

\* putResend(), a lost FIN alone.
PutFin(p) ==
  /\ Sending /\ s.refin /\ NoBytesAgain
  /\ Put(p, "data", s.end, <<>>, TRUE)
  /\ s' = [s EXCEPT !.low = None, !.high = None, !.refin = FALSE]
  /\ UNCHANGED <<r, app, faults, error>>

Allowed == Min({s.end - s.next, s.lim - s.next, s.conn - s.next})

FinNow == s.finQueued /\ ~s.finSent /\ Allowed = s.end - s.next

\* putNew(): new bytes within both credits, and the FIN with the last.
PutNew(p) ==
  /\ Sending /\ ~s.refin /\ NoBytesAgain /\ pk[p] = Gone
  /\ \E n \in 0..Min({Allowed, MaxFrame}) :
       LET fin == FinNow /\ n = Allowed IN
       /\ n > 0 \/ fin
       /\ Put(p, "data", s.next, Chunk(s.next, n), fin)
       /\ s' = [s EXCEPT !.low = None, !.high = None, !.next = @ + n, !.finSent = @ \/ fin,
                         !.state = IF fin THEN "dataSent" ELSE @,
                         !.queued = @ \/ (s.wants /\ Room > 0)]
  /\ UNCHANGED <<r, app, faults, error>>

\* putNextControl() and putStreamControl() at either end.
PutReset(p) ==
  /\ s.state = "resetSent" /\ s.resetOwed
  /\ Put(p, "reset", s.next, <<>>, FALSE)
  /\ s' = [s EXCEPT !.resetOwed = FALSE]
  /\ UNCHANGED <<r, app, faults, error>>

PutControl(p) ==
  /\ \/ r.connOwed /\ Put(p, "conn", r.conn, <<>>, FALSE) /\ r' = [r EXCEPT !.connOwed = FALSE]
     \/ ~Released /\ r.maxOwed /\ Put(p, "max", r.lim, <<>>, FALSE) /\ r' = [r EXCEPT !.maxOwed = FALSE]
     \/ ~Released /\ r.stopOwed /\ Put(p, "stop", 0, <<>>, FALSE) /\ r' = [r EXCEPT !.stopOwed = FALSE]
  /\ UNCHANGED <<s, app, faults, error>>
-----------------------------------------------------------------------------
\* consume(): the connection's credit follows what was read or abandoned.
Consume(q) ==
  IF q.read + Window - q.conn >= Window \div 2
  THEN [q EXCEPT !.conn = q.read + Window, !.connOwed = TRUE] ELSE q

\* creditReceived().
Credit(q, end) == [q EXCEPT !.highest = Max({@, end})]
OverCredit(q, end) == end > q.lim \/ Max({q.highest, end}) > q.conn

\* onStream().
BadStream(end, fin) ==
  \/ r.final # None /\ (end > r.final \/ (fin /\ end # r.final))
  \/ fin /\ end < r.highest
  \/ OverCredit(r, end)

OnStream(m) ==
  LET end == m.off + Cardinality(DOMAIN m.bytes)
      q == Credit(r, end)
      new == {o \in m.off..(end - 1) : o >= q.contig}
      have == q.have \cup {At(o) : o \in new}
      contig == Min({o \in q.contig..q.highest : o = q.highest \/ At(o) \notin have})
      final == IF m.fin THEN end ELSE q.final
  IN  IF q.state \notin {"recv", "sizeKnown"} THEN q
      ELSE [q EXCEPT !.have = have, !.final = final,
                     !.buf = [k \in DOMAIN @ |-> LET o == {x \in new : At(x) = k}
                                                 IN  IF o = {} THEN @[k] ELSE m.bytes[Max(o) - m.off + 1]],
                     !.contig = contig,
                     !.state = IF contig = final THEN "dataRecvd" ELSE IF m.fin THEN "sizeKnown" ELSE @,
                     !.queued = @ \/ contig > q.contig \/ m.fin]

\* onReset().
BadReset(final) == (r.final # None /\ r.final # final) \/ final < r.highest \/ OverCredit(r, final)

OnReset(final) ==
  LET q == [Credit(r, final) EXCEPT !.final = final] IN
  IF q.state = "resetRecvd" THEN q
  ELSE Consume([q EXCEPT !.read = final, !.contig = final, !.state = "resetRecvd",
                         !.maxOwed = FALSE, !.stopOwed = FALSE, !.queued = TRUE])

\* onMaxStreamData(), onMaxData() and onStopSending(), of a stream still open.
OnMax(limit) ==
  IF limit > s.lim THEN [s EXCEPT !.lim = limit, !.queued = @ \/ s.wants \/ s.next < s.end] ELSE s

OnStop ==
  IF s.stopped THEN s
  ELSE [IF Sending THEN ResetSlot(s) ELSE s EXCEPT !.stopped = TRUE, !.queued = TRUE]

Settled(m) == IF m.rec \/ m.wire THEN m ELSE Gone

\* A packet arrives, once.
Deliver(p) ==
  /\ pk[p].wire /\ ~error
  /\ pk' = [pk EXCEPT ![p] = Settled([@ EXCEPT !.wire = FALSE, !.got = TRUE])]
  /\ LET m == pk[p]
         bad == \/ m.kind = "data" /\ BadStream(m.off + Cardinality(DOMAIN m.bytes), m.fin)
                \/ m.kind = "reset" /\ BadReset(m.off)
     IN  /\ r' = CASE m.kind = "data" /\ ~Released /\ ~bad -> OnStream(m)
                   [] m.kind = "reset" /\ ~Released /\ ~bad -> OnReset(m.off)
                   [] OTHER -> r
         /\ s' = CASE m.kind = "conn" -> [s EXCEPT !.conn = Max({@, m.off})]
                   [] m.kind = "max" /\ s.state \notin {"dataRecvd", "resetRecvd"} -> OnMax(m.off)
                   [] m.kind = "stop" /\ s.state \notin {"dataRecvd", "resetRecvd"} -> OnStop
                   [] OTHER -> s
         /\ error' = (bad /\ ~Released)
  /\ UNCHANGED <<app, faults>>

Vanish(p) ==
  /\ pk[p].wire /\ faults < MaxFaults
  /\ pk' = [pk EXCEPT ![p] = Settled([@ EXCEPT !.wire = FALSE])]
  /\ faults' = faults + 1
  /\ UNCHANGED <<s, r, app, error>>
-----------------------------------------------------------------------------
\* Mutant: an acknowledgement moves the base past a hole.
Base_Top(acked, top) == Max({s.base, top})

Base(acked, top) == Min({o \in s.base..s.next : o = s.next \/ At(o) \notin acked})

\* chunkAcked().
ChunkAcked(m) ==
  LET top == Min({m.off + Cardinality(DOMAIN m.bytes), s.end})
      acked == s.acked \cup {At(o) : o \in Max({m.off, s.base})..(top - 1)}
      base == Base(acked, top)
      fin == s.finAcked \/ m.fin
      done == s.state = "dataSent" /\ fin /\ base = s.end
  IN  IF ~Sending THEN s
      ELSE [s EXCEPT !.acked = acked \ {At(o) : o \in s.base..(base - 1)}, !.base = base, !.finAcked = fin,
                     !.state = IF done THEN "dataRecvd" ELSE @,
                     !.queued = @ \/ (~done /\ base > s.base /\ s.wants)]

\* A packet's record is taken out: acknowledged.
Acked(p) ==
  /\ pk[p].rec /\ pk[p].got
  /\ pk' = [pk EXCEPT ![p] = Settled([@ EXCEPT !.rec = FALSE])]
  /\ s' = CASE pk[p].kind = "data" -> ChunkAcked(pk[p])
            [] pk[p].kind = "reset" /\ s.state = "resetSent" -> [s EXCEPT !.state = "resetRecvd"]
            [] OTHER -> s
  /\ UNCHANGED <<r, app, faults, error>>

Merged(low, high) ==
  IF s.low = None THEN [s EXCEPT !.low = low, !.high = high]
  ELSE [s EXCEPT !.low = Min({@, low}), !.high = Max({@, high})]

\* resend().
Resend(m) ==
  LET low == Max({m.off, s.base})
      high == m.off + Cardinality(DOMAIN m.bytes)
      q == IF high > low THEN Merged(low, high) ELSE s
  IN  IF Sending THEN [q EXCEPT !.refin = @ \/ (m.fin /\ ~s.finAcked)] ELSE s

\* Mutant: lost credit is not given again.
MaxAgain_Not == FALSE

\* streamControlLost() of MAX_STREAM_DATA.
MaxAgain == r.state = "recv"

\* Lost, in truth or by mistake: chunkLost(), controlLost().
Lost(p) ==
  /\ pk[p].rec
  /\ faults' = IF pk[p].got \/ pk[p].wire THEN faults + 1 ELSE faults
  /\ faults' <= MaxFaults
  /\ pk' = [pk EXCEPT ![p] = Settled([@ EXCEPT !.rec = FALSE])]
  /\ LET kind == pk[p].kind IN
     /\ s' = CASE kind = "data" -> Resend(pk[p])
               [] kind = "reset" -> [s EXCEPT !.resetOwed = s.state = "resetSent"]
               [] OTHER -> s
     /\ r' = CASE kind = "conn" -> [r EXCEPT !.connOwed = TRUE]
               [] kind = "max" /\ ~Released -> [r EXCEPT !.maxOwed = MaxAgain]
               [] kind = "stop" /\ ~Released -> [r EXCEPT !.stopOwed = r.state \in {"recv", "sizeKnown"}]
               [] OTHER -> r
  /\ UNCHANGED <<app, error>>
-----------------------------------------------------------------------------
\* The next event of the reading program, which then reads till nothing is left.
ReaderEvent ==
  /\ r.queued /\ ~Released
  /\ r' = [r EXCEPT !.queued = FALSE]
  /\ app' = [app EXCEPT !.reading = TRUE]
  /\ UNCHANGED <<s, pk, faults, error>>

\* Mutant: the end is told once the FIN came and nothing is left to read.
AllRead_Now == r.final # None /\ r.read = r.contig

AllRead == r.state = "dataRecvd" /\ r.read = r.final

\* read(), of a stream with something to read or nothing.
ReadBytes ==
  /\ app.reading /\ r.state \in {"recv", "sizeKnown", "dataRecvd"}
  /\ \E n \in 0..(r.contig - r.read) :
       /\ n = 0 => r.contig = r.read /\ ~AllRead
       /\ LET q == [r EXCEPT !.read = @ + n, !.have = @ \ {At(o) : o \in r.read..(r.read + n - 1)}]
              c == IF n > 0 THEN Consume(q) ELSE q
              more == r.state = "recv" /\ c.read + Size - c.lim >= Size \div 2
          IN  /\ r' = IF more THEN [c EXCEPT !.lim = c.read + Size, !.maxOwed = TRUE] ELSE c
              /\ app' = [app EXCEPT !.seen = @ + n, !.reading = n > 0]
  /\ UNCHANGED <<s, pk, faults, error>>

\* read(), past the FIN or of a stream that was reset.
ReadEnd ==
  /\ app.reading
  /\ \/ /\ AllRead
        /\ r' = [r EXCEPT !.state = "dataRead"] /\ app' = [app EXCEPT !.reading = FALSE, !.told = "fin"]
     \/ /\ r.state = "resetRecvd"
        /\ r' = [r EXCEPT !.state = "resetRead"] /\ app' = [app EXCEPT !.reading = FALSE, !.told = "reset"]
  /\ UNCHANGED <<s, pk, faults, error>>

\* stopSending().
StopSending ==
  /\ r.state \in {"recv", "sizeKnown"} /\ ~r.stop
  /\ r' = [r EXCEPT !.stop = TRUE, !.stopOwed = TRUE]
  /\ UNCHANGED <<s, pk, app, faults, error>>

Sends(p) == PutResend(p) \/ PutFin(p) \/ PutNew(p) \/ PutReset(p)
Puts(p) == Sends(p) \/ PutControl(p)
FoundOut(p) == Acked(p) \/ (~pk[p].wire /\ ~pk[p].got /\ Lost(p))

Over == Released /\ s.state \in {"dataRecvd", "resetRecvd"}

Done == Over /\ UNCHANGED vars

Next ==
  \/ Write \/ Finish \/ ResetStream \/ SenderEvent \/ ReaderEvent \/ ReadBytes \/ ReadEnd \/ StopSending \/ Done
  \/ \E p \in Packets : Puts(p) \/ Deliver(p) \/ Vanish(p) \/ Acked(p) \/ Lost(p)

Spec == Init /\ [][Next]_vars

\* The programs answer their events; every end sends what it has room for; a
\* packet arrives or is found to be lost.  Faults are rare enough to end.
FairSpec ==
  /\ Spec /\ WF_vars(Write) /\ WF_vars(Finish) /\ WF_vars(SenderEvent) /\ WF_vars(ReaderEvent) /\ WF_vars(ReadBytes) /\ WF_vars(ReadEnd)
  /\ SF_vars(\E p \in Packets : Sends(p))
  /\ SF_vars(\E p \in Packets : PutControl(p))
  /\ \A p \in Packets : WF_vars(Deliver(p)) /\ WF_vars(FoundOut(p))
-----------------------------------------------------------------------------
Offsets == 0..Length

TypeOK ==
  /\ s.state \in {"ready", "send", "dataSent", "dataRecvd", "resetSent", "resetRecvd"}
  /\ {s.base, s.next, s.end, r.read, r.contig, r.highest, app.todo, app.seen} \subseteq Offsets
  /\ {s.lim, r.lim} \subseteq 0..(Length + Size) /\ {s.conn, r.conn} \subseteq 0..(Length + Window)
  /\ {s.low, s.high, r.final} \subseteq Offsets \cup {None}
  /\ r.state \in {"recv", "sizeKnown", "dataRecvd", "dataRead", "resetRecvd", "resetRead"}
  /\ {s.acked, r.have} \subseteq SUBSET (0..(Size - 1))

\* The two ends never refuse each other: no order of arrival, loss, reset and
\* credit makes onStream or onReset answer an error of flow control or of the
\* final size.
NeverRefused == ~error

\* What the program may read is what was written there: neither end's ring is
\* overwritten before it was acknowledged or read (write, onStream, putResend).
ReadableIntact ==
  r.state \in {"recv", "sizeKnown", "dataRecvd"} =>
    \A o \in r.read..(r.contig - 1) : r.buf[At(o)] = o

Carried(o) == \E p \in Packets : pk[p].rec /\ pk[p].kind = "data" /\ o \in pk[p].off..(pk[p].off + Cardinality(DOMAIN pk[p].bytes) - 1)

\* Every byte sent and not acknowledged is on its way or will be sent again,
\* and so is the FIN (chunkAcked, resend, putResend).
NothingForgotten ==
  Sending =>
    /\ \A o \in s.base..(s.next - 1) : At(o) \in s.acked \/ o \in s.low..(s.high - 1) \/ Carried(o)
    /\ s.finSent /\ ~s.finAcked => s.refin \/ \E p \in Packets : pk[p].rec /\ pk[p].kind = "data" /\ pk[p].fin

\* A sending side is done only when the other end has it all, or was told of
\* the reset (chunkAcked, controlAcked).
DoneIsReceived ==
  /\ s.state = "dataRecvd" => Released \/ (r.state = "dataRecvd" /\ r.final = s.end)
  /\ s.state = "resetRecvd" => Released \/ r.state = "resetRecvd"

\* The two ends stay in step: neither refuses the other, what may be read is
\* what was written, nothing sent is forgotten, and done means received
\* (onStream, write, putResend, chunkAcked).
EndsInStep == TypeOK /\ NeverRefused /\ ReadableIntact /\ NothingForgotten /\ DoneIsReceived

\* Both sides come to an end, whatever was lost on the way: no credit, event or
\* frame that either waits for is forgotten.
BothEnd == <>Over

Promise == INSTANCE StreamPromise WITH
  written <- Length - app.todo, read <- app.seen, told <- app.told,
  closed <- IF s.state \in {"resetSent", "resetRecvd"} THEN "reset" ELSE IF s.finQueued THEN "fin" ELSE "open"

\* The two ends together keep the promise of a stream: in order, the end only
\* after the last byte, a reset only if there was one.
KeepsPromise == Promise!Spec
=============================================================================
