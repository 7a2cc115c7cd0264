---------------------------- MODULE QuicRecovery ----------------------------
(***************************************************************************)
(* Loss recovery of a QUIC server, std/net/quic-recovery.ts, driven as     *)
(* std/net/quic.ts drives it: the packets in flight of the Handshake and   *)
(* the Application Data space, loss by number and by time, the probe       *)
(* timeout, NewReno and the test of ECN.  The peer acknowledges what it    *)
(* receives; packets and acknowledgements are lost and overtake each       *)
(* other, the path marks congestion or clears the marks, and the peer      *)
(* moves to another path.                                                  *)
(*                                                                         *)
(* A ring of sent packets is the sequence of those it keeps, oldest first, *)
(* each with what the caller's row of the same slot says it carried.  The  *)
(* lists of slots acknowledged and lost are read before the next call, so  *)
(* they live inside one action.  The Initial space differs from the        *)
(* Handshake space by an acknowledgement delay of 0 and is left out.       *)
(***************************************************************************)
EXTENDS Integers, Sequences, FiniteSets, FiniteSetsExt, SequencesExt

CONSTANTS
  HandshakeItems, AppItems,        \* what there is to carry, a packet each
  HandshakeCapacity, AppCapacity,  \* the packets a ring keeps
  MaxHandshake, MaxApp,            \* bounds: the packet numbers used
  PacketThreshold, PersistentThreshold, Granularity, InitialRtt, MaxAckDelay, MaxBackoff,
  DatagramSize, InitialWindow, MinimumWindow,
  TestingPackets,                  \* how many packets test ECN
  HandshakeProbes, EarlyResends,
  AckDelays,                       \* what the peer says it held an acknowledgement for
  Paths,                           \* whether a path keeps the ECN marks
  MaxNow, MaxBare, MaxMoves        \* bounds: time, packets that elicit nothing, new paths

ASSUME RecoveryAssumption ==
  /\ {HandshakeCapacity, AppCapacity, Granularity, DatagramSize, InitialWindow, MinimumWindow, HandshakeProbes} \subseteq Nat \ {0}
  /\ {MaxHandshake, MaxApp, PacketThreshold, PersistentThreshold, InitialRtt, MaxAckDelay, MaxBackoff,
      TestingPackets, EarlyResends, MaxNow, MaxBare, MaxMoves} \cup AckDelays \subseteq Nat
  /\ Paths \subseteq BOOLEAN

Hs == "handshake"
App == "application"
Spaces == {Hs, App}
By(h, a) == [s \in Spaces |-> IF s = Hs THEN h ELSE a]
Items == By(HandshakeItems, AppItems)
Capacity == By(HandshakeCapacity, AppCapacity)
MaxPn == By(MaxHandshake, MaxApp)
Ping == "ping"
Unbounded == 1000000

VARIABLES
  now,
  sp,        \* per space: its ring, counters, times and ECN counts
  rtt, cc, ecn, pto, confirmed,
  pending,   \* per space: what is queued to go, for the first time or again
  probes, nextPn, early,
  done,      \* per space: what was acknowledged
  wire,      \* the packets on their way
  peer,      \* per space: the packets received and its ECN counts
  acks,      \* the ACK frames on their way
  path       \* whether the path keeps marks, whether every path so far did, and bounded counts

conn == <<sp, rtt, cc, ecn, pto, confirmed, pending, probes, nextPn, early, done>>
vars == <<now, sp, rtt, cc, ecn, pto, confirmed, pending, probes, nextPn, early, done, wire, peer, acks, path>>

NewPath == [latest |-> 0, smoothed |-> InitialRtt, var |-> InitialRtt \div 2, min |-> 0, first |-> -1]
NewWindow == [window |-> InitialWindow, ssthresh |-> Unbounded, recovery |-> -1, events |-> 0, cause |-> -1]
NewTest == [state |-> "testing", sent |-> 0, recorded |-> 0, lost |-> 0]

Init ==
  /\ now = 0
  /\ sp = [s \in Spaces |-> [ring |-> <<>>, largestAcked |-> -1, lossTime |-> -1, lastEliciting |-> -1,
                             bytes |-> 0, inFlight |-> 0, ectSent |-> 0, ect0 |-> 0, ce |-> 0]]
  /\ rtt = NewPath /\ cc = NewWindow /\ ecn = NewTest /\ pto = 0 /\ confirmed = FALSE
  /\ pending = Items /\ done = By({}, {})
  /\ probes = By(0, 0) /\ nextPn = By(0, 0) /\ early = 0
  /\ wire = {} /\ acks = {}
  /\ peer = [s \in Spaces |-> [got |-> {}, ect0 |-> 0, ce |-> 0]]
  /\ path \in {[keeps |-> b, kept |-> b, moves |-> 0, bare |-> 0] : b \in Paths}

Discarded(s) == s = Hs /\ confirmed
-----------------------------------------------------------------------------
(* The ring of a space. *)

Sent(q) == {k \in DOMAIN q.ring : q.ring[k].st = "sent"}

\* Mutant: a settled packet frees every slot before its own.
Compact_Past(q) ==
  LET settled == DOMAIN q.ring \ Sent(q)
  IN [q EXCEPT !.ring = IF settled = {} THEN @ ELSE SubSeq(@, Max(settled) + 1, Len(@))]

\* compact(): the oldest packets go once they are settled.
Compact(q) == [q EXCEPT !.ring = IF Sent(q) = {} THEN <<>> ELSE SubSeq(@, Min(Sent(q)), Len(@))]

Full(s) == Len(Compact(sp[s]).ring) >= Capacity[s]

Bytes(q, K) == MapThenSumSet(LAMBDA k : q.ring[k].size, K)

\* settle() for the packets at the places of K.
Settle(q, K, st) ==
  [q EXCEPT !.ring = [k \in DOMAIN @ |-> IF k \in K THEN [@[k] EXCEPT !.st = st] ELSE @[k]],
            !.inFlight = @ - Cardinality(K),
            !.bytes = @ - Bytes(q, K)]

\* clear().
Clear(q) == [q EXCEPT !.ring = <<>>, !.bytes = 0, !.inFlight = 0, !.lossTime = -1, !.lastEliciting = -1]

Carried(q, K) == {q.ring[k].item : k \in K} \ {Ping}

\* What queues again: a stream sends no byte again that was acknowledged,
\* CRYPTO data does.
Again(s, I) == IF s = App THEN I \ done[s] ELSE I
-----------------------------------------------------------------------------
(* The estimate of the round trip, and the window. *)

UpdateRtt(latest, delay) ==
  LET low      == Min({rtt.min, latest})
      bounded  == IF confirmed THEN Min({delay, MaxAckDelay}) ELSE delay
      adjusted == IF latest >= low + bounded THEN latest - bounded ELSE latest
      gap      == Max({rtt.smoothed - adjusted, adjusted - rtt.smoothed})
  IN IF rtt.first < 0
     THEN [latest |-> latest, smoothed |-> latest, var |-> latest \div 2, min |-> latest, first |-> now]
     ELSE [latest |-> latest, smoothed |-> (7 * rtt.smoothed + adjusted) \div 8,
           var |-> (3 * rtt.var + gap) \div 4, min |-> low, first |-> rtt.first]

LossDelay(r) == Max({(9 * Max({r.latest, r.smoothed})) \div 8, Granularity})
PtoBase(r) == r.smoothed + Max({4 * r.var, Granularity})

InFlightBytes == sp[Hs].bytes + sp[App].bytes
CanSend == InFlightBytes + DatagramSize <= cc.window

\* Mutant: each batch of lost packets halves the window.
InRecovery_Never(c, at) == FALSE

InRecovery(c, at) == c.recovery >= 0 /\ at <= c.recovery

\* congestionEvent(), for a packet sent at at, after cause halvings of the window.
CongestionEvent(c, at, cause) ==
  IF InRecovery(c, at) THEN c
  ELSE [c EXCEPT !.recovery = now, !.ssthresh = c.window \div 2, !.window = Max({c.window \div 2, MinimumWindow}),
                 !.events = @ + 1, !.cause = cause]

\* packetAcked(): the window w after the acknowledgement of p.
Grow(c, w, p) ==
  IF InRecovery(c, p.at) THEN w
  ELSE w + IF w < c.ssthresh THEN p.size ELSE (DatagramSize * p.size) \div w

\* The window after the packets at the places of K, in their order.
Grown(c, q, K) == FoldLeft(LAMBDA w, k : Grow(c, w, q.ring[k]), c.window, SetToSortSeq(K, <))

\* persistentCongestion(): a run of lost packets, some of them the ones of L,
\* with none acknowledged among them, all sent since the first sample.
PersistentCongestion(q, L, r) ==
  /\ r.first >= 0
  /\ \E i, j \in DOMAIN q.ring :
       /\ i <= j /\ q.ring[i].st = "lost" /\ q.ring[j].st = "lost"
       /\ L \cap (i..j) # {}
       /\ \A k \in i..j : q.ring[k].st # "acked" /\ (q.ring[k].st = "lost" => q.ring[k].at >= r.first)
       /\ q.ring[j].at - q.ring[i].at > (PtoBase(r) + MaxAckDelay) * PersistentThreshold
-----------------------------------------------------------------------------
(* ECN. *)

Codepoint == ecn.state = "capable" \/ (ecn.state = "testing" /\ ecn.sent < TestingPackets)

\* onEctSent(), after a packet that was recorded or was not.
EctSent(marked, recorded) ==
  IF ~marked \/ ecn.state \notin {"testing", "unknown"} THEN ecn
  ELSE [ecn EXCEPT !.sent = @ + 1, !.recorded = IF recorded THEN @ + 1 ELSE @,
                   !.state = IF ecn.sent + 1 >= TestingPackets THEN "unknown" ELSE @]

\* An ACK without counts must not acknowledge a marked packet.
Plain(marked) == IF marked > 0 THEN "failed" ELSE ecn.state

\* processEcn(), K being newly acknowledged; a peer that counted nothing
\* sends an ACK without counts.
ProcessEcn(q, K, a, raised, later) ==
  LET marked == Cardinality({k \in K : q.ring[k].marked})
      newest == q.ring[Max(K)]
      counted == a.ect0 + a.ce # 0
      same   == [e |-> ecn, q |-> q, c |-> cc]
      failed == [same EXCEPT !.e.state = "failed"]
      wrong  == \/ a.ect0 < q.ect0 \/ a.ce < q.ce
                \/ a.ect0 > q.ectSent \/ a.ce > q.ectSent - a.ect0
                \/ a.ect0 - q.ect0 + (a.ce - q.ce) < marked
  IN CASE ecn.state = "failed" \/ (counted /\ ~raised)          -> same
       [] ecn.state # "failed" /\ ~counted                      -> [same EXCEPT !.e.state = Plain(marked)]
       [] ecn.state # "failed" /\ counted /\ raised /\ wrong    -> failed
       [] OTHER ->
            [e |-> IF marked > 0 THEN [ecn EXCEPT !.state = "capable"] ELSE ecn,
             q |-> [q EXCEPT !.ect0 = a.ect0, !.ce = a.ce],
             c |-> IF a.ce <= q.ce THEN cc
                   ELSE IF K = {} THEN CongestionEvent(cc, later, -1)
                   ELSE CongestionEvent(cc, newest.at, newest.ev)]
-----------------------------------------------------------------------------
(* Loss. *)

\* detectLoss(): the packets lost by number or by time, ...
DetectLoss(q, r) ==
  {k \in Sent(q) : /\ q.ring[k].pn <= q.largestAcked
                   /\ \/ q.ring[k].at <= now - LossDelay(r)
                      \/ q.largestAcked >= q.ring[k].pn + PacketThreshold}

\* ... and when the next one will be.
LossTime(q, r) ==
  LET due == {q.ring[k].at + LossDelay(r) : k \in {x \in Sent(q) : q.ring[x].pn <= q.largestAcked}}
  IN IF due = {} THEN -1 ELSE Min(due)

\* packetsLost(): the test of ECN, the window.
EcnLost(e, q, L) ==
  LET n == [e EXCEPT !.lost = @ + IF e.state = "capable" THEN 0 ELSE Cardinality({k \in L : q.ring[k].marked})]
  IN IF L # {} /\ n.state = "unknown" /\ n.recorded > 0 /\ n.lost >= n.recorded THEN [n EXCEPT !.state = "failed"] ELSE n

WindowLost(c, q, L, r) ==
  LET newest == Max({q.ring[k].at : k \in L})
      cause  == Max({q.ring[k].ev : k \in {x \in L : q.ring[x].at = newest}})
      halved == CongestionEvent(c, newest, cause)
  IN IF L = {} THEN c
     ELSE IF PersistentCongestion(q, L, r) THEN [halved EXCEPT !.window = MinimumWindow, !.recovery = -1]
     ELSE halved

\* The caller queues again what the lost packets carried.
Requeued(s, q, L) == pending[s] \cup Again(s, Carried(q, L))
-----------------------------------------------------------------------------
(* The server sends. *)

Recorded(q, p) ==
  [q EXCEPT !.ring = Append(@, p), !.inFlight = @ + 1, !.bytes = @ + p.size, !.lastEliciting = now,
            !.ectSent = IF p.marked THEN @ + 1 ELSE @]

OnWire(s, marked, elicits) == [s |-> s, pn |-> nextPn[s], mark |-> marked /\ path.keeps, elicits |-> elicits]

\* evictOldest(): compacted, the oldest packet kept is the oldest in flight.
EvictOldest(q) == Compact(Settle(q, {1}, "lost"))

\* buildDatagram(), recordSent(): one ack-eliciting packet.  A probe goes
\* whatever the window says, into a full ring in place of the oldest packet.
Send(s) ==
  LET q     == Compact(sp[s])
      evict == probes[s] > 0 /\ Full(s)
      queue == IF evict THEN Requeued(s, q, {1}) ELSE pending[s]
  IN /\ ~Discarded(s) /\ nextPn[s] < MaxPn[s]
     /\ probes[s] > 0 \/ (CanSend /\ ~Full(s))
     /\ \E item \in IF queue = {} /\ probes[s] > 0 THEN {Ping} ELSE queue :
          LET p    == [pn |-> nextPn[s], at |-> now, size |-> IF item = Ping THEN 1 ELSE DatagramSize,
                       st |-> "sent", marked |-> Codepoint, item |-> item, ev |-> cc.events]
              rest == queue \ {item}
          IN /\ sp' = [sp EXCEPT ![s] = Recorded(IF evict THEN EvictOldest(q) ELSE q, p)]
             /\ pending' = [pending EXCEPT ![s] = IF probes[s] > 1 /\ rest = {} THEN {item} \ {Ping} ELSE rest]
             /\ probes' = [probes EXCEPT ![s] = Max({@ - 1, 0})]
             /\ ecn' = EctSent(p.marked, TRUE)
             /\ wire' = wire \cup {OnWire(s, p.marked, TRUE)}
     /\ nextPn' = [nextPn EXCEPT ![s] = @ + 1]
     /\ UNCHANGED <<now, rtt, cc, pto, confirmed, early, done, peer, acks, path>>

\* A packet that carries only an ACK is numbered and marked, not recorded.
SendBare(s) ==
  /\ ~Discarded(s) /\ nextPn[s] < MaxPn[s] /\ path.bare < MaxBare
  /\ nextPn' = [nextPn EXCEPT ![s] = @ + 1]
  /\ sp' = [sp EXCEPT ![s].ectSent = IF Codepoint THEN @ + 1 ELSE @]
  /\ ecn' = EctSent(Codepoint, FALSE)
  /\ wire' = wire \cup {OnWire(s, Codepoint, FALSE)}
  /\ path' = [path EXCEPT !.bare = @ + 1]
  /\ UNCHANGED <<now, rtt, cc, pto, confirmed, pending, probes, early, done, peer, acks>>
-----------------------------------------------------------------------------
(* The server receives an ACK frame: receiveAck(), onAckEcn(). *)

OnAck(a, delay) ==
  LET s      == a.s
      q0     == Compact(sp[s])
      raised == Max(a.pns) > q0.largestAcked
      K      == {k \in Sent(q0) : q0.ring[k].pn \in a.pns}
      above  == {k \in DOMAIN q0.ring : q0.ring[k].pn > Max(a.pns)}
      later  == IF above = {} THEN now ELSE q0.ring[Min(above)].at
      q1     == [Settle(q0, K, "acked") EXCEPT !.largestAcked = Max({@} \cup a.pns)]
      sample == {k \in K : q0.ring[k].pn = Max(a.pns)}
      r      == IF sample = {} THEN rtt ELSE UpdateRtt(Max({now - q0.ring[Max(sample)].at, 0}), delay)
      x      == ProcessEcn(q1, K, a, raised, later)
      L      == DetectLoss(x.q, r)
      q2     == Settle(x.q, L, "lost")
      c      == WindowLost(x.c, q2, L, r)
  IN /\ a \in acks /\ ~Discarded(s)
     /\ acks' = acks \ {a}
     /\ IF K = {}
        THEN /\ sp' = [sp EXCEPT ![s] = IF raised THEN x.q ELSE q1]
             /\ ecn' = IF raised THEN x.e ELSE ecn
             /\ cc' = IF raised THEN x.c ELSE cc
             /\ UNCHANGED <<rtt, pto, pending, done>>
        ELSE /\ sp' = [sp EXCEPT ![s] = [q2 EXCEPT !.lossTime = LossTime(q2, r)]]
             /\ rtt' = r
             /\ ecn' = EcnLost(x.e, q2, L)
             /\ cc' = IF InFlightBytes * 2 >= cc.window THEN [c EXCEPT !.window = Grown(c, q1, K)] ELSE c
             /\ pto' = 0
             /\ done' = [done EXCEPT ![s] = @ \cup Carried(q0, K)]
             /\ pending' = [pending EXCEPT ![s] =
                              IF s = App THEN Requeued(s, q2, L) \ Carried(q0, K) ELSE Requeued(s, q2, L)]
     /\ UNCHANGED <<now, confirmed, probes, nextPn, early, wire, peer, path>>
-----------------------------------------------------------------------------
(* The timer. *)

\* The space of S with the earliest time, the first of two equal ones.
Earliest(S, t) == IF App \notin S \/ (Hs \in S /\ t[Hs] <= t[App]) THEN Hs ELSE App

LossTimes == [s \in Spaces |-> sp[s].lossTime]
LossSpaces == {s \in Spaces : LossTimes[s] >= 0}

\* ptoTimeOf().
PtoTimes ==
  [s \in Spaces |-> IF sp[s].lastEliciting < 0 THEN -1
                    ELSE sp[s].lastEliciting + (PtoBase(rtt) + IF s = App THEN MaxAckDelay ELSE 0) * 2^pto]

\* ptoSpace(): the Application Data space waits for the handshake.
PtoSpaces == {s \in Spaces : sp[s].inFlight > 0 /\ (s = App => confirmed)}

\* deadline(), the peer's address being validated.
Deadline ==
  IF LossSpaces # {} THEN LossTimes[Earliest(LossSpaces, LossTimes)]
  ELSE IF PtoSpaces # {} THEN PtoTimes[Earliest(PtoSpaces, PtoTimes)]
  ELSE -1

\* onTimeout() when packets may be lost by time.
LossTimeout ==
  /\ LossSpaces # {} /\ Deadline <= now
  /\ LET s  == Earliest(LossSpaces, LossTimes)
         q0 == Compact(sp[s])
         L  == DetectLoss(q0, rtt)
         q  == Settle(q0, L, "lost")
     IN /\ sp' = [sp EXCEPT ![s] = [q EXCEPT !.lossTime = LossTime(q, rtt)]]
        /\ ecn' = EcnLost(ecn, q, L)
        /\ cc' = WindowLost(cc, q, L, rtt)
        /\ pending' = [pending EXCEPT ![s] = Requeued(s, q, L)]
  /\ UNCHANGED <<now, rtt, pto, confirmed, probes, nextPn, early, done, wire, peer, acks, path>>

\* onTimeout() as a probe timeout, and probe(): every space with packets in
\* flight queues what they carry again, and owes probes.
ProbeTimeout ==
  /\ LossSpaces = {} /\ Deadline >= 0 /\ Deadline <= now
  /\ pto' = Min({pto + 1, MaxBackoff})
  /\ pending' = [s \in Spaces |-> Requeued(s, sp[s], Sent(sp[s]))]
  /\ probes' = [s \in Spaces |-> IF sp[s].inFlight = 0 THEN probes[s] ELSE IF s = Hs THEN HandshakeProbes ELSE 1]
  /\ UNCHANGED <<now, sp, rtt, cc, ecn, confirmed, nextPn, early, done, wire, peer, acks, path>>

\* resendEarly(): the peer shows that it lacks the handshake's data.
ResendEarly ==
  /\ early < EarlyResends /\ ~Discarded(Hs) /\ probes[Hs] = 0 /\ sp[Hs].inFlight > 0
  /\ LET q == Compact(sp[Hs])
     IN /\ q.ring[1].item # Ping
        /\ sp' = [sp EXCEPT ![Hs] = q]
        /\ pending' = [pending EXCEPT ![Hs] = @ \cup {q.ring[1].item}]
  /\ probes' = [probes EXCEPT ![Hs] = 1]
  /\ early' = early + 1
  /\ UNCHANGED <<now, rtt, cc, ecn, pto, confirmed, nextPn, done, wire, peer, acks, path>>

\* The handshake is confirmed: discard(), discardSpace() of its space.  What
\* is on its way there has no reader any more.
Confirm ==
  /\ ~confirmed /\ confirmed' = TRUE
  /\ sp' = [sp EXCEPT ![Hs] = Clear(@)]
  /\ pto' = 0
  /\ pending' = [pending EXCEPT ![Hs] = {}]
  /\ probes' = [probes EXCEPT ![Hs] = 0]
  /\ wire' = {p \in wire : p.s # Hs} /\ acks' = {a \in acks : a.s # Hs}
  /\ UNCHANGED <<now, rtt, cc, ecn, nextPn, early, done, peer, path>>

\* pathConfirmed(): resetPath() unless only the port changed, restartEcn().
PathConfirmed(portOnly, keeps) ==
  /\ confirmed /\ path.moves < MaxMoves
  /\ path' = [path EXCEPT !.keeps = keeps, !.kept = @ /\ keeps, !.moves = @ + 1]
  /\ rtt' = IF portOnly THEN rtt ELSE NewPath
  /\ cc' = IF portOnly THEN cc
           ELSE [cc EXCEPT !.window = InitialWindow, !.ssthresh = Unbounded, !.recovery = -1]
  /\ sp' = [s \in Spaces |-> [sp[s] EXCEPT !.ring = [k \in DOMAIN @ |-> [@[k] EXCEPT !.marked = FALSE]]]]
  /\ ecn' = NewTest
  /\ UNCHANGED <<now, pto, confirmed, pending, probes, nextPn, early, done, wire, peer, acks>>
-----------------------------------------------------------------------------
(* The peer, the path and time.  A packet or an ACK that stays on the way  *)
(* is lost.                                                                *)

PeerReceives(p, ce) ==
  LET n == [got  |-> peer[p.s].got \cup {p.pn},
            ect0 |-> peer[p.s].ect0 + IF p.mark /\ ~ce THEN 1 ELSE 0,
            ce   |-> peer[p.s].ce + IF p.mark /\ ce THEN 1 ELSE 0]
  IN /\ ce => p.mark
     /\ wire' = wire \ {p}
     /\ peer' = [peer EXCEPT ![p.s] = n]
     /\ acks' = IF p.elicits THEN acks \cup {[s |-> p.s, pns |-> n.got, ect0 |-> n.ect0, ce |-> n.ce]} ELSE acks
     /\ UNCHANGED <<now, conn, path>>

Tick == now < MaxNow /\ now' = now + 1 /\ UNCHANGED <<conn, wire, peer, acks, path>>

Next ==
  \/ \E s \in Spaces : Send(s) \/ SendBare(s)
  \/ \E a \in acks, delay \in AckDelays : OnAck(a, delay)
  \/ LossTimeout \/ ProbeTimeout \/ ResendEarly \/ Confirm
  \/ \E portOnly \in BOOLEAN, keeps \in Paths : PathConfirmed(portOnly, keeps)
  \/ \E p \in wire, ce \in BOOLEAN : PeerReceives(p, ce)
  \/ Tick

Spec == Init /\ [][Next]_vars
-----------------------------------------------------------------------------
Packet == [pn : Nat, at : Nat, size : Nat, st : {"sent", "acked", "lost"}, marked : BOOLEAN,
           item : AppItems \cup HandshakeItems \cup {Ping}, ev : Nat]

(* Types; a ring is in packet-number order, what detectLoss and onAckEcn   *)
(* break off their walks on, and the window never sinks below its minimum. *)
TypeOK ==
  /\ now \in 0..MaxNow /\ confirmed \in BOOLEAN /\ pto \in 0..MaxBackoff
  /\ \A s \in Spaces :
       /\ \A k \in DOMAIN sp[s].ring : sp[s].ring[k] \in Packet
       /\ \A k \in DOMAIN sp[s].ring : k > 1 => sp[s].ring[k - 1].pn < sp[s].ring[k].pn
       /\ Len(sp[s].ring) <= Capacity[s]
       /\ pending[s] \subseteq Items[s] /\ done[s] \subseteq Items[s] /\ probes[s] \in 0..HandshakeProbes
  /\ cc.window >= MinimumWindow /\ ecn.state \in {"testing", "unknown", "capable", "failed"}

(* The counters a space keeps, by which canSend and ptoSpace decide, are   *)
(* those of the packets in its ring neither acknowledged nor lost, after   *)
(* acknowledgements, losses, evictions and a discarded space.              *)
Accounting ==
  \A s \in Spaces : /\ sp[s].inFlight = Cardinality(Sent(sp[s]))
                    /\ sp[s].bytes = Bytes(sp[s], Sent(sp[s]))

(* What is not acknowledged is queued, or in a packet in flight for which  *)
(* deadline answers a time: receiveAck, probe, evictOldest and the time    *)
(* threshold leave nothing behind that no timer would find.                *)
NothingStranded ==
  \A s \in Spaces : \A i \in Items[s] \ done[s] :
    ~Discarded(s) => \/ i \in pending[s]
                     \/ /\ i \in Carried(sp[s], Sent(sp[s]))
                        /\ (s = App => confirmed) => Deadline >= 0

(* While a recovery period lasts, congestionEvent halves the window again  *)
(* only for a packet sent after it last did, so one flight of lost or      *)
(* marked packets halves it once however late its losses are found.  (A    *)
(* rise in ECN-CE that comes with no newly acknowledged packet is timed    *)
(* by guess, and exempt.)                                                  *)
HalvedOncePerFlight ==
  [][cc'.events > cc.events /\ cc.recovery >= 0 /\ cc'.cause >= 0 => cc'.cause = cc.events]_vars

(* processEcn never fails a path that keeps marks for what it reads in the *)
(* ACKs of an honest peer, however those are lost and reordered: only the  *)
(* loss of every packet of the test does.                                  *)
HonestPathNotFailed == path.kept /\ ecn.state = "failed" => ecn.recorded > 0 /\ ecn.lost >= ecn.recorded

(* Recovery is sound: its counters are right, nothing sent is beyond the   *)
(* reach of its timers, and no honest path is given up (receiveAck,        *)
(* detectLost, deadline, processEcn).                                      *)
Recovers == TypeOK /\ Accounting /\ NothingStranded /\ HonestPathNotFailed
=============================================================================
