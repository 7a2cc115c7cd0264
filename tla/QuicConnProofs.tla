--------------------------- MODULE QuicConnProofs ---------------------------
(***************************************************************************)
(* Proofs about QUIC connections, for any number of packets, connection    *)
(* IDs and any times: one flight of lost or marked packets halves the      *)
(* congestion window once, and a client is never refused an ID it was      *)
(* given.                                                                  *)
(***************************************************************************)
EXTENDS MCQuicConn, FiniteSetTheorems, SequenceTheorems, WellFoundedInduction, TLAPS

\* A packet of a ring, n being the time and c the window.  Of those sent after
\* the last halving each remembers that halving, as long as its period lasts.
Fresh(p, c, n) ==
  /\ p = [pn |-> p.pn, at |-> p.at, size |-> p.size, st |-> p.st, marked |-> p.marked,
          item |-> p.item, ev |-> p.ev]
  /\ p.at \in 0..n /\ p.ev \in 0..c.events
  /\ c.recovery >= 0 /\ p.at > c.recovery => p.ev = c.events

Flown(q, c, n) ==
  /\ q = [ring |-> q.ring, largestAcked |-> q.largestAcked, lossTime |-> q.lossTime,
          lastEliciting |-> q.lastEliciting, bytes |-> q.bytes, inFlight |-> q.inFlight,
          ectSent |-> q.ectSent, ect0 |-> q.ect0, ce |-> q.ce]
  /\ \E S : q.ring \in Seq(S)
  /\ \A k \in DOMAIN q.ring : Fresh(q.ring[k], c, n)

\* The window: the period it is in began in the past.
IsWindow(c, n) ==
  /\ c = [window |-> c.window, ssthresh |-> c.ssthresh, recovery |-> c.recovery,
          events |-> c.events, cause |-> c.cause]
  /\ c.recovery \in -1..n /\ c.events \in Nat /\ c.cause \in Int

\* The inductive invariant.
FlightInv ==
  /\ now \in Nat /\ IsWindow(cc, now)
  /\ sp = [s \in Spaces |-> sp[s]] /\ \A s \in Spaces : Flown(sp[s], cc, now)

\* What a step does to the window: at most one halving, for a packet that
\* remembers the one before, or for an ECN-CE timed by guess.
Once(c, d) ==
  /\ IsWindow(d, now)
  /\ \/ d.events = c.events /\ d.cause = c.cause /\ d.recovery \in {c.recovery, -1}
     \/ /\ d.events = c.events + 1 /\ d.recovery \in {now, -1}
        /\ c.recovery >= 0 /\ d.cause >= 0 => d.cause = c.events
-----------------------------------------------------------------------------
\* A set of natural numbers that is not empty has a least member.
LEMMA LeastExists ==
  ASSUME NEW S \in SUBSET Nat, S # {}
  PROVE  \E x \in S : \A y \in S : x <= y
<1> DEFINE R == OpToRel(<, Nat)
<1>1. PICK x \in S : \A y \in S : ~(<<y, x>> \in R)
      BY NatLessThanWellFounded, WFMin
<1>2. \A y \in S : x <= y
  <2> SUFFICES ASSUME NEW y \in S PROVE x <= y
      OBVIOUS
  <2>1. ~(y < x)
        BY <1>1 DEF OpToRel
  <2> QED BY <2>1, SMT
<1> QED BY <1>2

\* Min of such a set is one of its members.
LEMMA MinIsMember ==
  ASSUME NEW S \in SUBSET Nat, S # {}
  PROVE  Min(S) \in S
BY LeastExists DEF Min

\* A bounded set has a largest member: the one closest to the bound.
LEMMA MaxIsMember ==
  ASSUME NEW n \in Nat, NEW S \in SUBSET (0..n), S # {}
  PROVE  Max(S) \in S
<1> DEFINE T == {n - x : x \in S}
<1>1. T \in SUBSET Nat /\ T # {}
  <2>1. \A x \in S : x \in 0..n /\ n - x \in Nat
        OBVIOUS
  <2> QED BY <2>1
<1>2. PICK t \in T : \A u \in T : t <= u
      BY <1>1, LeastExists
<1>3. PICK x \in S : t = n - x
      OBVIOUS
<1>4. \A y \in S : x >= y
  <2> SUFFICES ASSUME NEW y \in S PROVE x >= y
      OBVIOUS
  <2>1. n - x <= n - y
        BY <1>2, <1>3
  <2> QED BY <2>1
<1> QED BY <1>4 DEF Max
-----------------------------------------------------------------------------
\* What compact(), settle() and the others do to a ring: packets go, or change
\* their state; when they were sent stays.
LEMMA CompactFlown ==
  ASSUME NEW q, NEW c, NEW n, Flown(q, c, n)
  PROVE  Flown(Compact(q), c, n)
<1>1. PICK S : q.ring \in Seq(S)
      BY DEF Flown
<1>2. DOMAIN q.ring = 1..Len(q.ring) /\ Len(q.ring) \in Nat
      BY <1>1
<1>3. Sent(q) \in SUBSET Nat /\ Sent(q) \subseteq DOMAIN q.ring
      BY <1>2 DEF Sent
<1>4. PICK r : r = IF Sent(q) = {} THEN <<>> ELSE SubSeq(q.ring, Min(Sent(q)), Len(q.ring))
      OBVIOUS
<1>5. r \in Seq(S) /\ \A k \in DOMAIN r : \E j \in DOMAIN q.ring : r[k] = q.ring[j]
  <2>1. CASE Sent(q) = {}
        BY <1>4, <2>1
  <2>2. CASE Sent(q) # {}
    <3>1. PICK m : m = Min(Sent(q))
          OBVIOUS
    <3>2. m \in 1..Len(q.ring) /\ r = SubSeq(q.ring, m, Len(q.ring))
          BY <1>2, <1>3, <1>4, <2>2, <3>1, MinIsMember
    <3>3. r \in Seq(S) /\ Len(r) = Len(q.ring) - m + 1 /\ \A k \in 1..Len(r) : r[k] = q.ring[m + k - 1]
          BY <1>1, <1>2, <3>2
    <3>4. \A k \in DOMAIN r : m + k - 1 \in DOMAIN q.ring
          BY <1>2, <3>2, <3>3
    <3> QED BY <3>3, <3>4
  <2> QED BY <2>1, <2>2
<1>6. Compact(q) = [q EXCEPT !.ring = r]
      BY <1>4 DEF Compact
<1> QED BY <1>5, <1>6 DEF Flown

\* Settling packets changes neither when a packet was sent nor how many
\* halvings there had been by then.
LEMMA SettleFlown ==
  ASSUME NEW q, NEW c, NEW n, Flown(q, c, n), NEW K, NEW st
  PROVE  /\ Flown(Settle(q, K, st), c, n)
         /\ DOMAIN Settle(q, K, st).ring = DOMAIN q.ring
         /\ \A k \in DOMAIN q.ring : /\ Settle(q, K, st).ring[k].at = q.ring[k].at
                                     /\ Settle(q, K, st).ring[k].ev = q.ring[k].ev
<1>1. PICK S : q.ring \in Seq(S)
      BY DEF Flown
<1>2. DOMAIN q.ring = 1..Len(q.ring) /\ Len(q.ring) \in Nat
      BY <1>1
<1>3. PICK r : r = [k \in DOMAIN q.ring |-> IF k \in K THEN [q.ring[k] EXCEPT !.st = st] ELSE q.ring[k]]
      OBVIOUS
<1>4. \E T : r \in Seq(T)
  <2>1. r \in [1..Len(q.ring) -> {r[k] : k \in DOMAIN r}]
        BY <1>2, <1>3
  <2> QED BY <1>2, <2>1, SeqDef
<1>5. \A k \in DOMAIN r : k \in DOMAIN q.ring /\ Fresh(r[k], c, n) /\ r[k].at = q.ring[k].at /\ r[k].ev = q.ring[k].ev
  <2> SUFFICES ASSUME NEW k \in DOMAIN q.ring
               PROVE  Fresh(r[k], c, n) /\ r[k].at = q.ring[k].at /\ r[k].ev = q.ring[k].ev
      BY <1>3
  <2>1. Fresh(q.ring[k], c, n)
        BY DEF Flown
  <2>2. r[k] = q.ring[k] \/ r[k] = [q.ring[k] EXCEPT !.st = st]
        BY <1>3
  <2> QED BY <2>1, <2>2 DEF Fresh
<1>6. PICK i, b : Settle(q, K, st) = [q EXCEPT !.ring = r, !.inFlight = i, !.bytes = b]
      BY <1>3 DEF Settle
<1>7. Flown(Settle(q, K, st), c, n) /\ Settle(q, K, st).ring = r
      BY <1>4, <1>5, <1>6 DEF Flown
<1> QED BY <1>3, <1>5, <1>7
-----------------------------------------------------------------------------
\* A window left alone has not been halved again.
LEMMA SameOnce ==
  ASSUME now \in Nat, NEW c, IsWindow(c, now)
  PROVE  Once(c, c)
BY DEF Once

\* The rings after a step of the window: a halving now is later than, or as
\* late as, everything in flight.
LEMMA OnceFlown ==
  ASSUME now \in Nat, NEW c, NEW d, NEW q, IsWindow(c, now), Once(c, d), Flown(q, c, now)
  PROVE  Flown(q, d, now)
<1>1. \A k \in DOMAIN q.ring : Fresh(q.ring[k], d, now)
  <2> SUFFICES ASSUME NEW k \in DOMAIN q.ring PROVE Fresh(q.ring[k], d, now)
      OBVIOUS
  <2>1. Fresh(q.ring[k], c, now)
        BY DEF Flown
  <2>2. d.recovery >= 0 /\ q.ring[k].at > d.recovery => q.ring[k].ev = d.events
        BY <2>1 DEF Fresh, Once, IsWindow
  <2>3. q.ring[k].ev \in 0..d.events
    <3>1. c.events \in Nat /\ d.events \in {c.events, c.events + 1} /\ q.ring[k].ev \in 0..c.events
          BY <2>1 DEF Fresh, Once, IsWindow
    <3> QED BY <3>1
  <2> QED BY <2>1, <2>2, <2>3 DEF Fresh
<1> QED BY <1>1 DEF Flown

\* congestionEvent(), for a packet of the ring, and for an ECN-CE by guess.
LEMMA CongestionOnce ==
  ASSUME now \in Nat, NEW c, IsWindow(c, now), NEW at \in Int, NEW cause \in Int,
         c.recovery >= 0 /\ at > c.recovery /\ cause >= 0 => cause = c.events
  PROVE  /\ Once(c, CongestionEvent(c, at, cause))
         /\ CongestionEvent(c, at, cause) = c \/ CongestionEvent(c, at, cause).recovery = now
         /\ c.recovery = now /\ at <= now => CongestionEvent(c, at, cause) = c
<1>1. CASE InRecovery(c, at)
      BY <1>1, SameOnce DEF CongestionEvent
<1>2. CASE ~InRecovery(c, at)
  <2>1. PICK w, t : CongestionEvent(c, at, cause)
           = [c EXCEPT !.recovery = now, !.ssthresh = t, !.window = w, !.events = @ + 1, !.cause = cause]
        BY <1>2 DEF CongestionEvent
  <2>2. PICK d : d = CongestionEvent(c, at, cause)
        OBVIOUS
  <2>3. /\ d = [window |-> d.window, ssthresh |-> d.ssthresh, recovery |-> d.recovery,
                events |-> d.events, cause |-> d.cause]
        /\ d.recovery = now /\ d.events = c.events + 1 /\ d.cause = cause
        BY <2>1, <2>2 DEF IsWindow
  <2>4. c.recovery \in -1..now /\ c.events \in Nat
        BY DEF IsWindow
  <2>5. ~(c.recovery >= 0 /\ at <= c.recovery)
        BY <1>2 DEF InRecovery
  <2>6. IsWindow(d, now)
        BY <2>3, <2>4 DEF IsWindow
  <2> QED BY <2>2, <2>3, <2>4, <2>5, <2>6 DEF Once
<1> QED BY <1>1, <1>2

\* packetsLost(): the newest of the packets lost is one of them.
LEMMA WindowLostOnce ==
  ASSUME now \in Nat, NEW c, NEW q, NEW L, NEW r, IsWindow(c, now), Flown(q, c, now), L \subseteq DOMAIN q.ring
  PROVE  LET d == WindowLost(c, q, L, r)
         IN  Once(c, d) /\ (c.recovery = now => d.events = c.events /\ d.cause = c.cause)
<1> DEFINE newest == Max({q.ring[k].at : k \in L})
           last == {k \in L : q.ring[k].at = newest}
           cause == Max({q.ring[k].ev : k \in last})
           halved == CongestionEvent(c, newest, cause)
           d == WindowLost(c, q, L, r)
<1>1. CASE L = {}
      BY <1>1, SameOnce DEF WindowLost
<1>2. CASE L # {}
  <2>1. \A k \in L : Fresh(q.ring[k], c, now)
        BY DEF Flown
  <2>2. newest \in {q.ring[k].at : k \in L}
    <3>1. {q.ring[k].at : k \in L} \in SUBSET (0..now) /\ {q.ring[k].at : k \in L} # {}
          BY <1>2, <2>1 DEF Fresh
    <3> QED BY <3>1, MaxIsMember
  <2>3. last # {} /\ newest \in 0..now
        BY <2>1, <2>2 DEF Fresh
  <2> HIDE DEF newest
  <2>4. cause \in {q.ring[k].ev : k \in last}
    <3>1. {q.ring[k].ev : k \in last} \in SUBSET (0..c.events) /\ {q.ring[k].ev : k \in last} # {}
          BY <2>1, <2>3 DEF Fresh
    <3>2. c.events \in Nat
          BY DEF IsWindow
    <3> QED BY <3>1, <3>2, MaxIsMember
  <2>5. cause \in Nat /\ (c.recovery >= 0 /\ newest > c.recovery => cause = c.events)
    <3>1. PICK k \in last : cause = q.ring[k].ev
          BY <2>4
    <3>2. Fresh(q.ring[k], c, now) /\ q.ring[k].at = newest
          BY <2>1
    <3> QED BY <3>1, <3>2 DEF Fresh, IsWindow
  <2> HIDE DEF cause
  <2>6. /\ Once(c, halved) /\ (halved = c \/ halved.recovery = now)
        /\ c.recovery = now /\ newest <= now => halved = c
        BY <2>3, <2>5, CongestionOnce
  <2>7. d = halved \/ d = [halved EXCEPT !.window = MinimumWindow, !.recovery = -1]
        BY <1>2 DEF WindowLost, newest, cause
  <2> HIDE DEF halved, d
  <2>8. /\ IsWindow(d, now) /\ d.events = halved.events /\ d.cause = halved.cause
        /\ d.recovery \in {halved.recovery, -1}
    <3>1. IsWindow(halved, now)
          BY <2>6 DEF Once
    <3>2. CASE d = halved
          BY <3>1, <3>2
    <3>3. CASE d = [halved EXCEPT !.window = MinimumWindow, !.recovery = -1]
      <4>1. d = [window |-> MinimumWindow, ssthresh |-> halved.ssthresh, recovery |-> -1,
                 events |-> halved.events, cause |-> halved.cause]
            BY <3>1, <3>3 DEF IsWindow
      <4> QED BY <3>1, <4>1 DEF IsWindow
    <3> QED BY <2>7, <3>2, <3>3
  <2>9. Once(c, d) /\ (c.recovery = now => d.events = c.events /\ d.cause = c.cause)
        BY <2>3, <2>6, <2>8 DEF Once, IsWindow
  <2> QED BY <2>9 DEF d
<1> QED BY <1>1, <1>2
-----------------------------------------------------------------------------
\* A space of which only fields beside its ring change.
LEMMA FieldsFlown ==
  ASSUME NEW q, NEW c, NEW n, Flown(q, c, n), NEW x, NEW z,
         z = [q EXCEPT !.lossTime = x] \/ z = [q EXCEPT !.largestAcked = x] \/ z = [q EXCEPT !.ectSent = x]
  PROVE  Flown(z, c, n) /\ z.ring = q.ring
<1>1. CASE z = [q EXCEPT !.lossTime = x]
      BY <1>1 DEF Flown
<1>2. CASE z = [q EXCEPT !.largestAcked = x]
      BY <1>2 DEF Flown
<1>3. CASE z = [q EXCEPT !.ectSent = x]
      BY <1>3 DEF Flown
<1> QED BY <1>1, <1>2, <1>3

\* A packet recorded when it is sent joins a sound ring.
LEMMA RecordedFlown ==
  ASSUME NEW q, NEW c, NEW n, Flown(q, c, n), NEW p, Fresh(p, c, n)
  PROVE  Flown(Recorded(q, p), c, n)
<1>1. PICK S : q.ring \in Seq(S)
      BY DEF Flown
<1>2. PICK r : r = Append(q.ring, p)
      OBVIOUS
<1>3. q.ring \in Seq(S \cup {p}) /\ p \in S \cup {p}
      BY <1>1, SeqMonotonic
<1>4. /\ r \in Seq(S \cup {p}) /\ Len(r) = Len(q.ring) + 1
      /\ \A i \in 1..Len(q.ring) : r[i] = q.ring[i]
      /\ r[Len(q.ring) + 1] = p
      BY <1>2, <1>3, AppendProperties
<1>5. DOMAIN q.ring = 1..Len(q.ring) /\ DOMAIN r = 1..(Len(q.ring) + 1) /\ Len(q.ring) \in Nat
      BY <1>3, <1>4
<1>6. \A k \in DOMAIN r : Fresh(r[k], c, n)
  <2> SUFFICES ASSUME NEW k \in DOMAIN r PROVE Fresh(r[k], c, n)
      OBVIOUS
  <2>1. CASE k = Len(q.ring) + 1
        BY <1>4, <2>1
  <2>2. CASE k # Len(q.ring) + 1
    <3>1. k \in 1..Len(q.ring)
          BY <1>5, <2>2
    <3> QED BY <1>4, <1>5, <3>1 DEF Flown
  <2> QED BY <2>1, <2>2
<1>7. PICK i, b, l, e : Recorded(q, p) = [q EXCEPT !.ring = r, !.inFlight = i, !.bytes = b,
                                                  !.lastEliciting = l, !.ectSent = e]
      BY <1>2 DEF Recorded
<1>8. Recorded(q, p) = [ring |-> r, largestAcked |-> q.largestAcked, lossTime |-> q.lossTime,
          lastEliciting |-> l, bytes |-> b, inFlight |-> i, ectSent |-> e, ect0 |-> q.ect0, ce |-> q.ce]
      BY <1>7 DEF Flown
<1> QED BY <1>4, <1>6, <1>8 DEF Flown

\* What a step without time has to show.
LEMMA StepKeeps ==
  ASSUME FlightInv, now' = now, Once(cc, cc'), sp' = [s \in Spaces |-> sp'[s]],
         \A s \in Spaces : Flown(sp'[s], cc, now)
  PROVE  FlightInv'
<1>1. now \in Nat /\ IsWindow(cc, now)
      BY DEF FlightInv
<1>2. \A s \in Spaces : Flown(sp'[s], cc', now)
      BY <1>1, OnceFlown
<1>3. IsWindow(cc', now)
      BY DEF Once
<1> QED BY <1>1, <1>2, <1>3 DEF FlightInv

\* A step on one space.
LEMMA SpaceKeeps ==
  ASSUME FlightInv, now' = now, Once(cc, cc'), NEW s \in Spaces, NEW q,
         sp' = [sp EXCEPT ![s] = q], Flown(q, cc, now)
  PROVE  FlightInv'
<1>1. sp = [x \in Spaces |-> sp[x]] /\ \A x \in Spaces : Flown(sp[x], cc, now)
      BY DEF FlightInv
<1>2. sp' = [x \in Spaces |-> IF x = s THEN q ELSE sp[x]]
      BY <1>1
<1>3. \A x \in Spaces : Flown(sp'[x], cc, now)
      BY <1>1, <1>2
<1>4. sp' = [x \in Spaces |-> sp'[x]]
      BY <1>2
<1> QED BY <1>3, <1>4, StepKeeps

\* buildDatagram(), recordSent().
LEMMA SendKeeps ==
  ASSUME FlightInv, NEW s \in Spaces, Send(s) \/ SendBare(s)
  PROVE  FlightInv' /\ Once(cc, cc')
<1>0. now \in Nat /\ IsWindow(cc, now) /\ Flown(sp[s], cc, now)
      BY DEF FlightInv
<1>1. cc' = cc /\ now' = now
      BY DEF Send, SendBare
<1>2. Once(cc, cc')
      BY <1>0, <1>1, SameOnce
<1>3. CASE Send(s)
  <2> DEFINE q == Compact(sp[s])
             evict == probes[s] > 0 /\ Full(s)
  <2>1. PICK item :
          sp' = [sp EXCEPT ![s] = Recorded(IF evict THEN EvictOldest(q) ELSE q,
                  [pn |-> nextPn[s], at |-> now, size |-> IF item = Ping THEN 1 ELSE DatagramSize,
                   st |-> "sent", marked |-> Codepoint, item |-> item, ev |-> cc.events])]
        BY <1>3, Zenon DEF Send
  <2>2. PICK p : p = [pn |-> nextPn[s], at |-> now, size |-> IF item = Ping THEN 1 ELSE DatagramSize,
                   st |-> "sent", marked |-> Codepoint, item |-> item, ev |-> cc.events]
        OBVIOUS
  <2>3. Fresh(p, cc, now)
        BY <1>0, <2>2 DEF Fresh, IsWindow
  <2>4. PICK k : k = IF evict THEN EvictOldest(q) ELSE q
        OBVIOUS
  <2>5. Flown(q, cc, now)
        BY <1>0, CompactFlown
  <2> HIDE DEF q
  <2>6. Flown(k, cc, now)
        BY <2>4, <2>5, SettleFlown, CompactFlown DEF EvictOldest
  <2>7. Flown(Recorded(k, p), cc, now) /\ sp' = [sp EXCEPT ![s] = Recorded(k, p)]
        BY <2>1, <2>2, <2>3, <2>4, <2>6, RecordedFlown
  <2> QED BY <1>1, <1>2, <2>7, SpaceKeeps
<1>4. CASE SendBare(s)
  <2>1. PICK x : sp' = [sp EXCEPT ![s] = [sp[s] EXCEPT !.ectSent = x]]
        BY <1>4 DEF SendBare
  <2>2. PICK z : z = [sp[s] EXCEPT !.ectSent = x]
        OBVIOUS
  <2>3. Flown(z, cc, now)
        BY <1>0, <2>2, FieldsFlown
  <2> QED BY <1>1, <1>2, <2>1, <2>2, <2>3, SpaceKeeps
<1> QED BY <1>3, <1>4

\* onTimeout() when packets are lost by time.
LEMMA LossTimeoutKeeps ==
  ASSUME FlightInv, LossTimeout
  PROVE  FlightInv' /\ Once(cc, cc')
<1> DEFINE s == Earliest(LossSpaces, LossTimes)
           q0 == Compact(sp[s])
           L == DetectLoss(q0, rtt)
           q == Settle(q0, L, "lost")
<1>0. now \in Nat /\ IsWindow(cc, now)
      BY DEF FlightInv
<1>1. /\ sp' = [sp EXCEPT ![s] = [q EXCEPT !.lossTime = LossTime(q, rtt)]]
      /\ cc' = WindowLost(cc, q, L, rtt) /\ now' = now
      BY DEF LossTimeout
<1>2. s \in Spaces
      BY DEF Earliest, Spaces
<1>3. Flown(q0, cc, now)
      BY <1>2, CompactFlown DEF FlightInv
<1>4. L \subseteq DOMAIN q0.ring
      BY DEF DetectLoss, Sent
<1> HIDE DEF s, q0, L
<1>5. Flown(q, cc, now) /\ DOMAIN q.ring = DOMAIN q0.ring
      BY <1>3, SettleFlown
<1> HIDE DEF q
<1>6. Once(cc, cc')
      BY <1>0, <1>1, <1>4, <1>5, WindowLostOnce
<1>7. PICK z : z = [q EXCEPT !.lossTime = LossTime(q, rtt)]
      OBVIOUS
<1>8. Flown(z, cc, now)
      BY <1>5, <1>7, FieldsFlown
<1> QED BY <1>1, <1>2, <1>6, <1>7, <1>8, SpaceKeeps

\* What processEcn() does to the window, K being in the ring.
LEMMA EcnOnce ==
  ASSUME FlightInv, NEW q, Flown(q, cc, now), NEW K, K \subseteq DOMAIN q.ring, NEW a, NEW raised, NEW later \in Int
  PROVE  LET x == ProcessEcn(q, K, a, raised, later)
         IN  /\ Once(cc, x.c) /\ (x.c = cc \/ x.c.recovery = now)
             /\ Flown(x.q, cc, now) /\ x.q.ring = q.ring
<1> DEFINE x == ProcessEcn(q, K, a, raised, later)
           newest == q.ring[Max(K)]
<1>0. now \in Nat /\ IsWindow(cc, now)
      BY DEF FlightInv
<1>1. \/ x.c = cc
      \/ K = {} /\ x.c = CongestionEvent(cc, later, -1)
      \/ K # {} /\ x.c = CongestionEvent(cc, newest.at, newest.ev)
      BY DEF ProcessEcn
<1>2. x.q = q \/ x.q = [q EXCEPT !.ect0 = a.ect0, !.ce = a.ce]
      BY DEF ProcessEcn
<1> HIDE DEF x
<1>3. Flown(x.q, cc, now) /\ x.q.ring = q.ring
  <2>1. CASE x.q = q
        BY <2>1
  <2>2. CASE x.q = [q EXCEPT !.ect0 = a.ect0, !.ce = a.ce]
    <3>1. PICK z, u, v : z = x.q /\ z = [q EXCEPT !.ect0 = u, !.ce = v]
          BY <2>2
    <3>2. Flown(z, cc, now) /\ z.ring = q.ring
          BY <3>1 DEF Flown
    <3> QED BY <3>1, <3>2
  <2> QED BY <1>2, <2>1, <2>2
<1>4. Once(cc, x.c) /\ (x.c = cc \/ x.c.recovery = now)
  <2>1. CASE x.c = cc
        BY <1>0, <2>1, SameOnce
  <2>2. CASE K = {} /\ x.c = CongestionEvent(cc, later, -1)
    <3>1. PICK m \in Int : m = -1
          OBVIOUS
    <3>2. ~(m >= 0) /\ x.c = CongestionEvent(cc, later, m)
          BY <2>2, <3>1
    <3> QED BY <1>0, <3>1, <3>2, CongestionOnce
  <2>3. CASE K # {} /\ x.c = CongestionEvent(cc, newest.at, newest.ev)
    <3>1. Max(K) \in DOMAIN q.ring
      <4>1. DOMAIN q.ring = 1..Len(q.ring) /\ Len(q.ring) \in Nat
            BY DEF Flown
      <4>2. K \in SUBSET (0..Len(q.ring))
            BY <4>1
      <4> QED BY <2>3, <4>1, <4>2, MaxIsMember
    <3>2. Fresh(newest, cc, now)
          BY <3>1 DEF Flown
    <3> HIDE DEF newest
    <3>3. newest.at \in Int /\ newest.ev \in Int /\ (cc.recovery >= 0 /\ newest.at > cc.recovery => newest.ev = cc.events)
          BY <1>0, <3>2 DEF Fresh, IsWindow
    <3> QED BY <1>0, <2>3, <3>3, CongestionOnce
  <2> QED BY <1>1, <2>1, <2>2, <2>3
<1> QED BY <1>3, <1>4 DEF x

\* receiveAck(), onAckEcn(): the ECN-CE first, then the losses.
LEMMA OnAckKeeps ==
  ASSUME FlightInv, NEW a, NEW delay, OnAck(a, delay), a.s \in Spaces
  PROVE  FlightInv' /\ Once(cc, cc')
<1> DEFINE s == a.s
           q0 == Compact(sp[s])
           raised == Max(a.pns) > q0.largestAcked
           K == {k \in Sent(q0) : q0.ring[k].pn \in a.pns}
           above == {k \in DOMAIN q0.ring : q0.ring[k].pn > Max(a.pns)}
           later == IF above = {} THEN now ELSE q0.ring[Min(above)].at
           q1 == [Settle(q0, K, "acked") EXCEPT !.largestAcked = Max({@} \cup a.pns)]
           sample == {k \in K : q0.ring[k].pn = Max(a.pns)}
           r == IF sample = {} THEN rtt ELSE UpdateRtt(Max({now - q0.ring[Max(sample)].at, 0}), delay)
           x == ProcessEcn(q1, K, a, raised, later)
           L == DetectLoss(x.q, r)
           q2 == Settle(x.q, L, "lost")
           c == WindowLost(x.c, q2, L, r)
<1>0. now \in Nat /\ IsWindow(cc, now) /\ Flown(sp[s], cc, now)
      BY DEF FlightInv
<1>1. /\ now' = now
      /\ \/ K = {} /\ raised /\ sp' = [sp EXCEPT ![s] = x.q] /\ cc' = x.c
         \/ K = {} /\ ~raised /\ sp' = [sp EXCEPT ![s] = q1] /\ cc' = cc
         \/ /\ sp' = [sp EXCEPT ![s] = [q2 EXCEPT !.lossTime = LossTime(q2, r)]]
            /\ cc' = c \/ cc' = [c EXCEPT !.window = Grown(c, q1, K)]
      BY ZenonT(90) DEF OnAck
<1> HIDE DEF q0, K, above, later, raised, sample, s
<1>2. Flown(q0, cc, now)
      BY <1>0, CompactFlown DEF q0
<1>3. K \subseteq DOMAIN q0.ring
  <2>1. Sent(q0) \subseteq DOMAIN q0.ring
        BY DEF Sent
  <2>2. K \subseteq Sent(q0)
        BY DEF K
  <2> QED BY <2>1, <2>2
<1>4. later \in Int
  <2>1. CASE above = {}
        BY <1>0, <2>1 DEF later
  <2>2. CASE above # {}
    <3>1. DOMAIN q0.ring = 1..Len(q0.ring) /\ Len(q0.ring) \in Nat
          BY <1>2 DEF Flown
    <3>2. above \in SUBSET (DOMAIN q0.ring)
          BY DEF above
    <3>3. Min(above) \in DOMAIN q0.ring
      <4>1. above \in SUBSET Nat
            BY <3>1, <3>2
      <4>2. Min(above) \in above
            BY <2>2, <4>1, MinIsMember
      <4> QED BY <3>2, <4>2
    <3>4. q0.ring[Min(above)].at \in 0..now
          BY <1>2, <3>3 DEF Flown, Fresh
    <3> QED BY <2>2, <3>4 DEF later
  <2> QED BY <2>1, <2>2
<1>5. Flown(q1, cc, now) /\ DOMAIN q1.ring = DOMAIN q0.ring
  <2>1. PICK z : z = Settle(q0, K, "acked")
        OBVIOUS
  <2>2. Flown(z, cc, now) /\ DOMAIN z.ring = DOMAIN q0.ring
        BY <1>2, <2>1, SettleFlown
  <2>3. PICK y : y = q1
        OBVIOUS
  <2>4. PICK m : y = [z EXCEPT !.largestAcked = m]
        BY <2>1, <2>3
  <2>5. Flown(y, cc, now) /\ y.ring = z.ring
        BY <2>2, <2>4, FieldsFlown
  <2> QED BY <2>2, <2>3, <2>5
<1> HIDE DEF q1
<1>6. /\ Once(cc, x.c) /\ (x.c = cc \/ x.c.recovery = now)
      /\ Flown(x.q, cc, now) /\ x.q.ring = q1.ring
      BY <1>3, <1>4, <1>5, EcnOnce
<1>7. L \subseteq DOMAIN x.q.ring
      BY DEF DetectLoss, Sent
<1> HIDE DEF x, r
<1>8. Flown(q2, cc, now) /\ DOMAIN q2.ring = DOMAIN x.q.ring
  <2> HIDE DEF L
  <2> QED BY <1>6, SettleFlown
<1> HIDE DEF L, q2
<1>9. Flown(q2, x.c, now) /\ IsWindow(x.c, now)
      BY <1>0, <1>6, <1>8, OnceFlown DEF Once
<1>10. Once(x.c, c) /\ (x.c.recovery = now => c.events = x.c.events /\ c.cause = x.c.cause)
      BY <1>0, <1>7, <1>8, <1>9, WindowLostOnce
<1> HIDE DEF c
<1>11. Once(cc, c)
  <2>1. CASE x.c = cc
        BY <1>10, <2>1
  <2>2. CASE x.c.recovery = now
        BY <1>0, <1>6, <1>10, <2>2 DEF Once, IsWindow
  <2> QED BY <1>6, <2>1, <2>2
<1>12. CASE sp' = [sp EXCEPT ![s] = x.q] /\ cc' = x.c
      BY <1>1, <1>6, <1>12, SpaceKeeps DEF s
<1>13. CASE sp' = [sp EXCEPT ![s] = q1] /\ cc' = cc
      BY <1>0, <1>1, <1>5, <1>13, SameOnce, SpaceKeeps DEF s
<1>14. CASE /\ sp' = [sp EXCEPT ![s] = [q2 EXCEPT !.lossTime = LossTime(q2, r)]]
            /\ cc' = c \/ cc' = [c EXCEPT !.window = Grown(c, q1, K)]
  <2>1. PICK z : z = [q2 EXCEPT !.lossTime = LossTime(q2, r)]
        OBVIOUS
  <2>2. Flown(z, cc, now)
        BY <1>8, <2>1, FieldsFlown
  <2>3. Once(cc, cc')
    <3>1. CASE cc' = c
          BY <1>11, <3>1
    <3>2. CASE cc' = [c EXCEPT !.window = Grown(c, q1, K)]
      <4>1. IsWindow(c, now)
            BY <1>11 DEF Once
      <4>2. /\ IsWindow(cc', now) /\ cc'.events = c.events /\ cc'.cause = c.cause
            /\ cc'.recovery = c.recovery
            BY <3>2, <4>1 DEF IsWindow
      <4> QED BY <1>11, <4>2 DEF Once
    <3> QED BY <1>14, <3>1, <3>2
  <2> QED BY <1>1, <1>14, <2>1, <2>2, <2>3, SpaceKeeps DEF s
<1> QED BY <1>1, <1>12, <1>13, <1>14

\* resendEarly(), discard() and resetPath().
LEMMA OthersKeep ==
  ASSUME FlightInv, ResendEarly \/ Confirm \/ \E portOnly \in BOOLEAN, keeps \in Paths : PathConfirmed(portOnly, keeps)
  PROVE  FlightInv' /\ Once(cc, cc')
<1>0. now \in Nat /\ IsWindow(cc, now) /\ \A s \in Spaces : Flown(sp[s], cc, now)
      BY DEF FlightInv
<1>1. Hs \in Spaces
      BY DEF Spaces
<1>2. CASE ResendEarly
  <2>1. sp' = [sp EXCEPT ![Hs] = Compact(sp[Hs])] /\ cc' = cc /\ now' = now
        BY <1>2 DEF ResendEarly
  <2>2. Flown(Compact(sp[Hs]), cc, now) /\ Once(cc, cc')
        BY <1>0, <1>1, <2>1, CompactFlown, SameOnce
  <2> QED BY <1>1, <2>1, <2>2, SpaceKeeps
<1>3. CASE Confirm
  <2>1. PICK z : z = Clear(sp[Hs])
        OBVIOUS
  <2>2. sp' = [sp EXCEPT ![Hs] = z] /\ cc' = cc /\ now' = now
        BY <1>3, <2>1 DEF Confirm
  <2>3. Flown(sp[Hs], cc, now)
        BY <1>0, <1>1
  <2>4. z = [ring |-> <<>>, largestAcked |-> z.largestAcked, lossTime |-> z.lossTime,
             lastEliciting |-> z.lastEliciting, bytes |-> z.bytes, inFlight |-> z.inFlight,
             ectSent |-> z.ectSent, ect0 |-> z.ect0, ce |-> z.ce]
        BY <2>1, <2>3 DEF Clear, Flown
  <2>5. <<>> \in Seq({}) /\ DOMAIN <<>> = {}
        OBVIOUS
  <2>6. Flown(z, cc, now) /\ Once(cc, cc')
    <3>1. z.ring = <<>>
          BY <2>4
    <3>2. Once(cc, cc')
          BY <1>0, <2>2, SameOnce
    <3>3. /\ \E S : z.ring \in Seq(S)
          /\ \A k \in DOMAIN z.ring : Fresh(z.ring[k], cc, now)
          BY <2>5, <3>1
    <3>4. z = [ring |-> z.ring, largestAcked |-> z.largestAcked, lossTime |-> z.lossTime,
               lastEliciting |-> z.lastEliciting, bytes |-> z.bytes, inFlight |-> z.inFlight,
               ectSent |-> z.ectSent, ect0 |-> z.ect0, ce |-> z.ce]
          BY <2>4, <3>1
    <3> QED BY <3>2, <3>3, <3>4 DEF Flown
  <2> QED BY <1>1, <2>2, <2>6, SpaceKeeps
<1>4. ASSUME NEW portOnly \in BOOLEAN, NEW keeps \in Paths, PathConfirmed(portOnly, keeps)
      PROVE  FlightInv' /\ Once(cc, cc')
  <2>1. /\ sp' = [s \in Spaces |-> [sp[s] EXCEPT !.ring = [k \in DOMAIN @ |-> [@[k] EXCEPT !.marked = FALSE]]]]
        /\ cc' = cc \/ cc' = [cc EXCEPT !.window = InitialWindow, !.ssthresh = Unbounded, !.recovery = -1]
        /\ now' = now
        BY <1>4 DEF PathConfirmed
  <2>2. Once(cc, cc')
    <3>1. CASE cc' = cc
          BY <1>0, <3>1, SameOnce
    <3>2. CASE cc' = [cc EXCEPT !.window = InitialWindow, !.ssthresh = Unbounded, !.recovery = -1]
      <4>1. /\ cc' = [window |-> cc'.window, ssthresh |-> cc'.ssthresh, recovery |-> cc'.recovery,
                      events |-> cc'.events, cause |-> cc'.cause]
            /\ cc'.recovery = -1 /\ cc'.events = cc.events /\ cc'.cause = cc.cause
            BY <1>0, <3>2 DEF IsWindow
      <4> QED BY <1>0, <4>1 DEF Once, IsWindow
    <3> QED BY <2>1, <3>1, <3>2
  <2>3. \A s \in Spaces : Flown(sp'[s], cc, now)
    <3> SUFFICES ASSUME NEW s \in Spaces PROVE Flown(sp'[s], cc, now)
        OBVIOUS
    <3>0. PICK q : q = sp[s]
          OBVIOUS
    <3>1. Flown(q, cc, now)
          BY <1>0, <3>0
    <3>2. PICK r : r = [k \in DOMAIN q.ring |-> [q.ring[k] EXCEPT !.marked = FALSE]]
          OBVIOUS
    <3>3. sp'[s] = [q EXCEPT !.ring = r]
          BY <2>1, <3>0, <3>2
    <3>4. DOMAIN q.ring = 1..Len(q.ring) /\ Len(q.ring) \in Nat
          BY <3>1 DEF Flown
    <3>5. r \in Seq({r[k] : k \in DOMAIN r})
      <4>1. r \in [1..Len(q.ring) -> {r[k] : k \in DOMAIN r}]
            BY <3>2, <3>4
      <4> QED BY <3>4, <4>1, SeqDef
    <3>6. \A k \in DOMAIN r : Fresh(r[k], cc, now)
      <4> SUFFICES ASSUME NEW k \in DOMAIN q.ring PROVE Fresh(r[k], cc, now)
          BY <3>2
      <4>1. Fresh(q.ring[k], cc, now) /\ r[k] = [q.ring[k] EXCEPT !.marked = FALSE]
            BY <3>1, <3>2 DEF Flown
      <4> QED BY <4>1 DEF Fresh
    <3>7. PICK T : r \in Seq(T)
          BY <3>5
    <3> QED BY <3>1, <3>3, <3>6, <3>7 DEF Flown
  <2>4. sp' = [s \in Spaces |-> sp'[s]]
        BY <2>1
  <2> QED BY <2>1, <2>2, <2>3, <2>4, StepKeeps
<1> QED BY <1>2, <1>3, <1>4

\* The probe timeout, the peer and time: no ring changes.
LEMMA QuietKeeps ==
  ASSUME FlightInv, UNCHANGED <<sp, cc>>, now' = now \/ now' = now + 1
  PROVE  FlightInv' /\ Once(cc, cc')
<1>0. now \in Nat /\ IsWindow(cc, now) /\ \A s \in Spaces : Flown(sp[s], cc, now)
      BY DEF FlightInv
<1>1. Once(cc, cc')
      BY <1>0, SameOnce
<1>2. now' \in Nat /\ IsWindow(cc, now')
      BY <1>0 DEF IsWindow
<1>3. \A s \in Spaces : Flown(sp[s], cc, now')
  <2> SUFFICES ASSUME NEW s \in Spaces PROVE Flown(sp[s], cc, now')
      OBVIOUS
  <2>0. Flown(sp[s], cc, now)
        BY <1>0
  <2>1. ASSUME NEW k \in DOMAIN sp[s].ring PROVE Fresh(sp[s].ring[k], cc, now')
    <3>1. PICK p : p = sp[s].ring[k]
          OBVIOUS
    <3>2. Fresh(p, cc, now)
          BY <2>0, <3>1 DEF Flown
    <3>3. p.at \in 0..now'
          BY <1>0, <3>2 DEF Fresh
    <3>4. Fresh(p, cc, now')
          BY <3>2, <3>3 DEF Fresh
    <3> QED BY <3>1, <3>4
  <2> QED BY <2>0, <2>1 DEF Flown
<1> QED BY <1>1, <1>2, <1>3 DEF FlightInv

\* What is on its way belongs to a space.
WayInv == (\A p \in wire : p.s \in Spaces) /\ (\A a \in acks : a.s \in Spaces)

\* Every step keeps what holds of the packets and the acknowledgements under
\* way.
LEMMA WayKept == WayInv /\ [Next]_vars => WayInv'
<1> SUFFICES ASSUME WayInv, [Next]_vars PROVE WayInv'
    OBVIOUS
<1>1. ASSUME NEW s \in Spaces, Send(s) \/ SendBare(s) PROVE WayInv'
  <2>1. acks' = acks /\ \E b, e : wire' = wire \cup {OnWire(s, b, e)}
        BY <1>1 DEF Send, SendBare
  <2> QED BY <2>1 DEF WayInv, OnWire
<1>2. ASSUME NEW a \in acks, NEW delay \in AckDelays, OnAck(a, delay) PROVE WayInv'
  <2>1. acks' = acks \ {a} /\ wire' = wire
        BY <1>2 DEF OnAck
  <2> QED BY <2>1 DEF WayInv
<1>3. CASE Confirm
      BY <1>3 DEF Confirm, WayInv
<1>4. ASSUME NEW p \in wire, NEW ce \in BOOLEAN, PeerReceives(p, ce) PROVE WayInv'
  <2>1. wire' = wire \ {p}
        BY <1>4 DEF PeerReceives
  <2>2. PICK n : acks' = acks \/ acks' = acks \cup {[s |-> p.s, pns |-> n.got, ect0 |-> n.ect0, ce |-> n.ce]}
        BY <1>4 DEF PeerReceives
  <2> QED BY <2>1, <2>2 DEF WayInv
<1>5. CASE LossTimeout \/ ProbeTimeout \/ ResendEarly \/ Tick \/ UNCHANGED vars
            \/ \E portOnly \in BOOLEAN, keeps \in Paths : PathConfirmed(portOnly, keeps)
  <2>1. UNCHANGED <<wire, acks>>
        BY <1>5 DEF LossTimeout, ProbeTimeout, ResendEarly, Tick, vars, PathConfirmed
  <2> QED BY <2>1 DEF WayInv
<1> QED BY <1>1, <1>2, <1>3, <1>4, <1>5 DEF Next
-----------------------------------------------------------------------------
\* For any packets, times, thresholds and windows: while a recovery period
\* lasts the window is halved again only for a packet that was sent after the
\* last halving, whatever was lost, marked, evicted or found late
\* (congestionEvent, packetsLost, processEcn of std/net/quic-recovery.ts).
THEOREM OneHalvingPerFlight == Spec => HalvedOncePerFlight
<1> DEFINE Inv == FlightInv /\ WayInv
           Halving == cc'.events > cc.events /\ cc.recovery >= 0 /\ cc'.cause >= 0 => cc'.cause = cc.events
<1>1. Init => Inv
  <2> SUFFICES ASSUME Init PROVE Inv
      OBVIOUS
  <2>1. WayInv
        BY DEF Init, WayInv
  <2>2. now \in Nat /\ IsWindow(cc, now)
        BY DEF Init, NewWindow, IsWindow
  <2>3. <<>> \in Seq({}) /\ DOMAIN <<>> = {}
        OBVIOUS
  <2>4. sp = [s \in Spaces |-> sp[s]] /\ \A s \in Spaces : Flown(sp[s], cc, now)
        BY <2>3 DEF Init, Flown
  <2> QED BY <2>1, <2>2, <2>4 DEF FlightInv
<1>2. Inv /\ [Next]_vars => Inv' /\ Once(cc, cc')
  <2> SUFFICES ASSUME FlightInv, WayInv, [Next]_vars PROVE FlightInv' /\ Once(cc, cc')
      BY WayKept
  <2>1. ASSUME NEW s \in Spaces, Send(s) \/ SendBare(s) PROVE FlightInv' /\ Once(cc, cc')
        BY <2>1, SendKeeps
  <2>2. ASSUME NEW a \in acks, NEW delay \in AckDelays, OnAck(a, delay) PROVE FlightInv' /\ Once(cc, cc')
        BY <2>2, OnAckKeeps DEF WayInv
  <2>3. CASE LossTimeout
        BY <2>3, LossTimeoutKeeps
  <2>4. CASE ResendEarly \/ Confirm \/ \E portOnly \in BOOLEAN, keeps \in Paths : PathConfirmed(portOnly, keeps)
        BY <2>4, OthersKeep
  <2>5. CASE ProbeTimeout \/ Tick \/ UNCHANGED vars \/ \E p \in wire, ce \in BOOLEAN : PeerReceives(p, ce)
    <3>1. UNCHANGED <<sp, cc>> /\ (now' = now \/ now' = now + 1)
          BY <2>5 DEF ProbeTimeout, Tick, vars, PeerReceives, conn
    <3> QED BY <3>1, QuietKeeps
  <2> QED BY <2>1, <2>2, <2>3, <2>4, <2>5 DEF Next
<1>3. Inv /\ Once(cc, cc') => Halving
      BY DEF FlightInv, Once, IsWindow
<1>4. Inv /\ [Next]_vars => Inv' /\ [Halving]_vars
      BY <1>2, <1>3
<1> QED BY <1>1, <1>4, PTL DEF Spec, HalvedOncePerFlight

-----------------------------------------------------------------------------
\* The connection IDs a server gives out.

\* Everything in flight is of an ID that is active or that the client gave
\* up, and what it gave up it holds no more.
LocalIInv ==
  /\ next \in 0..MaxIssued /\ local \subseteq 0..next - 1 /\ gone \subseteq 0..next - 1
  /\ Cardinality(local) <= Want /\ closedLocal = FALSE
  /\ announced \subseteq local /\ news \subseteq local \cup gone /\ sent \subseteq local \cup gone
  /\ holds \subseteq local /\ holds \cap gone = {} /\ owed \subseteq gone
  /\ retires \subseteq Local!Sequence \X Local!Sequence
  /\ \A r \in retires : r[1] \in gone /\ r[1] # r[2]

\* The cardinality of the instance is this module's.
LEMMA SameCardinality ==
  ASSUME NEW S
  PROVE  Local!Cardinality(S) = Cardinality(S)
BY DEF Local!Cardinality, Cardinality

LEMMA MinOfNat ==
  ASSUME NEW S, S \subseteq Nat, S # {}
  PROVE  Local!Min(S) \in S
<1>1. PICK x \in S : \A y \in S : ~(<<y, x>> \in OpToRel(<, Nat))
      BY NatLessThanWellFounded, WFMin
<1>2. \A y \in S : x <= y
  <2> SUFFICES ASSUME NEW y \in S PROVE x <= y
      OBVIOUS
  <2>1. ~(y < x)
        BY <1>1 DEF OpToRel
  <2> QED BY <2>1, SMT
<1> QED BY <1>2 DEF Local!Min

LEMMA Wider ==
  ASSUME NEW m \in Int, NEW n \in Int, m <= n
  PROVE  0..m - 1 \subseteq 0..n - 1
OBVIOUS

LEMMA MinOfTwo ==
  ASSUME NEW a \in Int, NEW b \in Int
  PROVE  Local!Min({a, b}) \in {a, b} /\ Local!Min({a, b}) <= a /\ Local!Min({a, b}) <= b
<1>1. CASE a <= b
      BY <1>1 DEF Local!Min
<1>2. CASE b <= a
      BY <1>2 DEF Local!Min
<1> QED BY <1>1, <1>2

\* Topping up stays within the limits.
LEMMA TopUpFits ==
  ASSUME Local!IdLimits, next \in 0..MaxIssued, local \subseteq 0..next - 1, Cardinality(local) <= Want,
         NEW ids \in SUBSET local, Local!TopUp(ids)
  PROVE  /\ next' \in next..MaxIssued /\ ids \subseteq local' /\ local' \subseteq ids \cup (next..next' - 1)
         /\ local' \subseteq 0..next' - 1 /\ Cardinality(local') <= Want
<1>1. Want \in Nat /\ MaxIssued \in Nat /\ next \in Nat
      BY DEF Local!IdLimits
<1>2. IsFiniteSet(local) /\ IsFiniteSet(ids)
  <2>1. IsFiniteSet(0..next - 1)
        BY <1>1, FS_Interval
  <2>2. local \in SUBSET (0..next - 1)
        OBVIOUS
  <2>3. IsFiniteSet(local)
        BY <2>1, <2>2, FS_Subset
  <2> QED BY <2>3, FS_Subset
<1>3. Cardinality(local) \in Nat /\ Cardinality(ids) \in Nat /\ Cardinality(ids) <= Cardinality(local)
      BY <1>2, FS_CardinalityType, FS_Subset
<1> DEFINE a == Local!Missing + Cardinality(local) - Cardinality(ids)
           b == MaxIssued - next
           n == Local!Min({a, b})
           more == IF n > 0 THEN next..(next + n - 1) ELSE {}
<1>4. a = Want - Cardinality(ids) /\ a \in Int /\ b \in Int
      BY <1>1, <1>3, SameCardinality DEF Local!Missing
<1>5. n \in Int /\ n <= Want - Cardinality(ids) /\ n <= MaxIssued - next
      BY <1>4, MinOfTwo
<1>6. local' = ids \cup more /\ next' = next + Cardinality(more)
      BY SameCardinality DEF Local!TopUp
<1> HIDE DEF n
<1>7. CASE n > 0
  <2>1. more = next..next + n - 1 /\ next + n - 1 \in Int /\ next \in Int
        BY <1>1, <1>5, <1>7
  <2>2. IsFiniteSet(more) /\ Cardinality(more) = n
        BY <1>1, <1>5, <1>7, <2>1, FS_Interval
  <2> HIDE DEF more
  <2>3. Cardinality(ids \cup more) = Cardinality(ids) + n - Cardinality(ids \cap more)
        BY <1>2, <2>2, FS_Union
  <2>4. Cardinality(ids \cap more) \in Nat
        BY <1>2, FS_Intersection, FS_CardinalityType
  <2>5. Cardinality(local') <= Want
        BY <1>1, <1>3, <1>5, <1>6, <2>3, <2>4
  <2>6. next' = next + n
        BY <1>6, <2>2
  <2>7. next' \in next..MaxIssued /\ local' \subseteq ids \cup (next..next' - 1)
        BY <1>1, <1>5, <1>6, <1>7, <2>1, <2>6
  <2>8. local' \subseteq 0..next' - 1
        BY <1>1, <2>6, <2>7, <1>5, <1>7
  <2> QED BY <1>6, <2>5, <2>7, <2>8
<1>8. CASE ~(n > 0)
  <2>1. more = {} /\ Cardinality(more) = 0
        BY <1>8, FS_EmptySet
  <2>2. local' = ids /\ next' = next
        BY <1>1, <1>6, <2>1
  <2> QED BY <1>1, <1>3, <2>2
<1> QED BY <1>7, <1>8

LEMMA InitLocal ==
  ASSUME Local!IdLimits, Local!Init
  PROVE  LocalIInv
<1>1. 0..Want - 1 \subseteq 0..next - 1 /\ next \in 0..MaxIssued /\ 0 \in 0..Want - 1
      BY DEF Local!Init, Local!IdLimits
<1>2. Cardinality(0..Want - 1) = Want
      BY FS_Interval DEF Local!IdLimits
<1> QED BY <1>1, <1>2 DEF Local!Init, LocalIInv, Local!IdLimits

LEMMA AnnounceKeeps ==
  ASSUME Local!IdLimits, LocalIInv, Local!Announce
  PROVE  LocalIInv'
<1> DEFINE rest == local \ announced
<1>1. rest \subseteq Nat /\ rest # {}
      BY DEF LocalIInv, Local!Announce
<1>2. Local!Min(rest) \in rest
      BY <1>1, MinOfNat
<1>3. /\ announced' = announced \cup {Local!Min(rest)} /\ news' = news \cup {Local!Min(rest)} /\ sent' = sent \cup {Local!Min(rest)}
      /\ UNCHANGED <<local, next, closedLocal, holds, gone, owed, retires>>
      BY DEF Local!Announce, Local!client
<1> HIDE DEF rest
<1>4. Local!Min(rest) \in local
      BY <1>2 DEF rest
<1> QED BY <1>3, <1>4 DEF LocalIInv

LEMMA LearnKeeps ==
  ASSUME Local!IdLimits, LocalIInv, NEW s \in Local!Sequence, Local!Learn(s)
  PROVE  LocalIInv'
BY DEF LocalIInv, Local!Learn, Local!server

LEMMA AnnounceAckedKeeps ==
  ASSUME Local!IdLimits, LocalIInv, NEW s \in Local!Sequence, Local!AnnounceAcked(s)
  PROVE  LocalIInv'
BY DEF LocalIInv, Local!AnnounceAcked, Local!server, Local!client

LEMMA AnnounceLostKeeps ==
  ASSUME Local!IdLimits, LocalIInv, NEW s \in Local!Sequence, NEW late \in BOOLEAN, Local!AnnounceLost(s, late)
  PROVE  LocalIInv'
<1>1. news' \subseteq news /\ announced' \subseteq announced /\ sent' \subseteq sent
      BY DEF Local!AnnounceLost, Local!Reannounced
<1>2. UNCHANGED <<local, next, closedLocal, holds, gone, owed, retires>>
      BY DEF Local!AnnounceLost, Local!client
<1> QED BY <1>1, <1>2 DEF LocalIInv

LEMMA RetireKeeps ==
  ASSUME Local!IdLimits, LocalIInv, NEW s \in Local!Sequence, NEW to \in Local!Sequence, Local!Retire(s, to)
  PROVE  LocalIInv'
<1>1. /\ {s, to} \subseteq holds /\ s # to
      /\ holds' = holds \ {s} /\ gone' = gone \cup {s} /\ owed' = owed \cup {s}
      /\ retires' = retires \cup {<<s, to>>}
      /\ UNCHANGED <<local, announced, next, closedLocal, news, sent>>
      BY DEF Local!Retire, Local!server
<1>2. \A r \in retires' : r[1] \in gone' /\ r[1] # r[2]
      BY <1>1 DEF LocalIInv
<1>3. retires' \subseteq Local!Sequence \X Local!Sequence
      BY <1>1 DEF LocalIInv
<1> QED BY <1>1, <1>2, <1>3 DEF LocalIInv

LEMMA RetireAgainKeeps ==
  ASSUME Local!IdLimits, LocalIInv, NEW s \in Local!Sequence, NEW to \in Local!Sequence, Local!RetireAgain(s, to)
  PROVE  LocalIInv'
<1>1. /\ s \in owed /\ to \in holds /\ retires' = retires \cup {<<s, to>>}
      /\ UNCHANGED <<local, announced, next, closedLocal, news, sent, holds, gone, owed>>
      BY DEF Local!RetireAgain, Local!server, Local!client
<1>2. \A r \in retires' : r[1] \in gone' /\ r[1] # r[2]
      BY <1>1 DEF LocalIInv
<1>3. retires' \subseteq Local!Sequence \X Local!Sequence
      BY <1>1 DEF LocalIInv
<1> QED BY <1>1, <1>2, <1>3 DEF LocalIInv

LEMMA RetireLostKeeps ==
  ASSUME Local!IdLimits, LocalIInv, NEW r \in Local!Sequence \X Local!Sequence, Local!RetireLost(r)
  PROVE  LocalIInv'
BY DEF LocalIInv, Local!RetireLost, Local!server, Local!client

LEMMA RetireArrivesKeeps ==
  ASSUME Local!IdLimits, LocalIInv, NEW r \in Local!Sequence \X Local!Sequence, NEW acked \in BOOLEAN, Local!RetireArrives(r, acked)
  PROVE  LocalIInv'
<1>1. /\ r \in retires /\ retires' = retires \ {r} /\ UNCHANGED <<holds, gone, news, sent>>
      BY DEF Local!RetireArrives
<1>2. r[1] \in gone /\ r[1] # r[2] /\ r[1] \in 0..next - 1 /\ next \in Nat
  <2>1. r[1] \in gone /\ r[1] # r[2] /\ gone \subseteq 0..next - 1
        BY <1>1 DEF LocalIInv
  <2>2. next \in Nat
        BY DEF LocalIInv, Local!IdLimits
  <2> QED BY <2>1, <2>2
<1>3. ~Local!Refused(r[1], r[2])
      BY <1>2 DEF Local!Refused
<1>4. CASE UNCHANGED <<Local!server, owed>>
      BY <1>1, <1>4 DEF LocalIInv, Local!server
<1>5. CASE /\ closedLocal' = Local!Refused(r[1], r[2])
           /\ owed' = IF acked THEN owed \ {r[1]} ELSE owed
           /\ IF closedLocal' THEN UNCHANGED <<local, next, announced>>
              ELSE Local!TopUp(Local!Without(r[1])) /\ announced' = announced \ {r[1]}
  <2>1. closedLocal' = FALSE /\ owed' \subseteq owed /\ Local!TopUp(local \ {r[1]}) /\ announced' = announced \ {r[1]}
        BY <1>3, <1>5 DEF Local!Without, Local!Refused
  <2>2. /\ next' \in next..MaxIssued /\ local \ {r[1]} \subseteq local'
        /\ local' \subseteq 0..next' - 1 /\ Cardinality(local') <= Want
        BY <2>1, TopUpFits DEF LocalIInv
  <2>3. next' \in 0..MaxIssued /\ 0..next - 1 \subseteq 0..next' - 1
    <3>1. MaxIssued \in Nat /\ next \in 0..MaxIssued
          BY DEF LocalIInv, Local!IdLimits
    <3>2. next' \in Int /\ next <= next' /\ next' <= MaxIssued
          BY <2>2, <3>1
    <3>3. next' \in 0..MaxIssued
          BY <3>1, <3>2
    <3>4. next \in Int /\ next' \in Int /\ next <= next'
          BY <3>1, <3>2
    <3>5. 0..next - 1 \subseteq 0..next' - 1
          BY <3>4, Wider
    <3> QED BY <3>3, <3>5
  <2> QED BY <1>1, <1>2, <2>1, <2>2, <2>3 DEF LocalIInv
<1> QED BY <1>4, <1>5 DEF Local!RetireArrives

LEMMA LocalStepKeeps ==
  ASSUME Local!IdLimits, LocalIInv, [Local!Next]_(Local!vars)
  PROVE  LocalIInv'
<1>1. CASE UNCHANGED Local!vars
      BY <1>1 DEF LocalIInv, Local!vars, Local!server, Local!client
<1>2. CASE Local!Next
      BY <1>2, AnnounceKeeps, LearnKeeps, AnnounceAckedKeeps, AnnounceLostKeeps, RetireKeeps,
         RetireAgainKeeps, RetireLostKeeps, RetireArrivesKeeps DEF Local!Next
<1> QED BY <1>1, <1>2

LEMMA AcceptedNow ==
  ASSUME Local!IdLimits, LocalIInv
  PROVE  Local!LocalIdsAccepted
<1>1. 0..next - 1 \subseteq Local!Sequence
      BY DEF LocalIInv, Local!IdLimits, Local!Sequence
<1>2. IsFiniteSet(local)
  <2>1. IsFiniteSet(0..next - 1)
        BY FS_Interval DEF LocalIInv, Local!IdLimits
  <2>2. local \in SUBSET (0..next - 1)
        BY DEF LocalIInv
  <2> QED BY <2>1, <2>2, FS_Subset
<1>3. Cardinality(holds) <= Want
  <2>1. holds \in SUBSET local /\ Cardinality(local) <= Want /\ Want \in Nat
        BY DEF LocalIInv, Local!IdLimits
  <2>2. Cardinality(holds) <= Cardinality(local) /\ Cardinality(local) \in Nat /\ Cardinality(holds) \in Nat
        BY <1>2, <2>1, FS_Subset, FS_CardinalityType
  <2> QED BY <2>1, <2>2
<1>4. Local!TypeOK
      BY <1>1, SameCardinality DEF LocalIInv, Local!TypeOK
<1> QED BY <1>3, <1>4, SameCardinality DEF LocalIInv, Local!LocalIdsAccepted, Local!StillAccepted, Local!WithinLimit, Local!HonestStaysOpen

\* The IDs of the run: their invariant while that part moves.
LocalPart == part = "local" => LocalIInv

\* For any limits: every ID the client may send to is one the server's table
\* has, it never has more of them than it takes, and an honest client is never
\* closed on, whatever is lost, repeated or overtaken (retireLocal,
\* topUpConnectionIds, requeueControl).
THEOREM LocalIdsAreAccepted == ConnSpec => []LocalIdsAccepted
<1>1. ConnInit => LocalPart
      BY InitLocal, LocalAssumption DEF ConnInit, LocalPart
<1>2. ASSUME LocalPart, [ConnNext]_allVars PROVE LocalPart'
  <2>1. part' = part /\ (part = "local" => [Local!Next]_(Local!vars))
        BY <1>2 DEF ConnNext, allVars, localVars, Local!server, Local!client, Local!vars
  <2>2. CASE part # "local"
        BY <2>1, <2>2 DEF LocalPart
  <2>3. CASE part = "local"
    <3>1. LocalIInv'
          BY <1>2, <2>1, <2>3, LocalStepKeeps, LocalAssumption DEF LocalPart
    <3> QED BY <3>1 DEF LocalPart
  <2> QED BY <2>2, <2>3
<1>3. LocalPart => LocalIdsAccepted
      BY AcceptedNow, LocalAssumption DEF LocalPart, LocalIdsAccepted
<1> QED BY <1>1, <1>2, <1>3, PTL DEF ConnSpec
=============================================================================
