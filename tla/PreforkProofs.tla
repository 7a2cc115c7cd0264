---------------------------- MODULE PreforkProofs ----------------------------
(***************************************************************************)
(* Proofs about the supervisor of std/net/prefork.ts, for any number of    *)
(* workers and any times: no worker outlives it, those that run together   *)
(* share one set of pairs, and none is started before its wait is over.    *)
(***************************************************************************)
EXTENDS Prefork, FiniteSetTheorems, FunctionTheorems, WellFoundedInduction, TLAPS

SlotType ==
  [proc : {"none", "run", "zombie"}, term : BOOLEAN, kill : BOOLEAN, group : {0, 1},
   age : 0..QuickExitMs, wait : 0..BackoffCapMs, delay : 0..BackoffCapMs, gone : BOOLEAN]

\* What the invariant says of one slot, its young deaths k and the wait o owed
\* to it.  The delay the slot carries is the one promised after k deaths; it
\* waits at least as long as is owed, and once it has a process nothing is.
Sound(s, k, o) ==
  /\ s \in SlotType /\ k \in 0..MaxQuick /\ o \in 0..BackoffCapMs
  /\ s.delay = Promised(k)
  /\ IF s.proc = "none" THEN o <= s.wait ELSE o = 0

SlotsInv ==
  /\ slot = [i \in Workers |-> slot[i]] /\ quick = [i \in Workers |-> quick[i]]
  /\ owed = [i \in Workers |-> owed[i]]
  /\ \A i \in Workers : Sound(slot[i], quick[i], owed[i])

\* Before the first start there is no process, and nothing is owed.
FirstInv == pc = "first" => \A i \in Workers : slot[i].proc = "none" /\ owed[i] = 0

Looping == pc \in {"poll", "reap", "escalate", "restart"}

\* A slot is given up only where nothing is restarted, and there every slot
\* that lost its process in the loop is.
GoneInv ==
  \A i \in Workers :
    /\ restarts => ~slot[i].gone
    /\ ~restarts /\ Looping /\ slot[i].proc = "none" => slot[i].gone

Globals ==
  /\ grouped \in BOOLEAN /\ restarts \in BOOLEAN /\ cascading \in BOOLEAN
  /\ pc \in {"first", "poll", "reap", "escalate", "restart", "stop", "grace", "forced", "kill", "done"}
  /\ result \in {"stopped", "exited", "spawn failed"}
  /\ signals \in 0..MaxSignals
  /\ cascadeIn \in 0..GraceMs /\ deadlineIn \in 0..GraceMs /\ group \in {0, 1}

\* The inductive invariant.
IInv == Globals /\ SlotsInv /\ NoOrphan /\ OneGroup /\ FirstInv /\ GoneInv

-----------------------------------------------------------------------------
\* The powers of two, from the number of subsets of an interval.
LEMMA PowerType == \A n \in Nat : 2 ^ n \in Nat /\ 2 ^ n = Cardinality(SUBSET (1..n))
<1> SUFFICES ASSUME NEW n \in Nat PROVE 2 ^ n \in Nat /\ 2 ^ n = Cardinality(SUBSET (1..n))
    OBVIOUS
<1>1. IsFiniteSet(1..n) /\ Cardinality(1..n) = n
      BY FS_Interval
<1>2. IsFiniteSet(SUBSET (1..n)) /\ Cardinality(SUBSET (1..n)) = 2 ^ n
      BY <1>1, FS_SUBSET
<1> QED BY <1>2, FS_CardinalityType

\* Each power is twice the one before: a subset either has the last element or not.
LEMMA PowerDoubles ==
  ASSUME NEW n \in Nat
  PROVE  2 ^ (n + 1) = 2 * 2 ^ n
<1> DEFINE A == SUBSET (1..n)
           C == SUBSET (1..(n + 1))
           B == C \ A
           f == [X \in A |-> X \cup {n + 1}]
<1>1. 1..(n + 1) = (1..n) \cup {n + 1} /\ n + 1 \notin 1..n
      OBVIOUS
<1>2. IsFiniteSet(A) /\ IsFiniteSet(C)
  <2>1. IsFiniteSet(1..n) /\ IsFiniteSet(1..(n + 1))
        BY FS_Interval
  <2> QED BY <2>1, FS_SUBSET
<1>3. f \in [A -> B]
      BY <1>1
<1>4. \A X, Y \in A : f[X] = f[Y] => X = Y
      BY <1>1
<1>5. \A Y \in B : \E X \in A : f[X] = Y
  <2> SUFFICES ASSUME NEW Y \in B PROVE \E X \in A : f[X] = Y
      OBVIOUS
  <2>1. n + 1 \in Y /\ Y \subseteq (1..n) \cup {n + 1}
        BY <1>1
  <2>2. Y \ {n + 1} \in A
        BY <2>1
  <2>3. f[Y \ {n + 1}] = Y
        BY <2>1, <2>2
  <2> QED BY <2>2, <2>3
<1>6. ExistsBijection(A, B)
  <2> HIDE DEF A, B, f
  <2>1. f \in Bijection(A, B)
        BY <1>3, <1>4, <1>5, Fun_IsBij
  <2> QED BY <2>1 DEF ExistsBijection
<1> HIDE DEF f
<1>7. IsFiniteSet(B) /\ Cardinality(B) = Cardinality(A)
      BY <1>2, <1>6, FS_Bijection
<1>8. A \cup B = C /\ A \cap B = {}
      BY <1>1
<1> HIDE DEF A, B, C
<1>9. Cardinality(C) = Cardinality(A) + Cardinality(A) - Cardinality({})
  <2>1. Cardinality(A \cup B) = Cardinality(A) + Cardinality(B) - Cardinality(A \cap B)
        BY <1>2, <1>7, FS_Union
  <2> QED BY <1>7, <1>8, <2>1
<1>10. Cardinality(A) \in Nat /\ Cardinality({}) = 0
      BY <1>2, FS_CardinalityType, FS_EmptySet
<1>11. Cardinality(C) = 2 * Cardinality(A)
      BY <1>9, <1>10
<1> QED BY <1>11, PowerType DEF A, C

\* A power of two is above its exponent: there is no least exponent that it is not.
LEMMA PowerAbove == \A n \in Nat : 2 ^ n > n
<1> DEFINE S == {n \in Nat : ~(2 ^ n > n)}
           R == OpToRel(<, Nat)
<1> SUFFICES ASSUME S # {} PROVE FALSE
    OBVIOUS
<1>1. PICK n \in S : \A m \in S : ~(<<m, n>> \in R)
      BY NatLessThanWellFounded, WFMin
<1>2. n # 0
  <2> SUFFICES ASSUME n = 0 PROVE FALSE
      OBVIOUS
  <2>1. ~(2 ^ 0 > 0)
        OBVIOUS
  <2>2. 2 ^ 0 = 1
        OBVIOUS
  <2> QED BY <2>1, <2>2
<1>3. n - 1 \in Nat /\ n - 1 < n
      BY <1>2
<1>4. n - 1 \notin S
      BY <1>1, <1>3 DEF OpToRel
<1>5. 2 ^ (n - 1) > n - 1 /\ 2 ^ (n - 1) \in Nat
      BY <1>3, <1>4, PowerType
<1>6. 2 ^ ((n - 1) + 1) = 2 * 2 ^ (n - 1) /\ (n - 1) + 1 = n
      BY <1>3, PowerDoubles
<1>7. 2 ^ n > n
  <2> DEFINE p == 2 ^ (n - 1)
             q == 2 ^ n
  <2>1. p \in Nat /\ p > n - 1 /\ q = 2 * p
        BY <1>5, <1>6
  <2> HIDE DEF p, q
  <2>2. q > n
        BY <2>1, <1>2
  <2> QED BY <2>2 DEF q
<1> QED BY <1>7
-----------------------------------------------------------------------------
\* Min of two numbers.
LEMMA MinOfTwo ==
  ASSUME NEW a \in Int, NEW b \in Int
  PROVE  Min({a, b}) = IF a <= b THEN a ELSE b
BY DEF Min

\* backoff() doubles as the documentation promises: a delay that is promised
\* after k young deaths becomes the one promised after k + 1.
LEMMA NextPromise ==
  ASSUME NEW k \in 0..MaxQuick, NEW s, s.delay = Promised(k),
         s.delay \in 0..BackoffCapMs, NEW failed \in BOOLEAN, failed \/ s.age < QuickExitMs
  PROVE  /\ Min({k + 1, MaxQuick}) \in 0..MaxQuick
         /\ NextDelay(s, failed) = Promised(Min({k + 1, MaxQuick}))
         /\ NextDelay(s, failed) \in 0..BackoffCapMs
<1> DEFINE B == BackoffMs
           C == BackoffCapMs
           m == Min({k + 1, MaxQuick})
<1>1. B \in Nat /\ C \in Nat /\ B > 0 /\ C >= B /\ k \in 0..(C + 1) /\ MaxQuick = C + 1
      BY TimesAssumption DEF MaxQuick
<1>2. m = IF k + 1 <= C + 1 THEN k + 1 ELSE C + 1
      BY <1>1, MinOfTwo
<1>3. m \in 0..MaxQuick /\ m > 0
      BY <1>1, <1>2
<1>4. \A j \in Nat : B * 2 ^ j \in Nat /\ B * 2 ^ j >= 2 ^ j
  <2> SUFFICES ASSUME NEW j \in Nat PROVE B * 2 ^ j \in Nat /\ B * 2 ^ j >= 2 ^ j
      OBVIOUS
  <2> DEFINE p == 2 ^ j
  <2>1. p \in Nat
        BY PowerType
  <2> HIDE DEF p, B
  <2>2. B * p \in Nat /\ B * p >= p
        BY <2>1, <1>1
  <2> QED BY <2>2 DEF p
<1>5. \A j \in Nat \ {0} : Promised(j) = IF C <= B * 2 ^ (j - 1) THEN C ELSE B * 2 ^ (j - 1)
  <2> SUFFICES ASSUME NEW j \in Nat \ {0}
               PROVE  Promised(j) = IF C <= B * 2 ^ (j - 1) THEN C ELSE B * 2 ^ (j - 1)
      OBVIOUS
  <2>1. j - 1 \in Nat /\ j # 0
        OBVIOUS
  <2>2. B * 2 ^ (j - 1) \in Int /\ C \in Int
        BY <2>1, <1>4, <1>1
  <2>3. Promised(j) = Min({C, B * 2 ^ (j - 1)})
        BY <2>1 DEF Promised
  <2> QED BY <2>2, <2>3, MinOfTwo
<1>6. NextDelay(s, failed) = IF s.delay = 0 THEN B ELSE IF s.delay > C \div 2 THEN C ELSE s.delay * 2
  <2>1. s.delay = 0 => ~(s.delay > C \div 2)
        BY <1>1
  <2> QED BY <2>1 DEF NextDelay
<1>7. CASE k = 0
  <2>1. s.delay = 0 /\ m = 1
        BY <1>7, <1>1, <1>2 DEF Promised
  <2>2. Promised(1) = B
    <3>1. 2 ^ 0 = 1
          OBVIOUS
    <3>2. B * 2 ^ (1 - 1) = B
          BY <3>1, <1>1
    <3>3. Promised(1) = Min({C, B})
      <4>1. 1 # 0
            OBVIOUS
      <4> QED BY <3>2, <4>1, Zenon DEF Promised
    <3>4. Promised(1) = IF C <= B THEN C ELSE B
          BY <3>3, <1>1, MinOfTwo
    <3> HIDE DEF B, C
    <3> QED BY <3>4, <1>1
  <2> QED BY <2>1, <2>2, <1>1, <1>3, <1>6
<1>8. CASE k \in 1..C
  <2> DEFINE p == B * 2 ^ (k - 1)
             q == B * 2 ^ k
  <2>1. k \in Nat \ {0} /\ k + 1 \in Nat \ {0} /\ k - 1 \in Nat /\ k \in Nat /\ (k + 1) - 1 = k /\ m = k + 1
        BY <1>8, <1>1, <1>2
  <2>2. p \in Nat /\ q \in Nat /\ p > 0
    <3>1. 2 ^ (k - 1) > k - 1
          BY <2>1, PowerAbove
    <3>2. p >= 2 ^ (k - 1) /\ 2 ^ (k - 1) \in Nat
          BY <2>1, <1>4, PowerType
    <3>3. p \in Nat /\ q \in Nat
          BY <2>1, <1>4
    <3> QED BY <3>1, <3>2, <3>3, <2>1
  <2>3. q = 2 * p
    <3> DEFINE r == 2 ^ (k - 1)
    <3>1. r \in Nat /\ 2 ^ k = 2 * r
      <4>1. 2 ^ ((k - 1) + 1) = 2 * r /\ (k - 1) + 1 = k
            BY <2>1, PowerDoubles
      <4> QED BY <4>1, <2>1, PowerType
    <3>2. q = B * (2 * r)
          BY <3>1
    <3> HIDE DEF r, B
    <3>3. B * (2 * r) = 2 * (B * r)
          BY <3>1, <1>1
    <3> QED BY <3>2, <3>3 DEF r, B
  <2>4. s.delay = IF C <= p THEN C ELSE p
        BY <2>1, <1>5
  <2>5. Promised(m) = IF C <= q THEN C ELSE q
        BY <2>1, <1>5
  <2> HIDE DEF p, q
  <2>6. NextDelay(s, failed) = Promised(m) /\ NextDelay(s, failed) \in 0..C
        BY <2>2, <2>3, <2>4, <2>5, <1>1, <1>6
  <2> QED BY <2>6, <1>3
<1>9. CASE k = C + 1
  <2>1. m = C + 1 /\ C + 1 \in Nat \ {0} /\ (C + 1) - 1 = C
        BY <1>9, <1>1, <1>2
  <2>2. B * 2 ^ C >= C
    <3>1. 2 ^ C \in Nat /\ 2 ^ C > C /\ B * 2 ^ C >= 2 ^ C /\ B * 2 ^ C \in Nat
          BY <1>1, <1>4, PowerAbove, PowerType
    <3> QED BY <3>1, <1>1
  <2>3. Promised(C + 1) = C
        BY <2>1, <2>2, <1>1, <1>4, <1>5
  <2>4. s.delay = C
        BY <1>9, <2>3
  <2>5. C > C \div 2 /\ C # 0
        BY <1>1
  <2> QED BY <2>1, <2>3, <2>4, <2>5, <1>1, <1>3, <1>6
<1> QED BY <1>1, <1>7, <1>8, <1>9
-----------------------------------------------------------------------------
\* start(), of a slot that is owed nothing.
LEMMA StartedSound ==
  ASSUME NEW s, NEW k, NEW o, Sound(s, k, o), o = 0, NEW g \in {0, 1}
  PROVE  /\ Sound(Started(s, g), k, o)
         /\ Started(s, g).proc = "run" /\ Started(s, g).group = g /\ Started(s, g).gone = s.gone
<1>0. 0 \in 0..QuickExitMs
      BY TimesAssumption
<1>1. Started(s, g) \in SlotType /\ Started(s, g).delay = s.delay
      BY <1>0, Zenon DEF Sound, SlotType, Started
<1>2. Started(s, g).proc = "run" /\ Started(s, g).group = g /\ Started(s, g).gone = s.gone
      BY DEF Sound, SlotType, Started
<1> QED BY <1>1, <1>2 DEF Sound

\* A signal to a slot that has a process.
Touched(s) == IF s.proc = "none" THEN s ELSE [s EXCEPT !.term = TRUE]
Shot(s) == IF s.proc = "none" THEN s ELSE [s EXCEPT !.kill = TRUE]

\* signal() changes nothing the invariant reads.
LEMMA TouchedSound ==
  ASSUME NEW s, NEW k, NEW o, Sound(s, k, o)
  PROVE  /\ Sound(Touched(s), k, o) /\ Touched(s).proc = s.proc
         /\ Touched(s).group = s.group /\ Touched(s).gone = s.gone
<1>1. Touched(s) \in SlotType
      BY DEF Sound, SlotType, Touched
<1>2. /\ Touched(s).proc = s.proc /\ Touched(s).group = s.group /\ Touched(s).gone = s.gone
      /\ Touched(s).delay = s.delay /\ Touched(s).wait = s.wait
      BY DEF Sound, SlotType, Touched
<1> QED BY <1>1, <1>2 DEF Sound

\* reap() of a process that has exited: it was owed nothing.
LEMMA ReapedSound ==
  ASSUME NEW s, NEW k, NEW o, Sound(s, k, o), s.proc = "zombie", restarts \in BOOLEAN
  PROVE  /\ Sound(Reaped(s), k, o) /\ Sound(ReapedAt(s, 0), k, o)
         /\ \A x \in {Reaped(s), ReapedAt(s, 0)} :
              x.proc = "none" /\ x.gone = ~restarts /\ x.age = s.age /\ x.delay = s.delay
<1> USE TimesAssumption
<1>1. Reaped(s) \in SlotType /\ Reaped(s).proc = "none" /\ Reaped(s).gone = ~restarts
      /\ Reaped(s).age = s.age /\ Reaped(s).delay = s.delay /\ Reaped(s).wait = s.wait
      BY DEF Sound, SlotType, Reaped
<1>2. ReapedAt(s, 0) \in SlotType /\ ReapedAt(s, 0).proc = "none" /\ ReapedAt(s, 0).gone = ~restarts
      /\ ReapedAt(s, 0).age = s.age /\ ReapedAt(s, 0).delay = s.delay /\ ReapedAt(s, 0).wait = 0
      BY <1>1 DEF SlotType, ReapedAt
<1>3. s.wait \in Nat /\ o = 0
      BY DEF Sound, SlotType
<1> HIDE DEF Reaped, ReapedAt
<1> QED BY <1>1, <1>2, <1>3 DEF Sound

\* backoff(), of a slot without a process: it waits what the documentation
\* promises, and carries the promise on.
LEMMA BackoffSound ==
  ASSUME NEW s, NEW k, NEW o, Sound(s, k, o), s.proc = "none", NEW failed \in BOOLEAN
  PROVE  LET m == IF failed \/ s.age < QuickExitMs THEN Min({k + 1, MaxQuick}) ELSE 0
         IN  /\ Sound(Backoff(s, failed), m, Promised(m))
             /\ Backoff(s, failed).proc = "none" /\ Backoff(s, failed).gone = s.gone
<1> USE TimesAssumption
<1> DEFINE m == IF failed \/ s.age < QuickExitMs THEN Min({k + 1, MaxQuick}) ELSE 0
           d == NextDelay(s, failed)
<1>1. m \in 0..MaxQuick /\ d = Promised(m) /\ d \in 0..BackoffCapMs
  <2>1. CASE failed \/ s.age < QuickExitMs
    <3>1. k \in 0..MaxQuick /\ s.delay = Promised(k) /\ s.delay \in 0..BackoffCapMs
          BY DEF Sound, SlotType
    <3> QED BY <2>1, <3>1, NextPromise
  <2>2. CASE ~(failed \/ s.age < QuickExitMs)
    <3>1. m = 0 /\ d = 0
          BY <2>2 DEF NextDelay
    <3> QED BY <3>1 DEF Promised, MaxQuick
  <2> QED BY <2>1, <2>2
<1> HIDE DEF m, d
<1>2. Backoff(s, failed) = [s EXCEPT !.delay = d, !.wait = d]
      BY DEF Backoff, d
<1>3. /\ Backoff(s, failed) \in SlotType /\ Backoff(s, failed).delay = d /\ Backoff(s, failed).wait = d
      /\ Backoff(s, failed).proc = "none" /\ Backoff(s, failed).gone = s.gone
      BY <1>1, <1>2 DEF Sound, SlotType
<1>4. Sound(Backoff(s, failed), m, Promised(m))
      BY <1>1, <1>3 DEF Sound
<1> QED BY <1>3, <1>4 DEF m
-----------------------------------------------------------------------------
\* The invariant gives the property.
LEMMA IInvSupervised == IInv => Supervised
<1> SUFFICES ASSUME IInv PROVE Supervised
    OBVIOUS
<1>1. TypeOK
  <2>1. slot \in [Workers -> SlotType] /\ quick \in [Workers -> 0..MaxQuick] /\ owed \in [Workers -> 0..BackoffCapMs]
    <3>1. \A i \in Workers : slot[i] \in SlotType /\ quick[i] \in 0..MaxQuick /\ owed[i] \in 0..BackoffCapMs
          BY DEF IInv, SlotsInv, Sound
    <3> QED BY <3>1 DEF IInv, SlotsInv
  <2> QED BY <2>1 DEF IInv, Globals, TypeOK, SlotType
<1>2. BackoffHonoured
      BY DEF IInv, SlotsInv, Sound, BackoffHonoured
<1> QED BY <1>1, <1>2 DEF IInv, Supervised

\* The invariant holds when the supervisor starts.
LEMMA InitIInv == Init => IInv
<1> SUFFICES ASSUME Init PROVE IInv
    OBVIOUS
<1>1. \A i \in Workers : Sound(slot[i], quick[i], owed[i])
  <2>1. Waiting \in SlotType /\ Waiting.delay = 0 /\ Waiting.wait = 0 /\ Waiting.proc = "none"
    <3>1. 0 \in 0..QuickExitMs /\ 0 \in 0..BackoffCapMs
          BY TimesAssumption
    <3> QED BY <3>1 DEF Waiting, SlotType
  <2>2. 0 \in 0..MaxQuick /\ Promised(0) = 0 /\ 0 \in 0..BackoffCapMs
        BY TimesAssumption DEF MaxQuick, Promised
  <2> QED BY <2>1, <2>2 DEF Init, Sound
<1>2. SlotsInv
      BY <1>1 DEF Init, SlotsInv
<1>3. Globals
  <2>1. 0 \in 0..GraceMs /\ 0 \in 0..MaxSignals
        BY TimesAssumption, SignalsAssumption
  <2> QED BY <2>1 DEF Init, Globals
<1> QED BY <1>2, <1>3 DEF Init, IInv, NoOrphan, OneGroup, FirstInv, GoneInv, Looping, Waiting

\* Steps that start nothing: the processes that run afterwards ran before, on
\* the same pairs.
LEMMA NoStart ==
  ASSUME OneGroup, UNCHANGED grouped,
         \A i \in Workers : slot'[i].proc = "run" => slot[i].proc = "run" /\ slot'[i].group = slot[i].group
  PROVE  OneGroup'
BY DEF OneGroup

\* pollWait, a signal, and a group that waits: no slot changes.
LEMMA PollKeepsIInv ==
  ASSUME IInv, Poll \/ GroupWaits \/ Signal
  PROVE  IInv'
<1>0. UNCHANGED <<grouped, restarts, result, slot, cascading, cascadeIn, deadlineIn, group, quick, owed>>
      BY DEF Poll, GroupWaits, Signal
<1>1. signals' \in 0..MaxSignals
  <2>1. signals \in 0..MaxSignals
        BY DEF IInv, Globals
  <2>2. \/ signals' = signals \/ (signals > 0 /\ signals' = signals - 1)
        \/ (signals < MaxSignals /\ signals' = signals + 1)
        BY DEF Poll, GroupWaits, Signal
  <2> QED BY <2>1, <2>2, SignalsAssumption
<1>2. \/ Globals' /\ pc' # "first" /\ (pc' = "done" => pc = "done") /\ (Looping' => Looping)
      \/ UNCHANGED pc
      BY <1>0, <1>1 DEF IInv, Globals, Poll, GroupWaits, Signal, Looping
<1>3. Globals'
      BY <1>0, <1>1, <1>2 DEF IInv, Globals
<1>4. SlotsInv' /\ OneGroup'
      BY <1>0 DEF IInv, SlotsInv, OneGroup
<1>5. NoOrphan' /\ FirstInv' /\ GoneInv'
      BY <1>0, <1>2 DEF IInv, NoOrphan, FirstInv, GoneInv, Children, Looping
<1> QED BY <1>3, <1>4, <1>5 DEF IInv

\* Steps of the stop, and of a group that outlived its grace: signals go out
\* and what has exited is reaped, the waits stay.
Quiet(s, x) ==
  /\ x \in SlotType /\ x.delay = s.delay /\ x.wait = s.wait /\ x.group = s.group
  /\ \/ x.proc = s.proc /\ x.gone = s.gone
     \/ s.proc = "zombie" /\ x.proc = "none" /\ x.gone = ~restarts
     \/ s.proc = "run" /\ x.proc = "zombie" /\ x.gone = s.gone

\* A step that starts no process and changes no wait keeps the invariant.
LEMMA QuietKeepsIInv ==
  ASSUME IInv, Globals', UNCHANGED <<grouped, restarts, quick, owed>>,
         slot' = [i \in Workers |-> slot'[i]],
         \A i \in Workers : Quiet(slot[i], slot'[i]),
         Looping' => Looping, pc' = "first" => pc = "first",
         pc' = "done" => pc = "done" \/ \A i \in Workers : slot'[i].proc = "none"
  PROVE  IInv'
<1>1. SlotsInv'
  <2> SUFFICES ASSUME NEW i \in Workers PROVE Sound(slot'[i], quick[i], owed[i])
      BY DEF IInv, SlotsInv
  <2>1. Sound(slot[i], quick[i], owed[i])
        BY DEF IInv, SlotsInv
  <2>2. slot[i].wait \in Nat
        BY <2>1 DEF Sound, SlotType
  <2>3. slot[i].proc = "zombie" => owed[i] <= slot[i].wait
        BY <2>1, <2>2 DEF Sound
  <2>4. Quiet(slot[i], slot'[i])
        OBVIOUS
  <2> QED BY <2>1, <2>3, <2>4 DEF Sound, Quiet
<1>2. OneGroup'
  <2>1. \A i \in Workers : slot'[i].proc = "run" => slot[i].proc = "run" /\ slot'[i].group = slot[i].group
        BY DEF Quiet
  <2> QED BY <2>1, NoStart DEF IInv
<1>3. NoOrphan'
  <2>1. pc = "done" => \A i \in Workers : slot'[i].proc = "none"
        BY DEF IInv, NoOrphan, Children, Quiet
  <2> QED BY <2>1 DEF NoOrphan, Children
<1>4. FirstInv'
      BY DEF IInv, FirstInv, Quiet
<1>5. GoneInv'
      BY DEF IInv, GoneInv, Quiet
<1> QED BY <1>1, <1>2, <1>3, <1>4, <1>5 DEF IInv

\* The quiet steps of one slot: a signal sent, a process that dies, a process
\* reaped.
LEMMA QuietSteps ==
  ASSUME NEW s \in SlotType, restarts \in BOOLEAN
  PROVE  /\ Quiet(s, s)
         /\ Quiet(s, Touched(s)) /\ Touched(s).proc = s.proc
         /\ Quiet(s, Shot(s)) /\ Shot(s).proc = s.proc
         /\ s.proc = "zombie" => Quiet(s, Reaped(s)) /\ Quiet(s, Reaped(Touched(s)))
         /\ s.proc = "run" => Quiet(s, [s EXCEPT !.proc = "zombie"])
<1>1. Quiet(s, s)
      BY DEF Quiet, SlotType
<1>2. Quiet(s, Touched(s)) /\ Touched(s).proc = s.proc
      BY DEF Quiet, SlotType, Touched
<1>3. Quiet(s, Shot(s)) /\ Shot(s).proc = s.proc
      BY DEF Quiet, SlotType, Shot
<1>4. ASSUME s.proc = "zombie" PROVE Quiet(s, Reaped(s))
      BY <1>4 DEF Quiet, SlotType, Reaped
<1>5. ASSUME s.proc = "zombie" PROVE Quiet(s, Reaped(Touched(s)))
      BY <1>5 DEF Quiet, SlotType, Reaped, Touched
<1>6. ASSUME s.proc = "run" PROVE Quiet(s, [s EXCEPT !.proc = "zombie"])
      BY <1>6 DEF Quiet, SlotType
<1> QED BY <1>1, <1>2, <1>3, <1>4, <1>5, <1>6

\* The types the invariant gives.
LEMMA Typed == IInv => restarts \in BOOLEAN /\ \A i \in Workers : slot[i] \in SlotType
BY DEF IInv, Globals, SlotsInv, Sound

\* escalate().
LEMMA EscalateKeepsIInv == IInv /\ Escalate => IInv'
<1> SUFFICES ASSUME IInv, Escalate PROVE IInv'
    OBVIOUS
<1>1. Globals'
  <2>1. GraceMs \in 0..GraceMs
        BY TimesAssumption
  <2> QED BY <2>1 DEF IInv, Globals, Escalate
<1>2. slot' = [i \in Workers |-> slot'[i]] /\ \A i \in Workers : slot'[i] \in {slot[i], Shot(slot[i])}
  <2>1. slot = [i \in Workers |-> slot[i]]
        BY DEF IInv, SlotsInv
  <2>2. slot' = slot \/ slot' = [i \in Workers |-> Shot(slot[i])]
        BY DEF Escalate, EscalateSignal, Killed, Shot
  <2> QED BY <2>1, <2>2
<1>3. \A i \in Workers : Quiet(slot[i], slot'[i])
      BY <1>2, Typed, QuietSteps
<1> QED BY <1>1, <1>2, <1>3, QuietKeepsIInv DEF Escalate, Looping

\* stop() and the two loops after it: SIGTERM, the grace, SIGKILL.
LEMMA StopKeepsIInv ==
  ASSUME IInv, StopTerm \/ GraceTurn \/ GraceEnds \/ KillTurn
  PROVE  IInv'
<1>0. UNCHANGED <<grouped, restarts, quick, owed>>
      BY DEF StopTerm, GraceTurn, GraceEnds, KillTurn
<1>1. Globals'
  <2>1. GraceMs \in 0..GraceMs /\ signals' \in 0..MaxSignals
    <3>1. signals \in 0..MaxSignals
          BY DEF IInv, Globals
    <3>2. signals' = signals \/ (signals > 0 /\ signals' = signals - 1) \/ (signals # 0 /\ signals' = signals - 1)
          BY DEF StopTerm, GraceTurn, GraceEnds, KillTurn
    <3> QED BY <3>1, <3>2, TimesAssumption, SignalsAssumption
  <2> QED BY <2>1 DEF IInv, Globals, StopTerm, GraceTurn, GraceEnds, KillTurn
<1>2. /\ slot' = [i \in Workers |-> slot'[i]]
      /\ \A i \in Workers :
           \/ slot'[i] \in {slot[i], Touched(slot[i]), Shot(slot[i])}
           \/ slot[i].proc = "zombie" /\ slot'[i] \in {Reaped(slot[i]), Reaped(Touched(slot[i]))}
  <2>1. CASE StopTerm
    <3>1. slot' = [i \in Workers |-> IF i \in Zombies THEN Reaped(Touched(slot[i])) ELSE Touched(slot[i])]
          BY <2>1 DEF StopTerm, ReapStopping, Termed, Touched
    <3> QED BY <3>1 DEF Zombies
  <2>2. CASE GraceTurn \/ KillTurn
    <3>1. slot' = [i \in Workers |-> IF i \in Zombies THEN Reaped(slot[i]) ELSE slot[i]]
          BY <2>2 DEF GraceTurn, KillTurn, ReapStopping
    <3> QED BY <3>1 DEF Zombies
  <2>3. CASE GraceEnds
    <3>1. slot' = [i \in Workers |-> Shot(slot[i])]
          BY <2>3 DEF GraceEnds, Killed, Shot
    <3> QED BY <3>1
  <2> QED BY <2>1, <2>2, <2>3
<1>3. \A i \in Workers : Quiet(slot[i], slot'[i])
      BY <1>2, Typed, QuietSteps
<1>4. pc' \notin {"first", "poll", "reap", "escalate", "restart"}
      BY DEF StopTerm, GraceTurn, GraceEnds, KillTurn
<1>5. ASSUME pc' = "done" PROVE \A i \in Workers : slot'[i].proc = "none"
  <2> SUFFICES ASSUME NEW i \in Workers PROVE slot'[i].proc = "none"
      OBVIOUS
  <2>1. slot[i] \in SlotType /\ restarts \in BOOLEAN
        BY Typed
  <2>2. CASE GraceEnds
    <3>1. slot[i].proc = "none"
          BY <1>5, <2>2 DEF GraceEnds, Children
    <3> QED BY <2>2, <3>1 DEF GraceEnds, Killed
  <2>3. CASE KillTurn
    <3>1. slot[i].proc = "none" \/ i \in Zombies
          BY <1>5, <2>3 DEF KillTurn, AllReaped, Children
    <3>2. slot'[i] = IF i \in Zombies THEN Reaped(slot[i]) ELSE slot[i]
          BY <2>3 DEF KillTurn, ReapStopping
    <3>3. Reaped(slot[i]).proc = "none"
          BY <2>1 DEF Reaped, SlotType
    <3> QED BY <3>1, <3>2, <3>3 DEF Zombies
  <2>4. CASE StopTerm \/ GraceTurn
    <3>1. pc' # "done"
          BY <2>4 DEF StopTerm, GraceTurn
    <3> QED BY <1>5, <3>1
  <2> QED BY <2>2, <2>3, <2>4
<1> QED BY <1>0, <1>1, <1>2, <1>3, <1>4, <1>5, QuietKeepsIInv DEF Looping

\* A worker exits, whatever the supervisor is doing.
LEMMA DieKeepsIInv ==
  ASSUME IInv, NEW w \in Workers, Die(w)
  PROVE  IInv'
<1>1. Globals'
      BY DEF IInv, Globals, Die
<1>2. slot' = [i \in Workers |-> IF i = w THEN [slot[w] EXCEPT !.proc = "zombie"] ELSE slot[i]]
  <2>1. slot = [i \in Workers |-> slot[i]]
        BY DEF IInv, SlotsInv
  <2>2. slot' = [slot EXCEPT ![w] = [slot[w] EXCEPT !.proc = "zombie"]]
        BY DEF Die
  <2> QED BY <2>1, <2>2
<1>3. \A i \in Workers : Quiet(slot[i], slot'[i])
  <2>1. slot[w].proc = "run"
        BY DEF Die
  <2> QED BY <1>2, <2>1, Typed, QuietSteps
<1>4. slot' = [i \in Workers |-> slot'[i]]
      BY <1>2
<1>5. UNCHANGED <<grouped, restarts, pc, quick, owed>>
      BY DEF Die
<1> QED BY <1>1, <1>3, <1>4, <1>5, QuietKeepsIInv DEF Looping

-----------------------------------------------------------------------------
\* What a step of the loop, or the first start, has to leave behind.
LEMMA SlotsKeepIInv ==
  ASSUME Globals', OneGroup', pc' \notin {"first", "done"},
         slot' = [i \in Workers |-> slot'[i]], quick' = [i \in Workers |-> quick'[i]],
         owed' = [i \in Workers |-> owed'[i]],
         \A i \in Workers : Sound(slot'[i], quick'[i], owed'[i]),
         \A i \in Workers : (restarts' => ~slot'[i].gone)
                            /\ (~restarts' /\ Looping' /\ slot'[i].proc = "none" => slot'[i].gone)
  PROVE  IInv'
<1>1. SlotsInv'
      BY DEF SlotsInv
<1>2. NoOrphan' /\ FirstInv' /\ GoneInv'
      BY DEF NoOrphan, FirstInv, GoneInv
<1> QED BY <1>1, <1>2 DEF IInv

\* restart(true).
LEMMA StartFirstKeepsIInv == IInv /\ StartFirst => IInv'
<1> SUFFICES ASSUME IInv, StartFirst PROVE IInv'
    OBVIOUS
<1>0. UNCHANGED <<grouped, restarts, quick, owed>> /\ group \in {0, 1}
      BY DEF IInv, Globals, StartFirst
<1>1. Globals'
      BY DEF IInv, Globals, StartFirst
<1>2. \A i \in Workers : Sound(slot[i], quick[i], owed[i]) /\ slot[i].proc = "none" /\ owed[i] = 0
                         /\ (restarts => ~slot[i].gone)
      BY DEF IInv, SlotsInv, FirstInv, GoneInv, StartFirst
<1>3. /\ slot' = [i \in Workers |-> slot'[i]]
      /\ \A i \in Workers : slot'[i] \in {slot[i], Started(slot[i], group)}
      /\ pc' = "poll" => \A i \in Workers : slot'[i] = Started(slot[i], group)
  <2>1. \/ slot' = [i \in Workers |-> Started(slot[i], group)]
        \/ pc' # "poll" /\ \E f \in Workers :
             slot' = [i \in Workers |-> IF i < f THEN Started(slot[i], group) ELSE slot[i]]
        BY DEF StartFirst
  <2> QED BY <2>1
<1>4. \A i \in Workers :
        /\ Sound(Started(slot[i], group), quick[i], owed[i])
        /\ Started(slot[i], group).proc = "run" /\ Started(slot[i], group).group = group
        /\ Started(slot[i], group).gone = slot[i].gone
      BY <1>0, <1>2, StartedSound
<1>5. \A i \in Workers : Sound(slot'[i], quick'[i], owed'[i]) /\ slot'[i].gone = slot[i].gone
      BY <1>0, <1>2, <1>3, <1>4
<1>6. OneGroup'
      BY <1>2, <1>3, <1>4 DEF OneGroup
<1>7. pc' \in {"poll", "stop"}
      BY DEF StartFirst
<1>8. quick' = [i \in Workers |-> quick'[i]] /\ owed' = [i \in Workers |-> owed'[i]]
      BY <1>0 DEF IInv, SlotsInv
<1>9. \A i \in Workers : (restarts' => ~slot'[i].gone)
                         /\ (~restarts' /\ Looping' /\ slot'[i].proc = "none" => slot'[i].gone)
      BY <1>0, <1>2, <1>3, <1>4, <1>5, <1>7 DEF Looping
<1> QED BY <1>1, <1>3, <1>5, <1>6, <1>7, <1>8, <1>9, SlotsKeepIInv

\* The ghosts of the slots that are backed off, and of the others.
Deaths(i, failed) == IF failed \/ slot[i].age < QuickExitMs THEN Min({quick[i] + 1, MaxQuick}) ELSE 0

\* What the promise owes after the deaths of the slots in own.
LEMMA OweAt ==
  ASSUME NEW own, NEW failed, Owe(own, failed)
  PROVE  /\ quick' = [i \in Workers |-> quick'[i]] /\ owed' = [i \in Workers |-> owed'[i]]
         /\ \A i \in Workers : i \notin own => quick'[i] = quick[i] /\ owed'[i] = owed[i]
         /\ \A i \in Workers \cap own :
              quick'[i] = Deaths(i, failed) /\ owed'[i] = Promised(Deaths(i, failed))
BY DEF Owe, Deaths

\* backoff() after a reap, and after a start that was refused.
LEMMA BackedOff ==
  ASSUME IInv, NEW i \in Workers
  PROVE  /\ slot[i].proc = "zombie" =>
              /\ Sound(Backoff(Reaped(slot[i]), FALSE), Deaths(i, FALSE), Promised(Deaths(i, FALSE)))
              /\ Backoff(Reaped(slot[i]), FALSE).proc = "none"
              /\ Backoff(Reaped(slot[i]), FALSE).gone = ~restarts
         /\ slot[i].proc = "none" =>
              /\ Sound(Backoff(slot[i], TRUE), Deaths(i, TRUE), Promised(Deaths(i, TRUE)))
              /\ Backoff(slot[i], TRUE).proc = "none" /\ Backoff(slot[i], TRUE).gone = slot[i].gone
<1>0. Sound(slot[i], quick[i], owed[i]) /\ restarts \in BOOLEAN
      BY DEF IInv, SlotsInv, Globals
<1>1. ASSUME slot[i].proc = "zombie"
      PROVE  /\ Sound(Backoff(Reaped(slot[i]), FALSE), Deaths(i, FALSE), Promised(Deaths(i, FALSE)))
             /\ Backoff(Reaped(slot[i]), FALSE).proc = "none"
             /\ Backoff(Reaped(slot[i]), FALSE).gone = ~restarts
  <2>1. /\ Sound(Reaped(slot[i]), quick[i], owed[i]) /\ Reaped(slot[i]).proc = "none"
        /\ Reaped(slot[i]).gone = ~restarts /\ Reaped(slot[i]).age = slot[i].age
        BY <1>0, <1>1, ReapedSound
  <2>2. Deaths(i, FALSE) = IF FALSE \/ Reaped(slot[i]).age < QuickExitMs THEN Min({quick[i] + 1, MaxQuick}) ELSE 0
        BY <2>1 DEF Deaths
  <2> QED BY <2>1, <2>2, BackoffSound
<1>2. ASSUME slot[i].proc = "none"
      PROVE  /\ Sound(Backoff(slot[i], TRUE), Deaths(i, TRUE), Promised(Deaths(i, TRUE)))
             /\ Backoff(slot[i], TRUE).proc = "none" /\ Backoff(slot[i], TRUE).gone = slot[i].gone
  <2>1. Deaths(i, TRUE) = IF TRUE \/ slot[i].age < QuickExitMs THEN Min({quick[i] + 1, MaxQuick}) ELSE 0
        BY DEF Deaths
  <2> QED BY <1>0, <1>2, <2>1, BackoffSound
<1> QED BY <1>1, <1>2

\* reap(false): each of its three ways.
LEMMA ReapKeepsIInv == IInv /\ Reap => IInv'
<1> SUFFICES ASSUME IInv, Reap PROVE IInv'
    OBVIOUS
<1> DEFINE Plain ==
             /\ slot' = [i \in Workers |-> IF i \in Zombies THEN ReapedAt(slot[i], 0) ELSE slot[i]]
             /\ UNCHANGED <<cascading, cascadeIn, quick, owed>>
           Alone ==
             /\ slot' = [i \in Workers |-> IF i \in Zombies THEN Backoff(Reaped(slot[i]), FALSE) ELSE slot[i]]
             /\ Owe(Zombies, FALSE) /\ UNCHANGED <<cascading, cascadeIn>>
           Raw(first) == [i \in Workers |->
                  CASE i = first -> Backoff(Reaped(slot[i]), FALSE)
                    [] i \in Zombies \ {first} -> ReapedAt(slot[i], 0)
                    [] OTHER -> slot[i]]
           Together(first) ==
             /\ slot' = Termed(Raw(first)) /\ Owe({first}, FALSE)
             /\ cascading' = TRUE /\ cascadeIn' = GraceMs
           Fine(i) ==
             /\ Sound(slot'[i], quick'[i], owed'[i])
             /\ IF i \in Zombies THEN slot'[i].proc = "none" /\ slot'[i].gone = ~restarts
                ELSE slot'[i].proc = slot[i].proc /\ slot'[i].gone = slot[i].gone /\ slot'[i].group = slot[i].group
           Kept == /\ slot' = [i \in Workers |-> slot'[i]] /\ quick' = [i \in Workers |-> quick'[i]]
                   /\ owed' = [i \in Workers |-> owed'[i]]
                   /\ \A i \in Workers : Fine(i)
                   /\ cascading' \in BOOLEAN /\ cascadeIn' \in 0..GraceMs
<1>1. Plain \/ Alone \/ \E first \in Zombies : Together(first)
      BY Zenon DEF Reap
<1>2. \A i \in Workers : Sound(slot[i], quick[i], owed[i])
      BY DEF IInv, SlotsInv
<1>3. /\ quick = [i \in Workers |-> quick[i]] /\ owed = [i \in Workers |-> owed[i]]
      /\ restarts \in BOOLEAN /\ cascading \in BOOLEAN /\ cascadeIn \in 0..GraceMs
      BY DEF IInv, SlotsInv, Globals
<1>4. \A i \in Workers : i \in Zombies <=> slot[i].proc = "zombie"
      BY DEF Zombies
<1>5. \A i \in Zombies : i \in Workers
      BY DEF Zombies
<1>6. ASSUME Plain PROVE Kept
  <2>1. \A i \in Workers : Fine(i)
    <3> SUFFICES ASSUME NEW i \in Workers PROVE Fine(i)
        OBVIOUS
    <3>1. CASE i \in Zombies
      <4>1. /\ Sound(ReapedAt(slot[i], 0), quick[i], owed[i]) /\ ReapedAt(slot[i], 0).proc = "none"
            /\ ReapedAt(slot[i], 0).gone = ~restarts
            BY <3>1, <1>2, <1>3, <1>4, ReapedSound
      <4> QED BY <1>6, <3>1, <4>1
    <3>2. CASE i \notin Zombies
          BY <1>6, <3>2, <1>2
    <3> QED BY <3>1, <3>2
  <2> HIDE DEF Fine
  <2> QED BY <1>3, <1>6, <2>1
<1>7. ASSUME Alone PROVE Kept
  <2>0. /\ quick' = [i \in Workers |-> quick'[i]] /\ owed' = [i \in Workers |-> owed'[i]]
        /\ \A i \in Workers : i \notin Zombies => quick'[i] = quick[i] /\ owed'[i] = owed[i]
        /\ \A i \in Workers \cap Zombies :
              quick'[i] = Deaths(i, FALSE) /\ owed'[i] = Promised(Deaths(i, FALSE))
        BY <1>7, OweAt
  <2>1. \A i \in Workers : Fine(i)
    <3> SUFFICES ASSUME NEW i \in Workers PROVE Fine(i)
        OBVIOUS
    <3>1. CASE i \in Zombies
      <4>1. /\ Sound(Backoff(Reaped(slot[i]), FALSE), Deaths(i, FALSE), Promised(Deaths(i, FALSE)))
            /\ Backoff(Reaped(slot[i]), FALSE).proc = "none"
            /\ Backoff(Reaped(slot[i]), FALSE).gone = ~restarts
            BY <3>1, <1>4, BackedOff
      <4> QED BY <1>7, <2>0, <3>1, <4>1
    <3>2. CASE i \notin Zombies
          BY <1>7, <2>0, <3>2, <1>2
    <3> QED BY <3>1, <3>2
  <2> HIDE DEF Fine
  <2> QED BY <1>3, <1>7, <2>0, <2>1
<1>8. ASSUME NEW first \in Zombies, Together(first) PROVE Kept
  <2>0. /\ quick' = [i \in Workers |-> quick'[i]] /\ owed' = [i \in Workers |-> owed'[i]]
        /\ \A i \in Workers : i \notin {first} => quick'[i] = quick[i] /\ owed'[i] = owed[i]
        /\ \A i \in Workers \cap {first} :
              quick'[i] = Deaths(i, FALSE) /\ owed'[i] = Promised(Deaths(i, FALSE))
        BY <1>8, OweAt
  <2>1. slot' = [i \in Workers |-> Touched(Raw(first)[i])]
        BY <1>8 DEF Termed, Touched
  <2>2. \A i \in Workers : Fine(i)
    <3> SUFFICES ASSUME NEW i \in Workers PROVE Fine(i)
        OBVIOUS
    <3>0. PICK x : x = Raw(first)[i]
          OBVIOUS
    <3>1. slot'[i] = Touched(x)
          BY <2>1, <3>0
    <3>2. /\ Sound(x, quick'[i], owed'[i])
          /\ IF i \in Zombies THEN x.proc = "none" /\ x.gone = ~restarts
             ELSE x.proc = slot[i].proc /\ x.gone = slot[i].gone /\ x.group = slot[i].group
      <4>1. CASE i = first
        <5>1. x = Backoff(Reaped(slot[i]), FALSE)
              BY <3>0, <4>1
        <5>2. /\ Sound(Backoff(Reaped(slot[i]), FALSE), Deaths(i, FALSE), Promised(Deaths(i, FALSE)))
              /\ Backoff(Reaped(slot[i]), FALSE).proc = "none"
              /\ Backoff(Reaped(slot[i]), FALSE).gone = ~restarts
              BY <4>1, <1>4, BackedOff
        <5> QED BY <2>0, <4>1, <5>1, <5>2
      <4>2. CASE i \in Zombies \ {first}
        <5>1. x = ReapedAt(slot[i], 0)
              BY <3>0, <4>2
        <5>2. /\ Sound(ReapedAt(slot[i], 0), quick[i], owed[i]) /\ ReapedAt(slot[i], 0).proc = "none"
              /\ ReapedAt(slot[i], 0).gone = ~restarts
              BY <4>2, <1>2, <1>3, <1>4, ReapedSound
        <5> QED BY <2>0, <4>2, <5>1, <5>2
      <4>3. CASE i \notin Zombies
        <5>1. x = slot[i]
              BY <3>0, <4>3
        <5> QED BY <2>0, <1>2, <4>3, <5>1
      <4> QED BY <4>1, <4>2, <4>3
    <3>3. /\ Sound(Touched(x), quick'[i], owed'[i]) /\ Touched(x).proc = x.proc
          /\ Touched(x).group = x.group /\ Touched(x).gone = x.gone
          BY <3>2, TouchedSound
    <3> QED BY <3>1, <3>2, <3>3
  <2>3. slot' = [i \in Workers |-> slot'[i]]
        BY <2>1
  <2>4. GraceMs \in 0..GraceMs
        BY TimesAssumption
  <2> HIDE DEF Fine
  <2> QED BY <1>8, <2>0, <2>2, <2>3, <2>4
<1>9. Kept
  <2> HIDE DEF Kept, Plain, Alone, Together
  <2> QED BY <1>1, <1>6, <1>7, <1>8
<1> HIDE DEF Plain, Alone, Together
<1>10. Globals'
      BY <1>9 DEF IInv, Globals, Reap
<1>11. UNCHANGED <<grouped, restarts>> /\ pc = "reap" /\ pc' \in {"stop", "escalate"}
      BY DEF Reap
<1>12. \A i \in Workers : Fine(i)
      BY <1>9
<1>13. OneGroup'
  <2>1. \A i \in Workers : slot'[i].proc = "run" => slot[i].proc = "run" /\ slot'[i].group = slot[i].group
        BY <1>12
  <2> QED BY <1>11, <2>1, NoStart DEF IInv
<1>14. \A i \in Workers : (restarts' => ~slot'[i].gone)
                         /\ (~restarts' /\ Looping' /\ slot'[i].proc = "none" => slot'[i].gone)
      BY <1>11, <1>12 DEF IInv, GoneInv, Looping
<1>15. \A i \in Workers : Sound(slot'[i], quick'[i], owed'[i])
      BY <1>12
<1> HIDE DEF Fine
<1> QED BY <1>9, <1>10, <1>11, <1>13, <1>14, <1>15, SlotsKeepIInv

\* restart(false) without a service worker.
LEMMA RestartEachKeepsIInv ==
  ASSUME IInv, NEW fails, RestartEach(fails)
  PROVE  IInv'
<1>0. /\ UNCHANGED <<grouped, restarts, result, signals, cascading, cascadeIn, deadlineIn, group>>
      /\ pc = "restart" /\ pc' = "poll" /\ ~grouped /\ fails \subseteq Due /\ Owe(fails, TRUE)
      BY DEF RestartEach
<1>1. Globals' /\ group \in {0, 1}
      BY <1>0 DEF IInv, Globals
<1>2. /\ quick' = [i \in Workers |-> quick'[i]] /\ owed' = [i \in Workers |-> owed'[i]]
      /\ \A i \in Workers : i \notin fails => quick'[i] = quick[i] /\ owed'[i] = owed[i]
      /\ \A i \in Workers \cap fails :
           quick'[i] = Deaths(i, TRUE) /\ owed'[i] = Promised(Deaths(i, TRUE))
      BY <1>0, OweAt
<1>3. slot' = [i \in Workers |-> slot'[i]]
      BY DEF RestartEach
<1>4. \A i \in Workers :
        /\ Sound(slot'[i], quick'[i], owed'[i])
        /\ slot'[i].gone = slot[i].gone /\ (slot'[i].proc = "none" => slot[i].proc = "none")
  <2> SUFFICES ASSUME NEW i \in Workers
               PROVE  /\ Sound(slot'[i], quick'[i], owed'[i])
                      /\ slot'[i].gone = slot[i].gone /\ (slot'[i].proc = "none" => slot[i].proc = "none")
      OBVIOUS
  <2>0. Sound(slot[i], quick[i], owed[i])
        BY DEF IInv, SlotsInv
  <2>1. CASE i \in fails
    <3>1. slot[i].proc = "none"
          BY <1>0, <2>1 DEF Due
    <3>2. slot'[i] = Backoff(slot[i], TRUE)
          BY <2>1 DEF RestartEach
    <3> QED BY <1>2, <2>1, <3>1, <3>2, BackedOff
  <2>2. CASE i \in Due \ fails
    <3>1. slot[i].proc = "none" /\ slot[i].wait = 0
          BY <2>2 DEF Due
    <3>2. slot'[i] = Started(slot[i], group)
          BY <2>2 DEF RestartEach
    <3>3. owed[i] = 0
          BY <2>0, <3>1, TimesAssumption DEF Sound
    <3>4. /\ Sound(Started(slot[i], group), quick[i], owed[i]) /\ Started(slot[i], group).proc = "run"
          /\ Started(slot[i], group).gone = slot[i].gone
          BY <1>1, <2>0, <3>3, StartedSound
    <3> QED BY <1>2, <2>2, <3>2, <3>4
  <2>3. CASE i \notin Due
    <3>1. slot'[i] = slot[i] /\ i \notin fails
          BY <1>0, <2>3 DEF RestartEach
    <3> QED BY <1>2, <2>0, <3>1
  <2> QED BY <2>1, <2>2, <2>3
<1>5. OneGroup'
      BY <1>0 DEF OneGroup
<1>6. \A i \in Workers : (restarts' => ~slot'[i].gone)
                         /\ (~restarts' /\ Looping' /\ slot'[i].proc = "none" => slot'[i].gone)
      BY <1>0, <1>4 DEF IInv, GoneInv, Looping
<1> QED BY <1>0, <1>1, <1>2, <1>3, <1>4, <1>5, <1>6, SlotsKeepIInv

\* When a group is due none of it runs, none was given up, and none is owed a wait.
LEMMA GroupOwedNothing ==
  ASSUME IInv, GroupDue, Looping
  PROVE  restarts /\ \A i \in Workers : slot[i].proc = "none" /\ ~slot[i].gone /\ owed[i] = 0
<1>1. \A i \in Workers : slot[i].proc = "none"
      BY DEF GroupDue, Children
<1>2. restarts
      BY <1>1 DEF GroupDue, IInv, GoneInv, Globals
<1>3. \A i \in Workers : ~slot[i].gone /\ slot[i].wait = 0
      BY <1>2 DEF GroupDue, IInv, GoneInv
<1>4. \A i \in Workers : owed[i] = 0
  <2> SUFFICES ASSUME NEW i \in Workers PROVE owed[i] = 0
      OBVIOUS
  <2>1. Sound(slot[i], quick[i], owed[i])
        BY DEF IInv, SlotsInv
  <2> QED BY <2>1, <1>1, <1>3, TimesAssumption DEF Sound
<1> QED BY <1>1, <1>2, <1>3, <1>4

\* restartGroup(false), all started.
LEMMA RestartGroupKeepsIInv == IInv /\ RestartGroup => IInv'
<1> SUFFICES ASSUME IInv, RestartGroup PROVE IInv'
    OBVIOUS
<1>0. /\ UNCHANGED <<grouped, restarts, result, signals, cascadeIn, deadlineIn, quick, owed>>
      /\ pc = "restart" /\ pc' = "poll" /\ GroupDue /\ cascading' = FALSE
      BY DEF RestartGroup
<1>1. group' \in {0, 1}
  <2>1. group \in {0, 1} /\ group' = 1 - group
        BY DEF IInv, Globals, RestartGroup
  <2> QED BY <2>1
<1>2. Globals'
      BY <1>0, <1>1 DEF IInv, Globals
<1>3. restarts /\ \A i \in Workers : slot[i].proc = "none" /\ ~slot[i].gone /\ owed[i] = 0
      BY <1>0, GroupOwedNothing DEF Looping
<1>4. slot' = [i \in Workers |-> Started(slot[i], group')]
      BY DEF RestartGroup
<1>5. \A i \in Workers :
        /\ Sound(slot'[i], quick'[i], owed'[i])
        /\ slot'[i].proc = "run" /\ slot'[i].group = group' /\ slot'[i].gone = slot[i].gone
  <2>1. \A i \in Workers : Sound(slot[i], quick[i], owed[i])
        BY DEF IInv, SlotsInv
  <2>2. \A i \in Workers :
          /\ Sound(Started(slot[i], group'), quick[i], owed[i])
          /\ Started(slot[i], group').proc = "run" /\ Started(slot[i], group').group = group'
          /\ Started(slot[i], group').gone = slot[i].gone
        BY <1>1, <1>3, <2>1, StartedSound
  <2> QED BY <1>0, <1>4, <2>2
<1>6. OneGroup'
      BY <1>5 DEF OneGroup
<1>7. slot' = [i \in Workers |-> slot'[i]] /\ quick' = [i \in Workers |-> quick'[i]]
      /\ owed' = [i \in Workers |-> owed'[i]]
      BY <1>0, <1>4 DEF IInv, SlotsInv
<1>8. \A i \in Workers : (restarts' => ~slot'[i].gone)
                         /\ (~restarts' /\ Looping' /\ slot'[i].proc = "none" => slot'[i].gone)
      BY <1>0, <1>3, <1>5
<1> QED BY <1>0, <1>2, <1>5, <1>6, <1>7, <1>8, SlotsKeepIInv

\* restartGroup(false), stopped by a start that is refused.
LEMMA RestartGroupFailsKeepsIInv == IInv /\ RestartGroupFails => IInv'
<1> SUFFICES ASSUME IInv, RestartGroupFails PROVE IInv'
    OBVIOUS
<1> DEFINE Raw(f, some) == [i \in Workers |->
              CASE i = f -> Backoff(slot[i], TRUE)
                [] i \in some -> Started(slot[i], group')
                [] OTHER -> slot[i]]
<1>0. /\ UNCHANGED <<grouped, restarts, result, signals, deadlineIn>>
      /\ pc = "restart" /\ pc' = "poll" /\ GroupDue /\ cascading' = TRUE /\ cascadeIn' = GraceMs
      BY DEF RestartGroupFails
<1>1. group' \in {0, 1}
  <2>1. group \in {0, 1} /\ group' = 1 - group
        BY DEF IInv, Globals, RestartGroupFails
  <2> QED BY <2>1
<1>2. Globals'
  <2>1. GraceMs \in 0..GraceMs
        BY TimesAssumption
  <2> QED BY <1>0, <1>1, <2>1 DEF IInv, Globals
<1>3. restarts /\ \A i \in Workers : slot[i].proc = "none" /\ ~slot[i].gone /\ owed[i] = 0
      BY <1>0, GroupOwedNothing DEF Looping
<1>4. PICK f \in Workers : \E some \in {{}, {i \in Workers : i < f}} :
        slot' = Termed(Raw(f, some)) /\ Owe({f}, TRUE)
      BY Zenon DEF RestartGroupFails
<1>5. PICK some \in SUBSET (Workers \ {f}) : slot' = Termed(Raw(f, some)) /\ Owe({f}, TRUE)
  <2>1. \A some \in {{}, {i \in Workers : i < f}} : some \in SUBSET (Workers \ {f})
        BY DEF Workers
  <2> QED BY <1>4, <2>1, Zenon
<1>6. /\ quick' = [i \in Workers |-> quick'[i]] /\ owed' = [i \in Workers |-> owed'[i]]
      /\ \A i \in Workers : i \notin {f} => quick'[i] = quick[i] /\ owed'[i] = owed[i]
      /\ \A i \in Workers \cap {f} :
           quick'[i] = Deaths(i, TRUE) /\ owed'[i] = Promised(Deaths(i, TRUE))
      BY <1>5, OweAt
<1>7. slot' = [i \in Workers |-> Touched(Raw(f, some)[i])]
      BY <1>5 DEF Termed, Touched
<1>8. \A i \in Workers :
        /\ Sound(slot'[i], quick'[i], owed'[i])
        /\ ~slot'[i].gone /\ (slot'[i].proc = "run" => slot'[i].group = group')
  <2> SUFFICES ASSUME NEW i \in Workers
               PROVE  /\ Sound(slot'[i], quick'[i], owed'[i])
                      /\ ~slot'[i].gone /\ (slot'[i].proc = "run" => slot'[i].group = group')
      OBVIOUS
  <2>0. PICK x : x = Raw(f, some)[i]
        OBVIOUS
  <2>1. Sound(slot[i], quick[i], owed[i])
        BY DEF IInv, SlotsInv
  <2>2. Sound(x, quick'[i], owed'[i]) /\ ~x.gone /\ (x.proc = "run" => x.group = group')
    <3>1. CASE i = f
      <4>1. x = Backoff(slot[i], TRUE)
            BY <2>0, <3>1
      <4>2. /\ Sound(Backoff(slot[i], TRUE), Deaths(i, TRUE), Promised(Deaths(i, TRUE)))
            /\ Backoff(slot[i], TRUE).proc = "none" /\ Backoff(slot[i], TRUE).gone = slot[i].gone
            BY <1>3, BackedOff
      <4> QED BY <1>3, <1>6, <3>1, <4>1, <4>2
    <3>2. CASE i # f /\ i \in some
      <4>1. x = Started(slot[i], group')
            BY <2>0, <3>2
      <4>2. /\ Sound(Started(slot[i], group'), quick[i], owed[i])
            /\ Started(slot[i], group').group = group' /\ Started(slot[i], group').gone = slot[i].gone
            BY <1>1, <1>3, <2>1, StartedSound
      <4> QED BY <1>3, <1>6, <3>2, <4>1, <4>2
    <3>3. CASE i # f /\ i \notin some
      <4>1. x = slot[i]
            BY <2>0, <3>3
      <4>2. slot[i].proc # "run"
            BY <1>3
      <4> QED BY <1>3, <1>6, <2>1, <3>3, <4>1, <4>2
    <3> QED BY <3>1, <3>2, <3>3
  <2>3. /\ Sound(Touched(x), quick'[i], owed'[i]) /\ Touched(x).proc = x.proc
        /\ Touched(x).group = x.group /\ Touched(x).gone = x.gone
        BY <2>2, TouchedSound
  <2>4. slot'[i] = Touched(x)
        BY <1>7, <2>0
  <2> QED BY <2>2, <2>3, <2>4
<1>9. OneGroup'
      BY <1>8 DEF OneGroup
<1>10. slot' = [i \in Workers |-> slot'[i]]
      BY <1>7
<1>11. \A i \in Workers : (restarts' => ~slot'[i].gone)
                         /\ (~restarts' /\ Looping' /\ slot'[i].proc = "none" => slot'[i].gone)
      BY <1>0, <1>3, <1>8
<1> QED BY <1>0, <1>2, <1>6, <1>8, <1>9, <1>10, <1>11, SlotsKeepIInv

\* Time passes.
LEMMA LessType == ASSUME NEW m \in Nat, NEW n \in 0..m PROVE Less(n) \in 0..m
BY DEF Less

\* Time that passes keeps the invariant.
LEMMA TickKeepsIInv == IInv /\ Tick => IInv'
<1> SUFFICES ASSUME IInv, Tick PROVE IInv'
    OBVIOUS
<1>0. UNCHANGED <<grouped, restarts, pc, result, signals, cascading, group, quick>> /\ pc # "done"
      BY DEF Tick
<1>1. Globals'
  <2>1. cascadeIn' \in 0..GraceMs /\ deadlineIn' \in 0..GraceMs
        BY TimesAssumption, LessType DEF IInv, Globals, Tick
  <2> QED BY <1>0, <2>1 DEF IInv, Globals
<1>2. /\ slot' = [i \in Workers |-> slot'[i]] /\ owed' = [i \in Workers |-> owed'[i]]
      /\ quick' = [i \in Workers |-> quick'[i]]
      BY <1>0 DEF Tick, IInv, SlotsInv
<1>3. \A i \in Workers :
        /\ Sound(slot'[i], quick[i], owed'[i]) /\ owed'[i] = Less(owed[i])
        /\ slot'[i].proc = slot[i].proc /\ slot'[i].gone = slot[i].gone /\ slot'[i].group = slot[i].group
  <2> SUFFICES ASSUME NEW i \in Workers
               PROVE  /\ Sound(slot'[i], quick[i], owed'[i]) /\ owed'[i] = Less(owed[i])
                      /\ slot'[i].proc = slot[i].proc /\ slot'[i].gone = slot[i].gone
                      /\ slot'[i].group = slot[i].group
      OBVIOUS
  <2>0. Sound(slot[i], quick[i], owed[i])
        BY DEF IInv, SlotsInv
  <2>1. PICK a : a = IF slot[i].proc = "none" THEN 0 ELSE Min({slot[i].age + 1, QuickExitMs})
        OBVIOUS
  <2>2. PICK w : w = IF slot[i].proc = "none" THEN Less(slot[i].wait) ELSE slot[i].wait
        OBVIOUS
  <2>3. slot'[i] = [slot[i] EXCEPT !.age = a, !.wait = w] /\ owed'[i] = Less(owed[i])
        BY <2>1, <2>2 DEF Tick
  <2>4. slot[i].age \in 0..QuickExitMs /\ slot[i].wait \in 0..BackoffCapMs /\ owed[i] \in 0..BackoffCapMs
        BY <2>0 DEF Sound, SlotType
  <2>5. a \in 0..QuickExitMs
    <3>1. Min({slot[i].age + 1, QuickExitMs}) \in 0..QuickExitMs
      <4>1. Min({slot[i].age + 1, QuickExitMs})
              = IF slot[i].age + 1 <= QuickExitMs THEN slot[i].age + 1 ELSE QuickExitMs
            BY <2>4, TimesAssumption, MinOfTwo
      <4> QED BY <2>4, <4>1, TimesAssumption
    <3> QED BY <2>1, <3>1, TimesAssumption
  <2>6. w \in 0..BackoffCapMs /\ Less(owed[i]) \in 0..BackoffCapMs
        BY <2>2, <2>4, TimesAssumption, LessType
  <2>7. /\ slot'[i] \in SlotType /\ slot'[i].wait = w /\ slot'[i].delay = slot[i].delay
        /\ slot'[i].proc = slot[i].proc /\ slot'[i].gone = slot[i].gone /\ slot'[i].group = slot[i].group
        BY <2>0, <2>3, <2>5, <2>6 DEF Sound, SlotType
  <2>8. IF slot[i].proc = "none" THEN Less(owed[i]) <= w ELSE Less(owed[i]) = 0
    <3>1. IF slot[i].proc = "none" THEN owed[i] <= slot[i].wait ELSE owed[i] = 0
          BY <2>0 DEF Sound
    <3> QED BY <2>2, <2>4, <3>1, TimesAssumption DEF Less
  <2> QED BY <2>0, <2>3, <2>6, <2>7, <2>8 DEF Sound
<1>4. SlotsInv'
      BY <1>0, <1>2, <1>3 DEF SlotsInv
<1>5. OneGroup' /\ NoOrphan'
      BY <1>0, <1>3 DEF IInv, OneGroup, NoOrphan
<1>6. FirstInv'
      BY <1>0, <1>3 DEF IInv, FirstInv, Less
<1>7. GoneInv'
      BY <1>0, <1>3 DEF IInv, GoneInv, Looping
<1> QED BY <1>1, <1>4, <1>5, <1>6, <1>7 DEF IInv
-----------------------------------------------------------------------------
\* For any number of workers, any backoff, cap, grace and quick-exit times: the
\* supervisor returns only when every worker has exited and was reaped, workers
\* that run together hold ends of the same set of pairs, and no worker is
\* started before the wait that the documentation promises is over (stop, reap,
\* restart, restartGroup, backoff of std/net/prefork.ts).
THEOREM WorkersAreSupervised == Spec => []Supervised
<1>1. IInv /\ [Next]_vars => IInv'
  <2> SUFFICES ASSUME IInv, [Next]_vars PROVE IInv'
      OBVIOUS
  <2>1. CASE StartFirst
        BY <2>1, StartFirstKeepsIInv
  <2>2. CASE Poll \/ GroupWaits \/ Signal
        BY <2>2, PollKeepsIInv
  <2>3. CASE Reap
        BY <2>3, ReapKeepsIInv
  <2>4. CASE Escalate
        BY <2>4, EscalateKeepsIInv
  <2>5. ASSUME NEW fails \in SUBSET Workers, RestartEach(fails) PROVE IInv'
        BY <2>5, RestartEachKeepsIInv
  <2>6. CASE RestartGroup
        BY <2>6, RestartGroupKeepsIInv
  <2>7. CASE RestartGroupFails
        BY <2>7, RestartGroupFailsKeepsIInv
  <2>8. CASE StopTerm \/ GraceTurn \/ GraceEnds \/ KillTurn
        BY <2>8, StopKeepsIInv
  <2>9. ASSUME NEW i \in Workers, Die(i) PROVE IInv'
        BY <2>9, DieKeepsIInv
  <2>10. CASE Tick
        BY <2>10, TickKeepsIInv
  <2>11. CASE UNCHANGED vars
    <3> USE <2>11 DEF vars
    <3>1. Globals' /\ SlotsInv'
          BY DEF IInv, Globals, SlotsInv
    <3>2. NoOrphan' /\ OneGroup'
          BY DEF IInv, NoOrphan, OneGroup, Children
    <3>3. FirstInv' /\ GoneInv'
          BY DEF IInv, FirstInv, GoneInv, Looping
    <3> QED BY <3>1, <3>2, <3>3 DEF IInv
  <2> QED BY <2>1, <2>2, <2>3, <2>4, <2>5, <2>6, <2>7, <2>8, <2>9, <2>10, <2>11 DEF Next, Supervisor
<1> QED BY <1>1, InitIInv, IInvSupervised, PTL DEF Spec
=============================================================================
