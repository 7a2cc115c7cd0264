--------------------------- MODULE JobPoolProofs ---------------------------
(***************************************************************************)
(* Proofs about the worker pool, the scopes and the channels of            *)
(* runtime/runtime-parallel.c, for any callers, workers, tasks per scope   *)
(* and scopes: a join is safe.                                             *)
(*                                                                         *)
(* What a join promises speaks of the moment it is over.  The invariant    *)
(* that carries it there is an account: every task of a join under way is  *)
(* held in one place or ran once, the pool's count is the number that did  *)
(* not run, the channel's count the number that is not off, and the queue  *)
(* keeps a scope's receiver behind its senders.                            *)
(***************************************************************************)
EXTENDS JobPool, FiniteSetTheorems, SequenceTheorems, TLAPS

\* Where a thread runs a task, where it is between two, and where the caller
\* of a join is until the join is over.
Busy == {"run", "sent", "receiving", "returned"}
Between == {"take", "spin", "parked"}
Inside == Busy \cup Between \cup {"inline"}

In(c) == at[c] \in Inside
Pooled(c) == pool = 1 /\ at[c] \in Busy \cup Between

\* A task that somebody still holds: the queue, an unpooled join or a thread.
Queued(j) == \E i \in DOMAIN queue : queue[i] = j
Kept(j) == \E i \in DOMAIN inline[j[1]] : inline[j[1]][i] = j
Held(j) == Queued(j) \/ Kept(j) \/ Running(j)

\* The types, without the bounds on the counts: those follow from the
\* accounts below and are no hypothesis of theirs.
Types ==
  /\ pool \in -1..1
  /\ queue \in Seq(Jobs)
  /\ pending \in [Callers -> Int]
  /\ at \in [Threads -> Labels]
  /\ job \in [Threads -> Jobs \cup {None}]
  /\ scopes \in [Callers -> 0..MaxScopes]
  /\ inline \in [Callers -> Seq(Jobs)]
  /\ ran \in [Jobs -> Nat]
  /\ chan \in [Callers -> [state : {Open, Drained}, buf : Seq(1..Senders), pending : Int]]
  /\ received \in [Callers -> Seq(1..Senders)]

\* Where a thread may be, and what it then holds.
Shape(t) ==
  /\ at[t] \in Busy <=> job[t] # None
  /\ at[t] = "sent" => job[t][2] # Receiver
  /\ at[t] = "receiving" => job[t][2] = Receiver
WorkerShape(w) ==
  /\ at[w] \in Busy \cup Between \cup {"off"}
  /\ pool # 1 => at[w] = "off"
CallerShape(c) ==
  /\ at[c] \notin {"off", "exited"}
  /\ at[c] \in Between => pool = 1
  /\ at[c] \in Busy => pool # 0
ThreadShape(j) ==
  /\ at[j] \in Busy \cup {"off", "exited"}
  /\ at[j] \in Busy => job[j] = j
  /\ at[j] # "off" => at[j[1]] = "inline" \/ (pool = -1 /\ at[j[1]] \in Busy)
Shapes ==
  /\ \A t \in Threads : Shape(t)
  /\ \A w \in Workers : WorkerShape(w)
  /\ \A c \in Callers : CallerShape(c)
  /\ \A j \in Jobs : ThreadShape(j)

\* Whose job a worker or a caller may run: its own first one, one that an
\* unpooled join kept, or one that came off the queue.
Rightful(t) ==
  job[t] # None =>
    \/ job[t] = <<t, 1>>
    \/ pool = -1 /\ job[t][1] = t /\ job[t][2] # 1
    \/ pool = 1 /\ job[t][2] # 1 /\ Pooled(job[t][1])

\* Two threads never run the same job.
HoldInv ==
  /\ \A t \in Callers \cup Workers : Rightful(t)
  /\ \A t, u \in Threads : job[t] = job[u] /\ job[t] # None => t = u

\* A queued job belongs to a pooled join, nobody runs it, and the receiver of
\* its scope is queued behind it, as far behind as the scope has tasks between.
QueueInv ==
  /\ \A i \in DOMAIN queue :
       /\ queue[i][2] # 1 /\ Pooled(queue[i][1])
       /\ i + Receiver - queue[i][2] \in DOMAIN queue
       /\ queue[i + Receiver - queue[i][2]] = <<queue[i][1], Receiver>>
  /\ \A i, k \in DOMAIN queue : queue[i] = queue[k] => i = k
  /\ \A i \in DOMAIN queue, t \in Threads : queue[i] # job[t]

\* What an unpooled join keeps for itself is the end of its scope's tasks.
InlineInv ==
  \A c \in Callers :
    /\ inline[c] # <<>> => pool = -1 /\ In(c)
    /\ Len(inline[c]) <= Senders
    /\ \A i \in DOMAIN inline[c] :
         /\ inline[c][i] = <<c, Receiver - Len(inline[c]) + i>>
         /\ \A t \in Threads : inline[c][i] # job[t]

\* Within a join a task is held by somebody or ran once, never both; before
\* it none ran, after it all did, and outside it nobody holds any.
RanInv(c) ==
  /\ ~In(c) => \A i \in 1..Receiver : ~Held(<<c, i>>)
  /\ at[c] \in {"close", "submit"} => \A i \in 1..Receiver : ran[<<c, i>>] = 0
  /\ at[c] = "finish" => \A i \in 1..Receiver : ran[<<c, i>>] = 1
  /\ In(c) => \A i \in 1..Receiver :
       ran[<<c, i>>] \in {0, 1} /\ (Held(<<c, i>>) <=> ran[<<c, i>>] = 0)

\* A pooled join counts the tasks that have not run yet, its own first one
\* left out.
Left(c) == {i \in 2..Receiver : ran[<<c, i>>] = 0}
PendingInv(c) == pending[c] = IF Pooled(c) THEN Cardinality(Left(c)) ELSE 0

\* The values sent are those received and those in the buffer, each once; an
\* open channel counts the senders that have not counted themselves off, and
\* a drained one has all of its tasks behind it.
HasSent(j) == ran[j] = 1 \/ \E t \in Threads : job[t] = j /\ at[t] \in {"sent", "returned"}
IsOff(j) == ran[j] = 1 \/ \E t \in Threads : job[t] = j /\ at[t] = "returned"
On(c) == {i \in 1..Senders : ~IsOff(<<c, i>>)}
Values(c) == received[c] \o chan[c].buf
Has(s, x) == \E k \in DOMAIN s : s[k] = x
Distinct(s) == \A i, k \in DOMAIN s : s[i] = s[k] => i = k
ChannelInv(c) ==
  /\ at[c] = "idle" => chan[c] = NoChannel
  /\ at[c] # "idle" =>
       /\ Distinct(Values(c))
       /\ \A i \in 1..Senders : HasSent(<<c, i>>) <=> Has(Values(c), i)
       /\ chan[c].state = Open =>
            /\ chan[c].pending = Cardinality(On(c)) + (IF at[c] = "close" THEN 1 ELSE 0)
            /\ ~IsOff(<<c, Receiver>>)
       /\ chan[c].state = Drained =>
            chan[c] = NoChannel /\ \A i \in 1..Receiver : IsOff(<<c, i>>)

\* The inductive invariant.
Accounts ==
  /\ Types /\ Shapes /\ HoldInv /\ QueueInv /\ InlineInv
  /\ \A c \in Callers : RanInv(c) /\ PendingInv(c)
IInv == Accounts /\ (\A c \in Callers : ChannelInv(c)) /\ NoLostWakeup

-----------------------------------------------------------------------------
\* A scope has a sender, and one task more than senders.
LEMMA Numbers == Senders \in Nat \ {0} /\ Receiver \in Nat /\ Receiver = Senders + 1
BY PoolAssumption DEF Receiver

\* A job is its caller and its number in the scope.
LEMMA JobIs ==
  /\ \A j \in Jobs : j = <<j[1], j[2]>> /\ j[1] \in Callers /\ j[2] \in 1..Receiver
  /\ \A c \in Callers, i \in 1..Receiver : <<c, i>> \in Jobs
  /\ None \notin Jobs
BY DEF Jobs, None

\* Callers, workers and the threads of an unpooled join are apart.
LEMMA Kinds ==
  /\ \A c \in Callers : c \in Threads /\ c \notin Workers /\ c \notin Jobs
  /\ \A w \in Workers : w \in Threads /\ w \notin Callers /\ w \notin Jobs
  /\ \A j \in Jobs : j \in Threads /\ j \notin Callers /\ j \notin Workers
BY PoolAssumption DEF Threads

\* What keeps the account of a caller whose tasks nobody moves.
LEMMA RanFrame ==
  ASSUME NEW c \in Callers, RanInv(c),
         at'[c] = at[c] \/ (at[c] \in Inside /\ at'[c] \in Inside),
         \A i \in 1..Receiver : ran'[<<c, i>>] = ran[<<c, i>>] /\ (Held(<<c, i>>)' <=> Held(<<c, i>>))
  PROVE  RanInv(c)'
BY DEF RanInv, In, Inside, Busy, Between

\* What keeps the count of a join none of whose tasks ran.
LEMMA PendingFrame ==
  ASSUME NEW c \in Callers, PendingInv(c), pending'[c] = pending[c],
         Pooled(c)' <=> Pooled(c),
         \A i \in 1..Receiver : ran'[<<c, i>>] = ran[<<c, i>>]
  PROVE  PendingInv(c)'
<1>1. Left(c)' = Left(c)
      BY Numbers DEF Left
<1> QED BY <1>1 DEF PendingInv

\* What keeps the account of a channel that no task of its scope touched.
LEMMA ChannelFrame ==
  ASSUME NEW c \in Callers, ChannelInv(c),
         at'[c] = at[c] \/ (at[c] \notin {"idle", "close"} /\ at'[c] \notin {"idle", "close"}),
         chan'[c] = chan[c], received'[c] = received[c],
         \A i \in 1..Receiver : /\ HasSent(<<c, i>>)' <=> HasSent(<<c, i>>)
                                /\ IsOff(<<c, i>>)' <=> IsOff(<<c, i>>)
  PROVE  ChannelInv(c)'
<1>1. On(c)' = On(c)
      BY Numbers DEF On
<1>2. Values(c)' = Values(c)
      BY DEF Values
<1>3. \A i \in 1..Senders : HasSent(<<c, i>>)' <=> HasSent(<<c, i>>)
      BY Numbers
<1>4. IsOff(<<c, Receiver>>)' <=> IsOff(<<c, Receiver>>)
      BY Numbers
<1>5. CASE at'[c] = "idle"
      BY <1>5 DEF ChannelInv
<1>6. CASE at'[c] # "idle"
      BY <1>1, <1>2, <1>3, <1>4, <1>6 DEF ChannelInv
<1> QED BY <1>5, <1>6

\* Nobody took, gave back or queued a job.
LEMMA SameHeld ==
  ASSUME UNCHANGED <<queue, inline, job>>, NEW j
  PROVE  Held(j)' <=> Held(j)
BY DEF Held, Queued, Kept, Running

\* A step that moves labels among those of a running task, or among those of
\* a thread at the queue.
LEMMA LabelsKeep ==
  ASSUME Accounts, UNCHANGED <<pool, queue, pending, job, scopes, inline, ran>>,
         at' \in [Threads -> Labels],
         \A u \in Threads : \/ at'[u] = at[u]
                            \/ at[u] \in Busy /\ at'[u] \in Busy
                            \/ at[u] \in Between /\ at'[u] \in Between,
         \A u \in Threads : Shape(u)',
         chan' \in [Callers -> [state : {Open, Drained}, buf : Seq(1..Senders), pending : Int]],
         received' \in [Callers -> Seq(1..Senders)]
  PROVE  Accounts'
<1>1. Types'
      BY DEF Accounts, Types
<1>2. \A c \in Callers : /\ Pooled(c)' <=> Pooled(c)
                         /\ In(c)' <=> In(c)
                         /\ at'[c] = at[c] \/ (at[c] \in Inside /\ at'[c] \in Inside)
      BY Kinds DEF Pooled, In, Inside, Busy, Between
<1>3. Shapes'
  <2>1. \A w \in Workers : WorkerShape(w)'
        BY Kinds DEF Accounts, Shapes, WorkerShape, Busy, Between
  <2>2. \A c \in Callers : CallerShape(c)'
        BY Kinds DEF Accounts, Shapes, CallerShape, Busy, Between
  <2>3. \A j \in Jobs : ThreadShape(j)'
        BY Kinds, JobIs DEF Accounts, Shapes, ThreadShape, Busy, Between
  <2> QED BY <2>1, <2>2, <2>3 DEF Shapes
<1>4. HoldInv'
  <2>1. \A t \in Callers \cup Workers : Rightful(t)'
    <3> SUFFICES ASSUME NEW t \in Callers \cup Workers, job[t] # None PROVE Rightful(t)'
        BY DEF Rightful
    <3>1. job[t] \in Jobs /\ Rightful(t)
          BY Kinds DEF Accounts, Types, HoldInv
    <3>2. Pooled(job[t][1])' <=> Pooled(job[t][1])
          BY <1>2, <3>1, JobIs
    <3> QED BY <3>1, <3>2 DEF Rightful
  <2> QED BY <2>1 DEF Accounts, HoldInv
<1>5. QueueInv'
  <2>1. \A i \in DOMAIN queue : queue[i][1] \in Callers
        BY JobIs, ElementOfSeq DEF Accounts, Types
  <2> QED BY <1>2, <2>1 DEF Accounts, QueueInv
<1>6. InlineInv'
      BY <1>2 DEF Accounts, InlineInv
<1>7. ASSUME NEW c \in Callers PROVE RanInv(c)' /\ PendingInv(c)'
  <2>1. \A i \in 1..Receiver : ran'[<<c, i>>] = ran[<<c, i>>] /\ (Held(<<c, i>>)' <=> Held(<<c, i>>))
        BY SameHeld
  <2>2. RanInv(c)'
        BY <1>2, <2>1, RanFrame DEF Accounts
  <2>3. PendingInv(c)'
        BY <1>2, <2>1, PendingFrame DEF Accounts
  <2> QED BY <2>2, <2>3
<1> QED BY <1>1, <1>3, <1>4, <1>5, <1>6, <1>7 DEF Accounts

-----------------------------------------------------------------------------
(* The tasks.                                                              *)

\* A running task is in its own scope's join, has not run before, and runs
\* on one thread only.
LEMMA Runs ==
  ASSUME Accounts, NEW t \in Threads, at[t] \in Busy
  PROVE  /\ job[t] \in Jobs /\ job[t][1] \in Callers /\ job[t][2] \in 1..Receiver
         /\ job[t] = <<job[t][1], job[t][2]>>
         /\ In(job[t][1]) /\ ran[job[t]] = 0
         /\ \A u \in Threads : job[u] = job[t] => u = t
<1>1. job[t] # None /\ job[t] \in Jobs
      BY DEF Accounts, Shapes, Shape, Types
<1>2. /\ job[t][1] \in Callers /\ job[t][2] \in 1..Receiver
      /\ job[t] = <<job[t][1], job[t][2]>>
      BY <1>1, JobIs
<1>3. Held(<<job[t][1], job[t][2]>>)
      BY <1>2 DEF Held, Running
<1>4. RanInv(job[t][1])
      BY <1>2 DEF Accounts
<1>5. In(job[t][1]) /\ ran[job[t]] = 0
      BY <1>2, <1>3, <1>4 DEF RanInv
<1> QED BY <1>1, <1>2, <1>5 DEF Accounts, HoldInv

\* The channel is open to a task that has not returned: nish_channel_send and
\* nish_channel_receive never meet one that was freed.
LEMMA OpenForIt ==
  ASSUME IInv, NEW t \in Threads, at[t] \in Busy \ {"returned"}
  PROVE  /\ ~IsOff(job[t]) /\ (HasSent(job[t]) <=> at[t] = "sent")
         /\ chan[job[t][1]].state = Open
         /\ at[job[t][1]] \notin {"idle", "close"}
<1> DEFINE c == job[t][1]
<1>1. /\ job[t] \in Jobs /\ c \in Callers /\ job[t][2] \in 1..Receiver /\ job[t] = <<c, job[t][2]>>
      /\ In(c) /\ ran[job[t]] = 0 /\ \A u \in Threads : job[u] = job[t] => u = t
      BY Runs DEF IInv
<1>2. ~IsOff(job[t]) /\ (HasSent(job[t]) <=> at[t] = "sent")
      BY <1>1 DEF IsOff, HasSent, Busy
<1>3. at[c] \notin {"idle", "close"}
      BY <1>1 DEF In, Inside, Busy, Between
<1>4. ~IsOff(<<c, job[t][2]>>)
      BY <1>1, <1>2
<1>5. ChannelInv(c)
      BY <1>1 DEF IInv
<1>6. chan[c].state \in {Open, Drained}
      BY <1>1 DEF IInv, Accounts, Types
<1>7. chan[c].state # Drained
      BY <1>1, <1>3, <1>4, <1>5 DEF ChannelInv
<1> QED BY <1>2, <1>3, <1>6, <1>7

\* Nobody starts or stops sleeping at the queue.
LEMMA WakeFrame ==
  ASSUME Accounts, NoLostWakeup, UNCHANGED <<queue, pending>>,
         \A u \in Threads : at'[u] = at[u] \/ (at[u] \in Busy /\ at'[u] \in Busy)
  PROVE  NoLostWakeup'
<1>1. \A u \in Threads : /\ at'[u] = "parked" <=> at[u] = "parked"
                         /\ at'[u] \in {"take", "spin"} <=> at[u] \in {"take", "spin"}
      BY DEF Busy
<1>2. {w \in Workers : at'[w] \in {"take", "spin"}} = {w \in Workers : at[w] \in {"take", "spin"}}
      BY <1>1, Kinds
<1> QED BY <1>1, <1>2, Kinds DEF NoLostWakeup

\* What the two counts count is finite, and at most the senders.
LEMMA Counts ==
  ASSUME NEW c
  PROVE  /\ IsFiniteSet(On(c)) /\ Cardinality(On(c)) \in 0..Senders
         /\ IsFiniteSet(Left(c)) /\ Cardinality(Left(c)) \in 0..Senders
<1>1. /\ IsFiniteSet(1..Senders) /\ Cardinality(1..Senders) = Senders
      /\ IsFiniteSet(2..Receiver) /\ Cardinality(2..Receiver) = Senders
      BY Numbers, FS_Interval
<1>2. On(c) \in SUBSET (1..Senders) /\ Left(c) \in SUBSET (2..Receiver)
      BY DEF On, Left
<1>3. /\ IsFiniteSet(On(c)) /\ Cardinality(On(c)) <= Senders
      BY <1>1, <1>2, FS_Subset
<1>4. /\ IsFiniteSet(Left(c)) /\ Cardinality(Left(c)) <= Senders
      BY <1>1, <1>2, FS_Subset
<1> QED BY <1>3, <1>4, FS_CardinalityType

\* A value sent goes to the end of what was sent.
LEMMA SendMoves ==
  \A r, b \in Seq(1..Senders), v \in 1..Senders : r \o Append(b, v) = Append(r \o b, v)
<1> SUFFICES ASSUME NEW S, NEW r \in Seq(S), NEW b \in Seq(S), NEW v \in S
             PROVE  r \o Append(b, v) = Append(r \o b, v)
    OBVIOUS
<1> DEFINE x == r \o Append(b, v)
           y == Append(r \o b, v)
<1>1. Append(b, v) \in Seq(S) /\ Len(Append(b, v)) = Len(b) + 1
      OBVIOUS
<1>2. x \in Seq(S) /\ Len(x) = Len(r) + Len(b) + 1
      BY <1>1, ConcatProperties
<1>3. y \in Seq(S) /\ Len(y) = Len(r) + Len(b) + 1
      BY ConcatProperties
<1>4. \A i \in 1..Len(x) : x[i] = y[i]
      BY <1>2
<1> QED BY <1>2, <1>3, <1>4, SeqEqual

\* A value received moves from the buffer to what was received.
LEMMA ReceiveMoves ==
  ASSUME NEW S, NEW r \in Seq(S), NEW b \in Seq(S), b # <<>>
  PROVE  /\ Append(r, Head(b)) \o Tail(b) = r \o b
         /\ Head(b) \in S /\ Tail(b) \in Seq(S)
<1> DEFINE a == Append(r, Head(b))
           x == a \o Tail(b)
           y == r \o b
<1>1. /\ Head(b) \in S /\ Tail(b) \in Seq(S) /\ Len(Tail(b)) = Len(b) - 1 /\ Len(b) \in Nat \ {0}
      /\ \A i \in 1..Len(Tail(b)) : Tail(b)[i] = b[i + 1]
      /\ Head(b) = b[1]
      BY HeadTailProperties, EmptySeq
<1>2. a \in Seq(S) /\ Len(a) = Len(r) + 1 /\ a[Len(r) + 1] = b[1] /\ \A i \in 1..Len(r) : a[i] = r[i]
      BY <1>1
<1>3. /\ x \in Seq(S) /\ Len(x) = Len(r) + Len(b)
      /\ \A i \in 1..Len(x) : x[i] = IF i <= Len(r) + 1 THEN a[i] ELSE Tail(b)[i - (Len(r) + 1)]
      BY <1>1, <1>2, ConcatProperties
<1>4. /\ y \in Seq(S) /\ Len(y) = Len(r) + Len(b)
      /\ \A i \in 1..Len(y) : y[i] = IF i <= Len(r) THEN r[i] ELSE b[i - Len(r)]
      BY ConcatProperties
<1>5. ASSUME NEW i \in 1..Len(x) PROVE x[i] = y[i]
  <2>1. CASE i <= Len(r)
        BY <1>2, <1>3, <1>4, <2>1
  <2>2. CASE i = Len(r) + 1
        BY <1>2, <1>3, <1>4, <2>2
  <2>3. CASE i > Len(r) + 1
    <3>1. x[i] = Tail(b)[i - (Len(r) + 1)] /\ y[i] = b[i - Len(r)]
          BY <1>3, <1>4, <2>3
    <3>2. i - (Len(r) + 1) \in 1..Len(Tail(b))
          BY <1>1, <1>3, <2>3
    <3> QED BY <1>1, <3>1, <3>2
  <2> QED BY <2>1, <2>2, <2>3
<1>6. x = y
      BY <1>3, <1>4, <1>5, SeqEqual
<1> QED BY <1>1, <1>6

\* A value more, that was not there.
LEMMA OneMore ==
  \A s \in Seq(1..Senders), v \in 1..Senders :
    Distinct(s) /\ ~Has(s, v) => Distinct(Append(s, v)) /\ \A k : Has(Append(s, v), k) <=> k = v \/ Has(s, k)
<1> SUFFICES ASSUME NEW s \in Seq(1..Senders), NEW v \in 1..Senders, Distinct(s), ~Has(s, v)
             PROVE  Distinct(Append(s, v)) /\ \A k : Has(Append(s, v), k) <=> k = v \/ Has(s, k)
    OBVIOUS
<1> DEFINE a == Append(s, v)
<1>1. /\ DOMAIN a = 1..(Len(s) + 1) /\ DOMAIN s = 1..Len(s) /\ Len(s) \in Nat
      /\ a[Len(s) + 1] = v /\ \A k \in 1..Len(s) : a[k] = s[k]
      OBVIOUS
<1> HIDE DEF a
<1>2. Distinct(a)
  <2> SUFFICES ASSUME NEW i \in DOMAIN a, NEW k \in DOMAIN a, a[i] = a[k] PROVE i = k
      BY DEF Distinct
  <2> QED BY <1>1 DEF Distinct, Has
<1>3. ASSUME NEW i PROVE Has(a, i) <=> i = v \/ Has(s, i)
      BY <1>1 DEF Has
<1> QED BY <1>2, <1>3 DEF a

\* The parts of a channel.
LEMMA ChannelType ==
  ASSUME Types, NEW c \in Callers
  PROVE  /\ chan[c].buf \in Seq(1..Senders) /\ chan[c].pending \in Int /\ chan[c].state \in {Open, Drained}
         /\ received[c] \in Seq(1..Senders) /\ Values(c) \in Seq(1..Senders)
         /\ chan[c] = [state |-> chan[c].state, buf |-> chan[c].buf, pending |-> chan[c].pending]
<1>1. /\ chan[c].buf \in Seq(1..Senders) /\ chan[c].pending \in Int /\ chan[c].state \in {Open, Drained}
      /\ received[c] \in Seq(1..Senders)
      /\ chan[c] = [state |-> chan[c].state, buf |-> chan[c].buf, pending |-> chan[c].pending]
      BY DEF Types
<1>2. Values(c) \in Seq(1..Senders)
      BY <1>1, ConcatProperties DEF Values
<1> QED BY <1>1, <1>2

Channel == [state : {Open, Drained}, buf : Seq(1..Senders), pending : Int]

\* A step of a running task moves its own label, may wake sleepers of a
\* channel, and leaves the channels of other scopes alone.
TaskStep(t, l, c, z, y) ==
  /\ at[t] \in Busy \ {"returned"} /\ l \in Busy /\ c \in Callers /\ c = job[t][1]
  /\ l = "sent" => job[t][2] # Receiver
  /\ l = "receiving" => job[t][2] = Receiver
  /\ z \in Channel /\ chan' = [chan EXCEPT ![c] = z]
  /\ y \in Seq(1..Senders) /\ received' = [received EXCEPT ![c] = y]
  /\ at' \in [Threads -> Labels] /\ at'[t] = l
  /\ \A u \in Threads : u # t => at'[u] = at[u] \/ (at[u] = "receiving" /\ at'[u] = "run")
  /\ UNCHANGED <<pool, queue, pending, job, scopes, inline, ran>>

TaskKept(t, l, c, z, y) ==
  /\ Accounts' /\ NoLostWakeup'
  /\ \A d \in Callers : d # c => ChannelInv(d)'
  /\ chan'[c] = z /\ received'[c] = y
  /\ at[c] \notin {"idle", "close"} /\ at'[c] \notin {"idle", "close"}
  /\ \A j \in Jobs : /\ j # job[t] => (HasSent(j)' <=> HasSent(j)) /\ (IsOff(j)' <=> IsOff(j))
                     /\ j = job[t] => (HasSent(j)' <=> l \in {"sent", "returned"}) /\ (IsOff(j)' <=> l = "returned")

\* What every step of a running task leaves in order.
LEMMA TaskFrame ==
  ASSUME IInv, NEW t \in Threads, NEW l, NEW c, NEW z, NEW y, TaskStep(t, l, c, z, y)
  PROVE  TaskKept(t, l, c, z, y)
<1> USE DEF TaskStep
<1>0. Accounts /\ NoLostWakeup /\ Types
      BY DEF IInv, Accounts
<1>1. at[t] \in Busy
      OBVIOUS
<1>2. PICK v \in 1..Receiver :
         /\ job[t] \in Jobs /\ job[t] = <<c, v>>
         /\ In(c) /\ ran[job[t]] = 0 /\ \A u \in Threads : job[u] = job[t] => u = t
      BY <1>0, <1>1, Runs
<1>3. \A u \in Threads : at'[u] = at[u] \/ (at[u] \in Busy /\ at'[u] \in Busy)
      BY <1>1 DEF Busy
<1>4. \A u \in Threads : Shape(u)'
  <2> SUFFICES ASSUME NEW u \in Threads PROVE Shape(u)'
      OBVIOUS
  <2>1. Shape(u)
        BY <1>0 DEF Accounts, Shapes
  <2>2. CASE u = t
        BY <1>1, <2>1, <2>2 DEF Shape
  <2>3. CASE u # t
        BY <2>1, <2>3 DEF Shape, Busy
  <2> QED BY <2>2, <2>3
<1>5. /\ chan' \in [Callers -> Channel] /\ received' \in [Callers -> Seq(1..Senders)]
      /\ chan'[c] = z /\ received'[c] = y
      /\ \A d \in Callers : d # c => chan'[d] = chan[d] /\ received'[d] = received[d]
      BY <1>0 DEF Types, Channel
<1>6. Accounts'
  <2>1. chan' \in [Callers -> [state : {Open, Drained}, buf : Seq(1..Senders), pending : Int]]
        BY <1>5 DEF Channel
  <2> QED BY <1>0, <1>3, <1>4, <1>5, <2>1, LabelsKeep
<1>7. NoLostWakeup'
      BY <1>0, <1>3, WakeFrame
<1>8. at[c] \notin {"idle", "close"} /\ at'[c] \notin {"idle", "close"}
      BY <1>2, <1>3, Kinds DEF In, Inside, Busy, Between
<1>9. ASSUME NEW j \in Jobs
      PROVE  /\ j # job[t] => (HasSent(j)' <=> HasSent(j)) /\ (IsOff(j)' <=> IsOff(j))
             /\ j = job[t] => (HasSent(j)' <=> l \in {"sent", "returned"}) /\ (IsOff(j)' <=> l = "returned")
  <2>1. \A u \in Threads : u # t => /\ at'[u] = "returned" <=> at[u] = "returned"
                                    /\ at'[u] \in {"sent", "returned"} <=> at[u] \in {"sent", "returned"}
        OBVIOUS
  <2>2. CASE j # job[t]
        BY <2>1, <2>2 DEF HasSent, IsOff
  <2>3. CASE j = job[t]
    <3>1. ran'[j] = 0 /\ job'[t] = j /\ \A u \in Threads : job'[u] = j => u = t
          BY <1>2, <2>3
    <3> QED BY <2>3, <3>1 DEF HasSent, IsOff
  <2> QED BY <2>2, <2>3
<1>10. ASSUME NEW d \in Callers, d # c PROVE ChannelInv(d)'
  <2>1. ASSUME NEW k \in 1..Receiver
        PROVE  (HasSent(<<d, k>>)' <=> HasSent(<<d, k>>)) /\ (IsOff(<<d, k>>)' <=> IsOff(<<d, k>>))
    <3>1. <<d, k>> \in Jobs /\ <<d, k>> # job[t]
          BY <1>2, <1>10, JobIs
    <3> QED BY <1>9, <3>1
  <2>2. at'[d] = at[d] \/ (at[d] \notin {"idle", "close"} /\ at'[d] \notin {"idle", "close"})
        BY <1>3, Kinds DEF Busy
  <2>3. chan'[d] = chan[d] /\ received'[d] = received[d] /\ ChannelInv(d)
        BY <1>5, <1>10 DEF IInv
  <2> QED BY <2>1, <2>2, <2>3, ChannelFrame
<1> QED BY <1>5, <1>6, <1>7, <1>8, <1>9, <1>10 DEF TaskKept

\* The sleepers of a channel wake.
LEMMA Waking ==
  ASSUME Types, NEW c, NEW t \in Threads, NEW l \in Busy, at' = [WokenBy(c, at) EXCEPT ![t] = l]
  PROVE  /\ at' \in [Threads -> Labels] /\ at'[t] = l
         /\ \A u \in Threads : u # t => at'[u] = at[u] \/ (at[u] = "receiving" /\ at'[u] = "run")
BY DEF Types, WokenBy, Labels, Busy

\* nish_channel_send keeps the invariant.
LEMMA SendKeeps ==
  ASSUME IInv, NEW t \in Threads, Send(t)
  PROVE  IInv'
<1>0. Accounts /\ Types
      BY DEF IInv, Accounts
<1>1. at[t] = "run" /\ job[t][2] # Receiver
      BY DEF Send, IsSender
<1>2. PICK c \in Callers, v \in 1..Receiver :
         /\ job[t] \in Jobs /\ c = job[t][1] /\ v = job[t][2] /\ job[t] = <<c, v>>
      BY <1>0, <1>1, Runs DEF Busy
<1>3. v \in 1..Senders
      BY <1>1, <1>2, Numbers
<1>4. ~IsOff(job[t]) /\ ~HasSent(job[t]) /\ chan[c].state = Open
      BY <1>1, <1>2, OpenForIt DEF Busy
<1>5. PICK z : z = [chan[c] EXCEPT !.buf = Append(chan[c].buf, v)]
      OBVIOUS
<1>6. /\ chan[c].buf \in Seq(1..Senders) /\ received[c] \in Seq(1..Senders) /\ Values(c) \in Seq(1..Senders)
      /\ chan[c] = [state |-> chan[c].state, buf |-> chan[c].buf, pending |-> chan[c].pending]
      /\ chan[c].pending \in Int
      BY <1>0, ChannelType
<1>7. z = [state |-> Open, buf |-> Append(chan[c].buf, v), pending |-> chan[c].pending]
      BY <1>4, <1>5, <1>6
<1>8. z \in Channel
      BY <1>3, <1>6, <1>7, AppendProperties DEF Channel
<1>9. /\ chan' = [chan EXCEPT ![c] = z]
      /\ at' = [WokenBy(c, at) EXCEPT ![t] = "sent"]
      /\ UNCHANGED <<pool, queue, pending, job, scopes, inline, ran, received>>
      BY <1>2, <1>4, <1>5 DEF Send, Owner, Open, Drained
<1>10. PICK y \in Seq(1..Senders), l \in Busy : y = received[c] /\ l = "sent" /\ received' = [received EXCEPT ![c] = y]
      BY <1>0, <1>6, <1>9 DEF Types, Busy
<1>11. /\ at' \in [Threads -> Labels] /\ at'[t] = "sent"
       /\ \A u \in Threads : u # t => at'[u] = at[u] \/ (at[u] = "receiving" /\ at'[u] = "run")
      BY <1>0, <1>9, Waking DEF Busy
<1>12. TaskKept(t, l, c, z, y)
  <2>1. TaskStep(t, l, c, z, y)
        BY <1>1, <1>2, <1>8, <1>9, <1>10, <1>11 DEF TaskStep, Busy
  <2> QED BY <2>1, TaskFrame
<1>13. ChannelInv(c)'
  <2> USE <1>10 DEF TaskKept
  <2>1. ChannelInv(c)
        BY <1>2 DEF IInv
  <2>2. Values(c)' = Append(Values(c), v)
    <3>1. received[c] \o Append(chan[c].buf, v) = Append(received[c] \o chan[c].buf, v)
          BY <1>3, <1>6, SendMoves
    <3>2. received'[c] = received[c] /\ chan'[c].buf = Append(chan[c].buf, v)
          BY <1>7, <1>12
    <3> QED BY <3>1, <3>2 DEF Values
  <2>3. Distinct(Values(c)) /\ \A k \in 1..Senders : HasSent(<<c, k>>) <=> Has(Values(c), k)
        BY <1>12, <2>1 DEF ChannelInv
  <2>4. ~Has(Values(c), v)
        BY <1>2, <1>3, <1>4, <2>3
  <2>5. Distinct(Values(c)') /\ \A k : Has(Values(c)', k) <=> k = v \/ Has(Values(c), k)
    <3>1. Values(c) \in Seq(1..Senders)
          BY <1>6
    <3> QED BY <1>3, <2>2, <2>3, <2>4, <3>1, OneMore
  <2>6. ASSUME NEW k \in 1..Receiver
        PROVE  (IsOff(<<c, k>>)' <=> IsOff(<<c, k>>)) /\ (HasSent(<<c, k>>)' <=> HasSent(<<c, k>>) \/ k = v)
    <3>1. <<c, k>> \in Jobs
          BY JobIs
    <3>2. <<c, k>> = job[t] <=> k = v
          BY <1>2
    <3> QED BY <1>4, <1>12, <3>1, <3>2
  <2>7. \A k \in 1..Senders : HasSent(<<c, k>>)' <=> Has(Values(c)', k)
        BY <2>3, <2>5, <2>6, Numbers
  <2>8. On(c)' = On(c) /\ (IsOff(<<c, Receiver>>)' <=> IsOff(<<c, Receiver>>))
        BY <2>6, Numbers DEF On
  <2>9. chan[c].pending = Cardinality(On(c)) /\ ~IsOff(<<c, Receiver>>)
        BY <1>4, <1>12, <2>1, Counts DEF ChannelInv
  <2>10. Distinct(Values(c))' /\ \A k \in 1..Senders : (HasSent(<<c, k>>) <=> Has(Values(c), k))'
        BY <2>5, <2>7 DEF Distinct, Has
  <2>11. chan'[c].state = Open /\ chan'[c].pending = Cardinality(On(c)')
        BY <1>7, <1>12, <2>8, <2>9
  <2> QED BY <1>12, <2>8, <2>9, <2>10, <2>11, Counts DEF ChannelInv, Open, Drained
<1> QED BY <1>12, <1>13 DEF IInv, TaskKept

\* A sender that counts itself off keeps it.
LEMMA SenderReturnsKeeps ==
  ASSUME IInv, NEW t \in Threads, SenderReturns(t)
  PROVE  IInv'
<1>0. Accounts /\ Types
      BY DEF IInv, Accounts
<1>1. at[t] = "sent" /\ job[t][2] # Receiver
      BY <1>0 DEF SenderReturns, Accounts, Shapes, Shape
<1>2. PICK c \in Callers, v \in 1..Receiver :
         /\ job[t] \in Jobs /\ c = job[t][1] /\ v = job[t][2] /\ job[t] = <<c, v>>
      BY <1>0, <1>1, Runs DEF Busy
<1>3. v \in 1..Senders
      BY <1>1, <1>2, Numbers
<1>4. ~IsOff(job[t]) /\ HasSent(job[t]) /\ chan[c].state = Open
      BY <1>1, <1>2, OpenForIt DEF Busy
<1>5. PICK z : z = [chan[c] EXCEPT !.pending = chan[c].pending - 1]
      OBVIOUS
<1>6. /\ chan[c].buf \in Seq(1..Senders) /\ received[c] \in Seq(1..Senders)
      /\ chan[c] = [state |-> chan[c].state, buf |-> chan[c].buf, pending |-> chan[c].pending]
      /\ chan[c].pending \in Int
      BY <1>0, ChannelType
<1>7. z = [state |-> Open, buf |-> chan[c].buf, pending |-> chan[c].pending - 1]
      BY <1>4, <1>5, <1>6
<1>8. z \in Channel
      BY <1>6, <1>7 DEF Channel
<1>9. /\ chan' = [chan EXCEPT ![c] = z]
      /\ at' = [WokenBy(c, at) EXCEPT ![t] = "returned"]
      /\ UNCHANGED <<pool, queue, pending, job, scopes, inline, ran, received>>
      BY <1>2, <1>4, <1>5 DEF SenderReturns, Owner, Open, Drained
<1>10. PICK y \in Seq(1..Senders), l \in Busy : y = received[c] /\ l = "returned" /\ received' = [received EXCEPT ![c] = y]
      BY <1>0, <1>6, <1>9 DEF Types, Busy
<1>11. /\ at' \in [Threads -> Labels] /\ at'[t] = "returned"
       /\ \A u \in Threads : u # t => at'[u] = at[u] \/ (at[u] = "receiving" /\ at'[u] = "run")
      BY <1>0, <1>9, Waking DEF Busy
<1>12. TaskKept(t, l, c, z, y)
  <2>1. TaskStep(t, l, c, z, y)
        BY <1>1, <1>2, <1>8, <1>9, <1>10, <1>11 DEF TaskStep, Busy
  <2> QED BY <2>1, TaskFrame
<1>13. ChannelInv(c)'
  <2> USE <1>10 DEF TaskKept
  <2>1. ChannelInv(c)
        BY <1>2 DEF IInv
  <2>2. Values(c)' = Values(c)
    <3>1. z.buf = chan[c].buf
          BY <1>7
    <3> QED BY <1>12, <3>1 DEF Values
  <2>3. Distinct(Values(c)) /\ \A k \in 1..Senders : HasSent(<<c, k>>) <=> Has(Values(c), k)
        BY <1>12, <2>1 DEF ChannelInv
  <2>4. ASSUME NEW k \in 1..Receiver
        PROVE  (IsOff(<<c, k>>)' <=> IsOff(<<c, k>>) \/ k = v) /\ (HasSent(<<c, k>>)' <=> HasSent(<<c, k>>))
    <3>1. <<c, k>> \in Jobs
          BY JobIs
    <3>2. <<c, k>> = job[t] <=> k = v
          BY <1>2
    <3> QED BY <1>4, <1>12, <3>1, <3>2
  <2>5. On(c)' = On(c) \ {v} /\ v \in On(c) /\ (IsOff(<<c, Receiver>>)' <=> IsOff(<<c, Receiver>>))
    <3>1. \A k \in 1..Senders : IsOff(<<c, k>>)' <=> IsOff(<<c, k>>) \/ k = v
          BY <2>4, Numbers
    <3>2. On(c)' = On(c) \ {v}
          BY <3>1 DEF On
    <3>3. v \in On(c)
          BY <1>2, <1>3, <1>4 DEF On
    <3>4. Receiver \in 1..Receiver /\ Receiver # v
          BY <1>1, <1>2, Numbers
    <3> QED BY <2>4, <3>2, <3>3, <3>4
  <2>6. chan[c].pending = Cardinality(On(c)) /\ ~IsOff(<<c, Receiver>>)
        BY <1>4, <1>12, <2>1, Counts DEF ChannelInv
  <2>7. Distinct(Values(c))' /\ \A k \in 1..Senders : (HasSent(<<c, k>>) <=> Has(Values(c), k))'
        BY <2>2, <2>3, <2>4, Numbers DEF Distinct, Has
  <2>8. chan'[c].state = Open /\ chan'[c].pending = Cardinality(On(c)')
    <3>1. Cardinality(On(c) \ {v}) = Cardinality(On(c)) - 1
          BY <2>5, Counts, FS_RemoveElement
    <3> QED BY <1>7, <1>12, <2>5, <2>6, <3>1
  <2>9. Cardinality(On(c)') \in Int
        BY <2>8, <1>12, <1>7, <1>6
  <2> QED BY <1>12, <2>5, <2>6, <2>7, <2>8, <2>9 DEF ChannelInv, Open, Drained
<1> QED BY <1>12, <1>13 DEF IInv, TaskKept

\* nish_channel_receive keeps it: a value moves, the receiver sleeps, or the
\* channel is freed when every sender is off.
LEMMA ReceiveKeeps ==
  ASSUME IInv, NEW t \in Threads, Receive(t)
  PROVE  IInv'
<1>0. Accounts /\ Types
      BY DEF IInv, Accounts
<1>1. at[t] = "run" /\ job[t][2] = Receiver
      BY DEF Receive, IsReceiver
<1>2. PICK c \in Callers : job[t] \in Jobs /\ c = job[t][1] /\ job[t] = <<c, Receiver>>
      BY <1>0, <1>1, Runs DEF Busy
<1>3. ~IsOff(job[t]) /\ ~HasSent(job[t]) /\ chan[c].state = Open
      BY <1>1, <1>2, OpenForIt DEF Busy
<1>4. /\ chan[c].buf \in Seq(1..Senders) /\ received[c] \in Seq(1..Senders)
      /\ chan[c] = [state |-> chan[c].state, buf |-> chan[c].buf, pending |-> chan[c].pending]
      /\ chan[c].pending \in Int
      BY <1>0, <1>3, ChannelType
<1>5. ChannelInv(c)
      BY DEF IInv
<1>6. ASSUME NEW l, NEW z, NEW y, TaskKept(t, l, c, z, y), y \o z.buf = Values(c)
      PROVE  /\ Values(c)' = Values(c)
             /\ \A k \in 1..Senders : (HasSent(<<c, k>>)' <=> HasSent(<<c, k>>)) /\ (IsOff(<<c, k>>)' <=> IsOff(<<c, k>>))
             /\ IsOff(<<c, Receiver>>)' <=> l = "returned"
             /\ On(c)' = On(c)
             /\ Distinct(Values(c))' /\ \A k \in 1..Senders : (HasSent(<<c, k>>) <=> Has(Values(c), k))'
  <2>1. Values(c)' = Values(c)
        BY <1>6 DEF TaskKept, Values
  <2>2. ASSUME NEW k \in 1..Senders
        PROVE  (HasSent(<<c, k>>)' <=> HasSent(<<c, k>>)) /\ (IsOff(<<c, k>>)' <=> IsOff(<<c, k>>))
    <3>1. <<c, k>> \in Jobs /\ <<c, k>> # job[t]
          BY <1>2, JobIs, Numbers
    <3> QED BY <1>6, <3>1 DEF TaskKept
  <2>3. On(c)' = On(c)
        BY <2>2 DEF On
  <2>4. IsOff(<<c, Receiver>>)' <=> l = "returned"
        BY <1>2, <1>6 DEF TaskKept
  <2>5. Distinct(Values(c)) /\ \A k \in 1..Senders : HasSent(<<c, k>>) <=> Has(Values(c), k)
        BY <1>5, <1>6 DEF ChannelInv, TaskKept
  <2>6. Distinct(Values(c))' /\ \A k \in 1..Senders : (HasSent(<<c, k>>) <=> Has(Values(c), k))'
        BY <2>1, <2>2, <2>5 DEF Distinct, Has
  <2> QED BY <2>1, <2>2, <2>3, <2>4, <2>6
<1>7. ASSUME NEW l, NEW z, NEW y, TaskKept(t, l, c, z, y), y \o z.buf = Values(c),
             l # "returned", z.state = Open, z.pending = chan[c].pending
      PROVE  IInv'
  <2>1. chan[c].pending = Cardinality(On(c)) /\ at'[c] \notin {"idle", "close"} /\ chan'[c] = z
        BY <1>3, <1>5, <1>7, Counts DEF ChannelInv, TaskKept
  <2>2. ChannelInv(c)'
    <3>1. /\ On(c)' = On(c) /\ ~IsOff(<<c, Receiver>>)'
          /\ Distinct(Values(c))' /\ \A k \in 1..Senders : (HasSent(<<c, k>>) <=> Has(Values(c), k))'
          BY <1>6, <1>7
    <3>2. /\ chan'[c].state = Open /\ chan'[c].pending = Cardinality(On(c)')
          /\ Cardinality(On(c)') \in Int
          BY <1>7, <2>1, <3>1, Counts
    <3> QED BY <2>1, <3>1, <3>2 DEF ChannelInv, Open, Drained
  <2> QED BY <1>7, <2>2 DEF IInv, TaskKept
<1>8. UNCHANGED <<pool, queue, pending, job, scopes, inline, ran>>
      BY DEF Receive
<1>9. CASE /\ chan[c].buf # <<>>
           /\ received' = [received EXCEPT ![c] = Append(@, Head(chan[c].buf))]
           /\ chan' = [chan EXCEPT ![c].buf = Tail(@)]
           /\ at' = WokenBy(c, at)
  <2>1. PICK z, y, l : /\ z = [chan[c] EXCEPT !.buf = Tail(chan[c].buf)]
                       /\ y = Append(received[c], Head(chan[c].buf)) /\ l = "run"
        OBVIOUS
  <2>2. /\ y \o Tail(chan[c].buf) = received[c] \o chan[c].buf
        /\ Head(chan[c].buf) \in 1..Senders /\ Tail(chan[c].buf) \in Seq(1..Senders)
        BY <1>4, <1>9, <2>1, ReceiveMoves
  <2>3. z = [state |-> Open, buf |-> Tail(chan[c].buf), pending |-> chan[c].pending]
    <3>1. z = [state |-> chan[c].state, buf |-> Tail(chan[c].buf), pending |-> chan[c].pending]
          BY <1>4, <2>1
    <3> QED BY <1>3, <3>1
  <2>4. z \in Channel
        BY <1>4, <2>2, <2>3 DEF Channel
  <2>5. y \in Seq(1..Senders)
        BY <1>4, <2>1, <2>2, AppendProperties
  <2>6. chan' = [chan EXCEPT ![c] = z] /\ received' = [received EXCEPT ![c] = y]
        BY <1>9, <2>1
  <2>7. /\ at' \in [Threads -> Labels] /\ at'[t] = "run"
        /\ \A u \in Threads : u # t => at'[u] = at[u] \/ (at[u] = "receiving" /\ at'[u] = "run")
        BY <1>0, <1>1, <1>9 DEF Types, WokenBy, Labels
  <2>8. TaskStep(t, l, c, z, y)
        BY <1>1, <1>2, <1>8, <2>1, <2>4, <2>5, <2>6, <2>7 DEF TaskStep, Busy
  <2>9. TaskKept(t, l, c, z, y)
        BY <2>8, TaskFrame
  <2>10. y \o z.buf = Values(c) /\ z.state = Open /\ z.pending = chan[c].pending /\ l # "returned"
    <3>1. z.buf = Tail(chan[c].buf) /\ z.state = Open /\ z.pending = chan[c].pending
          BY <2>3
    <3> QED BY <2>1, <2>2, <3>1 DEF Values
  <2> QED BY <1>7, <2>9, <2>10
<1>10. CASE at' = [at EXCEPT ![t] = "receiving"] /\ UNCHANGED <<chan, received>>
  <2>1. PICK z, y, l : z = chan[c] /\ y = received[c] /\ l = "receiving"
        OBVIOUS
  <2>2. z \in Channel /\ y \in Seq(1..Senders) /\ z.state = Open /\ z.pending = chan[c].pending
        BY <1>3, <1>4, <2>1 DEF Channel
  <2>3. chan' = [chan EXCEPT ![c] = z] /\ received' = [received EXCEPT ![c] = y]
        BY <1>0, <1>10, <2>1 DEF Types
  <2>4. /\ at' \in [Threads -> Labels] /\ at'[t] = "receiving"
        /\ \A u \in Threads : u # t => at'[u] = at[u]
        BY <1>0, <1>10 DEF Types, Labels
  <2>5. TaskStep(t, l, c, z, y)
        BY <1>1, <1>2, <1>8, <2>1, <2>2, <2>3, <2>4 DEF TaskStep, Busy
  <2>6. TaskKept(t, l, c, z, y)
        BY <2>5, TaskFrame
  <2>7. y \o z.buf = Values(c) /\ l # "returned"
        BY <2>1 DEF Values
  <2> QED BY <1>7, <2>2, <2>6, <2>7
<1>11. CASE /\ chan[c].buf = <<>> /\ chan[c].pending = 0
            /\ chan' = [chan EXCEPT ![c] = NoChannel]
            /\ at' = [at EXCEPT ![t] = "returned"]
            /\ UNCHANGED received
  <2>1. PICK z, y, l : z = NoChannel /\ y = received[c] /\ l = "returned"
        OBVIOUS
  <2>2. z \in Channel /\ y \in Seq(1..Senders) /\ z.state = Drained /\ z.buf = <<>>
        BY <1>4, <2>1 DEF Channel, NoChannel
  <2>3. chan' = [chan EXCEPT ![c] = z] /\ received' = [received EXCEPT ![c] = y]
        BY <1>0, <1>11, <2>1 DEF Types
  <2>4. /\ at' \in [Threads -> Labels] /\ at'[t] = "returned"
        /\ \A u \in Threads : u # t => at'[u] = at[u]
        BY <1>0, <1>11 DEF Types, Labels
  <2>5. TaskStep(t, l, c, z, y)
        BY <1>1, <1>2, <1>8, <2>1, <2>2, <2>3, <2>4 DEF TaskStep, Busy
  <2>6. TaskKept(t, l, c, z, y)
        BY <2>5, TaskFrame
  <2>7. y \o z.buf = Values(c)
        BY <1>11, <2>1, <2>2 DEF Values
  <2>8. at[c] # "close" /\ at[c] # "idle" /\ at'[c] \notin {"idle", "close"} /\ chan'[c] = z
        BY <2>6 DEF TaskKept
  <2>9. On(c) = {}
    <3>1. Cardinality(On(c)) = 0
          BY <1>3, <1>5, <1>11, <2>8, Counts DEF ChannelInv
    <3> QED BY <3>1, Counts, FS_EmptySet
  <2>10. ASSUME NEW k \in 1..Receiver PROVE IsOff(<<c, k>>)'
    <3>1. CASE k = Receiver
          BY <1>6, <2>1, <2>6, <2>7, <3>1
    <3>2. CASE k # Receiver
      <4>1. k \in 1..Senders
            BY <3>2, Numbers
      <4>2. IsOff(<<c, k>>)
            BY <2>9, <4>1 DEF On
      <4> QED BY <1>6, <2>6, <2>7, <4>1, <4>2
    <3> QED BY <3>1, <3>2
  <2>11. ChannelInv(c)'
        BY <1>6, <2>1, <2>2, <2>6, <2>7, <2>8, <2>10 DEF ChannelInv, Open, Drained
  <2> QED BY <2>6, <2>11 DEF IInv, TaskKept
<1> QED BY <1>2, <1>9, <1>10, <1>11 DEF Receive, Owner

-----------------------------------------------------------------------------
(* At the queue.                                                           *)

Ready(a) == {w \in Workers : a[w] \in {"take", "spin"}}

\* The workers on their way to the queue can be counted.
LEMMA ReadyFinite == \A a : IsFiniteSet(Ready(a)) /\ Cardinality(Ready(a)) \in Nat
<1> SUFFICES ASSUME NEW a PROVE IsFiniteSet(Ready(a)) /\ Cardinality(Ready(a)) \in Nat
    OBVIOUS
<1>1. Ready(a) \in SUBSET Workers
      BY DEF Ready
<1>2. IsFiniteSet(Ready(a))
      BY <1>1, PoolAssumption, FS_Subset
<1> QED BY <1>2, FS_CardinalityType

\* More workers on their way, fewer asleep, and no more jobs.
LEMMA WakeMore ==
  ASSUME Types, NoLostWakeup, queue' = queue,
         \A w \in Workers : at[w] \in {"take", "spin"} => at'[w] \in {"take", "spin"},
         \A w \in Workers : at'[w] = "parked" => at[w] = "parked",
         \A c \in Callers : at'[c] = "parked" => pending'[c] # 0
  PROVE  NoLostWakeup'
<1>1. Ready(at) \in SUBSET Ready(at')
      BY DEF Ready
<1>2. Cardinality(Ready(at)) <= Cardinality(Ready(at'))
      BY <1>1, ReadyFinite, FS_Subset
<1>3. Cardinality(Ready(at)) \in Nat /\ Cardinality(Ready(at')) \in Nat /\ Len(queue) \in Nat
      BY ReadyFinite DEF Types
<1>4. (\E w \in Workers : at[w] = "parked") => Len(queue) <= Cardinality(Ready(at))
      BY DEF NoLostWakeup, Ready
<1>5. (\E w \in Workers : at'[w] = "parked") => Len(queue') <= Cardinality(Ready(at'))
      BY <1>2, <1>3, <1>4
<1> QED BY <1>5 DEF NoLostWakeup, Ready

\* Who has sent and who is off depends on the labels of two steps only.
LEMMA SentFrame ==
  ASSUME UNCHANGED <<job, ran>>, NEW j,
         \A u \in Threads : /\ at'[u] = "returned" <=> at[u] = "returned"
                            /\ at'[u] = "sent" <=> at[u] = "sent"
  PROVE  (HasSent(j)' <=> HasSent(j)) /\ (IsOff(j)' <=> IsOff(j))
BY DEF HasSent, IsOff

\* A thread at the queue that changes between looking, spinning and sleeping,
\* and sleeps only when there is nothing queued and something to wait for.
LEMMA QueueSideKeeps ==
  ASSUME IInv, NEW t \in Callers \cup Workers, NEW l \in Between, at[t] \in Between,
         at' = [at EXCEPT ![t] = l],
         l = "parked" => queue = <<>> /\ (t \in Callers => pending[t] # 0),
         UNCHANGED <<pool, queue, pending, job, scopes, inline, ran, chan, received>>
  PROVE  IInv'
<1>0. Accounts /\ Types /\ NoLostWakeup
      BY DEF IInv, Accounts
<1>1. t \in Threads /\ at'[t] = l /\ \A u \in Threads : u # t => at'[u] = at[u]
      BY <1>0, Kinds DEF Types
<1>2. at' \in [Threads -> Labels]
      BY <1>0, <1>1 DEF Types, Between, Labels
<1>3. \A u \in Threads : Shape(u)'
  <2> SUFFICES ASSUME NEW u \in Threads PROVE Shape(u)'
      OBVIOUS
  <2>1. Shape(u)
        BY <1>0 DEF Accounts, Shapes
  <2>2. CASE u = t
        BY <1>1, <2>1, <2>2 DEF Shape, Busy, Between
  <2>3. CASE u # t
        BY <1>1, <2>1, <2>3 DEF Shape
  <2> QED BY <2>2, <2>3
<1>4. Accounts'
      BY <1>0, <1>1, <1>2, <1>3, LabelsKeep DEF Types
<1>5. NoLostWakeup'
  <2>1. \A c \in Callers : at'[c] = "parked" => pending'[c] # 0
        BY <1>0, <1>1, Kinds DEF NoLostWakeup
  <2>2. CASE l = "parked"
    <3>1. Len(queue') = 0
          BY <2>2
    <3>2. (\E w \in Workers : at'[w] = "parked") => Len(queue') <= Cardinality(Ready(at'))
          BY <3>1, ReadyFinite
    <3> QED BY <2>1, <3>2 DEF NoLostWakeup, Ready
  <2>3. CASE l # "parked"
    <3>1. \A w \in Workers : at[w] \in {"take", "spin"} => at'[w] \in {"take", "spin"}
          BY <1>1, <2>3, Kinds DEF Between
    <3>2. \A w \in Workers : at'[w] = "parked" => at[w] = "parked"
          BY <1>1, <2>3, Kinds
    <3> QED BY <1>0, <2>1, <3>1, <3>2, WakeMore
  <2> QED BY <2>2, <2>3
<1>6. ASSUME NEW c \in Callers PROVE ChannelInv(c)'
  <2>1. \A u \in Threads : /\ at'[u] = "returned" <=> at[u] = "returned"
                           /\ at'[u] = "sent" <=> at[u] = "sent"
        BY <1>1 DEF Between
  <2>2. \A k \in 1..Receiver : /\ HasSent(<<c, k>>)' <=> HasSent(<<c, k>>)
                               /\ IsOff(<<c, k>>)' <=> IsOff(<<c, k>>)
        BY <2>1, SentFrame
  <2>3. at'[c] = at[c] \/ (at[c] \notin {"idle", "close"} /\ at'[c] \notin {"idle", "close"})
        BY <1>1, Kinds DEF Between
  <2>4. ChannelInv(c)
        BY DEF IInv
  <2> QED BY <2>2, <2>3, <2>4, ChannelFrame
<1> QED BY <1>4, <1>5, <1>6 DEF IInv

\* The spins and the waits of nish_pool_drain keep the invariant.
LEMMA SpinKeeps ==
  ASSUME IInv, NEW t \in Callers \cup Workers, SpinEnds(t) \/ WaitEnds(t) \/ (NothingToTake(t) /\ Waiting(t))
  PROVE  IInv'
<1>1. PICK l \in Between : /\ at[t] \in Between /\ at' = [at EXCEPT ![t] = l]
                           /\ l = "parked" => queue = <<>> /\ (t \in Callers => pending[t] # 0)
      BY Kinds DEF SpinEnds, WaitEnds, NothingToTake, Waiting, Between
<1>2. UNCHANGED <<pool, queue, pending, job, scopes, inline, ran, chan, received>>
      BY DEF SpinEnds, WaitEnds, NothingToTake
<1> QED BY <1>1, <1>2, QueueSideKeeps

-----------------------------------------------------------------------------
(* A thread takes a job that nobody runs.                                  *)

Taking(t, j) ==
  /\ t \in Callers \cup Workers /\ j \in Jobs
  /\ at[t] = "take" \/ (at[t] = "inline" /\ pool = -1 /\ t \in Callers)
  /\ at' = [at EXCEPT ![t] = "run"] /\ job' = [job EXCEPT ![t] = j]
  /\ UNCHANGED <<pool, pending, scopes, ran, chan, received>>
  /\ \A u \in Threads : job[u] # j
  /\ \A k \in Jobs : Held(k)' <=> Held(k)
  /\ queue' \in Seq(Jobs) /\ inline' \in [Callers -> Seq(Jobs)]
  /\ Rightful(t)'

\* What taking a job leaves in order, wherever the job comes from.
LEMMA TakingKeeps ==
  ASSUME IInv, NEW t, NEW j, Taking(t, j)
  PROVE  /\ Types' /\ Shapes' /\ HoldInv'
         /\ \A c \in Callers : RanInv(c)' /\ PendingInv(c)' /\ ChannelInv(c)' /\ (Pooled(c)' <=> Pooled(c))
<1>0. Types /\ Shapes /\ HoldInv
      BY DEF IInv, Accounts
<1>1. /\ t \in Threads /\ at'[t] = "run" /\ job'[t] = j /\ j # None
      /\ \A u \in Threads : u # t => at'[u] = at[u] /\ job'[u] = job[u]
      /\ at[t] \notin Busy /\ job[t] = None
  <2>1. t \in Threads
        BY Kinds DEF Taking
  <2>2. at[t] \notin Busy /\ Shape(t)
        BY <1>0, <2>1 DEF Taking, Busy, Shapes
  <2> QED BY <1>0, <2>1, <2>2, JobIs DEF Taking, Types, Shape
<1>2. Types'
      BY <1>0, <1>1 DEF Taking, Types, Labels
<1>3. \A c \in Callers : /\ Pooled(c)' <=> Pooled(c)
                         /\ at'[c] = at[c] \/ (at[c] \in Inside /\ at'[c] \in Inside)
  <2> SUFFICES ASSUME NEW c \in Callers
               PROVE  (Pooled(c)' <=> Pooled(c)) /\ (at'[c] = at[c] \/ (at[c] \in Inside /\ at'[c] \in Inside))
      OBVIOUS
  <2>1. CASE c # t
        BY <1>1, <2>1, Kinds DEF Taking, Pooled
  <2>2. CASE c = t
    <3>1. CASE at[t] = "take"
          BY <1>1, <2>2, <3>1 DEF Taking, Pooled, Inside, Busy, Between
    <3>2. CASE at[t] = "inline" /\ pool = -1
          BY <1>1, <2>2, <3>2 DEF Taking, Pooled, Inside, Busy, Between
    <3> QED BY <3>1, <3>2 DEF Taking
  <2> QED BY <2>1, <2>2
<1>4. Shapes'
  <2>1. ASSUME NEW u \in Threads PROVE Shape(u)'
    <3>1. CASE u = t
          BY <1>1, <3>1 DEF Shape, Busy
    <3>2. CASE u # t
          BY <1>0, <1>1, <3>2 DEF Shapes, Shape
    <3> QED BY <3>1, <3>2
  <2>2. ASSUME NEW w \in Workers PROVE WorkerShape(w)'
    <3>1. WorkerShape(w)
          BY <1>0 DEF Shapes
    <3>2. CASE w = t
      <4>1. at[w] = "take" /\ pool' = pool
            BY <3>2, Kinds DEF Taking
      <4> QED BY <1>1, <3>1, <3>2, <4>1 DEF WorkerShape, Busy
    <3>3. CASE w # t
          BY <1>1, <3>1, <3>3, Kinds DEF WorkerShape, Taking
    <3> QED BY <3>2, <3>3
  <2>3. ASSUME NEW c \in Callers PROVE CallerShape(c)'
    <3>1. CallerShape(c)
          BY <1>0 DEF Shapes
    <3>2. CASE c = t
          BY <1>1, <3>1, <3>2 DEF CallerShape, Taking, Busy, Between
    <3>3. CASE c # t
          BY <1>1, <3>1, <3>3, Kinds DEF CallerShape, Taking
    <3> QED BY <3>2, <3>3
  <2>4. ASSUME NEW k \in Jobs PROVE ThreadShape(k)'
    <3>1. ThreadShape(k) /\ k # t /\ k \in Threads /\ k[1] \in Callers
          BY <1>0, Kinds, JobIs DEF Shapes, Taking
    <3>2. at'[k] = at[k] /\ job'[k] = job[k] /\ pool' = pool
          BY <1>1, <3>1 DEF Taking
    <3>3. CASE k[1] = t
          BY <1>1, <3>1, <3>2, <3>3 DEF ThreadShape, Taking, Busy
    <3>4. CASE k[1] # t
      <4>1. at'[k[1]] = at[k[1]]
            BY <1>1, <3>1, <3>4, Kinds
      <4> QED BY <3>1, <3>2, <4>1 DEF ThreadShape
    <3> QED BY <3>3, <3>4
  <2> QED BY <2>1, <2>2, <2>3, <2>4 DEF Shapes
<1>5. HoldInv'
  <2>1. ASSUME NEW u \in Callers \cup Workers PROVE Rightful(u)'
    <3>1. CASE u = t
          BY <3>1 DEF Taking
    <3>2. CASE u # t /\ job[u] # None
      <4>1. u \in Threads /\ job'[u] = job[u] /\ pool' = pool
            BY <1>1, <3>2, Kinds DEF Taking
      <4>2. job[u] \in Jobs /\ Rightful(u)
            BY <1>0, <3>2, <4>1 DEF Types, HoldInv
      <4>3. PICK d \in Callers : d = job[u][1]
            BY <4>2, JobIs
      <4>4. Pooled(d)' <=> Pooled(d)
            BY <1>3
      <4> QED BY <4>1, <4>2, <4>3, <4>4 DEF Rightful, Pooled
    <3>3. CASE u # t /\ job[u] = None
          BY <1>1, <3>3, Kinds DEF Rightful
    <3> QED BY <3>1, <3>2, <3>3
  <2>2. ASSUME NEW u \in Threads, NEW x \in Threads, job'[u] = job'[x], job'[u] # None PROVE u = x
    <3>1. \A y \in Threads : y # t => job'[y] # j
          BY <1>1 DEF Taking
    <3>2. CASE u = t \/ x = t
          BY <1>1, <2>2, <3>1, <3>2
    <3>3. CASE u # t /\ x # t
          BY <1>0, <1>1, <2>2, <3>3 DEF HoldInv
    <3> QED BY <3>2, <3>3
  <2> QED BY <2>1, <2>2 DEF HoldInv
<1>6. ASSUME NEW c \in Callers PROVE RanInv(c)' /\ PendingInv(c)' /\ ChannelInv(c)'
  <2>1. RanInv(c) /\ PendingInv(c) /\ ChannelInv(c)
        BY DEF IInv, Accounts
  <2>2. ASSUME NEW i \in 1..Receiver
        PROVE  ran'[<<c, i>>] = ran[<<c, i>>] /\ (Held(<<c, i>>)' <=> Held(<<c, i>>))
        BY JobIs DEF Taking
  <2>3. RanInv(c)'
        BY <1>3, <2>1, <2>2, RanFrame
  <2>4. PendingInv(c)'
        BY <1>3, <2>1, <2>2, PendingFrame DEF Taking
  <2>5. ASSUME NEW i \in 1..Receiver
        PROVE  (HasSent(<<c, i>>)' <=> HasSent(<<c, i>>)) /\ (IsOff(<<c, i>>)' <=> IsOff(<<c, i>>))
    <3>1. \A u \in Threads : /\ (job'[u] = <<c, i>> /\ at'[u] = "returned") <=> (job[u] = <<c, i>> /\ at[u] = "returned")
                             /\ (job'[u] = <<c, i>> /\ at'[u] \in {"sent", "returned"})
                                  <=> (job[u] = <<c, i>> /\ at[u] \in {"sent", "returned"})
          BY <1>1 DEF Busy
    <3> QED BY <2>2, <3>1 DEF HasSent, IsOff
  <2>6. at'[c] = at[c] \/ (at[c] \notin {"idle", "close"} /\ at'[c] \notin {"idle", "close"})
        BY <1>3 DEF Inside, Busy, Between
  <2>7. ChannelInv(c)'
        BY <2>1, <2>5, <2>6, ChannelFrame DEF Taking
  <2> QED BY <2>3, <2>4, <2>7
<1> QED BY <1>2, <1>3, <1>4, <1>5, <1>6

\* No unpooled join keeps a job.
LEMMA InlineEmpty ==
  ASSUME \A c \in Callers : inline'[c] = <<>>
  PROVE  InlineInv'
<1> SUFFICES ASSUME NEW c \in Callers
             PROVE  /\ inline'[c] = <<>> /\ Len(inline'[c]) <= Senders /\ DOMAIN inline'[c] = {}
    BY DEF InlineInv
<1>1. PICK e : e = inline'[c] /\ e = <<>>
      OBVIOUS
<1>2. Len(e) = 0 /\ DOMAIN e = {}
      BY <1>1
<1> QED BY <1>1, <1>2, Numbers

\* nish_pool_drain takes the oldest job: the invariant is kept, the receiver of
\* every scope still behind its senders.
LEMMA TakeJobKeeps ==
  ASSUME IInv, NEW t \in Callers \cup Workers, TakeJob(t)
  PROVE  IInv'
<1>0. Types /\ Shapes /\ HoldInv /\ QueueInv /\ InlineInv /\ NoLostWakeup
      BY DEF IInv, Accounts
<1>1. /\ at[t] = "take" /\ queue # <<>>
      /\ job' = [job EXCEPT ![t] = Head(queue)] /\ queue' = Tail(queue) /\ at' = [at EXCEPT ![t] = "run"]
      /\ UNCHANGED <<pool, pending, scopes, inline, ran, chan, received>>
      BY DEF TakeJob
<1>2. /\ queue \in Seq(Jobs) /\ Len(queue) \in Nat \ {0} /\ DOMAIN queue = 1..Len(queue)
      /\ queue' \in Seq(Jobs) /\ Len(queue') = Len(queue) - 1 /\ DOMAIN queue' = 1..(Len(queue) - 1)
      /\ \A i \in 1..(Len(queue) - 1) : queue'[i] = queue[i + 1]
      BY <1>0, <1>1 DEF Types
<1>3. PICK j \in Jobs : j = Head(queue) /\ j = queue[1]
      BY <1>1, <1>2
<1>4. /\ t \in Threads /\ at'[t] = "run" /\ job'[t] = j /\ pool = 1
      /\ \A u \in Threads : u # t => at'[u] = at[u] /\ job'[u] = job[u]
  <2>1. pool = 1
    <3>1. 1 \in DOMAIN queue
          BY <1>2
    <3> QED BY <1>0, <3>1 DEF QueueInv, Pooled
  <2> QED BY <1>0, <1>1, <1>3, <2>1, Kinds DEF Types
<1>5. \A u \in Threads : job[u] # j
      BY <1>0, <1>2, <1>3 DEF QueueInv
<1>6. ASSUME NEW k \in Jobs PROVE Held(k)' <=> Held(k)
  <2>1. Queued(k) <=> k = j \/ Queued(k)'
    <3>1. ASSUME NEW i \in DOMAIN queue, queue[i] = k, k # j PROVE Queued(k)'
      <4>1. i - 1 \in DOMAIN queue' /\ queue'[i - 1] = queue[i]
            BY <1>2, <1>3, <3>1
      <4> QED BY <3>1, <4>1 DEF Queued
    <3>2. ASSUME NEW i \in DOMAIN queue', queue'[i] = k PROVE Queued(k)
          BY <1>2, <3>2 DEF Queued
    <3>3. Queued(j)
          BY <1>2, <1>3 DEF Queued
    <3> QED BY <3>1, <3>2, <3>3 DEF Queued
  <2>2. Kept(k)' <=> Kept(k)
        BY <1>1 DEF Kept
  <2>3. Running(k)' <=> Running(k) \/ k = j
    <3>1. job[t] # k
      <4>1. Shape(t)
            BY <1>0, <1>4 DEF Shapes
      <4> QED BY <1>1, <4>1, JobIs DEF Shape, Busy
    <3> QED BY <1>4, <3>1 DEF Running
  <2> QED BY <2>1, <2>2, <2>3 DEF Held
<1>7. PICK d \in Callers, n \in 1..Receiver : j = <<d, n>> /\ j[1] = d /\ j[2] = n /\ n # 1 /\ Pooled(d)
  <2>1. j[2] # 1 /\ Pooled(j[1])
        BY <1>0, <1>2, <1>3 DEF QueueInv
  <2> QED BY <2>1, JobIs
<1>8. Rightful(t)'
  <2>1. Pooled(d)'
    <3>1. CASE d = t
          BY <1>1, <1>4, <3>1 DEF Pooled, Busy
    <3>2. CASE d # t
          BY <1>1, <1>4, <1>7, <3>2, Kinds DEF Pooled
    <3> QED BY <3>1, <3>2
  <2> QED BY <1>1, <1>4, <1>7, <2>1 DEF Rightful
<1>9. Taking(t, j)
      BY <1>0, <1>1, <1>2, <1>3, <1>5, <1>6, <1>8 DEF Taking, Types
<1>10. /\ Types' /\ Shapes' /\ HoldInv'
       /\ \A c \in Callers : RanInv(c)' /\ PendingInv(c)' /\ ChannelInv(c)' /\ (Pooled(c)' <=> Pooled(c))
      BY <1>9, TakingKeeps
<1>11. QueueInv'
  <2>1. ASSUME NEW i \in DOMAIN queue'
        PROVE  /\ queue'[i][2] # 1 /\ pool' = 1 /\ at'[queue'[i][1]] \in Busy \cup Between
               /\ i + Receiver - queue'[i][2] \in DOMAIN queue'
               /\ queue'[i + Receiver - queue'[i][2]] = <<queue'[i][1], Receiver>>
    <3>1. i + 1 \in DOMAIN queue /\ queue'[i] = queue[i + 1] /\ queue[i + 1] \in Jobs
          BY <1>2, ElementOfSeq
    <3>2. PICK e \in Callers, m \in 1..Receiver : queue[i + 1] = <<e, m>> /\ e = queue[i + 1][1] /\ m = queue[i + 1][2]
          BY <3>1, JobIs
    <3>3. /\ m # 1 /\ Pooled(e) /\ i + 1 + Receiver - m \in DOMAIN queue
          /\ queue[i + 1 + Receiver - m] = <<e, Receiver>>
          BY <1>0, <3>1, <3>2 DEF QueueInv
    <3>4. i + Receiver - m \in DOMAIN queue' /\ queue'[i + Receiver - m] = queue[i + 1 + Receiver - m]
      <4>1. i + Receiver - m \in 1..(Len(queue) - 1)
            BY <1>2, <3>2, <3>3, Numbers
      <4>2. (i + Receiver - m) + 1 = i + 1 + Receiver - m
            BY <1>2, <3>2, Numbers
      <4> QED BY <1>2, <4>1, <4>2
    <3>5. pool' = 1 /\ at'[e] \in Busy \cup Between
      <4>1. Pooled(e)'
            BY <1>10, <3>3
      <4> QED BY <4>1 DEF Pooled
    <3> QED BY <3>1, <3>2, <3>3, <3>4, <3>5
  <2>2. ASSUME NEW i \in DOMAIN queue', NEW k \in DOMAIN queue', queue'[i] = queue'[k] PROVE i = k
    <3>1. i + 1 \in DOMAIN queue /\ k + 1 \in DOMAIN queue /\ queue[i + 1] = queue[k + 1]
          BY <1>2, <2>2
    <3>2. i + 1 = k + 1
          BY <1>0, <3>1 DEF QueueInv
    <3> QED BY <1>2, <3>2
  <2>3. ASSUME NEW i \in DOMAIN queue', NEW u \in Threads PROVE queue'[i] # job'[u]
    <3>1. i + 1 \in DOMAIN queue /\ queue'[i] = queue[i + 1] /\ i + 1 # 1
          BY <1>2
    <3>2. queue[i + 1] # j
      <4>1. 1 \in DOMAIN queue
            BY <1>2
      <4> QED BY <1>0, <1>3, <3>1, <4>1 DEF QueueInv
    <3>3. queue[i + 1] # job[u]
          BY <1>0, <3>1 DEF QueueInv
    <3> QED BY <1>4, <3>1, <3>2, <3>3
  <2> QED BY <2>1, <2>2, <2>3 DEF QueueInv, Pooled
<1>12. InlineInv'
  <2>1. \A c \in Callers : inline[c] = <<>>
        BY <1>0, <1>4 DEF InlineInv
  <2>2. \A c \in Callers : inline'[c] = <<>>
        BY <1>1, <2>1
  <2> QED BY <2>2, InlineEmpty
<1>13. NoLostWakeup'
  <2>1. \A c \in Callers : at'[c] = "parked" => pending'[c] # 0
        BY <1>0, <1>1, <1>4, Kinds DEF NoLostWakeup
  <2>2. ASSUME NEW w \in Workers, at'[w] = "parked" PROVE Len(queue') <= Cardinality(Ready(at'))
    <3>1. at[w] = "parked"
          BY <1>4, <2>2, Kinds
    <3>2. Len(queue) <= Cardinality(Ready(at))
          BY <1>0, <3>1 DEF NoLostWakeup, Ready
    <3>3. Ready(at) \ {t} \in SUBSET Ready(at')
          BY <1>4, Kinds DEF Ready
    <3>4. Cardinality(Ready(at) \ {t}) <= Cardinality(Ready(at'))
          BY <3>3, ReadyFinite, FS_Subset
    <3>5. Cardinality(Ready(at) \ {t}) \in {Cardinality(Ready(at)), Cardinality(Ready(at)) - 1}
          BY ReadyFinite, FS_RemoveElement
    <3>6. Cardinality(Ready(at)) \in Nat /\ Cardinality(Ready(at')) \in Nat
          BY ReadyFinite
    <3> QED BY <1>2, <3>2, <3>4, <3>5, <3>6
  <2> QED BY <2>1, <2>2 DEF NoLostWakeup, Ready
<1> QED BY <1>10, <1>11, <1>12, <1>13 DEF IInv, Accounts

\* An unpooled join runs the next job it kept.
LEMMA RunInlineKeeps ==
  ASSUME IInv, NEW t \in Callers, RunInline(t)
  PROVE  IInv'
<1>0. Types /\ Shapes /\ HoldInv /\ QueueInv /\ InlineInv /\ NoLostWakeup
      BY DEF IInv, Accounts
<1>1. /\ at[t] = "inline" /\ inline[t] # <<>>
      /\ job' = [job EXCEPT ![t] = Head(inline[t])] /\ inline' = [inline EXCEPT ![t] = Tail(inline[t])]
      /\ at' = [at EXCEPT ![t] = "run"]
      /\ UNCHANGED <<pool, queue, pending, scopes, ran, chan, received>>
      BY DEF RunInline
<1>2. PICK q : q = inline[t]
      OBVIOUS
<1>3. /\ q \in Seq(Jobs) /\ Len(q) \in Nat \ {0} /\ DOMAIN q = 1..Len(q)
      /\ Tail(q) \in Seq(Jobs) /\ Len(Tail(q)) = Len(q) - 1 /\ DOMAIN Tail(q) = 1..(Len(q) - 1)
      /\ \A i \in 1..(Len(q) - 1) : Tail(q)[i] = q[i + 1]
      /\ Head(q) = q[1]
  <2>1. q \in Seq(Jobs) /\ q # <<>>
        BY <1>0, <1>1, <1>2 DEF Types
  <2> QED BY <2>1
<1>4. /\ pool = -1 /\ Len(q) <= Senders
      /\ \A i \in 1..Len(q) : q[i] = <<t, Receiver - Len(q) + i>> /\ \A u \in Threads : q[i] # job[u]
      BY <1>0, <1>1, <1>2, <1>3 DEF InlineInv
<1>5. PICK j \in Jobs, n \in 1..Receiver : j = q[1] /\ j = <<t, n>> /\ n = Receiver - Len(q) + 1 /\ n # 1
  <2>1. Receiver - Len(q) + 1 \in 2..Receiver /\ q[1] = <<t, Receiver - Len(q) + 1>>
        BY <1>3, <1>4, Numbers
  <2>2. PICK n \in 1..Receiver : n = Receiver - Len(q) + 1 /\ n # 1
    <3>1. Receiver - Len(q) + 1 \in 1..Receiver /\ Receiver - Len(q) + 1 # 1
          BY <2>1, Numbers
    <3> QED BY <3>1
  <2>3. <<t, n>> \in Jobs
        BY JobIs
  <2> QED BY <2>1, <2>2, <2>3
<1>6. /\ t \in Threads /\ at'[t] = "run" /\ job'[t] = j
      /\ \A u \in Threads : u # t => at'[u] = at[u] /\ job'[u] = job[u]
      /\ inline'[t] = Tail(q) /\ \A c \in Callers : c # t => inline'[c] = inline[c]
      /\ inline' \in [Callers -> Seq(Jobs)]
      BY <1>0, <1>1, <1>2, <1>3, <1>5, Kinds DEF Types
<1>7. \A u \in Threads : job[u] # j
      BY <1>3, <1>4, <1>5
<1>8. ASSUME NEW k \in Jobs PROVE Held(k)' <=> Held(k)
  <2>1. PICK c \in Callers : c = k[1]
        BY JobIs
  <2>2. Kept(k) <=> k = j \/ Kept(k)'
    <3>1. CASE c # t
      <4>1. k # j
            BY <1>5, <2>1, <3>1
      <4>2. inline'[c] = inline[c]
            BY <1>6, <3>1
      <4> QED BY <2>1, <4>1, <4>2 DEF Kept
    <3>2. CASE c = t
      <4>1. (\E i \in DOMAIN q : q[i] = k) <=> k = j \/ (\E i \in DOMAIN Tail(q) : Tail(q)[i] = k)
        <5>1. ASSUME NEW i \in DOMAIN q, q[i] = k, k # j PROVE \E m \in DOMAIN Tail(q) : Tail(q)[m] = k
          <6>1. i - 1 \in DOMAIN Tail(q) /\ Tail(q)[i - 1] = q[i]
                BY <1>3, <1>5, <5>1
          <6> QED BY <5>1, <6>1
        <5>2. ASSUME NEW i \in DOMAIN Tail(q), Tail(q)[i] = k PROVE \E m \in DOMAIN q : q[m] = k
          <6>1. i + 1 \in DOMAIN q /\ q[i + 1] = k
                BY <1>3, <5>2
          <6> QED BY <6>1
        <5>3. 1 \in DOMAIN q /\ q[1] = j
              BY <1>3, <1>5
        <5> QED BY <5>1, <5>2, <5>3
      <4>2. inline'[k[1]] = Tail(q) /\ inline[k[1]] = q
            BY <1>2, <1>6, <2>1, <3>2
      <4> QED BY <4>1, <4>2 DEF Kept
    <3> QED BY <3>1, <3>2
  <2>3. Queued(k)' <=> Queued(k)
        BY <1>1 DEF Queued
  <2>4. Running(k)' <=> Running(k) \/ k = j
    <3>1. job[t] # k
      <4>1. Shape(t)
            BY <1>0, <1>6 DEF Shapes
      <4> QED BY <1>1, <4>1, JobIs DEF Shape, Busy
    <3> QED BY <1>6, <3>1 DEF Running
  <2> QED BY <2>2, <2>3, <2>4 DEF Held
<1>9. Rightful(t)'
      BY <1>1, <1>4, <1>5, <1>6 DEF Rightful
<1>10. Taking(t, j)
  <2>1. job' = [job EXCEPT ![t] = j]
        BY <1>1, <1>2, <1>3, <1>5
  <2> QED BY <1>0, <1>1, <1>4, <1>6, <1>7, <1>8, <1>9, <2>1 DEF Taking, Types
<1>11. /\ Types' /\ Shapes' /\ HoldInv'
       /\ \A c \in Callers : RanInv(c)' /\ PendingInv(c)' /\ ChannelInv(c)' /\ (Pooled(c)' <=> Pooled(c))
      BY <1>10, TakingKeeps
<1>12. QueueInv'
  <2>1. DOMAIN queue = {}
    <3> SUFFICES ASSUME NEW i \in DOMAIN queue PROVE FALSE
        OBVIOUS
    <3> QED BY <1>0, <1>4 DEF QueueInv, Pooled
  <2>2. DOMAIN queue' = {}
        BY <1>1, <2>1
  <2> QED BY <2>2 DEF QueueInv
<1>13. InlineInv'
  <2>1. ASSUME NEW c \in Callers, c # t
        PROVE  /\ inline'[c] # <<>> => pool' = -1 /\ at'[c] \in Inside
               /\ Len(inline'[c]) <= Senders
               /\ \A i \in DOMAIN inline'[c] :
                    /\ inline'[c][i] = <<c, Receiver - Len(inline'[c]) + i>>
                    /\ \A u \in Threads : inline'[c][i] # job'[u]
    <3>1. inline'[c] = inline[c] /\ pool' = pool /\ at'[c] = at[c]
          BY <1>1, <1>6, <2>1, Kinds
    <3>2. /\ inline[c] # <<>> => pool = -1 /\ at[c] \in Inside
          /\ Len(inline[c]) <= Senders
          /\ \A i \in DOMAIN inline[c] :
               /\ inline[c][i] = <<c, Receiver - Len(inline[c]) + i>>
               /\ \A u \in Threads : inline[c][i] # job[u]
          BY <1>0 DEF InlineInv, In
    <3>3. ASSUME NEW i \in DOMAIN inline[c] PROVE inline[c][i] # j
          BY <1>5, <2>1, <3>2
    <3> QED BY <1>6, <3>1, <3>2, <3>3
  <2>2. /\ Len(Tail(q)) <= Senders
        /\ \A i \in DOMAIN Tail(q) :
             /\ Tail(q)[i] = <<t, Receiver - Len(Tail(q)) + i>>
             /\ \A u \in Threads : Tail(q)[i] # job'[u]
    <3>1. Len(Tail(q)) <= Senders
          BY <1>3, <1>4, Numbers
    <3>2. ASSUME NEW i \in DOMAIN Tail(q)
          PROVE  Tail(q)[i] = <<t, Receiver - Len(Tail(q)) + i>> /\ \A u \in Threads : Tail(q)[i] # job'[u]
      <4>1. i + 1 \in 1..Len(q) /\ Tail(q)[i] = q[i + 1] /\ Receiver - Len(Tail(q)) + i = Receiver - Len(q) + (i + 1)
            BY <1>3, Numbers
      <4>2. q[i + 1] = <<t, Receiver - Len(q) + (i + 1)>> /\ \A u \in Threads : q[i + 1] # job[u]
            BY <1>4, <4>1
      <4>3. Receiver - Len(q) + (i + 1) # n
            BY <1>3, <1>5, Numbers
      <4>4. q[i + 1] # j
            BY <1>5, <4>2, <4>3
      <4> QED BY <1>6, <4>1, <4>2, <4>4
    <3> QED BY <3>1, <3>2
  <2>3. pool' = -1 /\ at'[t] \in Inside
        BY <1>1, <1>4, <1>6 DEF Inside, Busy
  <2>4. ASSUME NEW c \in Callers
        PROVE  /\ inline'[c] # <<>> => pool' = -1 /\ at'[c] \in Inside
               /\ Len(inline'[c]) <= Senders
               /\ \A i \in DOMAIN inline'[c] :
                    /\ inline'[c][i] = <<c, Receiver - Len(inline'[c]) + i>>
                    /\ \A u \in Threads : inline'[c][i] # job'[u]
    <3>1. CASE c # t
          BY <2>1, <3>1
    <3>2. CASE c = t
      <4>1. inline'[c] = Tail(q)
            BY <1>6, <3>2
      <4> QED BY <2>2, <2>3, <3>2, <4>1
    <3> QED BY <3>1, <3>2
  <2> QED BY <2>4 DEF InlineInv, In
<1>14. NoLostWakeup'
  <2>1. \A c \in Callers : at'[c] = "parked" => pending'[c] # 0
        BY <1>0, <1>1, <1>6, Kinds DEF NoLostWakeup
  <2>2. \A w \in Workers : at'[w] = at[w]
        BY <1>6, Kinds
  <2> QED BY <1>0, <1>1, <2>1, <2>2, WakeMore
<1> QED BY <1>11, <1>12, <1>13, <1>14 DEF IInv, Accounts

-----------------------------------------------------------------------------
(* A job returned, on whatever thread.                                     *)

Returning(t, l) ==
  /\ t \in Threads /\ at[t] = "returned" /\ at'[t] = l
  /\ t \in Workers => l = "take" /\ pool = 1
  /\ t \in Callers => (l = "take" /\ pool = 1) \/ (l = "inline" /\ pool = -1)
  /\ t \in Jobs => l = "exited"
  /\ job' = [job EXCEPT ![t] = None] /\ ran' = [ran EXCEPT ![job[t]] = @ + 1]
  /\ at' \in [Threads -> Labels]
  /\ \A u \in Threads : u # t => at'[u] = at[u] \/ (u \in Callers /\ at[u] = "parked" /\ at'[u] = "take")
  /\ pending' \in [Callers -> Int]
  /\ \A c \in Callers :
       pending'[c] = IF Pooled(c) /\ c = job[t][1] /\ job[t][2] # 1 THEN pending[c] - 1 ELSE pending[c]
  /\ \A c \in Callers : at'[c] = "parked" => pending'[c] # 0
  /\ UNCHANGED <<pool, queue, scopes, inline, chan, received>>

\* What the return of a task leaves in order: the task ran, once, and its join
\* counts one less when it came off the queue.
LEMMA ReturningKeeps ==
  ASSUME IInv, NEW t, NEW l, Returning(t, l)
  PROVE  IInv'
<1>0. Accounts /\ Types /\ Shapes /\ HoldInv /\ QueueInv /\ InlineInv /\ NoLostWakeup /\ t \in Threads
      BY DEF IInv, Accounts, Returning
<1>1. PICK o \in Callers, n \in 1..Receiver :
         /\ job[t] \in Jobs /\ job[t] = <<o, n>> /\ o = job[t][1] /\ n = job[t][2]
         /\ In(o) /\ ran[<<o, n>>] = 0 /\ \A u \in Threads : job[u] = <<o, n>> => u = t
  <2>1. at[t] \in Busy
        BY DEF Returning, Busy
  <2>2. /\ job[t] \in Jobs /\ job[t][1] \in Callers /\ job[t][2] \in 1..Receiver
        /\ job[t] = <<job[t][1], job[t][2]>>
        /\ In(job[t][1]) /\ ran[job[t]] = 0
        /\ \A u \in Threads : job[u] = job[t] => u = t
        BY <1>0, <2>1, Runs
  <2> QED BY <2>2
<1>2. /\ job'[t] = None /\ \A u \in Threads : u # t => job'[u] = job[u]
      /\ ran'[<<o, n>>] = 1 /\ \A k \in Jobs : k # <<o, n>> => ran'[k] = ran[k]
      /\ ran' \in [Jobs -> Nat] /\ job' \in [Threads -> Jobs \cup {None}]
      /\ pool' = pool /\ queue' = queue /\ inline' = inline
      BY <1>0, <1>1 DEF Returning, Types
<1>3. Types'
      BY <1>0, <1>2 DEF Types, Returning
<1>4. ASSUME NEW c \in Callers
      PROVE  /\ Pooled(c)' <=> Pooled(c)
             /\ at'[c] = at[c] \/ (at[c] \in Inside /\ at'[c] \in Inside)
  <2>1. CASE c = t
        BY <1>2, <2>1 DEF Returning, Pooled, Inside, Busy, Between
  <2>2. CASE c # t
        BY <1>2, <2>2, Kinds DEF Returning, Pooled, Inside, Busy, Between
  <2> QED BY <2>1, <2>2
<1>5. Shapes'
  <2>1. ASSUME NEW u \in Threads PROVE Shape(u)'
    <3>0. Shape(u)
          BY <1>0 DEF Shapes
    <3>1. CASE u = t
      <4>1. l \in {"take", "inline", "exited"}
            BY <1>0 DEF Returning, Threads
      <4> QED BY <1>2, <3>1, <4>1 DEF Shape, Returning, Busy
    <3>2. CASE u # t
          BY <1>2, <3>0, <3>2 DEF Shape, Returning, Busy
    <3> QED BY <3>1, <3>2
  <2>2. ASSUME NEW w \in Workers PROVE WorkerShape(w)'
        BY <1>0, <1>2, Kinds DEF Shapes, WorkerShape, Returning, Busy, Between
  <2>3. ASSUME NEW c \in Callers PROVE CallerShape(c)'
        BY <1>0, <1>2, Kinds DEF Shapes, CallerShape, Returning, Busy, Between
  <2>4. ASSUME NEW k \in Jobs PROVE ThreadShape(k)'
    <3>1. ThreadShape(k) /\ k \in Threads /\ k \notin Callers /\ k[1] \in Callers /\ k[1] \in Threads
          BY <1>0, Kinds, JobIs DEF Shapes
    <3>2. PICK c \in Callers : c = k[1] /\ c \in Threads
          BY <3>1
    <3>3. /\ at'[k] \in Busy \cup {"off", "exited"} /\ (at'[k] = "off" => at[k] = "off")
          /\ at[k] = "off" => at'[k] = "off"
          /\ at'[k] \in Busy => job'[k] = k
      <4>1. CASE k = t
            BY <3>1, <4>1 DEF Returning, Busy
      <4>2. CASE k # t
            BY <1>2, <3>1, <4>2 DEF Returning, ThreadShape
      <4> QED BY <4>1, <4>2
    <3>4. at[k] # "off" => at[c] = "inline" \/ (pool = -1 /\ at[c] \in Busy)
          BY <3>1, <3>2 DEF ThreadShape
    <3>5. at[k] # "off" => at'[c] = "inline" \/ (pool = -1 /\ at'[c] \in Busy)
      <4>1. CASE c = t
            BY <3>4, <4>1 DEF Returning
      <4>2. CASE c # t
            BY <3>2, <3>4, <4>2 DEF Returning, Busy
      <4> QED BY <4>1, <4>2
    <3> QED BY <1>2, <3>2, <3>3, <3>5 DEF ThreadShape
  <2> QED BY <2>1, <2>2, <2>3, <2>4 DEF Shapes
<1>6. HoldInv'
  <2>1. ASSUME NEW u \in Callers \cup Workers PROVE Rightful(u)'
    <3>0. u \in Threads
          BY Kinds
    <3>1. CASE u = t \/ job[u] = None
          BY <1>2, <3>0, <3>1 DEF Rightful
    <3>2. CASE u # t /\ job[u] # None
      <4>1. job'[u] = job[u] /\ pool' = pool
            BY <1>2, <3>0, <3>2
      <4>2. job[u] \in Jobs /\ Rightful(u)
            BY <1>0, <3>0, <3>2 DEF Types, HoldInv
      <4>3. PICK d \in Callers : d = job[u][1]
            BY <4>2, JobIs
      <4>4. Pooled(d)' <=> Pooled(d)
            BY <1>4
      <4> QED BY <4>1, <4>2, <4>3, <4>4 DEF Rightful, Pooled
    <3> QED BY <3>1, <3>2
  <2>2. \A u, x \in Threads : job'[u] = job'[x] /\ job'[u] # None => u = x
        BY <1>0, <1>2 DEF HoldInv
  <2> QED BY <2>1, <2>2 DEF HoldInv
<1>7. QueueInv'
  <2>1. ASSUME NEW i \in DOMAIN queue
        PROVE  /\ pool' = 1 /\ at'[queue[i][1]] \in Busy \cup Between
               /\ \A u \in Threads : queue[i] # job'[u]
    <3>1. queue[i] \in Jobs
          BY <1>0, ElementOfSeq DEF Types
    <3>2. PICK d \in Callers : d = queue[i][1]
          BY <3>1, JobIs
    <3>3. Pooled(d)
          BY <1>0, <3>2 DEF QueueInv
    <3>4. Pooled(d)'
          BY <1>4, <3>3
    <3>5. \A u \in Threads : queue[i] # job'[u]
          BY <1>0, <1>2, <3>1, JobIs DEF QueueInv
    <3> QED BY <3>2, <3>4, <3>5 DEF Pooled
  <2> QED BY <1>0, <1>2, <2>1 DEF QueueInv, Pooled
<1>8. InlineInv'
  <2>1. ASSUME NEW c \in Callers, NEW i \in DOMAIN inline[c], NEW u \in Threads PROVE inline[c][i] # job'[u]
    <3>1. inline[c][i] \in Jobs
          BY <1>0, ElementOfSeq DEF Types
    <3> QED BY <1>0, <1>2, <3>1, JobIs DEF InlineInv
  <2>2. \A c \in Callers : In(c) => In(c)'
        BY <1>4 DEF In
  <2> QED BY <1>0, <1>2, <2>1, <2>2 DEF InlineInv
<1>9. ASSUME NEW k \in Jobs PROVE Held(k)' <=> Held(k) /\ k # <<o, n>>
  <2>1. (Queued(k)' <=> Queued(k)) /\ (Kept(k)' <=> Kept(k))
        BY <1>2 DEF Queued, Kept
  <2>2. Running(k)' <=> Running(k) /\ k # <<o, n>>
        BY <1>0, <1>1, <1>2, JobIs DEF Running
  <2>3. ~Queued(<<o, n>>)
        BY <1>0, <1>1 DEF Queued, QueueInv
  <2>4. ~Kept(<<o, n>>)
    <3>1. \A i \in DOMAIN inline[o] : inline[o][i] # <<o, n>>
          BY <1>0, <1>1 DEF InlineInv
    <3> QED BY <3>1 DEF Kept
  <2> QED BY <2>1, <2>2, <2>3, <2>4 DEF Held
<1>10. ASSUME NEW c \in Callers PROVE RanInv(c)' /\ PendingInv(c)'
  <2>0. RanInv(c) /\ PendingInv(c) /\ \A i \in 1..Receiver : <<c, i>> \in Jobs
        BY <1>0, JobIs DEF Accounts
  <2>1. CASE c # o
    <3>1. ASSUME NEW i \in 1..Receiver
          PROVE  ran'[<<c, i>>] = ran[<<c, i>>] /\ (Held(<<c, i>>)' <=> Held(<<c, i>>))
      <4>1. <<c, i>> # <<o, n>>
            BY <2>1
      <4> QED BY <1>2, <1>9, <2>0, <4>1
    <3>2. RanInv(c)'
          BY <1>4, <2>0, <3>1, RanFrame
    <3>3. pending'[c] = pending[c]
          BY <1>1, <2>1 DEF Returning
    <3>4. PendingInv(c)'
          BY <1>4, <2>0, <3>1, <3>3, PendingFrame
    <3> QED BY <3>2, <3>4
  <2>2. CASE c = o
    <3>0. Pooled(c)' <=> Pooled(c)
          BY <1>4
    <3>1. ASSUME NEW i \in 1..Receiver
          PROVE  /\ ran'[<<c, i>>] = (IF i = n THEN 1 ELSE ran[<<c, i>>])
                 /\ Held(<<c, i>>)' <=> Held(<<c, i>>) /\ i # n
      <4>1. <<c, i>> = <<o, n>> <=> i = n
            BY <2>2
      <4> QED BY <1>2, <1>9, <2>0, <4>1
    <3>2. In(c) /\ In(c)' /\ at'[c] \in Inside
          BY <1>1, <1>4, <2>2 DEF In
    <3>3. ASSUME NEW i \in 1..Receiver
          PROVE  ran'[<<c, i>>] \in {0, 1} /\ (Held(<<c, i>>)' <=> ran'[<<c, i>>] = 0)
          BY <2>0, <3>1, <3>2 DEF RanInv
    <3>4. RanInv(c)'
          BY <3>2, <3>3 DEF RanInv, Inside, Busy, Between
    <3>5. CASE ~Pooled(c) \/ n = 1
      <4>1. pending'[c] = pending[c]
            BY <1>1, <3>5 DEF Returning
      <4>2. CASE n = 1
        <5>1. Left(c)' = Left(c)
              BY <3>1, <4>2, Numbers DEF Left
        <5> QED BY <2>0, <3>0, <3>4, <4>1, <5>1 DEF PendingInv
      <4>3. CASE ~Pooled(c)
            BY <2>0, <3>0, <3>4, <4>1, <4>3 DEF PendingInv
      <4> QED BY <3>5, <4>2, <4>3
    <3>6. CASE Pooled(c) /\ n # 1
      <4>1. pending'[c] = pending[c] - 1
            BY <1>1, <2>2, <3>6 DEF Returning
      <4>2. Left(c)' = Left(c) \ {n} /\ n \in Left(c)
        <5>1. n \in 2..Receiver /\ ran[<<c, n>>] = 0
              BY <1>1, <2>2, <3>6, Numbers
        <5>2. \A i \in 2..Receiver : ran'[<<c, i>>] = 0 <=> ran[<<c, i>>] = 0 /\ i # n
              BY <3>1, Numbers
        <5> QED BY <5>1, <5>2 DEF Left
      <4>3. Cardinality(Left(c) \ {n}) = Cardinality(Left(c)) - 1
            BY <4>2, Counts, FS_RemoveElement
      <4>4. pending[c] = Cardinality(Left(c)) /\ Pooled(c)'
            BY <2>0, <3>0, <3>6 DEF PendingInv
      <4>5. Cardinality(Left(c)') = Cardinality(Left(c)) - 1
            BY <4>2, <4>3
      <4> QED BY <3>4, <4>1, <4>4, <4>5 DEF PendingInv
    <3> QED BY <3>4, <3>5, <3>6
  <2> QED BY <2>1, <2>2
<1>11. ASSUME NEW c \in Callers PROVE ChannelInv(c)'
  <2>1. ASSUME NEW i \in 1..Receiver
        PROVE  (HasSent(<<c, i>>)' <=> HasSent(<<c, i>>)) /\ (IsOff(<<c, i>>)' <=> IsOff(<<c, i>>))
    <3>0. <<c, i>> \in Jobs
          BY JobIs
    <3>1. CASE <<c, i>> = <<o, n>>
      <4>1. HasSent(<<o, n>>)' /\ IsOff(<<o, n>>)'
            BY <1>2 DEF HasSent, IsOff
      <4>2. HasSent(<<o, n>>) /\ IsOff(<<o, n>>)
            BY <1>0, <1>1 DEF HasSent, IsOff, Returning
      <4> QED BY <3>1, <4>1, <4>2
    <3>2. CASE <<c, i>> # <<o, n>>
      <4>1. ran'[<<c, i>>] = ran[<<c, i>>]
            BY <1>2, <3>0, <3>2
      <4>2. \A u \in Threads : /\ (job'[u] = <<c, i>> /\ at'[u] = "returned") <=> (job[u] = <<c, i>> /\ at[u] = "returned")
                               /\ (job'[u] = <<c, i>> /\ at'[u] \in {"sent", "returned"})
                                    <=> (job[u] = <<c, i>> /\ at[u] \in {"sent", "returned"})
            BY <1>1, <1>2, <3>0, <3>2, JobIs DEF Returning
      <4> QED BY <4>1, <4>2 DEF HasSent, IsOff
    <3> QED BY <3>1, <3>2
  <2>2. at'[c] = at[c] \/ (at[c] \notin {"idle", "close"} /\ at'[c] \notin {"idle", "close"})
        BY <1>4 DEF Inside, Busy, Between
  <2>3. ChannelInv(c) /\ chan'[c] = chan[c] /\ received'[c] = received[c]
        BY DEF IInv, Returning
  <2> QED BY <2>1, <2>2, <2>3, ChannelFrame
<1>12. NoLostWakeup'
  <2>1. ASSUME NEW w \in Workers
        PROVE  /\ at[w] \in {"take", "spin"} => at'[w] \in {"take", "spin"}
               /\ at'[w] = "parked" => at[w] = "parked"
        BY Kinds DEF Returning
  <2> QED BY <1>0, <1>2, <2>1, WakeMore DEF Returning
<1> QED BY <1>3, <1>5, <1>6, <1>7, <1>8, <1>10, <1>11, <1>12 DEF IInv, Accounts

\* The caller's own first task returned.
LEMMA LeadReturnsKeeps ==
  ASSUME IInv, NEW t \in Callers, LeadReturns(t)
  PROVE  IInv'
<1>0. Types /\ Shapes /\ NoLostWakeup /\ t \in Threads
      BY Kinds DEF IInv, Accounts
<1>1. /\ at[t] = "returned" /\ job[t] = <<t, 1>>
      /\ ran' = [ran EXCEPT ![job[t]] = @ + 1] /\ job' = [job EXCEPT ![t] = None]
      /\ at' = [at EXCEPT ![t] = IF pool = 1 THEN "take" ELSE "inline"]
      /\ UNCHANGED <<pool, queue, pending, scopes, inline, chan, received>>
      BY DEF LeadReturns
<1>2. PICK l : l = IF pool = 1 THEN "take" ELSE "inline"
      OBVIOUS
<1>3. pool \in {-1, 1}
  <2>1. pool # 0
        BY <1>0, <1>1 DEF Shapes, CallerShape, Busy
  <2> QED BY <1>0, <2>1 DEF Types
<1>4. at'[t] = l /\ (\A u \in Threads : u # t => at'[u] = at[u]) /\ at' \in [Threads -> Labels]
      BY <1>0, <1>1, <1>2 DEF Types, Labels
<1>5. \A c \in Callers : at'[c] = "parked" => pending'[c] # 0
      BY <1>0, <1>1, <1>2, <1>4, Kinds DEF NoLostWakeup
<1>6. job[t][2] = 1 /\ pending' \in [Callers -> Int]
      BY <1>0, <1>1 DEF Types
<1>7. Returning(t, l)
      BY <1>0, <1>1, <1>2, <1>3, <1>4, <1>5, <1>6, Kinds DEF Returning
<1> QED BY <1>7, ReturningKeeps

\* A job that an unpooled join kept returned.
LEMMA InlineReturnsKeeps ==
  ASSUME IInv, NEW t \in Callers, InlineReturns(t)
  PROVE  IInv'
<1>0. Types /\ Shapes /\ NoLostWakeup /\ t \in Threads
      BY Kinds DEF IInv, Accounts
<1>1. /\ at[t] = "returned" /\ pool = -1
      /\ ran' = [ran EXCEPT ![job[t]] = @ + 1] /\ job' = [job EXCEPT ![t] = None]
      /\ at' = [at EXCEPT ![t] = "inline"]
      /\ UNCHANGED <<pool, queue, pending, scopes, inline, chan, received>>
      BY DEF InlineReturns
<1>2. PICK l : l = "inline"
      OBVIOUS
<1>3. at'[t] = l /\ (\A u \in Threads : u # t => at'[u] = at[u]) /\ at' \in [Threads -> Labels]
      BY <1>0, <1>1, <1>2 DEF Types, Labels
<1>4. \A c \in Callers : at'[c] = "parked" => pending'[c] # 0
      BY <1>0, <1>1, <1>2, <1>3, Kinds DEF NoLostWakeup
<1>5. \A c \in Callers : ~Pooled(c)
      BY <1>1 DEF Pooled
<1>6. Returning(t, l)
      BY <1>0, <1>1, <1>2, <1>3, <1>4, <1>5, Kinds DEF Returning, Types
<1> QED BY <1>6, ReturningKeeps

\* A thread of an unpooled join returned.
LEMMA ThreadExitsKeeps ==
  ASSUME IInv, NEW t \in Jobs, ThreadExits(t)
  PROVE  IInv'
<1>0. Types /\ Shapes /\ NoLostWakeup /\ t \in Threads /\ t \notin Callers /\ t \notin Workers
      BY Kinds DEF IInv, Accounts
<1>1. /\ at[t] = "returned"
      /\ ran' = [ran EXCEPT ![t] = @ + 1] /\ job' = [job EXCEPT ![t] = None]
      /\ at' = [at EXCEPT ![t] = "exited"]
      /\ UNCHANGED <<pool, queue, pending, scopes, inline, chan, received>>
      BY DEF ThreadExits
<1>2. job[t] = t /\ ~Pooled(job[t][1])
      BY <1>0, <1>1 DEF Shapes, ThreadShape, Pooled, Busy, Between
<1>3. PICK l : l = "exited"
      OBVIOUS
<1>4. at'[t] = l /\ (\A u \in Threads : u # t => at'[u] = at[u]) /\ at' \in [Threads -> Labels]
      BY <1>0, <1>1, <1>3 DEF Types, Labels
<1>5. \A c \in Callers : at'[c] = "parked" => pending'[c] # 0
      BY <1>0, <1>1, <1>4, Kinds DEF NoLostWakeup
<1>6. Returning(t, l)
      BY <1>0, <1>1, <1>2, <1>3, <1>4, <1>5 DEF Returning, Types
<1> QED BY <1>6, ReturningKeeps

\* nish_job_done: the count drops, and at 0 the sleeping callers wake.
LEMMA PooledJobReturnsKeeps ==
  ASSUME IInv, NEW t \in Callers \cup Workers, PooledJobReturns(t)
  PROVE  IInv'
<1>0. Accounts /\ Types /\ Shapes /\ HoldInv /\ NoLostWakeup /\ t \in Threads /\ t \notin Jobs
      BY Kinds DEF IInv, Accounts
<1>1. /\ at[t] = "returned" /\ pool = 1 /\ (t \in Workers \/ job[t] # <<t, 1>>)
      /\ ran' = [ran EXCEPT ![job[t]] = @ + 1] /\ job' = [job EXCEPT ![t] = None]
      /\ UNCHANGED <<pool, queue, scopes, inline, chan, received>>
      BY DEF PooledJobReturns
<1>2. PICK o \in Callers : o = job[t][1] /\ job[t] \in Jobs
  <2>1. at[t] \in Busy
        BY <1>1 DEF Busy
  <2> QED BY <1>0, <2>1, Runs
<1>3. job[t][2] # 1 /\ Pooled(o)
  <2>1. job[t] # None /\ Rightful(t)
        BY <1>0, <1>2, JobIs DEF HoldInv
  <2>2. job[t] # <<t, 1>>
        BY <1>1, <1>2, Kinds
  <2> QED BY <1>1, <1>2, <2>1, <2>2 DEF Rightful
<1>4. PICK a : a = [at EXCEPT ![t] = "take"]
      OBVIOUS
<1>5. a \in [Threads -> Labels] /\ a[t] = "take" /\ \A u \in Threads : u # t => a[u] = at[u]
      BY <1>0, <1>4 DEF Types, Labels
<1>6. /\ pending' = [pending EXCEPT ![o] = @ - 1]
      /\ at' = IF pending'[o] = 0
               THEN [u \in Threads |-> IF u \in Callers /\ a[u] = "parked" THEN "take" ELSE a[u]]
               ELSE a
      BY <1>2, <1>4 DEF PooledJobReturns, JobDone, Owner
<1>7. /\ at' \in [Threads -> Labels] /\ at'[t] = "take"
      /\ \A u \in Threads : u # t => at'[u] = at[u] \/ (u \in Callers /\ at[u] = "parked" /\ at'[u] = "take")
  <2>1. CASE pending'[o] = 0
        BY <1>0, <1>5, <1>6, <2>1 DEF Labels
  <2>2. CASE pending'[o] # 0
        BY <1>0, <1>5, <1>6, <2>2
  <2> QED BY <2>1, <2>2
<1>8. /\ pending' \in [Callers -> Int] /\ pending'[o] = pending[o] - 1
      /\ \A c \in Callers : c # o => pending'[c] = pending[c]
      BY <1>0, <1>6 DEF Types
<1>9. ASSUME NEW c \in Callers, at'[c] = "parked" PROVE pending'[c] # 0
  <2>1. c \in Threads /\ c # t
        BY <1>7, <1>9, Kinds
  <2>2. CASE pending'[o] = 0
        BY <1>5, <1>6, <1>9, <2>1, <2>2
  <2>3. CASE pending'[o] # 0
    <3>1. at[c] = "parked"
          BY <1>5, <1>6, <1>9, <2>1, <2>3
    <3> QED BY <1>0, <1>8, <2>3, <3>1 DEF NoLostWakeup
  <2> QED BY <2>2, <2>3
<1>10. PICK l : l = "take"
      OBVIOUS
<1>11. Returning(t, l)
      BY <1>0, <1>1, <1>2, <1>3, <1>7, <1>8, <1>9, <1>10 DEF Returning
<1> QED BY <1>11, ReturningKeeps

-----------------------------------------------------------------------------
(* A join hands out the jobs.                                              *)

Submitting(c, l) ==
  /\ c \in Callers /\ at[c] = "submit" /\ at'[c] = l /\ l \in {"run", "inline"}
  /\ l = "run" => pool # 0 /\ job'[c] = <<c, 1>>
  /\ l = "inline" => job'[c] = job[c]
  /\ \A u \in Callers : u # c => at'[u] = at[u] /\ job'[u] = job[u]
  /\ \A w \in Workers : /\ at'[w] = at[w] \/ (at[w] = "parked" /\ at'[w] = "take")
                        /\ job'[w] = job[w]
  /\ \A j \in Jobs : \/ at'[j] = at[j] /\ job'[j] = job[j]
                     \/ /\ j[1] = c /\ at'[j] = "run" /\ job'[j] = j
                        /\ l = "run" => pool = -1 /\ j[2] # 1
  /\ at' \in [Threads -> Labels] /\ job' \in [Threads -> Jobs \cup {None}]
  /\ pending' \in [Callers -> Int] /\ \A d \in Callers : d # c => pending'[d] = pending[d]
  /\ pending'[c] = IF pool = 1 /\ l = "run" THEN Senders ELSE 0
  /\ \A i \in 1..Receiver : Held(<<c, i>>)'
  /\ \A k \in Jobs : k[1] # c => (Held(k)' <=> Held(k))
  /\ queue' \in Seq(Jobs)
  /\ inline' \in [Callers -> Seq(Jobs)] /\ \A d \in Callers : d # c => inline'[d] = inline[d]
  /\ inline'[c] # <<>> => pool = -1
  /\ Len(inline'[c]) <= Senders
  /\ \A i \in DOMAIN inline'[c] :
       /\ inline'[c][i] = <<c, Receiver - Len(inline'[c]) + i>>
       /\ \A u \in Threads : inline'[c][i] # job'[u]
  /\ UNCHANGED <<pool, scopes, ran, chan, received>>

\* What holds for a caller about to submit: none of its tasks is anywhere.
LEMMA NothingOut ==
  ASSUME IInv, NEW c \in Callers, at[c] \in {"idle", "close", "submit", "finish"}
  PROVE  /\ \A i \in 1..Receiver : ~Held(<<c, i>>)
         /\ \A u \in Threads, i \in 1..Receiver : job[u] # <<c, i>>
         /\ \A u \in Threads : job[u] # None => job[u] \in Jobs /\ job[u][1] # c
         /\ \A i \in DOMAIN queue : queue[i] \in Jobs /\ queue[i][1] # c
         /\ \A j \in Jobs : j[1] = c => at[j] = "off" /\ job[j] = None
         /\ job[c] = None /\ inline[c] = <<>> /\ pending[c] = 0 /\ ~Pooled(c)
<1>0. Types /\ Shapes /\ HoldInv /\ QueueInv /\ InlineInv /\ RanInv(c) /\ PendingInv(c)
      BY DEF IInv, Accounts
<1>1. ~In(c) /\ ~Pooled(c) /\ at[c] \notin Busy
      BY DEF In, Pooled, Inside, Busy, Between
<1>2. \A i \in 1..Receiver : ~Held(<<c, i>>)
      BY <1>0, <1>1 DEF RanInv
<1>3. \A u \in Threads, i \in 1..Receiver : job[u] # <<c, i>>
      BY <1>2 DEF Held, Running
<1>4. \A u \in Threads : job[u] # None => job[u] \in Jobs /\ job[u][1] # c
  <2> SUFFICES ASSUME NEW u \in Threads, job[u] # None PROVE job[u] \in Jobs /\ job[u][1] # c
      OBVIOUS
  <2>1. job[u] \in Jobs
        BY <1>0 DEF Types
  <2>2. job[u] = <<job[u][1], job[u][2]>> /\ job[u][2] \in 1..Receiver
        BY <2>1, JobIs
  <2> QED BY <1>3, <2>1, <2>2
<1>5. \A i \in DOMAIN queue : queue[i] \in Jobs /\ queue[i][1] # c
  <2> SUFFICES ASSUME NEW i \in DOMAIN queue PROVE queue[i] \in Jobs /\ queue[i][1] # c
      OBVIOUS
  <2>1. queue[i] \in Jobs
        BY <1>0, ElementOfSeq DEF Types
  <2>2. Pooled(queue[i][1])
        BY <1>0 DEF QueueInv
  <2> QED BY <1>1, <2>1, <2>2
<1>6. \A j \in Jobs : j[1] = c => at[j] = "off" /\ job[j] = None
  <2> SUFFICES ASSUME NEW j \in Jobs, j[1] = c PROVE at[j] = "off" /\ job[j] = None
      OBVIOUS
  <2>1. ThreadShape(j) /\ Shape(j)
        BY <1>0, Kinds DEF Shapes
  <2>2. at[j] = "off"
        BY <1>1, <2>1 DEF ThreadShape, In, Inside, Busy
  <2> QED BY <2>1, <2>2 DEF Shape, Busy
<1>7. job[c] = None
  <2>1. Shape(c)
        BY <1>0, Kinds DEF Shapes
  <2> QED BY <1>1, <2>1 DEF Shape
<1>8. inline[c] = <<>> /\ pending[c] = 0
      BY <1>0, <1>1 DEF InlineInv, PendingInv
<1> QED BY <1>1, <1>2, <1>3, <1>4, <1>5, <1>6, <1>7, <1>8

\* What handing out the jobs leaves in order, however they are handed out.
LEMMA SubmittingKeeps ==
  ASSUME IInv, NEW c, NEW l, Submitting(c, l)
  PROVE  /\ Types' /\ Shapes' /\ HoldInv' /\ InlineInv'
         /\ \A d \in Callers : RanInv(d)' /\ PendingInv(d)' /\ ChannelInv(d)'
<1>0. Types /\ Shapes /\ HoldInv /\ QueueInv /\ InlineInv /\ c \in Callers /\ c \in Threads /\ pool' = pool /\ ran' = ran
      BY Kinds DEF IInv, Accounts, Submitting
<1>1. at[c] = "submit" /\ at'[c] = l /\ l \in {"run", "inline"}
      BY DEF Submitting
<1>2. /\ \A i \in 1..Receiver : ~Held(<<c, i>>)
      /\ \A u \in Threads, i \in 1..Receiver : job[u] # <<c, i>>
      /\ \A u \in Threads : job[u] # None => job[u] \in Jobs /\ job[u][1] # c
      /\ \A j \in Jobs : j[1] = c => at[j] = "off" /\ job[j] = None
      /\ job[c] = None /\ ~Pooled(c)
      BY <1>0, <1>1, NothingOut
<1>3. Types'
      BY <1>0 DEF Types, Submitting
<1>4. ASSUME NEW d \in Callers, d # c
      PROVE  at'[d] = at[d] /\ job'[d] = job[d] /\ (Pooled(d)' <=> Pooled(d)) /\ pending'[d] = pending[d]
      BY <1>0, <1>4 DEF Submitting, Pooled
<1>5. ASSUME NEW u \in Threads
      PROVE  \/ job'[u] = job[u] /\ (at'[u] = at[u] \/ (at[u] = "parked" /\ at'[u] = "take") \/ (u = c /\ l = "inline"))
             \/ job'[u] \in Jobs /\ job'[u][1] = c /\ at'[u] = "run" /\ job[u] = None
  <2>1. CASE u = c
    <3>1. <<c, 1>> \in Jobs
          BY <1>0, JobIs, Numbers
    <3>2. CASE l = "run"
      <4>1. job'[c] = <<c, 1>> /\ at'[c] = "run"
            BY <1>1, <3>2 DEF Submitting
      <4> QED BY <1>2, <2>1, <3>1, <4>1
    <3>3. CASE l = "inline"
      <4>1. job'[c] = job[c]
            BY <3>3 DEF Submitting
      <4> QED BY <2>1, <3>3, <4>1
    <3> QED BY <1>1, <3>2, <3>3
  <2>2. CASE u \in Callers /\ u # c
        BY <1>4, <2>2
  <2>3. CASE u \in Workers
        BY <2>3 DEF Submitting
  <2>4. CASE u \in Jobs
        BY <1>2, <2>4 DEF Submitting
  <2> QED BY <2>1, <2>2, <2>3, <2>4 DEF Threads
<1>6. Shapes'
  <2>1. ASSUME NEW u \in Threads PROVE Shape(u)'
    <3>0. Shape(u)
          BY <1>0 DEF Shapes
    <3>1. CASE job'[u] = job[u] /\ (at'[u] = at[u] \/ (at[u] = "parked" /\ at'[u] = "take"))
          BY <3>0, <3>1 DEF Shape, Busy
    <3>2. CASE u = c /\ l = "inline" /\ job'[u] = job[u]
          BY <1>1, <1>2, <3>2 DEF Shape, Busy
    <3>3. CASE job'[u] \in Jobs /\ at'[u] = "run"
          BY <3>3, JobIs DEF Shape, Busy
    <3> QED BY <1>5, <3>1, <3>2, <3>3
  <2>2. ASSUME NEW w \in Workers PROVE WorkerShape(w)'
    <3>1. WorkerShape(w)
          BY <1>0 DEF Shapes
    <3>2. pool' = pool /\ (at'[w] = at[w] \/ (at[w] = "parked" /\ at'[w] = "take"))
          BY DEF Submitting
    <3> QED BY <3>1, <3>2 DEF WorkerShape, Busy, Between
  <2>3. ASSUME NEW d \in Callers PROVE CallerShape(d)'
    <3>1. CASE d = c
          BY <1>0, <1>1, <3>1 DEF CallerShape, Submitting, Busy, Between
    <3>2. CASE d # c
          BY <1>0, <1>4, <3>2 DEF Shapes, CallerShape
    <3> QED BY <3>1, <3>2
  <2>4. ASSUME NEW k \in Jobs PROVE ThreadShape(k)'
    <3>1. ThreadShape(k)
          BY <1>0 DEF Shapes
    <3>2. PICK d \in Callers : d = k[1]
          BY JobIs
    <3>3. CASE at'[k] = at[k] /\ job'[k] = job[k] /\ d # c
          BY <1>0, <1>4, <3>1, <3>2, <3>3 DEF ThreadShape
    <3>4. CASE at'[k] = at[k] /\ job'[k] = job[k] /\ d = c
          BY <1>2, <3>2, <3>4 DEF ThreadShape, Busy
    <3>5. CASE d = c /\ at'[k] = "run" /\ job'[k] = k /\ (l = "run" => pool = -1)
          BY <1>0, <1>1, <3>2, <3>5 DEF ThreadShape, Busy
    <3> QED BY <3>2, <3>3, <3>4, <3>5 DEF Submitting
  <2> QED BY <2>1, <2>2, <2>3, <2>4 DEF Shapes
<1>7. HoldInv'
  <2>1. ASSUME NEW u \in Callers \cup Workers PROVE Rightful(u)'
    <3>0. u \in Threads
          BY Kinds
    <3>1. CASE u = c
          BY <1>1, <1>2, <3>1 DEF Submitting, Rightful
    <3>2. CASE u # c
      <4>1. job'[u] = job[u]
            BY <3>2 DEF Submitting
      <4>2. CASE job[u] = None
            BY <4>1, <4>2 DEF Rightful
      <4>3. CASE job[u] # None
        <5>1. job[u] \in Jobs /\ job[u][1] # c /\ Rightful(u)
              BY <1>0, <1>2, <3>0, <4>3 DEF HoldInv
        <5>2. PICK d \in Callers : d = job[u][1] /\ d # c
              BY <5>1, JobIs
        <5>3. Pooled(d)' <=> Pooled(d)
              BY <1>4, <5>2
        <5> QED BY <1>0, <4>1, <5>1, <5>2, <5>3 DEF Rightful, Pooled
      <4> QED BY <4>2, <4>3
    <3> QED BY <3>1, <3>2
  <2>2. ASSUME NEW u \in Threads, job'[u] # job[u]
        PROVE  (u = c /\ job'[u] = <<c, 1>> /\ l = "run") \/ (u \in Jobs /\ job'[u] = u /\ (l = "run" => u # <<c, 1>>))
    <3>1. CASE u = c
          BY <1>1, <2>2, <3>1 DEF Submitting
    <3>2. CASE u \in Jobs
          BY <2>2, <3>2 DEF Submitting
    <3>3. CASE u \in Workers \/ (u \in Callers /\ u # c)
          BY <2>2, <3>3 DEF Submitting
    <3> QED BY <3>1, <3>2, <3>3 DEF Threads
  <2>3. ASSUME NEW u \in Threads, NEW x \in Threads, job'[u] = job'[x], job'[u] # None PROVE u = x
    <3>1. CASE job'[u] = job[u] /\ job'[x] = job[x]
          BY <1>0, <2>3, <3>1 DEF HoldInv
    <3>2. CASE job'[u] # job[u] /\ job'[x] # job[x]
      <4>1. c \notin Jobs
            BY <1>0, Kinds
      <4> QED BY <2>2, <2>3, <3>2, <4>1
    <3>3. CASE job'[u] = job[u] /\ job'[x] # job[x]
      <4>1. job'[x] \in Jobs /\ job'[x][1] = c
            BY <1>5, <3>3
      <4>2. job[u] # None /\ job[u][1] = c
            BY <2>3, <3>3, <4>1
      <4> QED BY <1>2, <4>2
    <3>4. CASE job'[u] # job[u] /\ job'[x] = job[x]
          BY <1>2, <1>5, <2>3, <3>4
    <3> QED BY <3>1, <3>2, <3>3, <3>4
  <2> QED BY <2>1, <2>3 DEF HoldInv
<1>8. InlineInv'
  <2>1. ASSUME NEW d \in Callers
        PROVE  /\ inline'[d] # <<>> => pool' = -1 /\ at'[d] \in Inside
               /\ Len(inline'[d]) <= Senders
               /\ \A i \in DOMAIN inline'[d] :
                    /\ inline'[d][i] = <<d, Receiver - Len(inline'[d]) + i>>
                    /\ \A u \in Threads : inline'[d][i] # job'[u]
    <3>1. CASE d = c
      <4>1. at'[c] \in Inside
            BY <1>1 DEF Inside, Busy
      <4> QED BY <1>0, <3>1, <4>1 DEF Submitting
    <3>2. CASE d # c
      <4>1. inline'[d] = inline[d] /\ at'[d] = at[d]
            BY <1>4, <3>2 DEF Submitting
      <4>2. /\ inline[d] # <<>> => pool = -1 /\ at[d] \in Inside
            /\ Len(inline[d]) <= Senders
            /\ \A i \in DOMAIN inline[d] :
                 /\ inline[d][i] = <<d, Receiver - Len(inline[d]) + i>>
                 /\ \A u \in Threads : inline[d][i] # job[u]
            BY <1>0 DEF InlineInv, In
      <4>3. ASSUME NEW i \in DOMAIN inline[d], NEW u \in Threads PROVE inline[d][i] # job'[u]
        <5>1. inline[d][i][1] = d
              BY <4>2
        <5> QED BY <1>5, <3>2, <4>2, <5>1
      <4> QED BY <1>0, <4>1, <4>2, <4>3
    <3> QED BY <3>1, <3>2
  <2> QED BY <2>1 DEF InlineInv, In
<1>9. ASSUME NEW d \in Callers PROVE RanInv(d)' /\ PendingInv(d)' /\ ChannelInv(d)'
  <2>0. RanInv(d) /\ PendingInv(d) /\ ChannelInv(d) /\ \A i \in 1..Receiver : <<d, i>> \in Jobs
        BY JobIs DEF IInv, Accounts
  <2>1. ASSUME NEW i \in 1..Receiver
        PROVE  (HasSent(<<d, i>>)' <=> HasSent(<<d, i>>)) /\ (IsOff(<<d, i>>)' <=> IsOff(<<d, i>>))
    <3>1. ASSUME NEW u \in Threads
          PROVE  /\ (job'[u] = <<d, i>> /\ at'[u] = "returned") <=> (job[u] = <<d, i>> /\ at[u] = "returned")
                 /\ (job'[u] = <<d, i>> /\ at'[u] \in {"sent", "returned"})
                      <=> (job[u] = <<d, i>> /\ at[u] \in {"sent", "returned"})
          BY <1>1, <1>2, <1>5, <2>0, JobIs
    <3> QED BY <1>0, <3>1 DEF HasSent, IsOff
  <2>2. ChannelInv(d)'
    <3>1. at'[d] = at[d] \/ (at[d] \notin {"idle", "close"} /\ at'[d] \notin {"idle", "close"})
          BY <1>1, <1>4
    <3> QED BY <2>0, <2>1, <3>1, ChannelFrame DEF Submitting
  <2>3. CASE d # c
    <3>1. ASSUME NEW i \in 1..Receiver
          PROVE  ran'[<<d, i>>] = ran[<<d, i>>] /\ (Held(<<d, i>>)' <=> Held(<<d, i>>))
      <4>1. <<d, i>> \in Jobs /\ <<d, i>>[1] # c
            BY <2>0, <2>3
      <4> QED BY <1>0, <4>1 DEF Submitting
    <3>2. RanInv(d)'
          BY <1>4, <2>0, <2>3, <3>1, RanFrame
    <3>3. PendingInv(d)'
          BY <1>4, <2>0, <2>3, <3>1, PendingFrame
    <3> QED BY <2>2, <3>2, <3>3
  <2>4. CASE d = c
    <3>1. \A i \in 1..Receiver : ran'[<<c, i>>] = 0 /\ Held(<<c, i>>)'
          BY <1>0, <1>1, <2>0, <2>4 DEF RanInv, Submitting
    <3>2. RanInv(c)'
          BY <1>1, <3>1 DEF RanInv, In, Inside, Busy
    <3>3. Left(c)' = 2..Receiver
          BY <3>1, Numbers DEF Left
    <3>4. Cardinality(Left(c)') = Senders
          BY <3>3, Numbers, FS_Interval
    <3>5. Pooled(c)' <=> (pool = 1 /\ l = "run")
          BY <1>0, <1>1 DEF Pooled, Busy, Between
    <3>6. PendingInv(c)'
          BY <3>4, <3>5 DEF PendingInv, Submitting
    <3> QED BY <2>2, <2>4, <3>2, <3>6
  <2> QED BY <2>3, <2>4
<1> QED BY <1>3, <1>6, <1>7, <1>8, <1>9

\* The jobs of a scope but its first.
LEMMA RestIs ==
  ASSUME NEW c \in Callers
  PROVE  /\ Rest(c) \in Seq(Jobs) /\ Len(Rest(c)) = Senders /\ DOMAIN Rest(c) = 1..Senders
         /\ \A i \in 1..Senders : Rest(c)[i] = <<c, i + 1>> /\ <<c, i + 1>> \in Jobs
         /\ \A i \in 1..Receiver : i = 1 \/ (i - 1 \in 1..Senders /\ Rest(c)[i - 1] = <<c, i>>)
<1>1. \A i \in 1..Senders : i + 1 \in 1..Receiver
      BY Numbers
<1>2. \A i \in 1..Senders : Rest(c)[i] = <<c, i + 1>> /\ <<c, i + 1>> \in Jobs
      BY <1>1, JobIs DEF Rest
<1>3. DOMAIN Rest(c) = 1..Senders
      BY DEF Rest
<1>4. Rest(c) \in [1..Senders -> Jobs]
      BY <1>2 DEF Rest
<1>5. Rest(c) \in Seq(Jobs) /\ Len(Rest(c)) = Senders
      BY <1>3, <1>4, Numbers, LenProperties
<1>6. ASSUME NEW i \in 1..Receiver, i # 1 PROVE i - 1 \in 1..Senders /\ Rest(c)[i - 1] = <<c, i>>
  <2>1. i - 1 \in 1..Senders /\ (i - 1) + 1 = i
        BY <1>6, Numbers
  <2> QED BY <1>2, <2>1
<1> QED BY <1>2, <1>3, <1>5, <1>6

\* nish_jobs_run_sized keeps the invariant.
LEMMA SubmitSizedKeeps ==
  ASSUME IInv, NEW c \in Callers, SubmitSized(c)
  PROVE  IInv'
<1>0. Types /\ Shapes /\ HoldInv /\ QueueInv /\ InlineInv /\ NoLostWakeup /\ c \in Threads /\ c \notin Jobs
      BY Kinds DEF IInv, Accounts
<1>1. /\ at[c] = "submit"
      /\ at' = [t \in Threads |-> IF t = c THEN "inline"
                                  ELSE IF t \in Jobs /\ t[1] = c THEN "run" ELSE at[t]]
      /\ job' = [t \in Threads |-> IF t \in Jobs /\ t[1] = c THEN t ELSE job[t]]
      /\ UNCHANGED <<pool, queue, pending, scopes, inline, ran, chan, received>>
      BY DEF SubmitSized, Owner
<1>2. /\ \A i \in 1..Receiver : ~Held(<<c, i>>)
      /\ \A u \in Threads : job[u] # None => job[u] \in Jobs /\ job[u][1] # c
      /\ \A i \in DOMAIN queue : queue[i] \in Jobs /\ queue[i][1] # c
      /\ inline[c] = <<>> /\ pending[c] = 0
      BY <1>1, NothingOut
<1>3. /\ at'[c] = "inline" /\ job'[c] = job[c]
      /\ \A u \in Callers : u # c => at'[u] = at[u] /\ job'[u] = job[u]
      /\ \A w \in Workers : at'[w] = at[w] /\ job'[w] = job[w]
      /\ \A j \in Jobs : \/ j[1] # c /\ at'[j] = at[j] /\ job'[j] = job[j]
                         \/ j[1] = c /\ at'[j] = "run" /\ job'[j] = j
  <2>1. at'[c] = "inline" /\ job'[c] = job[c]
        BY <1>0, <1>1
  <2>2. \A u \in Callers : u # c => at'[u] = at[u] /\ job'[u] = job[u]
        BY <1>1, Kinds
  <2>3. \A w \in Workers : at'[w] = at[w] /\ job'[w] = job[w]
        BY <1>1, Kinds
  <2>4. \A j \in Jobs : \/ j[1] # c /\ at'[j] = at[j] /\ job'[j] = job[j]
                        \/ j[1] = c /\ at'[j] = "run" /\ job'[j] = j
        BY <1>0, <1>1, Kinds
  <2> QED BY <2>1, <2>2, <2>3, <2>4
<1>4. at' \in [Threads -> Labels] /\ job' \in [Threads -> Jobs \cup {None}]
      BY <1>0, <1>1 DEF Types, Labels
<1>5. \A i \in 1..Receiver : Held(<<c, i>>)'
  <2> SUFFICES ASSUME NEW i \in 1..Receiver PROVE Held(<<c, i>>)'
      OBVIOUS
  <2>1. PICK j \in Jobs : j = <<c, i>> /\ j[1] = c /\ j \in Threads
        BY JobIs, Kinds
  <2>2. job'[j] = j
        BY <1>3, <2>1
  <2> QED BY <2>1, <2>2 DEF Held, Running
<1>6. ASSUME NEW k \in Jobs, k[1] # c PROVE Held(k)' <=> Held(k)
  <2>1. (Queued(k)' <=> Queued(k)) /\ (Kept(k)' <=> Kept(k))
        BY <1>1 DEF Queued, Kept
  <2>2. ASSUME NEW u \in Threads PROVE job'[u] = k <=> job[u] = k
    <3>1. CASE u \in Jobs /\ u[1] = c
      <4>1. job[u] = None /\ u # k
            BY <1>1, <1>6, <3>1, NothingOut
      <4> QED BY <1>3, <3>1, <4>1, JobIs
    <3>2. CASE ~(u \in Jobs /\ u[1] = c)
          BY <1>1, <3>2
    <3> QED BY <3>1, <3>2
  <2>3. Running(k)' <=> Running(k)
        BY <2>2 DEF Running
  <2> QED BY <2>1, <2>3 DEF Held
<1>7. PICK l : l = "inline"
      OBVIOUS
<1>8. /\ inline' \in [Callers -> Seq(Jobs)] /\ (\A d \in Callers : d # c => inline'[d] = inline[d])
      /\ inline'[c] = <<>> /\ Len(inline'[c]) <= Senders /\ DOMAIN inline'[c] = {}
  <2>1. PICK e : e = <<>> /\ e = inline'[c]
        BY <1>1, <1>2
  <2>2. Len(e) = 0 /\ DOMAIN e = {}
        BY <2>1
  <2> QED BY <1>0, <1>1, <2>1, <2>2, Numbers DEF Types
<1>9. Submitting(c, l)
  <2>1. pending' \in [Callers -> Int] /\ (\A d \in Callers : d # c => pending'[d] = pending[d]) /\ pending'[c] = 0 /\ queue' \in Seq(Jobs)
        BY <1>0, <1>1, <1>2 DEF Types
  <2> QED BY <1>1, <1>3, <1>4, <1>5, <1>6, <1>7, <1>8, <2>1, ZenonT(60) DEF Submitting
<1>10. /\ Types' /\ Shapes' /\ HoldInv' /\ InlineInv'
       /\ \A d \in Callers : RanInv(d)' /\ PendingInv(d)' /\ ChannelInv(d)'
      BY <1>9, SubmittingKeeps
<1>11. QueueInv'
  <2>1. ASSUME NEW i \in DOMAIN queue
        PROVE  /\ pool' = 1 /\ at'[queue[i][1]] \in Busy \cup Between
               /\ \A u \in Threads : queue[i] # job'[u]
    <3>1. PICK d \in Callers : d = queue[i][1] /\ d # c /\ queue[i] \in Jobs
          BY <1>2, JobIs
    <3>2. Pooled(d) /\ at'[d] = at[d]
          BY <1>0, <1>3, <3>1 DEF QueueInv
    <3>3. ASSUME NEW u \in Threads PROVE queue[i] # job'[u]
      <4>1. CASE u \in Jobs /\ u[1] = c
            BY <1>3, <3>1, <4>1
      <4>2. CASE ~(u \in Jobs /\ u[1] = c)
            BY <1>0, <1>1, <4>2 DEF QueueInv
      <4> QED BY <4>1, <4>2
    <3> QED BY <1>1, <3>1, <3>2, <3>3 DEF Pooled
  <2> QED BY <1>0, <1>1, <2>1 DEF QueueInv, Pooled
<1>12. NoLostWakeup'
  <2>1. \A d \in Callers : at'[d] = "parked" => pending'[d] # 0
        BY <1>0, <1>1, <1>3 DEF NoLostWakeup
  <2> QED BY <1>0, <1>1, <1>3, <2>1, WakeMore
<1> QED BY <1>10, <1>11, <1>12 DEF IInv, Accounts

\* The unpooled half of nish_jobs_run keeps it, whatever number of threads
\* could be created.
LEMMA SubmitUnpooledKeeps ==
  ASSUME IInv, NEW c \in Callers, SubmitUnpooled(c)
  PROVE  IInv'
<1>0. Types /\ Shapes /\ HoldInv /\ QueueInv /\ InlineInv /\ NoLostWakeup /\ c \in Threads /\ c \notin Jobs
      BY Kinds DEF IInv, Accounts
<1>1. PICK k \in 0..Senders :
        /\ inline' = [inline EXCEPT ![c] = SubSeq(Rest(c), k + 1, Senders)]
        /\ LET made == {Rest(c)[i] : i \in 1..k}
           IN  /\ at' = [t \in Threads |-> IF t = c \/ t \in made THEN "run" ELSE at[t]]
               /\ job' = [t \in Threads |-> IF t = c THEN <<c, 1>>
                                            ELSE IF t \in made THEN t ELSE job[t]]
      BY DEF SubmitUnpooled
<1>2. /\ at[c] = "submit" /\ pool = -1
      /\ UNCHANGED <<pool, queue, pending, scopes, ran, chan, received>>
      BY DEF SubmitUnpooled
<1>3. PICK made : made = {Rest(c)[i] : i \in 1..k}
      OBVIOUS
<1>4. /\ at' = [t \in Threads |-> IF t = c \/ t \in made THEN "run" ELSE at[t]]
      /\ job' = [t \in Threads |-> IF t = c THEN <<c, 1>> ELSE IF t \in made THEN t ELSE job[t]]
      BY <1>1, <1>3
<1>5. /\ \A j \in made : j \in Jobs /\ j[1] = c /\ j[2] # 1
      /\ \A i \in 1..Receiver : (<<c, i>> \in made <=> i \in 2..(k + 1))
  <2>1. \A i \in 1..k : i \in 1..Senders
        BY Numbers
  <2>2. ASSUME NEW j \in made PROVE j \in Jobs /\ j[1] = c /\ j[2] # 1
    <3>1. PICK i \in 1..k : j = Rest(c)[i]
          BY <1>3, <2>2
    <3>2. j = <<c, i + 1>> /\ <<c, i + 1>> \in Jobs
          BY <2>1, <3>1, RestIs
    <3>3. i + 1 # 1
          BY <3>1
    <3> QED BY <3>2, <3>3
  <2>3. ASSUME NEW i \in 1..Receiver, <<c, i>> \in made PROVE i \in 2..(k + 1)
    <3>1. PICK m \in 1..k : <<c, i>> = Rest(c)[m]
          BY <1>3, <2>3
    <3>2. <<c, i>> = <<c, m + 1>>
          BY <2>1, <3>1, RestIs
    <3> QED BY <3>2
  <2>4. ASSUME NEW i \in 1..Receiver, i \in 2..(k + 1) PROVE <<c, i>> \in made
    <3>1. i - 1 \in 1..k /\ i # 1
          BY <2>4
    <3>2. Rest(c)[i - 1] = <<c, i>>
          BY <3>1, RestIs
    <3> QED BY <1>3, <3>1, <3>2
  <2> QED BY <2>2, <2>3, <2>4
<1>6. /\ \A i \in 1..Receiver : ~Held(<<c, i>>)
      /\ \A u \in Threads : job[u] # None => job[u] \in Jobs /\ job[u][1] # c
      /\ \A i \in DOMAIN queue : queue[i] \in Jobs /\ queue[i][1] # c
      /\ inline[c] = <<>> /\ pending[c] = 0
      BY <1>2, NothingOut
<1>7. /\ at'[c] = "run" /\ job'[c] = <<c, 1>>
      /\ \A u \in Callers : u # c => at'[u] = at[u] /\ job'[u] = job[u]
      /\ \A w \in Workers : at'[w] = at[w] /\ job'[w] = job[w]
      /\ \A j \in Jobs : \/ j \notin made /\ at'[j] = at[j] /\ job'[j] = job[j]
                         \/ j \in made /\ at'[j] = "run" /\ job'[j] = j
  <2>1. at'[c] = "run" /\ job'[c] = <<c, 1>>
        BY <1>0, <1>4
  <2>2. \A u \in Callers : u # c => at'[u] = at[u] /\ job'[u] = job[u]
        BY <1>4, <1>5, Kinds
  <2>3. \A w \in Workers : at'[w] = at[w] /\ job'[w] = job[w]
        BY <1>4, <1>5, Kinds
  <2>4. \A j \in Jobs : \/ j \notin made /\ at'[j] = at[j] /\ job'[j] = job[j]
                        \/ j \in made /\ at'[j] = "run" /\ job'[j] = j
        BY <1>0, <1>4, Kinds
  <2> QED BY <2>1, <2>2, <2>3, <2>4
<1>8. at' \in [Threads -> Labels] /\ job' \in [Threads -> Jobs \cup {None}]
  <2>1. <<c, 1>> \in Jobs
        BY JobIs, Numbers
  <2> QED BY <1>0, <1>4, <1>5, <2>1 DEF Types, Labels
<1>9. PICK q : q = SubSeq(Rest(c), k + 1, Senders)
      OBVIOUS
<1>10. /\ q \in Seq(Jobs) /\ Len(q) = Senders - k /\ DOMAIN q = 1..(Senders - k)
       /\ \A i \in 1..(Senders - k) : q[i] = <<c, k + i + 1>> /\ k + i + 1 \in 1..Receiver
  <2>1. PICK r \in Seq(Jobs) : r = Rest(c) /\ Len(r) = Senders /\ \A i \in 1..Senders : r[i] = <<c, i + 1>>
        BY RestIs
  <2>2. k + 1 \in 1..(Len(r) + 1) /\ Senders \in k..Len(r)
        BY <2>1, Numbers
  <2>3. /\ q \in Seq(Jobs) /\ Len(q) = Senders - k /\ DOMAIN q = 1..(Senders - k)
        /\ \A i \in 1..(Senders - k) : q[i] = r[k + i]
    <3>1. q = SubSeq(r, k + 1, Senders)
          BY <1>9, <2>1
    <3>2. Len(q) = Senders - k /\ DOMAIN q = 1..(Senders - k)
          BY <2>1, <2>2, <3>1, Numbers
    <3>3. \A i \in 1..(Senders - k) : q[i] = r[k + i]
          BY <2>1, <2>2, <3>1, Numbers
    <3>4. q \in Seq(Jobs)
      <4>1. \A i \in 1..(Senders - k) : k + i \in 1..Len(r)
            BY <2>1, <2>2, Numbers
      <4>2. \A i \in (k + 1)..Senders : r[i] \in Jobs
            BY <2>1, RestIs
      <4> QED BY <2>1, <2>2, <3>1, <4>2, Numbers
    <3> QED BY <3>2, <3>3, <3>4
  <2>4. ASSUME NEW i \in 1..(Senders - k) PROVE q[i] = <<c, k + i + 1>> /\ k + i + 1 \in 1..Receiver
    <3>1. k + i \in 1..Senders /\ k + i + 1 \in 1..Receiver
          BY Numbers
    <3> QED BY <2>1, <2>3, <3>1
  <2> QED BY <2>3, <2>4
<1>11. /\ inline' \in [Callers -> Seq(Jobs)] /\ inline'[c] = q
       /\ \A d \in Callers : d # c => inline'[d] = inline[d]
      BY <1>0, <1>1, <1>9, <1>10 DEF Types
<1>12. ASSUME NEW i \in 1..Receiver PROVE Held(<<c, i>>)'
  <2>1. CASE i = 1
        BY <1>0, <1>7, <2>1 DEF Held, Running
  <2>2. CASE i \in 2..(k + 1)
    <3>1. PICK j \in Jobs : j = <<c, i>> /\ j \in Threads
          BY JobIs, Kinds
    <3>2. job'[j] = j
          BY <1>5, <1>7, <2>2, <3>1
    <3> QED BY <3>1, <3>2 DEF Held, Running
  <2>3. CASE i > k + 1
    <3>1. i - k - 1 \in 1..(Senders - k) /\ k + (i - k - 1) + 1 = i
          BY <2>3, Numbers
    <3>2. i - k - 1 \in DOMAIN q /\ q[i - k - 1] = <<c, i>>
          BY <1>10, <3>1
    <3>3. <<c, i>>[1] = c
          OBVIOUS
    <3> QED BY <1>11, <3>2, <3>3 DEF Held, Kept
  <2> QED BY <2>1, <2>2, <2>3
<1>13. ASSUME NEW j \in Jobs, j[1] # c PROVE Held(j)' <=> Held(j)
  <2>1. Queued(j)' <=> Queued(j)
        BY <1>2 DEF Queued
  <2>2. Kept(j)' <=> Kept(j)
    <3>1. inline'[j[1]] = inline[j[1]]
          BY <1>11, <1>13, JobIs
    <3> QED BY <3>1 DEF Kept
  <2>3. ASSUME NEW u \in Threads PROVE job'[u] = j <=> job[u] = j
    <3>1. CASE u = c
      <4>1. job[c] # j
        <5>1. job[c] = None
              BY <1>2, NothingOut
        <5> QED BY <5>1, JobIs
      <4>2. <<c, 1>> # j
            BY <1>13
      <4> QED BY <1>7, <3>1, <4>1, <4>2
    <3>2. CASE u # c /\ u \in made
      <4>1. job[u] = None /\ u # j
            BY <1>2, <1>5, <1>13, <3>2, NothingOut
      <4> QED BY <1>4, <3>2, <4>1, JobIs
    <3>3. CASE u # c /\ u \notin made
          BY <1>4, <3>3
    <3> QED BY <3>1, <3>2, <3>3
  <2>4. Running(j)' <=> Running(j)
        BY <2>3 DEF Running
  <2> QED BY <2>1, <2>2, <2>4 DEF Held
<1>14. ASSUME NEW i \in DOMAIN q
       PROVE  q[i] = <<c, Receiver - Len(q) + i>> /\ \A u \in Threads : q[i] # job'[u]
  <2>1. q[i] = <<c, k + i + 1>> /\ k + i + 1 \in 1..Receiver /\ i \in 1..(Senders - k)
        BY <1>10
  <2>2. Receiver - Len(q) + i = k + i + 1
        BY <1>10, <2>1, Numbers
  <2>3. k + i + 1 # 1 /\ k + i + 1 \notin 2..(k + 1)
        BY <2>1
  <2>4. <<c, k + i + 1>> \notin made
        BY <1>5, <2>1, <2>3
  <2>5. ASSUME NEW u \in Threads PROVE <<c, k + i + 1>> # job'[u]
    <3>1. CASE u = c
          BY <1>7, <2>3, <3>1
    <3>2. CASE u # c /\ u \in made
          BY <1>4, <2>4, <3>2
    <3>3. CASE u # c /\ u \notin made
      <4>1. job[u] # <<c, k + i + 1>>
            BY <1>2, <2>1, NothingOut
      <4> QED BY <1>4, <3>3, <4>1
    <3> QED BY <3>1, <3>2, <3>3
  <2> QED BY <2>1, <2>2, <2>5
<1>15. PICK l : l = "run"
      OBVIOUS
<1>16. Submitting(c, l)
  <2>1. pending' \in [Callers -> Int] /\ (\A d \in Callers : d # c => pending'[d] = pending[d]) /\ pending'[c] = 0 /\ queue' \in Seq(Jobs)
        BY <1>0, <1>2, <1>6 DEF Types
  <2>2. Len(inline'[c]) <= Senders
        BY <1>10, <1>11, Numbers
  <2>3. \A j \in Jobs : \/ at'[j] = at[j] /\ job'[j] = job[j]
                        \/ j[1] = c /\ at'[j] = "run" /\ job'[j] = j /\ j[2] # 1
        BY <1>5, <1>7
  <2> QED BY <1>2, <1>7, <1>8, <1>11, <1>12, <1>13, <1>14, <1>15, <2>1, <2>2, <2>3 DEF Submitting
<1>17. /\ Types' /\ Shapes' /\ HoldInv' /\ InlineInv'
       /\ \A d \in Callers : RanInv(d)' /\ PendingInv(d)' /\ ChannelInv(d)'
      BY <1>16, SubmittingKeeps
<1>18. QueueInv'
  <2>1. DOMAIN queue = {}
    <3> SUFFICES ASSUME NEW i \in DOMAIN queue PROVE FALSE
        OBVIOUS
    <3> QED BY <1>0, <1>2 DEF QueueInv, Pooled
  <2>2. DOMAIN queue' = {}
        BY <1>2, <2>1
  <2> QED BY <2>2 DEF QueueInv
<1>19. NoLostWakeup'
  <2>1. \A d \in Callers : at'[d] = "parked" => pending'[d] # 0
        BY <1>0, <1>2, <1>7 DEF NoLostWakeup
  <2> QED BY <1>0, <1>2, <1>7, <2>1, WakeMore
<1> QED BY <1>17, <1>18, <1>19 DEF IInv, Accounts

\* The pooled half of nish_jobs_run keeps it: the receiver is queued last, and
\* the signals leave no worker asleep beside a job too many.
LEMMA SubmitKeeps ==
  ASSUME IInv, NEW c \in Callers, Submit(c)
  PROVE  IInv'
<1>0. Types /\ Shapes /\ HoldInv /\ QueueInv /\ InlineInv /\ NoLostWakeup /\ c \in Threads /\ c \notin Jobs /\ c \notin Workers
      BY Kinds DEF IInv, Accounts
<1>1. /\ at[c] = "submit" /\ pool = 1 /\ queue' = queue \o Rest(c)
      /\ pending' = [pending EXCEPT ![c] = Senders] /\ job' = [job EXCEPT ![c] = <<c, 1>>]
      /\ UNCHANGED <<pool, scopes, inline, ran, chan, received>>
      BY DEF Submit
<1>2. PICK parked, woken :
        /\ parked = {w \in Workers : at[w] = "parked"} /\ woken \in SUBSET parked
        /\ Cardinality(woken) = IF Cardinality(parked) < Senders THEN Cardinality(parked) ELSE Senders
        /\ at' = [t \in Threads |-> IF t = c THEN "run" ELSE IF t \in woken THEN "take" ELSE at[t]]
      BY DEF Submit
<1>3. /\ \A i \in 1..Receiver : ~Held(<<c, i>>)
      /\ \A u \in Threads : job[u] # None => job[u] \in Jobs /\ job[u][1] # c
      /\ \A i \in DOMAIN queue : queue[i] \in Jobs /\ queue[i][1] # c
      /\ \A j \in Jobs : j[1] = c => at[j] = "off" /\ job[j] = None
      /\ job[c] = None /\ inline[c] = <<>> /\ pending[c] = 0
      BY <1>1, NothingOut
<1>4. /\ at'[c] = "run" /\ job'[c] = <<c, 1>>
      /\ \A u \in Threads : u # c => job'[u] = job[u]
      /\ \A u \in Threads : u # c /\ u \notin Workers => at'[u] = at[u]
      /\ \A w \in Workers : \/ w \notin woken /\ at'[w] = at[w]
                            \/ w \in woken /\ at[w] = "parked" /\ at'[w] = "take"
  <2>1. at'[c] = "run" /\ job'[c] = <<c, 1>> /\ \A u \in Threads : u # c => job'[u] = job[u]
        BY <1>0, <1>1, <1>2 DEF Types
  <2>2. \A u \in Threads : u # c /\ u \notin Workers => at'[u] = at[u]
        BY <1>2
  <2>3. \A w \in Workers : \/ w \notin woken /\ at'[w] = at[w]
                           \/ w \in woken /\ at[w] = "parked" /\ at'[w] = "take"
        BY <1>0, <1>2, Kinds
  <2> QED BY <2>1, <2>2, <2>3
<1>5. at' \in [Threads -> Labels] /\ job' \in [Threads -> Jobs \cup {None}]
  <2>1. <<c, 1>> \in Jobs
        BY JobIs, Numbers
  <2> QED BY <1>0, <1>1, <1>2, <2>1 DEF Types, Labels
<1>6. PICK n \in Nat, r \in Seq(Jobs) : n = Len(queue) /\ r = Rest(c) /\ Len(r) = Senders
      BY <1>0, RestIs DEF Types
<1>7. /\ queue \in Seq(Jobs) /\ DOMAIN queue = 1..n
      /\ queue' \in Seq(Jobs) /\ Len(queue') = n + Senders /\ DOMAIN queue' = 1..(n + Senders)
      /\ \A i \in 1..n : queue'[i] = queue[i]
      /\ \A i \in (n + 1)..(n + Senders) : queue'[i] = r[i - n]
  <2>1. queue \in Seq(Jobs) /\ queue' = queue \o r
        BY <1>0, <1>1, <1>6 DEF Types
  <2>2. /\ queue' \in Seq(Jobs) /\ Len(queue') = n + Senders
        /\ \A i \in 1..(n + Senders) : queue'[i] = IF i <= n THEN queue[i] ELSE r[i - n]
        BY <1>6, <2>1, ConcatProperties
  <2>3. DOMAIN queue = 1..n /\ DOMAIN queue' = 1..(n + Senders)
        BY <1>6, <2>1, <2>2, LenProperties
  <2> QED BY <1>6, <2>1, <2>2, <2>3, Numbers
<1>8. \A i \in (n + 1)..(n + Senders) : queue'[i] = <<c, i - n + 1>> /\ i - n + 1 \in 2..Receiver
  <2> SUFFICES ASSUME NEW i \in (n + 1)..(n + Senders) PROVE queue'[i] = <<c, i - n + 1>> /\ i - n + 1 \in 2..Receiver
      OBVIOUS
  <2>1. i - n \in 1..Senders /\ i - n + 1 \in 2..Receiver
        BY <1>6, Numbers
  <2>2. Rest(c)[i - n] = <<c, i - n + 1>>
        BY <2>1, RestIs
  <2> QED BY <1>6, <1>7, <2>1, <2>2
<1>9. \A i \in 1..(n + Senders) : i \in 1..n \/ i \in (n + 1)..(n + Senders)
      BY <1>6, Numbers
<1>10. ASSUME NEW i \in 1..Receiver PROVE Held(<<c, i>>)'
  <2>1. CASE i = 1
        BY <1>0, <1>4, <2>1 DEF Held, Running
  <2>2. CASE i # 1
    <3>1. i - 1 + n \in (n + 1)..(n + Senders) /\ (i - 1 + n) - n + 1 = i /\ i - 1 + n \in 1..(n + Senders)
          BY <1>6, <2>2, Numbers
    <3>2. queue'[i - 1 + n] = <<c, i>> /\ i - 1 + n \in DOMAIN queue'
          BY <1>7, <1>8, <3>1
    <3> QED BY <3>2 DEF Held, Queued
  <2> QED BY <2>1, <2>2
<1>11. ASSUME NEW j \in Jobs, j[1] # c PROVE Held(j)' <=> Held(j)
  <2>1. Queued(j)' => Queued(j)
    <3> SUFFICES ASSUME NEW i \in DOMAIN queue', queue'[i] = j PROVE Queued(j)
        BY DEF Queued
    <3>1. i \notin (n + 1)..(n + Senders)
          BY <1>8, <1>11
    <3>2. i \in DOMAIN queue /\ queue[i] = j
          BY <1>7, <1>9, <3>1
    <3> QED BY <3>2 DEF Queued
  <2>2. Queued(j) => Queued(j)'
    <3> SUFFICES ASSUME NEW i \in DOMAIN queue, queue[i] = j PROVE Queued(j)'
        BY DEF Queued
    <3>1. i \in DOMAIN queue' /\ queue'[i] = j
          BY <1>6, <1>7, Numbers
    <3> QED BY <3>1 DEF Queued
  <2>3. Kept(j)' <=> Kept(j)
        BY <1>1 DEF Kept
  <2>4. ASSUME NEW u \in Threads PROVE job'[u] = j <=> job[u] = j
    <3>1. CASE u = c
      <4>1. <<c, 1>> # j
            BY <1>11
      <4> QED BY <1>3, <1>4, <3>1, <4>1, JobIs
    <3>2. CASE u # c
          BY <1>4, <3>2
    <3> QED BY <3>1, <3>2
  <2>5. Running(j)' <=> Running(j)
        BY <2>4 DEF Running
  <2> QED BY <2>1, <2>2, <2>3, <2>5 DEF Held
<1>12. PICK l : l = "run"
      OBVIOUS
<1>13. Submitting(c, l)
  <2>1. /\ pending' \in [Callers -> Int] /\ (\A d \in Callers : d # c => pending'[d] = pending[d])
        /\ pending'[c] = Senders
        BY <1>0, <1>1, Numbers DEF Types
  <2>2. /\ inline' \in [Callers -> Seq(Jobs)] /\ (\A d \in Callers : d # c => inline'[d] = inline[d])
        /\ inline'[c] = <<>> /\ Len(inline'[c]) <= Senders /\ DOMAIN inline'[c] = {}
    <3>1. PICK e : e = <<>> /\ e = inline'[c]
          BY <1>1, <1>3
    <3>2. Len(e) = 0 /\ DOMAIN e = {}
          BY <3>1
    <3> QED BY <1>0, <1>1, <3>1, <3>2, Numbers DEF Types
  <2>3. /\ \A u \in Callers : u # c => at'[u] = at[u] /\ job'[u] = job[u]
        /\ \A w \in Workers : /\ at'[w] = at[w] \/ (at[w] = "parked" /\ at'[w] = "take")
                              /\ job'[w] = job[w]
        /\ \A j \in Jobs : at'[j] = at[j] /\ job'[j] = job[j]
        BY <1>0, <1>4, Kinds
  <2> QED BY <1>1, <1>4, <1>5, <1>7, <1>10, <1>11, <1>12, <2>1, <2>2, <2>3 DEF Submitting
<1>14. /\ Types' /\ Shapes' /\ HoldInv' /\ InlineInv'
       /\ \A d \in Callers : RanInv(d)' /\ PendingInv(d)' /\ ChannelInv(d)'
      BY <1>13, SubmittingKeeps
<1>15. QueueInv'
  <2>1. ASSUME NEW i \in DOMAIN queue'
        PROVE  /\ queue'[i][2] # 1 /\ pool' = 1 /\ at'[queue'[i][1]] \in Busy \cup Between
               /\ i + Receiver - queue'[i][2] \in DOMAIN queue'
               /\ queue'[i + Receiver - queue'[i][2]] = <<queue'[i][1], Receiver>>
               /\ \A u \in Threads : queue'[i] # job'[u]
    <3>1. CASE i \in 1..n
      <4>1. queue'[i] = queue[i] /\ queue[i] \in Jobs /\ queue[i][1] # c
            BY <1>3, <1>7, <3>1
      <4>2. PICK d \in Callers, m \in 1..Receiver : queue[i] = <<d, m>> /\ d = queue[i][1] /\ m = queue[i][2]
            BY <4>1, JobIs
      <4>3. /\ m # 1 /\ Pooled(d) /\ i + Receiver - m \in DOMAIN queue
            /\ queue[i + Receiver - m] = <<d, Receiver>>
            /\ \A u \in Threads : queue[i] # job[u]
            BY <1>0, <1>7, <3>1, <4>2 DEF QueueInv
      <4>4. i + Receiver - m \in DOMAIN queue' /\ queue'[i + Receiver - m] = <<d, Receiver>>
        <5>1. i + Receiver - m \in 1..n
              BY <1>7, <4>3
        <5>2. i + Receiver - m \in 1..(n + Senders)
              BY <1>6, <5>1, Numbers
        <5> QED BY <1>7, <4>3, <5>1, <5>2
      <4>5. at'[d] = at[d] /\ d # c
            BY <1>4, <4>1, <4>2, Kinds
      <4>6. ASSUME NEW u \in Threads PROVE queue[i] # job'[u]
        <5>1. CASE u = c
          <6>1. queue[i] # <<c, 1>>
                BY <4>1
          <6> QED BY <1>4, <5>1, <6>1
        <5>2. CASE u # c
              BY <1>4, <4>3, <5>2
        <5> QED BY <5>1, <5>2
      <4> QED BY <1>1, <4>1, <4>2, <4>3, <4>4, <4>5, <4>6 DEF Pooled
    <3>2. CASE i \in (n + 1)..(n + Senders)
      <4>1. PICK m \in 2..Receiver : m = i - n + 1 /\ queue'[i] = <<c, m>> /\ <<c, m>>[2] = m /\ <<c, m>>[1] = c
            BY <1>8, <3>2
      <4>2. i + Receiver - m = n + Senders /\ n + Senders \in (n + 1)..(n + Senders) /\ (n + Senders) - n + 1 = Receiver
        <5>1. i \in Int /\ n \in Nat /\ m = i - n + 1
              BY <1>6, <3>2, <4>1
        <5> QED BY <5>1, Numbers
      <4>3. n + Senders \in DOMAIN queue' /\ queue'[n + Senders] = <<c, Receiver>>
        <5>1. n + Senders \in 1..(n + Senders)
              BY <1>6, Numbers
        <5> QED BY <1>7, <1>8, <4>2, <5>1
      <4>4. at'[c] \in Busy \cup Between
            BY <1>4 DEF Busy
      <4>5. m \in 1..Receiver /\ m # 1
            BY Numbers
      <4>6. ASSUME NEW u \in Threads PROVE <<c, m>> # job'[u]
        <5>1. CASE u = c
              BY <1>4, <4>5, <5>1
        <5>2. CASE u # c
          <6>1. job[u] # <<c, m>>
                BY <1>1, <4>5, NothingOut
          <6> QED BY <1>4, <5>2, <6>1
        <5> QED BY <5>1, <5>2
      <4> QED BY <1>1, <4>1, <4>2, <4>3, <4>4, <4>5, <4>6
    <3> QED BY <1>7, <1>9, <3>1, <3>2
  <2>2. ASSUME NEW i \in DOMAIN queue', NEW k \in DOMAIN queue', queue'[i] = queue'[k] PROVE i = k
    <3>1. CASE i \in 1..n /\ k \in 1..n
          BY <1>0, <1>7, <2>2, <3>1 DEF QueueInv
    <3>2. CASE i \in (n + 1)..(n + Senders) /\ k \in (n + 1)..(n + Senders)
      <4>1. <<c, i - n + 1>> = <<c, k - n + 1>>
            BY <1>8, <2>2, <3>2
      <4>2. i - n + 1 = k - n + 1
            BY <4>1
      <4> QED BY <1>6, <3>2, <4>2
    <3>3. CASE i \in 1..n /\ k \in (n + 1)..(n + Senders)
      <4>1. queue'[i][1] # c /\ queue'[k][1] = c
            BY <1>3, <1>7, <1>8, <3>3
      <4> QED BY <2>2, <4>1
    <3>4. CASE k \in 1..n /\ i \in (n + 1)..(n + Senders)
      <4>1. queue'[k][1] # c /\ queue'[i][1] = c
            BY <1>3, <1>7, <1>8, <3>4
      <4> QED BY <2>2, <4>1
    <3> QED BY <1>7, <1>9, <3>1, <3>2, <3>3, <3>4
  <2> QED BY <2>1, <2>2 DEF QueueInv, Pooled
<1>16. NoLostWakeup'
  <2>1. \A d \in Callers : at'[d] = "parked" => pending'[d] # 0
    <3>1. \A d \in Callers : d # c => at'[d] = at[d] /\ pending'[d] = pending[d]
          BY <1>0, <1>1, <1>4, Kinds DEF Types
    <3> QED BY <1>0, <1>4, <3>1 DEF NoLostWakeup
  <2>2. ASSUME NEW w \in Workers, at'[w] = "parked" PROVE Len(queue') <= Cardinality(Ready(at'))
    <3>1. w \in parked /\ w \notin woken
          BY <1>2, <1>4, <2>2
    <3>2. IsFiniteSet(parked) /\ IsFiniteSet(woken) /\ Cardinality(parked) \in Nat /\ Cardinality(woken) \in Nat
      <4>1. parked \in SUBSET Workers /\ woken \in SUBSET Workers
            BY <1>2
      <4>2. IsFiniteSet(parked) /\ IsFiniteSet(woken)
            BY <4>1, PoolAssumption, FS_Subset
      <4> QED BY <4>2, FS_CardinalityType
    <3>3. Cardinality(woken) # Cardinality(parked)
          BY <1>2, <3>1, <3>2, FS_Subset
    <3>4. Cardinality(woken) = Senders
          BY <1>2, <3>3
    <3>5. n <= Cardinality(Ready(at))
      <4>1. at[w] = "parked"
            BY <1>2, <3>1
      <4> QED BY <1>0, <1>6, <4>1 DEF NoLostWakeup, Ready
    <3>6. Ready(at') = Ready(at) \cup woken /\ Ready(at) \cap woken = {}
          BY <1>2, <1>4 DEF Ready
    <3>7. Cardinality(Ready(at')) = Cardinality(Ready(at)) + Cardinality(woken)
      <4>1. Cardinality(Ready(at) \cup woken) = Cardinality(Ready(at)) + Cardinality(woken) - Cardinality(Ready(at) \cap woken)
            BY <3>2, ReadyFinite, FS_Union
      <4>2. Cardinality(Ready(at) \cap woken) = 0
            BY <3>6, FS_EmptySet
      <4> QED BY <3>2, <3>6, <4>1, <4>2, ReadyFinite
    <3>8. Cardinality(Ready(at)) \in Nat
          BY ReadyFinite
    <3> QED BY <1>6, <1>7, <3>4, <3>5, <3>7, <3>8, Numbers
  <2> QED BY <2>1, <2>2 DEF NoLostWakeup, Ready
<1> QED BY <1>14, <1>15, <1>16 DEF IInv, Accounts

-----------------------------------------------------------------------------
(* The scope's own steps.                                                  *)

\* A step of a caller outside its join moves nothing of anybody else's.
LEMMA OutsideKeeps ==
  ASSUME IInv, NEW c \in Callers, NEW l \in {"idle", "close", "submit"}, NEW z \in Channel, NEW y \in Seq(1..Senders),
         at[c] \in {"idle", "close", "finish"},
         at' = [at EXCEPT ![c] = l], chan' = [chan EXCEPT ![c] = z], received' = [received EXCEPT ![c] = y],
         scopes' \in [Callers -> 0..MaxScopes], ran' \in [Jobs -> Nat],
         \A j \in Jobs : j[1] # c => ran'[j] = ran[j],
         l # "idle" => \A i \in 1..Receiver : ran'[<<c, i>>] = 0,
         ChannelInv(c)',
         UNCHANGED <<pool, queue, pending, job, inline>>
  PROVE  IInv'
<1>0. /\ Types /\ Shapes /\ HoldInv /\ QueueInv /\ InlineInv /\ NoLostWakeup /\ c \in Threads
      /\ c \notin Workers /\ c \notin Jobs
      BY Kinds DEF IInv, Accounts
<1>1. /\ at'[c] = l /\ \A u \in Threads : u # c => at'[u] = at[u]
      /\ chan'[c] = z /\ received'[c] = y
      /\ \A d \in Callers : d # c => chan'[d] = chan[d] /\ received'[d] = received[d]
      BY <1>0 DEF Types
<1>2. /\ \A i \in 1..Receiver : ~Held(<<c, i>>)
      /\ \A u \in Threads : job[u] # None => job[u] \in Jobs /\ job[u][1] # c
      /\ \A i \in DOMAIN queue : queue[i] \in Jobs /\ queue[i][1] # c
      /\ \A j \in Jobs : j[1] = c => at[j] = "off" /\ job[j] = None
      /\ job[c] = None /\ inline[c] = <<>> /\ pending[c] = 0
      BY NothingOut
<1>3. Types'
  <2>1. at' \in [Threads -> Labels]
        BY <1>0 DEF Types, Labels
  <2>2. /\ chan' \in [Callers -> [state : {Open, Drained}, buf : Seq(1..Senders), pending : Int]]
        /\ received' \in [Callers -> Seq(1..Senders)]
        BY <1>0 DEF Types, Channel
  <2> QED BY <1>0, <2>1, <2>2 DEF Types
<1>4. ~Pooled(c)' /\ ~In(c)' /\ ~Pooled(c) /\ ~In(c)
      BY <1>1 DEF Pooled, In, Inside, Busy, Between
<1>5. ASSUME NEW d \in Callers, d # c
      PROVE  (Pooled(d)' <=> Pooled(d)) /\ (In(d)' <=> In(d)) /\ at'[d] = at[d]
      BY <1>1, <1>5, Kinds DEF Pooled, In
<1>6. Shapes'
  <2>1. ASSUME NEW u \in Threads PROVE Shape(u)'
    <3>1. CASE u = c
          BY <1>1, <1>2, <3>1 DEF Shape, Busy
    <3>2. CASE u # c
          BY <1>0, <1>1, <3>2 DEF Shapes, Shape
    <3> QED BY <3>1, <3>2
  <2>2. ASSUME NEW w \in Workers PROVE WorkerShape(w)'
        BY <1>0, <1>1, Kinds DEF Shapes, WorkerShape
  <2>3. ASSUME NEW d \in Callers PROVE CallerShape(d)'
    <3>1. CASE d = c
          BY <1>1, <3>1 DEF CallerShape, Busy, Between
    <3>2. CASE d # c
          BY <1>0, <1>1, <3>2, Kinds DEF Shapes, CallerShape
    <3> QED BY <3>1, <3>2
  <2>4. ASSUME NEW k \in Jobs PROVE ThreadShape(k)'
    <3>1. ThreadShape(k) /\ at'[k] = at[k]
          BY <1>0, <1>1, Kinds DEF Shapes
    <3>2. PICK d \in Callers : d = k[1]
          BY JobIs
    <3>3. CASE d = c
          BY <1>2, <3>1, <3>2, <3>3 DEF ThreadShape, Busy
    <3>4. CASE d # c
          BY <1>5, <3>1, <3>2, <3>4 DEF ThreadShape
    <3> QED BY <3>3, <3>4
  <2> QED BY <2>1, <2>2, <2>3, <2>4 DEF Shapes
<1>7. HoldInv'
  <2>1. ASSUME NEW u \in Callers \cup Workers PROVE Rightful(u)'
    <3>1. CASE job[u] = None
          BY <3>1 DEF Rightful
    <3>2. CASE job[u] # None
      <4>1. job[u] \in Jobs /\ job[u][1] # c /\ Rightful(u)
            BY <1>0, <1>2, <3>2, Kinds DEF HoldInv
      <4>2. PICK d \in Callers : d = job[u][1] /\ d # c
            BY <4>1, JobIs
      <4>3. Pooled(d)' <=> Pooled(d)
            BY <1>5, <4>2
      <4> QED BY <4>1, <4>2, <4>3 DEF Rightful, Pooled
    <3> QED BY <3>1, <3>2
  <2> QED BY <1>0, <2>1 DEF HoldInv
<1>8. QueueInv'
  <2>1. ASSUME NEW i \in DOMAIN queue PROVE pool' = 1 /\ at'[queue[i][1]] \in Busy \cup Between
    <3>1. PICK d \in Callers : d = queue[i][1] /\ d # c
          BY <1>2, JobIs
    <3>2. Pooled(d)
          BY <1>0, <3>1 DEF QueueInv
    <3>3. Pooled(d)'
          BY <1>5, <3>1, <3>2
    <3> QED BY <3>1, <3>3 DEF Pooled
  <2> QED BY <1>0, <2>1 DEF QueueInv, Pooled
<1>9. InlineInv'
  <2>1. \A d \in Callers : inline[d] # <<>> => In(d)'
        BY <1>0, <1>2, <1>5 DEF InlineInv
  <2> QED BY <1>0, <2>1 DEF InlineInv
<1>10. ASSUME NEW d \in Callers PROVE RanInv(d)' /\ PendingInv(d)' /\ ChannelInv(d)'
  <2>0. RanInv(d) /\ PendingInv(d) /\ ChannelInv(d) /\ \A i \in 1..Receiver : <<d, i>> \in Jobs
        BY JobIs DEF IInv, Accounts
  <2>1. \A i \in 1..Receiver : Held(<<d, i>>)' <=> Held(<<d, i>>)
        BY SameHeld
  <2>2. CASE d # c
    <3>1. ASSUME NEW i \in 1..Receiver PROVE ran'[<<d, i>>] = ran[<<d, i>>]
      <4>1. <<d, i>>[1] # c
            BY <2>2
      <4> QED BY <2>0, <4>1
    <3>2. RanInv(d)' /\ PendingInv(d)'
          BY <1>5, <2>0, <2>1, <2>2, <3>1, RanFrame, PendingFrame
    <3>3. ASSUME NEW i \in 1..Receiver
          PROVE  (HasSent(<<d, i>>)' <=> HasSent(<<d, i>>)) /\ (IsOff(<<d, i>>)' <=> IsOff(<<d, i>>))
      <4>1. <<d, i>> # None
            BY <2>0, JobIs
      <4>2. \A u \in Threads : job[u] = <<d, i>> => at'[u] = at[u]
            BY <1>1, <1>2, <4>1
      <4> QED BY <3>1, <4>2 DEF HasSent, IsOff
    <3>4. ChannelInv(d)'
          BY <1>1, <1>5, <2>0, <2>2, <3>3, ChannelFrame
    <3> QED BY <3>2, <3>4
  <2>3. CASE d = c
    <3>1. RanInv(c)'
          BY <1>1, <1>2, <1>4, <2>1, <2>3 DEF RanInv
    <3>2. PendingInv(c)'
          BY <1>2, <1>4 DEF PendingInv
    <3> QED BY <2>3, <3>1, <3>2
  <2> QED BY <2>2, <2>3
<1>11. NoLostWakeup'
  <2>1. \A d \in Callers : at'[d] = "parked" => pending'[d] # 0
        BY <1>0, <1>1, Kinds DEF NoLostWakeup
  <2>2. \A w \in Workers : at'[w] = at[w]
        BY <1>0, <1>1, Kinds
  <2> QED BY <1>0, <2>1, <2>2, WakeMore
<1> QED BY <1>3, <1>6, <1>7, <1>8, <1>9, <1>10, <1>11 DEF IInv, Accounts

\* nish_scope_spawn of every task keeps the invariant.
LEMMA OpenScopeKeeps ==
  ASSUME IInv, NEW c \in Callers, OpenScope(c)
  PROVE  IInv'
<1>0. Types
      BY DEF IInv, Accounts
<1>1. PICK z, y, l :
        /\ z = [state |-> Open, buf |-> <<>>, pending |-> 1 + Senders] /\ y = <<>> /\ l = "close"
        /\ chan' = [chan EXCEPT ![c] = z] /\ received' = [received EXCEPT ![c] = y] /\ at' = [at EXCEPT ![c] = l]
      BY DEF OpenScope
<1>2. /\ at[c] = "idle" /\ scopes[c] < MaxScopes /\ scopes' = [scopes EXCEPT ![c] = @ + 1]
      /\ ran' = [j \in Jobs |-> IF j[1] = c THEN 0 ELSE ran[j]]
      /\ UNCHANGED <<pool, queue, pending, job, inline>>
      BY DEF OpenScope, Owner
<1>3. z \in Channel /\ y \in Seq(1..Senders) /\ l \in {"idle", "close", "submit"} /\ l # "idle"
      BY <1>1, Numbers DEF Channel
<1>4. scopes' \in [Callers -> 0..MaxScopes]
      BY <1>0, <1>2, PoolAssumption DEF Types
<1>5. ran' \in [Jobs -> Nat] /\ \A j \in Jobs : (j[1] = c => ran'[j] = 0) /\ (j[1] # c => ran'[j] = ran[j])
      BY <1>0, <1>2 DEF Types
<1>6. \A i \in 1..Receiver : ran'[<<c, i>>] = 0
  <2> SUFFICES ASSUME NEW i \in 1..Receiver PROVE ran'[<<c, i>>] = 0
      OBVIOUS
  <2>1. PICK j \in Jobs : j = <<c, i>> /\ j[1] = c
        BY JobIs
  <2> QED BY <1>5, <2>1
<1>7. ChannelInv(c)'
  <2>1. at'[c] = "close" /\ chan'[c] = z /\ received'[c] = y
        BY <1>0, <1>1, Kinds DEF Types
  <2>2. z.state = Open /\ z.buf = <<>> /\ z.pending = 1 + Senders
        BY <1>1
  <2>3. \A i \in 1..Receiver : ~HasSent(<<c, i>>)' /\ ~IsOff(<<c, i>>)'
    <3>1. \A u \in Threads, i \in 1..Receiver : job'[u] # <<c, i>>
          BY <1>2, NothingOut
    <3> QED BY <1>6, <3>1 DEF HasSent, IsOff
  <2>4. On(c)' = 1..Senders
        BY <2>3, Numbers DEF On
  <2>5. Cardinality(On(c)') = Senders
        BY <2>4, Numbers, FS_Interval
  <2>6. Values(c)' = <<>>
    <3>1. y \o z.buf = <<>>
          BY <1>1, <2>2
    <3> QED BY <2>1, <3>1 DEF Values
  <2>7. DOMAIN Values(c)' = {}
    <3>1. PICK e : e = Values(c)' /\ e = <<>>
          BY <2>6
    <3>2. DOMAIN e = {}
          BY <3>1
    <3> QED BY <3>1, <3>2
  <2>8. Distinct(Values(c))' /\ \A i \in 1..Senders : (HasSent(<<c, i>>) <=> Has(Values(c), i))'
        BY <2>3, <2>7, Numbers DEF Distinct, Has
  <2>9. ~IsOff(<<c, Receiver>>)' /\ chan'[c].state = Open
        /\ chan'[c].pending = Cardinality(On(c)') + 1
        BY <2>1, <2>2, <2>3, <2>5, Numbers
  <2> QED BY <2>1, <2>8, <2>9 DEF ChannelInv, Open, Drained
<1> QED BY <1>1, <1>2, <1>3, <1>4, <1>5, <1>6, <1>7, OutsideKeeps

\* The scope takes its own count off its channel.
LEMMA CloseScopeKeeps ==
  ASSUME IInv, NEW c \in Callers, CloseScope(c)
  PROVE  IInv'
<1>0. Types /\ RanInv(c) /\ ChannelInv(c)
      BY DEF IInv, Accounts
<1>1. /\ chan[c].buf \in Seq(1..Senders) /\ chan[c].pending \in Int /\ chan[c].state \in {Open, Drained}
      /\ received[c] \in Seq(1..Senders)
      /\ chan[c] = [state |-> chan[c].state, buf |-> chan[c].buf, pending |-> chan[c].pending]
      BY <1>0, ChannelType
<1>2. PICK z, y, l :
        /\ z = [state |-> chan[c].state, buf |-> chan[c].buf, pending |-> chan[c].pending - 1]
        /\ y = received[c] /\ l = "submit"
      OBVIOUS
<1>3. /\ at[c] = "close" /\ at' = [at EXCEPT ![c] = l]
      /\ UNCHANGED <<pool, queue, pending, job, scopes, inline, ran, received>>
      BY <1>2 DEF CloseScope
<1>4. chan' = [chan EXCEPT ![c] = z] /\ received' = [received EXCEPT ![c] = y]
  <2>1. z = [chan[c] EXCEPT !.pending = chan[c].pending - 1]
        BY <1>1, <1>2
  <2>2. chan' = [chan EXCEPT ![c] = z]
        BY <2>1 DEF CloseScope
  <2> QED BY <1>0, <1>2, <1>3, <2>2 DEF Types
<1>5. z \in Channel /\ y \in Seq(1..Senders) /\ l \in {"idle", "close", "submit"}
      BY <1>1, <1>2 DEF Channel
<1>6. \A i \in 1..Receiver : ran'[<<c, i>>] = 0
      BY <1>0, <1>3 DEF RanInv
<1>7. \A i \in 1..Receiver : ~IsOff(<<c, i>>)
  <2>1. \A u \in Threads, i \in 1..Receiver : job[u] # <<c, i>>
        BY <1>3, NothingOut
  <2> QED BY <1>3, <1>6, <2>1 DEF IsOff
<1>8. ChannelInv(c)'
  <2>1. at'[c] = "submit" /\ chan'[c] = z /\ received'[c] = received[c]
        BY <1>0, <1>2, <1>3, <1>4, Kinds DEF Types
  <2>2. z.state = chan[c].state /\ z.buf = chan[c].buf /\ z.pending = chan[c].pending - 1
        BY <1>2
  <2>3. chan[c].state = Open
    <3>1. Receiver \in 1..Receiver /\ ~IsOff(<<c, Receiver>>)
          BY <1>7, Numbers
    <3>2. at[c] # "idle"
          BY <1>3
    <3>3. chan[c].state # Drained
          BY <1>0, <3>1, <3>2 DEF ChannelInv
    <3> QED BY <1>1, <3>3
  <2>4. /\ Distinct(Values(c)) /\ \A i \in 1..Senders : HasSent(<<c, i>>) <=> Has(Values(c), i)
        /\ chan[c].pending = Cardinality(On(c)) + 1
        BY <1>0, <1>3, <2>3 DEF ChannelInv
  <2>5. Values(c)' = Values(c)
        BY <2>1, <2>2 DEF Values
  <2>6. ASSUME NEW i \in 1..Receiver
        PROVE  (HasSent(<<c, i>>)' <=> HasSent(<<c, i>>)) /\ (IsOff(<<c, i>>)' <=> IsOff(<<c, i>>))
    <3>1. \A u \in Threads : job[u] # <<c, i>>
          BY <1>3, NothingOut
    <3>2. \A u \in Threads : job'[u] # <<c, i>>
          BY <1>3, <3>1
    <3> QED BY <1>3, <3>1, <3>2 DEF HasSent, IsOff
  <2>7. On(c)' = On(c) /\ ~IsOff(<<c, Receiver>>)'
        BY <1>7, <2>6, Numbers DEF On
  <2>8. Distinct(Values(c))' /\ \A i \in 1..Senders : (HasSent(<<c, i>>) <=> Has(Values(c), i))'
        BY <2>4, <2>5, <2>6, Numbers DEF Distinct, Has
  <2>9. chan'[c].state = Open /\ chan'[c].pending = Cardinality(On(c)') + 0
        BY <2>1, <2>2, <2>3, <2>4, <2>7, Counts
  <2> QED BY <2>1, <2>7, <2>8, <2>9 DEF ChannelInv, Open, Drained
<1>9. scopes' \in [Callers -> 0..MaxScopes] /\ ran' \in [Jobs -> Nat] /\ \A j \in Jobs : ran'[j] = ran[j]
      BY <1>0, <1>3 DEF Types
<1> QED BY <1>3, <1>4, <1>5, <1>6, <1>8, <1>9, OutsideKeeps

\* A join that is over has its tasks run and its values received.
LEMMA Finished ==
  ASSUME IInv, NEW c \in Callers, at[c] = "finish"
  PROVE  /\ \A i \in 1..Receiver : ran[<<c, i>>] = 1 /\ HasSent(<<c, i>>)
         /\ chan[c] = NoChannel /\ Distinct(Values(c)) /\ \A i \in 1..Senders : Has(Values(c), i)
<1>0. Types /\ RanInv(c) /\ ChannelInv(c)
      BY DEF IInv, Accounts
<1>1. \A i \in 1..Receiver : ran[<<c, i>>] = 1
      BY <1>0 DEF RanInv
<1>2. \A i \in 1..Receiver : HasSent(<<c, i>>) /\ IsOff(<<c, i>>)
      BY <1>1 DEF HasSent, IsOff
<1>3. chan[c].state = Drained
  <2>1. IsOff(<<c, Receiver>>)
        BY <1>2, Numbers
  <2>2. chan[c].state \in {Open, Drained}
        BY <1>0, ChannelType
  <2> QED BY <1>0, <2>1, <2>2 DEF ChannelInv
<1>4. at[c] # "idle"
      OBVIOUS
<1>5. chan[c] = NoChannel /\ Distinct(Values(c)) /\ \A i \in 1..Senders : HasSent(<<c, i>>) <=> Has(Values(c), i)
      BY <1>0, <1>3, <1>4 DEF ChannelInv
<1>6. \A i \in 1..Senders : i \in 1..Receiver
      BY Numbers
<1> QED BY <1>1, <1>2, <1>5, <1>6

\* The stores of nish_scope_join keep the invariant.
LEMMA FinishScopeKeeps ==
  ASSUME IInv, NEW c \in Callers, FinishScope(c)
  PROVE  IInv'
<1>0. Types
      BY DEF IInv, Accounts
<1>1. PICK z, y, l : z = chan[c] /\ y = received[c] /\ l = "idle"
      OBVIOUS
<1>2. /\ at[c] = "finish" /\ at' = [at EXCEPT ![c] = l]
      /\ UNCHANGED <<pool, queue, pending, job, scopes, inline, ran, chan, received>>
      BY <1>1 DEF FinishScope
<1>3. /\ chan' = [chan EXCEPT ![c] = z] /\ received' = [received EXCEPT ![c] = y]
      /\ z \in Channel /\ y \in Seq(1..Senders) /\ l \in {"idle", "close", "submit"}
      BY <1>0, <1>1, <1>2 DEF Types, Channel
<1>4. ChannelInv(c)'
  <2>1. at'[c] = "idle" /\ chan'[c] = NoChannel
        BY <1>0, <1>1, <1>2, Finished, Kinds DEF Types
  <2> QED BY <2>1 DEF ChannelInv
<1>5. scopes' \in [Callers -> 0..MaxScopes] /\ ran' \in [Jobs -> Nat] /\ \A j \in Jobs : ran'[j] = ran[j]
      BY <1>0, <1>2 DEF Types
<1> QED BY <1>1, <1>2, <1>3, <1>4, <1>5, OutsideKeeps

\* A join is over: all ran, and the caller leaves it.
Finishing(c) ==
  /\ c \in Callers /\ at[c] \in {"take", "inline"} /\ at'[c] = "finish" /\ pending[c] = 0
  /\ \A i \in 1..Receiver : ran[<<c, i>>] = 1
  /\ at' \in [Threads -> Labels]
  /\ \A u \in Callers \cup Workers : u # c => at'[u] = at[u]
  /\ \A j \in Jobs : at'[j] = at[j] \/ (at[j] = "exited" /\ at'[j] = "off")
  /\ \A j \in Jobs : j[1] = c => at'[j] = "off"
  /\ UNCHANGED <<pool, queue, pending, job, scopes, inline, ran, chan, received>>

\* What leaving the join leaves in order.
LEMMA FinishingKeeps ==
  ASSUME IInv, NEW c, Finishing(c)
  PROVE  IInv'
<1>0. /\ Types /\ Shapes /\ HoldInv /\ QueueInv /\ InlineInv /\ NoLostWakeup /\ c \in Callers /\ c \in Threads
      /\ RanInv(c) /\ pool' = pool /\ job' = job /\ queue' = queue /\ inline' = inline
      /\ at[c] \in {"take", "inline"} /\ at'[c] = "finish" /\ pending' = pending
      BY Kinds DEF IInv, Accounts, Finishing
<1>1. ASSUME NEW i \in 1..Receiver PROVE ~Held(<<c, i>>)
  <2>1. In(c) /\ ran[<<c, i>>] = 1
        BY <1>0 DEF In, Inside, Between, Finishing
  <2> QED BY <1>0, <2>1 DEF RanInv
<1>2. \A u \in Threads : job[u] # None => job[u] \in Jobs /\ job[u][1] # c
  <2> SUFFICES ASSUME NEW u \in Threads, job[u] # None PROVE job[u] \in Jobs /\ job[u][1] # c
      OBVIOUS
  <2>1. job[u] \in Jobs
        BY <1>0 DEF Types
  <2>2. job[u] = <<job[u][1], job[u][2]>> /\ job[u][2] \in 1..Receiver
        BY <2>1, JobIs
  <2> QED BY <1>1, <2>1, <2>2 DEF Held, Running
<1>3. \A i \in DOMAIN queue : queue[i] \in Jobs /\ queue[i][1] # c
  <2> SUFFICES ASSUME NEW i \in DOMAIN queue PROVE queue[i] \in Jobs /\ queue[i][1] # c
      OBVIOUS
  <2>1. queue[i] \in Jobs
        BY <1>0, ElementOfSeq DEF Types
  <2>2. PICK d \in Callers, m \in 1..Receiver : queue[i] = <<d, m>> /\ d = queue[i][1]
        BY <2>1, JobIs
  <2>3. Held(<<d, m>>)
        BY <2>2 DEF Held, Queued
  <2> QED BY <1>1, <2>1, <2>2, <2>3
<1>4. inline[c] = <<>>
  <2> SUFFICES ASSUME inline[c] # <<>> PROVE FALSE
      OBVIOUS
  <2>1. PICK q \in Seq(Jobs) : q = inline[c] /\ q # <<>>
        BY <1>0 DEF Types
  <2>2. Len(q) \in Nat \ {0} /\ 1 \in DOMAIN q
        BY <2>1
  <2>3. Len(q) <= Senders /\ q[1] = <<c, Receiver - Len(q) + 1>>
        BY <1>0, <2>1, <2>2 DEF InlineInv
  <2>4. Receiver - Len(q) + 1 \in 1..Receiver
        BY <2>2, <2>3, Numbers
  <2>5. PICK m \in 1..Receiver : q[1] = <<c, m>> /\ <<c, m>>[1] = c
        BY <2>3, <2>4
  <2>6. Kept(<<c, m>>)
        BY <2>1, <2>2, <2>5 DEF Kept
  <2> QED BY <1>1, <2>6 DEF Held
<1>5. job[c] = None
  <2>1. Shape(c)
        BY <1>0 DEF Shapes
  <2> QED BY <1>0, <2>1 DEF Shape, Busy
<1>6. Types'
      BY <1>0 DEF Types, Finishing
<1>7. ~Pooled(c)' /\ ~In(c)'
      BY <1>0 DEF Pooled, In, Inside, Busy, Between
<1>8. ASSUME NEW d \in Callers, d # c
      PROVE  (Pooled(d)' <=> Pooled(d)) /\ (In(d)' <=> In(d)) /\ at'[d] = at[d]
      BY <1>0, <1>8 DEF Pooled, In, Finishing
<1>9. Shapes'
  <2>1. ASSUME NEW u \in Threads PROVE Shape(u)'
    <3>0. Shape(u)
          BY <1>0 DEF Shapes
    <3>1. CASE u = c
          BY <1>0, <1>5, <3>1 DEF Shape, Busy
    <3>2. CASE u # c /\ at'[u] = at[u]
          BY <1>0, <3>0, <3>2 DEF Shape
    <3>3. CASE u \in Jobs /\ at[u] = "exited" /\ at'[u] = "off"
          BY <1>0, <3>0, <3>3 DEF Shape, Busy
    <3> QED BY <3>1, <3>2, <3>3 DEF Threads, Finishing
  <2>2. ASSUME NEW w \in Workers PROVE WorkerShape(w)'
        BY <1>0, Kinds DEF Shapes, WorkerShape, Finishing
  <2>3. ASSUME NEW d \in Callers PROVE CallerShape(d)'
    <3>1. CASE d = c
          BY <1>0, <3>1 DEF CallerShape, Busy, Between
    <3>2. CASE d # c
          BY <1>0, <1>8, <3>2 DEF Shapes, CallerShape
    <3> QED BY <3>1, <3>2
  <2>4. ASSUME NEW k \in Jobs PROVE ThreadShape(k)'
    <3>1. ThreadShape(k)
          BY <1>0 DEF Shapes
    <3>2. PICK d \in Callers : d = k[1]
          BY JobIs
    <3>3. CASE at'[k] = "off"
          BY <3>3 DEF ThreadShape, Busy
    <3>4. CASE at'[k] # "off"
      <4>1. d # c /\ at'[k] = at[k]
            BY <3>2, <3>4 DEF Finishing
      <4> QED BY <1>0, <1>8, <3>1, <3>2, <4>1 DEF ThreadShape
    <3> QED BY <3>3, <3>4
  <2> QED BY <2>1, <2>2, <2>3, <2>4 DEF Shapes
<1>10. HoldInv'
  <2>1. ASSUME NEW u \in Callers \cup Workers PROVE Rightful(u)'
    <3>1. CASE job[u] = None
          BY <1>0, <3>1 DEF Rightful
    <3>2. CASE job[u] # None
      <4>1. job[u] \in Jobs /\ job[u][1] # c /\ Rightful(u)
            BY <1>0, <1>2, <3>2, Kinds DEF HoldInv
      <4>2. PICK d \in Callers : d = job[u][1] /\ d # c
            BY <4>1, JobIs
      <4>3. Pooled(d)' <=> Pooled(d)
            BY <1>8, <4>2
      <4> QED BY <1>0, <4>1, <4>2, <4>3 DEF Rightful, Pooled
    <3> QED BY <3>1, <3>2
  <2> QED BY <1>0, <2>1 DEF HoldInv
<1>11. QueueInv'
  <2>1. ASSUME NEW i \in DOMAIN queue PROVE pool' = 1 /\ at'[queue[i][1]] \in Busy \cup Between
    <3>1. PICK d \in Callers : d = queue[i][1] /\ d # c
          BY <1>3, JobIs
    <3>2. Pooled(d)
          BY <1>0, <3>1 DEF QueueInv
    <3>3. Pooled(d)'
          BY <1>8, <3>1, <3>2
    <3> QED BY <3>1, <3>3 DEF Pooled
  <2> QED BY <1>0, <2>1 DEF QueueInv, Pooled
<1>12. InlineInv'
  <2>1. \A d \in Callers : inline[d] # <<>> => In(d)'
        BY <1>0, <1>4, <1>8 DEF InlineInv
  <2> QED BY <1>0, <2>1 DEF InlineInv
<1>13. ASSUME NEW d \in Callers PROVE RanInv(d)' /\ PendingInv(d)' /\ ChannelInv(d)'
  <2>0. RanInv(d) /\ PendingInv(d) /\ ChannelInv(d)
        BY DEF IInv, Accounts
  <2>1. \A i \in 1..Receiver : ran'[<<d, i>>] = ran[<<d, i>>] /\ (Held(<<d, i>>)' <=> Held(<<d, i>>))
        BY <1>0, SameHeld DEF Finishing
  <2>2. ChannelInv(d)'
    <3>1. \A u \in Threads : /\ at'[u] = "returned" <=> at[u] = "returned"
                             /\ at'[u] = "sent" <=> at[u] = "sent"
          BY <1>0 DEF Threads, Finishing
    <3>2. \A i \in 1..Receiver : /\ HasSent(<<d, i>>)' <=> HasSent(<<d, i>>)
                                 /\ IsOff(<<d, i>>)' <=> IsOff(<<d, i>>)
          BY <1>0, <3>1, SentFrame DEF Finishing
    <3>3. at'[d] = at[d] \/ (at[d] \notin {"idle", "close"} /\ at'[d] \notin {"idle", "close"})
          BY <1>0, <1>8
    <3>4. chan'[d] = chan[d] /\ received'[d] = received[d]
          BY DEF Finishing
    <3> QED BY <2>0, <3>2, <3>3, <3>4, ChannelFrame
  <2>3. CASE d # c
    <3>1. RanInv(d)' /\ PendingInv(d)'
          BY <1>0, <1>8, <2>0, <2>1, <2>3, RanFrame, PendingFrame
    <3> QED BY <2>2, <3>1
  <2>4. CASE d = c
    <3>1. \A i \in 1..Receiver : ran'[<<c, i>>] = 1 /\ ~Held(<<c, i>>)'
          BY <1>1, <2>1, <2>4 DEF Finishing
    <3>2. RanInv(c)'
          BY <1>0, <1>7, <3>1 DEF RanInv
    <3>3. PendingInv(c)'
          BY <1>0, <1>7 DEF PendingInv, Finishing
    <3> QED BY <2>2, <2>4, <3>2, <3>3
  <2> QED BY <2>3, <2>4
<1>14. NoLostWakeup'
  <2>1. \A d \in Callers : at'[d] = "parked" => pending'[d] # 0
        BY <1>0, <1>8 DEF NoLostWakeup
  <2>2. \A w \in Workers : at'[w] = at[w]
        BY <1>0, Kinds DEF Finishing
  <2> QED BY <1>0, <2>1, <2>2, WakeMore
<1> QED BY <1>6, <1>9, <1>10, <1>11, <1>12, <1>13, <1>14 DEF IInv, Accounts

\* The count is 0 and the caller runs nothing: the tasks have all run.
LEMMA DrainEndsKeeps ==
  ASSUME IInv, NEW c \in Callers, NothingToTake(c), ~Waiting(c)
  PROVE  IInv'
<1>0. Types /\ Shapes /\ HoldInv /\ RanInv(c) /\ PendingInv(c) /\ c \in Threads /\ c \notin Workers /\ InlineInv /\ QueueInv
      BY Kinds DEF IInv, Accounts
<1>1. /\ at[c] = "take" /\ pending[c] = 0 /\ at' = [at EXCEPT ![c] = "finish"]
      /\ UNCHANGED <<pool, queue, pending, job, scopes, inline, ran, chan, received>>
      BY DEF NothingToTake, Waiting
<1>2. pool = 1 /\ Pooled(c) /\ In(c)
  <2>1. pool = 1
        BY <1>0, <1>1 DEF Shapes, CallerShape, Between
  <2> QED BY <1>1, <2>1 DEF Pooled, In, Inside, Between
<1>3. Left(c) = {}
  <2>1. Cardinality(Left(c)) = 0
        BY <1>0, <1>1, <1>2 DEF PendingInv
  <2> QED BY <2>1, Counts, FS_EmptySet
<1>4. \A i \in 1..Receiver : ran[<<c, i>>] \in {0, 1} /\ (Held(<<c, i>>) <=> ran[<<c, i>>] = 0)
      BY <1>0, <1>2 DEF RanInv
<1>5. ~Held(<<c, 1>>)
  <2>1. ~Queued(<<c, 1>>)
    <3> SUFFICES ASSUME NEW i \in DOMAIN queue, queue[i] = <<c, 1>> PROVE FALSE
        BY DEF Queued
    <3> QED BY <1>0 DEF QueueInv
  <2>2. ~Kept(<<c, 1>>)
    <3>1. inline[c] = <<>>
          BY <1>0, <1>2 DEF InlineInv
    <3>2. PICK e : e = inline[c] /\ e = <<>>
          BY <3>1
    <3>3. DOMAIN e = {}
          BY <3>2
    <3> QED BY <3>2, <3>3 DEF Kept
  <2>3. ~Running(<<c, 1>>)
    <3> SUFFICES ASSUME NEW u \in Threads, job[u] = <<c, 1>> PROVE FALSE
        BY DEF Running
    <3>0. job[u] # None /\ job[u] \in Jobs /\ job[u][1] = c /\ job[u][2] = 1
      <4>1. 1 \in 1..Receiver
            BY Numbers
      <4>2. <<c, 1>> \in Jobs
            BY <4>1, JobIs
      <4> QED BY <4>2, JobIs
    <3>1. Shape(u) /\ at[u] \in Busy
          BY <1>0, <3>0 DEF Shapes, Shape
    <3>2. u # c
          BY <1>1, <3>1 DEF Busy
    <3>3. CASE u \in Jobs
      <4>1. ThreadShape(u) /\ job[u] = u
            BY <1>0, <3>1, <3>3 DEF Shapes, ThreadShape
      <4>2. at[c] = "inline" \/ pool = -1
            BY <3>0, <3>1, <4>1 DEF ThreadShape, Busy
      <4> QED BY <1>1, <1>2, <4>2
    <3>4. CASE u \in Callers \cup Workers
      <4>1. Rightful(u)
            BY <1>0, <3>4 DEF HoldInv
      <4>2. <<u, 1>> # <<c, 1>>
            BY <3>2
      <4> QED BY <1>2, <3>0, <4>1, <4>2 DEF Rightful
    <3> QED BY <3>3, <3>4 DEF Threads
  <2> QED BY <2>1, <2>2, <2>3 DEF Held
<1>6. ASSUME NEW i \in 1..Receiver PROVE ran[<<c, i>>] = 1
  <2>1. CASE i = 1
        BY <1>4, <1>5, <2>1
  <2>2. CASE i # 1
    <3>1. i \in 2..Receiver
          BY <2>2, Numbers
    <3> QED BY <1>3, <1>4, <3>1 DEF Left
  <2> QED BY <2>1, <2>2
<1>7. \A j \in Jobs : j[1] = c => at[j] = "off"
      BY <1>0, <1>1, <1>2 DEF Shapes, ThreadShape, Busy
<1>8. /\ at'[c] = "finish" /\ at' \in [Threads -> Labels]
      /\ \A u \in Threads : u # c => at'[u] = at[u]
      BY <1>0, <1>1 DEF Types, Labels
<1>9. Finishing(c)
      BY <1>1, <1>6, <1>7, <1>8, Kinds DEF Finishing
<1> QED BY <1>9, FinishingKeeps

\* The threads of an unpooled join have exited and nothing is left inline.
LEMMA JoinThreadsKeeps ==
  ASSUME IInv, NEW c \in Callers, JoinThreads(c)
  PROVE  IInv'
<1>0. Types /\ Shapes /\ HoldInv /\ RanInv(c) /\ PendingInv(c) /\ c \in Threads /\ QueueInv
      BY Kinds DEF IInv, Accounts
<1>1. /\ at[c] = "inline" /\ inline[c] = <<>>
      /\ \A j \in Jobs : j[1] = c => at[j] \in {"off", "exited"}
      /\ at' = [t \in Threads |-> IF t = c THEN "finish"
                                  ELSE IF t \in Jobs /\ t[1] = c THEN "off" ELSE at[t]]
      /\ UNCHANGED <<pool, queue, pending, job, scopes, inline, ran, chan, received>>
      BY DEF JoinThreads, Owner
<1>2. ~Pooled(c) /\ In(c) /\ pending[c] = 0
  <2>1. ~Pooled(c) /\ In(c)
        BY <1>1 DEF Pooled, In, Inside, Busy, Between
  <2> QED BY <1>0, <2>1 DEF PendingInv
<1>3. \A i \in 1..Receiver : ran[<<c, i>>] \in {0, 1} /\ (Held(<<c, i>>) <=> ran[<<c, i>>] = 0)
      BY <1>0, <1>2 DEF RanInv
<1>4. ASSUME NEW n \in 1..Receiver PROVE ~Held(<<c, n>>)
  <2>0. <<c, n>> \in Jobs /\ <<c, n>>[1] = c
        BY JobIs
  <2>1. ~Queued(<<c, n>>)
    <3> SUFFICES ASSUME NEW i \in DOMAIN queue, queue[i] = <<c, n>> PROVE FALSE
        BY DEF Queued
    <3>1. Pooled(queue[i][1])
          BY <1>0 DEF QueueInv
    <3> QED BY <1>2, <2>0, <3>1
  <2>2. ~Kept(<<c, n>>)
    <3>1. PICK e : e = inline[c] /\ e = <<>>
          BY <1>1
    <3>2. DOMAIN e = {}
          BY <3>1
    <3> QED BY <3>1, <3>2 DEF Kept
  <2>3. ~Running(<<c, n>>)
    <3> SUFFICES ASSUME NEW u \in Threads, job[u] = <<c, n>> PROVE FALSE
        BY DEF Running
    <3>0. job[u] # None /\ job[u] \in Jobs /\ job[u][1] = c
          BY <2>0, JobIs
    <3>1. Shape(u) /\ at[u] \in Busy
          BY <1>0, <3>0 DEF Shapes, Shape
    <3>2. u # c
          BY <1>1, <3>1 DEF Busy
    <3>3. CASE u \in Jobs
      <4>1. job[u] = u
            BY <1>0, <3>1, <3>3 DEF Shapes, ThreadShape
      <4>2. at[u] \in {"off", "exited"}
            BY <1>1, <3>0, <3>3, <4>1
      <4> QED BY <3>1, <4>2 DEF Busy
    <3>4. CASE u \in Callers \cup Workers
      <4>1. Rightful(u)
            BY <1>0, <3>4 DEF HoldInv
      <4>2. <<u, 1>> # <<c, n>>
            BY <3>2
      <4>3. job[u] # <<u, 1>>
            BY <4>2
      <4> QED BY <1>2, <3>0, <3>2, <4>1, <4>3 DEF Rightful
    <3> QED BY <3>3, <3>4 DEF Threads
  <2> QED BY <2>1, <2>2, <2>3 DEF Held
<1>5. \A i \in 1..Receiver : ran[<<c, i>>] = 1
      BY <1>3, <1>4
<1>6. /\ at'[c] = "finish" /\ at' \in [Threads -> Labels]
      BY <1>0, <1>1 DEF Types, Labels
<1>7. /\ \A u \in Callers \cup Workers : u # c => at'[u] = at[u]
      /\ \A j \in Jobs : at'[j] = at[j] \/ (at[j] = "exited" /\ at'[j] = "off")
      /\ \A j \in Jobs : j[1] = c => at'[j] = "off"
  <2>1. \A u \in Callers \cup Workers : u # c => at'[u] = at[u]
        BY <1>1, Kinds
  <2>2. ASSUME NEW j \in Jobs
        PROVE  (at'[j] = at[j] \/ (at[j] = "exited" /\ at'[j] = "off")) /\ (j[1] = c => at'[j] = "off")
        BY <1>1, Kinds
  <2> QED BY <2>1, <2>2
<1>8. Finishing(c)
      BY <1>1, <1>2, <1>5, <1>6, <1>7 DEF Finishing
<1> QED BY <1>8, FinishingKeeps

\* Before the pool is started or disabled nobody is in a pooled join, and
\* only a join with threads of its own may be under way.
LEMMA PoolSettlesKeeps ==
  ASSUME IInv, pool = 0, pool' \in {-1, 1}, at' \in [Threads -> Labels],
         \A u \in Threads : at'[u] = at[u] \/ (u \in Workers /\ at'[u] = "take" /\ pool' = 1),
         UNCHANGED <<queue, pending, job, scopes, inline, ran, chan, received>>
  PROVE  IInv'
<1>0. Types /\ Shapes /\ HoldInv /\ QueueInv /\ InlineInv /\ NoLostWakeup
      BY DEF IInv, Accounts
<1>1. ASSUME NEW c \in Callers
      PROVE  /\ at'[c] = at[c] /\ at[c] \notin Busy \cup Between /\ ~Pooled(c) /\ ~Pooled(c)'
             /\ job[c] = None /\ (In(c)' <=> In(c))
  <2>1. at'[c] = at[c] /\ CallerShape(c) /\ Shape(c)
        BY <1>0, Kinds DEF Shapes
  <2>2. at[c] \notin Busy \cup Between
        BY <2>1 DEF CallerShape
  <2> QED BY <2>1, <2>2 DEF Pooled, Shape, In
<1>2. ASSUME NEW w \in Workers PROVE at[w] = "off" /\ at'[w] \in {"off", "take"} /\ job[w] = None
  <2>1. at[w] = "off" /\ Shape(w)
        BY <1>0, Kinds DEF Shapes, WorkerShape
  <2> QED BY <2>1, Kinds DEF Shape, Busy
<1>3. ASSUME NEW j \in Jobs PROVE at'[j] = at[j]
      BY Kinds
<1>4. Types'
      BY <1>0 DEF Types
<1>5. Shapes'
  <2>1. ASSUME NEW u \in Threads PROVE Shape(u)'
    <3>0. Shape(u)
          BY <1>0 DEF Shapes
    <3>1. CASE at'[u] = at[u]
          BY <3>0, <3>1 DEF Shape
    <3>2. CASE u \in Workers /\ at'[u] = "take"
          BY <1>2, <3>2 DEF Shape, Busy
    <3> QED BY <3>1, <3>2
  <2>2. ASSUME NEW w \in Workers PROVE WorkerShape(w)'
    <3>1. pool' # 1 => at'[w] = "off"
          BY <1>2, Kinds
    <3> QED BY <1>2, <3>1 DEF WorkerShape, Between
  <2>3. ASSUME NEW c \in Callers PROVE CallerShape(c)'
        BY <1>0, <1>1 DEF Shapes, CallerShape
  <2>4. ASSUME NEW k \in Jobs PROVE ThreadShape(k)'
    <3>1. ThreadShape(k) /\ at'[k] = at[k]
          BY <1>0, <1>3 DEF Shapes
    <3>2. PICK d \in Callers : d = k[1] /\ at'[d] = at[d]
          BY <1>1, JobIs
    <3> QED BY <3>1, <3>2 DEF ThreadShape
  <2> QED BY <2>1, <2>2, <2>3, <2>4 DEF Shapes
<1>6. HoldInv'
  <2>1. \A u \in Callers \cup Workers : Rightful(u)'
        BY <1>1, <1>2 DEF Rightful
  <2> QED BY <1>0, <2>1 DEF HoldInv
<1>7. QueueInv'
  <2>1. DOMAIN queue = {}
    <3> SUFFICES ASSUME NEW i \in DOMAIN queue PROVE FALSE
        OBVIOUS
    <3> QED BY <1>0 DEF QueueInv, Pooled
  <2>2. DOMAIN queue' = {}
        BY <2>1
  <2> QED BY <2>2 DEF QueueInv
<1>8. InlineInv'
  <2>1. \A c \in Callers : inline'[c] = <<>>
        BY <1>0 DEF InlineInv
  <2> QED BY <2>1, InlineEmpty
<1>9. ASSUME NEW c \in Callers PROVE RanInv(c)' /\ PendingInv(c)' /\ ChannelInv(c)'
  <2>0. RanInv(c) /\ PendingInv(c) /\ ChannelInv(c)
        BY DEF IInv, Accounts
  <2>1. \A i \in 1..Receiver : ran'[<<c, i>>] = ran[<<c, i>>] /\ (Held(<<c, i>>)' <=> Held(<<c, i>>))
        BY SameHeld
  <2>2. RanInv(c)' /\ PendingInv(c)'
        BY <1>1, <2>0, <2>1, RanFrame, PendingFrame
  <2>3. \A u \in Threads : /\ at'[u] = "returned" <=> at[u] = "returned"
                           /\ at'[u] = "sent" <=> at[u] = "sent"
        BY <1>2
  <2>4. \A i \in 1..Receiver : /\ HasSent(<<c, i>>)' <=> HasSent(<<c, i>>)
                               /\ IsOff(<<c, i>>)' <=> IsOff(<<c, i>>)
        BY <2>3, SentFrame
  <2>5. ChannelInv(c)'
        BY <1>1, <2>0, <2>4, ChannelFrame
  <2> QED BY <2>2, <2>5
<1>10. NoLostWakeup'
  <2>1. \A c \in Callers : at'[c] = "parked" => pending'[c] # 0
        BY <1>1 DEF Between
  <2>2. \A w \in Workers : at[w] \notin {"take", "spin"} /\ at'[w] # "parked"
        BY <1>2
  <2> QED BY <1>0, <2>1, <2>2, WakeMore
<1> QED BY <1>4, <1>5, <1>6, <1>7, <1>8, <1>9, <1>10 DEF IInv, Accounts

\* nish_pool_ready keeps it, whatever number of workers could be created.
LEMMA StartPoolKeeps ==
  ASSUME IInv, NEW c \in Callers, StartPool(c)
  PROVE  IInv'
<1>1. PICK started \in SUBSET Workers : at' = [t \in Threads |-> IF t \in started THEN "take" ELSE at[t]]
      BY DEF StartPool
<1>2. at \in [Threads -> Labels]
      BY DEF IInv, Accounts, Types
<1>3. at' \in [Threads -> Labels] /\ \A u \in Threads : at'[u] = at[u] \/ (u \in Workers /\ at'[u] = "take")
      BY <1>1, <1>2 DEF Labels
<1> QED BY <1>3, PoolSettlesKeeps DEF StartPool

\* nish_pool_disable keeps it.
LEMMA DisablePoolKeeps ==
  ASSUME IInv, DisablePool
  PROVE  IInv'
<1>1. at' \in [Threads -> Labels]
      BY DEF IInv, Accounts, Types, DisablePool
<1> QED BY <1>1, PoolSettlesKeeps DEF DisablePool

-----------------------------------------------------------------------------
\* It holds before the first scope.
LEMMA InitHolds == Init => IInv
<1> SUFFICES ASSUME Init PROVE IInv
    OBVIOUS
<1>0. /\ \A c \in Callers : at[c] = "idle" /\ c \in Threads
      /\ \A w \in Workers : at[w] = "off" /\ w \in Threads
      /\ \A j \in Jobs : at[j] = "off" /\ j \in Threads
      /\ \A t \in Threads : job[t] = None /\ at[t] \in {"idle", "off"}
      BY Kinds DEF Init
<1>1. Types
  <2>1. pool \in -1..1 /\ pending \in [Callers -> Int] /\ scopes \in [Callers -> 0..MaxScopes]
        /\ ran \in [Jobs -> Nat] /\ at \in [Threads -> Labels] /\ job \in [Threads -> Jobs \cup {None}]
        BY PoolAssumption DEF Init, Labels
  <2>2. /\ queue \in Seq(Jobs) /\ inline \in [Callers -> Seq(Jobs)] /\ received \in [Callers -> Seq(1..Senders)]
        BY DEF Init
  <2>3. NoChannel \in Channel
        BY DEF NoChannel, Channel
  <2>4. chan \in [Callers -> Channel]
        BY <2>3 DEF Init
  <2> QED BY <2>1, <2>2, <2>4 DEF Types, Channel
<1>2. Shapes
      BY <1>0 DEF Shapes, Shape, WorkerShape, CallerShape, ThreadShape, Busy, Between
<1>3. HoldInv
      BY <1>0, Kinds DEF HoldInv, Rightful
<1>4. DOMAIN queue = {} /\ \A c \in Callers : inline[c] = <<>> /\ DOMAIN inline[c] = {} /\ Len(inline[c]) = 0
  <2>1. PICK e : e = <<>> /\ DOMAIN e = {} /\ Len(e) = 0
        OBVIOUS
  <2>2. queue = e /\ \A c \in Callers : inline[c] = e
        BY <2>1 DEF Init
  <2> QED BY <2>1, <2>2
<1>5. QueueInv /\ InlineInv
  <2>1. QueueInv
        BY <1>4 DEF QueueInv
  <2>2. \A c \in Callers : inline[c] = <<>> /\ Len(inline[c]) <= Senders /\ DOMAIN inline[c] = {}
        BY <1>4, Numbers
  <2>3. InlineInv
        BY <2>2 DEF InlineInv
  <2> QED BY <2>1, <2>3
<1>6. ASSUME NEW c \in Callers PROVE RanInv(c) /\ PendingInv(c) /\ ChannelInv(c)
  <2>1. ~In(c) /\ ~Pooled(c)
        BY <1>0 DEF In, Pooled, Inside, Busy, Between
  <2>2. ASSUME NEW i \in 1..Receiver PROVE ~Held(<<c, i>>)
    <3>1. <<c, i>> # None /\ <<c, i>>[1] = c
          BY JobIs
    <3> QED BY <1>0, <1>4, <3>1 DEF Held, Queued, Kept, Running
  <2>3. RanInv(c)
        BY <1>0, <2>1, <2>2 DEF RanInv
  <2>4. PendingInv(c)
        BY <2>1 DEF PendingInv, Init
  <2>5. ChannelInv(c)
        BY <1>0 DEF ChannelInv, Init
  <2> QED BY <2>3, <2>4, <2>5
<1>7. NoLostWakeup
      BY <1>0 DEF NoLostWakeup
<1> QED BY <1>1, <1>2, <1>3, <1>5, <1>6, <1>7 DEF IInv, Accounts

\* Every step keeps it.
LEMMA NextKeeps == IInv /\ [Next]_vars => IInv'
<1> SUFFICES ASSUME IInv, [Next]_vars PROVE IInv'
    OBVIOUS
<1>1. CASE DisablePool
      BY <1>1, DisablePoolKeeps
<1>2. ASSUME NEW c \in Callers, OpenScope(c) \/ CallerStep(c) PROVE IInv'
  <2>1. CASE OpenScope(c)
        BY <2>1, OpenScopeKeeps
  <2>2. CASE CloseScope(c)
        BY <2>2, CloseScopeKeeps
  <2>3. CASE StartPool(c)
        BY <2>3, StartPoolKeeps
  <2>4. CASE Submit(c)
        BY <2>4, SubmitKeeps
  <2>5. CASE SubmitUnpooled(c)
        BY <2>5, SubmitUnpooledKeeps
  <2>6. CASE SubmitSized(c)
        BY <2>6, SubmitSizedKeeps
  <2>7. CASE LeadReturns(c)
        BY <2>7, LeadReturnsKeeps
  <2>8. CASE RunInline(c)
        BY <2>8, RunInlineKeeps
  <2>9. CASE InlineReturns(c)
        BY <2>9, InlineReturnsKeeps
  <2>10. CASE JoinThreads(c)
        BY <2>10, JoinThreadsKeeps
  <2>11. CASE FinishScope(c)
        BY <2>11, FinishScopeKeeps
  <2> QED BY <1>2, <2>1, <2>2, <2>3, <2>4, <2>5, <2>6, <2>7, <2>8, <2>9, <2>10, <2>11 DEF CallerStep
<1>3. ASSUME NEW t \in Callers \cup Workers, PoolStep(t) \/ WaitEnds(t) PROVE IInv'
  <2>1. CASE PooledJobReturns(t)
        BY <2>1, PooledJobReturnsKeeps
  <2>2. CASE TakeJob(t)
        BY <2>2, TakeJobKeeps
  <2>3. CASE NothingToTake(t) /\ ~Waiting(t)
    <3>1. t \in Callers
          BY <2>3 DEF Waiting
    <3> QED BY <2>3, <3>1, DrainEndsKeeps
  <2>4. CASE SpinEnds(t) \/ WaitEnds(t) \/ (NothingToTake(t) /\ Waiting(t))
        BY <2>4, SpinKeeps
  <2> QED BY <1>3, <2>1, <2>2, <2>3, <2>4 DEF PoolStep
<1>4. ASSUME NEW t \in Threads, Task(t) PROVE IInv'
      BY <1>4, SendKeeps, SenderReturnsKeeps, ReceiveKeeps DEF Task
<1>5. ASSUME NEW j \in Jobs, ThreadExits(j) PROVE IInv'
      BY <1>5, ThreadExitsKeeps
<1>6. CASE UNCHANGED vars
  <2>1. UNCHANGED <<pool, queue, pending, at, job, scopes, inline, ran, chan, received>>
        BY <1>6 DEF vars
  <2>2. Accounts /\ Types /\ NoLostWakeup /\ \A u \in Threads : Shape(u)
        BY DEF IInv, Accounts, Shapes
  <2>3. Accounts'
    <3>1. \A u \in Threads : Shape(u)'
          BY <2>1, <2>2 DEF Shape
    <3> QED BY <2>1, <2>2, <3>1, LabelsKeep DEF Types
  <2>4. NoLostWakeup'
        BY <2>1, <2>2, WakeFrame
  <2>5. ASSUME NEW c \in Callers PROVE ChannelInv(c)'
    <3>1. \A i \in 1..Receiver : /\ HasSent(<<c, i>>)' <=> HasSent(<<c, i>>)
                                 /\ IsOff(<<c, i>>)' <=> IsOff(<<c, i>>)
          BY <2>1, SentFrame
    <3>2. ChannelInv(c)
          BY DEF IInv
    <3> QED BY <2>1, <3>1, <3>2, ChannelFrame
  <2> QED BY <2>3, <2>4, <2>5 DEF IInv
<1> QED BY <1>1, <1>2, <1>3, <1>4, <1>5, <1>6 DEF Next

-----------------------------------------------------------------------------
\* A sequence without repetitions that has each of 1..Senders has that length.
LEMMA AllOnce ==
  ASSUME NEW s \in Seq(1..Senders), Distinct(s), \A i \in 1..Senders : Has(s, i)
  PROVE  Len(s) = Senders /\ {s[i] : i \in DOMAIN s} = 1..Senders
<1>1. DOMAIN s = 1..Len(s) /\ Len(s) \in Nat /\ s \in [1..Len(s) -> 1..Senders]
      BY LenProperties
<1>2. s \in Injection(1..Len(s), 1..Senders)
      BY <1>1 DEF Injection, IsInjective, Distinct
<1>3. s \in Surjection(1..Len(s), 1..Senders)
      BY <1>1 DEF Surjection, Has
<1>4. IsFiniteSet(1..Senders) /\ Cardinality(1..Senders) = Senders /\ Cardinality(1..Len(s)) = Len(s)
  <2>1. \A n \in Nat : IsFiniteSet(1..n) /\ Cardinality(1..n) = n
        BY FS_Interval
  <2> QED BY <1>1, <2>1, Numbers
<1>5. Cardinality(1..Len(s)) = Cardinality(1..Senders)
      BY <1>2, <1>3, <1>4, FS_Injection
<1> QED BY <1>1, <1>4, <1>5 DEF Has

\* The invariant has what a join promises.
LEMMA SafeFromIInv == IInv => JoinSafe
<1> SUFFICES ASSUME IInv PROVE JoinSafe
    OBVIOUS
<1>0. /\ Accounts /\ Types /\ Shapes /\ HoldInv /\ QueueInv /\ InlineInv /\ NoLostWakeup
      /\ \A c \in Callers : RanInv(c) /\ PendingInv(c) /\ ChannelInv(c)
      BY DEF IInv, Accounts
<1>1. TypeOK
  <2>1. pending \in [Callers -> 0..Senders]
    <3>1. \A c \in Callers : pending[c] \in 0..Senders
          BY <1>0, Counts, Numbers DEF PendingInv
    <3> QED BY <1>0, <3>1 DEF Types
  <2>2. ASSUME NEW c \in Callers PROVE chan[c].pending \in 0..(1 + Senders)
    <3>1. CASE chan[c] = NoChannel
          BY <3>1, Numbers DEF NoChannel
    <3>2. CASE chan[c].state = Open /\ at[c] # "idle"
      <4>1. chan[c].pending \in {Cardinality(On(c)), Cardinality(On(c)) + 1}
        <5>1. chan[c].pending = Cardinality(On(c)) + (IF at[c] = "close" THEN 1 ELSE 0)
              BY <1>0, <3>2 DEF ChannelInv
        <5>2. Cardinality(On(c)) \in Int
              BY Counts
        <5> QED BY <5>1, <5>2
      <4> QED BY <4>1, Counts, Numbers
    <3>3. chan[c].state \in {Open, Drained}
          BY <1>0, ChannelType
    <3> QED BY <1>0, <3>1, <3>2, <3>3 DEF ChannelInv
  <2>3. chan \in [Callers -> [state : {Open, Drained}, buf : Seq(1..Senders), pending : 0..(1 + Senders)]]
    <3>1. \A c \in Callers : chan[c] \in [state : {Open, Drained}, buf : Seq(1..Senders), pending : 0..(1 + Senders)]
      <4> SUFFICES ASSUME NEW c \in Callers
                   PROVE  chan[c] \in [state : {Open, Drained}, buf : Seq(1..Senders), pending : 0..(1 + Senders)]
          OBVIOUS
      <4>1. chan[c].pending \in 0..(1 + Senders)
            BY <2>2
      <4>2. /\ chan[c].buf \in Seq(1..Senders) /\ chan[c].state \in {Open, Drained}
            /\ chan[c] = [state |-> chan[c].state, buf |-> chan[c].buf, pending |-> chan[c].pending]
            BY <1>0, ChannelType
      <4> QED BY <4>1, <4>2
    <3> QED BY <1>0, <3>1 DEF Types
  <2> QED BY <1>0, <2>1, <2>3 DEF TypeOK, Types
<1>2. ASSUME NEW j \in Jobs, Held(j)
      PROVE  In(j[1]) /\ ran[j] = 0
  <2>1. PICK c \in Callers, n \in 1..Receiver : j = <<c, n>> /\ c = j[1]
        BY JobIs
  <2>2. Held(<<c, n>>)
        BY <1>2, <2>1
  <2> QED BY <1>0, <2>1, <2>2 DEF RanInv
<1>3. ASSUME NEW j \in Jobs, Untaken(j) \/ Running(j) PROVE Held(j)
      BY <1>3 DEF Held, Untaken, Queued, Kept, Owner
<1>4. JoinComplete
  <2> SUFFICES ASSUME NEW c \in Callers, at[c] = "finish", NEW j \in TasksOf(c) PROVE ran[j] = 1
      BY DEF JoinComplete
  <2>1. PICK n \in 1..Receiver : j = <<c, n>>
        BY JobIs DEF TasksOf, Owner
  <2> QED BY <2>1, Finished
<1>5. FrameAlive
  <2> SUFFICES ASSUME NEW j \in Jobs
               PROVE  /\ Untaken(j) \/ Running(j) => at[j[1]] \notin {"idle", "close", "submit", "finish"}
                      /\ \/ \E i \in DOMAIN queue : queue[i] = j
                         \/ \E t \in Workers : job[t] = j
                         \/ \E t \in Callers \ {j[1]} : job[t] = j
                         => pending[j[1]] > 0
      BY DEF FrameAlive, Owner
  <2>1. Untaken(j) \/ Running(j) => at[j[1]] \notin {"idle", "close", "submit", "finish"}
        BY <1>2, <1>3 DEF In, Inside, Busy, Between
  <2>2. ASSUME j[2] # 1, Pooled(j[1]), Held(j) PROVE pending[j[1]] > 0
    <3>1. PICK c \in Callers, n \in 1..Receiver : j = <<c, n>> /\ c = j[1] /\ n = j[2]
          BY JobIs
    <3>2. n \in 2..Receiver /\ ran[<<c, n>>] = 0
          BY <1>2, <2>2, <3>1, Numbers
    <3>3. n \in Left(c)
          BY <3>2 DEF Left
    <3>4. Cardinality(Left(c)) > 0
          BY <3>3, Counts, FS_EmptySet
    <3> QED BY <1>0, <2>2, <3>1, <3>4 DEF PendingInv
  <2>3. ASSUME NEW i \in DOMAIN queue, queue[i] = j PROVE pending[j[1]] > 0
    <3>1. j[2] # 1 /\ Pooled(j[1]) /\ Held(j)
          BY <1>0, <2>3 DEF QueueInv, Held, Queued
    <3> QED BY <2>2, <3>1
  <2>4. ASSUME NEW t \in Callers \cup Workers, t # j[1], job[t] = j PROVE pending[j[1]] > 0
    <3>1. job[t] # None /\ Rightful(t) /\ t \in Threads /\ Held(j)
          BY <1>0, <2>4, JobIs, Kinds DEF HoldInv, Held, Running
    <3>2. j # <<t, 1>>
          BY <2>4
    <3>3. j[2] # 1 /\ Pooled(j[1])
          BY <2>4, <3>1, <3>2 DEF Rightful
    <3> QED BY <2>2, <3>1, <3>3
  <2>5. \A t \in Workers : t # j[1]
        BY JobIs, Kinds
  <2> QED BY <2>1, <2>3, <2>4, <2>5
<1>6. SendersTakenFirst
  <2> SUFFICES ASSUME NEW c \in Callers, Running(<<c, Receiver>>), NEW j \in SendersOf(c), Untaken(j) PROVE FALSE
      BY DEF SendersTakenFirst
  <2>0. PICK u \in Threads : job[u] = <<c, Receiver>>
        BY DEF Running
  <2>1. PICK n \in 1..Receiver : j \in Jobs /\ j = <<c, n>> /\ c = j[1] /\ n = j[2]
        BY JobIs DEF SendersOf, TasksOf, Owner
  <2>2. ASSUME NEW i \in DOMAIN queue, queue[i] = j PROVE FALSE
    <3>1. i + Receiver - n \in DOMAIN queue /\ queue[i + Receiver - n] = <<c, Receiver>>
          BY <1>0, <2>1, <2>2 DEF QueueInv
    <3> QED BY <1>0, <2>0, <3>1 DEF QueueInv
  <2>3. ASSUME NEW i \in DOMAIN inline[c], inline[c][i] = j PROVE FALSE
    <3>1. PICK q \in Seq(Jobs) : q = inline[c]
          BY <1>0 DEF Types
    <3>2. Len(q) \in DOMAIN q /\ Len(q) \in Nat
          BY <2>3, <3>1
    <3>3. q[Len(q)] = <<c, Receiver - Len(q) + Len(q)>> /\ q[Len(q)] # job[u]
          BY <1>0, <3>1, <3>2 DEF InlineInv
    <3>4. Receiver - Len(q) + Len(q) = Receiver
          BY <3>2, Numbers
    <3> QED BY <2>0, <3>3, <3>4
  <2> QED BY <2>1, <2>2, <2>3 DEF Untaken, Owner
<1>7. NoSenderAfterDrain
  <2> SUFFICES ASSUME NEW c \in Callers, chan[c].state = Drained, NEW j \in SendersOf(c)
               PROVE  ~Untaken(j) /\ \A t \in Threads : job[t] = j => at[t] = "returned"
      BY DEF NoSenderAfterDrain
  <2>1. PICK n \in 1..Receiver : j \in Jobs /\ j = <<c, n>> /\ c = j[1]
        BY JobIs DEF SendersOf, TasksOf, Owner
  <2>2. ASSUME Held(j) PROVE \E t \in Threads : job[t] = j /\ at[t] = "returned"
    <3>1. at[c] # "idle" /\ ran[j] = 0
          BY <1>2, <2>1, <2>2 DEF In, Inside, Busy, Between
    <3>2. IsOff(<<c, n>>)
          BY <1>0, <3>1 DEF ChannelInv
    <3> QED BY <2>1, <3>1, <3>2 DEF IsOff
  <2>3. ~Untaken(j)
    <3> SUFFICES ASSUME Untaken(j) PROVE FALSE
        OBVIOUS
    <3>1. PICK t \in Threads : job[t] = j
          BY <1>3, <2>1, <2>2
    <3>2. \A i \in DOMAIN queue : queue[i] # j
          BY <1>0, <3>1 DEF QueueInv
    <3>3. \A i \in DOMAIN inline[c] : inline[c][i] # j
          BY <1>0, <3>1 DEF InlineInv
    <3> QED BY <2>1, <3>2, <3>3 DEF Untaken, Owner
  <2>4. ASSUME NEW t \in Threads, job[t] = j PROVE at[t] = "returned"
    <3>1. PICK u \in Threads : job[u] = j /\ at[u] = "returned"
          BY <2>2, <2>4 DEF Held, Running
    <3>2. u = t
          BY <1>0, <2>1, <2>4, <3>1, JobIs DEF HoldInv
    <3> QED BY <3>1, <3>2
  <2> QED BY <2>3, <2>4
<1>8. AllReceived
  <2> SUFFICES ASSUME NEW c \in Callers, at[c] = "finish"
               PROVE  /\ Len(received[c]) = Senders
                      /\ {received[c][i] : i \in DOMAIN received[c]} = 1..Senders
                      /\ chan[c].state = Drained
      BY DEF AllReceived
  <2>1. chan[c] = NoChannel /\ Distinct(Values(c)) /\ \A i \in 1..Senders : Has(Values(c), i)
        BY Finished
  <2>2. received[c] \in Seq(1..Senders) /\ chan[c].buf = <<>> /\ chan[c].state = Drained
        BY <1>0, <2>1, ChannelType DEF NoChannel
  <2>3. Values(c) = received[c]
    <3>1. received[c] \o <<>> = received[c]
          BY <2>2, ConcatEmptySeq
    <3> QED BY <2>2, <3>1 DEF Values
  <2> QED BY <2>1, <2>2, <2>3, AllOnce
<1> QED BY <1>0, <1>1, <1>4, <1>5, <1>6, <1>7, <1>8 DEF JoinSafe

\* nish_jobs_run, nish_pool_drain and the channels: for any callers, workers,
\* tasks per scope and scopes, a join is safe in every reachable state.
THEOREM JoinsAreSafe == Spec => []JoinSafe
<1>1. Init => IInv
      BY InitHolds
<1>2. IInv /\ [Next]_vars => IInv'
      BY NextKeeps
<1>3. IInv => JoinSafe
      BY SafeFromIInv
<1> QED BY <1>1, <1>2, <1>3, PTL DEF Spec
=============================================================================
