------------------------------ MODULE JobPool ------------------------------
(***************************************************************************)
(* The worker pool, the scopes and the channels of                         *)
(* runtime/runtime-parallel.c: callers open a scope, spawn its tasks, and  *)
(* join it; the join runs the first task itself and hands the rest to the  *)
(* pool's queue (or, with the pool disabled, to threads of their own).     *)
(* The tasks of a scope are senders and, last, one receiver of the scope's *)
(* channel, the one way a task waits for another.                          *)
(*                                                                         *)
(* What runs between taking and giving back a lock is one step; a thread   *)
(* that sleeps on a condition variable is in a waiting label, and a signal *)
(* or a broadcast moves it out of it.                                      *)
(***************************************************************************)
EXTENDS Integers, Sequences, FiniteSets

CONSTANTS
  Callers,    \* the threads that open scopes
  Workers,    \* the pool's threads, when they can be created
  Senders,    \* how many tasks of a scope send; the receiver is one more
  MaxScopes,  \* bound: the scopes one caller opens
  MayDisable  \* whether nish_pool_disable may be called

Receiver == Senders + 1
Jobs == Callers \X (1..Receiver)

\* A job names the thread that an unpooled join makes for it.
ASSUME PoolAssumption ==
  /\ Senders \in Nat \ {0} /\ MaxScopes \in Nat /\ MayDisable \in BOOLEAN
  /\ IsFiniteSet(Workers)
  /\ Callers \cap Workers = {} /\ Jobs \cap (Callers \cup Workers) = {}

Threads == Callers \cup Workers \cup Jobs
Owner(j) == j[1]
None == <<>>

Open == "open"
Drained == "drained"

VARIABLES
  pool,      \* 0 before the workers start, 1 once they have, -1 disabled
  queue,     \* the jobs nobody has taken, oldest first
  pending,   \* per caller, the queued or running jobs its join waits for
  at,        \* where each thread is
  job,       \* the job each thread is running
  scopes,    \* per caller, the scopes it has opened
  inline,    \* per caller, the jobs an unpooled join runs itself
  ran,       \* per job, how often it ran in this scope
  chan,      \* per caller, its scope's channel
  received   \* per caller, the values its receiver has taken, in order

vars == <<pool, queue, pending, at, job, scopes, inline, ran, chan, received>>

NoChannel == [state |-> Drained, buf |-> <<>>, pending |-> 0]

Init ==
  /\ pool = 0
  /\ queue = <<>>
  /\ pending = [c \in Callers |-> 0]
  /\ at = [t \in Threads |-> IF t \in Callers THEN "idle" ELSE "off"]
  /\ job = [t \in Threads |-> None]
  /\ scopes = [c \in Callers |-> 0]
  /\ inline = [c \in Callers |-> <<>>]
  /\ ran = [j \in Jobs |-> 0]
  /\ chan = [c \in Callers |-> NoChannel]
  /\ received = [c \in Callers |-> <<>>]

\* The threads asleep on a channel's condition variable wake at a broadcast.
WokenBy(c, a) ==
  [t \in Threads |-> IF a[t] = "receiving" /\ Owner(job[t]) = c THEN "run" ELSE a[t]]

(***************************************************************************)
(* A scope: its tasks are filed, the scope's own count is taken off the    *)
(* channel just before the join, and the join hands out the jobs.          *)
(***************************************************************************)
\* nish_scope_spawn of every task, counting each sender on the channel.
OpenScope(c) ==
  /\ at[c] = "idle" /\ scopes[c] < MaxScopes
  /\ scopes' = [scopes EXCEPT ![c] = @ + 1]
  /\ chan' = [chan EXCEPT ![c] = [state |-> Open, buf |-> <<>>, pending |-> 1 + Senders]]
  /\ received' = [received EXCEPT ![c] = <<>>]
  /\ ran' = [j \in Jobs |-> IF Owner(j) = c THEN 0 ELSE ran[j]]
  /\ at' = [at EXCEPT ![c] = "close"]
  /\ UNCHANGED <<pool, queue, pending, job, inline>>

CloseScope(c) ==
  /\ at[c] = "close"
  /\ chan' = [chan EXCEPT ![c].pending = @ - 1]
  /\ at' = [at EXCEPT ![c] = "submit"]
  /\ UNCHANGED <<pool, queue, pending, job, scopes, inline, ran, received>>

\* nish_pool_ready: the first join starts the workers, or those of them that
\* can be created.
StartPool(c) ==
  /\ at[c] = "submit" /\ pool = 0
  /\ pool' = 1
  /\ \E started \in SUBSET Workers :
       at' = [t \in Threads |-> IF t \in started THEN "take" ELSE at[t]]
  /\ UNCHANGED <<queue, pending, job, scopes, inline, ran, chan, received>>

DisablePool ==
  /\ MayDisable /\ pool = 0
  /\ pool' = -1
  /\ UNCHANGED <<queue, pending, at, job, scopes, inline, ran, chan, received>>

Rest(c) == [i \in 1..Senders |-> <<c, i + 1>>]

\* The pooled half of nish_jobs_run: queue the rest, one signal per job.
Submit(c) ==
  /\ at[c] = "submit" /\ pool = 1
  /\ queue' = queue \o Rest(c)
  /\ pending' = [pending EXCEPT ![c] = Senders]
  /\ LET parked == {w \in Workers : at[w] = "parked"}
     IN  \E woken \in SUBSET parked :
           /\ Cardinality(woken) = IF Cardinality(parked) < Senders
                                   THEN Cardinality(parked) ELSE Senders
           /\ at' = [t \in Threads |-> IF t = c THEN "run"
                                       ELSE IF t \in woken THEN "take" ELSE at[t]]
  /\ job' = [job EXCEPT ![c] = <<c, 1>>]
  /\ UNCHANGED <<pool, scopes, inline, ran, chan, received>>

\* The unpooled half: a thread per job, until one cannot be created.
SubmitUnpooled(c) ==
  /\ at[c] = "submit" /\ pool = -1
  /\ \E k \in 0..Senders :
       /\ inline' = [inline EXCEPT ![c] = SubSeq(Rest(c), k + 1, Senders)]
       /\ LET made == {Rest(c)[i] : i \in 1..k}
          IN  /\ at' = [t \in Threads |-> IF t = c \/ t \in made THEN "run" ELSE at[t]]
              /\ job' = [t \in Threads |-> IF t = c THEN <<c, 1>>
                                           ELSE IF t \in made THEN t ELSE job[t]]
  /\ UNCHANGED <<pool, queue, pending, scopes, ran, chan, received>>

\* nish_jobs_run_sized, for a scope with a stack of its own: a thread for
\* every task, the first one too. One that cannot be created is a panic.
SubmitSized(c) ==
  /\ at[c] = "submit"
  /\ at' = [t \in Threads |-> IF t = c THEN "inline"
                              ELSE IF t \in Jobs /\ Owner(t) = c THEN "run" ELSE at[t]]
  /\ job' = [t \in Threads |-> IF t \in Jobs /\ Owner(t) = c THEN t ELSE job[t]]
  /\ UNCHANGED <<pool, queue, pending, scopes, inline, ran, chan, received>>

(***************************************************************************)
(* The tasks.                                                              *)
(***************************************************************************)
IsSender(t) == at[t] = "run" /\ job[t][2] # Receiver
IsReceiver(t) == at[t] = "run" /\ job[t][2] = Receiver

\* Mutant: a channel with room for one value, whose senders wait for the
\* receiver instead of growing the buffer.
Send_Bounded(t) ==
  /\ IsSender(t)
  /\ LET c == Owner(job[t])
     IN  /\ chan[c].buf = <<>>
         /\ IF chan[c].state = Drained THEN UNCHANGED chan
            ELSE chan' = [chan EXCEPT ![c].buf = Append(@, job[t][2])]
         /\ at' = [WokenBy(c, at) EXCEPT ![t] = "sent"]
  /\ UNCHANGED <<pool, queue, pending, job, scopes, inline, ran, received>>

\* nish_channel_send, then the count the compiler takes off at the return.
Send(t) ==
  /\ IsSender(t)
  /\ LET c == Owner(job[t])
     IN  /\ IF chan[c].state = Drained THEN UNCHANGED chan
            ELSE chan' = [chan EXCEPT ![c].buf = Append(@, job[t][2])]
         /\ at' = [WokenBy(c, at) EXCEPT ![t] = "sent"]
  /\ UNCHANGED <<pool, queue, pending, job, scopes, inline, ran, received>>

SenderReturns(t) ==
  /\ at[t] = "sent"
  /\ LET c == Owner(job[t])
     IN  /\ IF chan[c].state = Drained THEN UNCHANGED chan
            ELSE chan' = [chan EXCEPT ![c].pending = @ - 1]
         /\ at' = [WokenBy(c, at) EXCEPT ![t] = "returned"]
  /\ UNCHANGED <<pool, queue, pending, job, scopes, inline, ran, received>>

\* nish_channel_receive: a value, a wait, or the end of the channel.
Receive(t) ==
  /\ IsReceiver(t)
  /\ LET c == Owner(job[t])
     IN  \/ /\ chan[c].buf # <<>>
            /\ received' = [received EXCEPT ![c] = Append(@, Head(chan[c].buf))]
            /\ chan' = [chan EXCEPT ![c].buf = Tail(@)]
            /\ at' = WokenBy(c, at)
         \/ /\ chan[c].buf = <<>> /\ chan[c].pending # 0
            /\ at' = [at EXCEPT ![t] = "receiving"]
            /\ UNCHANGED <<chan, received>>
         \/ /\ chan[c].buf = <<>> /\ chan[c].pending = 0
            /\ chan' = [chan EXCEPT ![c] = NoChannel]
            /\ at' = [at EXCEPT ![t] = "returned"]
            /\ UNCHANGED received
  /\ UNCHANGED <<pool, queue, pending, job, scopes, inline, ran>>

(***************************************************************************)
(* nish_pool_drain, by a worker or by a caller whose own task returned.    *)
(***************************************************************************)
\* The callers asleep on done wake when a count reaches 0.
JobDone(j, a) ==
  /\ pending' = [pending EXCEPT ![Owner(j)] = @ - 1]
  /\ at' = IF pending'[Owner(j)] = 0
           THEN [t \in Threads |-> IF t \in Callers /\ a[t] = "parked" THEN "take" ELSE a[t]]
           ELSE a

\* A pooled job returned on a worker, or on a caller that took it off the queue.
PooledJobReturns(t) ==
  /\ at[t] = "returned" /\ pool = 1
  /\ t \in Workers \/ job[t] # <<t, 1>>
  /\ ran' = [ran EXCEPT ![job[t]] = @ + 1]
  /\ job' = [job EXCEPT ![t] = None]
  /\ JobDone(job[t], [at EXCEPT ![t] = "take"])
  /\ UNCHANGED <<pool, queue, scopes, inline, chan, received>>

\* The caller's own first task returned.
LeadReturns(c) ==
  /\ at[c] = "returned" /\ job[c] = <<c, 1>>
  /\ ran' = [ran EXCEPT ![job[c]] = @ + 1]
  /\ job' = [job EXCEPT ![c] = None]
  /\ at' = [at EXCEPT ![c] = IF pool = 1 THEN "take" ELSE "inline"]
  /\ UNCHANGED <<pool, queue, pending, scopes, inline, chan, received>>

Waiting(t) == t \in Workers \/ pending[t] # 0

\* Mutant: a job is counted off when it is taken.
TakeJob_CountsOff(t) ==
  /\ at[t] = "take" /\ queue # <<>>
  /\ job' = [job EXCEPT ![t] = Head(queue)]
  /\ pending' = [pending EXCEPT ![Owner(Head(queue))] = @ - 1]
  /\ queue' = Tail(queue)
  /\ at' = [at EXCEPT ![t] = "run"]
  /\ UNCHANGED <<pool, scopes, inline, ran, chan, received>>

TakeJob(t) ==
  /\ at[t] = "take" /\ queue # <<>>
  /\ job' = [job EXCEPT ![t] = Head(queue)]
  /\ queue' = Tail(queue)
  /\ at' = [at EXCEPT ![t] = "run"]
  /\ UNCHANGED <<pool, pending, scopes, inline, ran, chan, received>>

\* Nothing to take: spin without the lock, or the join is over.
NothingToTake(t) ==
  /\ at[t] = "take" /\ queue = <<>>
  /\ at' = [at EXCEPT ![t] = IF Waiting(t) THEN "spin" ELSE "finish"]
  /\ UNCHANGED <<pool, queue, pending, job, scopes, inline, ran, chan, received>>

SpinEnds(t) ==
  /\ at[t] = "spin"
  /\ at' = [at EXCEPT ![t] = IF Waiting(t) /\ queue = <<>> THEN "parked" ELSE "take"]
  /\ UNCHANGED <<pool, queue, pending, job, scopes, inline, ran, chan, received>>

\* A wait ends by itself: spuriously, or after the second a worker waits
\* before it gives its memory back.
WaitEnds(t) ==
  /\ at[t] = "parked"
  /\ at' = [at EXCEPT ![t] = "take"]
  /\ UNCHANGED <<pool, queue, pending, job, scopes, inline, ran, chan, received>>

(***************************************************************************)
(* The unpooled join.                                                      *)
(***************************************************************************)
RunInline(c) ==
  /\ at[c] = "inline" /\ inline[c] # <<>>
  /\ job' = [job EXCEPT ![c] = Head(inline[c])]
  /\ inline' = [inline EXCEPT ![c] = Tail(@)]
  /\ at' = [at EXCEPT ![c] = "run"]
  /\ UNCHANGED <<pool, queue, pending, scopes, ran, chan, received>>

InlineReturns(c) ==
  /\ at[c] = "returned" /\ pool = -1 /\ job[c] # <<c, 1>>
  /\ ran' = [ran EXCEPT ![job[c]] = @ + 1]
  /\ job' = [job EXCEPT ![c] = None]
  /\ at' = [at EXCEPT ![c] = "inline"]
  /\ UNCHANGED <<pool, queue, pending, scopes, inline, chan, received>>

ThreadExits(j) ==
  /\ at[j] = "returned"
  /\ ran' = [ran EXCEPT ![j] = @ + 1]
  /\ at' = [at EXCEPT ![j] = "exited"]
  /\ job' = [job EXCEPT ![j] = None]
  /\ UNCHANGED <<pool, queue, pending, scopes, inline, chan, received>>

\* pthread_join of every thread the join made.
JoinThreads(c) ==
  /\ at[c] = "inline" /\ inline[c] = <<>>
  /\ \A j \in Jobs : Owner(j) = c => at[j] \in {"off", "exited"}
  /\ at' = [t \in Threads |-> IF t = c THEN "finish"
                              ELSE IF t \in Jobs /\ Owner(t) = c THEN "off" ELSE at[t]]
  /\ UNCHANGED <<pool, queue, pending, job, scopes, inline, ran, chan, received>>

\* The stores of the answers, in spawn order, and the tasks' memory freed.
FinishScope(c) ==
  /\ at[c] = "finish"
  /\ at' = [at EXCEPT ![c] = "idle"]
  /\ UNCHANGED <<pool, queue, pending, job, scopes, inline, ran, chan, received>>

-----------------------------------------------------------------------------
Task(t) == Send(t) \/ SenderReturns(t) \/ Receive(t)

CallerStep(c) ==
  \/ CloseScope(c) \/ StartPool(c) \/ Submit(c) \/ SubmitUnpooled(c) \/ SubmitSized(c)
  \/ LeadReturns(c) \/ RunInline(c) \/ InlineReturns(c) \/ JoinThreads(c) \/ FinishScope(c)

PoolStep(t) == PooledJobReturns(t) \/ TakeJob(t) \/ NothingToTake(t) \/ SpinEnds(t)

Next ==
  \/ DisablePool
  \/ \E c \in Callers : OpenScope(c) \/ CallerStep(c)
  \/ \E t \in Callers \cup Workers : PoolStep(t) \/ WaitEnds(t)
  \/ \E t \in Threads : Task(t)
  \/ \E j \in Jobs : ThreadExits(j)

\* A thread that can run does, and nothing ends a wait by itself.
Fairness ==
  /\ \A c \in Callers : WF_vars(CallerStep(c))
  /\ \A t \in Callers \cup Workers : WF_vars(PoolStep(t))
  /\ \A t \in Threads : WF_vars(Task(t))
  /\ \A j \in Jobs : WF_vars(ThreadExits(j))

Spec == Init /\ [][Next]_vars
FairSpec == Spec /\ Fairness

-----------------------------------------------------------------------------
Labels == {"off", "idle", "close", "submit", "run", "sent", "receiving", "returned",
           "take", "spin", "parked", "inline", "finish", "exited"}

\* The type invariant of the pool, the joins and the channels.
TypeOK ==
  /\ pool \in -1..1
  /\ queue \in Seq(Jobs)
  /\ pending \in [Callers -> 0..Senders]
  /\ at \in [Threads -> Labels]
  /\ job \in [Threads -> Jobs \cup {None}]
  /\ scopes \in [Callers -> 0..MaxScopes]
  /\ inline \in [Callers -> Seq(Jobs)]
  /\ ran \in [Jobs -> Nat]
  /\ chan \in [Callers -> [state : {Open, Drained}, buf : Seq(1..Senders),
                           pending : 0..(1 + Senders)]]
  /\ received \in [Callers -> Seq(1..Senders)]

TasksOf(c) == {j \in Jobs : Owner(j) = c}
SendersOf(c) == {j \in TasksOf(c) : j[2] # Receiver}
Running(j) == \E t \in Threads : job[t] = j
Untaken(j) == \/ \E i \in DOMAIN queue : queue[i] = j
              \/ \E i \in DOMAIN inline[Owner(j)] : inline[Owner(j)][i] = j

\* nish_jobs_run returns to the stores of nish_scope_join only when every task
\* of the scope ran, on whatever thread, and none of them twice.
JoinComplete ==
  \A c \in Callers : at[c] = "finish" => \A j \in TasksOf(c) : ran[j] = 1

\* Nothing may touch a job after its count reaches 0 (nish_job_done), because
\* the count and the jobs are the caller's: a task that is queued or running
\* on another thread has its owner inside the join, with a count left when
\* the task came off the pool's queue.
FrameAlive ==
  \A j \in Jobs :
    /\ Untaken(j) \/ Running(j)
         => at[Owner(j)] \notin {"idle", "close", "submit", "finish"}
    /\ \/ ~ \/ \E i \in DOMAIN queue : queue[i] = j
            \/ \E t \in Workers : job[t] = j
            \/ \E t \in Callers \ {Owner(j)} : job[t] = j
       \/ pending[Owner(j)] > 0

\* The first-in first-out claim the channels rest on: once a thread runs the
\* receiving task of a scope, no sender of that scope is still untaken.
SendersTakenFirst ==
  \A c \in Callers : Running(<<c, Receiver>>) => \A j \in SendersOf(c) : ~Untaken(j)

\* nish_channel_receive frees the channel only when nobody is left to touch
\* it: no sender of the scope is waiting to run, running or about to count
\* itself off.
NoSenderAfterDrain ==
  \A c \in Callers : chan[c].state = Drained =>
    \A j \in SendersOf(c) :
      /\ ~Untaken(j)
      /\ \A t \in Threads : job[t] = j => at[t] = "returned"

\* Every value sent in a scope is received, once, before the join is over, and
\* nothing is left in the channel.
AllReceived ==
  \A c \in Callers : at[c] = "finish" =>
    /\ Len(received[c]) = Senders
    /\ {received[c][i] : i \in DOMAIN received[c]} = 1..Senders
    /\ chan[c].state = Drained

\* A caller asleep on done has a job left to wait for, since the last of them
\* broadcasts; and a worker stays asleep beside a queued job only when as many
\* workers as there are jobs are already on their way to the queue.
NoLostWakeup ==
  /\ \A c \in Callers : at[c] = "parked" => pending[c] # 0
  /\ (\E w \in Workers : at[w] = "parked") =>
       Len(queue) <= Cardinality({w \in Workers : at[w] \in {"take", "spin"}})

\* Every join returns, whatever the number of workers the pool got, none
\* included, and whichever thread took the receiver.
JoinReturns ==
  \A c \in Callers : at[c] = "submit" ~> at[c] = "idle"

\* A join is safe: it returns with every task run once and every value
\* received, and until then nothing that a task touches goes away and nobody
\* sleeps beside work (nish_jobs_run, nish_job_done, nish_channel_receive).
JoinSafe ==
  TypeOK /\ JoinComplete /\ FrameAlive /\ SendersTakenFirst /\ NoSenderAfterDrain /\ AllReceived /\ NoLostWakeup
=============================================================================
