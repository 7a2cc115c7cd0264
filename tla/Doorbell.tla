------------------------------ MODULE Doorbell ------------------------------
(***************************************************************************)
(* The doorbell of both rings of std/sync/ring.ts (publish, ringRing,      *)
(* popWait, ringSleep) on a machine with store buffers: a RELEASE or       *)
(* RELAXED store waits in its process's buffer and reaches memory later, a *)
(* SEQ_CST store and a read-modify-write empty the buffer and act on       *)
(* memory, a load sees its own buffer first.  The rings differ here only   *)
(* in how many producers there are; the record a push publishes is a count *)
(* in a word of the producer's own.                                        *)
(***************************************************************************)
EXTENDS Naturals, Sequences, FiniteSets

CONSTANTS
  Producers,
  MaxPushes,   \* bound: the records one producer publishes
  MaxSleeps    \* bound: how often the consumer goes to sleep

Consumer == "consumer"
Flag == "flag"
\* Neither name is a producer's, and the bound is a number.
NamesApart == Producers \cap {Consumer, Flag} = {} /\ MaxSleeps \in Nat

Processes == Producers \cup {Consumer}
Words == Producers \cup {Flag}

Awake == 0
Asleep == 1

VARIABLES
  memory,   \* each word's value
  buffer,   \* each process's pending stores, oldest first
  pc,       \* where each process is
  taken,    \* the records the consumer has taken from each producer
  sleeps,   \* how often the consumer has raised the flag
  wakes     \* how many futex wakes were made

vars == <<memory, buffer, pc, taken, sleeps, wakes>>

Init ==
  /\ memory = [w \in Words |-> 0]
  /\ buffer = [x \in Processes |-> <<>>]
  /\ pc = [x \in Processes |-> "idle"]
  /\ taken = [p \in Producers |-> 0]
  /\ sleeps = 0
  /\ wakes = 0

(***************************************************************************)
(* The machine.                                                            *)
(***************************************************************************)
\* Stores applied to memory, oldest first; per word the newest one stays.
Apply(m, stores) ==
  [w \in Words |->
     LET mine == {i \in DOMAIN stores : stores[i].word = w}
     IN  IF mine = {} THEN m[w]
         ELSE stores[CHOOSE i \in mine : \A j \in mine : j <= i].value]

Load(x, w) == Apply(memory, buffer[x])[w]

StoreBuffered(x, w, v) ==
  /\ buffer' = [buffer EXCEPT ![x] = Append(@, [word |-> w, value |-> v])]
  /\ UNCHANGED memory

StoreSeqCst(x, w, v) ==
  /\ memory' = [Apply(memory, buffer[x]) EXCEPT ![w] = v]
  /\ buffer' = [buffer EXCEPT ![x] = <<>>]

Flush(x) ==
  /\ buffer[x] # <<>>
  /\ memory' = Apply(memory, <<Head(buffer[x])>>)
  /\ buffer' = [buffer EXCEPT ![x] = Tail(@)]
  /\ UNCHANGED <<pc, taken, sleeps, wakes>>

Goto(x, label) == pc' = [pc EXCEPT ![x] = label]

(***************************************************************************)
(* A push on a doorbell ring.                                              *)
(***************************************************************************)
\* Mutant: the record is published with a RELEASE store.
Publish_Release(p) ==
  /\ pc[p] = "idle"
  /\ Load(p, p) < MaxPushes
  /\ StoreBuffered(p, p, Load(p, p) + 1)
  /\ Goto(p, "bell")
  /\ UNCHANGED <<taken, sleeps, wakes>>

Publish(p) ==
  /\ pc[p] = "idle"
  /\ Load(p, p) < MaxPushes
  /\ StoreSeqCst(p, p, Load(p, p) + 1)
  /\ Goto(p, "bell")
  /\ UNCHANGED <<taken, sleeps, wakes>>

LoadFlag(p) ==
  /\ pc[p] = "bell"
  /\ Goto(p, IF Load(p, Flag) # Awake THEN "exchange" ELSE "idle")
  /\ UNCHANGED <<memory, buffer, taken, sleeps, wakes>>

ExchangeFlag(p) ==
  /\ pc[p] = "exchange"
  /\ Goto(p, IF Apply(memory, buffer[p])[Flag] # Awake THEN "wake" ELSE "idle")
  /\ StoreSeqCst(p, Flag, Awake)
  /\ UNCHANGED <<taken, sleeps, wakes>>

Wake(p) ==
  /\ pc[p] = "wake"
  /\ wakes' = wakes + 1
  /\ pc' = [pc EXCEPT ![p] = "idle",
                      ![Consumer] = IF @ = "asleep" THEN "woken" ELSE @]
  /\ UNCHANGED <<memory, buffer, taken, sleeps>>

(***************************************************************************)
(* popWait without a limit.                                                *)
(***************************************************************************)
Ready(p) == Load(Consumer, p) > taken[p]

\* A tryPop that finds a record; popWait answers and is called again.
TakeRecord(p) ==
  /\ pc[Consumer] = "idle"
  /\ Ready(p)
  /\ taken' = [taken EXCEPT ![p] = @ + 1]
  /\ UNCHANGED <<memory, buffer, pc, sleeps, wakes>>

\* A round of tryPops that found nothing.
RoundEmpty ==
  /\ pc[Consumer] = "idle"
  /\ \A p \in Producers : ~Ready(p)
  /\ sleeps < MaxSleeps
  /\ Goto(Consumer, "raise")
  /\ UNCHANGED <<memory, buffer, taken, sleeps, wakes>>

RaiseFlag ==
  /\ pc[Consumer] = "raise"
  /\ StoreSeqCst(Consumer, Flag, Asleep)
  /\ sleeps' = sleeps + 1
  /\ Goto(Consumer, "look")
  /\ UNCHANGED <<taken, wakes>>

\* Mutant: the consumer sleeps without looking again.
LookAgain_Skipped ==
  /\ pc[Consumer] = "look"
  /\ Goto(Consumer, "futex")
  /\ UNCHANGED <<memory, buffer, taken, sleeps, wakes>>

LookAgain ==
  /\ pc[Consumer] = "look"
  /\ Goto(Consumer, IF \E p \in Producers : Ready(p) THEN "woken" ELSE "futex")
  /\ UNCHANGED <<memory, buffer, taken, sleeps, wakes>>

\* The kernel compares the flag in memory and sleeps in one step.
FutexWait ==
  /\ pc[Consumer] = "futex"
  /\ Goto(Consumer, IF memory[Flag] = Asleep THEN "asleep" ELSE "woken")
  /\ UNCHANGED <<memory, buffer, taken, sleeps, wakes>>

\* A signal, or the time of a limited wait.
WaitEnds ==
  /\ pc[Consumer] = "asleep"
  /\ Goto(Consumer, "woken")
  /\ UNCHANGED <<memory, buffer, taken, sleeps, wakes>>

StoreAwake ==
  /\ pc[Consumer] = "woken"
  /\ StoreBuffered(Consumer, Flag, Awake)
  /\ Goto(Consumer, "idle")
  /\ UNCHANGED <<taken, sleeps, wakes>>

-----------------------------------------------------------------------------
Ring(p) == LoadFlag(p) \/ ExchangeFlag(p) \/ Wake(p)

Consume ==
  \/ RoundEmpty \/ RaiseFlag \/ LookAgain \/ FutexWait \/ StoreAwake
  \/ \E p \in Producers : TakeRecord(p)

Next ==
  \/ \E x \in Processes : Flush(x)
  \/ \E p \in Producers : Publish(p) \/ Ring(p)
  \/ Consume \/ WaitEnds

\* A process inside a call keeps running and buffers drain; nothing ends a
\* wait but a wake.
Fairness ==
  /\ \A x \in Processes : WF_vars(Flush(x))
  /\ \A p \in Producers : WF_vars(Ring(p))
  /\ WF_vars(Consume)

Spec == Init /\ [][Next]_vars /\ Fairness
-----------------------------------------------------------------------------
\* Every variable has its type, and buffers hold stores to known words.
TypeOK ==
  /\ memory \in [Words -> Nat] /\ memory[Flag] \in {Awake, Asleep}
  /\ \A x \in Processes : buffer[x] \in Seq([word : Words, value : Nat])
  /\ pc \in [Processes -> {"idle", "bell", "exchange", "wake", "raise", "look", "futex",
                           "asleep", "woken"}]
  /\ taken \in [Producers -> Nat]
  /\ sleeps \in 0..MaxSleeps /\ wakes \in Nat

\* A record is never left behind a sleeping consumer: each side's SEQ_CST
\* store comes before its load of the other's word, so one of the two sees
\* the other (ring.ts:82-86, 167-181, 317-319, 577-578).
NoRecordLeftBehind ==
  pc[Consumer] = "asleep" /\ (\E p \in Producers : memory[p] > taken[p]) =>
    \E p \in Producers : pc[p] \in {"bell", "exchange", "wake"}

\* However many producers see the flag, one pays for the wake: each raising of
\* the flag is answered by at most one futex wake (ring.ts:170-171).
OneWakePerSleep ==
  wakes + Cardinality({p \in Producers : pc[p] = "wake"}) <= sleeps

\* The doorbell does its work and no more: no record is left behind a sleeper,
\* and one producer pays for each wake (publish, ringRing, ringSleep).
BellSound == TypeOK /\ NoRecordLeftBehind /\ OneWakePerSleep

\* Every published record is taken in the end, although nothing but a wake
\* ends a wait.
Taken ==
  \A p \in Producers : \A k \in 1..MaxPushes :
    memory[p] >= k ~> taken[p] >= k
=============================================================================
