------------------------------ MODULE LockWord ------------------------------
(***************************************************************************)
(* A Mutex's lock word: the compare-and-swap the compiler emits for lock() *)
(* (src/emit-parallel.ts), the runtime's loop for a word that is held      *)
(* (nish_mutex_wait), and the release store at the exit of the guard's     *)
(* block.  Each task updates the guarded data from what it reads there.    *)
(* The data is not atomic: a task reads some update at least as new as     *)
(* the newest it has synchronized with, by an acquire of the word that     *)
(* reads a release store.  Relaxed loads of the word may be stale.  The    *)
(* spins before the loop yields its core change nothing here.              *)
(***************************************************************************)
EXTENDS Naturals, Sequences

CONSTANTS
  Tasks,
  Rounds    \* bound: how often a task takes the lock

ASSUME RoundsAssumption == Rounds \in Nat

VARIABLES
  word,     \* 0 when the lock is free
  released, \* the newest update that the store of 0 in the word publishes
  data,     \* the guarded data: the value after each update, the first it was made with
  view,     \* task -> the newest update it has synchronized with
  read,     \* task -> the value it read under the lock
  pc,       \* where each task is
  round     \* task -> how often it has taken the lock

vars == <<word, released, data, view, read, pc, round>>

Init ==
  /\ word = 0 /\ released = 1 /\ data = <<0>>
  /\ view = [t \in Tasks |-> 1] /\ read = [t \in Tasks |-> 0]
  /\ pc = [t \in Tasks |-> "out"] /\ round = [t \in Tasks |-> 0]

Newer(a, b) == IF a >= b THEN a ELSE b

Goto(t, to) == pc' = [pc EXCEPT ![t] = to]

\* Mutant: the swap does not acquire.
Taken_Relaxed(t) == word' = 1 /\ view' = view

\* The acquiring swap of 0 for 1.
Taken(t) == word' = 1 /\ view' = [view EXCEPT ![t] = Newer(view[t], released)]

\* Mutant: the loop stores 1 once it has seen the word free.
WaitSwap_Store(t) ==
  /\ pc[t] = "swap"
  /\ Taken(t) /\ Goto(t, "held")
  /\ UNCHANGED <<released, data, read, round>>

\* lock(): the compiler's own compare-and-swap.
Lock(t) ==
  /\ pc[t] = "out" /\ round[t] < Rounds /\ round' = [round EXCEPT ![t] = @ + 1]
  /\ \/ word = 0 /\ Taken(t) /\ Goto(t, "held")
     \/ word # 0 /\ Goto(t, "wait") /\ UNCHANGED <<word, view>>
  /\ UNCHANGED <<released, data, read>>

\* nish_mutex_wait(): the relaxed load sees the word free, now or before.
WaitLoad(t) ==
  /\ pc[t] = "wait" /\ Goto(t, "swap")
  /\ UNCHANGED <<word, released, data, view, read, round>>

\* nish_mutex_wait(): the compare-and-swap.
WaitSwap(t) ==
  /\ pc[t] = "swap"
  /\ \/ word = 0 /\ Taken(t) /\ Goto(t, "held")
     \/ word # 0 /\ Goto(t, "wait") /\ UNCHANGED <<word, view>>
  /\ UNCHANGED <<released, data, read, round>>

\* The block reads the data.
Read(t) ==
  /\ pc[t] = "held" /\ Goto(t, "write")
  /\ \E v \in view[t]..Len(data) : read' = [read EXCEPT ![t] = data[v]]
  /\ UNCHANGED <<word, released, data, view, round>>

\* It writes what it makes of it.
Write(t) ==
  /\ pc[t] = "write" /\ Goto(t, "exit")
  /\ data' = Append(data, read[t] + 1) /\ view' = [view EXCEPT ![t] = Len(data) + 1]
  /\ UNCHANGED <<word, released, read, round>>

\* Mutant: an exit of the block gives nothing back.
Unlock_Not(t) ==
  /\ pc[t] = "exit" /\ Goto(t, "out")
  /\ UNCHANGED <<word, released, data, view, read, round>>

\* An exit of the guard's block: the release store.
Unlock(t) ==
  /\ pc[t] = "exit" /\ Goto(t, "out")
  /\ word' = 0 /\ released' = view[t]
  /\ UNCHANGED <<data, view, read, round>>

Step(t) == Lock(t) \/ WaitLoad(t) \/ WaitSwap(t) \/ Read(t) \/ Write(t) \/ Unlock(t)

Next == \E t \in Tasks : Step(t)

Spec == Init /\ [][Next]_vars
\* The machine runs every task.
FairSpec == Spec /\ \A t \in Tasks : WF_vars(Step(t))

----------------------------------------------------------------------------
(* Properties                                                              *)

Inside == {"held", "write", "exit"}

TypeOK ==
  /\ word \in {0, 1} /\ released \in 1..Len(data) /\ data \in Seq(Nat) /\ data # <<>>
  /\ view \in [Tasks -> 1..Len(data)] /\ read \in [Tasks -> Nat]
  /\ pc \in [Tasks -> {"out", "wait", "swap"} \union Inside] /\ round \in [Tasks -> 0..Rounds]

\* Two tasks are never inside blocks of the same guard, whichever of the two
\* paths each took the word by (lock, nish_mutex_wait).
Exclusive == \A t, u \in Tasks : pc[t] \in Inside /\ pc[u] \in Inside => t = u

\* No update of the guarded data is lost: each is made from the value the one
\* before left, though the data is read and written without atomics (the
\* acquire of both swaps, the release of the store).
NothingLost == \A i \in 1..Len(data) : data[i] = i - 1

\* Every task gets in and out as often as it wants: the word is never left
\* held, and waiters are not stuck (nish_mutex_wait, the release at every exit).
AllDone == <>[](\A t \in Tasks : pc[t] = "out" /\ round[t] = Rounds)

\* Strengthening: the word says whether a task is inside, the word free
\* publishes the newest update, and the task inside has seen it.
Guarded ==
  /\ (word = 0) <=> (\A t \in Tasks : pc[t] \notin Inside)
  /\ word = 0 => released = Len(data)
  /\ \A t \in Tasks : pc[t] \in Inside => view[t] = Len(data)
  /\ \A t \in Tasks : pc[t] = "write" => read[t] = Len(data) - 1
=============================================================================
