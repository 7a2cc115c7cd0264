--------------------------- MODULE LockWordProofs ---------------------------
(***************************************************************************)
(* Proofs about the lock word, for any number of tasks and rounds.         *)
(***************************************************************************)
EXTENDS LockWord, SequenceTheorems, TLAPS

\* The inductive invariant: mutual exclusion and no lost update follow from
\* each other only together with what the word says of the tasks (Guarded).
IInv == TypeOK /\ Exclusive /\ Guarded /\ NothingLost

\* The invariant holds of a free lock.
LEMMA InitIInv == Init => IInv
BY RoundsAssumption, SMT DEF Init, IInv, TypeOK, Exclusive, Guarded, NothingLost, Inside

\* Taking the word, on either path, when it is free.
LEMMA TakeKeeps ==
  ASSUME IInv, NEW t \in Tasks, pc[t] \notin Inside, word = 0,
         Taken(t), Goto(t, "held"), UNCHANGED <<released, data, read>>,
         round' \in [Tasks -> 0..Rounds]
  PROVE  IInv'
<1>1. view[t] \in 1..Len(data) /\ released = Len(data) /\ Len(data) \in Nat
      BY SMT DEF IInv, TypeOK, Guarded
<1>2. view' = [view EXCEPT ![t] = Len(data)]
  <2>1. Newer(view[t], released) = Len(data)
        BY <1>1, SMT DEF Newer
  <2> QED BY <2>1 DEF Taken
<1>3. TypeOK'
  <2>1. view' \in [Tasks -> 1..Len(data)]
        BY <1>1, <1>2, SMT DEF IInv, TypeOK
  <2>2. pc' \in [Tasks -> {"out", "wait", "swap"} \union Inside]
        BY SMT DEF IInv, TypeOK, Goto, Inside
  <2>3. word' \in {0, 1}
        BY DEF Taken
  <2> QED BY <2>1, <2>2, <2>3, SMT DEF IInv, TypeOK
<1>4. \A u \in Tasks : pc[u] \notin Inside
      BY DEF IInv, Guarded
<1>5. \A u \in Tasks : pc'[u] = IF u = t THEN "held" ELSE pc[u]
      BY SMT DEF Goto, IInv, TypeOK
<1>6. Exclusive'
      BY <1>4, <1>5, SMT DEF Exclusive
<1>7. Guarded'
      BY <1>1, <1>2, <1>4, <1>5, SMT DEF IInv, Guarded, Taken, TypeOK, Inside
<1>8. NothingLost'
      BY SMT DEF IInv, NothingLost
<1> QED BY <1>3, <1>6, <1>7, <1>8 DEF IInv

\* A step of a task outside, that takes nothing.
LEMMA WaitKeeps ==
  ASSUME IInv, NEW t \in Tasks, NEW to \in {"wait", "swap"}, pc[t] \notin Inside,
         Goto(t, to), UNCHANGED <<word, released, data, view, read>>,
         round' \in [Tasks -> 0..Rounds]
  PROVE  IInv'
<1>1. \A u \in Tasks : pc'[u] = IF u = t THEN to ELSE pc[u]
      BY SMT DEF Goto, IInv, TypeOK
<1>2. to \notin Inside /\ to # "write"
      BY DEF Inside
<1>3. TypeOK'
  <2>1. pc' \in [Tasks -> {"out", "wait", "swap"} \union Inside]
        BY SMT DEF IInv, TypeOK, Goto, Inside
  <2> QED BY <2>1, SMT DEF IInv, TypeOK
<1>4. Exclusive'
      BY <1>1, <1>2, SMT DEF IInv, Exclusive
<1>5. Guarded'
      BY <1>1, <1>2, SMT DEF IInv, Guarded
<1>6. NothingLost'
      BY SMT DEF IInv, NothingLost
<1> QED BY <1>3, <1>4, <1>5, <1>6 DEF IInv

\* The first exchange of a lock keeps it, whether it takes the word or not.
LEMMA LockKeeps ==
  ASSUME IInv, NEW t \in Tasks, Lock(t)
  PROVE  IInv'
<1>1. pc[t] \notin Inside
      BY SMT DEF Lock, Inside
<1>2. round' \in [Tasks -> 0..Rounds]
      BY RoundsAssumption, SMT DEF Lock, IInv, TypeOK
<1>3. CASE word = 0
      BY <1>1, <1>2, <1>3, TakeKeeps, SMT DEF Lock
<1>4. CASE word # 0
      BY <1>1, <1>2, <1>4, WaitKeeps, SMT DEF Lock
<1> QED BY <1>3, <1>4

\* The load of a waiting thread keeps it.
LEMMA WaitLoadKeeps ==
  ASSUME IInv, NEW t \in Tasks, WaitLoad(t)
  PROVE  IInv'
<1>1. pc[t] \notin Inside
      BY SMT DEF WaitLoad, Inside
<1>2. round' \in [Tasks -> 0..Rounds]
      BY SMT DEF WaitLoad, IInv, TypeOK
<1> QED BY <1>1, <1>2, WaitKeeps, SMT DEF WaitLoad

\* The exchange of a waiting thread keeps it.
LEMMA WaitSwapKeeps ==
  ASSUME IInv, NEW t \in Tasks, WaitSwap(t)
  PROVE  IInv'
<1>1. pc[t] \notin Inside
      BY SMT DEF WaitSwap, Inside
<1>2. round' \in [Tasks -> 0..Rounds]
      BY SMT DEF WaitSwap, IInv, TypeOK
<1>3. CASE word = 0
      BY <1>1, <1>2, <1>3, TakeKeeps, SMT DEF WaitSwap
<1>4. CASE word # 0
      BY <1>1, <1>2, <1>4, WaitKeeps, SMT DEF WaitSwap
<1> QED BY <1>3, <1>4

\* A read under the lock keeps it.
LEMMA ReadKeeps ==
  ASSUME IInv, NEW t \in Tasks, Read(t)
  PROVE  IInv'
<1>1. pc[t] = "held" /\ "held" \in Inside /\ "write" \in Inside
      BY SMT DEF Read, Inside
<1>2. view[t] = Len(data) /\ Len(data) \in Nat \ {0}
      BY <1>1, SMT DEF IInv, Guarded, TypeOK
<1>3. read' = [read EXCEPT ![t] = Len(data) - 1]
  <2>1. PICK v \in view[t]..Len(data) : read' = [read EXCEPT ![t] = data[v]]
        BY DEF Read
  <2>2. v = Len(data) /\ v \in 1..Len(data)
        BY <1>2, SMT
  <2>3. data[v] = Len(data) - 1
        BY <2>2 DEF IInv, NothingLost
  <2> QED BY <2>1, <2>3
<1>4. \A u \in Tasks : pc'[u] = IF u = t THEN "write" ELSE pc[u]
      BY SMT DEF Read, Goto, IInv, TypeOK
<1>5. TypeOK'
      BY <1>2, <1>3, SMT DEF Read, IInv, TypeOK, Goto, Inside
<1>6. Exclusive'
      BY <1>1, <1>4, SMT DEF IInv, Exclusive
<1>7. Guarded'
  <2>1. (word' = 0) <=> (\A u \in Tasks : pc'[u] \notin Inside)
        BY <1>1, <1>4, SMT DEF Read, IInv, Guarded
  <2>2. \A u \in Tasks : pc'[u] \in Inside => view'[u] = Len(data')
        BY <1>1, <1>4, SMT DEF Read, IInv, Guarded
  <2>3. \A u \in Tasks : read'[u] = IF u = t THEN Len(data) - 1 ELSE read[u]
        BY <1>3, SMT DEF IInv, TypeOK
  <2>4. \A u \in Tasks : pc'[u] = "write" => read'[u] = Len(data') - 1
        BY <1>4, <2>3, SMT DEF Read, IInv, Guarded
  <2>5. word' = 0 => released' = Len(data')
        BY SMT DEF Read, IInv, Guarded
  <2> QED BY <2>1, <2>2, <2>4, <2>5 DEF Guarded
<1>8. NothingLost'
      BY SMT DEF Read, IInv, NothingLost
<1> QED BY <1>5, <1>6, <1>7, <1>8 DEF IInv

\* A write under the lock keeps it.
LEMMA WriteKeeps ==
  ASSUME IInv, NEW t \in Tasks, Write(t)
  PROVE  IInv'
<1>1. pc[t] = "write" /\ "write" \in Inside /\ "exit" \in Inside /\ word # 0
      BY SMT DEF Write, IInv, Guarded, Inside
<1>2. read[t] = Len(data) - 1 /\ Len(data) \in Nat \ {0}
      BY <1>1, SMT DEF IInv, Guarded, TypeOK
<1>3. Len(data') = Len(data) + 1 /\ data' \in Seq(Nat) /\ data' # <<>>
      BY SMT DEF Write, IInv, TypeOK
<1>4. \A i \in 1..Len(data') : data'[i] = IF i = Len(data) + 1 THEN read[t] + 1 ELSE data[i]
  <2>1. data \in Seq(Nat) /\ read[t] + 1 \in Nat /\ data' = Append(data, read[t] + 1)
        BY <1>2, SMT DEF Write, IInv, TypeOK
  <2> QED BY <2>1, <1>3, AppendProperties, SMT
<1>5. \A u \in Tasks : pc'[u] = IF u = t THEN "exit" ELSE pc[u]
      BY SMT DEF Write, Goto, IInv, TypeOK
<1>6. \A u \in Tasks : view'[u] = IF u = t THEN Len(data) + 1 ELSE view[u]
      BY SMT DEF Write, IInv, TypeOK
<1>7. \A u \in Tasks : u # t => pc[u] \notin Inside
      BY <1>1, SMT DEF IInv, Exclusive
<1>8. TypeOK'
  <2>1. view' \in [Tasks -> 1..Len(data')]
        BY <1>2, <1>3, SMT DEF Write, IInv, TypeOK
  <2>2. pc' \in [Tasks -> {"out", "wait", "swap"} \union Inside]
        BY <1>1, SMT DEF Write, IInv, TypeOK, Goto
  <2>3. released' \in 1..Len(data')
        BY <1>2, <1>3, SMT DEF Write, IInv, TypeOK
  <2> QED BY <1>3, <2>1, <2>2, <2>3, SMT DEF Write, IInv, TypeOK
<1>9. Exclusive'
      BY <1>5, <1>7, SMT DEF Exclusive
<1>10. Guarded'
  <2>1. word' # 0 /\ pc'[t] \in Inside
        BY <1>1, <1>5, SMT DEF Write
  <2>2. \A u \in Tasks : pc'[u] \in Inside => view'[u] = Len(data')
        BY <1>3, <1>5, <1>6, <1>7, SMT
  <2>3. \A u \in Tasks : pc'[u] # "write"
        BY <1>1, <1>5, <1>7, SMT
  <2> QED BY <2>1, <2>2, <2>3 DEF Guarded
<1>11. NothingLost'
      BY <1>2, <1>3, <1>4, SMT DEF IInv, NothingLost
<1> QED BY <1>8, <1>9, <1>10, <1>11 DEF IInv

\* An unlock keeps it.
LEMMA UnlockKeeps ==
  ASSUME IInv, NEW t \in Tasks, Unlock(t)
  PROVE  IInv'
<1>1. pc[t] = "exit" /\ "exit" \in Inside /\ "out" \notin Inside
      BY SMT DEF Unlock, Inside
<1>2. view[t] = Len(data)
      BY <1>1, SMT DEF IInv, Guarded
<1>3. \A u \in Tasks : pc'[u] = IF u = t THEN "out" ELSE pc[u]
      BY SMT DEF Unlock, Goto, IInv, TypeOK
<1>4. \A u \in Tasks : pc'[u] \notin Inside
      BY <1>1, <1>3, SMT DEF IInv, Exclusive
<1>5. TypeOK'
      BY SMT DEF Unlock, IInv, TypeOK, Goto, Inside
<1>6. Exclusive'
      BY <1>4 DEF Exclusive
<1>7. Guarded'
  <2>1. word' = 0 /\ released' = Len(data')
        BY <1>2, SMT DEF Unlock
  <2>2. \A u \in Tasks : pc'[u] # "write"
        BY <1>4, SMT DEF Inside
  <2> QED BY <1>4, <2>1, <2>2 DEF Guarded
<1>8. NothingLost'
      BY SMT DEF Unlock, IInv, NothingLost
<1> QED BY <1>5, <1>6, <1>7, <1>8 DEF IInv

\* Every step keeps the inductive invariant.
LEMMA NextKeeps == IInv /\ [Next]_vars => IInv'
<1> SUFFICES ASSUME IInv, [Next]_vars PROVE IInv'
    OBVIOUS
<1>1. CASE Next
  <2> PICK t \in Tasks : Step(t)
      BY <1>1 DEF Next
  <2> QED BY LockKeeps, WaitLoadKeeps, WaitSwapKeeps, ReadKeeps, WriteKeeps, UnlockKeeps DEF Step
<1>2. CASE UNCHANGED vars
      BY <1>2, SMT DEF vars, IInv, TypeOK, Exclusive, Guarded, NothingLost, Inside
<1> QED BY <1>1, <1>2

\* The inductive invariant holds in every reachable state.
THEOREM Invariance == Spec => []IInv
BY InitIInv, NextKeeps, PTL DEF Spec

\* Every reachable state of the lock word is well typed: the word is 0 or 1,
\* and every release names an update that was made.
THEOREM TypeCorrect == Spec => []TypeOK
<1>1. IInv => TypeOK
      BY DEF IInv
<1> QED BY <1>1, Invariance, PTL

\* Mutual exclusion (lock, nish_mutex_wait), for any number of tasks.
THEOREM MutualExclusion == Spec => []Exclusive
<1>1. IInv => Exclusive
      BY DEF IInv
<1> QED BY <1>1, Invariance, PTL

\* The acquire and release of the word carry every update of the guarded data
\* to the next holder, for any number of tasks and rounds.
THEOREM NoUpdateLost == Spec => []NothingLost
<1>1. IInv => NothingLost
      BY DEF IInv
<1> QED BY <1>1, Invariance, PTL
=============================================================================
