---------------------------- MODULE ReuseProofs -----------------------------
(***************************************************************************)
(* Proofs about the tables and caches whose entries are used again: the    *)
(* handles of shared-memory regions, the table of memory regions, the calls *)
(* of a pool to an origin, the lookups of the resolver and the build       *)
(* caches, for any number of threads, slots, generations, connections,     *)
(* servers, names, compilers and programs.                                 *)
(***************************************************************************)
EXTENDS MCReuse, FiniteSetTheorems, SequenceTheorems, WellFoundedInduction, TLAPS

\* A call under way has its object, and adopts only one that has its size.
CallInv ==
  \A t \in Threads :
    /\ call[t].at # "idle" => call[t].obj \in 1..objects
    /\ call[t].at = "adopt" => call[t].obj \in sized

\* A slot that holds a mapping has a generation a handle can carry, and is not
\* yet at the one that retires it.
SlotInv ==
  \A t \in Threads, i \in Index :
    table[t][i].base # None => table[t][i].gen \in 1..(GenMax - 1)

\* A handle's generation is never ahead of its slot's, and only while it is
\* the slot's own does the slot hold the handle's mapping.
HandleInv ==
  \A x \in issued :
    LET s == table[x.thread][x.handle[2]]
    IN  x.handle[1] <= s.gen /\ (x.handle[1] = s.gen => s.base = x.map)

\* A header whose data is in a mapping is on the mapping's list and lent, so
\* that closing the mapping finds it.
WindowInv ==
  \A t \in Threads, w \in Windows :
    win[t][w].data = "region" => win[t][w].listed /\ win[t][w].lent

\* The inductive invariant.
IInv == HandlesSound /\ CallInv /\ SlotInv /\ HandleInv /\ WindowInv
-----------------------------------------------------------------------------
\* slot_take's first usable slot is one of the usable slots.
LEMMA MinIsMember ==
  ASSUME NEW S \in SUBSET Nat, S # {}
  PROVE  Min(S) \in S
<1> DEFINE R == OpToRel(<, Nat)
<1>1. PICK x \in S : \A y \in S : ~(<<y, x>> \in R)
      BY NatLessThanWellFounded, WFMin
<1>2. \A y \in S : x =< y
  <2> SUFFICES ASSUME NEW y \in S PROVE x =< y
      OBVIOUS
  <2>1. ~(<<y, x>> \in R)
        BY <1>1
  <2>2. ~(y < x)
        BY <2>1 DEF OpToRel
  <2> QED BY <2>2, SMT
<1> QED BY <1>2 DEF Min

\* The invariant holds of an empty table.
LEMMA InitIInv == Init => IInv
BY GenAssumption, BoundsAssumption, SlotsAssumption, SMT
DEF Init, IInv, HandlesSound, TypeOK, HandleNamesItsMapping, NoDanglingWindow, OnlyWholeRegions,
    CallInv, SlotInv, HandleInv, WindowInv, Idle, NewTable, NoWindow, None, Index, Handles
-----------------------------------------------------------------------------
\* The system calls of create and open: they touch the name and the call under
\* way, and an object gets its size before its creator adopts it.
LEMMA CallsKeepIInv ==
  ASSUME IInv, NEW t \in Threads,
         CreateName(t) \/ CreateSize(t) \/ OpenName(t) \/ OpenStat(t) \/ Unlink(t)
  PROVE  IInv'
<1> USE GenAssumption, BoundsAssumption, SlotsAssumption DEF None
<1>a. /\ TypeOK /\ HandleNamesItsMapping /\ NoDanglingWindow /\ OnlyWholeRegions
      /\ CallInv /\ SlotInv /\ HandleInv /\ WindowInv
      BY DEF IInv, HandlesSound
<1>c. call \in [Threads -> [at : {"idle", "made", "opened", "adopt"}, obj : 0..MaxObjects]]
      BY <1>a DEF TypeOK
<1>o. name \in 0..objects /\ sized \subseteq 1..objects /\ objects \in 0..MaxObjects
      BY <1>a DEF TypeOK
<1>t. table \in [Threads -> [Index -> [gen : 0..GenMax, base : 0..maps]]] /\ maps \in 0..MaxMaps
      BY <1>a DEF TypeOK
<1>i. issued \subseteq [thread : Threads, handle : Handles, map : 1..maps, obj : 1..objects]
      BY <1>a DEF TypeOK
<1>w. win \in [Threads -> [Windows -> [map : 0..maps, listed : BOOLEAN,
                                      data : {"none", "region", "own"}, lent : BOOLEAN]]]
      BY <1>a DEF TypeOK
<1>0. UNCHANGED <<table, maps, issued, win>> /\ sized \subseteq sized'
      BY SMT DEF CreateName, CreateSize, OpenName, OpenStat, Unlink
<1>1. objects' \in 0..MaxObjects /\ objects <= objects' /\ name' \in 0..objects' /\ sized' \subseteq 1..objects'
  <2>1. CASE CreateName(t)
        BY <2>1, <1>o, SMT DEF CreateName
  <2>2. CASE CreateSize(t)
    <3>1. call[t].obj \in 1..objects
          BY <2>2, <1>a DEF CreateSize, CallInv
    <3>2. objects' = objects /\ name' \in {name, 0} /\ sized' \subseteq sized \cup {call[t].obj}
          BY <2>2 DEF CreateSize
    <3>3. sized' \subseteq 1..objects'
          BY <3>1, <3>2, <1>o
    <3> QED BY <3>2, <3>3, <1>o, SMT
  <2>3. CASE OpenName(t) \/ OpenStat(t) \/ Unlink(t)
    <3>1. objects' = objects /\ sized' = sized /\ name' \in {name, 0}
          BY <2>3 DEF OpenName, OpenStat, Unlink
    <3> QED BY <3>1, <1>o, SMT
  <2> QED BY <2>1, <2>2, <2>3
<1>2. /\ call' \in [Threads -> [at : {"idle", "made", "opened", "adopt"}, obj : 0..MaxObjects]]
      /\ CallInv'
  <2>1. CASE CreateName(t)
        BY <2>1, <1>a, <1>c, <1>o, <1>1, SMT DEF CreateName, SetCall, CallInv
  <2>2. CASE CreateSize(t)
        BY <2>2, <1>a, <1>c, <1>o, <1>1, SMT DEF CreateSize, SetCall, CallInv
  <2>3. CASE OpenName(t)
        BY <2>3, <1>a, <1>c, <1>o, <1>1, SMT DEF OpenName, SetCall, CallInv
  <2>4. CASE OpenStat(t)
        BY <2>4, <1>a, <1>c, <1>o, <1>1, SMT DEF OpenStat, SetCall, Acceptable, CallInv
  <2>5. CASE Unlink(t)
        BY <2>5, <1>a, <1>c, <1>o, <1>1, SMT DEF Unlink, CallInv
  <2> QED BY <2>1, <2>2, <2>3, <2>4, <2>5
<1>3. TypeOK'
  <2>1. 1..objects \subseteq 1..objects'
        BY <1>1, <1>o, SMT
  <2>2. issued' \subseteq [thread : Threads, handle : Handles, map : 1..maps', obj : 1..objects']
        BY <2>1, <1>0, <1>i
  <2> QED BY <2>2, <1>0, <1>1, <1>2, <1>t, <1>w DEF TypeOK
<1>4. SlotInv' /\ HandleInv' /\ WindowInv'
      BY <1>0, <1>a, SMT DEF SlotInv, HandleInv, WindowInv
<1>5. HandleNamesItsMapping' /\ NoDanglingWindow'
      BY <1>0, <1>a, SMT DEF HandleNamesItsMapping, NoDanglingWindow, RegionOf, Mapped
<1>6. OnlyWholeRegions'
      BY <1>0, <1>a, SMT DEF OnlyWholeRegions
<1> QED BY <1>2, <1>3, <1>4, <1>5, <1>6 DEF IInv, HandlesSound

\* What an assignment to one entry of a thread's table or windows does.
LEMMA UpdateType ==
  ASSUME NEW T, NEW I, NEW S, NEW f \in [T -> [I -> S]], NEW t \in T, NEW i \in I, NEW s \in S
  PROVE  [f EXCEPT ![t][i] = s] \in [T -> [I -> S]]
OBVIOUS

\* A table of tables updated at one place.
LEMMA UpdateAt ==
  ASSUME NEW T, NEW I, NEW S, NEW f \in [T -> [I -> S]], NEW t \in T, NEW i \in I, NEW s,
         NEW u \in T, NEW j \in I
  PROVE  [f EXCEPT ![t][i] = s][u][j] = IF u = t /\ j = i THEN s ELSE f[u][j]
OBVIOUS

\* The mappings made only grow in number.
LEMMA WindowsGrow ==
  ASSUME NEW m \in Nat, NEW f, 
         f \in [Threads -> [Windows -> [map : 0..m, listed : BOOLEAN,
                                      data : {"none", "region", "own"}, lent : BOOLEAN]]]
  PROVE  f \in [Threads -> [Windows -> [map : 0..(m + 1), listed : BOOLEAN,
                                      data : {"none", "region", "own"}, lent : BOOLEAN]]]
<1>1. 0..m \subseteq 0..(m + 1)
      BY SMT
<1> DEFINE W(n) == [map : 0..n, listed : BOOLEAN, data : {"none", "region", "own"}, lent : BOOLEAN]
<1>2. W(m) \subseteq W(m + 1)
      BY <1>1
<1> HIDE DEF W
<1>3. [Threads -> [Windows -> W(m)]] \subseteq [Threads -> [Windows -> W(m + 1)]]
      BY <1>2
<1> QED BY <1>3 DEF W

\* Adopting: the slot is free, so every handle handed out for it before has an
\* older generation and stays dead when the slot is used again.
LEMMA AdoptKeepsIInv ==
  ASSUME IInv, NEW t \in Threads, Adopt(t)
  PROVE  IInv'
<1> USE GenAssumption, BoundsAssumption, SlotsAssumption DEF None
<1>a. /\ TypeOK /\ HandleNamesItsMapping /\ NoDanglingWindow /\ OnlyWholeRegions
      /\ CallInv /\ SlotInv /\ HandleInv /\ WindowInv
      BY DEF IInv, HandlesSound
<1>c. call \in [Threads -> [at : {"idle", "made", "opened", "adopt"}, obj : 0..MaxObjects]]
      BY <1>a DEF TypeOK
<1>o. name \in 0..objects /\ sized \subseteq 1..objects /\ objects \in 0..MaxObjects
      BY <1>a DEF TypeOK
<1>t. table \in [Threads -> [Index -> [gen : 0..GenMax, base : 0..maps]]] /\ maps \in 0..MaxMaps
      BY <1>a DEF TypeOK
<1>i. issued \subseteq [thread : Threads, handle : Handles, map : 1..maps, obj : 1..objects]
      BY <1>a DEF TypeOK
<1>w. win \in [Threads -> [Windows -> [map : 0..maps, listed : BOOLEAN,
                                      data : {"none", "region", "own"}, lent : BOOLEAN]]]
      BY <1>a DEF TypeOK
<1>0. UNCHANGED <<name, sized, objects, win>>
      BY DEF Adopt
<1>1. /\ call' \in [Threads -> [at : {"idle", "made", "opened", "adopt"}, obj : 0..MaxObjects]]
      /\ CallInv'
      BY <1>a, <1>c, <1>0, SMT DEF Adopt, SetCall, CallInv
<1>2. call[t].obj \in 1..objects /\ call[t].obj \in sized
      BY <1>a, SMT DEF Adopt, CallInv
<1>3. CASE \A i \in Index : ~Usable(t, i)
  <2>1. UNCHANGED <<table, maps, issued>>
        BY <1>3 DEF Adopt
  <2>2. TypeOK'
        BY <2>1, <1>0, <1>1, <1>o, <1>t, <1>i, <1>w DEF TypeOK
  <2>3. SlotInv' /\ HandleInv' /\ WindowInv'
        BY <2>1, <1>0, <1>a DEF SlotInv, HandleInv, WindowInv
  <2>4. HandleNamesItsMapping' /\ NoDanglingWindow' /\ OnlyWholeRegions'
        BY <2>1, <1>0, <1>a DEF HandleNamesItsMapping, NoDanglingWindow, OnlyWholeRegions, RegionOf, Mapped
  <2> QED BY <2>2, <2>3, <2>4, <1>1 DEF IInv, HandlesSound
<1>4. CASE ~(\A i \in Index : ~Usable(t, i))
  <2>1. PICK i \in Index :
          /\ Usable(t, i)
          /\ LET gen == IF table[t][i].gen = 0 THEN 1 ELSE table[t][i].gen
             IN  \/ /\ table' = [table EXCEPT ![t][i] = [gen |-> gen, base |-> maps + 1]]
                    /\ maps' = maps + 1
                    /\ issued' = issued \cup {[thread |-> t, handle |-> <<gen, i>>,
                                               map |-> maps + 1, obj |-> call[t].obj]}
                 \/ /\ table' = [table EXCEPT ![t][i].gen = gen]
                    /\ UNCHANGED <<maps, issued>>
    <3> DEFINE U == {j \in Index : Usable(t, j)}
    <3>1. U \in SUBSET Nat /\ U # {}
          BY <1>4, SlotsAssumption DEF Index
    <3>2. Min(U) \in Index /\ Usable(t, Min(U))
          BY <3>1, MinIsMember
    <3> QED BY <3>2, <1>4 DEF Adopt
  <2> DEFINE gen == IF table[t][i].gen = 0 THEN 1 ELSE table[t][i].gen
  <2>2. \/ /\ table' = [table EXCEPT ![t][i] = [gen |-> gen, base |-> maps + 1]]
           /\ maps' = maps + 1
           /\ issued' = issued \cup {[thread |-> t, handle |-> <<gen, i>>,
                                      map |-> maps + 1, obj |-> call[t].obj]}
        \/ /\ table' = [table EXCEPT ![t][i].gen = gen]
           /\ UNCHANGED <<maps, issued>>
        BY <2>1
  <2>3. /\ table[t][i].base = 0 /\ table[t][i].gen \in 0..(GenMax - 1)
        /\ gen \in 1..(GenMax - 1) /\ table[t][i].gen <= gen /\ maps \in 0..MaxMaps
    <3>1. table[t][i] \in [gen : 0..GenMax, base : 0..maps]
          BY <1>t
    <3>2. table[t][i].gen \in 0..GenMax /\ table[t][i].base = 0 /\ table[t][i].gen < GenMax
          BY <2>1, <3>1 DEF Usable
    <3> QED BY <3>2, <1>t, SMT
  \* No handle of this slot carries the generation it now gets.
  <2>4. \A x \in issued : x.thread = t /\ x.handle[2] = i => x.handle[1] < gen
    <3> SUFFICES ASSUME NEW x \in issued, x.thread = t, x.handle[2] = i
                 PROVE  x.handle[1] < gen
        OBVIOUS
    <3>1. x.handle[1] \in 1..GenMax /\ x.map \in 1..maps
          BY <1>i, SMT DEF Handles
    <3>2. x.handle[1] <= table[t][i].gen /\ (x.handle[1] = table[t][i].gen => table[t][i].base = x.map)
          BY <1>a DEF HandleInv
    <3> QED BY <3>1, <3>2, <2>3, SMT
  <2> HIDE DEF gen
  <2>5. /\ table' \in [Threads -> [Index -> [gen : 0..GenMax, base : 0..maps']]]
        /\ \A u \in Threads, j \in Index : u # t \/ j # i => table'[u][j] = table[u][j]
        /\ table'[t][i].gen = gen
    <3> DEFINE Slot == [gen : 0..GenMax, base : 0..maps']
    <3>1. table \in [Threads -> [Index -> Slot]]
      <4>1. 0..maps \subseteq 0..maps'
            BY <2>2, <2>3, SMT
      <4> QED BY <4>1, <1>t
    <3>2. PICK s \in Slot : table' = [table EXCEPT ![t][i] = s] /\ s.gen = gen
      <4>1. CASE table' = [table EXCEPT ![t][i] = [gen |-> gen, base |-> maps + 1]] /\ maps' = maps + 1
        <5>1. [gen |-> gen, base |-> maps + 1] \in Slot
              BY <4>1, <2>3, SMT
        <5> QED BY <4>1, <5>1
      <4>2. CASE table' = [table EXCEPT ![t][i].gen = gen]
        <5> DEFINE s == [table[t][i] EXCEPT !.gen = gen]
        <5>1. table[t][i] \in Slot
              BY <3>1
        <5>2. s \in Slot /\ s.gen = gen
              BY <5>1, <2>3, SMT
        <5> QED BY <4>2, <5>2
      <4> QED BY <4>1, <4>2, <2>2
    <3> HIDE DEF Slot
    <3>3. table' \in [Threads -> [Index -> Slot]]
          BY <3>1, <3>2, UpdateType
    <3>4. \A u \in Threads, j \in Index : table'[u][j] = IF u = t /\ j = i THEN s ELSE table[u][j]
          BY <3>1, <3>2, UpdateAt
    <3> QED BY <3>2, <3>3, <3>4 DEF Slot
  <2>6. \A u \in Threads : Mapped(u) \subseteq Mapped(u)'
    <3> SUFFICES ASSUME NEW u \in Threads, NEW j \in Index, table[u][j].base # 0
                 PROVE  \E k \in Index : table'[u][k].base = table[u][j].base
        BY DEF Mapped
    <3>1. ~(u = t /\ j = i)
          BY <2>3
    <3>2. table'[u][j] = table[u][j]
          BY <3>1, <2>5
    <3> QED BY <3>2
  <2>7. \A u \in Threads, j \in Index :
          table'[u][j].gen = gen \/ table'[u][j] = table[u][j]
        BY <2>5
  <2>8. CASE /\ table' = [table EXCEPT ![t][i] = [gen |-> gen, base |-> maps + 1]]
             /\ maps' = maps + 1
             /\ issued' = issued \cup {[thread |-> t, handle |-> <<gen, i>>,
                                        map |-> maps + 1, obj |-> call[t].obj]}
    <3>1. maps' \in 0..MaxMaps
          BY <2>8, <2>3, SMT DEF Adopt
    <3>2. table'[t][i].base = maps + 1
      <4>1. table'[t][i] = [gen |-> gen, base |-> maps + 1]
            BY <2>8, <1>t, UpdateAt
      <4> QED BY <4>1
    <3>3. issued' \subseteq [thread : Threads, handle : Handles, map : 1..maps', obj : 1..objects']
      <4>1. 1..maps \subseteq 1..maps' /\ maps + 1 \in 1..maps' /\ gen \in 1..GenMax
            BY <2>8, <2>3, SMT
      <4> QED BY <4>1, <2>8, <1>0, <1>2, <1>i DEF Handles
    <3>11. win' \in [Threads -> [Windows -> [map : 0..maps', listed : BOOLEAN,
                                      data : {"none", "region", "own"}, lent : BOOLEAN]]]
          BY <2>8, <1>0, <1>w, <1>t, WindowsGrow
    <3>4. TypeOK'
          BY <3>1, <2>5, <3>3, <3>11, <1>0, <1>1, <1>o DEF TypeOK
    <3>5. SlotInv'
          BY <2>7, <2>3, <1>a DEF SlotInv
    <3>6. HandleInv'
      <4> SUFFICES ASSUME NEW x \in issued'
                   PROVE  /\ x.handle[1] <= table'[x.thread][x.handle[2]].gen
                          /\ x.handle[1] = table'[x.thread][x.handle[2]].gen
                               => table'[x.thread][x.handle[2]].base = x.map
          BY DEF HandleInv
      <4>1. CASE x \in issued
        <5>1. x.thread \in Threads /\ x.handle[1] \in 1..GenMax /\ x.handle[2] \in Index
              BY <4>1, <1>i DEF Handles
        <5>2. CASE x.thread = t /\ x.handle[2] = i
              BY <4>1, <5>1, <5>2, <2>5, <2>4, <2>3, SMT
        <5>3. CASE ~(x.thread = t /\ x.handle[2] = i)
              BY <4>1, <5>1, <5>3, <2>5, <1>a DEF HandleInv
        <5> QED BY <5>2, <5>3
      <4>2. CASE x \notin issued
        <5>1. x.thread = t /\ x.handle[1] = gen /\ x.handle[2] = i /\ x.map = maps + 1
              BY <4>2, <2>8
        <5> QED BY <5>1, <2>5, <3>2, <2>3, SMT
      <4> QED BY <4>1, <4>2
    <3>7. OnlyWholeRegions'
          BY <2>8, <1>0, <1>2, <1>a, SMT DEF OnlyWholeRegions
    <3>8. NoDanglingWindow'
          BY <2>6, <1>0, <1>a DEF NoDanglingWindow
    <3>9. WindowInv'
          BY <1>0, <1>a DEF WindowInv
    <3>10. HandleNamesItsMapping'
          BY <3>3, <3>6, SMT DEF HandleInv, HandleNamesItsMapping, RegionOf
    <3> QED BY <1>1, <3>4, <3>5, <3>6, <3>7, <3>8, <3>9, <3>10 DEF IInv, HandlesSound
  <2>9. CASE /\ table' = [table EXCEPT ![t][i].gen = gen]
             /\ UNCHANGED <<maps, issued>>
    <3>4. TypeOK'
          BY <2>9, <2>5, <1>0, <1>1, <1>o, <1>t, <1>i, <1>w DEF TypeOK
    <3>5. SlotInv'
          BY <2>7, <2>3, <1>a DEF SlotInv
    <3>6. HandleInv'
      <4> SUFFICES ASSUME NEW x \in issued
                   PROVE  /\ x.handle[1] <= table'[x.thread][x.handle[2]].gen
                          /\ x.handle[1] = table'[x.thread][x.handle[2]].gen
                               => table'[x.thread][x.handle[2]].base = x.map
          BY <2>9 DEF HandleInv
      <4>1. x.thread \in Threads /\ x.handle[1] \in 1..GenMax /\ x.handle[2] \in Index
            BY <1>i DEF Handles
      <4>2. CASE x.thread = t /\ x.handle[2] = i
            BY <4>1, <4>2, <2>5, <2>4, <2>3, SMT
      <4>3. CASE ~(x.thread = t /\ x.handle[2] = i)
            BY <4>1, <4>3, <2>5, <1>a DEF HandleInv
      <4> QED BY <4>2, <4>3
    <3>7. OnlyWholeRegions'
          BY <2>9, <1>0, <1>a, SMT DEF OnlyWholeRegions
    <3>8. NoDanglingWindow'
          BY <2>6, <1>0, <1>a DEF NoDanglingWindow
    <3>9. WindowInv'
          BY <1>0, <1>a DEF WindowInv
    <3>10. HandleNamesItsMapping'
          BY <2>9, <1>i, <3>6, SMT DEF HandleInv, HandleNamesItsMapping, RegionOf
    <3> QED BY <1>1, <3>4, <3>5, <3>6, <3>7, <3>8, <3>9, <3>10 DEF IInv, HandlesSound
  <2> QED BY <2>2, <2>8, <2>9
<1> QED BY <1>3, <1>4

-----------------------------------------------------------------------------
Window == [map : 0..maps, listed : BOOLEAN, data : {"none", "region", "own"}, lent : BOOLEAN]

\* The program's headers: only lend points one into a mapping, and it is then on
\* the mapping's list.
LEMMA WindowStepKeepsIInv ==
  ASSUME IInv, NEW t \in Threads, NEW w \in Windows, NEW x \in Window,
         win' = [win EXCEPT ![t][w] = x],
         UNCHANGED <<name, sized, objects, call, table, maps, issued>>,
         x.data = "region" => x.listed /\ x.lent /\ x.map \in Mapped(t)
  PROVE  IInv'
<1>a. /\ TypeOK /\ HandleNamesItsMapping /\ NoDanglingWindow /\ OnlyWholeRegions
      /\ CallInv /\ SlotInv /\ HandleInv /\ WindowInv
      BY DEF IInv, HandlesSound
<1>1. win \in [Threads -> [Windows -> Window]]
      BY <1>a DEF TypeOK, Window
<1>2. win' \in [Threads -> [Windows -> Window]]
      BY <1>1, UpdateType
<1>3. \A u \in Threads, v \in Windows : win'[u][v] = IF u = t /\ v = w THEN x ELSE win[u][v]
      BY <1>1, UpdateAt
<1>4. TypeOK'
      BY <1>2, <1>a DEF TypeOK, Window
<1>5. WindowInv'
      BY <1>3, <1>a DEF WindowInv
<1>6. NoDanglingWindow'
  <2>1. \A u \in Threads : Mapped(u)' = Mapped(u)
        BY DEF Mapped
  <2> QED BY <2>1, <1>3, <1>a DEF NoDanglingWindow
<1>7. HandleNamesItsMapping' /\ OnlyWholeRegions' /\ CallInv' /\ SlotInv' /\ HandleInv'
      BY <1>a DEF HandleNamesItsMapping, OnlyWholeRegions, CallInv, SlotInv, HandleInv, RegionOf
<1> QED BY <1>4, <1>5, <1>6, <1>7 DEF IInv, HandlesSound

\* A handle that is good names a mapping of the thread's table.
LEMMA RegionIsMapped ==
  ASSUME TypeOK, NEW t \in Threads, NEW h \in Handles, RegionOf(t, h) # None
  PROVE  /\ RegionOf(t, h) \in Mapped(t) /\ RegionOf(t, h) \in 0..maps
         /\ table[t][h[2]].base = RegionOf(t, h) /\ h[2] \in Index
<1>1. h[2] \in Index
      BY DEF Handles
<1>2. table[t][h[2]].base \in 0..maps
      BY <1>1 DEF TypeOK
<1>3. table[t][h[2]].base = RegionOf(t, h)
      BY DEF RegionOf
<1> QED BY <1>1, <1>2, <1>3 DEF Mapped

\* Lending a region to a window, and giving it back, keep the invariant.
LEMMA LendKeepsIInv ==
  ASSUME IInv, NEW t \in Threads, NEW h \in Handles, NEW w \in Windows,
         Lend(t, h, w) \/ GiveBack(t, h, w)
  PROVE  IInv'
<1>a. /\ TypeOK /\ HandleNamesItsMapping /\ NoDanglingWindow /\ OnlyWholeRegions
      /\ CallInv /\ SlotInv /\ HandleInv /\ WindowInv
      BY DEF IInv, HandlesSound
<1>w. win[t][w] \in Window
      BY <1>a DEF TypeOK, Window
<1>u. UNCHANGED <<name, sized, objects, call, table, maps, issued>>
      BY DEF Lend, GiveBack
<1>1. CASE Lend(t, h, w)
  <2> DEFINE x == [map |-> RegionOf(t, h), listed |-> TRUE, data |-> "region", lent |-> TRUE]
  <2>1. RegionOf(t, h) \in Mapped(t) /\ RegionOf(t, h) \in 0..maps
        BY <1>1, <1>a, RegionIsMapped DEF Lend
  <2>2. x \in Window
        BY <2>1 DEF Window
  <2>3. win' = [win EXCEPT ![t][w] = x]
        BY <1>1 DEF Lend
  <2>4. x.listed /\ x.lent /\ x.map \in Mapped(t)
        BY <2>1
  <2> HIDE DEF x
  <2> QED BY <2>2, <2>3, <2>4, <1>u, WindowStepKeepsIInv
<1>2. CASE GiveBack(t, h, w)
  <2> DEFINE x == [[win[t][w] EXCEPT !.data = "none"] EXCEPT !.lent = FALSE]
  <2>1. x \in Window /\ x.data = "none"
        BY <1>w DEF Window
  <2>2. win' = [win EXCEPT ![t][w] = x]
        BY <1>2, <1>a DEF GiveBack, TypeOK
  <2> HIDE DEF x
  <2> QED BY <2>1, <2>2, <1>u, WindowStepKeepsIInv
<1> QED BY <1>1, <1>2

\* A push that moves a window's data to memory of its own keeps it.
LEMMA PushKeepsIInv ==
  ASSUME IInv, NEW t \in Threads, NEW w \in Windows, Push(t, w)
  PROVE  IInv'
<1> DEFINE x == [win[t][w] EXCEPT !.data = "own"]
<1>1. win[t][w] \in Window
      BY DEF IInv, HandlesSound, TypeOK, Window
<1>2. x \in Window /\ x.data = "own"
      BY <1>1 DEF Window
<1>3. win' = [win EXCEPT ![t][w] = x] /\ UNCHANGED <<name, sized, objects, call, table, maps, issued>>
      BY DEF Push
<1> HIDE DEF x
<1> QED BY <1>2, <1>3, WindowStepKeepsIInv

\* Closing: the slot's generation moves on, so every handle of it is dead, and
\* every header on the mapping is on its list, so none points there any more.
LEMMA CloseKeepsIInv ==
  ASSUME IInv, NEW t \in Threads, NEW h \in Handles, Close(t, h)
  PROVE  IInv'
<1> USE GenAssumption DEF None
<1>a. /\ TypeOK /\ HandleNamesItsMapping /\ NoDanglingWindow /\ OnlyWholeRegions
      /\ CallInv /\ SlotInv /\ HandleInv /\ WindowInv
      BY DEF IInv, HandlesSound
<1> DEFINE map == RegionOf(t, h)
           k == h[2]
           s == [gen |-> table[t][k].gen + 1, base |-> 0]
           Slot == [gen : 0..GenMax, base : 0..maps]
<1>0. UNCHANGED <<name, sized, objects, call, maps, issued>>
      BY DEF Close
<1>1. map # 0 /\ k \in Index /\ table[t][k].base = map
      BY <1>a, RegionIsMapped DEF Close
<1>t. table \in [Threads -> [Index -> Slot]] /\ maps \in Nat
      BY <1>a DEF TypeOK
<1>2. table[t][k].gen \in 1..(GenMax - 1)
      BY <1>1, <1>a DEF SlotInv
<1>3. s \in Slot
      BY <1>2, <1>t, SMT
<1>4. table' = [table EXCEPT ![t][k] = s]
      BY DEF Close, NextGen
<1>5. table' \in [Threads -> [Index -> Slot]]
      BY <1>1, <1>3, <1>4, <1>t, UpdateType
<1> HIDE DEF Slot
<1>6. \A u \in Threads, j \in Index : table'[u][j] = IF u = t /\ j = k THEN s ELSE table[u][j]
      BY <1>1, <1>4, <1>t, UpdateAt
<1>w. win \in [Threads -> [Windows -> Window]]
      BY <1>a DEF TypeOK, Window
<1>7. \A u \in Threads : u # t => win'[u] = win[u]
      BY <1>w DEF Close
<1> DEFINE Left(x) == IF Emptied(x) THEN "none" ELSE x.data
<1>8. \A w \in Windows :
        win'[t][w] = IF ~WindowOf(t, map, w) THEN win[t][w]
                     ELSE [map |-> map, listed |-> FALSE, lent |-> FALSE, data |-> Left(win[t][w])]
      BY <1>w DEF Close
<1>9. win' \in [Threads -> [Windows -> Window]]
  <2>1. DOMAIN win' = Threads /\ win' = [u \in Threads |-> win'[u]] /\ \A u \in Threads : DOMAIN win'[u] = Windows /\ win'[u] = [w \in Windows |-> win'[u][w]]
        BY <1>w DEF Close
  <2>2. \A w \in Windows : win[t][w] \in Window /\ map \in 0..maps
        BY <1>w, <1>a, RegionIsMapped DEF Close
  <2>3. \A w \in Windows : win'[t][w] \in Window
    <3> SUFFICES ASSUME NEW w \in Windows PROVE win'[t][w] \in Window
        OBVIOUS
    <3>1. Left(win[t][w]) \in {"none", "region", "own"}
          BY <2>2 DEF Window
    <3> HIDE DEF Left, map
    <3>2. [map |-> map, listed |-> FALSE, lent |-> FALSE, data |-> Left(win[t][w])] \in Window
          BY <2>2, <3>1 DEF Window
    <3> QED BY <2>2, <3>2, <1>8
  <2>4. \A u \in Threads : win'[u] \in [Windows -> Window]
        BY <2>1, <2>3, <1>7, <1>w
  <2> QED BY <2>1, <2>4
<1>10. TypeOK'
      BY <1>0, <1>5, <1>9, <1>a DEF TypeOK, Window, Slot
<1>11. SlotInv'
      BY <1>6, <1>a DEF SlotInv
<1>12. HandleInv'
  <2> SUFFICES ASSUME NEW x \in issued
               PROVE  /\ x.handle[1] <= table'[x.thread][x.handle[2]].gen
                      /\ x.handle[1] = table'[x.thread][x.handle[2]].gen
                           => table'[x.thread][x.handle[2]].base = x.map
      BY <1>0 DEF HandleInv
  <2>1. x.thread \in Threads /\ x.handle[1] \in 1..GenMax /\ x.handle[2] \in Index
        BY <1>a DEF TypeOK, Handles
  <2>2. /\ x.handle[1] <= table[x.thread][x.handle[2]].gen
        /\ x.handle[1] = table[x.thread][x.handle[2]].gen => table[x.thread][x.handle[2]].base = x.map
        BY <1>a DEF HandleInv
  <2>3. CASE x.thread = t /\ x.handle[2] = k
        BY <2>1, <2>2, <2>3, <1>6, <1>2, SMT
  <2>4. CASE ~(x.thread = t /\ x.handle[2] = k)
        BY <2>1, <2>2, <2>4, <1>6
  <2> QED BY <2>3, <2>4
<1>13. HandleNamesItsMapping'
      BY <1>12 DEF HandleInv, HandleNamesItsMapping, RegionOf
<1>14. WindowInv' /\ NoDanglingWindow'
  <2> SUFFICES ASSUME NEW u \in Threads, NEW w \in Windows, win'[u][w].data = "region"
               PROVE  win'[u][w].listed /\ win'[u][w].lent /\ win'[u][w].map \in Mapped(u)'
      BY DEF WindowInv, NoDanglingWindow
  <2>1. /\ win'[u][w] = win[u][w]
        /\ u = t => win[u][w].map # map
    <3>1. CASE u # t
          BY <3>1, <1>7
    <3>2. CASE u = t /\ ~WindowOf(t, map, w)
      <4>1. win'[u][w] = win[u][w]
            BY <3>2, <1>8
      <4>2. win[t][w].listed
            BY <3>2, <4>1, <1>a DEF WindowInv
      <4> QED BY <3>2, <4>1, <4>2 DEF WindowOf
    <3>3. CASE u = t /\ WindowOf(t, map, w)
      <4>1. win'[u][w].data = Left(win[t][w])
        <5> HIDE DEF Left, map
        <5>1. win'[t][w] = [map |-> map, listed |-> FALSE, lent |-> FALSE, data |-> Left(win[t][w])]
              BY <3>3, <1>8
        <5> QED BY <3>3, <5>1
      <4>2. win[t][w].data = "region"
            BY <4>1
      <4>3. Emptied(win[t][w])
            BY <4>2, <1>a DEF WindowInv, Emptied
      <4> QED BY <4>1, <4>3
    <3> QED BY <3>1, <3>2, <3>3
  <2>2. win[u][w].listed /\ win[u][w].lent /\ win[u][w].map \in Mapped(u)
        BY <2>1, <1>a DEF WindowInv, NoDanglingWindow
  <2>3. PICK j \in Index : table[u][j].base = win[u][w].map /\ win[u][w].map # 0
        BY <2>2 DEF Mapped
  <2>4. ~(u = t /\ j = k)
        BY <2>1, <2>3, <1>1
  <2>5. table'[u][j] = table[u][j]
        BY <2>4, <1>6
  <2> QED BY <2>1, <2>2, <2>3, <2>5 DEF Mapped
<1> QED BY <1>0, <1>10, <1>11, <1>12, <1>13, <1>14, <1>a
    DEF IInv, HandlesSound, OnlyWholeRegions, CallInv

\* A process that dies takes its handles and its headers along.
LEMMA RestartKeepsIInv ==
  ASSUME IInv, NEW t \in Threads, Restart(t)
  PROVE  IInv'
<1> USE GenAssumption, BoundsAssumption DEF None
<1>a. /\ TypeOK /\ HandleNamesItsMapping /\ NoDanglingWindow /\ OnlyWholeRegions
      /\ CallInv /\ SlotInv /\ HandleInv /\ WindowInv
      BY DEF IInv, HandlesSound
<1>0. UNCHANGED <<name, sized, objects, maps>> /\ issued' = {x \in issued : x.thread # t}
      BY DEF Restart
<1>1. /\ call' \in [Threads -> [at : {"idle", "made", "opened", "adopt"}, obj : 0..MaxObjects]]
      /\ table' \in [Threads -> [Index -> [gen : 0..GenMax, base : 0..maps']]]
      /\ win' \in [Threads -> [Windows -> Window']]
  <2>1. Idle \in [at : {"idle", "made", "opened", "adopt"}, obj : 0..MaxObjects]
        BY SMT DEF Idle
  <2>2. maps \in Nat /\ maps' = maps
        BY <1>0, <1>a DEF TypeOK
  <2>3. NewTable \in [Index -> [gen : 0..GenMax, base : 0..maps]]
        BY <2>2, SMT DEF NewTable
  <2>4. [w \in Windows |-> NoWindow] \in [Windows -> Window]
        BY <2>2, SMT DEF NoWindow, Window
  <2> QED BY <2>1, <2>2, <2>3, <2>4, <1>a DEF Restart, TypeOK, Window
<1>2. TypeOK'
      BY <1>0, <1>1, <1>a DEF TypeOK, Window
<1>3. /\ call'[t] = Idle /\ table'[t] = NewTable /\ win'[t] = [w \in Windows |-> NoWindow]
      /\ \A u \in Threads : u # t => call'[u] = call[u] /\ table'[u] = table[u] /\ win'[u] = win[u]
      BY <1>a DEF Restart, TypeOK
<1>4. CallInv'
      BY <1>0, <1>3, <1>a DEF CallInv, Idle
<1>5. SlotInv'
      BY <1>3, <1>a DEF SlotInv, NewTable
<1>6. WindowInv' /\ NoDanglingWindow'
      BY <1>3, <1>a DEF WindowInv, NoDanglingWindow, Mapped, NoWindow
<1>7. \A x \in issued' : x \in issued /\ x.thread # t /\ x.thread \in Threads /\ table'[x.thread] = table[x.thread]
      BY <1>0, <1>3, <1>a DEF TypeOK
<1>8. HandleInv' /\ HandleNamesItsMapping' /\ OnlyWholeRegions'
      BY <1>7, <1>0, <1>a DEF HandleInv, HandleNamesItsMapping, OnlyWholeRegions, RegionOf
<1> QED BY <1>2, <1>4, <1>5, <1>6, <1>8 DEF IInv, HandlesSound
-----------------------------------------------------------------------------
\* In every execution, whatever threads create, open, close, lend, push to and
\* unlink, and whenever a process dies, the handles of a table are sound: each
\* names its own mapping or none, no array outlives the mapping it was lent
\* (region_of, slot_take, nishshm_lend, nishshm_close), and no region is mapped
\* before it has its size (nishshm_create, nishshm_open).
THEOREM HandlesAreSound == Spec => []HandlesSound
<1>1. Init => IInv
      BY InitIInv
<1>2. IInv /\ [Next]_vars => IInv'
  <2> SUFFICES ASSUME IInv, [Next]_vars PROVE IInv'
      OBVIOUS
  <2>1. CASE Next
        BY <2>1, CallsKeepIInv, AdoptKeepsIInv, LendKeepsIInv, PushKeepsIInv, CloseKeepsIInv, RestartKeepsIInv
        DEF Next
  <2>2. CASE UNCHANGED vars
        BY <2>2 DEF vars, IInv, HandlesSound, TypeOK, HandleNamesItsMapping, NoDanglingWindow,
           OnlyWholeRegions, CallInv, SlotInv, HandleInv, WindowInv, RegionOf, Mapped
  <2> QED BY <2>1, <2>2
<1>3. IInv => HandlesSound
      BY DEF IInv
<1> QED BY <1>1, <1>2, <1>3, PTL DEF Spec

-----------------------------------------------------------------------------
\* The table of memory regions.

SlotRecords == [arena : Regions!Arenas, outer : Regions!Handles \cup Regions!Links, root : Regions!Handles \cup {Regions!Null}, entered : BOOLEAN]

Owner(i) == Regions!Latest(owners[i])
Gen(i) == Regions!Latest(gens[i])
Handle(i) == <<Gen(i), i>>
Live(i) == Owner(i) # Regions!NoThread
InList(i) == i < used /\ ~Live(i) /\ Gen(i) < GenEnd

Types ==
  /\ arena \in [RegionThreads -> Regions!Arenas] /\ current \in [RegionThreads -> Regions!Handles]
  /\ slot \in [Regions!Index -> SlotRecords]
  /\ owners \in [Regions!Index -> Seq(RegionThreads \cup {Regions!NoThread})] /\ gens \in [Regions!Index -> Seq(0..GenEnd)]
  /\ \A i \in Regions!Index : owners[i] # <<>> /\ gens[i] # <<>>
  /\ seen \in [RegionThreads -> [Regions!Index -> Nat \X Nat]]
  /\ used \in 0..RegionSlots /\ freeList \in 0..RegionSlots

\* The handles handed out are those of the slots that have an owner.
MadeInv == made = {m \in Regions!Handles \X RegionThreads : Owner(m[1][2]) = m[2] /\ Gen(m[1][2]) = m[1][1]}

\* What is stored in a slot's thread and generation.
GenInv ==
  \A i \in Regions!Index :
    /\ i < used => Gen(i) >= 1
    /\ i >= used => Gen(i) = 0 /\ ~Live(i)
    /\ Live(i) => Gen(i) < GenEnd

\* A thread that may read its own name from a slot owns it, and has seen all.
SeenInv ==
  \A t \in RegionThreads, i \in Regions!Index :
    /\ seen[t][i][1] \in 1..Len(owners[i]) /\ seen[t][i][2] \in 1..Len(gens[i])
    /\ \A k \in seen[t][i][1]..Len(owners[i]) :
         owners[i][k] = t => k = Len(owners[i]) /\ seen[t][i] = <<Len(owners[i]), Len(gens[i])>>

\* The free list: its head and every link lead to a slot on it or end it, no
\* two links lead to one slot, and none to the head.
ListInv ==
  /\ freeList = 0 \/ InList(freeList - 1)
  /\ \A i \in Regions!Index : InList(i) => slot[i].outer \in Regions!Links /\ (slot[i].outer = Regions!Link(0) \/ InList(slot[i].outer[1] - 1))
  /\ \A i, j \in Regions!Index : InList(i) /\ InList(j) /\ i # j /\ slot[i].outer = slot[j].outer => slot[i].outer = Regions!Link(0)
  /\ \A i \in Regions!Index : InList(i) /\ freeList # 0 => slot[i].outer # Regions!Link(freeList)

\* Thread t has entered the region r.
Inside(t, r) ==
  /\ r \in Regions!Handles /\ Owner(r[2]) = t /\ Gen(r[2]) = r[1] /\ slot[r[2]].entered

\* The regions a thread has entered are nested.
NestInv ==
  /\ \A t \in RegionThreads : current[t] = Regions!Zero \/ Inside(t, current[t])
  /\ \A i \in Regions!Index : Live(i) /\ slot[i].entered =>
       /\ slot[i].outer = Regions!Zero \/ Inside(Owner(i), slot[i].outer)
       /\ slot[i].outer # current[Owner(i)] \/ slot[i].outer = Regions!Zero
  /\ \A i, j \in Regions!Index : Live(i) /\ Live(j) /\ slot[i].entered /\ slot[j].entered /\ i # j /\ slot[i].outer = slot[j].outer
       => slot[i].outer = Regions!Zero

\* Whose memory is where.
PlaceInv ==
  /\ \A t \in RegionThreads : arena[t].mem \subseteq {Regions!Holder(t)} /\ arena[t].chunk = (current[t] # Regions!Zero)
  /\ \A i \in Regions!Index :
       /\ ~Live(i) => slot[i].arena.mem = {} /\ slot[i].root = Regions!Null /\ ~slot[i].entered
       /\ Live(i) => slot[i].root \in {Regions!Null, Handle(i)}
       /\ Live(i) /\ slot[i].entered =>
            slot[i].arena.mem \subseteq {Regions!Displaced(i, Owner(i))} /\ slot[i].arena.chunk = (slot[i].outer # Regions!Zero)
       /\ Live(i) /\ ~slot[i].entered => slot[i].arena.mem \subseteq {Handle(i)} /\ slot[i].arena.chunk

RegionsIInv == Types /\ MadeInv /\ GenInv /\ SeenInv /\ ListInv /\ NestInv /\ PlaceInv

\* A value stored in a log is its latest.
LEMMA LatestAppend ==
  ASSUME NEW S, NEW l \in Seq(S), NEW x \in S
  PROVE  /\ Append(l, x) \in Seq(S) /\ Append(l, x) # <<>> /\ Regions!Latest(Append(l, x)) = x
         /\ Len(Append(l, x)) = Len(l) + 1 /\ Len(l) \in Nat
         /\ \A k \in 1..Len(l) : Append(l, x)[k] = l[k]
<1>1. /\ Append(l, x) \in Seq(S) /\ Len(Append(l, x)) = Len(l) + 1 /\ Len(l) \in Nat
      /\ \A k \in 1..Len(l) : Append(l, x)[k] = l[k]
      /\ Append(l, x)[Len(l) + 1] = x
      BY AppendProperties
<1>2. Append(l, x) # <<>>
      BY <1>1
<1> QED BY <1>1, <1>2 DEF Regions!Latest

\* A generation that has room in a handle is stored whole.
LEMMA SmallMod ==
  ASSUME NEW n \in Nat, NEW g \in 1..n - 1
  PROVE  g % n = g
OBVIOUS

\* A generation put at the end of a history is its latest.
LEMMA GenAppend ==
  ASSUME NEW l \in Seq(0..GenEnd), NEW g \in 0..GenEnd
  PROVE  /\ Append(l, g) \in Seq(0..GenEnd) /\ Append(l, g) # <<>> /\ Regions!Latest(Append(l, g)) = g
         /\ Len(Append(l, g)) = Len(l) + 1
<1>1. PICK S : S = 0..GenEnd
      OBVIOUS
<1>2. l \in Seq(S) /\ g \in S
      BY <1>1
<1>3. /\ Append(l, g) \in Seq(S) /\ Append(l, g) # <<>> /\ Regions!Latest(Append(l, g)) = g
      /\ Len(Append(l, g)) = Len(l) + 1
      BY <1>2, LatestAppend
<1> QED BY <1>1, <1>3

\* The latest owner and generation of a slot.
LEMMA LatestTypes ==
  ASSUME Regions!TableSizes, Types, NEW i \in Regions!Index
  PROVE  /\ Owner(i) \in RegionThreads \cup {Regions!NoThread} /\ Gen(i) \in 0..GenEnd
         /\ Len(owners[i]) \in Nat \ {0} /\ Len(gens[i]) \in Nat \ {0}
         /\ Owner(i) = owners[i][Len(owners[i])] /\ Gen(i) = gens[i][Len(gens[i])]
<1>1. /\ owners[i] \in Seq(RegionThreads \cup {Regions!NoThread}) /\ gens[i] \in Seq(0..GenEnd)
      /\ owners[i] # <<>> /\ gens[i] # <<>>
      BY DEF Types
<1>2. Len(owners[i]) \in Nat /\ Len(owners[i]) # 0 /\ Len(gens[i]) \in Nat /\ Len(gens[i]) # 0
      BY <1>1, EmptySeq
<1>3. owners[i][Len(owners[i])] \in RegionThreads \cup {Regions!NoThread} /\ gens[i][Len(gens[i])] \in 0..GenEnd
  <2>1. Len(owners[i]) \in 1..Len(owners[i]) /\ Len(gens[i]) \in 1..Len(gens[i])
        BY <1>2
  <2>2. owners[i][Len(owners[i])] \in RegionThreads \cup {Regions!NoThread}
        BY <1>1, <2>1, ElementOfSeq
  <2>3. gens[i][Len(gens[i])] \in 0..GenEnd
        BY <1>1, <2>1, ElementOfSeq
  <2> QED BY <2>2, <2>3
<1> QED BY <1>2, <1>3 DEF Owner, Gen, Regions!Latest

\* The handles of live slots are the handles handed out.
LEMMA LiveHandle ==
  ASSUME Regions!TableSizes, RegionsIInv, NEW i \in Regions!Index, Live(i)
  PROVE  Handle(i) \in Regions!Handles /\ Handle(i) # Regions!Zero /\ Owner(i) \in RegionThreads
         /\ Gen(i) \in 1..GenEnd - 1 /\ <<Handle(i), Owner(i)>> \in made
<1>1. Owner(i) \in RegionThreads /\ Gen(i) \in 0..GenEnd
      BY LatestTypes DEF RegionsIInv, Live
<1>2. Gen(i) \in 1..GenEnd - 1
  <2>1. used \in 0..RegionSlots /\ i \in 0..RegionSlots - 1
        BY DEF RegionsIInv, Types, Regions!Index
  <2>2. i < used /\ Gen(i) >= 1 /\ Gen(i) < GenEnd
        BY <2>1 DEF RegionsIInv, GenInv, Regions!TableSizes, Regions!Index
  <2> QED BY <1>1, <2>2 DEF Regions!TableSizes
<1>3. Handle(i) \in Regions!Handles /\ Handle(i) # Regions!Zero
      BY <1>2 DEF Handle, Regions!Handles, Regions!Zero, Regions!TableSizes
<1>4. <<Handle(i), Owner(i)>> \in made
      BY <1>1, <1>3 DEF RegionsIInv, MadeInv, Handle
<1> QED BY <1>1, <1>2, <1>3, <1>4

\* What passes the checks of a thread is a live region of that thread, which
\* has seen all there is to see of it.
LEMMA SlotOfLive ==
  ASSUME Regions!TableSizes, RegionsIInv, NEW t \in RegionThreads, NEW r \in Regions!Handles, Regions!SlotOf(t, r)
  PROVE  /\ r[2] \in Regions!Index /\ Owner(r[2]) = t /\ Live(r[2]) /\ Gen(r[2]) = r[1]
         /\ r = Handle(r[2]) /\ r # Regions!Zero
         /\ seen[t][r[2]] = <<Len(owners[r[2]]), Len(gens[r[2]])>>
<1> DEFINE i == r[2]
<1>1. i \in Regions!Index /\ r = <<r[1], r[2]>> /\ r # Regions!Zero
      BY DEF Regions!Handles, Regions!SlotOf
<1>2. PICK k \in seen[t][i][1]..Len(owners[i]) : owners[i][k] = t
      BY DEF Regions!SlotOf, Regions!OwnersRead
<1>3. k = Len(owners[i]) /\ seen[t][i] = <<Len(owners[i]), Len(gens[i])>>
      BY <1>1, <1>2 DEF RegionsIInv, SeenInv
<1>4. Owner(i) = t /\ Live(i)
      BY <1>2, <1>3 DEF Owner, Regions!Latest, Live, Regions!TableSizes
<1>5. PICK n \in seen[t][i][2]..Len(gens[i]) : gens[i][n] = r[1]
      BY DEF Regions!SlotOf, Regions!GensRead
<1>6. n = Len(gens[i])
      BY <1>1, <1>3, <1>5, LatestTypes DEF RegionsIInv
<1>7. Gen(i) = r[1]
      BY <1>5, <1>6 DEF Gen, Regions!Latest
<1> QED BY <1>1, <1>3, <1>4, <1>7 DEF Handle

-----------------------------------------------------------------------------
\* At the start every slot is unused.
LEMMA InitRegions ==
  ASSUME Regions!TableSizes, Regions!Init
  PROVE  RegionsIInv
<1>1. Regions!Zero \in Regions!Handles
      BY DEF Regions!Zero, Regions!Handles, Regions!Index, Regions!TableSizes
<1>2. ASSUME NEW i \in Regions!Index
      PROVE  /\ owners[i] = <<Regions!NoThread>> /\ gens[i] = <<0>> /\ Owner(i) = 0 /\ Gen(i) = 0 /\ ~Live(i)
             /\ owners[i] \in Seq(RegionThreads \cup {Regions!NoThread}) /\ gens[i] \in Seq(0..GenEnd)
             /\ Len(owners[i]) = 1 /\ Len(gens[i]) = 1 /\ owners[i] # <<>> /\ gens[i] # <<>>
             /\ slot[i] = [arena |-> [mem |-> {}, chunk |-> FALSE], outer |-> Regions!Zero, root |-> Regions!Null, entered |-> FALSE]
  <2>1. owners[i] = <<0>> /\ gens[i] = <<0>>
        BY DEF Regions!Init, Regions!NoThread
  <2>2. <<0>> \in Seq(RegionThreads \cup {0}) /\ <<0>> \in Seq(0..GenEnd) /\ Len(<<0>>) = 1 /\ <<0>>[1] = 0 /\ <<0>> # <<>>
        BY DEF Regions!TableSizes
  <2> QED BY <2>1, <2>2 DEF Regions!Init, Owner, Gen, Regions!Latest, Live, Regions!NoThread
<1>3. used = 0 /\ freeList = 0
      BY DEF Regions!Init
<1>4. Types
  <2>1. [mem |-> {}, chunk |-> FALSE] \in Regions!Arenas
        BY DEF Regions!Arenas
  <2>2. arena \in [RegionThreads -> Regions!Arenas] /\ current \in [RegionThreads -> Regions!Handles]
        BY <1>1, <2>1 DEF Regions!Init
  <2>3. slot \in [Regions!Index -> SlotRecords]
        BY <1>1, <2>1 DEF Regions!Init, SlotRecords
  <2>4. owners \in [Regions!Index -> Seq(RegionThreads \cup {Regions!NoThread})] /\ gens \in [Regions!Index -> Seq(0..GenEnd)]
        BY <1>2 DEF Regions!Init
  <2>5. seen \in [RegionThreads -> [Regions!Index -> Nat \X Nat]]
        BY DEF Regions!Init
  <2> QED BY <1>2, <1>3, <2>2, <2>3, <2>4, <2>5 DEF Types, Regions!TableSizes
<1>5. MadeInv
      BY <1>2 DEF Regions!Init, MadeInv, Regions!Handles, Live, Regions!NoThread, Regions!TableSizes
<1>6. GenInv
      BY <1>2, <1>3 DEF GenInv, Regions!Index, Regions!TableSizes
<1>7. SeenInv
      BY <1>2 DEF SeenInv, Regions!Init, Regions!TableSizes, Regions!NoThread
<1>8. ListInv
      BY <1>2, <1>3 DEF ListInv, InList, Regions!Index, Regions!TableSizes
<1>9. NestInv
      BY <1>2 DEF NestInv, Regions!Init
<1>10. PlaceInv
      BY <1>2 DEF PlaceInv, Regions!Init, Regions!Holder
<1> QED BY <1>4, <1>5, <1>6, <1>7, <1>8, <1>9, <1>10 DEF RegionsIInv

-----------------------------------------------------------------------------
\* A step of thread t that changes a live slot and nothing of the table.
LEMMA LiveSlotStep ==
  ASSUME Regions!TableSizes, RegionsIInv, NEW i \in Regions!Index, Live(i), NEW s \in SlotRecords,
         slot' = [slot EXCEPT ![i] = s], UNCHANGED <<owners, gens, seen, used, freeList, made>>
  PROVE  /\ MadeInv' /\ GenInv' /\ SeenInv' /\ ListInv'
         /\ slot' \in [Regions!Index -> SlotRecords] /\ slot'[i] = s /\ \A j \in Regions!Index : j # i => slot'[j] = slot[j]
         /\ \A j \in Regions!Index : Owner(j)' = Owner(j) /\ Gen(j)' = Gen(j) /\ (Live(j)' <=> Live(j)) /\ Handle(j)' = Handle(j)
<1>1. slot \in [Regions!Index -> SlotRecords]
      BY DEF RegionsIInv, Types
<1>2. slot' \in [Regions!Index -> SlotRecords] /\ slot'[i] = s /\ \A j \in Regions!Index : j # i => slot'[j] = slot[j]
      BY <1>1
<1>3. \A j \in Regions!Index : Owner(j)' = Owner(j) /\ Gen(j)' = Gen(j) /\ (Live(j)' <=> Live(j)) /\ Handle(j)' = Handle(j)
      BY DEF Owner, Gen, Live, Handle
<1>4. \A j \in Regions!Index : InList(j)' <=> InList(j)
      BY <1>3 DEF InList
<1>5. MadeInv'
  <2>1. \A m \in Regions!Handles \X RegionThreads : m[1][2] \in Regions!Index
        BY DEF Regions!Handles
  <2> QED BY <1>3, <2>1 DEF RegionsIInv, MadeInv
<1>6. GenInv'
      BY <1>3 DEF RegionsIInv, GenInv
<1>7. SeenInv'
      BY DEF RegionsIInv, SeenInv
<1>8. ListInv'
  <2>1. \A j \in Regions!Index : InList(j) => slot'[j] = slot[j]
        BY <1>2 DEF InList
  <2>2. freeList' = 0 \/ InList(freeList - 1)'
        BY DEF RegionsIInv, ListInv, InList, Live, Owner, Gen
  <2>3. ASSUME NEW j \in Regions!Index, InList(j)
        PROVE  slot[j].outer = Regions!Link(0) \/ InList(slot[j].outer[1] - 1)'
        BY <2>3 DEF RegionsIInv, ListInv, InList, Live, Owner, Gen
  <2> QED BY <1>4, <2>1, <2>2, <2>3 DEF RegionsIInv, ListInv
<1> QED BY <1>2, <1>3, <1>5, <1>6, <1>7, <1>8

\* An allocation goes to the arena of the region its thread is in.
LEMMA AllocKeeps ==
  ASSUME Regions!TableSizes, RegionsIInv, NEW t \in RegionThreads, Regions!Alloc(t)
  PROVE  RegionsIInv'
<1>1. /\ UNCHANGED <<current, slot, owners, gens, seen, used, freeList, made>>
      /\ arena' = [arena EXCEPT ![t].mem = @ \cup {IF current[t] = Regions!Zero THEN Regions!Own(t) ELSE current[t]}]
      BY DEF Regions!Alloc
<1>2. arena \in [RegionThreads -> Regions!Arenas] /\ current \in [RegionThreads -> Regions!Handles] /\ arena[t] \in Regions!Arenas
      BY DEF RegionsIInv, Types
<1>3. PICK a \in Regions!Arenas : a = [arena[t] EXCEPT !.mem = arena[t].mem \cup {Regions!Holder(t)}]
  <2>1. Regions!Holder(t) \in Regions!Handles \cup Regions!Owns
        BY <1>2 DEF Regions!Holder, Regions!Owns
  <2> QED BY <1>2, <2>1 DEF Regions!Arenas
<1>4. arena' = [arena EXCEPT ![t] = a]
      BY <1>1, <1>3 DEF Regions!Holder
<1>5. /\ arena' \in [RegionThreads -> Regions!Arenas] /\ arena'[t] = a /\ \A u \in RegionThreads : u # t => arena'[u] = arena[u]
      BY <1>2, <1>4
<1>6. Types'
      BY <1>1, <1>5 DEF RegionsIInv, Types
<1>7. MadeInv' /\ GenInv' /\ SeenInv'
      BY <1>1 DEF RegionsIInv, MadeInv, GenInv, SeenInv, Owner, Gen, Live
<1>8. ListInv' /\ NestInv'
  <2>1. \A j : (InList(j)' <=> InList(j)) /\ (Live(j)' <=> Live(j)) /\ Owner(j)' = Owner(j) /\ Gen(j)' = Gen(j)
        BY <1>1 DEF InList, Live, Owner, Gen
  <2>2. \A u, x : Inside(u, x)' <=> Inside(u, x)
        BY <1>1, <2>1 DEF Inside
  <2>3. ListInv'
        BY <1>1, <2>1 DEF RegionsIInv, ListInv
  <2>4. NestInv'
        BY <1>1, <2>1, <2>2 DEF RegionsIInv, NestInv
  <2> QED BY <2>3, <2>4
<1>9. PlaceInv'
  <2>1. a.mem = arena[t].mem \cup {Regions!Holder(t)} /\ a.chunk = arena[t].chunk
        BY <1>2, <1>3 DEF Regions!Arenas
  <2>2. ASSUME NEW u \in RegionThreads
        PROVE  arena'[u].mem \subseteq {Regions!Holder(u)'} /\ arena'[u].chunk = (current'[u] # Regions!Zero)
        BY <1>1, <1>5, <2>1 DEF RegionsIInv, PlaceInv, Regions!Holder
  <2>3. ASSUME NEW i \in Regions!Index
        PROVE  Owner(i)' = Owner(i) /\ Handle(i)' = Handle(i) /\ (Live(i)' <=> Live(i))
               /\ Regions!Displaced(i, Owner(i))' = Regions!Displaced(i, Owner(i))
        BY <1>1 DEF Owner, Handle, Gen, Live, Regions!Displaced
  <2> QED BY <1>1, <2>2, <2>3 DEF RegionsIInv, PlaceInv
<1> QED BY <1>6, <1>7, <1>8, <1>9 DEF RegionsIInv

\* A region that is entered becomes the inner one of its thread.
LEMMA EnterKeeps ==
  ASSUME Regions!TableSizes, RegionsIInv, NEW t \in RegionThreads, NEW r \in Regions!Handles, Regions!Enter(t, r)
  PROVE  RegionsIInv'
<1>1. PICK i \in Regions!Index : i = r[2]
      BY DEF Regions!Handles
<1>2. /\ Owner(i) = t /\ Live(i) /\ Gen(i) = r[1] /\ r = Handle(i) /\ r # Regions!Zero /\ ~slot[i].entered
      BY <1>1, SlotOfLive DEF Regions!Enter
<1>3. /\ arena \in [RegionThreads -> Regions!Arenas] /\ current \in [RegionThreads -> Regions!Handles] /\ slot[i] \in SlotRecords
      /\ slot \in [Regions!Index -> SlotRecords] /\ arena[t] \in Regions!Arenas /\ current[t] \in Regions!Handles
      BY DEF RegionsIInv, Types
<1>4. PICK s \in SlotRecords : s = [slot[i] EXCEPT !.entered = TRUE, !.outer = current[t], !.arena = arena[t]]
      BY <1>3 DEF SlotRecords
<1>5. s.entered /\ s.outer = current[t] /\ s.arena = arena[t] /\ s.root = slot[i].root
      BY <1>3, <1>4 DEF SlotRecords
<1>6. /\ slot' = [slot EXCEPT ![i] = s] /\ arena' = [arena EXCEPT ![t] = slot[i].arena]
      /\ current' = [current EXCEPT ![t] = r] /\ UNCHANGED <<owners, gens, seen, used, freeList, made>>
      BY <1>1, <1>4 DEF Regions!Enter
<1>7. /\ MadeInv' /\ GenInv' /\ SeenInv' /\ ListInv'
      /\ slot' \in [Regions!Index -> SlotRecords] /\ slot'[i] = s /\ \A j \in Regions!Index : j # i => slot'[j] = slot[j]
      /\ \A j \in Regions!Index : Owner(j)' = Owner(j) /\ Gen(j)' = Gen(j) /\ (Live(j)' <=> Live(j)) /\ Handle(j)' = Handle(j)
      BY <1>2, <1>6, LiveSlotStep
<1>8. /\ arena' \in [RegionThreads -> Regions!Arenas] /\ arena'[t] = slot[i].arena /\ \A u \in RegionThreads : u # t => arena'[u] = arena[u]
      /\ current' \in [RegionThreads -> Regions!Handles] /\ current'[t] = r /\ \A u \in RegionThreads : u # t => current'[u] = current[u]
      BY <1>3, <1>6 DEF SlotRecords
<1>9. Types'
      BY <1>6, <1>7, <1>8 DEF RegionsIInv, Types
<1>10. NestInv'
  <2>1. \A u \in RegionThreads : \A x \in Regions!Handles : Inside(u, x) => Inside(u, x)' /\ x # r
    <3> SUFFICES ASSUME NEW u \in RegionThreads, NEW x \in Regions!Handles, Inside(u, x)
                 PROVE  Inside(u, x)' /\ x # r
        OBVIOUS
    <3>1. x[2] \in Regions!Index /\ x[2] # i
          BY <1>2 DEF Regions!Handles, Inside
    <3> QED BY <1>1, <1>7, <3>1 DEF Inside
  <2>2. Inside(t, r)'
        BY <1>1, <1>2, <1>5, <1>7 DEF Inside
  <2>3. ASSUME NEW u \in RegionThreads PROVE (current[u] = Regions!Zero \/ Inside(u, current[u]))'
    <3>1. CASE u = t
          BY <1>8, <2>2, <3>1
    <3>2. CASE u # t
      <4>1. PICK x \in Regions!Handles : x = current[u] /\ x = current'[u]
            BY <1>8, <3>2
      <4>2. x = Regions!Zero \/ Inside(u, x)'
            BY <2>1, <4>1 DEF RegionsIInv, NestInv
      <4> QED BY <4>1, <4>2
    <3> QED BY <3>1, <3>2
  <2>4. ASSUME NEW j \in Regions!Index, Live(j), slot'[j].entered
        PROVE  /\ slot'[j].outer = Regions!Zero \/ Inside(Owner(j), slot[j].outer)'
               /\ slot'[j].outer = Regions!Zero \/ slot'[j].outer # current'[Owner(j)]
    <3>1. Owner(j) \in RegionThreads
          BY <2>4, LiveHandle
    <3>2. CASE j = i
      <4>1. PICK x \in Regions!Handles : x = current[t] /\ x = slot'[j].outer
            BY <1>3, <1>5, <1>7, <3>2
      <4>2. x = Regions!Zero \/ (Inside(t, x)' /\ x # r)
            BY <2>1, <4>1 DEF RegionsIInv, NestInv
      <4> QED BY <1>2, <1>7, <1>8, <3>2, <4>1, <4>2
    <3>3. CASE j # i
      <4>1. slot[j].entered /\ slot'[j] = slot[j]
            BY <1>7, <2>4, <3>3
      <4>2. PICK x : x = slot[j].outer
            OBVIOUS
      <4>3. /\ x = Regions!Zero \/ Inside(Owner(j), x)
            /\ x = Regions!Zero \/ x # current[Owner(j)]
            BY <2>4, <4>1, <4>2 DEF RegionsIInv, NestInv
      <4>4. x = Regions!Zero \/ (x \in Regions!Handles /\ Inside(Owner(j), x)' /\ x # r)
        <5>1. x = Regions!Zero \/ x \in Regions!Handles
              BY <4>3 DEF Inside
        <5> QED BY <1>7, <2>1, <3>1, <4>3, <5>1
      <4> QED BY <1>7, <1>8, <3>1, <4>1, <4>2, <4>3, <4>4
    <3> QED BY <3>2, <3>3
  <2>5. ASSUME NEW j \in Regions!Index, NEW k \in Regions!Index, Live(j), Live(k), slot'[j].entered, slot'[k].entered,
               j # k, slot'[j].outer = slot'[k].outer
        PROVE  slot'[j].outer = Regions!Zero
    <3>1. ASSUME NEW n \in Regions!Index, Live(n), slot[n].entered, slot[n].outer = current[t]
          PROVE  current[t] = Regions!Zero
      <4>1. Owner(n) \in RegionThreads
            BY <3>1, LiveHandle
      <4>2. current[t] = Regions!Zero \/ (Inside(Owner(n), current[t]) /\ Inside(t, current[t]))
            BY <3>1 DEF RegionsIInv, NestInv
      <4>3. current[t] = Regions!Zero \/ Owner(n) = t
            BY <4>2 DEF Inside
      <4> QED BY <3>1, <4>3 DEF RegionsIInv, NestInv
    <3>2. CASE j = i
          BY <1>5, <1>7, <2>5, <3>1, <3>2
    <3>3. CASE k = i
          BY <1>5, <1>7, <2>5, <3>1, <3>3
    <3>4. CASE j # i /\ k # i
          BY <1>7, <2>5, <3>4 DEF RegionsIInv, NestInv
    <3> QED BY <3>2, <3>3, <3>4
  <2> QED BY <1>7, <2>3, <2>4, <2>5 DEF NestInv
<1>11. PlaceInv'
  <2>1. ASSUME NEW u \in RegionThreads
        PROVE  (arena[u].mem \subseteq {Regions!Holder(u)} /\ arena[u].chunk = (current[u] # Regions!Zero))'
    <3>1. CASE u = t
          BY <1>2, <1>8, <3>1 DEF RegionsIInv, PlaceInv, Regions!Holder
    <3>2. CASE u # t
          BY <1>8, <3>2 DEF RegionsIInv, PlaceInv, Regions!Holder
    <3> QED BY <3>1, <3>2
  <2>2. ASSUME NEW j \in Regions!Index
        PROVE  /\ ~Live(j) => slot'[j].arena.mem = {} /\ slot'[j].root = Regions!Null /\ ~slot'[j].entered
               /\ Live(j) => slot'[j].root \in {Regions!Null, Handle(j)}
               /\ Live(j) /\ slot'[j].entered =>
                    slot'[j].arena.mem \subseteq {Regions!Displaced(j, Owner(j))'} /\ slot'[j].arena.chunk = (slot'[j].outer # Regions!Zero)
               /\ Live(j) /\ ~slot'[j].entered => slot'[j].arena.mem \subseteq {Handle(j)} /\ slot'[j].arena.chunk
    <3>1. CASE j = i
      <4>1. Regions!Displaced(i, Owner(i))' = Regions!Holder(t)
            BY <1>2, <1>5, <1>7 DEF Regions!Displaced, Regions!Holder
      <4>2. arena[t].mem \subseteq {Regions!Holder(t)} /\ arena[t].chunk = (current[t] # Regions!Zero) /\ slot[i].root \in {Regions!Null, Handle(i)}
            BY <1>2 DEF RegionsIInv, PlaceInv
      <4> QED BY <1>2, <1>5, <1>7, <3>1, <4>1, <4>2
    <3>2. CASE j # i
      <4>1. slot'[j] = slot[j] /\ Regions!Displaced(j, Owner(j))' = Regions!Displaced(j, Owner(j))
            BY <1>7, <3>2 DEF Regions!Displaced
      <4> QED BY <4>1 DEF RegionsIInv, PlaceInv
    <3> QED BY <3>1, <3>2
  <2> QED BY <1>7, <2>1, <2>2 DEF PlaceInv
<1> QED BY <1>7, <1>9, <1>10, <1>11 DEF RegionsIInv

\* A region that is left gives its thread back the region outside it.
LEMMA LeaveKeeps ==
  ASSUME Regions!TableSizes, RegionsIInv, NEW t \in RegionThreads, NEW r \in Regions!Handles, Regions!Leave(t, r)
  PROVE  RegionsIInv'
<1>1. PICK i \in Regions!Index : i = r[2]
      BY DEF Regions!Handles
<1>2. /\ Owner(i) = t /\ Live(i) /\ Gen(i) = r[1] /\ r = Handle(i) /\ r # Regions!Zero /\ current[t] = r
      BY <1>1, SlotOfLive DEF Regions!Leave, Regions!EnteredLast
<1>3. /\ arena \in [RegionThreads -> Regions!Arenas] /\ current \in [RegionThreads -> Regions!Handles] /\ slot[i] \in SlotRecords
      /\ slot \in [Regions!Index -> SlotRecords] /\ arena[t] \in Regions!Arenas /\ Regions!Zero \in Regions!Handles
  <2>1. Regions!Zero \in Regions!Handles
        BY DEF Regions!Zero, Regions!Handles, Regions!Index, Regions!TableSizes
  <2> QED BY <2>1 DEF RegionsIInv, Types
<1>4. PICK s \in SlotRecords : s = [slot[i] EXCEPT !.entered = FALSE, !.arena = arena[t], !.root = r]
      BY <1>3 DEF SlotRecords
<1>5. ~s.entered /\ s.outer = slot[i].outer /\ s.arena = arena[t] /\ s.root = r
      BY <1>3, <1>4 DEF SlotRecords
<1>6. slot[i].entered
      BY <1>1, <1>2 DEF RegionsIInv, NestInv, Inside
<1>7. PICK o : o = slot[i].outer
      OBVIOUS
<1>8. o \in Regions!Handles /\ o # r /\ (o = Regions!Zero \/ Inside(t, o))
  <2>1. o = Regions!Zero \/ (Inside(t, o) /\ o # r)
        BY <1>2, <1>6, <1>7 DEF RegionsIInv, NestInv
  <2> QED BY <1>2, <1>3, <2>1 DEF Inside
<1>9. /\ slot' = [slot EXCEPT ![i] = s] /\ arena' = [arena EXCEPT ![t] = slot[i].arena]
      /\ current' = [current EXCEPT ![t] = o] /\ UNCHANGED <<owners, gens, seen, used, freeList, made>>
      BY <1>1, <1>4, <1>7 DEF Regions!Leave
<1>10. /\ MadeInv' /\ GenInv' /\ SeenInv' /\ ListInv'
       /\ slot' \in [Regions!Index -> SlotRecords] /\ slot'[i] = s /\ \A j \in Regions!Index : j # i => slot'[j] = slot[j]
       /\ \A j \in Regions!Index : Owner(j)' = Owner(j) /\ Gen(j)' = Gen(j) /\ (Live(j)' <=> Live(j)) /\ Handle(j)' = Handle(j)
      BY <1>2, <1>9, LiveSlotStep
<1>11. /\ arena' \in [RegionThreads -> Regions!Arenas] /\ arena'[t] = slot[i].arena /\ \A u \in RegionThreads : u # t => arena'[u] = arena[u]
       /\ current' \in [RegionThreads -> Regions!Handles] /\ current'[t] = o /\ \A u \in RegionThreads : u # t => current'[u] = current[u]
      BY <1>3, <1>8, <1>9 DEF SlotRecords
<1>12. Types'
      BY <1>9, <1>10, <1>11 DEF RegionsIInv, Types
<1>13. NestInv'
  <2>1. ASSUME NEW u \in RegionThreads, NEW x \in Regions!Handles, Inside(u, x), x # r
        PROVE  Inside(u, x)'
    <3>1. x[2] \in Regions!Index /\ x = <<x[1], x[2]>> /\ Gen(x[2]) = x[1]
          BY <2>1 DEF Regions!Handles, Inside
    <3>2. x[2] # i
          BY <1>2, <2>1, <3>1 DEF Handle
    <3> QED BY <1>10, <2>1, <3>1, <3>2 DEF Inside
  <2>2. ASSUME NEW u \in RegionThreads, u # t PROVE ~Inside(u, r)
        BY <1>1, <1>2, <2>2 DEF Inside
  <2>3. ASSUME NEW u \in RegionThreads PROVE (current[u] = Regions!Zero \/ Inside(u, current[u]))'
    <3>1. CASE u = t
          BY <1>8, <1>11, <2>1, <3>1
    <3>2. CASE u # t
      <4>1. PICK x \in Regions!Handles : x = current[u] /\ x = current'[u]
            BY <1>11, <3>2
      <4>2. x = Regions!Zero \/ Inside(u, x)
            BY <4>1 DEF RegionsIInv, NestInv
      <4>3. x = Regions!Zero \/ Inside(u, x)'
            BY <2>1, <2>2, <3>2, <4>2
      <4> QED BY <4>1, <4>3
    <3> QED BY <3>1, <3>2
  <2>4. ASSUME NEW j \in Regions!Index, Live(j), slot'[j].entered
        PROVE  /\ slot'[j].outer = Regions!Zero \/ Inside(Owner(j), slot[j].outer)'
               /\ slot'[j].outer = Regions!Zero \/ slot'[j].outer # current'[Owner(j)]
    <3>1. PICK u \in RegionThreads : u = Owner(j) /\ u = Owner(j)'
          BY <1>10, <2>4, LiveHandle
    <3>2. j # i /\ slot[j].entered /\ slot'[j] = slot[j]
          BY <1>5, <1>10, <2>4
    <3>3. PICK x : x = slot[j].outer /\ x = slot'[j].outer
          BY <3>2
    <3>4. x = Regions!Zero \/ (x \in Regions!Handles /\ Inside(u, x) /\ x # current[u])
          BY <2>4, <3>1, <3>2, <3>3 DEF RegionsIInv, NestInv, Inside
    <3>5. x = Regions!Zero \/ x # r
          BY <1>2, <2>2, <3>4
    <3>6. x = Regions!Zero \/ Inside(u, x)'
          BY <2>1, <3>4, <3>5
    <3>7. x = o => x = Regions!Zero
          BY <1>2, <1>6, <1>7, <2>4, <3>2, <3>3 DEF RegionsIInv, NestInv
    <3>8. x = Regions!Zero \/ x # current'[u]
          BY <1>11, <3>4, <3>7
    <3> QED BY <3>1, <3>3, <3>6, <3>8
  <2>5. ASSUME NEW j \in Regions!Index, NEW k \in Regions!Index, Live(j), Live(k), slot'[j].entered, slot'[k].entered,
               j # k, slot'[j].outer = slot'[k].outer
        PROVE  slot'[j].outer = Regions!Zero
    <3>1. j # i /\ k # i
          BY <1>5, <1>10, <2>5
    <3> QED BY <1>10, <2>5, <3>1 DEF RegionsIInv, NestInv
  <2>6. \A j \in Regions!Index : Live(j)' <=> Live(j)
        BY <1>10
  <2> QED BY <1>10, <2>3, <2>4, <2>5, <2>6 DEF NestInv
<1>14. PlaceInv'
  <2>1. ASSUME NEW u \in RegionThreads
        PROVE  (arena[u].mem \subseteq {Regions!Holder(u)} /\ arena[u].chunk = (current[u] # Regions!Zero))'
    <3>1. CASE u = t
      <4>1. Regions!Holder(u)' = Regions!Displaced(i, t)
            BY <1>7, <1>11, <3>1 DEF Regions!Holder, Regions!Displaced
      <4>2. slot[i].arena.mem \subseteq {Regions!Displaced(i, t)} /\ slot[i].arena.chunk = (o # Regions!Zero)
            BY <1>2, <1>6, <1>7 DEF RegionsIInv, PlaceInv
      <4> QED BY <1>11, <3>1, <4>1, <4>2
    <3>2. CASE u # t
          BY <1>11, <3>2 DEF RegionsIInv, PlaceInv, Regions!Holder
    <3> QED BY <3>1, <3>2
  <2>2. ASSUME NEW j \in Regions!Index
        PROVE  /\ ~Live(j) => slot'[j].arena.mem = {} /\ slot'[j].root = Regions!Null /\ ~slot'[j].entered
               /\ Live(j) => slot'[j].root \in {Regions!Null, Handle(j)}
               /\ Live(j) /\ slot'[j].entered =>
                    slot'[j].arena.mem \subseteq {Regions!Displaced(j, Owner(j))'} /\ slot'[j].arena.chunk = (slot'[j].outer # Regions!Zero)
               /\ Live(j) /\ ~slot'[j].entered => slot'[j].arena.mem \subseteq {Handle(j)} /\ slot'[j].arena.chunk
    <3>1. CASE j = i
      <4>1. arena[t].mem \subseteq {r} /\ arena[t].chunk
            BY <1>2 DEF RegionsIInv, PlaceInv, Regions!Holder
      <4> QED BY <1>2, <1>5, <1>10, <3>1, <4>1
    <3>2. CASE j # i
      <4>1. slot'[j] = slot[j] /\ Regions!Displaced(j, Owner(j))' = Regions!Displaced(j, Owner(j))
            BY <1>10, <3>2 DEF Regions!Displaced
      <4> QED BY <4>1 DEF RegionsIInv, PlaceInv
    <3> QED BY <3>1, <3>2
  <2> QED BY <1>10, <2>1, <2>2 DEF PlaceInv
<1> QED BY <1>10, <1>12, <1>13, <1>14 DEF RegionsIInv

-----------------------------------------------------------------------------
\* Thread t, under the lock, stores an owner and perhaps a generation in slot i.
LEMMA LoggedStep ==
  ASSUME Regions!TableSizes, RegionsIInv, NEW t \in RegionThreads, NEW i \in Regions!Index, NEW x \in {t, Regions!NoThread},
         Owner(i) \in {t, Regions!NoThread}, Regions!SeenUnderLock(t),
         owners' = [owners EXCEPT ![i] = Append(@, x)],
         gens' = gens \/ \E g \in 0..GenEnd : gens' = [gens EXCEPT ![i] = Append(@, g)]
  PROVE  /\ owners' \in [Regions!Index -> Seq(RegionThreads \cup {Regions!NoThread})] /\ gens' \in [Regions!Index -> Seq(0..GenEnd)]
         /\ \A j \in Regions!Index : owners'[j] # <<>> /\ gens'[j] # <<>>
         /\ seen' \in [RegionThreads -> [Regions!Index -> Nat \X Nat]] /\ SeenInv'
         /\ Owner(i)' = x
         /\ \A j \in Regions!Index : j # i => Owner(j)' = Owner(j) /\ Gen(j)' = Gen(j) /\ (Live(j)' <=> Live(j)) /\ Handle(j)' = Handle(j)
<1>1. /\ owners \in [Regions!Index -> Seq(RegionThreads \cup {Regions!NoThread})] /\ gens \in [Regions!Index -> Seq(0..GenEnd)]
      /\ \A j \in Regions!Index : owners[j] # <<>> /\ gens[j] # <<>>
      /\ seen \in [RegionThreads -> [Regions!Index -> Nat \X Nat]]
      BY DEF RegionsIInv, Types
<1>2. /\ \A j \in Regions!Index : j # i => owners'[j] = owners[j] /\ gens'[j] = gens[j]
      /\ owners'[i] = Append(owners[i], x)
      /\ gens'[i] = gens[i] \/ \E g \in 0..GenEnd : gens'[i] = Append(gens[i], g)
      BY <1>1
<1>3. x \in RegionThreads \cup {Regions!NoThread} /\ owners[i] \in Seq(RegionThreads \cup {Regions!NoThread}) /\ gens[i] \in Seq(0..GenEnd)
      BY <1>1
<1>4. /\ owners'[i] \in Seq(RegionThreads \cup {Regions!NoThread}) /\ owners'[i] # <<>> /\ Regions!Latest(owners'[i]) = x
      /\ Len(owners'[i]) = Len(owners[i]) + 1 /\ Len(owners[i]) \in Nat
      /\ \A k \in 1..Len(owners[i]) : owners'[i][k] = owners[i][k]
      BY <1>2, <1>3, LatestAppend
<1>5. gens'[i] \in Seq(0..GenEnd) /\ gens'[i] # <<>> /\ Len(gens'[i]) \in {Len(gens[i]), Len(gens[i]) + 1}
  <2>1. CASE gens'[i] = gens[i]
        BY <1>1, <2>1
  <2>2. CASE \E g \in 0..GenEnd : gens'[i] = Append(gens[i], g)
    <3>1. PICK g \in 0..GenEnd : gens'[i] = Append(gens[i], g)
          BY <2>2
    <3>2. /\ Append(gens[i], g) \in Seq(0..GenEnd) /\ Append(gens[i], g) # <<>>
          /\ Len(Append(gens[i], g)) = Len(gens[i]) + 1
          BY <1>3, GenAppend
    <3> QED BY <3>1, <3>2
  <2> QED BY <1>2, <2>1, <2>2
<1>6. owners' \in [Regions!Index -> Seq(RegionThreads \cup {Regions!NoThread})]
      BY <1>1, <1>4
<1>7. gens' \in [Regions!Index -> Seq(0..GenEnd)]
  <2>1. CASE gens' = gens
        BY <1>1, <2>1
  <2>2. CASE \E g \in 0..GenEnd : gens' = [gens EXCEPT ![i] = Append(@, g)]
        BY <1>1, <1>5, <2>2
  <2> QED BY <2>1, <2>2
<1>8. \A j \in Regions!Index : owners'[j] # <<>> /\ gens'[j] # <<>>
      BY <1>1, <1>2, <1>4, <1>5
<1>9. Owner(i)' = x
      BY <1>4 DEF Owner
<1>10. \A j \in Regions!Index : j # i => Owner(j)' = Owner(j) /\ Gen(j)' = Gen(j) /\ (Live(j)' <=> Live(j)) /\ Handle(j)' = Handle(j)
      BY <1>2 DEF Owner, Gen, Live, Handle
<1>11. \A j \in Regions!Index : Len(owners'[j]) \in Nat \ {0} /\ Len(gens'[j]) \in Nat \ {0}
      BY <1>6, <1>7, <1>8, EmptySeq
<1>12. /\ seen'[t] = [j \in Regions!Index |-> <<Len(owners'[j]), Len(gens'[j])>>]
       /\ \A u \in RegionThreads : u # t => seen'[u] = seen[u]
      BY <1>1 DEF Regions!SeenUnderLock
<1>13. seen' \in [RegionThreads -> [Regions!Index -> Nat \X Nat]]
  <2>1. [j \in Regions!Index |-> <<Len(owners'[j]), Len(gens'[j])>>] \in [Regions!Index -> Nat \X Nat]
        BY <1>11
  <2> QED BY <1>1, <2>1 DEF Regions!SeenUnderLock
<1>14. SeenInv'
  <2> SUFFICES ASSUME NEW u \in RegionThreads, NEW j \in Regions!Index
               PROVE  /\ seen'[u][j][1] \in 1..Len(owners'[j]) /\ seen'[u][j][2] \in 1..Len(gens'[j])
                      /\ \A k \in seen'[u][j][1]..Len(owners'[j]) : owners'[j][k] = u =>
                           k = Len(owners'[j]) /\ seen'[u][j] = <<Len(owners'[j]), Len(gens'[j])>>
      BY DEF SeenInv
  <2>1. CASE u = t
        BY <1>11, <1>12, <2>1
  <2>2. CASE u # t /\ j # i
        BY <1>2, <1>12, <2>2 DEF RegionsIInv, SeenInv
  <2>3. CASE u # t /\ j = i
    <3>1. /\ seen[u][i][1] \in 1..Len(owners[i]) /\ seen[u][i][2] \in 1..Len(gens[i])
          /\ \A k \in seen[u][i][1]..Len(owners[i]) : owners[i][k] = u => k = Len(owners[i])
          BY DEF RegionsIInv, SeenInv
    <3>2. /\ Len(gens[i]) \in Nat /\ Len(owners[i]) \in Nat \ {0}
          /\ Owner(i) = owners[i][Len(owners[i])] /\ Owner(i) # u /\ x # u
          BY <2>3, LatestTypes DEF RegionsIInv, Regions!TableSizes
    <3>3. ASSUME NEW k \in seen[u][i][1]..Len(owners'[i]), owners'[i][k] = u PROVE FALSE
      <4>1. CASE k \in 1..Len(owners[i])
            BY <1>4, <3>1, <3>2, <3>3, <4>1
      <4>2. CASE k = Len(owners[i]) + 1
            BY <1>4, <3>2, <3>3, <4>2 DEF Regions!Latest
      <4> QED BY <1>4, <3>1, <3>2, <4>1, <4>2
    <3>4. /\ seen[u][i][1] \in 1..Len(owners'[i]) /\ seen[u][i][2] \in 1..Len(gens'[i])
      <4>1. seen[u][i][1] \in 1..Len(owners'[i])
            BY <1>4, <3>1, <3>2
      <4>2. seen[u][i][2] \in 1..Len(gens'[i])
            BY <1>5, <3>1, <3>2
      <4> QED BY <4>1, <4>2
    <3> QED BY <1>12, <2>3, <3>3, <3>4
  <2> QED BY <2>1, <2>2, <2>3
<1> QED BY <1>6, <1>7, <1>8, <1>9, <1>10, <1>13, <1>14

\* Where thread t, under the lock, changes a slot that is not entered, the
\* nesting of what is entered stays as it is.
LEMMA NestSame ==
  ASSUME Regions!TableSizes, RegionsIInv, NEW i \in Regions!Index, UNCHANGED current,
         ~slot[i].entered, ~slot'[i].entered,
         \A j \in Regions!Index : j # i => slot'[j] = slot[j],
         \A j \in Regions!Index : j # i => Owner(j)' = Owner(j) /\ Gen(j)' = Gen(j) /\ (Live(j)' <=> Live(j))
  PROVE  NestInv'
<1>1. ASSUME NEW u, NEW x, Inside(u, x)
      PROVE  Inside(u, x)'
  <2>1. x[2] \in Regions!Index /\ x[2] # i
        BY <1>1 DEF Inside, Regions!Handles
  <2> QED BY <1>1, <2>1 DEF Inside
<1>2. ASSUME NEW u \in RegionThreads PROVE (current[u] = Regions!Zero \/ Inside(u, current[u]))'
  <2>1. PICK x : x = current[u] /\ x = current'[u]
        OBVIOUS
  <2>2. x = Regions!Zero \/ Inside(u, x)'
        BY <1>1, <2>1 DEF RegionsIInv, NestInv
  <2> QED BY <2>1, <2>2
<1>3. ASSUME NEW j \in Regions!Index, Live(j)', slot'[j].entered
      PROVE  /\ slot'[j].outer = Regions!Zero \/ Inside(Owner(j), slot[j].outer)'
             /\ slot'[j].outer = Regions!Zero \/ slot'[j].outer # (current[Owner(j)])'
             /\ j # i /\ Live(j) /\ slot[j].entered /\ slot'[j] = slot[j]
  <2>1. j # i /\ Live(j) /\ slot[j].entered /\ slot'[j] = slot[j]
        BY <1>3
  <2>2. PICK u : u = Owner(j) /\ u = Owner(j)'
        BY <2>1
  <2>3. PICK x : x = slot[j].outer /\ x = slot'[j].outer
        BY <2>1
  <2>4. x = Regions!Zero \/ (Inside(u, x) /\ x # current[u])
        BY <2>1, <2>2, <2>3 DEF RegionsIInv, NestInv
  <2>5. x = Regions!Zero \/ (Inside(u, x)' /\ x # current'[u])
        BY <1>1, <2>4
  <2> QED BY <2>1, <2>2, <2>3, <2>5
<1>4. ASSUME NEW j \in Regions!Index, NEW k \in Regions!Index, Live(j)', Live(k)', slot'[j].entered, slot'[k].entered,
             j # k, slot'[j].outer = slot'[k].outer
      PROVE  slot'[j].outer = Regions!Zero
      BY <1>3, <1>4 DEF RegionsIInv, NestInv
<1> QED BY <1>2, <1>3, <1>4 DEF NestInv

\* What only a slot that is not entered changes leaves every allocation placed.
LEMMA PlaceSame ==
  ASSUME Regions!TableSizes, RegionsIInv, NEW i \in Regions!Index, UNCHANGED <<arena, current>>,
         ~slot'[i].entered,
         \A j \in Regions!Index : j # i => slot'[j] = slot[j],
         \A j \in Regions!Index : j # i => Owner(j)' = Owner(j) /\ Handle(j)' = Handle(j) /\ (Live(j)' <=> Live(j)),
         Live(i)' => slot'[i].arena.mem \subseteq {Handle(i)'} /\ slot'[i].arena.chunk /\ slot'[i].root = Regions!Null,
         ~Live(i)' => slot'[i].arena.mem = {} /\ slot'[i].root = Regions!Null
  PROVE  PlaceInv'
<1>1. ASSUME NEW u \in RegionThreads
      PROVE  (arena[u].mem \subseteq {Regions!Holder(u)} /\ arena[u].chunk = (current[u] # Regions!Zero))'
      BY DEF RegionsIInv, PlaceInv, Regions!Holder
<1>2. ASSUME NEW j \in Regions!Index
      PROVE  /\ ~Live(j)' => slot'[j].arena.mem = {} /\ slot'[j].root = Regions!Null /\ ~slot'[j].entered
             /\ Live(j)' => slot'[j].root \in {Regions!Null, Handle(j)'}
             /\ Live(j)' /\ slot'[j].entered =>
                  slot'[j].arena.mem \subseteq {Regions!Displaced(j, Owner(j))'} /\ slot'[j].arena.chunk = (slot'[j].outer # Regions!Zero)
             /\ Live(j)' /\ ~slot'[j].entered => slot'[j].arena.mem \subseteq {Handle(j)'} /\ slot'[j].arena.chunk
  <2>1. CASE j = i
        BY <2>1
  <2>2. CASE j # i
    <3>1. slot'[j] = slot[j] /\ Regions!Displaced(j, Owner(j))' = Regions!Displaced(j, Owner(j))
          BY <2>2 DEF Regions!Displaced
    <3> QED BY <2>2, <3>1 DEF RegionsIInv, PlaceInv
  <2> QED BY <2>1, <2>2
<1> QED BY <1>1, <1>2 DEF PlaceInv

\* What is handed out, by slot, generation and thread.
LEMMA MadeShape ==
  ASSUME NEW m \in Regions!Handles \X RegionThreads
  PROVE  /\ m[1] \in Regions!Handles /\ m[2] \in RegionThreads /\ m[1][2] \in Regions!Index
         /\ m = <<<<m[1][1], m[1][2]>>, m[2]>>
BY DEF Regions!Handles

\* A slot that nobody owns goes to thread t.
LEMMA NewKeeps ==
  ASSUME Regions!TableSizes, RegionsIInv, NEW t \in RegionThreads, Regions!New(t)
  PROVE  RegionsIInv'
<1>1. PICK i \in Regions!Index :
        /\ IF freeList # 0
           THEN /\ i = freeList - 1 /\ freeList' = slot[i].outer[1] /\ UNCHANGED <<used, gens>>
           ELSE /\ i = used /\ used' = used + 1
                /\ gens' = [gens EXCEPT ![i] = Append(@, 1)] /\ UNCHANGED freeList
        /\ slot' = [slot EXCEPT ![i].arena.chunk = TRUE, ![i].outer = Regions!Zero]
        /\ owners' = [owners EXCEPT ![i] = Append(@, t)]
        /\ made' = made \cup {<<Regions!HandleOf(Regions!Latest(gens'[i]), i), t>>}
        /\ Regions!SeenUnderLock(t) /\ UNCHANGED <<arena, current>>
      BY DEF Regions!New
<1>2. /\ used \in 0..RegionSlots /\ freeList \in 0..RegionSlots /\ i \in 0..RegionSlots - 1 /\ RegionSlots \in Nat \ {0}
      /\ GenEnd \in Nat /\ GenEnd >= 2 /\ gens \in [Regions!Index -> Seq(0..GenEnd)] /\ gens[i] \in Seq(0..GenEnd)
      /\ slot \in [Regions!Index -> SlotRecords] /\ slot[i] \in SlotRecords
      BY DEF RegionsIInv, Types, Regions!TableSizes, Regions!Index
<1>3. /\ ~Live(i) /\ Owner(i) = Regions!NoThread /\ (freeList # 0 => InList(i) /\ Gen(i) >= 1 /\ i < used)
      BY <1>1, <1>2 DEF RegionsIInv, ListInv, InList, GenInv, Live
<1>4. Regions!Zero \in Regions!Handles /\ Regions!NoThread \notin RegionThreads
      BY DEF Regions!Zero, Regions!Handles, Regions!Index, Regions!TableSizes
<1>5. Gen(i)' \in 1..GenEnd - 1 /\ (freeList # 0 => Gen(i)' = Gen(i))
  <2>1. CASE freeList # 0
    <3>1. Gen(i)' = Gen(i) /\ Gen(i) \in 0..GenEnd
          BY <1>1, <2>1, LatestTypes DEF Gen, RegionsIInv
    <3> QED BY <1>2, <1>3, <2>1, <3>1 DEF InList
  <2>2. CASE freeList = 0
    <3>1. gens'[i] = Append(gens[i], 1)
          BY <1>1, <1>2, <2>2
    <3>2. 1 \in 0..GenEnd
          BY <1>2
    <3>3. Regions!Latest(gens'[i]) = 1
          BY <1>2, <3>1, <3>2, GenAppend
    <3> QED BY <1>2, <2>2, <3>3 DEF Gen
  <2> QED BY <2>1, <2>2
<1>6. gens' = gens \/ \E g \in 0..GenEnd : gens' = [gens EXCEPT ![i] = Append(@, g)]
  <2>1. 1 \in 0..GenEnd
        BY <1>2
  <2>2. CASE freeList # 0
        BY <1>1, <2>2
  <2>3. CASE freeList = 0
        BY <1>1, <2>1, <2>3
  <2> QED BY <2>2, <2>3
<1>7. /\ owners' \in [Regions!Index -> Seq(RegionThreads \cup {Regions!NoThread})] /\ gens' \in [Regions!Index -> Seq(0..GenEnd)]
      /\ \A j \in Regions!Index : owners'[j] # <<>> /\ gens'[j] # <<>>
      /\ seen' \in [RegionThreads -> [Regions!Index -> Nat \X Nat]] /\ SeenInv'
      /\ Owner(i)' = t
      /\ \A j \in Regions!Index : j # i => Owner(j)' = Owner(j) /\ Gen(j)' = Gen(j) /\ (Live(j)' <=> Live(j)) /\ Handle(j)' = Handle(j)
  <2>1. t \in {t, Regions!NoThread} /\ Owner(i) \in {t, Regions!NoThread}
        BY <1>3
  <2>2. Regions!SeenUnderLock(t) /\ owners' = [owners EXCEPT ![i] = Append(@, t)]
        BY <1>1
  <2> QED BY <1>6, <2>1, <2>2, LoggedStep
<1>8. Live(i)'
      BY <1>4, <1>7 DEF Live
<1>9. PICK s \in SlotRecords : s = [slot[i] EXCEPT !.arena = [slot[i].arena EXCEPT !.chunk = TRUE], !.outer = Regions!Zero]
      BY <1>2, <1>4 DEF SlotRecords, Regions!Arenas
<1>10. /\ s.outer = Regions!Zero /\ s.arena.mem = slot[i].arena.mem /\ s.arena.chunk /\ s.root = slot[i].root
       /\ s.entered = slot[i].entered
  <2>1. slot[i].arena \in Regions!Arenas
        BY <1>2 DEF SlotRecords
  <2> QED BY <1>2, <1>9, <2>1 DEF SlotRecords, Regions!Arenas
<1>11. /\ slot' \in [Regions!Index -> SlotRecords] /\ slot'[i] = s /\ \A j \in Regions!Index : j # i => slot'[j] = slot[j]
      BY <1>1, <1>2, <1>9
<1>12. slot[i].arena.mem = {} /\ slot[i].root = Regions!Null /\ ~slot[i].entered
      BY <1>3 DEF RegionsIInv, PlaceInv
<1>13. used' \in 0..RegionSlots /\ freeList' \in 0..RegionSlots /\ i < used' /\ used <= used' /\ used' <= used + 1
       /\ (used' # used => i = used)
  <2>1. CASE freeList # 0
    <3>1. slot[i].outer \in Regions!Links
          BY <1>3, <2>1 DEF RegionsIInv, ListInv
    <3>2. slot[i].outer[1] \in 0..RegionSlots
          BY <3>1 DEF Regions!Links, Regions!Link
    <3> QED BY <1>1, <1>2, <1>3, <2>1, <3>2
  <2>2. CASE freeList = 0
        BY <1>1, <1>2, <2>2
  <2> QED BY <2>1, <2>2
<1>14. Types'
      BY <1>1, <1>7, <1>11, <1>13 DEF RegionsIInv, Types
<1>15. GenInv'
  <2> SUFFICES ASSUME NEW j \in Regions!Index
               PROVE  /\ j < used' => Gen(j)' >= 1
                      /\ j >= used' => Gen(j)' = 0 /\ ~Live(j)'
                      /\ Live(j)' => Gen(j)' < GenEnd
      BY DEF GenInv
  <2>1. j \in 0..RegionSlots - 1
        BY DEF Regions!Index
  <2>2. CASE j = i
        BY <1>2, <1>5, <1>13, <2>1, <2>2
  <2>3. CASE j # i
    <3>1. j < used' <=> j < used
          BY <1>2, <1>13, <2>1, <2>3
    <3>2. j >= used' <=> j >= used
          BY <1>2, <1>13, <2>1, <2>3
    <3> QED BY <1>7, <2>3, <3>1, <3>2 DEF RegionsIInv, GenInv
  <2> QED BY <2>2, <2>3
<1>16. MadeInv'
  <2>1. Regions!HandleOf(Regions!Latest(gens'[i]), i) = <<Gen(i)', i>>
    <3>1. Regions!Latest(gens'[i]) = Gen(i)'
          BY DEF Gen
    <3>2. Gen(i)' % GenEnd = Gen(i)'
          BY <1>2, <1>5, SmallMod
    <3> QED BY <3>1, <3>2 DEF Regions!HandleOf
  <2>2. <<<<Gen(i)', i>>, t>> \in Regions!Handles \X RegionThreads
        BY <1>2, <1>5 DEF Regions!Handles
  <2>3. made = {m \in Regions!Handles \X RegionThreads : Owner(m[1][2]) = m[2] /\ Gen(m[1][2]) = m[1][1]}
        BY DEF RegionsIInv, MadeInv
  <2>4. ASSUME NEW m \in Regions!Handles \X RegionThreads
        PROVE  m \in made' <=> Owner(m[1][2])' = m[2] /\ Gen(m[1][2])' = m[1][1]
    <3>1. /\ m[2] \in RegionThreads /\ m[1][2] \in Regions!Index /\ m = <<<<m[1][1], m[1][2]>>, m[2]>>
          BY MadeShape
    <3>2. CASE m[1][2] = i
      <4>1. m \notin made
            BY <1>3, <1>4, <2>3, <3>1, <3>2
      <4> QED BY <1>1, <1>7, <2>1, <3>1, <3>2, <4>1
    <3>3. CASE m[1][2] # i
      <4>1. m # <<<<Gen(i)', i>>, t>>
            BY <3>1, <3>3
      <4> QED BY <1>1, <1>7, <2>1, <2>3, <3>1, <3>3, <4>1
    <3> QED BY <3>2, <3>3
  <2>5. made' \subseteq Regions!Handles \X RegionThreads
        BY <1>1, <2>1, <2>2, <2>3
  <2> QED BY <2>4, <2>5 DEF MadeInv
<1>17. ListInv'
  <2>1. \A j \in Regions!Index : InList(j)' <=> InList(j) /\ j # i
    <3> SUFFICES ASSUME NEW j \in Regions!Index PROVE InList(j)' <=> InList(j) /\ j # i
        OBVIOUS
    <3>1. j # i => (j < used' <=> j < used)
          BY <1>2, <1>13 DEF Regions!Index
    <3> QED BY <1>7, <1>8, <3>1 DEF InList
  <2>2. CASE freeList # 0
    <3>1. freeList = i + 1 /\ InList(i)
          BY <1>1, <1>2, <1>3, <2>2
    <3>2. PICK n \in 0..RegionSlots : slot[i].outer = <<n>> /\ freeList' = n
      <4>1. slot[i].outer \in Regions!Links
            BY <3>1 DEF RegionsIInv, ListInv
      <4> QED BY <1>1, <2>2, <4>1 DEF Regions!Links, Regions!Link
    <3>3. n = 0 \/ (n - 1 \in Regions!Index /\ InList(n - 1) /\ n - 1 # i)
      <4>1. slot[i].outer # Regions!Link(freeList)
            BY <2>2, <3>1 DEF RegionsIInv, ListInv
      <4>2. n # i + 1
            BY <3>1, <3>2, <4>1 DEF Regions!Link
      <4>3. n = 0 \/ InList(n - 1)
            BY <3>1, <3>2 DEF RegionsIInv, ListInv, Regions!Link
      <4> QED BY <1>2, <3>2, <4>2, <4>3 DEF Regions!Index
    <3>4. ASSUME NEW j \in Regions!Index, InList(j), j # i
          PROVE  \E k \in 0..RegionSlots : /\ slot[j].outer = <<k>> /\ k # i + 1 /\ (k = n => k = 0)
                                           /\ k = 0 \/ (k - 1 \in Regions!Index /\ InList(k - 1))
      <4>1. slot[j].outer \in Regions!Links /\ (slot[j].outer = Regions!Link(0) \/ InList(slot[j].outer[1] - 1))
            BY <3>4 DEF RegionsIInv, ListInv
      <4>2. PICK k \in 0..RegionSlots : slot[j].outer = <<k>>
            BY <4>1 DEF Regions!Links, Regions!Link
      <4>3. slot[j].outer # Regions!Link(freeList)
            BY <2>2, <3>4 DEF RegionsIInv, ListInv
      <4>4. slot[j].outer = slot[i].outer => slot[j].outer = Regions!Link(0)
            BY <3>1, <3>4 DEF RegionsIInv, ListInv
      <4>5. k # i + 1 /\ (k = n => k = 0)
            BY <3>1, <3>2, <4>2, <4>3, <4>4 DEF Regions!Link
      <4>6. k = 0 \/ (k - 1 \in Regions!Index /\ InList(k - 1))
            BY <1>2, <4>1, <4>2 DEF Regions!Link, Regions!Index
      <4> QED BY <4>2, <4>5, <4>6
    <3>5. (freeList = 0 \/ InList(freeList - 1))'
      <4>1. n = 0 \/ InList(n - 1)'
            BY <2>1, <3>3
      <4> QED BY <3>2, <4>1
    <3>6. ASSUME NEW j \in Regions!Index, InList(j)'
          PROVE  /\ slot'[j].outer \in Regions!Links /\ (slot[j].outer = Regions!Link(0) \/ InList(slot[j].outer[1] - 1))'
                 /\ freeList' # 0 => slot'[j].outer # Regions!Link(freeList')
      <4>1. InList(j) /\ j # i /\ slot'[j] = slot[j]
            BY <1>11, <2>1, <3>6
      <4>2. PICK k \in 0..RegionSlots : /\ slot[j].outer = <<k>> /\ k # i + 1 /\ (k = n => k = 0)
                                        /\ k = 0 \/ (k - 1 \in Regions!Index /\ InList(k - 1))
            BY <3>4, <4>1
      <4>3. k = 0 \/ InList(k - 1)'
            BY <1>2, <2>1, <4>2
      <4>4. slot'[j].outer = <<k>>
            BY <4>1, <4>2
      <4>5. (slot[j].outer = Regions!Link(0) \/ InList(slot[j].outer[1] - 1))'
            BY <4>3, <4>4 DEF Regions!Link
      <4> QED BY <3>2, <4>2, <4>4, <4>5 DEF Regions!Links, Regions!Link
    <3>7. ASSUME NEW j \in Regions!Index, NEW k \in Regions!Index, InList(j)', InList(k)', j # k, slot'[j].outer = slot'[k].outer
          PROVE  slot'[j].outer = Regions!Link(0)
          BY <1>11, <2>1, <3>7 DEF RegionsIInv, ListInv
    <3> QED BY <3>5, <3>6, <3>7 DEF ListInv
  <2>3. CASE freeList = 0
    <3>1. ~InList(i) /\ freeList' = 0
          BY <1>1, <1>2, <2>3 DEF InList
    <3>2. ASSUME NEW j \in Regions!Index, InList(j)'
          PROVE  /\ InList(j) /\ slot'[j] = slot[j] /\ slot'[j].outer \in Regions!Links
                 /\ (slot[j].outer = Regions!Link(0) \/ InList(slot[j].outer[1] - 1))'
      <4>1. InList(j) /\ slot'[j] = slot[j]
            BY <1>11, <2>1, <3>2
      <4>2. slot[j].outer \in Regions!Links /\ (slot[j].outer = Regions!Link(0) \/ InList(slot[j].outer[1] - 1))
            BY <4>1 DEF RegionsIInv, ListInv
      <4>3. PICK k \in 0..RegionSlots : slot[j].outer = <<k>> /\ (k = 0 \/ InList(k - 1))
            BY <4>2 DEF Regions!Links, Regions!Link
      <4>4. k = 0 \/ InList(k - 1)'
        <5>1. k = 0 \/ k - 1 \in Regions!Index
              BY <1>2, <4>3 DEF Regions!Index
        <5>2. \A n \in Regions!Index : InList(n) => InList(n)'
              BY <2>1, <3>1
        <5> QED BY <4>3, <5>1, <5>2
      <4> QED BY <4>1, <4>2, <4>3, <4>4 DEF Regions!Link
    <3>3. ASSUME NEW j \in Regions!Index, NEW k \in Regions!Index, InList(j)', InList(k)', j # k, slot'[j].outer = slot'[k].outer
          PROVE  slot'[j].outer = Regions!Link(0)
          BY <3>2, <3>3 DEF RegionsIInv, ListInv
    <3> QED BY <3>1, <3>2, <3>3 DEF ListInv
  <2> QED BY <2>2, <2>3
<1>18. NestInv'
  <2>1. ~slot'[i].entered
        BY <1>10, <1>11, <1>12
  <2> QED BY <1>1, <1>7, <1>11, <1>12, <2>1, NestSame
<1>19. PlaceInv'
  <2>1. /\ ~slot'[i].entered /\ slot'[i].arena.mem = {} /\ slot'[i].arena.chunk /\ slot'[i].root = Regions!Null
        BY <1>10, <1>11, <1>12
  <2>2. /\ \A j \in Regions!Index : j # i => slot'[j] = slot[j]
        /\ \A j \in Regions!Index : j # i => Owner(j)' = Owner(j) /\ Handle(j)' = Handle(j) /\ (Live(j)' <=> Live(j))
        BY <1>7, <1>11
  <2>3. slot'[i].arena.mem \subseteq {Handle(i)'} /\ UNCHANGED <<arena, current>>
        BY <1>1, <2>1
  <2> QED BY <1>8, <2>1, <2>2, <2>3, PlaceSame
<1> QED BY <1>7, <1>14, <1>15, <1>16, <1>17, <1>18, <1>19 DEF RegionsIInv

\* The owner of a region that is not entered frees it.
LEMMA FreeKeeps ==
  ASSUME Regions!TableSizes, RegionsIInv, NEW t \in RegionThreads, NEW r \in Regions!Handles, Regions!Free(t, r)
  PROVE  RegionsIInv'
<1>1. PICK i \in Regions!Index : i = r[2]
      BY DEF Regions!Handles
<1>2. Owner(i) = t /\ Live(i) /\ Gen(i) = r[1] /\ r = Handle(i)
      BY <1>1, SlotOfLive DEF Regions!Free
<1>3. /\ used \in 0..RegionSlots /\ freeList \in 0..RegionSlots /\ i \in 0..RegionSlots - 1 /\ RegionSlots \in Nat \ {0}
      /\ GenEnd \in Nat /\ GenEnd >= 2 /\ gens \in [Regions!Index -> Seq(0..GenEnd)] /\ gens[i] \in Seq(0..GenEnd)
      /\ slot \in [Regions!Index -> SlotRecords] /\ slot[i] \in SlotRecords /\ Regions!NoThread \notin RegionThreads
      BY DEF RegionsIInv, Types, Regions!TableSizes, Regions!Index
<1>4. Gen(i) \in 1..GenEnd - 1 /\ i < used
  <2>1. Gen(i) \in 1..GenEnd - 1
        BY <1>2, LiveHandle
  <2> QED BY <1>2, <1>3, <2>1 DEF RegionsIInv, GenInv
<1>5. PICK gen \in 2..GenEnd : gen = Gen(i) + 1 /\ gen = Regions!Latest(gens[i]) + 1
      BY <1>3, <1>4 DEF Gen
<1>6. PICK o : o = IF Regions!Retired(gen) THEN slot[i].outer ELSE Regions!Link(freeList)
      OBVIOUS
<1>7. /\ ~slot[i].entered
      /\ owners' = [owners EXCEPT ![i] = Append(@, Regions!NoThread)]
      /\ gens' = [gens EXCEPT ![i] = Append(@, gen)]
      /\ slot' = [slot EXCEPT ![i] = [slot[i] EXCEPT !.arena = [slot[i].arena EXCEPT !.mem = {}], !.root = Regions!Null, !.outer = o]]
      /\ freeList' = IF Regions!Retired(gen) THEN freeList ELSE i + 1
      /\ made' = {m \in made : m[1] # r}
      /\ Regions!SeenUnderLock(t) /\ UNCHANGED <<arena, current, used>>
      BY <1>1, <1>5, <1>6 DEF Regions!Free, Regions!FreedRoot
<1>8. /\ owners' \in [Regions!Index -> Seq(RegionThreads \cup {Regions!NoThread})] /\ gens' \in [Regions!Index -> Seq(0..GenEnd)]
      /\ \A j \in Regions!Index : owners'[j] # <<>> /\ gens'[j] # <<>>
      /\ seen' \in [RegionThreads -> [Regions!Index -> Nat \X Nat]] /\ SeenInv'
      /\ Owner(i)' = Regions!NoThread
      /\ \A j \in Regions!Index : j # i => Owner(j)' = Owner(j) /\ Gen(j)' = Gen(j) /\ (Live(j)' <=> Live(j)) /\ Handle(j)' = Handle(j)
  <2>1. Regions!NoThread \in {t, Regions!NoThread} /\ Owner(i) \in {t, Regions!NoThread}
        BY <1>2
  <2>2. Regions!SeenUnderLock(t) /\ owners' = [owners EXCEPT ![i] = Append(@, Regions!NoThread)]
        BY <1>7
  <2>3. gens' = gens \/ \E g \in 0..GenEnd : gens' = [gens EXCEPT ![i] = Append(@, g)]
    <3>1. gen \in 0..GenEnd
          BY <1>3
    <3> QED BY <1>7, <3>1
  <2> QED BY <2>1, <2>2, <2>3, LoggedStep
<1>9. ~Live(i)' /\ Gen(i)' = gen
  <2>1. gens'[i] = Append(gens[i], gen) /\ gen \in 0..GenEnd
        BY <1>3, <1>7
  <2>2. Regions!Latest(gens'[i]) = gen
        BY <1>3, <2>1, GenAppend
  <2> QED BY <1>8, <2>2 DEF Live, Gen
<1>10. o \in Regions!Handles \cup Regions!Links
      BY <1>3, <1>6 DEF SlotRecords, Regions!Links
<1>11. PICK s \in SlotRecords : s = [slot[i] EXCEPT !.arena = [slot[i].arena EXCEPT !.mem = {}], !.root = Regions!Null, !.outer = o]
      BY <1>3, <1>10 DEF SlotRecords, Regions!Arenas
<1>12. s.outer = o /\ s.arena.mem = {} /\ s.root = Regions!Null /\ ~s.entered
  <2>1. slot[i].arena \in Regions!Arenas
        BY <1>3 DEF SlotRecords
  <2> QED BY <1>3, <1>7, <1>11, <2>1 DEF SlotRecords, Regions!Arenas
<1>13. slot' \in [Regions!Index -> SlotRecords] /\ slot'[i] = s /\ \A j \in Regions!Index : j # i => slot'[j] = slot[j]
      BY <1>3, <1>7, <1>11
<1>14. Types'
  <2>1. freeList' \in 0..RegionSlots
        BY <1>3, <1>7
  <2> QED BY <1>7, <1>8, <1>13, <2>1 DEF RegionsIInv, Types
<1>15. GenInv'
  <2> SUFFICES ASSUME NEW j \in Regions!Index
               PROVE  /\ j < used => Gen(j)' >= 1
                      /\ j >= used => Gen(j)' = 0 /\ ~Live(j)'
                      /\ Live(j)' => Gen(j)' < GenEnd
      BY <1>7 DEF GenInv
  <2>1. CASE j = i
        BY <1>3, <1>4, <1>9, <2>1
  <2>2. CASE j # i
        BY <1>8, <2>2 DEF RegionsIInv, GenInv
  <2> QED BY <2>1, <2>2
<1>16. MadeInv'
  <2>1. made = {m \in Regions!Handles \X RegionThreads : Owner(m[1][2]) = m[2] /\ Gen(m[1][2]) = m[1][1]}
        BY DEF RegionsIInv, MadeInv
  <2>2. ASSUME NEW m \in Regions!Handles \X RegionThreads
        PROVE  m \in made' <=> Owner(m[1][2])' = m[2] /\ Gen(m[1][2])' = m[1][1]
    <3>1. /\ m[2] \in RegionThreads /\ m[1][2] \in Regions!Index /\ m[1] = <<m[1][1], m[1][2]>>
          BY MadeShape
    <3>2. CASE m[1][2] = i
      <4>1. m \in made => m[1] = r
            BY <1>2, <2>1, <3>1, <3>2 DEF Handle
      <4> QED BY <1>3, <1>7, <1>8, <3>1, <3>2, <4>1
    <3>3. CASE m[1][2] # i
      <4>1. m[1] # r
            BY <1>1, <3>3
      <4> QED BY <1>7, <1>8, <2>1, <3>1, <3>3, <4>1
    <3> QED BY <3>2, <3>3
  <2>3. made' \subseteq Regions!Handles \X RegionThreads
        BY <1>7, <2>1
  <2> QED BY <2>2, <2>3 DEF MadeInv
<1>17. ListInv'
  <2>1. ASSUME NEW j \in Regions!Index, InList(j)
        PROVE  \E k \in 0..RegionSlots : /\ slot[j].outer = <<k>> /\ k # i + 1 /\ (k = freeList => k = 0)
                                         /\ k = 0 \/ (k - 1 \in Regions!Index /\ InList(k - 1))
    <3>1. slot[j].outer \in Regions!Links /\ (slot[j].outer = Regions!Link(0) \/ InList(slot[j].outer[1] - 1))
          BY <2>1 DEF RegionsIInv, ListInv
    <3>2. PICK k \in 0..RegionSlots : slot[j].outer = <<k>>
          BY <3>1 DEF Regions!Links, Regions!Link
    <3>3. k = 0 \/ (k - 1 \in Regions!Index /\ InList(k - 1))
          BY <1>3, <3>1, <3>2 DEF Regions!Link, Regions!Index
    <3>4. k # i + 1
      <4> SUFFICES ASSUME k = i + 1 PROVE FALSE
          OBVIOUS
      <4>1. k - 1 = i /\ k # 0
            BY <1>3
      <4>2. InList(i)
            BY <3>3, <4>1
      <4> QED BY <1>2, <4>2 DEF InList
    <3>5. k = freeList => k = 0
          BY <2>1, <3>2 DEF RegionsIInv, ListInv, Regions!Link
    <3> QED BY <3>2, <3>3, <3>4, <3>5
  <2>2. ~InList(i) /\ (InList(i)' <=> ~Regions!Retired(gen))
        BY <1>2, <1>3, <1>4, <1>7, <1>9 DEF InList, Regions!Retired
  <2>3. \A j \in Regions!Index : j # i => (InList(j)' <=> InList(j))
        BY <1>7, <1>8 DEF InList
  <2>4. (freeList = 0 \/ InList(freeList - 1))'
    <3>1. CASE Regions!Retired(gen)
      <4>1. freeList' = freeList /\ (freeList = 0 \/ InList(freeList - 1))
        <5>1. freeList' = freeList
              BY <1>7, <3>1
        <5>2. freeList = 0 \/ InList(freeList - 1)
              BY DEF RegionsIInv, ListInv
        <5> QED BY <5>1, <5>2
      <4>2. freeList = 0 \/ (freeList - 1 \in Regions!Index /\ freeList - 1 # i)
            BY <1>3, <2>2, <4>1 DEF Regions!Index
      <4>3. PICK k \in 0..RegionSlots : k = freeList /\ k = freeList'
            BY <1>3, <4>1
      <4>4. k = 0 \/ InList(k - 1)'
            BY <2>3, <4>1, <4>2, <4>3
      <4> QED BY <4>3, <4>4
    <3>2. CASE ~Regions!Retired(gen)
      <4>1. freeList' = i + 1 /\ i = i + 1 - 1
            BY <1>3, <1>7, <3>2
      <4>2. PICK k : k = i + 1
            OBVIOUS
      <4>3. InList(k - 1)'
        <5>1. k - 1 = i
              BY <1>3, <4>2
        <5> QED BY <2>2, <3>2, <5>1
      <4> QED BY <4>1, <4>2, <4>3
    <3> QED BY <3>1, <3>2
  <2>5. ASSUME NEW j \in Regions!Index, InList(j)'
        PROVE  \E k \in 0..RegionSlots : /\ slot'[j].outer = <<k>> /\ (k = freeList' => k = 0)
                                         /\ (k = 0 \/ InList(k - 1)') /\ (j = i => k = freeList)
    <3>1. CASE j = i
      <4>1. ~Regions!Retired(gen) /\ slot'[j].outer = <<freeList>> /\ freeList' = i + 1
            BY <1>6, <1>7, <1>12, <1>13, <2>2, <2>5, <3>1 DEF Regions!Link
      <4>2. freeList = 0 \/ (freeList - 1 \in Regions!Index /\ InList(freeList - 1))
            BY <1>3 DEF RegionsIInv, ListInv, Regions!Index
      <4>3. freeList = 0 \/ freeList - 1 # i
            BY <2>2, <4>2
      <4>4. freeList = 0 \/ InList(freeList - 1)
            BY <4>2
      <4>5. PICK k \in 0..RegionSlots : k = freeList
            BY <1>3
      <4>6. k = 0 \/ InList(k - 1)'
            BY <2>3, <4>2, <4>3, <4>5
      <4>7. k = i + 1 => k = 0
            BY <1>3, <4>3, <4>5
      <4> QED BY <3>1, <4>1, <4>5, <4>6, <4>7
    <3>2. CASE j # i
      <4>1. InList(j) /\ slot'[j] = slot[j]
            BY <1>13, <2>3, <2>5, <3>2
      <4>2. PICK k \in 0..RegionSlots : /\ slot[j].outer = <<k>> /\ k # i + 1 /\ (k = freeList => k = 0)
                                        /\ k = 0 \/ (k - 1 \in Regions!Index /\ InList(k - 1))
            BY <2>1, <4>1
      <4>3. k = 0 \/ InList(k - 1)'
            BY <2>2, <2>3, <4>2
      <4>4. k = freeList' => k = 0
            BY <1>7, <4>2
      <4> QED BY <3>2, <4>1, <4>2, <4>3, <4>4
    <3> QED BY <3>1, <3>2
  <2>6. ASSUME NEW j \in Regions!Index, InList(j)'
        PROVE  /\ slot'[j].outer \in Regions!Links /\ (slot[j].outer = Regions!Link(0) \/ InList(slot[j].outer[1] - 1))'
               /\ freeList' # 0 => slot'[j].outer # Regions!Link(freeList')
    <3>1. PICK k \in 0..RegionSlots : slot'[j].outer = <<k>> /\ (k = freeList' => k = 0) /\ (k = 0 \/ InList(k - 1)')
          BY <2>5, <2>6
    <3>2. (slot[j].outer = Regions!Link(0) \/ InList(slot[j].outer[1] - 1))'
          BY <3>1 DEF Regions!Link
    <3> QED BY <3>1, <3>2 DEF Regions!Links, Regions!Link
  <2>7. ASSUME NEW j \in Regions!Index, NEW k \in Regions!Index, InList(j)', InList(k)', j # k, slot'[j].outer = slot'[k].outer
        PROVE  slot'[j].outer = Regions!Link(0)
    <3>1. ASSUME NEW n \in Regions!Index, n # i, InList(n)', InList(i)', slot'[n].outer = slot'[i].outer
          PROVE  slot'[n].outer = Regions!Link(0)
      <4>1. InList(n) /\ slot'[n] = slot[n]
            BY <1>13, <2>3, <3>1
      <4>2. PICK k1 \in 0..RegionSlots : slot[n].outer = <<k1>> /\ (k1 = freeList => k1 = 0)
            BY <2>1, <4>1
      <4>3. slot'[i].outer = <<freeList>>
            BY <2>5, <3>1
      <4>4. k1 = freeList
            BY <3>1, <4>1, <4>2, <4>3
      <4> QED BY <4>1, <4>2, <4>4 DEF Regions!Link
    <3>2. CASE j # i /\ k # i
          BY <1>13, <2>3, <2>7, <3>2 DEF RegionsIInv, ListInv
    <3>3. CASE j = i
          BY <2>7, <3>1, <3>3
    <3>4. CASE k = i
          BY <2>7, <3>1, <3>4
    <3> QED BY <3>2, <3>3, <3>4
  <2> QED BY <2>4, <2>6, <2>7 DEF ListInv
<1>18. NestInv'
      BY <1>7, <1>8, <1>12, <1>13, NestSame
<1>19. PlaceInv'
      BY <1>7, <1>8, <1>9, <1>12, <1>13, PlaceSame
<1> QED BY <1>8, <1>14, <1>15, <1>16, <1>17, <1>18, <1>19 DEF RegionsIInv
-----------------------------------------------------------------------------
\* A step that changes nothing keeps the invariant.
LEMMA RegionsStutterKeeps ==
  ASSUME RegionsIInv, UNCHANGED Regions!vars
  PROVE  RegionsIInv'
<1>1. UNCHANGED <<arena, current, slot, owners, gens, seen, used, freeList, made>>
      BY DEF Regions!vars
<1>2. \A j : (InList(j)' <=> InList(j)) /\ (Live(j)' <=> Live(j)) /\ Owner(j)' = Owner(j) /\ Gen(j)' = Gen(j) /\ Handle(j)' = Handle(j)
      BY <1>1 DEF InList, Live, Owner, Gen, Handle
<1>3. \A u, x : Inside(u, x)' <=> Inside(u, x)
      BY <1>1, <1>2 DEF Inside
<1>4. \A j, u : Regions!Displaced(j, u)' = Regions!Displaced(j, u) /\ Regions!Holder(u)' = Regions!Holder(u)
      BY <1>1 DEF Regions!Displaced, Regions!Holder
<1>5. Types' /\ MadeInv' /\ GenInv' /\ SeenInv'
      BY <1>1, <1>2 DEF RegionsIInv, Types, MadeInv, GenInv, SeenInv
<1>6. ListInv'
      BY <1>1, <1>2 DEF RegionsIInv, ListInv
<1>7. NestInv'
      BY <1>1, <1>2, <1>3 DEF RegionsIInv, NestInv
<1>8. PlaceInv'
      BY <1>1, <1>2, <1>4 DEF RegionsIInv, PlaceInv
<1> QED BY <1>5, <1>6, <1>7, <1>8 DEF RegionsIInv

\* Every step keeps the invariant.
LEMMA RegionsStepKeeps ==
  ASSUME Regions!TableSizes, RegionsIInv, [Regions!Next]_(Regions!vars)
  PROVE  RegionsIInv'
BY RegionsStutterKeeps, NewKeeps, AllocKeeps, EnterKeeps, LeaveKeeps, FreeKeeps DEF Regions!Next

\* The invariant is what is promised.
LEMMA ApartNow ==
  ASSUME Regions!TableSizes, RegionsIInv
  PROVE  Regions!RegionsApart
<1>1. made = {m \in Regions!Handles \X RegionThreads : Owner(m[1][2]) = m[2] /\ Gen(m[1][2]) = m[1][1]}
      BY DEF RegionsIInv, MadeInv
<1>2. Regions!TypeOK
      BY <1>1 DEF RegionsIInv, Types, Regions!TypeOK, SlotRecords
<1>3. Regions!StaleRefused
  <2> SUFFICES ASSUME NEW t \in RegionThreads, NEW r \in Regions!Handles, Regions!SlotOf(t, r)
               PROVE  <<r, t>> \in made
      BY DEF Regions!StaleRefused
  <2>1. Owner(r[2]) = t /\ Gen(r[2]) = r[1]
        BY SlotOfLive
  <2> QED BY <1>1, <2>1
<1>4. ASSUME NEW m \in made
      PROVE  \E i \in Regions!Index : /\ m[1][2] = i /\ m[1] = Handle(i) /\ m[2] = Owner(i)
                                      /\ Live(i) /\ m[2] \in RegionThreads /\ m[1] # Regions!Zero
  <2>1. m \in Regions!Handles \X RegionThreads /\ Owner(m[1][2]) = m[2] /\ Gen(m[1][2]) = m[1][1]
        BY <1>1
  <2>2. /\ m[1] \in Regions!Handles /\ m[2] \in RegionThreads /\ m[1][2] \in Regions!Index /\ m[1] = <<m[1][1], m[1][2]>>
        BY <2>1, MadeShape
  <2>3. PICK i \in Regions!Index : m[1][2] = i
        BY <2>2
  <2>4. m[1] = Handle(i) /\ Live(i) /\ m[2] = Owner(i)
        BY <2>1, <2>2, <2>3 DEF Handle, Live, Regions!TableSizes
  <2>5. Handle(i) # Regions!Zero
        BY <2>4, LiveHandle
  <2> QED BY <2>2, <2>3, <2>4, <2>5
<1>5. Regions!LiveUsable
  <2> SUFFICES ASSUME NEW m \in made
               PROVE  /\ m[1] # Regions!Zero
                      /\ Regions!OwnersRead(m[2], m[1][2]) = {m[2]}
                      /\ Regions!GensRead(m[2], m[1][2]) = {m[1][1]}
      BY DEF Regions!LiveUsable
  <2>1. PICK i \in Regions!Index : /\ m[1][2] = i /\ m[1] = Handle(i) /\ m[2] = Owner(i)
                                   /\ Live(i) /\ m[2] \in RegionThreads /\ m[1] # Regions!Zero
        BY <1>4
  <2>2. /\ Len(owners[i]) \in Nat \ {0} /\ Len(gens[i]) \in Nat \ {0}
        /\ Owner(i) = owners[i][Len(owners[i])] /\ Gen(i) = gens[i][Len(gens[i])]
        BY LatestTypes DEF RegionsIInv
  <2>3. seen[m[2]][i] = <<Len(owners[i]), Len(gens[i])>>
    <3>1. seen[m[2]][i][1] \in 1..Len(owners[i])
          BY <2>1 DEF RegionsIInv, SeenInv
    <3>2. Len(owners[i]) \in seen[m[2]][i][1]..Len(owners[i]) /\ owners[i][Len(owners[i])] = m[2]
          BY <2>1, <2>2, <3>1
    <3> QED BY <2>1, <3>2 DEF RegionsIInv, SeenInv
  <2>4. Regions!OwnersRead(m[2], i) = {Owner(i)}
    <3>1. Regions!OwnersRead(m[2], i) = {owners[i][k] : k \in Len(owners[i])..Len(owners[i])}
          BY <2>3 DEF Regions!OwnersRead
    <3>2. Len(owners[i])..Len(owners[i]) = {Len(owners[i])}
          BY <2>2
    <3> QED BY <2>2, <3>1, <3>2
  <2>5. Regions!GensRead(m[2], i) = {Gen(i)}
    <3>1. Regions!GensRead(m[2], i) = {gens[i][k] : k \in Len(gens[i])..Len(gens[i])}
          BY <2>3 DEF Regions!GensRead
    <3>2. Len(gens[i])..Len(gens[i]) = {Len(gens[i])}
          BY <2>2
    <3> QED BY <2>2, <3>1, <3>2
  <2> QED BY <2>1, <2>4, <2>5 DEF Handle
<1>6. Regions!RightArena
  <2>1. ASSUME NEW t \in RegionThreads
        PROVE  arena[t].mem \subseteq {Regions!Holder(t)} /\ arena[t].chunk = (current[t] # Regions!Zero)
        BY DEF RegionsIInv, PlaceInv
  <2>2. ASSUME NEW m \in made
        PROVE  IF slot[m[1][2]].entered
               THEN /\ slot[m[1][2]].arena.mem \subseteq {Regions!Displaced(m[1][2], m[2])}
                    /\ slot[m[1][2]].arena.chunk = (slot[m[1][2]].outer # Regions!Zero)
               ELSE slot[m[1][2]].arena.mem \subseteq {m[1]} /\ slot[m[1][2]].arena.chunk
    <3>1. PICK i \in Regions!Index : m[1][2] = i /\ m[1] = Handle(i) /\ m[2] = Owner(i) /\ Live(i)
          BY <1>4
    <3> QED BY <3>1 DEF RegionsIInv, PlaceInv
  <2> QED BY <2>1, <2>2 DEF Regions!RightArena
<1>7. Regions!RootOwn
  <2> SUFFICES ASSUME NEW m \in made PROVE slot[m[1][2]].root \in {Regions!Null, m[1]}
      BY DEF Regions!RootOwn
  <2>1. PICK i \in Regions!Index : m[1][2] = i /\ m[1] = Handle(i) /\ Live(i)
        BY <1>4
  <2> QED BY <2>1 DEF RegionsIInv, PlaceInv
<1> QED BY <1>2, <1>3, <1>5, <1>6, <1>7 DEF Regions!RegionsApart

\* The memory regions of the run: their invariant while that part moves.
RegionsPart == part = "regions" => RegionsIInv

\* For any number of threads, slots and generations: whatever the relaxed
\* loads answer, a stale handle is refused and a live one accepted, each
\* allocation is in the arena of its own region however regions are nested,
\* and no region starts with another's root (nish_region_slot_of,
\* nish_region_enter, nish_region_leave, nish_region_free).
THEOREM RegionsStayApart == ReuseSpec => []RegionsApart
<1>1. ReuseInit => RegionsPart
      BY InitRegions, TableAssumption DEF ReuseInit, RegionsPart
<1>2. ASSUME RegionsPart, [ReuseNext]_allVars PROVE RegionsPart'
  <2>1. part' = part /\ (part = "regions" => [Regions!Next]_(Regions!vars))
        BY <1>2 DEF ReuseNext, allVars, regionVars, Regions!vars
  <2>2. CASE part # "regions"
        BY <2>1, <2>2 DEF RegionsPart
  <2>3. CASE part = "regions"
    <3>1. RegionsIInv'
          BY <1>2, <2>1, <2>3, RegionsStepKeeps, TableAssumption DEF RegionsPart
    <3> QED BY <3>1 DEF RegionsPart
  <2> QED BY <2>2, <2>3
<1>3. RegionsPart => RegionsApart
      BY ApartNow, TableAssumption DEF RegionsPart, RegionsApart
<1> QED BY <1>1, <1>2, <1>3, PTL DEF ReuseSpec

-----------------------------------------------------------------------------
\* The pool of connections to an origin.

\* The cardinality of the instance is this module's.
LEMMA SameCardinality ==
  ASSUME NEW S
  PROVE  Calls!Cardinality(S) = Cardinality(S)
BY DEF Calls!Cardinality, Cardinality

\* What the pool's fields hold.
Marks == [for : 0..MaxCalls, stray : BOOLEAN]
ACall == [id : 0..MaxCalls, retried : BOOLEAN, ok : BOOLEAN, others : SUBSET Marks]
AConn == [state : {"closed", "connecting", "busy", "idle"}, call : 0..CallSlots,
          sent : BOOLEAN, reused : BOOLEAN, answered : BOOLEAN]
Mail == [for : 0..MaxCalls, kind : {"part", "end", "bad"}, stray : BOOLEAN]
ANet == [inbox : Seq(Mail), asked : Seq(0..MaxCalls), closed : {"no", "fin", "reset"}, stray : BOOLEAN]
Pools == [call : [1..CallSlots -> ACall], free : Seq(1..CallSlots), waiting : Seq(1..CallSlots), done : Seq(1..CallSlots),
          taken : SUBSET (1..CallSlots), conn : [1..Conns -> AConn], net : [1..Conns -> ANet],
          ends : [Calls!Calls -> Nat], tries : [Calls!Calls -> Nat]]

Resting == {"closed", "idle"}

\* A sequence without repetitions, and what it has.
Once(q) == \A i, j \in 1..Len(q) : q[i] = q[j] => i = j
Has(q, s) == \E k \in 1..Len(q) : q[k] = s

\* The sequence r is q with s added, and without it.
Added(q, s, r) == (\A t : Has(r, t) <=> Has(q, t) \/ t = s) /\ (Once(q) /\ ~Has(q, s) => Once(r))
Removed(q, s, r) == Has(q, s) /\ (\A t : Has(r, t) <=> Has(q, t) /\ t # s) /\ Once(r)

\* A sequence with s in front.
Before(s, q) == <<s>> \o q

\* Where a slot can be.
Places == {"free", "waiting", "conn", "done", "taken"}
Codes == {"none", "closed", "connect", "error", "reset", "timeout"}
Holds(w, s) == \E c \in 1..Conns : w.conn[c].call = s

\* Each slot is where wh says, once.
Placed(w, wh) ==
  /\ Once(w.free) /\ Once(w.waiting) /\ Once(w.done)
  /\ \A c, d \in 1..Conns : w.conn[c].call = w.conn[d].call /\ w.conn[c].call # Calls!None => c = d
  /\ \A s \in 1..CallSlots :
       /\ Has(w.free, s) <=> wh[s] = "free"
       /\ Has(w.waiting, s) <=> wh[s] = "waiting"
       /\ Has(w.done, s) <=> wh[s] = "done"
       /\ Holds(w, s) <=> wh[s] = "conn"
       /\ s \in w.taken <=> wh[s] = "taken"

\* What was not sent for a call came on a connection that was astray.
AllStray(others) == \A p \in others : p.stray

\* What has happened to the call x in the place p.
CallOK(w, x, p) ==
  /\ p = "free" <=> x.id = Calls!None
  /\ p = "waiting" => x.others = {} /\ w.ends[x.id] = 0 /\ w.tries[x.id] = IF x.retried THEN 1 ELSE 0
  /\ p = "conn" => w.ends[x.id] = 0 /\ w.tries[x.id] = IF x.retried THEN 2 ELSE 1
  /\ p = "done" => w.ends[x.id] = 1 /\ (x.ok => AllStray(x.others))
  /\ p = "taken" => w.ends[x.id] = 1

\* The slots are in their places, and no two have the same call.
Well(w, wh) ==
  /\ w \in Pools /\ wh \in [1..CallSlots -> Places] /\ Placed(w, wh)
  /\ \A s \in 1..CallSlots : CallOK(w, w.call[s], wh[s])
  /\ \A s, t \in 1..CallSlots : w.call[s].id = w.call[t].id /\ w.call[s].id # Calls!None => s = t
  /\ \A i \in Calls!Calls : w.tries[i] <= 2 /\ w.ends[i] <= 1

\* What the call k of the connection x was given is its own.
OwnGot(x, k) == AllStray(k.others) /\ (~x.answered => k.others = {})

\* All up to the end of a response in the inbox is for the call id, and so is
\* what comes, unless the connection is astray.
Fronted(n, id) ==
  \A k \in 1..Len(n.inbox) : (\A j \in 1..k - 1 : n.inbox[j].kind = "part") => n.inbox[k].for = id \/ n.inbox[k].stray
Owed(n, id) == n.asked = IF Calls!Endings(n.inbox) = {} THEN <<id>> ELSE <<>>
PoolOwn(n, id) == Fronted(n, id) /\ (n.closed = "no" /\ ~n.stray => Owed(n, id))

\* No answer is due on a connection that is idle, unless it is astray.
Settled(n) == n.closed = "no" /\ ~n.stray => n.asked = <<>>

\* The connection c.
ConnOK(w, c) ==
  LET x == w.conn[c] IN
  /\ x.call = Calls!None <=> x.state \in Resting
  /\ x.state \in {"closed", "connecting"} => w.net[c] = Calls!Quiet
  /\ x.call # Calls!None => OwnGot(x, w.call[x.call])
  /\ x.state = "busy" => PoolOwn(w.net[c], w.call[x.call].id)
  /\ x.state = "idle" => Settled(w.net[c])

\* Pools between two steps.
Fine(w) == (\E wh \in [1..CallSlots -> Places] : Well(w, wh)) /\ \A c \in 1..Conns : ConnOK(w, c)

PoolIInv ==
  /\ Fine(pool)
  /\ \E m \in 0..MaxCalls : Calls!Known(pool) = 1..m
  /\ pc \in {"app", "service", "deadline", "expire", "dispatch"} /\ at \in 1..Conns /\ late \in 0..MaxCalls

\* The connection c has the call of slot s, in a pool that is well but for it.
Held(w, wh, c, s) ==
  /\ Well(w, wh) /\ w.conn[c].call = s /\ OwnGot(w.conn[c], w.call[s])
  /\ \A d \in 1..Conns : d # c => ConnOK(w, d)

\* A step from w to r that makes no call.
Goes(w, r) == Fine(r) /\ Calls!Known(r) = Calls!Known(w)
-----------------------------------------------------------------------------
\* An element put at the end.
LEMMA AppendHas ==
  ASSUME NEW q \in Seq(1..CallSlots), NEW s \in 1..CallSlots
  PROVE  Added(q, s, Append(q, s))
<1>1. /\ Len(Append(q, s)) = Len(q) + 1 /\ Len(q) \in Nat
      /\ \A k \in 1..Len(q) : Append(q, s)[k] = q[k]
      /\ Append(q, s)[Len(q) + 1] = s
      OBVIOUS
<1>2. PICK r, n : r = Append(q, s) /\ n = Len(q)
      OBVIOUS
<1>3. /\ n \in Nat /\ Len(r) = n + 1 /\ r[n + 1] = s /\ \A k \in 1..n : r[k] = q[k]
      BY <1>1, <1>2
<1>4. \A k \in 1..Len(r) : k \in 1..n \/ k = n + 1
      BY <1>3
<1>5. \A t : Has(r, t) <=> Has(q, t) \/ t = s
  <2> SUFFICES ASSUME NEW t PROVE Has(r, t) <=> Has(q, t) \/ t = s
      OBVIOUS
  <2>1. Has(r, t) => Has(q, t) \/ t = s
        BY <1>2, <1>3, <1>4 DEF Has
  <2>2. Has(q, t) => Has(r, t)
        BY <1>2, <1>3 DEF Has
  <2>3. t = s => Has(r, t)
        BY <1>3 DEF Has
  <2> QED BY <2>1, <2>2, <2>3
<1>6. Once(q) /\ ~Has(q, s) => Once(r)
      BY <1>2, <1>3, <1>4 DEF Once, Has
<1>7. Added(q, s, r)
      BY <1>5, <1>6 DEF Added
<1> QED BY <1>2, <1>7

\* An element put in front.
LEMMA ConsHas ==
  ASSUME NEW q \in Seq(1..CallSlots), NEW s \in 1..CallSlots
  PROVE  Added(q, s, Before(s, q))
<1>1. PICK r, n : r = Before(s, q) /\ n = Len(q)
      OBVIOUS
<1>2. /\ n \in Nat /\ Len(r) = n + 1 /\ r[1] = s /\ \A k \in 1..n : r[k + 1] = q[k]
      BY <1>1 DEF Before
<1>3. \A k \in 1..Len(r) : k = 1 \/ (k - 1 \in 1..n /\ r[k] = q[k - 1])
  <2> SUFFICES ASSUME NEW k \in 1..Len(r), k # 1 PROVE k - 1 \in 1..n /\ r[k] = q[k - 1]
      OBVIOUS
  <2>1. k - 1 \in 1..n /\ (k - 1) + 1 = k
        BY <1>2
  <2> QED BY <1>2, <2>1
<1>4. \A t : Has(r, t) <=> Has(q, t) \/ t = s
  <2> SUFFICES ASSUME NEW t PROVE Has(r, t) <=> Has(q, t) \/ t = s
      OBVIOUS
  <2>1. Has(r, t) => Has(q, t) \/ t = s
        BY <1>1, <1>2, <1>3 DEF Has
  <2>2. ASSUME Has(q, t) PROVE Has(r, t)
    <3>1. PICK k \in 1..n : q[k] = t
          BY <1>1, <2>2 DEF Has
    <3>2. k + 1 \in 1..Len(r) /\ r[k + 1] = t
          BY <1>2, <3>1
    <3> QED BY <3>2 DEF Has
  <2>3. t = s => Has(r, t)
        BY <1>2 DEF Has
  <2> QED BY <2>1, <2>2, <2>3
<1>5. ASSUME Once(q), ~Has(q, s) PROVE Once(r)
  <2> SUFFICES ASSUME NEW i \in 1..Len(r), NEW j \in 1..Len(r), r[i] = r[j] PROVE i = j
      BY DEF Once
  <2>1. CASE i = 1 /\ j = 1
        BY <2>1
  <2>2. CASE i = 1 /\ j # 1
        BY <1>1, <1>2, <1>3, <1>5, <2>2 DEF Has
  <2>3. CASE i # 1 /\ j = 1
        BY <1>1, <1>2, <1>3, <1>5, <2>3 DEF Has
  <2>4. CASE i # 1 /\ j # 1
    <3>1. i - 1 \in 1..Len(q) /\ j - 1 \in 1..Len(q) /\ q[i - 1] = q[j - 1]
          BY <1>1, <1>3, <2>4
    <3>2. i - 1 = j - 1
          BY <1>5, <3>1 DEF Once
    <3> QED BY <1>2, <3>2
  <2> QED BY <2>1, <2>2, <2>3, <2>4
<1>6. Added(q, s, r)
      BY <1>4, <1>5 DEF Added
<1> QED BY <1>1, <1>6

\* The two ends of a sequence.
LEMMA SeqEnds ==
  ASSUME NEW q \in Seq(1..CallSlots), q # <<>>
  PROVE  /\ Head(q) = q[1] /\ Head(q) \in 1..CallSlots /\ 1 \in 1..Len(q)
         /\ q[Len(q)] \in 1..CallSlots /\ Len(q) \in 1..Len(q)
         /\ SubSeq(q, 1, Len(q) - 1) \in Seq(1..CallSlots) /\ Len(SubSeq(q, 1, Len(q) - 1)) = Len(q) - 1
         /\ \A k \in 1..Len(q) - 1 : SubSeq(q, 1, Len(q) - 1)[k] = q[k]
<1>1. PICK S : S = 1..CallSlots
      OBVIOUS
<1>2. q \in Seq(S)
      BY <1>1
<1>3. Len(q) \in Nat /\ Len(q) > 0
      BY <1>2
<1>4. 1 \in 1..Len(q) /\ Len(q) \in 1..Len(q)
      BY <1>3
<1>5. q[1] \in S /\ q[Len(q)] \in S
      BY <1>2, <1>4
<1>7. Head(q) = q[1]
      BY <1>2
<1>6. /\ SubSeq(q, 1, Len(q) - 1) \in Seq(S) /\ Len(SubSeq(q, 1, Len(q) - 1)) = Len(q) - 1
      /\ \A k \in 1..Len(q) - 1 : SubSeq(q, 1, Len(q) - 1)[k] = q[k]
  <2>1. PICK r, n : r = SubSeq(q, 1, n - 1) /\ n = Len(q)
        OBVIOUS
  <2>2. n \in Nat /\ n > 0 /\ r \in Seq(S) /\ Len(r) = n - 1 /\ \A k \in 1..n - 1 : r[k] = q[k]
        BY <1>2, <1>3, <2>1
  <2> QED BY <2>1, <2>2
<1> QED BY <1>1, <1>4, <1>5, <1>6, <1>7

\* The first element taken away.
LEMMA TailHas ==
  ASSUME NEW q \in Seq(1..CallSlots), q # <<>>, Once(q)
  PROVE  Tail(q) \in Seq(1..CallSlots) /\ Head(q) \in 1..CallSlots /\ Removed(q, Head(q), Tail(q))
<1>1. PICK r, n : r = Tail(q) /\ n = Len(q)
      OBVIOUS
<1>2. /\ r \in Seq(1..CallSlots) /\ n \in Nat /\ n > 0 /\ Len(r) = n - 1 /\ \A k \in 1..n - 1 : r[k] = q[k + 1]
      BY <1>1
<1>3. Head(q) = q[1] /\ Head(q) \in 1..CallSlots /\ 1 \in 1..Len(q)
      BY SeqEnds
<1>4. \A k \in 1..n : k = 1 \/ (k - 1 \in 1..Len(r) /\ r[k - 1] = q[k])
  <2> SUFFICES ASSUME NEW k \in 1..n, k # 1 PROVE k - 1 \in 1..Len(r) /\ r[k - 1] = q[k]
      OBVIOUS
  <2>1. k - 1 \in 1..n - 1 /\ (k - 1) + 1 = k
        BY <1>2
  <2> QED BY <1>2, <2>1
<1>5. \A k \in 1..Len(r) : k + 1 \in 1..n /\ k + 1 # 1 /\ r[k] = q[k + 1]
      BY <1>2
<1>6. Once(r)
  <2> SUFFICES ASSUME NEW i \in 1..Len(r), NEW j \in 1..Len(r), r[i] = r[j] PROVE i = j
      BY DEF Once
  <2>1. i + 1 = j + 1
        BY <1>1, <1>5 DEF Once
  <2> QED BY <1>2, <2>1
<1>7. ASSUME NEW t PROVE Has(r, t) <=> Has(q, t) /\ t # q[1]
  <2>1. ASSUME Has(r, t) PROVE Has(q, t) /\ t # q[1]
    <3>1. PICK k \in 1..Len(r) : r[k] = t
          BY <2>1 DEF Has
    <3>2. k + 1 \in 1..Len(q) /\ k + 1 # 1 /\ q[k + 1] = t
          BY <1>1, <1>5, <3>1
    <3> QED BY <1>3, <3>2 DEF Has, Once
  <2>2. ASSUME Has(q, t), t # q[1] PROVE Has(r, t)
        BY <1>1, <1>4, <2>2 DEF Has
  <2> QED BY <2>1, <2>2
<1>8. Has(q, q[1])
      BY <1>3 DEF Has
<1>9. Removed(q, Head(q), Tail(q))
  <2>1. Removed(q, q[1], r)
        BY <1>6, <1>7, <1>8 DEF Removed
  <2> QED BY <1>1, <1>3, <2>1
<1> QED BY <1>1, <1>2, <1>3, <1>9

\* The last element taken away.
LEMMA FrontHas ==
  ASSUME NEW q \in Seq(1..CallSlots), q # <<>>, Once(q), NEW r, r = SubSeq(q, 1, Len(q) - 1)
  PROVE  r \in Seq(1..CallSlots) /\ q[Len(q)] \in 1..CallSlots /\ Removed(q, q[Len(q)], r)
<1>1. PICK n : n = Len(q)
      OBVIOUS
<1>2. /\ n \in Nat /\ n > 0 /\ r \in Seq(1..CallSlots) /\ Len(r) = n - 1 /\ \A k \in 1..n - 1 : r[k] = q[k]
      BY <1>1, SeqEnds
<1>3. n \in 1..Len(q) /\ q[n] \in 1..CallSlots
      BY <1>1, SeqEnds
<1>4. \A k \in 1..n : k = n \/ k \in 1..Len(r)
      BY <1>2
<1>5. \A k \in 1..Len(r) : k \in 1..n /\ k # n /\ r[k] = q[k]
      BY <1>2
<1>6. Once(r)
  <2>1. \A i, j \in 1..n : q[i] = q[j] => i = j
        BY <1>1 DEF Once
  <2> QED BY <1>5, <2>1 DEF Once
<1>7. ASSUME NEW t PROVE Has(r, t) <=> Has(q, t) /\ t # q[n]
  <2>1. ASSUME Has(r, t) PROVE Has(q, t) /\ t # q[n]
    <3>1. PICK k \in 1..Len(r) : r[k] = t
          BY <2>1 DEF Has
    <3>2. k \in 1..Len(q) /\ k # n /\ q[k] = t
          BY <1>1, <1>5, <3>1
    <3> QED BY <1>1, <1>3, <3>2 DEF Has, Once
  <2>2. Has(q, t) /\ t # q[n] => Has(r, t)
        BY <1>1, <1>4, <1>5 DEF Has
  <2> QED BY <2>1, <2>2
<1>8. Has(q, q[n])
      BY <1>3 DEF Has
<1>9. Removed(q, q[n], r)
      BY <1>6, <1>7, <1>8 DEF Removed
<1> QED BY <1>1, <1>2, <1>3, <1>9

\* The numbers up to n.
LEMMA CardUpTo ==
  ASSUME NEW n \in Nat
  PROVE  IsFiniteSet(1..n) /\ Cardinality(1..n) = n
<1>1. 1 \in Int /\ n \in Int
      OBVIOUS
<1>2. IsFiniteSet(1..n) /\ Cardinality(1..n) = IF 1 > n THEN 0 ELSE n - 1 + 1
      BY <1>1, FS_Interval
<1> QED BY <1>2

\* A sequence without repetitions is no longer than the set it is over.
LEMMA OnceIsShort ==
  ASSUME NEW n \in Nat, NEW q \in Seq(1..n), Once(q)
  PROVE  Len(q) <= n /\ q \in Calls!BoundedSeq(1..n, n)
<1>1. Len(q) \in Nat /\ q \in [1..Len(q) -> 1..n]
      OBVIOUS
<1>2. q \in Injection(1..Len(q), 1..n)
      BY <1>1 DEF Injection, IsInjective, Once
<1>3. IsFiniteSet(1..n) /\ Cardinality(1..n) = n /\ Cardinality(1..Len(q)) = Len(q)
      BY <1>1, CardUpTo
<1>4. Len(q) <= n
      BY <1>2, <1>3, FS_Injection
<1>5. Len(q) \in 0..n
      BY <1>1, <1>4
<1> QED BY <1>1, <1>4, <1>5 DEF Calls!BoundedSeq, Calls!SeqOf
-----------------------------------------------------------------------------
\* The fields of a pool.
LEMMA PoolIs ==
  ASSUME NEW w \in Pools
  PROVE  /\ w.call \in [1..CallSlots -> ACall] /\ w.free \in Seq(1..CallSlots) /\ w.waiting \in Seq(1..CallSlots)
         /\ w.done \in Seq(1..CallSlots) /\ w.taken \in SUBSET (1..CallSlots) /\ w.conn \in [1..Conns -> AConn]
         /\ w.net \in [1..Conns -> ANet] /\ w.ends \in [Calls!Calls -> Nat] /\ w.tries \in [Calls!Calls -> Nat]
BY DEF Pools

\* end
Ended(w, s, r) ==
  /\ r \in Pools
  /\ r.call[s].id = w.call[s].id /\ r.call[s].others \subseteq w.call[s].others
  /\ \A t \in 1..CallSlots : t # s => r.call[t] = w.call[t]
  /\ r.done = Append(w.done, s)
  /\ r.ends[w.call[s].id] = w.ends[w.call[s].id] + 1
  /\ \A i \in Calls!Calls : i # w.call[s].id => r.ends[i] = w.ends[i]
  /\ r.free = w.free /\ r.waiting = w.waiting /\ r.taken = w.taken /\ r.conn = w.conn /\ r.net = w.net
  /\ r.tries = w.tries

\* end: the call is done, and has ended once more.
LEMMA EndIs ==
  ASSUME NEW w \in Pools, NEW s \in 1..CallSlots, NEW ok \in BOOLEAN, w.call[s].id \in Calls!Calls
  PROVE  Ended(w, s, Calls!End(w, s, ok))
<1>0. PICK r : r = Calls!End(w, s, ok)
      OBVIOUS
<1>. DEFINE given == IF ok THEN w.call[s].others ELSE {}
           k == [w.call[s] EXCEPT !.ok = ok, !.others = given]
<1>1. /\ r.call = [w.call EXCEPT ![s] = k]
      /\ r.done = Append(w.done, s)
      /\ r.ends = [w.ends EXCEPT ![w.call[s].id] = w.ends[w.call[s].id] + 1]
      /\ r.free = w.free /\ r.waiting = w.waiting /\ r.taken = w.taken /\ r.conn = w.conn /\ r.net = w.net
      /\ r.tries = w.tries
      BY <1>0 DEF Calls!End, Pools
<1>2. r = [call |-> r.call, free |-> r.free, waiting |-> r.waiting, done |-> r.done, taken |-> r.taken,
           conn |-> r.conn, net |-> r.net, ends |-> r.ends, tries |-> r.tries]
      BY <1>0 DEF Calls!End, Pools
<1>3. r.call \in [1..CallSlots -> ACall]
  <2>1. w.call \in [1..CallSlots -> ACall] /\ w.call[s] \in ACall
        BY PoolIs
  <2>2. k \in ACall
        BY <2>1 DEF ACall
  <2> QED BY <1>1, <2>1, <2>2
<1>4. r.done \in Seq(1..CallSlots) /\ r.ends \in [Calls!Calls -> Nat]
      BY <1>1, PoolIs
<1>5. /\ r.call[s].id = w.call[s].id /\ r.call[s].others \subseteq w.call[s].others
      /\ \A t \in 1..CallSlots : t # s => r.call[t] = w.call[t]
  <2>1. w.call \in [1..CallSlots -> ACall] /\ w.call[s] \in ACall
        BY PoolIs
  <2>2. r.call[s] = k /\ \A t \in 1..CallSlots : t # s => r.call[t] = w.call[t]
        BY <1>1, <2>1
  <2> QED BY <2>1, <2>2 DEF ACall
<1>6. /\ r.ends[w.call[s].id] = w.ends[w.call[s].id] + 1
      /\ \A i \in Calls!Calls : i # w.call[s].id => r.ends[i] = w.ends[i]
      BY <1>1, PoolIs
<1>7. r \in Pools
      BY <1>1, <1>2, <1>3, <1>4, PoolIs DEF Pools
<1>8. Ended(w, s, r)
      BY <1>1, <1>5, <1>6, <1>7 DEF Ended
<1> QED BY <1>0, <1>8

\* close, and a connection left idle.
LEMMA RestsIs ==
  ASSUME NEW w \in Pools, NEW c \in 1..Conns, NEW state \in Resting, NEW r, r = Calls!Rests(w, c, state)
  PROVE  /\ r \in Pools
         /\ r.conn[c].state = state /\ r.conn[c].call = w.conn[c].call
         /\ \A d \in 1..Conns : d # c => r.conn[d] = w.conn[d]
         /\ r.call = w.call /\ r.done = w.done /\ r.ends = w.ends /\ r.free = w.free /\ r.waiting = w.waiting
         /\ r.taken = w.taken /\ r.net = w.net /\ r.tries = w.tries
<1>1. PICK x : x = [Calls!Closed EXCEPT !.state = state, !.call = w.conn[c].call]
      OBVIOUS
<1>2. w.conn \in [1..Conns -> AConn] /\ w.conn[c] \in AConn
      BY PoolIs
<1>3. x \in AConn /\ x.state = state /\ x.call = w.conn[c].call
      BY <1>1, <1>2 DEF Calls!Closed, AConn, Resting
<1>4. PICK f : f = [w.conn EXCEPT ![c] = x]
      OBVIOUS
<1>5. f \in [1..Conns -> AConn] /\ f[c] = x /\ \A d \in 1..Conns : d # c => f[d] = w.conn[d]
      BY <1>2, <1>3, <1>4
<1>6. r = [call |-> w.call, free |-> w.free, waiting |-> w.waiting, done |-> w.done, taken |-> w.taken,
           conn |-> f, net |-> w.net, ends |-> w.ends, tries |-> w.tries]
      BY <1>1, <1>4 DEF Calls!Rests, Pools
<1>7. /\ r.conn = f /\ r.call = w.call /\ r.done = w.done /\ r.ends = w.ends /\ r.free = w.free
      /\ r.waiting = w.waiting /\ r.taken = w.taken /\ r.net = w.net /\ r.tries = w.tries
      BY <1>6
<1>8. r \in Pools
      BY <1>5, <1>6, PoolIs DEF Pools
<1> QED BY <1>3, <1>5, <1>7, <1>8

\* The pool r is w with the connection c closed.
ClosedAt(w, c, r) ==
  /\ r \in Pools
  /\ r.conn[c].state = "closed" /\ r.conn[c].call = w.conn[c].call /\ r.net[c] = Calls!Quiet
  /\ \A d \in 1..Conns : d # c => r.conn[d] = w.conn[d] /\ r.net[d] = w.net[d]
  /\ r.call = w.call /\ r.done = w.done /\ r.ends = w.ends /\ r.free = w.free /\ r.waiting = w.waiting
  /\ r.taken = w.taken /\ r.tries = w.tries

\* close does that.
LEMMA CloseIs ==
  ASSUME Calls!PoolSizes, NEW w \in Pools, NEW c \in 1..Conns, NEW r, r = Calls!Close(w, c)
  PROVE  ClosedAt(w, c, r)
<1>1. PICK v : v = Calls!Rests(w, c, "closed")
      OBVIOUS
<1>2. /\ v \in Pools
      /\ v.conn[c].state = "closed" /\ v.conn[c].call = w.conn[c].call
      /\ \A d \in 1..Conns : d # c => v.conn[d] = w.conn[d]
      /\ v.call = w.call /\ v.done = w.done /\ v.ends = w.ends /\ v.free = w.free /\ v.waiting = w.waiting
      /\ v.taken = w.taken /\ v.net = w.net /\ v.tries = w.tries
  <2>1. "closed" \in Resting
        BY DEF Resting
  <2> QED BY <1>1, <2>1, RestsIs
<1>3. PICK g : g = [v.net EXCEPT ![c] = Calls!Quiet]
      OBVIOUS
<1>4. v.net \in [1..Conns -> ANet] /\ Calls!Quiet \in ANet
  <2>1. <<>> \in Seq(Mail)
        OBVIOUS
  <2>2. 0 \in 0..MaxCalls
        BY DEF Calls!PoolSizes
  <2> QED BY <1>2, <2>1, <2>2, PoolIs DEF Calls!Quiet, ANet, Calls!None
<1>5. g \in [1..Conns -> ANet] /\ g[c] = Calls!Quiet /\ \A d \in 1..Conns : d # c => g[d] = v.net[d]
      BY <1>3, <1>4
<1>6. r = [call |-> v.call, free |-> v.free, waiting |-> v.waiting, done |-> v.done, taken |-> v.taken,
           conn |-> v.conn, net |-> g, ends |-> v.ends, tries |-> v.tries]
      BY <1>1, <1>2, <1>3 DEF Calls!Close, Pools
<1>7. /\ r.conn = v.conn /\ r.call = v.call /\ r.done = v.done /\ r.ends = v.ends /\ r.free = v.free
      /\ r.waiting = v.waiting /\ r.taken = v.taken /\ r.net = g /\ r.tries = v.tries
      BY <1>6
<1>8. r \in Pools
      BY <1>2, <1>5, <1>6, PoolIs DEF Pools
<1> QED BY <1>2, <1>5, <1>7, <1>8 DEF ClosedAt

\* finish takes the call from the connection.
LEMMA PartedIs ==
  ASSUME Calls!PoolSizes, NEW w \in Pools, NEW c \in 1..Conns, NEW r, r = Calls!Parted(w, c)
  PROVE  /\ r \in Pools /\ r.conn[c] = [w.conn[c] EXCEPT !.call = Calls!None]
         /\ \A d \in 1..Conns : d # c => r.conn[d] = w.conn[d]
         /\ r.call = w.call /\ r.done = w.done /\ r.ends = w.ends /\ r.free = w.free /\ r.waiting = w.waiting
         /\ r.taken = w.taken /\ r.net = w.net /\ r.tries = w.tries
<1>1. PICK x : x = [w.conn[c] EXCEPT !.call = Calls!None]
      OBVIOUS
<1>2. w.conn \in [1..Conns -> AConn] /\ w.conn[c] \in AConn
      BY PoolIs
<1>3. x \in AConn
  <2>1. 0 \in 0..CallSlots
        BY DEF Calls!PoolSizes
  <2> QED BY <1>1, <1>2, <2>1 DEF Calls!None, AConn
<1>4. PICK f : f = [w.conn EXCEPT ![c] = x]
      OBVIOUS
<1>5. f \in [1..Conns -> AConn] /\ f[c] = x /\ \A d \in 1..Conns : d # c => f[d] = w.conn[d]
      BY <1>2, <1>3, <1>4
<1>6. r = [call |-> w.call, free |-> w.free, waiting |-> w.waiting, done |-> w.done, taken |-> w.taken,
           conn |-> f, net |-> w.net, ends |-> w.ends, tries |-> w.tries]
      BY <1>1, <1>4 DEF Calls!Parted, Pools
<1>7. /\ r.conn = f /\ r.call = w.call /\ r.done = w.done /\ r.ends = w.ends /\ r.free = w.free
      /\ r.waiting = w.waiting /\ r.taken = w.taken /\ r.net = w.net /\ r.tries = w.tries
      BY <1>6
<1>8. r \in Pools
      BY <1>5, <1>6, PoolIs DEF Pools
<1> QED BY <1>1, <1>5, <1>7, <1>8

\* finish puts the call back in front.
PutBack(w, s, r) ==
  /\ r \in Pools
  /\ r.call[s].id = w.call[s].id /\ r.call[s].others = w.call[s].others /\ r.call[s].retried = TRUE
  /\ \A t \in 1..CallSlots : t # s => r.call[t] = w.call[t]
  /\ r.waiting = Before(s, w.waiting)
  /\ r.conn = w.conn /\ r.done = w.done /\ r.ends = w.ends /\ r.free = w.free
  /\ r.taken = w.taken /\ r.net = w.net /\ r.tries = w.tries

\* A call that finish retries is put back in front, marked.
LEMMA AgainIs ==
  ASSUME NEW w \in Pools, NEW s \in 1..CallSlots
  PROVE  PutBack(w, s, Calls!Again(w, s))
<1>0. PICK r : r = Calls!Again(w, s)
      OBVIOUS
<1>1. PICK x, f : x = [w.call[s] EXCEPT !.retried = TRUE] /\ f = [w.call EXCEPT ![s] = x]
      OBVIOUS
<1>2. w.call \in [1..CallSlots -> ACall] /\ w.call[s] \in ACall
      BY PoolIs
<1>3. x \in ACall
      BY <1>1, <1>2 DEF ACall
<1>4. f \in [1..CallSlots -> ACall]
      BY <1>1, <1>2, <1>3
<1>5. PICK q : q = Before(s, w.waiting)
      OBVIOUS
<1>6. q \in Seq(1..CallSlots)
      BY <1>5, PoolIs DEF Before
<1>7. r = [call |-> f, free |-> w.free, waiting |-> q, done |-> w.done, taken |-> w.taken,
           conn |-> w.conn, net |-> w.net, ends |-> w.ends, tries |-> w.tries]
      BY <1>0, <1>1, <1>5 DEF Calls!Again, Calls!Retried, Before, Pools
<1>8. /\ r.conn = w.conn /\ r.call = f /\ r.done = w.done /\ r.ends = w.ends /\ r.free = w.free
      /\ r.waiting = q /\ r.taken = w.taken /\ r.net = w.net /\ r.tries = w.tries
      BY <1>7
<1>9. r \in Pools
      BY <1>4, <1>6, <1>7, PoolIs DEF Pools
<1>10. /\ f[s].id = w.call[s].id /\ f[s].others = w.call[s].others /\ f[s].retried = TRUE
       /\ \A t \in 1..CallSlots : t # s => f[t] = w.call[t]
  <2>1. f[s] = x /\ \A t \in 1..CallSlots : t # s => f[t] = w.call[t]
        BY <1>1, <1>2
  <2>2. x.id = w.call[s].id /\ x.others = w.call[s].others /\ x.retried = TRUE
        BY <1>1, <1>2 DEF ACall
  <2> QED BY <2>1, <2>2
<1>11. PutBack(w, s, r)
       BY <1>5, <1>8, <1>9, <1>10 DEF PutBack
<1> QED BY <1>0, <1>11
-----------------------------------------------------------------------------
\* The records of a pool.
LEMMA FieldsIs ==
  ASSUME NEW w \in Pools
  PROVE  /\ \A s \in 1..CallSlots : /\ w.call[s] \in ACall /\ w.call[s].id \in 0..MaxCalls
                                    /\ w.call[s].retried \in BOOLEAN /\ w.call[s].ok \in BOOLEAN
                                    /\ (w.call[s].id # Calls!None => w.call[s].id \in Calls!Calls)
         /\ \A c \in 1..Conns : /\ w.conn[c] \in AConn /\ w.conn[c].call \in 0..CallSlots
                                /\ (w.conn[c].call # Calls!None => w.conn[c].call \in 1..CallSlots)
                                /\ w.net[c] \in ANet
<1>1. ASSUME NEW s \in 1..CallSlots
      PROVE  /\ w.call[s] \in ACall /\ w.call[s].id \in 0..MaxCalls
             /\ w.call[s].retried \in BOOLEAN /\ w.call[s].ok \in BOOLEAN
             /\ (w.call[s].id # Calls!None => w.call[s].id \in Calls!Calls)
  <2>1. w.call[s] \in ACall
        BY PoolIs
  <2>2. w.call[s].id \in 0..MaxCalls /\ w.call[s].retried \in BOOLEAN /\ w.call[s].ok \in BOOLEAN
        BY <2>1 DEF ACall
  <2>3. w.call[s].id # Calls!None => w.call[s].id \in Calls!Calls
        BY <2>2 DEF Calls!Calls, Calls!None
  <2> QED BY <2>1, <2>2, <2>3
<1>2. ASSUME NEW c \in 1..Conns
      PROVE  /\ w.conn[c] \in AConn /\ w.conn[c].call \in 0..CallSlots
             /\ (w.conn[c].call # Calls!None => w.conn[c].call \in 1..CallSlots)
             /\ w.net[c] \in ANet
  <2>1. w.conn[c] \in AConn /\ w.net[c] \in ANet
        BY PoolIs
  <2>2. w.conn[c].call \in 0..CallSlots
        BY <2>1 DEF AConn
  <2>3. w.conn[c].call # Calls!None => w.conn[c].call \in 1..CallSlots
        BY <2>2 DEF Calls!None
  <2> QED BY <2>1, <2>2, <2>3
<1> QED BY <1>1, <1>2

\* A step that moves no call leaves the slots well.
LEMMA SameWell ==
  ASSUME NEW w, NEW wh, Well(w, wh), NEW r \in Pools,
         r.call = w.call, r.free = w.free, r.waiting = w.waiting, r.done = w.done, r.taken = w.taken,
         r.ends = w.ends, r.tries = w.tries, \A d \in 1..Conns : r.conn[d].call = w.conn[d].call
  PROVE  Well(r, wh) /\ Calls!Known(r) = Calls!Known(w)
<1>1. Placed(r, wh)
  <2>1. \A s \in 1..CallSlots : Holds(r, s) <=> Holds(w, s)
        BY DEF Holds
  <2> QED BY <2>1 DEF Well, Placed
<1>2. \A s \in 1..CallSlots : CallOK(r, r.call[s], wh[s])
      BY DEF Well, CallOK
<1>3. Calls!Known(r) = Calls!Known(w)
      BY DEF Calls!Known
<1> QED BY <1>1, <1>2, <1>3 DEF Well

\* One slot moves to the place p, and what its call has been through fits there.
PoolMoves(w, r, s, p) ==
  /\ Once(r.free) /\ Once(r.waiting) /\ Once(r.done)
  /\ \A c, d \in 1..Conns : r.conn[c].call = r.conn[d].call /\ r.conn[c].call # Calls!None => c = d
  /\ \A t \in 1..CallSlots : t # s =>
       /\ Has(r.free, t) <=> Has(w.free, t)
       /\ Has(r.waiting, t) <=> Has(w.waiting, t)
       /\ Has(r.done, t) <=> Has(w.done, t)
       /\ Holds(r, t) <=> Holds(w, t)
       /\ t \in r.taken <=> t \in w.taken
       /\ r.call[t] = w.call[t]
       /\ (w.call[t].id = r.call[s].id => r.call[s].id = Calls!None)
  /\ Has(r.free, s) <=> p = "free"
  /\ Has(r.waiting, s) <=> p = "waiting"
  /\ Has(r.done, s) <=> p = "done"
  /\ Holds(r, s) <=> p = "conn"
  /\ s \in r.taken <=> p = "taken"
  /\ \A i \in Calls!Calls : i # r.call[s].id => r.ends[i] = w.ends[i] /\ r.tries[i] = w.tries[i]
  /\ r.call[s].id # Calls!None => r.tries[r.call[s].id] <= 2 /\ r.ends[r.call[s].id] <= 1
  /\ CallOK(r, r.call[s], p)

\* When only the slot s moves, every slot still is in one place.
LEMMA Moved ==
  ASSUME NEW w, NEW wh, Well(w, wh), NEW r \in Pools, NEW s \in 1..CallSlots, NEW p \in Places,
         PoolMoves(w, r, s, p)
  PROVE  \E v \in [1..CallSlots -> Places] : Well(r, v)
<1>1. PICK v : v = [wh EXCEPT ![s] = p]
      OBVIOUS
<1>2. v \in [1..CallSlots -> Places] /\ v[s] = p /\ \A t \in 1..CallSlots : t # s => v[t] = wh[t]
      BY <1>1 DEF Well
<1>3. Placed(r, v)
  <2>1. ASSUME NEW t \in 1..CallSlots
        PROVE  /\ Has(r.free, t) <=> v[t] = "free"
               /\ Has(r.waiting, t) <=> v[t] = "waiting"
               /\ Has(r.done, t) <=> v[t] = "done"
               /\ Holds(r, t) <=> v[t] = "conn"
               /\ t \in r.taken <=> v[t] = "taken"
    <3>1. CASE t = s
          BY <1>2, <3>1 DEF PoolMoves
    <3>2. CASE t # s
          BY <1>2, <3>2 DEF Well, Placed, PoolMoves
    <3> QED BY <3>1, <3>2
  <2> QED BY <2>1 DEF Placed, PoolMoves
<1>4. ASSUME NEW t \in 1..CallSlots PROVE CallOK(r, r.call[t], v[t])
  <2>1. CASE t = s
        BY <1>2, <2>1 DEF PoolMoves
  <2>2. CASE t # s /\ w.call[t].id = Calls!None
    <3>1. CallOK(w, w.call[t], wh[t]) /\ r.call[t] = w.call[t] /\ v[t] = wh[t]
          BY <1>2, <2>2 DEF Well, PoolMoves
    <3>2. wh[t] = "free"
          BY <2>2, <3>1 DEF CallOK
    <3> QED BY <2>2, <3>1, <3>2 DEF CallOK
  <2>3. CASE t # s /\ w.call[t].id # Calls!None
    <3>1. CallOK(w, w.call[t], wh[t]) /\ r.call[t] = w.call[t] /\ v[t] = wh[t]
          BY <1>2, <2>3 DEF Well, PoolMoves
    <3>2. w.call[t].id \in Calls!Calls
          BY <2>3, FieldsIs DEF Well
    <3>3. w.call[t].id # r.call[s].id
          BY <2>3 DEF PoolMoves
    <3>4. r.ends[w.call[t].id] = w.ends[w.call[t].id] /\ r.tries[w.call[t].id] = w.tries[w.call[t].id]
          BY <3>2, <3>3 DEF PoolMoves
    <3> QED BY <3>1, <3>4 DEF CallOK
  <2> QED BY <2>1, <2>2, <2>3
<1>5. \A t, u \in 1..CallSlots : r.call[t].id = r.call[u].id /\ r.call[t].id # Calls!None => t = u
      BY DEF Well, PoolMoves
<1>6. \A i \in Calls!Calls : r.tries[i] <= 2 /\ r.ends[i] <= 1
  <2> SUFFICES ASSUME NEW i \in Calls!Calls PROVE r.tries[i] <= 2 /\ r.ends[i] <= 1
      OBVIOUS
  <2>1. CASE i = r.call[s].id
    <3>1. r.call[s].id # Calls!None
          BY <2>1 DEF Calls!Calls, Calls!None
    <3> QED BY <2>1, <3>1 DEF PoolMoves
  <2>2. CASE i # r.call[s].id
        BY <2>2 DEF Well, PoolMoves
  <2> QED BY <2>1, <2>2
<1>7. Well(r, v)
      BY <1>2, <1>3, <1>4, <1>5, <1>6 DEF Well
<1> QED BY <1>2, <1>7

\* The call of a connection.
LEMMA CallOfConn ==
  ASSUME NEW w, NEW wh, Well(w, wh), NEW c \in 1..Conns, w.conn[c].call # Calls!None,
         NEW s, s = w.conn[c].call
  PROVE  /\ w \in Pools /\ s \in 1..CallSlots /\ wh[s] = "conn" /\ CallOK(w, w.call[s], "conn")
         /\ w.call[s].id # Calls!None /\ w.call[s].id \in Calls!Calls
         /\ ~Has(w.free, s) /\ ~Has(w.waiting, s) /\ ~Has(w.done, s) /\ s \notin w.taken
         /\ \A d \in 1..Conns : d # c => w.conn[d].call # s
         /\ \A t \in 1..CallSlots : t # s => w.call[t].id # w.call[s].id
<1>1. w \in Pools /\ s \in 1..CallSlots
      BY FieldsIs DEF Well
<1>2. Placed(w, wh) /\ Holds(w, s)
      BY DEF Well, Holds
<1>3. wh[s] = "conn"
      BY <1>1, <1>2 DEF Placed
<1>4. CallOK(w, w.call[s], "conn")
      BY <1>1, <1>3 DEF Well
<1>5. w.call[s].id # Calls!None
      BY <1>4 DEF CallOK
<1>6. w.call[s].id \in Calls!Calls
      BY <1>1, <1>5, FieldsIs
<1>7. ~Has(w.free, s) /\ ~Has(w.waiting, s) /\ ~Has(w.done, s) /\ s \notin w.taken
      BY <1>1, <1>2, <1>3 DEF Placed
<1>8. \A d \in 1..Conns : d # c => w.conn[d].call # s
      BY <1>2 DEF Placed
<1>9. \A t \in 1..CallSlots : t # s => w.call[t].id # w.call[s].id
      BY <1>1, <1>5 DEF Well
<1> QED BY <1>1, <1>3, <1>4, <1>5, <1>6, <1>7, <1>8, <1>9

\* finish leaves the connection without a call, and the call in one of two
\* places.
Finished(w, c, s, r) ==
  /\ r \in Pools /\ r.conn[c].call = Calls!None /\ r.conn[c].state \in Resting
  /\ (r.conn[c].state = "closed" => r.net[c] = Calls!Quiet) /\ (r.conn[c].state = "idle" => r.net[c] = w.net[c])
  /\ \A d \in 1..Conns : d # c => r.conn[d] = w.conn[d] /\ r.net[d] = w.net[d]
  /\ r.free = w.free /\ r.taken = w.taken /\ r.tries = w.tries
  /\ r.call[s].id = w.call[s].id /\ r.call[s].others \subseteq w.call[s].others
  /\ \A t \in 1..CallSlots : t # s => r.call[t] = w.call[t]
  /\ \/ /\ ~w.conn[c].answered /\ ~w.call[s].retried /\ r.call[s].retried = TRUE
        /\ r.waiting = Before(s, w.waiting) /\ r.done = w.done /\ r.ends = w.ends
     \/ /\ r.done = Append(w.done, s) /\ r.waiting = w.waiting
        /\ r.ends[w.call[s].id] = w.ends[w.call[s].id] + 1
        /\ \A i \in Calls!Calls : i # w.call[s].id => r.ends[i] = w.ends[i]

\* finish parts the connection from its call, which is retried or ends.
LEMMA FinishIs ==
  ASSUME Calls!PoolSizes, NEW w, NEW wh, NEW c \in 1..Conns, NEW s \in 1..CallSlots, Held(w, wh, c, s),
         NEW code \in Codes
  PROVE  Finished(w, c, s, Calls!Finish(w, c, code)) /\ (code # "none" => Calls!Finish(w, c, code).conn[c].state = "closed")
<1>0. PICK r : r = Calls!Finish(w, c, code)
      OBVIOUS
<1>1. /\ w \in Pools /\ s \in 1..CallSlots /\ w.call[s].id \in Calls!Calls
  <2>1. w.conn[c].call = s /\ s # Calls!None
        BY DEF Held, Calls!None
  <2> QED BY <2>1, CallOfConn DEF Held
<1>2. PICK v : v = Calls!Parted(w, c)
      OBVIOUS
<1>3. /\ v \in Pools /\ v.conn[c] = [w.conn[c] EXCEPT !.call = Calls!None]
      /\ \A d \in 1..Conns : d # c => v.conn[d] = w.conn[d]
      /\ v.call = w.call /\ v.done = w.done /\ v.ends = w.ends /\ v.free = w.free /\ v.waiting = w.waiting
      /\ v.taken = w.taken /\ v.net = w.net /\ v.tries = w.tries
      BY <1>1, <1>2, PartedIs
<1>4. v.conn[c].call = Calls!None
  <2>1. w.conn[c] \in AConn
        BY <1>1, FieldsIs
  <2> QED BY <1>3, <2>1 DEF AConn
<1>5. PICK u : u = IF Calls!Retries(w, c, code) THEN Calls!Again(v, s) ELSE Calls!End(v, s, code = "none")
      OBVIOUS
<1>6. /\ u \in Pools /\ u.conn = v.conn /\ u.net = v.net /\ u.free = v.free /\ u.taken = v.taken
      /\ u.tries = v.tries
      /\ u.call[s].id = w.call[s].id /\ u.call[s].others \subseteq w.call[s].others
      /\ \A t \in 1..CallSlots : t # s => u.call[t] = w.call[t]
      /\ \/ /\ ~w.conn[c].answered /\ ~w.call[s].retried /\ u.call[s].retried = TRUE
            /\ u.waiting = Before(s, w.waiting) /\ u.done = w.done /\ u.ends = w.ends
         \/ /\ u.done = Append(w.done, s) /\ u.waiting = w.waiting
            /\ u.ends[w.call[s].id] = w.ends[w.call[s].id] + 1
            /\ \A i \in Calls!Calls : i # w.call[s].id => u.ends[i] = w.ends[i]
  <2>1. CASE Calls!Retries(w, c, code)
    <3>1. v \in Pools /\ s \in 1..CallSlots
          BY <1>1, <1>3
    <3>2. u = Calls!Again(v, s)
          BY <1>5, <2>1
    <3>3. ~w.conn[c].answered /\ ~w.call[s].retried
          BY <2>1 DEF Calls!Retries, Held
    <3>4. PutBack(v, s, u)
          BY <3>1, <3>2, AgainIs
    <3> QED BY <1>3, <3>3, <3>4 DEF PutBack
  <2>2. CASE ~Calls!Retries(w, c, code)
    <3>1. v \in Pools /\ s \in 1..CallSlots /\ v.call[s].id \in Calls!Calls
          BY <1>1, <1>3
    <3>2. PICK ok : ok = (code = "none")
          OBVIOUS
    <3>3. u = Calls!End(v, s, ok) /\ ok \in BOOLEAN
          BY <1>5, <2>2, <3>2
    <3>4. Ended(v, s, u)
          BY <3>1, <3>3, EndIs
    <3> QED BY <1>3, <3>4 DEF Ended
  <2> QED BY <2>1, <2>2
<1>7. r = IF Calls!Unusable(code) THEN Calls!Close(u, c) ELSE Calls!Rests(u, c, "idle")
      BY <1>0, <1>2, <1>5 DEF Calls!Finish, Held
<1>8. /\ u \in Pools /\ u.conn[c].call = Calls!None /\ u.free = w.free /\ u.taken = w.taken /\ u.tries = w.tries
      /\ \A d \in 1..Conns : d # c => u.conn[d] = w.conn[d] /\ u.net[d] = w.net[d]
  <2>1. u \in Pools /\ u.conn = v.conn /\ u.net = v.net /\ u.free = v.free /\ u.taken = v.taken /\ u.tries = v.tries
        BY <1>6
  <2>2. /\ v.free = w.free /\ v.taken = w.taken /\ v.tries = w.tries /\ v.net = w.net
        /\ \A d \in 1..Conns : d # c => v.conn[d] = w.conn[d]
        BY <1>3
  <2> QED BY <1>4, <2>1, <2>2
<1>9. /\ r \in Pools /\ r.conn[c].call = Calls!None /\ r.conn[c].state \in Resting
      /\ (r.conn[c].state = "closed" => r.net[c] = Calls!Quiet) /\ (r.conn[c].state = "idle" => r.net[c] = u.net[c])
      /\ (code # "none" => r.conn[c].state = "closed")
      /\ \A d \in 1..Conns : d # c => r.conn[d] = w.conn[d] /\ r.net[d] = w.net[d]
      /\ r.free = w.free /\ r.taken = w.taken /\ r.tries = w.tries
      /\ r.call = u.call /\ r.done = u.done /\ r.ends = u.ends /\ r.waiting = u.waiting
  <2>1. CASE Calls!Unusable(code)
    <3>1. r = Calls!Close(u, c)
          BY <1>7, <2>1
    <3>2. /\ r \in Pools
          /\ r.conn[c].state = "closed" /\ r.conn[c].call = u.conn[c].call /\ r.net[c] = Calls!Quiet
          /\ \A d \in 1..Conns : d # c => r.conn[d] = u.conn[d] /\ r.net[d] = u.net[d]
          /\ r.call = u.call /\ r.done = u.done /\ r.ends = u.ends /\ r.free = u.free /\ r.waiting = u.waiting
          /\ r.taken = u.taken /\ r.tries = u.tries
      <4>1. ClosedAt(u, c, r)
            BY <1>8, <3>1, CloseIs
      <4> QED BY <4>1 DEF ClosedAt
    <3>3. "closed" \in Resting
          BY DEF Resting
    <3> QED BY <1>8, <3>2, <3>3
  <2>2. CASE ~Calls!Unusable(code)
    <3>1. r = Calls!Rests(u, c, "idle") /\ "idle" \in Resting
          BY <1>7, <2>2 DEF Resting
    <3>2. /\ r \in Pools
          /\ r.conn[c].state = "idle" /\ r.conn[c].call = u.conn[c].call
          /\ \A d \in 1..Conns : d # c => r.conn[d] = u.conn[d]
          /\ r.call = u.call /\ r.done = u.done /\ r.ends = u.ends /\ r.free = u.free /\ r.waiting = u.waiting
          /\ r.taken = u.taken /\ r.net = u.net /\ r.tries = u.tries
          BY <1>8, <3>1, RestsIs
    <3>3. code = "none"
          BY <2>2 DEF Calls!Unusable
    <3> QED BY <1>8, <3>1, <3>2, <3>3
  <2> QED BY <2>1, <2>2
<1>10. Finished(w, c, s, r)
  <2>1. u.net[c] = w.net[c]
        BY <1>3, <1>6
  <2> QED BY <1>6, <1>9, <2>1 DEF Finished
<1> QED BY <1>0, <1>9, <1>10

\* The calls known stay the same where one of them changes.
LEMMA KnownSame ==
  ASSUME NEW w, NEW r, NEW s \in 1..CallSlots, \A t \in 1..CallSlots : r.call[t].id = w.call[t].id,
         \A i \in Calls!Calls : i # w.call[s].id => r.ends[i] = w.ends[i] /\ r.tries[i] = w.tries[i]
  PROVE  Calls!Known(r) = Calls!Known(w)
<1>1. ASSUME NEW i \in Calls!Calls PROVE i \in Calls!Known(r) <=> i \in Calls!Known(w)
  <2>1. CASE i = w.call[s].id
        BY <2>1 DEF Calls!Known
  <2>2. CASE i # w.call[s].id
        BY <2>2 DEF Calls!Known
  <2> QED BY <2>1, <2>2
<1> QED BY <1>1 DEF Calls!Known

\* finish leaves a good pool.
LEMMA PoolFinishOK ==
  ASSUME Calls!PoolSizes, NEW w, NEW wh, NEW c \in 1..Conns, NEW s \in 1..CallSlots, Held(w, wh, c, s),
         NEW r, Finished(w, c, s, r), Settled(w.net[c]) \/ r.conn[c].state = "closed"
  PROVE  Goes(w, r) /\ r.conn[c].call = Calls!None
<1>1. /\ Well(w, wh) /\ w.conn[c].call = s /\ OwnGot(w.conn[c], w.call[s])
      /\ \A d \in 1..Conns : d # c => ConnOK(w, d)
      BY DEF Held
<1>2. /\ w \in Pools /\ CallOK(w, w.call[s], "conn")
      /\ w.call[s].id # Calls!None /\ w.call[s].id \in Calls!Calls
      /\ ~Has(w.free, s) /\ ~Has(w.waiting, s) /\ ~Has(w.done, s) /\ s \notin w.taken
      /\ \A d \in 1..Conns : d # c => w.conn[d].call # s
      /\ \A t \in 1..CallSlots : t # s => w.call[t].id # w.call[s].id
  <2>1. w.conn[c].call # Calls!None
        BY <1>1 DEF Calls!None
  <2> QED BY <1>1, <2>1, CallOfConn
<1>3. /\ r \in Pools /\ r.conn[c].call = Calls!None /\ r.conn[c].state \in Resting
      /\ (r.conn[c].state = "closed" => r.net[c] = Calls!Quiet) /\ (r.conn[c].state = "idle" => r.net[c] = w.net[c])
      /\ \A d \in 1..Conns : d # c => r.conn[d] = w.conn[d] /\ r.net[d] = w.net[d]
      /\ r.free = w.free /\ r.taken = w.taken /\ r.tries = w.tries
      /\ r.call[s].id = w.call[s].id /\ r.call[s].others \subseteq w.call[s].others
      /\ \A t \in 1..CallSlots : t # s => r.call[t] = w.call[t]
      BY DEF Finished
<1>4. /\ \A i \in Calls!Calls : i # w.call[s].id => r.ends[i] = w.ends[i]
      /\ \A t \in 1..CallSlots : r.call[t].id = w.call[t].id
      BY <1>3 DEF Finished
<1>5. Calls!Known(r) = Calls!Known(w)
  <2>1. \A i \in Calls!Calls : i # w.call[s].id => r.ends[i] = w.ends[i] /\ r.tries[i] = w.tries[i]
        BY <1>3, <1>4
  <2> QED BY <1>4, <2>1, KnownSame
<1>6. \A d \in 1..Conns : ConnOK(r, d)
  <2> SUFFICES ASSUME NEW d \in 1..Conns PROVE ConnOK(r, d)
      OBVIOUS
  <2>1. CASE d = c
    <3>1. r.conn[c].state # "connecting" /\ r.conn[c].state # "busy"
          BY <1>3 DEF Resting
    <3>2. r.conn[c].state = "idle" => Settled(r.net[c])
          BY <1>3
    <3> QED BY <1>3, <2>1, <3>1, <3>2 DEF ConnOK
  <2>2. CASE d # c
    <3>1. r.conn[d] = w.conn[d] /\ r.net[d] = w.net[d] /\ ConnOK(w, d) /\ w.conn[d].call # s
          BY <1>1, <1>2, <1>3, <2>2
    <3>2. w.conn[d].call # Calls!None => r.call[w.conn[d].call] = w.call[w.conn[d].call]
          BY <1>2, <1>3, <3>1, FieldsIs
    <3>3. CASE w.conn[d].call # Calls!None
          BY <3>1, <3>2, <3>3 DEF ConnOK
    <3>4. CASE w.conn[d].call = Calls!None
      <4>1. w.conn[d].state \in Resting
            BY <3>1, <3>4 DEF ConnOK
      <4>2. w.conn[d].state # "busy"
            BY <4>1 DEF Resting
      <4> QED BY <3>1, <3>4, <4>1, <4>2 DEF ConnOK
    <3> QED BY <3>3, <3>4
  <2> QED BY <2>1, <2>2
<1>7. \A d, e \in 1..Conns : r.conn[d].call = r.conn[e].call /\ r.conn[d].call # Calls!None => d = e
      BY <1>1, <1>3 DEF Well, Placed
<1>8. /\ ~Holds(r, s)
      /\ \A t \in 1..CallSlots : t # s => (Holds(r, t) <=> Holds(w, t))
  <2>1. \A d \in 1..Conns : r.conn[d].call # s
        BY <1>2, <1>3 DEF Calls!None
  <2>2. ASSUME NEW t \in 1..CallSlots, t # s PROVE Holds(r, t) <=> Holds(w, t)
    <3>1. \A d \in 1..Conns : r.conn[d].call = t <=> w.conn[d].call = t
      <4>1. t # Calls!None
            BY DEF Calls!None
      <4> QED BY <1>1, <1>3, <2>2, <4>1
    <3> QED BY <3>1 DEF Holds
  <2> QED BY <2>1, <2>2 DEF Holds
<1>9. /\ w.waiting \in Seq(1..CallSlots) /\ w.done \in Seq(1..CallSlots) /\ w.ends \in [Calls!Calls -> Nat]
      /\ Once(w.free) /\ Once(w.waiting) /\ Once(w.done)
      BY <1>1, <1>2, PoolIs DEF Well, Placed
<1>10. /\ w.ends[w.call[s].id] = 0 /\ w.tries[w.call[s].id] = IF w.call[s].retried THEN 2 ELSE 1
       /\ AllStray(w.call[s].others) /\ (~w.conn[c].answered => w.call[s].others = {})
       BY <1>1, <1>2 DEF CallOK, OwnGot
<1>11. \E v \in [1..CallSlots -> Places] : Well(r, v)
  <2>1. CASE /\ ~w.conn[c].answered /\ ~w.call[s].retried /\ r.call[s].retried = TRUE
             /\ r.waiting = Before(s, w.waiting) /\ r.done = w.done /\ r.ends = w.ends
    <3>1. /\ \A t : Has(r.waiting, t) <=> Has(w.waiting, t) \/ t = s
          /\ Once(r.waiting)
      <4>1. Added(w.waiting, s, r.waiting)
            BY <1>9, <2>1, ConsHas
      <4> QED BY <1>2, <1>9, <4>1 DEF Added
    <3>2. CallOK(r, r.call[s], "waiting")
      <4>1. r.call[s].others = {}
            BY <1>3, <1>10, <2>1
      <4> QED BY <1>2, <1>3, <1>10, <2>1, <4>1 DEF CallOK
    <3>3. r.tries[r.call[s].id] <= 2 /\ r.ends[r.call[s].id] <= 1
          BY <1>3, <1>10, <2>1
    <3>4. "waiting" \in Places
          BY DEF Places
    <3>5. PoolMoves(w, r, s, "waiting")
          BY <1>2, <1>3, <1>4, <1>7, <1>8, <1>9, <2>1, <3>1, <3>2, <3>3 DEF PoolMoves
    <3> QED BY <1>1, <1>3, <3>4, <3>5, Moved
  <2>2. CASE /\ r.done = Append(w.done, s) /\ r.waiting = w.waiting
             /\ r.ends[w.call[s].id] = w.ends[w.call[s].id] + 1
    <3>1. /\ \A t : Has(r.done, t) <=> Has(w.done, t) \/ t = s
          /\ Once(r.done)
      <4>1. Added(w.done, s, r.done)
            BY <1>9, <2>2, AppendHas
      <4> QED BY <1>2, <1>9, <4>1 DEF Added
    <3>2. CallOK(r, r.call[s], "done")
      <4>1. AllStray(r.call[s].others)
            BY <1>3, <1>10 DEF AllStray
      <4> QED BY <1>2, <1>3, <1>10, <2>2, <4>1 DEF CallOK
    <3>3. r.tries[r.call[s].id] <= 2 /\ r.ends[r.call[s].id] <= 1
          BY <1>3, <1>10, <2>2
    <3>4. "done" \in Places
          BY DEF Places
    <3>5. PoolMoves(w, r, s, "done")
          BY <1>2, <1>3, <1>4, <1>7, <1>8, <1>9, <2>2, <3>1, <3>2, <3>3 DEF PoolMoves
    <3> QED BY <1>1, <1>3, <3>4, <3>5, Moved
  <2> QED BY <2>1, <2>2 DEF Finished
<1> QED BY <1>3, <1>5, <1>6, <1>11 DEF Goes, Fine

\* A connection that a step does not touch.
LEMMA ConnSame ==
  ASSUME NEW w \in Pools, NEW r, NEW d \in 1..Conns, r.conn[d] = w.conn[d], r.net[d] = w.net[d], ConnOK(w, d),
         \A t \in 1..CallSlots : t = w.conn[d].call => r.call[t].id = w.call[t].id /\ r.call[t].others = w.call[t].others
  PROVE  ConnOK(r, d)
<1>1. CASE w.conn[d].call # Calls!None
  <2>1. w.conn[d].call \in 1..CallSlots
        BY <1>1, FieldsIs
  <2>2. /\ r.call[w.conn[d].call].id = w.call[w.conn[d].call].id
        /\ r.call[w.conn[d].call].others = w.call[w.conn[d].call].others
        BY <2>1
  <2> QED BY <1>1, <2>2 DEF ConnOK, OwnGot
<1>2. CASE w.conn[d].call = Calls!None
  <2>1. w.conn[d].state \in Resting
        BY <1>2 DEF ConnOK
  <2>2. w.conn[d].state # "busy"
        BY <2>1 DEF Resting
  <2> QED BY <1>2, <2>1, <2>2 DEF ConnOK
<1> QED BY <1>1, <1>2

\* close leaves a good pool.
LEMMA CloseOK ==
  ASSUME Calls!PoolSizes, NEW w, Fine(w), NEW c \in 1..Conns, w.conn[c].call = Calls!None
  PROVE  Goes(w, Calls!Close(w, c))
<1>1. PICK wh \in [1..CallSlots -> Places] : Well(w, wh)
      BY DEF Fine
<1>2. w \in Pools
      BY <1>1 DEF Well
<1>3. PICK r : r = Calls!Close(w, c)
      OBVIOUS
<1>4. /\ r \in Pools
      /\ r.conn[c].state = "closed" /\ r.conn[c].call = w.conn[c].call /\ r.net[c] = Calls!Quiet
      /\ \A d \in 1..Conns : d # c => r.conn[d] = w.conn[d] /\ r.net[d] = w.net[d]
      /\ r.call = w.call /\ r.done = w.done /\ r.ends = w.ends /\ r.free = w.free /\ r.waiting = w.waiting
      /\ r.taken = w.taken /\ r.tries = w.tries
  <2>1. ClosedAt(w, c, Calls!Close(w, c))
        BY <1>2, CloseIs
  <2>2. ClosedAt(w, c, r)
        BY <1>3, <2>1
  <2> QED BY <2>2 DEF ClosedAt
<1>5. \A d \in 1..Conns : r.conn[d].call = w.conn[d].call
      BY <1>4
<1>6. Well(r, wh) /\ Calls!Known(r) = Calls!Known(w)
      BY <1>1, <1>4, <1>5, SameWell
<1>7. ASSUME NEW d \in 1..Conns PROVE ConnOK(r, d)
  <2>1. CASE d = c
        BY <1>4, <2>1 DEF ConnOK, Resting
  <2>2. CASE d # c
        BY <1>2, <1>4, <2>2, ConnSame DEF Fine
  <2> QED BY <2>1, <2>2
<1>8. Goes(w, r)
      BY <1>1, <1>6, <1>7 DEF Goes, Fine
<1> QED BY <1>3, <1>8

\* The origin is asked by the first bytes of the head.
NowAsked(w, c, s) ==
  IF w.conn[c].state = "busy" THEN w.net[c].asked ELSE Append(w.net[c].asked, w.call[s].id)

\* send asks the origin, and leaves all else.
Asked(w, c, s, r) ==
  /\ r \in Pools /\ r.conn[c].state = "busy" /\ r.conn[c].call = w.conn[c].call
  /\ r.conn[c].answered = w.conn[c].answered
  /\ r.net[c].inbox = w.net[c].inbox /\ r.net[c].closed = w.net[c].closed /\ r.net[c].stray = w.net[c].stray
  /\ r.net[c].asked = NowAsked(w, c, s)
  /\ \A d \in 1..Conns : d # c => r.conn[d] = w.conn[d] /\ r.net[d] = w.net[d]
  /\ r.call = w.call /\ r.done = w.done /\ r.ends = w.ends /\ r.free = w.free /\ r.waiting = w.waiting
  /\ r.taken = w.taken /\ r.tries = w.tries

\* send with the connection's record given.
LEMMA AskedIs ==
  ASSUME NEW w \in Pools, NEW c \in 1..Conns, NEW s \in 1..CallSlots, NEW x \in AConn,
         x.state = "busy", x.call = w.conn[c].call, x.answered = w.conn[c].answered,
         NEW n, n = [w.net[c] EXCEPT !.asked = NowAsked(w, c, s)], NEW r,
         r = [call |-> w.call, free |-> w.free, waiting |-> w.waiting, done |-> w.done, taken |-> w.taken,
              conn |-> [w.conn EXCEPT ![c] = x], net |-> [w.net EXCEPT ![c] = n],
              ends |-> w.ends, tries |-> w.tries]
  PROVE  Asked(w, c, s, r)
<1>1. w.conn \in [1..Conns -> AConn] /\ w.net \in [1..Conns -> ANet] /\ w.net[c] \in ANet
      BY PoolIs
<1>2. PICK q : q = NowAsked(w, c, s)
      OBVIOUS
<1>3. /\ n \in ANet /\ n.inbox = w.net[c].inbox /\ n.closed = w.net[c].closed /\ n.stray = w.net[c].stray
      /\ n.asked = NowAsked(w, c, s)
  <2>1. PICK I : I = 0..MaxCalls
        OBVIOUS
  <2>2. w.call[s].id \in I /\ w.net[c].asked \in Seq(I)
    <3>1. w.call[s].id \in 0..MaxCalls
          BY FieldsIs
    <3> QED BY <1>1, <2>1, <3>1 DEF ANet
  <2>3. q \in Seq(I)
        BY <1>2, <2>2 DEF NowAsked
  <2> QED BY <1>1, <1>2, <2>1, <2>3 DEF ANet
<1>4. PICK f, g : f = [w.conn EXCEPT ![c] = x] /\ g = [w.net EXCEPT ![c] = n]
      OBVIOUS
<1>5. /\ f \in [1..Conns -> AConn] /\ f[c] = x /\ \A d \in 1..Conns : d # c => f[d] = w.conn[d]
      BY <1>1, <1>4
<1>6. /\ g \in [1..Conns -> ANet] /\ g[c] = n /\ \A d \in 1..Conns : d # c => g[d] = w.net[d]
      BY <1>1, <1>3, <1>4
<1>7. r = [call |-> w.call, free |-> w.free, waiting |-> w.waiting, done |-> w.done, taken |-> w.taken,
           conn |-> f, net |-> g, ends |-> w.ends, tries |-> w.tries]
      BY <1>4
<1>8. /\ r.conn = f /\ r.call = w.call /\ r.done = w.done /\ r.ends = w.ends /\ r.free = w.free
      /\ r.waiting = w.waiting /\ r.taken = w.taken /\ r.net = g /\ r.tries = w.tries
      BY <1>7
<1>9. r \in Pools
      BY <1>5, <1>6, <1>7, PoolIs DEF Pools
<1> QED BY <1>3, <1>5, <1>6, <1>8, <1>9 DEF Asked

\* What a send comes to.
LEMMA SendsIs ==
  ASSUME NEW w, NEW wh, NEW c \in 1..Conns, NEW s \in 1..CallSlots, Held(w, wh, c, s), NEW r \in Calls!Sends(w, c)
  PROVE  Asked(w, c, s, r) \/ r = Calls!Finish(w, c, "closed")
<1>1. w \in Pools /\ w.conn[c].call = s
      BY DEF Held, Well
<1>2. w.conn[c] \in AConn /\ w.net[c] \in ANet /\ w.conn \in [1..Conns -> AConn] /\ w.net \in [1..Conns -> ANet]
      BY <1>1, PoolIs
<1>3. PICK n : n = [w.net[c] EXCEPT !.asked = NowAsked(w, c, s)]
      OBVIOUS
<1>4. PICK v : v = [w EXCEPT !.net[c].asked = NowAsked(w, c, s), !.conn[c].state = "busy"]
      OBVIOUS
<1>5. PICK x : x = [w.conn[c] EXCEPT !.state = "busy"]
      OBVIOUS
<1>6. x \in AConn /\ x.state = "busy" /\ x.call = w.conn[c].call /\ x.answered = w.conn[c].answered
      BY <1>2, <1>5 DEF AConn
<1>7. v = [call |-> w.call, free |-> w.free, waiting |-> w.waiting, done |-> w.done, taken |-> w.taken,
           conn |-> [w.conn EXCEPT ![c] = x], net |-> [w.net EXCEPT ![c] = n],
           ends |-> w.ends, tries |-> w.tries]
      BY <1>1, <1>3, <1>4, <1>5 DEF Pools
<1>8. Asked(w, c, s, v)
      BY <1>1, <1>3, <1>6, <1>7, AskedIs
<1>9. PICK y : y = [x EXCEPT !.sent = TRUE]
      OBVIOUS
<1>10. y \in AConn /\ y.state = "busy" /\ y.call = w.conn[c].call /\ y.answered = w.conn[c].answered
      BY <1>6, <1>9 DEF AConn
<1>11. PICK u : u = [v EXCEPT !.conn[c].sent = TRUE]
      OBVIOUS
<1>12. u = [call |-> w.call, free |-> w.free, waiting |-> w.waiting, done |-> w.done, taken |-> w.taken,
            conn |-> [w.conn EXCEPT ![c] = y], net |-> [w.net EXCEPT ![c] = n],
            ends |-> w.ends, tries |-> w.tries]
  <2>1. [[w.conn EXCEPT ![c] = x] EXCEPT ![c].sent = TRUE] = [w.conn EXCEPT ![c] = y]
        BY <1>2, <1>6, <1>9
  <2> QED BY <1>7, <1>11, <2>1
<1>13. Asked(w, c, s, u)
      BY <1>1, <1>3, <1>10, <1>12, AskedIs
<1>14. r \in {u, v, Calls!Finish(w, c, "closed")}
      BY <1>1, <1>4, <1>11 DEF Calls!Sends, NowAsked
<1> QED BY <1>8, <1>13, <1>14

\* A connection on which the call id may be sent, or sent on.
PoolReady(x, n, id) == IF x.state = "busy" THEN PoolOwn(n, id) ELSE n.inbox = <<>> /\ Settled(n)

\* send leaves a good pool, where nothing from before is left in the inbox.
LEMMA SendsOK ==
  ASSUME Calls!PoolSizes, NEW w, NEW wh, NEW c \in 1..Conns, NEW s \in 1..CallSlots, Held(w, wh, c, s),
         PoolReady(w.conn[c], w.net[c], w.call[s].id), NEW r \in Calls!Sends(w, c)
  PROVE  Goes(w, r)
<1>1. CASE r = Calls!Finish(w, c, "closed")
  <2>1. "closed" \in Codes
        BY DEF Codes
  <2>2. Finished(w, c, s, r) /\ r.conn[c].state = "closed"
        BY <1>1, <2>1, FinishIs
  <2> QED BY <2>2, PoolFinishOK
<1>2. CASE Asked(w, c, s, r)
  <2>1. /\ r \in Pools /\ r.conn[c].state = "busy" /\ r.conn[c].call = w.conn[c].call
        /\ r.conn[c].answered = w.conn[c].answered
        /\ r.net[c].inbox = w.net[c].inbox /\ r.net[c].closed = w.net[c].closed
        /\ r.net[c].stray = w.net[c].stray /\ r.net[c].asked = NowAsked(w, c, s)
        /\ \A d \in 1..Conns : d # c => r.conn[d] = w.conn[d] /\ r.net[d] = w.net[d]
        /\ r.call = w.call /\ r.done = w.done /\ r.ends = w.ends /\ r.free = w.free /\ r.waiting = w.waiting
        /\ r.taken = w.taken /\ r.tries = w.tries
        BY <1>2 DEF Asked
  <2>2. Well(w, wh) /\ w \in Pools /\ w.conn[c].call = s /\ OwnGot(w.conn[c], w.call[s])
        BY DEF Held, Well
  <2>3. \A d \in 1..Conns : r.conn[d].call = w.conn[d].call
        BY <2>1
  <2>4. Well(r, wh) /\ Calls!Known(r) = Calls!Known(w)
        BY <2>1, <2>2, <2>3, SameWell
  <2>5. ASSUME NEW d \in 1..Conns PROVE ConnOK(r, d)
    <3>1. CASE d = c
      <4>1. OwnGot(r.conn[c], r.call[s])
            BY <2>1, <2>2 DEF OwnGot
      <4>2. PoolOwn(r.net[c], r.call[s].id)
        <5>1. CASE w.conn[c].state = "busy"
          <6>1. PoolOwn(w.net[c], w.call[s].id) /\ r.net[c].asked = w.net[c].asked
                BY <2>1, <5>1 DEF PoolReady, NowAsked
          <6> QED BY <2>1, <6>1 DEF PoolOwn, Fronted, Owed
        <5>2. CASE w.conn[c].state # "busy"
          <6>1. w.net[c].inbox = <<>> /\ Settled(w.net[c]) /\ r.net[c].asked = Append(w.net[c].asked, w.call[s].id)
                BY <2>1, <5>2 DEF PoolReady, NowAsked
          <6>2. Fronted(r.net[c], r.call[s].id) /\ Calls!Endings(r.net[c].inbox) = {}
                BY <2>1, <6>1 DEF Fronted, Calls!Endings
          <6>3. ASSUME r.net[c].closed = "no", ~r.net[c].stray PROVE r.net[c].asked = <<r.call[s].id>>
            <7>1. w.net[c].asked = <<>>
                  BY <2>1, <6>1, <6>3 DEF Settled
            <7> QED BY <2>1, <6>1, <7>1
          <6> QED BY <6>2, <6>3 DEF PoolOwn, Owed
        <5> QED BY <5>1, <5>2
      <4>3. r.conn[c].call = s /\ s # Calls!None
            BY <2>1, <2>2 DEF Calls!None
      <4>4. r.conn[c].state \notin Resting
            BY <2>1 DEF Resting
      <4> QED BY <2>1, <3>1, <4>1, <4>2, <4>3, <4>4 DEF ConnOK
    <3>2. CASE d # c
          BY <2>1, <2>2, <3>2, ConnSame DEF Held
    <3> QED BY <3>1, <3>2
  <2> QED BY <2>4, <2>5 DEF Goes, Fine, Well
<1> QED BY <1>1, <1>2, SendsIs

\* The first number of a set.
LEMMA MinIs ==
  ASSUME NEW S \in SUBSET Nat, S # {}
  PROVE  Calls!Min(S) \in S /\ \A y \in S : Calls!Min(S) <= y
<1> DEFINE R == OpToRel(<, Nat)
<1>1. PICK x \in S : \A y \in S : ~(<<y, x>> \in R)
      BY NatLessThanWellFounded, WFMin
<1>2. \A y \in S : x <= y
  <2> SUFFICES ASSUME NEW y \in S PROVE x <= y
      OBVIOUS
  <2>1. ~(<<y, x>> \in R)
        BY <1>1
  <2>2. ~(y < x)
        BY <2>1 DEF OpToRel
  <2> QED BY <2>2, SMT
<1> QED BY <1>2 DEF Calls!Min

\* parse reads up to the end of a response, or all there is.
LEMMA UptoIs ==
  ASSUME NEW box \in Seq(Mail)
  PROVE  /\ Calls!Upto(box) \in 0..Len(box)
         /\ \A k \in 1..Calls!Upto(box) : \A j \in 1..k - 1 : box[j].kind = "part"
         /\ (Calls!Endings(box) # {} => Calls!Upto(box) \in 1..Len(box))
<1>1. Len(box) \in Nat /\ Calls!Endings(box) \subseteq 1..Len(box)
      BY DEF Calls!Endings
<1>2. CASE Calls!Endings(box) = {}
  <2>1. Calls!Upto(box) = Len(box)
        BY <1>2 DEF Calls!Upto
  <2>2. \A j \in 1..Len(box) : box[j].kind = "part"
        BY <1>2 DEF Calls!Endings
  <2> QED BY <1>1, <1>2, <2>1, <2>2
<1>3. CASE Calls!Endings(box) # {}
  <2>1. PICK m : m = Calls!Min(Calls!Endings(box))
        OBVIOUS
  <2>2. m \in Calls!Endings(box) /\ \A y \in Calls!Endings(box) : m <= y
    <3>1. Calls!Endings(box) \in SUBSET Nat
          BY <1>1
    <3> QED BY <1>3, <2>1, <3>1, MinIs
  <2>3. Calls!Upto(box) = m /\ m \in 1..Len(box)
        BY <1>1, <1>3, <2>1, <2>2 DEF Calls!Upto
  <2>4. \A j \in 1..m - 1 : j \in 1..Len(box) /\ j \notin Calls!Endings(box)
        BY <1>1, <2>2, <2>3
  <2>5. \A j \in 1..m - 1 : box[j].kind = "part"
        BY <2>4 DEF Calls!Endings
  <2> QED BY <1>1, <2>3, <2>5
<1> QED BY <1>2, <1>3

\* parse gives the call what it has read.
GivenTo(w, c, s, r) ==
  /\ r \in Pools /\ r.conn[c].state = w.conn[c].state /\ r.conn[c].call = w.conn[c].call
  /\ (~r.conn[c].answered => ~w.conn[c].answered /\ Calls!Upto(w.net[c].inbox) = 0)
  /\ r.net[c].inbox = <<>> /\ r.net[c].asked = w.net[c].asked /\ r.net[c].closed = w.net[c].closed
  /\ r.net[c].stray = w.net[c].stray
  /\ \A d \in 1..Conns : d # c => r.conn[d] = w.conn[d] /\ r.net[d] = w.net[d]
  /\ r.call[s].id = w.call[s].id /\ r.call[s].retried = w.call[s].retried /\ r.call[s].ok = w.call[s].ok
  /\ r.call[s].others = w.call[s].others \cup Calls!Strange(w.net[c].inbox, w.call[s].id)
  /\ \A t \in 1..CallSlots : t # s => r.call[t] = w.call[t]
  /\ r.done = w.done /\ r.ends = w.ends /\ r.free = w.free /\ r.waiting = w.waiting
  /\ r.taken = w.taken /\ r.tries = w.tries

\* receive gives the call what arrived, up to the end of a response.
LEMMA ReadIs ==
  ASSUME NEW w \in Pools, NEW c \in 1..Conns, NEW s \in 1..CallSlots, w.conn[c].call = s
  PROVE  GivenTo(w, c, s, Calls!Read(w, c))
<1>1. w.conn \in [1..Conns -> AConn] /\ w.net \in [1..Conns -> ANet] /\ w.call \in [1..CallSlots -> ACall]
      BY PoolIs
<1>2. w.conn[c] \in AConn /\ w.net[c] \in ANet /\ w.call[s] \in ACall
      BY <1>1
<1>3. PICK box, up, new : /\ box = w.net[c].inbox /\ up = Calls!Upto(box) /\ new = Calls!Strange(box, w.call[s].id)
      OBVIOUS
<1>4. box \in Seq(Mail)
      BY <1>2, <1>3 DEF ANet
<1>5. up \in 0..Len(box)
      BY <1>3, <1>4, UptoIs
<1>6. new \in SUBSET Marks
  <2> SUFFICES ASSUME NEW k \in 1..up PROVE Calls!Mark(box[k]) \in Marks
      BY <1>3 DEF Calls!Strange
  <2>1. k \in 1..Len(box)
        BY <1>4, <1>5
  <2>2. box[k] \in Mail
        BY <1>4, <2>1
  <2> QED BY <2>2 DEF Mail, Calls!Mark, Marks
<1>7. PICK x, n, k : /\ x = [w.conn[c] EXCEPT !.answered = w.conn[c].answered \/ up > 0]
                     /\ n = [w.net[c] EXCEPT !.inbox = <<>>]
                     /\ k = [w.call[s] EXCEPT !.others = w.call[s].others \cup new]
      OBVIOUS
<1>8. /\ x \in AConn /\ x.state = w.conn[c].state /\ x.call = w.conn[c].call
      /\ (~x.answered => ~w.conn[c].answered /\ ~(up > 0))
      BY <1>2, <1>7 DEF AConn
<1>9. /\ n \in ANet /\ n.inbox = <<>> /\ n.asked = w.net[c].asked /\ n.closed = w.net[c].closed
      /\ n.stray = w.net[c].stray
  <2>1. <<>> \in Seq(Mail)
        OBVIOUS
  <2> QED BY <1>2, <1>7, <2>1 DEF ANet
<1>10. /\ k \in ACall /\ k.id = w.call[s].id /\ k.retried = w.call[s].retried /\ k.ok = w.call[s].ok
       /\ k.others = w.call[s].others \cup new
      BY <1>2, <1>6, <1>7 DEF ACall
<1>11. PICK f, g, h : /\ f = [w.conn EXCEPT ![c] = x] /\ g = [w.net EXCEPT ![c] = n]
                      /\ h = [w.call EXCEPT ![s] = k]
      OBVIOUS
<1>12. f \in [1..Conns -> AConn] /\ f[c] = x /\ \A d \in 1..Conns : d # c => f[d] = w.conn[d]
      BY <1>1, <1>8, <1>11
<1>13. g \in [1..Conns -> ANet] /\ g[c] = n /\ \A d \in 1..Conns : d # c => g[d] = w.net[d]
      BY <1>1, <1>9, <1>11
<1>14. h \in [1..CallSlots -> ACall] /\ h[s] = k /\ \A t \in 1..CallSlots : t # s => h[t] = w.call[t]
      BY <1>1, <1>10, <1>11
<1>15. PICK r : r = Calls!Read(w, c)
      OBVIOUS
<1>16. r = [call |-> h, free |-> w.free, waiting |-> w.waiting, done |-> w.done, taken |-> w.taken,
            conn |-> f, net |-> g, ends |-> w.ends, tries |-> w.tries]
  <2>1. /\ f = [w.conn EXCEPT ![c] = [w.conn[c] EXCEPT !.answered = w.conn[c].answered \/ up > 0]]
        /\ g = [w.net EXCEPT ![c] = [w.net[c] EXCEPT !.inbox = <<>>]]
        /\ h = [w.call EXCEPT ![w.conn[c].call] = [w.call[w.conn[c].call] EXCEPT
                                                    !.others = w.call[w.conn[c].call].others \cup new]]
        BY <1>7, <1>11
  <2>2. r = [w EXCEPT !.net[c].inbox = <<>>, !.conn[c].answered = @ \/ up > 0,
                      !.call[w.conn[c].call].others = @ \cup new]
        BY <1>3, <1>15 DEF Calls!Read
  <2> QED BY <2>1, <2>2 DEF Pools
<1>17. /\ r.conn = f /\ r.call = h /\ r.done = w.done /\ r.ends = w.ends /\ r.free = w.free
       /\ r.waiting = w.waiting /\ r.taken = w.taken /\ r.net = g /\ r.tries = w.tries
      BY <1>16
<1>18. r \in Pools
      BY <1>12, <1>13, <1>14, <1>16, PoolIs DEF Pools
<1>19. ~(up > 0) => up = 0
      BY <1>4, <1>5
<1>20. GivenTo(w, c, s, r)
      BY <1>3, <1>8, <1>9, <1>10, <1>12, <1>13, <1>14, <1>17, <1>18, <1>19 DEF GivenTo
<1> QED BY <1>15, <1>20

\* What is read is the call's own.
LEMMA ReadHeld ==
  ASSUME Calls!PoolSizes, NEW w, NEW wh, NEW c \in 1..Conns, NEW s \in 1..CallSlots, Held(w, wh, c, s),
         Fronted(w.net[c], w.call[s].id), NEW r, GivenTo(w, c, s, r)
  PROVE  (\E v \in [1..CallSlots -> Places] : Held(r, v, c, s)) /\ Calls!Known(r) = Calls!Known(w)
<1>1. /\ Well(w, wh) /\ w.conn[c].call = s /\ OwnGot(w.conn[c], w.call[s])
      /\ \A d \in 1..Conns : d # c => ConnOK(w, d)
      BY DEF Held
<1>2. /\ w \in Pools /\ CallOK(w, w.call[s], "conn")
      /\ w.call[s].id # Calls!None /\ w.call[s].id \in Calls!Calls
      /\ ~Has(w.free, s) /\ ~Has(w.waiting, s) /\ ~Has(w.done, s) /\ s \notin w.taken
      /\ \A d \in 1..Conns : d # c => w.conn[d].call # s
      /\ \A t \in 1..CallSlots : t # s => w.call[t].id # w.call[s].id
  <2>1. w.conn[c].call # Calls!None
        BY <1>1 DEF Calls!None
  <2> QED BY <1>1, <2>1, CallOfConn
<1>3. /\ r \in Pools /\ r.conn[c].state = w.conn[c].state /\ r.conn[c].call = w.conn[c].call
      /\ \A d \in 1..Conns : d # c => r.conn[d] = w.conn[d] /\ r.net[d] = w.net[d]
      /\ r.call[s].id = w.call[s].id /\ r.call[s].retried = w.call[s].retried
      /\ \A t \in 1..CallSlots : t # s => r.call[t] = w.call[t]
      /\ r.done = w.done /\ r.ends = w.ends /\ r.free = w.free /\ r.waiting = w.waiting
      /\ r.taken = w.taken /\ r.tries = w.tries
      BY DEF GivenTo
<1>4. \A d \in 1..Conns : r.conn[d].call = w.conn[d].call
      BY <1>3
<1>5. Calls!Known(r) = Calls!Known(w)
  <2>1. \A t \in 1..CallSlots : r.call[t].id = w.call[t].id
        BY <1>3
  <2> QED BY <1>3, <2>1, KnownSame
<1>6. OwnGot(r.conn[c], r.call[s])
  <2>1. PICK box, up : box = w.net[c].inbox /\ up = Calls!Upto(box)
        OBVIOUS
  <2>2. box \in Seq(Mail)
    <3>1. w.net[c] \in ANet
          BY <1>2, FieldsIs
    <3> QED BY <2>1, <3>1 DEF ANet
  <2>3. up \in 0..Len(box) /\ \A k \in 1..up : \A j \in 1..k - 1 : box[j].kind = "part"
        BY <2>1, <2>2, UptoIs
  <2>4. \A k \in 1..up : box[k].for = w.call[s].id \/ box[k].stray
    <3> SUFFICES ASSUME NEW k \in 1..up PROVE box[k].for = w.call[s].id \/ box[k].stray
        OBVIOUS
    <3>1. k \in 1..Len(box)
          BY <2>2, <2>3
    <3> QED BY <2>1, <2>3, <3>1 DEF Fronted
  <2>5. r.call[s].others = w.call[s].others \cup {Calls!Mark(box[k]) : k \in {j \in 1..up : box[j].for # w.call[s].id}}
        BY <2>1 DEF GivenTo, Calls!Strange
  <2>6. AllStray(w.call[s].others) /\ (~w.conn[c].answered => w.call[s].others = {})
        BY <1>1 DEF OwnGot
  <2>7. AllStray(r.call[s].others)
        BY <1>3, <2>4, <2>5, <2>6 DEF AllStray, Calls!Mark
  <2>8. ASSUME ~r.conn[c].answered PROVE r.call[s].others = {}
    <3>1. ~w.conn[c].answered /\ up = 0
          BY <2>1, <2>8 DEF GivenTo
    <3>2. 1..up = {}
          BY <3>1
    <3> QED BY <2>5, <2>6, <3>1, <3>2
  <2> QED BY <2>7, <2>8 DEF OwnGot
<1>7. \A d \in 1..Conns : d # c => ConnOK(r, d)
  <2> SUFFICES ASSUME NEW d \in 1..Conns, d # c PROVE ConnOK(r, d)
      OBVIOUS
  <2>1. r.conn[d] = w.conn[d] /\ r.net[d] = w.net[d] /\ ConnOK(w, d) /\ w.conn[d].call # s
        BY <1>1, <1>2, <1>3
  <2>2. \A t \in 1..CallSlots : t = w.conn[d].call => r.call[t].id = w.call[t].id /\ r.call[t].others = w.call[t].others
        BY <1>3, <2>1
  <2> QED BY <1>2, <2>1, <2>2, ConnSame
<1>8. \E v \in [1..CallSlots -> Places] : Well(r, v)
  <2>1. CallOK(r, r.call[s], "conn")
        BY <1>2, <1>3 DEF CallOK
  <2>2. r.tries[r.call[s].id] <= 2 /\ r.ends[r.call[s].id] <= 1
        BY <1>1, <1>2, <1>3 DEF Well
  <2>3. "conn" \in Places
        BY DEF Places
  <2>4. /\ Once(w.free) /\ Once(w.waiting) /\ Once(w.done)
        /\ \A d, e \in 1..Conns : r.conn[d].call = r.conn[e].call /\ r.conn[d].call # Calls!None => d = e
        BY <1>1, <1>4 DEF Well, Placed
  <2>5. Holds(r, s) /\ \A t \in 1..CallSlots : Holds(r, t) <=> Holds(w, t)
        BY <1>1, <1>4 DEF Holds
  <2>6. PoolMoves(w, r, s, "conn")
        BY <1>2, <1>3, <2>1, <2>2, <2>4, <2>5 DEF PoolMoves
  <2> QED BY <1>1, <1>3, <2>3, <2>6, Moved
<1>9. PICK v \in [1..CallSlots -> Places] : Well(r, v)
      BY <1>8
<1>10. Held(r, v, c, s)
      BY <1>1, <1>3, <1>6, <1>7, <1>9 DEF Held
<1> QED BY <1>5, <1>10

\* A connection with a call is held.
LEMMA HeldNow ==
  ASSUME NEW w, Fine(w), NEW c \in 1..Conns, w.conn[c].call # Calls!None
  PROVE  \E s \in 1..CallSlots, wh \in [1..CallSlots -> Places] :
           Held(w, wh, c, s) /\ (w.conn[c].state = "busy" => PoolOwn(w.net[c], w.call[s].id))
<1>1. PICK wh \in [1..CallSlots -> Places] : Well(w, wh)
      BY DEF Fine
<1>2. w.conn[c].call \in 1..CallSlots
      BY <1>1, FieldsIs DEF Well
<1>3. PICK s \in 1..CallSlots : s = w.conn[c].call
      BY <1>2
<1>4. \A d \in 1..Conns : ConnOK(w, d)
      BY DEF Fine
<1>5. OwnGot(w.conn[c], w.call[s]) /\ (w.conn[c].state = "busy" => PoolOwn(w.net[c], w.call[s].id))
      BY <1>3, <1>4 DEF ConnOK
<1>6. Held(w, wh, c, s)
      BY <1>1, <1>3, <1>4, <1>5 DEF Held
<1> QED BY <1>5, <1>6

\* Steps one after another.
LEMMA GoesOn ==
  ASSUME NEW w, NEW u, NEW r, Calls!Known(u) = Calls!Known(w), Goes(u, r)
  PROVE  Goes(w, r)
BY DEF Goes

\* receive leaves a good pool.
LEMMA ReceivesOK ==
  ASSUME Calls!PoolSizes, NEW w, Fine(w), NEW c \in 1..Conns, w.conn[c].state \notin {"closed", "connecting"},
         NEW r \in Calls!Receives(w, c)
  PROVE  Goes(w, r)
<1>1. w \in Pools
      BY DEF Fine, Well
<1>2. CASE w.conn[c].call = Calls!None
  <2>1. r = Calls!Close(w, c) \/ r = w
        BY <1>2 DEF Calls!Receives
  <2>2. Goes(w, w)
        BY DEF Goes
  <2> QED BY <1>2, <2>1, <2>2, CloseOK
<1>3. CASE w.conn[c].call # Calls!None
  <2>1. PICK s \in 1..CallSlots, wh \in [1..CallSlots -> Places] :
          Held(w, wh, c, s) /\ (w.conn[c].state = "busy" => PoolOwn(w.net[c], w.call[s].id))
        BY <1>3, HeldNow
  <2>2. w.conn[c].state = "busy"
    <3>1. w.conn[c].state \notin Resting
          BY <1>3 DEF Fine, ConnOK
    <3>2. w.conn[c] \in AConn
          BY <1>1, FieldsIs
    <3>3. w.conn[c].state \in {"closed", "connecting", "busy", "idle"}
          BY <3>2 DEF AConn
    <3> QED BY <3>1, <3>3 DEF Resting
  <2>3. PoolOwn(w.net[c], w.call[s].id) /\ Fronted(w.net[c], w.call[s].id)
        BY <2>1, <2>2 DEF PoolOwn
  <2>4. PICK read : read = Calls!Read(w, c)
        OBVIOUS
  <2>5. GivenTo(w, c, s, read)
        BY <1>1, <2>1, <2>4, ReadIs DEF Held
  <2>6. PICK v \in [1..CallSlots -> Places] : Held(read, v, c, s)
        BY <2>1, <2>3, <2>5, ReadHeld
  <2>7. Calls!Known(read) = Calls!Known(w)
        BY <2>1, <2>3, <2>5, ReadHeld
  <2>8. ASSUME NEW code \in Codes, code # "none" \/ Settled(read.net[c])
        PROVE  Goes(w, Calls!Finish(read, c, code)) /\ Calls!Finish(read, c, code).conn[c].call = Calls!None
    <3>1. /\ Finished(read, c, s, Calls!Finish(read, c, code))
          /\ (code # "none" => Calls!Finish(read, c, code).conn[c].state = "closed")
          BY <2>6, FinishIs
    <3>2. Goes(read, Calls!Finish(read, c, code)) /\ Calls!Finish(read, c, code).conn[c].call = Calls!None
          BY <2>6, <2>8, <3>1, PoolFinishOK
    <3> QED BY <2>7, <3>2, GoesOn
  <2>9. "none" \in Codes /\ "error" \in Codes /\ "reset" \in Codes /\ "closed" \in Codes
        BY DEF Codes
  <2>10. PICK ended : ended = Calls!Finish(read, c, "none")
        OBVIOUS
  <2>11. ASSUME Calls!Endings(w.net[c].inbox) # {} \/ w.net[c].closed # "no"
         PROVE  Goes(w, ended) /\ Goes(w, Calls!Close(ended, c))
    <3>0. Settled(read.net[c])
      <4>1. /\ read.net[c].asked = w.net[c].asked /\ read.net[c].closed = w.net[c].closed
            /\ read.net[c].stray = w.net[c].stray
            BY <2>5 DEF GivenTo
      <4> QED BY <2>3, <2>11, <4>1 DEF PoolOwn, Owed, Settled
    <3>1. Goes(w, ended) /\ ended.conn[c].call = Calls!None
          BY <2>8, <2>9, <2>10, <3>0
    <3>2. Goes(ended, Calls!Close(ended, c))
          BY <3>1, CloseOK DEF Goes
    <3> QED BY <3>1, <3>2, GoesOn DEF Goes
  <2>12. Goes(w, Calls!Finish(read, c, "error")) /\ Goes(w, Calls!Finish(read, c, "reset")) /\ Goes(w, Calls!Finish(read, c, "closed"))
        BY <2>8, <2>9
  <2>13. ASSUME Calls!Endings(w.net[c].inbox) = {}, w.net[c].closed = "no" PROVE Goes(w, read)
    <3>1. PoolOwn(read.net[c], read.call[s].id)
      <4>1. /\ read.net[c].inbox = <<>> /\ read.net[c].asked = w.net[c].asked /\ read.call[s].id = w.call[s].id
            /\ read.net[c].stray = w.net[c].stray
            BY <2>5 DEF GivenTo
      <4>2. ~w.net[c].stray => w.net[c].asked = <<w.call[s].id>>
            BY <2>3, <2>13 DEF PoolOwn, Owed
      <4>3. Fronted(read.net[c], read.call[s].id) /\ Calls!Endings(read.net[c].inbox) = {}
            BY <4>1 DEF Fronted, Calls!Endings
      <4> QED BY <4>1, <4>2, <4>3 DEF PoolOwn, Owed
    <3>2. ConnOK(read, c)
      <4>1. read.conn[c].state = "busy" /\ read.conn[c].call = s /\ OwnGot(read.conn[c], read.call[s]) /\ s # Calls!None
            BY <2>2, <2>5, <2>6 DEF GivenTo, Held, Calls!None
      <4>2. "busy" \notin Resting
            BY DEF Resting
      <4> QED BY <3>1, <4>1, <4>2 DEF ConnOK
    <3>3. \A d \in 1..Conns : ConnOK(read, d)
          BY <2>6, <3>2 DEF Held
    <3> QED BY <2>6, <2>7, <3>3 DEF Goes, Fine, Held
  <2>14. w.net[c].closed \in {"no", "fin", "reset"}
    <3>1. w.net[c] \in ANet
          BY <1>1, FieldsIs
    <3> QED BY <3>1 DEF ANet
  <2>15. \/ r = read /\ Calls!Endings(w.net[c].inbox) = {} /\ w.net[c].closed = "no"
         \/ r \in {ended, Calls!Close(ended, c)} /\ (Calls!Endings(w.net[c].inbox) # {} \/ w.net[c].closed # "no")
         \/ r \in {Calls!Finish(read, c, "error"), Calls!Finish(read, c, "reset"), Calls!Finish(read, c, "closed")}
        BY <1>3, <2>4, <2>10, <2>14 DEF Calls!Receives
  <2> QED BY <2>11, <2>12, <2>13, <2>15
<1> QED BY <1>2, <1>3
-----------------------------------------------------------------------------
\* A slot that is on no connection before and after.
LEMMA MoveOK ==
  ASSUME NEW w, Fine(w), NEW wh, Well(w, wh), NEW s \in 1..CallSlots, wh[s] # "conn",
         NEW r \in Pools, NEW p \in Places, PoolMoves(w, r, s, p), r.conn = w.conn, r.net = w.net
  PROVE  Fine(r)
<1>1. \E v \in [1..CallSlots -> Places] : Well(r, v)
      BY Moved
<1>2. w \in Pools
      BY DEF Well
<1>3. ASSUME NEW d \in 1..Conns PROVE ConnOK(r, d)
  <2>1. w.conn[d].call # s
        BY DEF Well, Placed, Holds
  <2>2. \A t \in 1..CallSlots : t = w.conn[d].call => r.call[t].id = w.call[t].id /\ r.call[t].others = w.call[t].others
        BY <2>1 DEF PoolMoves
  <2>3. ConnOK(w, d)
        BY DEF Fine
  <2> QED BY <1>2, <2>2, <2>3, ConnSame
<1> QED BY <1>1, <1>3 DEF Fine

\* Nothing about the connections changes.
OffConns(w, r, s) ==
  /\ ~Holds(r, s) /\ \A t \in 1..CallSlots : Holds(r, t) <=> Holds(w, t)
  /\ \A c, d \in 1..Conns : r.conn[c].call = r.conn[d].call /\ r.conn[c].call # Calls!None => c = d

\* A slot that is on no connection leaves the connections as they are.
LEMMA OffConn ==
  ASSUME NEW w, NEW wh, Well(w, wh), NEW s \in 1..CallSlots, wh[s] # "conn", NEW r, r.conn = w.conn
  PROVE  OffConns(w, r, s)
BY DEF Well, Placed, Holds, OffConns

\* A slot is in one place.
LEMMA InPlace ==
  ASSUME NEW w, NEW wh, Well(w, wh), NEW s \in 1..CallSlots
  PROVE  /\ w \in Pools /\ Once(w.free) /\ Once(w.waiting) /\ Once(w.done) /\ CallOK(w, w.call[s], wh[s])
         /\ Has(w.free, s) <=> wh[s] = "free"
         /\ Has(w.waiting, s) <=> wh[s] = "waiting"
         /\ Has(w.done, s) <=> wh[s] = "done"
         /\ s \in w.taken <=> wh[s] = "taken"
         /\ (w.call[s].id = Calls!None <=> wh[s] = "free") /\ (w.call[s].id # Calls!None => w.call[s].id \in Calls!Calls)
         /\ \A t \in 1..CallSlots : t # s /\ w.call[t].id = w.call[s].id => w.call[s].id = Calls!None
         /\ (w.call[s].id # Calls!None => w.tries[w.call[s].id] <= 2 /\ w.ends[w.call[s].id] <= 1)
<1>1. w \in Pools
      BY DEF Well
<1>2. w.call[s].id # Calls!None => w.call[s].id \in Calls!Calls
      BY <1>1, FieldsIs
<1>3. CallOK(w, w.call[s], wh[s]) /\ (w.call[s].id = Calls!None <=> wh[s] = "free")
      BY DEF Well, CallOK
<1>4. \A t \in 1..CallSlots : t # s /\ w.call[t].id = w.call[s].id => w.call[s].id = Calls!None
      BY DEF Well
<1>5. w.call[s].id # Calls!None => w.tries[w.call[s].id] <= 2 /\ w.ends[w.call[s].id] <= 1
      BY <1>2 DEF Well
<1> QED BY <1>1, <1>2, <1>3, <1>4, <1>5 DEF Well, Placed

\* take
Takes(w) == [w EXCEPT !.done = Tail(@), !.taken = @ \cup {Head(w.done)},
                      !.call[Head(w.done)] = [Calls!Blank EXCEPT !.id = w.call[Head(w.done)].id]]

\* take leaves a good pool: the slot goes from done to taken.
LEMMA TakeOK ==
  ASSUME Calls!PoolSizes, NEW w, Fine(w), w.done # <<>>, NEW r, r = Takes(w)
  PROVE  Goes(w, r)
<1>1. PICK wh \in [1..CallSlots -> Places] : Well(w, wh)
      BY DEF Fine
<1>2. w \in Pools /\ w.done \in Seq(1..CallSlots) /\ Once(w.done) /\ w.call \in [1..CallSlots -> ACall]
      BY <1>1, PoolIs DEF Well, Placed
<1>3. Head(w.done) \in 1..CallSlots /\ Tail(w.done) \in Seq(1..CallSlots) /\ Removed(w.done, Head(w.done), Tail(w.done))
      BY <1>2, TailHas
<1>4. PICK s \in 1..CallSlots : s = Head(w.done)
      BY <1>3
<1>5. PICK q : q = Tail(w.done)
      OBVIOUS
<1>6. Removed(w.done, s, q) /\ q \in Seq(1..CallSlots)
      BY <1>3, <1>4, <1>5
<1>7. PICK g : g = [Calls!Blank EXCEPT !.id = w.call[s].id]
      OBVIOUS
<1>8. g \in ACall /\ g.id = w.call[s].id
  <2>1. w.call[s].id \in 0..MaxCalls
        BY <1>2 DEF ACall
  <2> QED BY <1>7, <2>1 DEF Calls!Blank, ACall
<1>9. PICK h : h = [w.call EXCEPT ![s] = g]
      OBVIOUS
<1>10. h \in [1..CallSlots -> ACall] /\ h[s] = g /\ \A t \in 1..CallSlots : t # s => h[t] = w.call[t]
      BY <1>2, <1>8, <1>9
<1>11. r = [call |-> h, free |-> w.free, waiting |-> w.waiting, done |-> q, taken |-> w.taken \cup {s},
            conn |-> w.conn, net |-> w.net, ends |-> w.ends, tries |-> w.tries]
      BY <1>2, <1>4, <1>5, <1>7, <1>9 DEF Takes, Pools
<1>12. /\ r.conn = w.conn /\ r.call = h /\ r.done = q /\ r.ends = w.ends /\ r.free = w.free
       /\ r.waiting = w.waiting /\ r.taken = w.taken \cup {s} /\ r.net = w.net /\ r.tries = w.tries
      BY <1>11
<1>13. r \in Pools
      BY <1>2, <1>6, <1>10, <1>11, PoolIs DEF Pools
<1>14. wh[s] = "done"
      BY <1>1, <1>6, InPlace DEF Removed
<1>15. CallOK(r, r.call[s], "taken")
  <2>1. CallOK(w, w.call[s], "done")
        BY <1>1, <1>14, InPlace
  <2> QED BY <1>8, <1>10, <1>12, <2>1 DEF CallOK
<1>16. PoolMoves(w, r, s, "taken")
  <2>1. /\ Once(w.free) /\ Once(w.waiting) /\ ~Has(w.free, s) /\ ~Has(w.waiting, s)
        /\ \A t \in 1..CallSlots : t # s /\ w.call[t].id = w.call[s].id => w.call[s].id = Calls!None
        /\ (w.call[s].id # Calls!None => w.tries[w.call[s].id] <= 2 /\ w.ends[w.call[s].id] <= 1)
        BY <1>1, <1>14, InPlace
  <2>2. OffConns(w, r, s)
    <3>1. r.conn = w.conn /\ wh[s] # "conn"
          BY <1>12, <1>14
    <3> QED BY <1>1, <3>1, OffConn
  <2>3. Once(q) /\ ~Has(q, s) /\ \A t : t # s => (Has(q, t) <=> Has(w.done, t))
        BY <1>6 DEF Removed
  <2> QED BY <1>8, <1>10, <1>12, <1>15, <2>1, <2>2, <2>3 DEF PoolMoves, OffConns
<1>17. Fine(r)
  <2>1. "taken" \in Places
        BY DEF Places
  <2> QED BY <1>1, <1>12, <1>13, <1>14, <1>16, <2>1, MoveOK
<1>18. Calls!Known(r) = Calls!Known(w)
  <2>1. \A t \in 1..CallSlots : h[t].id = w.call[t].id
        BY <1>8, <1>10
  <2> QED BY <1>12, <2>1 DEF Calls!Known
<1> QED BY <1>17, <1>18 DEF Goes

\* release
Releases(w, s) == [w EXCEPT !.taken = @ \ {s}, !.free = Append(@, s), !.call[s] = Calls!Blank]

\* release leaves a good pool: the slot is free and its call forgotten.
LEMMA ReleaseOK ==
  ASSUME Calls!PoolSizes, NEW w, Fine(w), NEW s \in 1..CallSlots, s \in w.taken, NEW r, r = Releases(w, s)
  PROVE  Goes(w, r)
<1>1. PICK wh \in [1..CallSlots -> Places] : Well(w, wh)
      BY DEF Fine
<1>2. w \in Pools /\ w.free \in Seq(1..CallSlots) /\ Once(w.free) /\ w.call \in [1..CallSlots -> ACall]
      BY <1>1, PoolIs DEF Well, Placed
<1>3. Calls!Blank \in ACall /\ Calls!Blank.id = Calls!None
  <2>1. 0 \in 0..MaxCalls /\ {} \in SUBSET Marks
        BY DEF Calls!PoolSizes
  <2> QED BY <2>1 DEF Calls!Blank, ACall, Calls!None
<1>4. PICK q : q = Append(w.free, s)
      OBVIOUS
<1>5. Added(w.free, s, q) /\ q \in Seq(1..CallSlots)
      BY <1>2, <1>4, AppendHas
<1>6. PICK h : h = [w.call EXCEPT ![s] = Calls!Blank]
      OBVIOUS
<1>7. h \in [1..CallSlots -> ACall] /\ h[s] = Calls!Blank /\ \A t \in 1..CallSlots : t # s => h[t] = w.call[t]
      BY <1>2, <1>3, <1>6
<1>8. r = [call |-> h, free |-> q, waiting |-> w.waiting, done |-> w.done, taken |-> w.taken \ {s},
           conn |-> w.conn, net |-> w.net, ends |-> w.ends, tries |-> w.tries]
      BY <1>2, <1>4, <1>6 DEF Releases, Pools
<1>9. /\ r.conn = w.conn /\ r.call = h /\ r.done = w.done /\ r.ends = w.ends /\ r.free = q
      /\ r.waiting = w.waiting /\ r.taken = w.taken \ {s} /\ r.net = w.net /\ r.tries = w.tries
      BY <1>8
<1>10. r \in Pools
      BY <1>2, <1>5, <1>7, <1>8, PoolIs DEF Pools
<1>11. wh[s] = "taken"
      BY <1>1, InPlace
<1>12. /\ Once(w.waiting) /\ Once(w.done) /\ ~Has(w.free, s) /\ ~Has(w.waiting, s) /\ ~Has(w.done, s)
       /\ w.call[s].id \in Calls!Calls /\ w.ends[w.call[s].id] = 1
      BY <1>1, <1>11, InPlace DEF CallOK
<1>13. PoolMoves(w, r, s, "free")
  <2>1. CallOK(r, r.call[s], "free")
        BY <1>3, <1>7, <1>9 DEF CallOK
  <2>2. OffConns(w, r, s)
    <3>1. r.conn = w.conn /\ wh[s] # "conn"
          BY <1>9, <1>11
    <3> QED BY <1>1, <3>1, OffConn
  <2>3. Once(q) /\ Has(q, s) /\ \A t : t # s => (Has(q, t) <=> Has(w.free, t))
        BY <1>2, <1>5, <1>12 DEF Added
  <2> QED BY <1>3, <1>7, <1>9, <1>12, <2>1, <2>2, <2>3 DEF PoolMoves, OffConns
<1>14. Fine(r)
  <2>1. "free" \in Places
        BY DEF Places
  <2> QED BY <1>1, <1>9, <1>10, <1>11, <1>13, <2>1, MoveOK
<1>15. Calls!Known(r) = Calls!Known(w)
  <2>1. ASSUME NEW i \in Calls!Calls PROVE i \in Calls!Known(r) <=> i \in Calls!Known(w)
    <3>1. CASE i = w.call[s].id
          BY <1>9, <1>12, <3>1 DEF Calls!Known
    <3>2. CASE i # w.call[s].id
      <4>1. i # Calls!None
            BY DEF Calls!Calls, Calls!None
      <4>2. \A t \in 1..CallSlots : h[t].id = i <=> w.call[t].id = i
            BY <1>3, <1>7, <3>2, <4>1
      <4> QED BY <1>9, <4>2 DEF Calls!Known
    <3> QED BY <3>1, <3>2
  <2> QED BY <2>1 DEF Calls!Known
<1> QED BY <1>14, <1>15 DEF Goes

\* get takes the last free slot for the call n.
Gets(w, s, n) == [w EXCEPT !.free = SubSeq(@, 1, Len(@) - 1), !.call[s] = [Calls!Blank EXCEPT !.id = n]]
LastFree(w, s) == w.free # <<>> /\ s = w.free[Len(w.free)]
Waits(w, s) == [w EXCEPT !.waiting = Append(@, s)]

Opened(w, s, n, r) ==
  /\ r \in Pools /\ Removed(w.free, s, r.free)
  /\ r.call[s].id = n /\ r.call[s].others = {} /\ r.call[s].retried = FALSE
  /\ \A t \in 1..CallSlots : t # s => r.call[t] = w.call[t]
  /\ r.conn = w.conn /\ r.net = w.net /\ r.waiting = w.waiting /\ r.done = w.done /\ r.taken = w.taken
  /\ r.ends = w.ends /\ r.tries = w.tries

\* get takes the last free slot for a call of number n.
LEMMA GetsIs ==
  ASSUME NEW w \in Pools, NEW s \in 1..CallSlots, LastFree(w, s), Once(w.free), NEW n \in Calls!Calls
  PROVE  Opened(w, s, n, Gets(w, s, n))
<1>1. w.free \in Seq(1..CallSlots) /\ w.call \in [1..CallSlots -> ACall]
      BY PoolIs
<1>2. PICK q : q = SubSeq(w.free, 1, Len(w.free) - 1)
      OBVIOUS
<1>3. q \in Seq(1..CallSlots) /\ Removed(w.free, s, q)
  <2>1. w.free # <<>> /\ w.free[Len(w.free)] = s
        BY DEF LastFree
  <2>2. q \in Seq(1..CallSlots) /\ Removed(w.free, w.free[Len(w.free)], q)
        BY <1>1, <1>2, <2>1, FrontHas
  <2> QED BY <2>1, <2>2
<1>4. PICK x, h : x = [Calls!Blank EXCEPT !.id = n] /\ h = [w.call EXCEPT ![s] = x]
      OBVIOUS
<1>5. x \in ACall /\ x.id = n /\ x.others = {} /\ x.retried = FALSE
  <2>1. n \in 0..MaxCalls /\ {} \in SUBSET Marks
        BY DEF Calls!Calls
  <2> QED BY <1>4, <2>1 DEF Calls!Blank, ACall
<1>6. h \in [1..CallSlots -> ACall] /\ h[s] = x /\ \A t \in 1..CallSlots : t # s => h[t] = w.call[t]
      BY <1>1, <1>4, <1>5
<1>7. PICK r : r = Gets(w, s, n)
      OBVIOUS
<1>8. r = [call |-> h, free |-> q, waiting |-> w.waiting, done |-> w.done, taken |-> w.taken,
           conn |-> w.conn, net |-> w.net, ends |-> w.ends, tries |-> w.tries]
      BY <1>2, <1>4, <1>7 DEF Gets, Pools
<1>9. /\ r.conn = w.conn /\ r.call = h /\ r.done = w.done /\ r.ends = w.ends /\ r.free = q
      /\ r.waiting = w.waiting /\ r.taken = w.taken /\ r.net = w.net /\ r.tries = w.tries
      BY <1>8
<1>10. r \in Pools
      BY <1>3, <1>6, <1>8, PoolIs DEF Pools
<1>11. Opened(w, s, n, r)
      BY <1>3, <1>5, <1>6, <1>9, <1>10 DEF Opened
<1> QED BY <1>7, <1>11

\* get puts the call at the end of the queue.
LEMMA WaitsIs ==
  ASSUME NEW w \in Pools, NEW s \in 1..CallSlots, NEW r, r = Waits(w, s)
  PROVE  /\ r \in Pools /\ r.waiting = Append(w.waiting, s)
         /\ r.conn = w.conn /\ r.call = w.call /\ r.done = w.done /\ r.ends = w.ends /\ r.free = w.free
         /\ r.taken = w.taken /\ r.net = w.net /\ r.tries = w.tries
<1>1. PICK q : q = Append(w.waiting, s)
      OBVIOUS
<1>2. q \in Seq(1..CallSlots)
      BY <1>1, PoolIs
<1>3. r = [call |-> w.call, free |-> w.free, waiting |-> q, done |-> w.done, taken |-> w.taken,
           conn |-> w.conn, net |-> w.net, ends |-> w.ends, tries |-> w.tries]
      BY <1>1 DEF Waits, Pools
<1>4. r \in Pools
      BY <1>2, <1>3, PoolIs DEF Pools
<1> QED BY <1>1, <1>3, <1>4

\* get: the call has not been known before.
GetSteps(w, s, m, u, r) == u = Gets(w, s, m + 1) /\ (r = Waits(u, s) \/ r = Calls!End(u, s, FALSE))

\* get leaves a good pool with one more call, known by the next number.
LEMMA GetOK ==
  ASSUME Calls!PoolSizes, NEW w, Fine(w), NEW s \in 1..CallSlots, LastFree(w, s),
         NEW m \in 0..MaxCalls, m < MaxCalls, Calls!Known(w) = 1..m, NEW u, NEW r, GetSteps(w, s, m, u, r)
  PROVE  Fine(r) /\ Calls!Known(r) = 1..(m + 1)
<1>1. PICK wh \in [1..CallSlots -> Places] : Well(w, wh)
      BY DEF Fine
<1>2. w \in Pools /\ Once(w.free)
      BY <1>1, InPlace
<1>0. MaxCalls \in Nat /\ m + 1 \in 1..MaxCalls
  <2>1. MaxCalls \in Nat
        BY DEF Calls!PoolSizes
  <2> QED BY <2>1
<1>3. PICK n \in Calls!Calls : n = m + 1
      BY <1>0 DEF Calls!Calls
<1>4. n \notin Calls!Known(w)
      BY <1>3
<1>5. Opened(w, s, n, u)
      BY <1>2, <1>3, GetsIs DEF GetSteps
<1>6. wh[s] = "free"
      BY <1>1, <1>5, InPlace DEF Opened, Removed
<1>7. /\ Once(w.waiting) /\ Once(w.done) /\ ~Has(w.waiting, s) /\ ~Has(w.done, s) /\ s \notin w.taken
      /\ w.call[s].id = Calls!None
      BY <1>1, <1>6, InPlace
<1>8. /\ w.tries[n] = 0 /\ w.ends[n] = 0 /\ \A t \in 1..CallSlots : w.call[t].id # n
  <2>1. w.tries[n] \in Nat /\ w.ends[n] \in Nat
        BY <1>2, PoolIs
  <2>2. ~(w.tries[n] > 0) /\ ~(w.ends[n] > 0) /\ \A t \in 1..CallSlots : w.call[t].id # n
        BY <1>4 DEF Calls!Known
  <2> QED BY <2>1, <2>2
<1>9. n # Calls!None
      BY DEF Calls!Calls, Calls!None
<1>10. /\ u \in Pools /\ u.call[s].id = n /\ u.call[s].others = {} /\ u.call[s].retried = FALSE
       /\ \A t \in 1..CallSlots : t # s => u.call[t] = w.call[t]
       /\ u.conn = w.conn /\ u.net = w.net /\ u.waiting = w.waiting /\ u.done = w.done /\ u.taken = w.taken
       /\ u.ends = w.ends /\ u.tries = w.tries
       /\ Once(u.free) /\ ~Has(u.free, s) /\ \A t : t # s => (Has(u.free, t) <=> Has(w.free, t))
      BY <1>5 DEF Opened, Removed
<1>11. /\ r \in Pools /\ r.conn = w.conn /\ r.net = w.net /\ r.free = u.free /\ r.taken = w.taken /\ r.tries = w.tries
       /\ r.call[s].id = n /\ r.call[s].others = {}
       /\ \A t \in 1..CallSlots : t # s => r.call[t] = w.call[t]
       /\ \A i \in Calls!Calls : i # n => r.ends[i] = w.ends[i]
       /\ \/ r.call[s].retried = FALSE /\ r.waiting = Append(w.waiting, s) /\ r.done = w.done /\ r.ends[n] = 0
          \/ r.done = Append(w.done, s) /\ r.waiting = w.waiting /\ r.ends[n] = 1
  <2>1. CASE r = Waits(u, s)
    <3>1. /\ r \in Pools /\ r.waiting = Append(u.waiting, s)
          /\ r.conn = u.conn /\ r.call = u.call /\ r.done = u.done /\ r.ends = u.ends /\ r.free = u.free
          /\ r.taken = u.taken /\ r.net = u.net /\ r.tries = u.tries
          BY <1>10, <2>1, WaitsIs
    <3> QED BY <1>8, <1>10, <3>1
  <2>2. CASE r = Calls!End(u, s, FALSE)
    <3>1. u.call[s].id \in Calls!Calls /\ u \in Pools
          BY <1>10
    <3>2. Ended(u, s, r)
          BY <2>2, <3>1, EndIs
    <3> QED BY <1>8, <1>10, <3>2 DEF Ended
  <2> QED BY <2>1, <2>2 DEF GetSteps
<1>12. OffConns(w, r, s)
  <2>1. r.conn = w.conn /\ wh[s] # "conn"
        BY <1>6, <1>11
  <2> QED BY <1>1, <2>1, OffConn
<1>13. w.waiting \in Seq(1..CallSlots) /\ w.done \in Seq(1..CallSlots)
      BY <1>2, PoolIs
<1>14. Fine(r)
  <2>1. CASE r.call[s].retried = FALSE /\ r.waiting = Append(w.waiting, s) /\ r.done = w.done /\ r.ends[n] = 0
    <3>1. Added(w.waiting, s, r.waiting)
          BY <1>13, <2>1, AppendHas
    <3>2. /\ Once(r.waiting) /\ \A t : Has(r.waiting, t) <=> Has(w.waiting, t) \/ t = s
          BY <1>7, <3>1 DEF Added
    <3>3. CallOK(r, r.call[s], "waiting")
          BY <1>8, <1>9, <1>11, <2>1 DEF CallOK
    <3>4. PoolMoves(w, r, s, "waiting")
          BY <1>7, <1>8, <1>9, <1>10, <1>11, <1>12, <2>1, <3>2, <3>3 DEF PoolMoves, OffConns
    <3>5. "waiting" \in Places
          BY DEF Places
    <3> QED BY <1>1, <1>6, <1>11, <3>4, <3>5, MoveOK
  <2>2. CASE r.done = Append(w.done, s) /\ r.waiting = w.waiting /\ r.ends[n] = 1
    <3>1. Added(w.done, s, r.done)
          BY <1>13, <2>2, AppendHas
    <3>2. /\ Once(r.done) /\ \A t : Has(r.done, t) <=> Has(w.done, t) \/ t = s
          BY <1>7, <3>1 DEF Added
    <3>3. CallOK(r, r.call[s], "done")
          BY <1>8, <1>9, <1>11, <2>2 DEF CallOK, AllStray
    <3>4. PoolMoves(w, r, s, "done")
          BY <1>7, <1>8, <1>9, <1>10, <1>11, <1>12, <2>2, <3>2, <3>3 DEF PoolMoves, OffConns
    <3>5. "done" \in Places
          BY DEF Places
    <3> QED BY <1>1, <1>6, <1>11, <3>4, <3>5, MoveOK
  <2> QED BY <1>11, <2>1, <2>2
<1>15. Calls!Known(r) = 1..(m + 1)
  <2>1. ASSUME NEW i \in Calls!Calls PROVE i \in Calls!Known(r) <=> i \in Calls!Known(w) \/ i = n
    <3>1. CASE i = n
          BY <1>11, <3>1 DEF Calls!Known
    <3>2. CASE i # n
      <4>1. i # Calls!None
            BY DEF Calls!Calls, Calls!None
      <4>2. \A t \in 1..CallSlots : r.call[t].id = i <=> w.call[t].id = i
            BY <1>7, <1>11, <3>2, <4>1
      <4> QED BY <1>11, <3>2, <4>2 DEF Calls!Known
    <3> QED BY <3>1, <3>2
  <2>2. Calls!Known(r) \subseteq Calls!Calls /\ 1..(m + 1) \subseteq Calls!Calls
        BY <1>0 DEF Calls!Known, Calls!Calls
  <2>3. \A i \in Calls!Calls : i \in 1..(m + 1) <=> i \in 1..m \/ i = m + 1
        BY DEF Calls!Calls
  <2> QED BY <1>3, <2>1, <2>2, <2>3
<1> QED BY <1>14, <1>15

\* A late call that waits ends.
Leaves(w) == [w EXCEPT !.waiting = Tail(@)]

Left(w, r) ==
  /\ r \in Pools /\ r.waiting = Tail(w.waiting)
  /\ r.conn = w.conn /\ r.call = w.call /\ r.done = w.done /\ r.ends = w.ends /\ r.free = w.free
  /\ r.taken = w.taken /\ r.net = w.net /\ r.tries = w.tries

\* The first call leaves the queue.
LEMMA LeavesIs ==
  ASSUME NEW w \in Pools, w.waiting # <<>>
  PROVE  Left(w, Leaves(w))
<1>0. PICK r : r = Leaves(w)
      OBVIOUS
<1>1. PICK q : q = Tail(w.waiting)
      OBVIOUS
<1>2. q \in Seq(1..CallSlots)
  <2>1. PICK S : S = 1..CallSlots
        OBVIOUS
  <2>2. w.waiting \in Seq(S)
        BY <2>1, PoolIs
  <2>3. Tail(w.waiting) \in Seq(S)
        BY <2>2
  <2> QED BY <1>1, <2>1, <2>3
<1>3. r = [call |-> w.call, free |-> w.free, waiting |-> q, done |-> w.done, taken |-> w.taken,
           conn |-> w.conn, net |-> w.net, ends |-> w.ends, tries |-> w.tries]
      BY <1>0, <1>1 DEF Leaves, Pools
<1>4. r \in Pools
      BY <1>2, <1>3, PoolIs DEF Pools
<1>5. Left(w, r)
      BY <1>1, <1>3, <1>4 DEF Left
<1> QED BY <1>0, <1>5

\* The first call that waits.
First(w, wh, s) ==
  /\ w.waiting # <<>> /\ s = Head(w.waiting) /\ wh[s] = "waiting"
  /\ Removed(w.waiting, s, Tail(w.waiting))
  /\ w.call[s].id \in Calls!Calls /\ w.call[s].id # Calls!None /\ w.call[s].others = {}
  /\ w.ends[w.call[s].id] = 0 /\ w.tries[w.call[s].id] = IF w.call[s].retried THEN 1 ELSE 0

\* A queue that is not empty has a first call, which has nothing yet.
LEMMA FirstIs ==
  ASSUME NEW w, NEW wh, Well(w, wh), w.waiting # <<>>
  PROVE  \E s \in 1..CallSlots : First(w, wh, s)
<1>1. w \in Pools /\ w.waiting \in Seq(1..CallSlots) /\ Once(w.waiting)
      BY PoolIs DEF Well, Placed
<1>2. Head(w.waiting) \in 1..CallSlots /\ Removed(w.waiting, Head(w.waiting), Tail(w.waiting))
      BY <1>1, TailHas
<1>3. PICK s \in 1..CallSlots : s = Head(w.waiting)
      BY <1>2
<1>4. Removed(w.waiting, s, Tail(w.waiting))
      BY <1>2, <1>3
<1>5. wh[s] = "waiting"
      BY <1>4, InPlace DEF Removed
<1>6. /\ w.call[s].id \in Calls!Calls /\ w.call[s].id # Calls!None /\ w.call[s].others = {}
      /\ w.ends[w.call[s].id] = 0 /\ w.tries[w.call[s].id] = IF w.call[s].retried THEN 1 ELSE 0
      BY <1>5, InPlace DEF CallOK
<1>7. First(w, wh, s)
      BY <1>3, <1>4, <1>5, <1>6 DEF First
<1> QED BY <1>7

\* A late call that waits ends.
LEMMA ExpireOK ==
  ASSUME NEW w, Fine(w), NEW wh, Well(w, wh), NEW s \in 1..CallSlots, First(w, wh, s),
         NEW u, Left(w, u), NEW r, Ended(u, s, r)
  PROVE  Goes(w, r)
<1>1. /\ w \in Pools /\ w.done \in Seq(1..CallSlots) /\ Once(w.free) /\ Once(w.done)
      /\ ~Has(w.free, s) /\ ~Has(w.done, s) /\ s \notin w.taken
      /\ \A t \in 1..CallSlots : t # s /\ w.call[t].id = w.call[s].id => w.call[s].id = Calls!None
      BY InPlace, PoolIs DEF First
<1>3. /\ u \in Pools /\ u.waiting = Tail(w.waiting)
      /\ u.conn = w.conn /\ u.call = w.call /\ u.done = w.done /\ u.ends = w.ends /\ u.free = w.free
      /\ u.taken = w.taken /\ u.net = w.net /\ u.tries = w.tries
      BY DEF Left
<1>5. /\ r \in Pools
      /\ r.call[s].id = u.call[s].id /\ r.call[s].others \subseteq u.call[s].others
      /\ \A t \in 1..CallSlots : t # s => r.call[t] = u.call[t]
      /\ r.done = Append(u.done, s)
      /\ r.ends[u.call[s].id] = u.ends[u.call[s].id] + 1
      /\ \A i \in Calls!Calls : i # u.call[s].id => r.ends[i] = u.ends[i]
      /\ r.free = u.free /\ r.waiting = u.waiting /\ r.taken = u.taken /\ r.conn = u.conn /\ r.net = u.net
      /\ r.tries = u.tries
      BY DEF Ended
<1>6. PICK q : q = Tail(w.waiting)
      OBVIOUS
<1>7. /\ w.call[s].id \in Calls!Calls /\ w.call[s].id # Calls!None /\ w.call[s].others = {} /\ wh[s] = "waiting"
      /\ w.ends[w.call[s].id] = 0 /\ w.tries[w.call[s].id] <= 2
      /\ Once(q) /\ ~Has(q, s) /\ \A t : t # s => (Has(q, t) <=> Has(w.waiting, t))
      BY <1>6 DEF First, Removed
<1>8. /\ r.conn = w.conn /\ r.net = w.net /\ r.free = w.free /\ r.taken = w.taken /\ r.tries = w.tries
      /\ r.waiting = q /\ r.done = Append(w.done, s)
      /\ r.call[s].id = w.call[s].id /\ r.call[s].others = {}
      /\ \A t \in 1..CallSlots : t # s => r.call[t] = w.call[t]
      /\ r.ends[w.call[s].id] = 1 /\ \A i \in Calls!Calls : i # w.call[s].id => r.ends[i] = w.ends[i]
      BY <1>3, <1>5, <1>6, <1>7
<1>9. OffConns(w, r, s)
  <2>1. r.conn = w.conn /\ wh[s] # "conn"
        BY <1>7, <1>8
  <2> QED BY <2>1, OffConn
<1>10. Added(w.done, s, r.done)
      BY <1>1, <1>8, AppendHas
<1>11. Once(r.done) /\ \A t : Has(r.done, t) <=> Has(w.done, t) \/ t = s
      BY <1>1, <1>10 DEF Added
<1>12. CallOK(r, r.call[s], "done")
      BY <1>7, <1>8 DEF CallOK, AllStray
<1>13. PoolMoves(w, r, s, "done")
      BY <1>1, <1>7, <1>8, <1>9, <1>11, <1>12 DEF PoolMoves, OffConns
<1>14. Fine(r)
  <2>1. "done" \in Places /\ wh[s] # "conn"
        BY <1>7 DEF Places
  <2> QED BY <1>5, <1>8, <1>13, <2>1, MoveOK
<1>15. Calls!Known(r) = Calls!Known(w)
  <2>1. \A t \in 1..CallSlots : r.call[t].id = w.call[t].id
        BY <1>8
  <2> QED BY <1>8, <2>1, KnownSame
<1> QED BY <1>14, <1>15 DEF Goes
-----------------------------------------------------------------------------
\* dispatch gives the first call that waits a connection.
Given(w, s, c, x) == [w EXCEPT !.waiting = Tail(@), !.tries[w.call[s].id] = @ + 1, !.conn[c] = x]
Fresh(x, s) == x.call = s /\ x.answered = FALSE

GivenIs(w, s, c, x, r) ==
  /\ r \in Pools /\ r.waiting = Tail(w.waiting) /\ r.conn[c] = x
  /\ \A d \in 1..Conns : d # c => r.conn[d] = w.conn[d]
  /\ r.tries[w.call[s].id] = w.tries[w.call[s].id] + 1
  /\ \A i \in Calls!Calls : i # w.call[s].id => r.tries[i] = w.tries[i]
  /\ r.call = w.call /\ r.done = w.done /\ r.ends = w.ends /\ r.free = w.free
  /\ r.taken = w.taken /\ r.net = w.net

\* dispatch takes the first call from the queue for the connection c.
LEMMA GivenTakes ==
  ASSUME NEW w \in Pools, NEW s \in 1..CallSlots, NEW c \in 1..Conns, NEW x \in AConn, w.waiting # <<>>,
         w.call[s].id \in Calls!Calls
  PROVE  GivenIs(w, s, c, x, Given(w, s, c, x))
<1>1. w.conn \in [1..Conns -> AConn] /\ w.tries \in [Calls!Calls -> Nat]
      BY PoolIs
<1>2. PICK q, f, i : q = Tail(w.waiting) /\ f = [w.conn EXCEPT ![c] = x] /\ i = w.call[s].id
      OBVIOUS
<1>3. PICK g : g = [w.tries EXCEPT ![i] = w.tries[i] + 1]
      OBVIOUS
<1>4. q \in Seq(1..CallSlots)
  <2>1. PICK S : S = 1..CallSlots
        OBVIOUS
  <2>2. w.waiting \in Seq(S)
        BY <2>1, PoolIs
  <2>3. Tail(w.waiting) \in Seq(S)
        BY <2>2
  <2> QED BY <1>2, <2>1, <2>3
<1>5. f \in [1..Conns -> AConn] /\ f[c] = x /\ \A d \in 1..Conns : d # c => f[d] = w.conn[d]
      BY <1>1, <1>2
<1>6. g \in [Calls!Calls -> Nat] /\ g[i] = w.tries[i] + 1 /\ \A k \in Calls!Calls : k # i => g[k] = w.tries[k]
  <2>1. i \in Calls!Calls
        BY <1>2
  <2>2. w.tries[i] + 1 \in Nat
        BY <1>1, <2>1
  <2> QED BY <1>1, <1>3, <2>1, <2>2
<1>7. PICK r : r = Given(w, s, c, x)
      OBVIOUS
<1>8. r = [call |-> w.call, free |-> w.free, waiting |-> q, done |-> w.done, taken |-> w.taken,
           conn |-> f, net |-> w.net, ends |-> w.ends, tries |-> g]
      BY <1>2, <1>3, <1>7 DEF Given, Pools
<1>9. /\ r.conn = f /\ r.call = w.call /\ r.done = w.done /\ r.ends = w.ends /\ r.free = w.free
      /\ r.waiting = q /\ r.taken = w.taken /\ r.net = w.net /\ r.tries = g
      BY <1>8
<1>10. r \in Pools
      BY <1>4, <1>5, <1>6, <1>8, PoolIs DEF Pools
<1>11. GivenIs(w, s, c, x, r)
      BY <1>2, <1>5, <1>6, <1>9, <1>10 DEF GivenIs
<1> QED BY <1>7, <1>11

\* That connection then has the call, and all else is as it was.
LEMMA GivenHeld ==
  ASSUME NEW w, Fine(w), NEW wh, Well(w, wh), NEW s \in 1..CallSlots, First(w, wh, s), NEW c \in 1..Conns,
         w.conn[c].call = Calls!None, NEW x \in AConn, Fresh(x, s), NEW r, GivenIs(w, s, c, x, r)
  PROVE  (\E v \in [1..CallSlots -> Places] : Held(r, v, c, s)) /\ Calls!Known(r) = Calls!Known(w)
<1>1. /\ w \in Pools /\ Once(w.free) /\ Once(w.done)
      /\ ~Has(w.free, s) /\ ~Has(w.done, s) /\ s \notin w.taken
      /\ \A t \in 1..CallSlots : t # s /\ w.call[t].id = w.call[s].id => w.call[s].id = Calls!None
      BY InPlace DEF First
<1>2. PICK q : q = Tail(w.waiting)
      OBVIOUS
<1>3. /\ w.call[s].id \in Calls!Calls /\ w.call[s].id # Calls!None /\ w.call[s].others = {} /\ wh[s] = "waiting"
      /\ w.ends[w.call[s].id] = 0 /\ w.tries[w.call[s].id] = IF w.call[s].retried THEN 1 ELSE 0
      /\ Once(q) /\ ~Has(q, s) /\ \A t : t # s => (Has(q, t) <=> Has(w.waiting, t))
      BY <1>2 DEF First, Removed
<1>4. /\ r \in Pools /\ r.waiting = q /\ r.conn[c] = x
      /\ \A d \in 1..Conns : d # c => r.conn[d] = w.conn[d]
      /\ r.tries[w.call[s].id] = w.tries[w.call[s].id] + 1
      /\ \A i \in Calls!Calls : i # w.call[s].id => r.tries[i] = w.tries[i]
      /\ r.call = w.call /\ r.done = w.done /\ r.ends = w.ends /\ r.free = w.free
      /\ r.taken = w.taken /\ r.net = w.net
      BY <1>2 DEF GivenIs
<1>5. x.call = s /\ x.answered = FALSE
      BY DEF Fresh
<1>6. \A d \in 1..Conns : w.conn[d].call # s
  <2>1. ~Holds(w, s)
        BY <1>3 DEF Well, Placed
  <2> QED BY <2>1 DEF Holds
<1>7. Calls!Known(r) = Calls!Known(w)
      BY <1>4, KnownSame
<1>8. /\ Holds(r, s) /\ \A t \in 1..CallSlots : t # s => (Holds(r, t) <=> Holds(w, t))
      /\ \A d, e \in 1..Conns : r.conn[d].call = r.conn[e].call /\ r.conn[d].call # Calls!None => d = e
  <2>1. Holds(r, s)
        BY <1>4, <1>5 DEF Holds
  <2>2. ASSUME NEW t \in 1..CallSlots, t # s PROVE Holds(r, t) <=> Holds(w, t)
    <3>1. t # Calls!None
          BY DEF Calls!None
    <3>2. \A d \in 1..Conns : r.conn[d].call = t <=> w.conn[d].call = t
          BY <1>4, <1>5, <2>2, <3>1
    <3> QED BY <3>2 DEF Holds
  <2>3. \A d, e \in 1..Conns : w.conn[d].call = w.conn[e].call /\ w.conn[d].call # Calls!None => d = e
        BY DEF Well, Placed
  <2>4. \A d, e \in 1..Conns : r.conn[d].call = r.conn[e].call /\ r.conn[d].call # Calls!None => d = e
        BY <1>4, <1>5, <1>6, <2>3
  <2> QED BY <2>1, <2>2, <2>4
<1>9. CallOK(r, r.call[s], "conn")
  <2>1. r.tries[w.call[s].id] = IF w.call[s].retried THEN 2 ELSE 1
        BY <1>3, <1>4
  <2> QED BY <1>3, <1>4, <2>1 DEF CallOK
<1>10. PoolMoves(w, r, s, "conn")
  <2>1. r.tries[r.call[s].id] <= 2 /\ r.ends[r.call[s].id] <= 1
        BY <1>3, <1>4
  <2> QED BY <1>1, <1>3, <1>4, <1>8, <1>9, <2>1 DEF PoolMoves
<1>11. PICK v \in [1..CallSlots -> Places] : Well(r, v)
  <2>1. "conn" \in Places
        BY DEF Places
  <2> QED BY <1>4, <1>10, <2>1, Moved
<1>12. \A d \in 1..Conns : d # c => ConnOK(r, d)
  <2> SUFFICES ASSUME NEW d \in 1..Conns, d # c PROVE ConnOK(r, d)
      OBVIOUS
  <2>1. r.conn[d] = w.conn[d] /\ r.net[d] = w.net[d] /\ ConnOK(w, d)
        BY <1>4 DEF Fine
  <2>2. \A t \in 1..CallSlots : t = w.conn[d].call => r.call[t].id = w.call[t].id /\ r.call[t].others = w.call[t].others
        BY <1>4
  <2> QED BY <1>1, <2>1, <2>2, ConnSame
<1>13. OwnGot(r.conn[c], r.call[s])
      BY <1>3, <1>4, <1>5 DEF OwnGot, AllStray
<1>14. Held(r, v, c, s)
      BY <1>4, <1>5, <1>11, <1>12, <1>13 DEF Held
<1> QED BY <1>7, <1>14

\* A connection that is being made.
Connects(w, c) == [w EXCEPT !.conn[c].state = "connecting"]

\* A connection that starts to connect for its call leaves a good pool.
LEMMA ConnectsOK ==
  ASSUME NEW w, NEW wh, NEW c \in 1..Conns, NEW s \in 1..CallSlots, Held(w, wh, c, s), w.net[c] = Calls!Quiet
  PROVE  Goes(w, Connects(w, c))
<1>1. Well(w, wh) /\ w \in Pools /\ w.conn[c].call = s /\ OwnGot(w.conn[c], w.call[s])
      BY DEF Held, Well
<1>2. w.conn \in [1..Conns -> AConn] /\ w.conn[c] \in AConn
      BY <1>1, PoolIs
<1>3. PICK x, f : x = [w.conn[c] EXCEPT !.state = "connecting"] /\ f = [w.conn EXCEPT ![c] = x]
      OBVIOUS
<1>4. x \in AConn /\ x.state = "connecting" /\ x.call = w.conn[c].call /\ x.answered = w.conn[c].answered
      BY <1>2, <1>3 DEF AConn
<1>5. f \in [1..Conns -> AConn] /\ f[c] = x /\ \A d \in 1..Conns : d # c => f[d] = w.conn[d]
      BY <1>2, <1>3, <1>4
<1>6. PICK r : r = Connects(w, c)
      OBVIOUS
<1>7. r = [call |-> w.call, free |-> w.free, waiting |-> w.waiting, done |-> w.done, taken |-> w.taken,
           conn |-> f, net |-> w.net, ends |-> w.ends, tries |-> w.tries]
      BY <1>1, <1>3, <1>6 DEF Connects, Pools
<1>8. /\ r.conn = f /\ r.call = w.call /\ r.done = w.done /\ r.ends = w.ends /\ r.free = w.free
      /\ r.waiting = w.waiting /\ r.taken = w.taken /\ r.net = w.net /\ r.tries = w.tries
      BY <1>7
<1>9. r \in Pools
      BY <1>1, <1>5, <1>7, PoolIs DEF Pools
<1>10. Well(r, wh) /\ Calls!Known(r) = Calls!Known(w)
  <2>1. \A d \in 1..Conns : r.conn[d].call = w.conn[d].call
        BY <1>4, <1>5, <1>8
  <2> QED BY <1>1, <1>8, <1>9, <2>1, SameWell
<1>11. ASSUME NEW d \in 1..Conns PROVE ConnOK(r, d)
  <2>1. CASE d = c
    <3>1. r.conn[c] = x /\ r.net[c] = Calls!Quiet /\ r.call = w.call
          BY <1>5, <1>8
    <3>2. OwnGot(x, w.call[s])
          BY <1>1, <1>4 DEF OwnGot
    <3>3. x.call = s /\ s # Calls!None /\ x.state \notin Resting /\ x.state # "busy" /\ x.state # "idle"
          BY <1>1, <1>4 DEF Calls!None, Resting
    <3> QED BY <2>1, <3>1, <3>2, <3>3 DEF ConnOK
  <2>2. CASE d # c
    <3>1. r.conn[d] = w.conn[d] /\ r.net[d] = w.net[d] /\ ConnOK(w, d) /\ r.call = w.call
          BY <1>5, <1>8, <2>2 DEF Held
    <3> QED BY <1>1, <3>1, ConnSame
  <2> QED BY <2>1, <2>2
<1>12. Goes(w, r)
      BY <1>10, <1>11 DEF Goes, Fine, Well
<1> QED BY <1>6, <1>12

\* idle closes the connections it finds unusable, and leaves a good pool.
LooksAs(r) ==
  /\ r \in Pools
  /\ \A d \in 1..Conns : r.conn[d] = (IF d \in Calls!Dropped THEN Calls!Closed ELSE pool.conn[d])
                         /\ r.net[d] = (IF d \in Calls!Dropped THEN Calls!Quiet ELSE pool.net[d])
  /\ r.call = pool.call /\ r.done = pool.done /\ r.ends = pool.ends /\ r.free = pool.free
  /\ r.waiting = pool.waiting /\ r.taken = pool.taken /\ r.tries = pool.tries

\* idle closes what it finds unusable and nothing else.
LEMMA LookedIs ==
  ASSUME Calls!PoolSizes, pool \in Pools
  PROVE  LooksAs(Calls!Looked)
<1>1. pool.conn \in [1..Conns -> AConn] /\ pool.net \in [1..Conns -> ANet]
      BY PoolIs
<1>2. Calls!Closed \in AConn
  <2>1. 0 \in 0..CallSlots
        BY DEF Calls!PoolSizes
  <2> QED BY <2>1 DEF Calls!Closed, Calls!None, AConn
<1>3. Calls!Quiet \in ANet
  <2>1. <<>> \in Seq(Mail)
        OBVIOUS
  <2>2. <<>> \in Seq(0..MaxCalls)
        OBVIOUS
  <2> QED BY <2>1, <2>2 DEF Calls!Quiet, ANet
<1>4. PICK f, g : /\ f = [c \in 1..Conns |-> IF c \in Calls!Dropped THEN Calls!Closed ELSE pool.conn[c]]
                  /\ g = [c \in 1..Conns |-> IF c \in Calls!Dropped THEN Calls!Quiet ELSE pool.net[c]]
      OBVIOUS
<1>5. f \in [1..Conns -> AConn] /\ \A d \in 1..Conns : f[d] = IF d \in Calls!Dropped THEN Calls!Closed ELSE pool.conn[d]
      BY <1>1, <1>2, <1>4
<1>6. g \in [1..Conns -> ANet] /\ \A d \in 1..Conns : g[d] = IF d \in Calls!Dropped THEN Calls!Quiet ELSE pool.net[d]
      BY <1>1, <1>3, <1>4
<1>7. PICK r : r = Calls!Looked
      OBVIOUS
<1>8. r = [call |-> pool.call, free |-> pool.free, waiting |-> pool.waiting, done |-> pool.done,
           taken |-> pool.taken, conn |-> f, net |-> g, ends |-> pool.ends, tries |-> pool.tries]
      BY <1>4, <1>7 DEF Calls!Looked, Pools
<1>9. /\ r.conn = f /\ r.call = pool.call /\ r.done = pool.done /\ r.ends = pool.ends /\ r.free = pool.free
      /\ r.waiting = pool.waiting /\ r.taken = pool.taken /\ r.net = g /\ r.tries = pool.tries
      BY <1>8
<1>10. r \in Pools
      BY <1>5, <1>6, <1>8, PoolIs DEF Pools
<1>11. LooksAs(r)
      BY <1>5, <1>6, <1>9, <1>10 DEF LooksAs
<1> QED BY <1>7, <1>11

\* What idle leaves is a good pool with every slot in its place.
LEMMA LookedOK ==
  ASSUME Calls!PoolSizes, Fine(pool), NEW r, LooksAs(r), NEW wh, Well(pool, wh)
  PROVE  Fine(r) /\ Well(r, wh) /\ Calls!Known(r) = Calls!Known(pool)
<1>1. pool \in Pools
      BY DEF Well
<1>2. /\ r \in Pools
      /\ \A d \in 1..Conns : r.conn[d] = (IF d \in Calls!Dropped THEN Calls!Closed ELSE pool.conn[d])
                             /\ r.net[d] = (IF d \in Calls!Dropped THEN Calls!Quiet ELSE pool.net[d])
      /\ r.call = pool.call /\ r.done = pool.done /\ r.ends = pool.ends /\ r.free = pool.free
      /\ r.waiting = pool.waiting /\ r.taken = pool.taken /\ r.tries = pool.tries
      BY DEF LooksAs
<1>3. Calls!Closed.call = Calls!None /\ Calls!Closed.state = "closed"
      BY DEF Calls!Closed
<1>4. ASSUME NEW d \in Calls!Dropped PROVE d \in 1..Conns /\ pool.conn[d].call = Calls!None
  <2>1. d \in 1..Conns /\ pool.conn[d].state = "idle"
        BY DEF Calls!Dropped
  <2>2. ConnOK(pool, d)
        BY <2>1 DEF Fine
  <2> QED BY <2>1, <2>2 DEF ConnOK, Resting
<1>5. \A d \in 1..Conns : r.conn[d].call = pool.conn[d].call
      BY <1>2, <1>3, <1>4
<1>6. Well(r, wh) /\ Calls!Known(r) = Calls!Known(pool)
      BY <1>2, <1>5, SameWell
<1>7. ASSUME NEW d \in 1..Conns PROVE ConnOK(r, d)
  <2>1. CASE d \in Calls!Dropped
    <3>1. r.conn[d] = Calls!Closed /\ r.net[d] = Calls!Quiet
          BY <1>2, <2>1
    <3> QED BY <1>3, <3>1 DEF ConnOK, Resting
  <2>2. CASE d \notin Calls!Dropped
    <3>1. r.conn[d] = pool.conn[d] /\ r.net[d] = pool.net[d] /\ ConnOK(pool, d) /\ r.call = pool.call
          BY <1>2, <2>2 DEF Fine
    <3> QED BY <1>1, <3>1, ConnSame
  <2> QED BY <2>1, <2>2
<1> QED BY <1>6, <1>7 DEF Fine, Well

\* The connection that dispatch takes.
Picked(c) ==
  /\ c \in 1..Conns /\ c = (IF Calls!Good # {} THEN Calls!Min(Calls!Good) ELSE Calls!Min(Calls!Openable))
  /\ (Calls!Good # {} => c \in Calls!Good) /\ (Calls!Good = {} => c \in Calls!Openable)

\* Where idle finds a connection, there is one that dispatch takes.
LEMMA PickedIs ==
  ASSUME Calls!PoolSizes, Calls!Good \cup Calls!Openable # {}
  PROVE  \E c \in 1..Conns : Picked(c)
<1>1. Calls!Good \subseteq 1..Conns /\ Calls!Openable \subseteq 1..Conns
      BY DEF Calls!Good, Calls!Openable, Calls!Dropped
<1>2. CASE Calls!Good # {}
  <2>1. Calls!Good \in SUBSET Nat
        BY <1>1
  <2>2. Calls!Min(Calls!Good) \in Calls!Good
        BY <1>2, <2>1, MinIs
  <2>3. PICK c \in 1..Conns : c = Calls!Min(Calls!Good)
        BY <1>1, <2>2
  <2> QED BY <1>2, <2>2, <2>3 DEF Picked
<1>3. CASE Calls!Good = {}
  <2>1. Calls!Openable \in SUBSET Nat /\ Calls!Openable # {}
        BY <1>1, <1>3
  <2>2. Calls!Min(Calls!Openable) \in Calls!Openable
        BY <2>1, MinIs
  <2>3. PICK c \in 1..Conns : c = Calls!Min(Calls!Openable)
        BY <1>1, <2>2
  <2> QED BY <1>3, <2>2, <2>3 DEF Picked
<1> QED BY <1>2, <1>3

\* The connection is without a call and has nothing to read, and is closed
\* where none was usable.
LEMMA PickedRests ==
  ASSUME Fine(pool), NEW c \in 1..Conns, Picked(c), NEW r, LooksAs(r)
  PROVE  /\ r.conn[c].call = Calls!None /\ r.conn[c].state # "busy" /\ r.net[c].inbox = <<>> /\ Settled(r.net[c])
         /\ (Calls!Good = {} => r.net[c] = Calls!Quiet)
<1>1. /\ r.conn[c] = (IF c \in Calls!Dropped THEN Calls!Closed ELSE pool.conn[c])
      /\ r.net[c] = (IF c \in Calls!Dropped THEN Calls!Quiet ELSE pool.net[c])
      BY DEF LooksAs
<1>2. ConnOK(pool, c)
      BY DEF Fine
<1>3. Calls!Quiet.inbox = <<>> /\ Calls!Closed.call = Calls!None /\ Calls!Closed.state # "busy" /\ Settled(Calls!Quiet)
      BY DEF Calls!Quiet, Calls!Closed, Settled
<1>4. CASE c \in Calls!Dropped
      BY <1>1, <1>3, <1>4
<1>5. CASE c \notin Calls!Dropped /\ Calls!Good # {}
  <2>1. pool.conn[c].state = "idle" /\ pool.net[c].inbox = <<>>
        BY <1>5 DEF Picked, Calls!Good, Calls!Usable
  <2>2. pool.conn[c].call = Calls!None /\ Settled(pool.net[c])
        BY <1>2, <2>1 DEF ConnOK, Resting
  <2> QED BY <1>1, <1>5, <2>1, <2>2
<1>6. CASE c \notin Calls!Dropped /\ Calls!Good = {}
  <2>1. pool.conn[c].state = "closed"
        BY <1>6 DEF Picked, Calls!Openable
  <2>2. pool.conn[c].call = Calls!None /\ pool.net[c] = Calls!Quiet
        BY <1>2, <2>1 DEF ConnOK, Resting
  <2> QED BY <1>1, <1>3, <1>6, <2>1, <2>2
<1> QED BY <1>4, <1>5, <1>6

\* dispatch leaves a good pool.
LEMMA DispatchOK ==
  ASSUME Calls!PoolSizes, Fine(pool), Calls!Dispatch
  PROVE  Goes(pool, pool')
<1>1. PICK wh \in [1..CallSlots -> Places] : Well(pool, wh)
      BY DEF Fine
<1>2. pool \in Pools /\ pool.waiting # <<>> /\ Calls!Good \cup Calls!Openable # {}
      BY <1>1 DEF Well, Calls!Dispatch
<1>3. PICK c \in 1..Conns : Picked(c)
      BY <1>2, PickedIs
<1>4. PICK u : u = Calls!Looked
      OBVIOUS
<1>5. LooksAs(u)
      BY <1>2, <1>4, LookedIs
<1>6. Fine(u) /\ Well(u, wh) /\ Calls!Known(u) = Calls!Known(pool)
      BY <1>1, <1>5, LookedOK
<1>7. u \in Pools /\ u.waiting = pool.waiting /\ u.call = pool.call
      BY <1>5 DEF LooksAs
<1>8. PICK s \in 1..CallSlots : First(u, wh, s)
      BY <1>2, <1>6, <1>7, FirstIs
<1>9. s = Head(pool.waiting) /\ u.waiting # <<>> /\ u.call[s].id \in Calls!Calls
      BY <1>7, <1>8 DEF First
<1>10. /\ u.conn[c].call = Calls!None /\ u.conn[c].state # "busy" /\ u.net[c].inbox = <<>> /\ Settled(u.net[c])
       /\ (Calls!Good = {} => u.net[c] = Calls!Quiet)
      BY <1>3, <1>5, PickedRests
<1>11. PICK x : x = [Calls!Closed EXCEPT !.state = u.conn[c].state, !.call = s, !.reused = Calls!Good # {}]
      OBVIOUS
<1>12. x \in AConn /\ Fresh(x, s) /\ x.state # "busy"
  <2>1. u.conn[c] \in AConn
        BY <1>7, FieldsIs
  <2>2. u.conn[c].state \in {"closed", "connecting", "busy", "idle"} /\ s \in 0..CallSlots /\ (Calls!Good # {}) \in BOOLEAN
        BY <2>1 DEF AConn
  <2> QED BY <1>10, <1>11, <2>2 DEF Calls!Closed, AConn, Fresh
<1>13. PICK w : w = Calls!Assigned(s, c)
      OBVIOUS
<1>14. w = Given(u, s, c, x)
      BY <1>4, <1>7, <1>11, <1>13 DEF Calls!Assigned, Given
<1>15. GivenIs(u, s, c, x, w)
      BY <1>7, <1>9, <1>12, <1>14, GivenTakes
<1>16. PICK v \in [1..CallSlots -> Places] : Held(w, v, c, s)
      BY <1>6, <1>8, <1>10, <1>12, <1>15, GivenHeld
<1>17. Calls!Known(w) = Calls!Known(pool)
      BY <1>6, <1>8, <1>10, <1>12, <1>15, GivenHeld
<1>18. w.net = u.net /\ w.conn[c] = x
      BY <1>15 DEF GivenIs
<1>19. pool' \in IF Calls!Good # {} THEN Calls!Sends(w, c) ELSE {Connects(w, c), Calls!Finish(w, c, "connect")}
  <2>1. c = IF Calls!Good # {} THEN Calls!Min(Calls!Good) ELSE Calls!Min(Calls!Openable)
        BY <1>3 DEF Picked
  <2> QED BY <1>9, <1>13, <2>1 DEF Calls!Dispatch, Connects
<1>20. CASE Calls!Good # {}
  <2>1. PoolReady(w.conn[c], w.net[c], w.call[s].id)
        BY <1>10, <1>12, <1>18 DEF PoolReady
  <2>2. Goes(w, pool')
        BY <1>16, <1>19, <1>20, <2>1, SendsOK
  <2> QED BY <1>17, <2>2, GoesOn
<1>21. CASE Calls!Good = {}
  <2>1. CASE pool' = Connects(w, c)
    <3>1. w.net[c] = Calls!Quiet
          BY <1>10, <1>18, <1>21
    <3>2. Goes(w, pool')
          BY <1>16, <2>1, <3>1, ConnectsOK
    <3> QED BY <1>17, <3>2, GoesOn
  <2>2. CASE pool' = Calls!Finish(w, c, "connect")
    <3>1. "connect" \in Codes
          BY DEF Codes
    <3>2. Finished(w, c, s, pool') /\ pool'.conn[c].state = "closed"
          BY <1>16, <2>2, <3>1, FinishIs
    <3>3. Goes(w, pool')
          BY <1>16, <3>2, PoolFinishOK
    <3> QED BY <1>17, <3>3, GoesOn
  <2> QED BY <1>19, <1>21, <2>1, <2>2
<1> QED BY <1>20, <1>21
-----------------------------------------------------------------------------
\* What the origin does to a connection.
Nets(w, c, n) == [w EXCEPT !.net[c] = n]

\* What the origin does to one connection leaves a good pool, if what a busy
\* one has unread is still for its call, and an idle one has no answer due.
LEMMA NetsOK ==
  ASSUME NEW w, Fine(w), NEW c \in 1..Conns, w.conn[c].state \in {"busy", "idle"}, NEW n \in ANet,
         w.conn[c].state = "busy" => PoolOwn(n, w.call[w.conn[c].call].id), w.conn[c].state = "idle" => Settled(n)
  PROVE  Goes(w, Nets(w, c, n))
<1>1. PICK wh \in [1..CallSlots -> Places] : Well(w, wh)
      BY DEF Fine
<1>2. w \in Pools /\ w.net \in [1..Conns -> ANet]
      BY <1>1, PoolIs DEF Well
<1>3. PICK g : g = [w.net EXCEPT ![c] = n]
      OBVIOUS
<1>4. g \in [1..Conns -> ANet] /\ g[c] = n /\ \A d \in 1..Conns : d # c => g[d] = w.net[d]
      BY <1>2, <1>3
<1>5. PICK r : r = Nets(w, c, n)
      OBVIOUS
<1>6. r = [call |-> w.call, free |-> w.free, waiting |-> w.waiting, done |-> w.done, taken |-> w.taken,
           conn |-> w.conn, net |-> g, ends |-> w.ends, tries |-> w.tries]
      BY <1>2, <1>3, <1>5 DEF Nets, Pools
<1>7. /\ r.conn = w.conn /\ r.call = w.call /\ r.done = w.done /\ r.ends = w.ends /\ r.free = w.free
      /\ r.waiting = w.waiting /\ r.taken = w.taken /\ r.net = g /\ r.tries = w.tries
      BY <1>6
<1>8. r \in Pools
      BY <1>2, <1>4, <1>6, PoolIs DEF Pools
<1>9. Well(r, wh) /\ Calls!Known(r) = Calls!Known(w)
      BY <1>1, <1>7, <1>8, SameWell
<1>10. ASSUME NEW d \in 1..Conns PROVE ConnOK(r, d)
  <2>1. ConnOK(w, d)
        BY DEF Fine
  <2>2. CASE d = c
    <3>1. r.conn[c] = w.conn[c] /\ r.call = w.call /\ r.net[c] = n
          BY <1>4, <1>7
    <3>2. w.conn[c].state # "closed" /\ w.conn[c].state # "connecting"
          OBVIOUS
    <3> QED BY <2>1, <2>2, <3>1, <3>2 DEF ConnOK
  <2>3. CASE d # c
    <3>1. r.conn[d] = w.conn[d] /\ r.net[d] = w.net[d] /\ r.call = w.call
          BY <1>4, <1>7, <2>3
    <3> QED BY <1>2, <2>1, <3>1, ConnSame
  <2> QED BY <2>2, <2>3
<1>11. Goes(w, r)
      BY <1>1, <1>9, <1>10 DEF Goes, Fine
<1> QED BY <1>5, <1>11

Kinds == {"part", "end", "bad"}

\* What arrives is for the call, or marked as astray; and no more answers are
\* due than before.
LEMMA ArrivesOwn ==
  ASSUME Calls!PoolSizes, NEW n \in ANet, NEW due \in BOOLEAN, NEW kind \in Kinds, NEW called \in BOOLEAN,
         n.closed = "no", due => n.asked # <<>>, NEW r, r = Calls!Arrives(n, due, kind, called)
  PROVE  /\ r \in ANet /\ (called => \A id : PoolOwn(n, id) => PoolOwn(r, id))
         /\ (~called /\ Settled(n) => Settled(r))
<1>1. /\ n.inbox \in Seq(Mail) /\ n.asked \in Seq(0..MaxCalls) /\ n.closed \in {"no", "fin", "reset"}
      /\ n.stray \in BOOLEAN
      BY DEF ANet
<1>2. PICK stray \in BOOLEAN : stray = (n.stray \/ (called /\ ~due))
      BY <1>1
<1>3. PICK for : for = IF due THEN Head(n.asked) ELSE Calls!None
      OBVIOUS
<1>4. PICK a : a = IF due /\ kind # "part" THEN Tail(n.asked) ELSE n.asked
      OBVIOUS
<1>5. for \in 0..MaxCalls /\ a \in Seq(0..MaxCalls)
  <2>1. Calls!None \in 0..MaxCalls
        BY DEF Calls!None, Calls!PoolSizes
  <2>2. PICK I : I = 0..MaxCalls
        OBVIOUS
  <2>3. n.asked \in Seq(I) /\ Calls!None \in I
        BY <1>1, <2>1, <2>2
  <2>4. due => Head(n.asked) \in I /\ Tail(n.asked) \in Seq(I)
        BY <2>3
  <2> QED BY <1>3, <1>4, <2>2, <2>3, <2>4
<1>6. PICK mail : mail = [for |-> for, kind |-> kind, stray |-> stray]
      OBVIOUS
<1>7. mail \in Mail /\ mail.for = for /\ mail.kind = kind /\ mail.stray = stray
      BY <1>2, <1>5, <1>6 DEF Mail, Kinds
<1>8. PICK box, len : box = Append(n.inbox, mail) /\ len = Len(n.inbox)
      OBVIOUS
<1>9. /\ box \in Seq(Mail) /\ len \in Nat /\ Len(box) = len + 1 /\ box[len + 1] = mail
      /\ \A k \in 1..len : box[k] = n.inbox[k]
      BY <1>1, <1>7, <1>8
<1>10. r = [n EXCEPT !.inbox = box, !.asked = a, !.stray = stray]
      BY <1>2, <1>3, <1>4, <1>6, <1>8 DEF Calls!Arrives
<1>11. r \in ANet /\ r.inbox = box /\ r.asked = a /\ r.closed = n.closed /\ r.stray = stray
      BY <1>2, <1>5, <1>9, <1>10 DEF ANet
<1>12. Calls!Endings(n.inbox) = {} <=> \A j \in 1..len : n.inbox[j].kind = "part"
      BY <1>8 DEF Calls!Endings
<1>13. Calls!Endings(box) = {} <=> Calls!Endings(n.inbox) = {} /\ kind = "part"
  <2>1. Calls!Endings(box) = {} <=> \A j \in 1..len + 1 : box[j].kind = "part"
        BY <1>9 DEF Calls!Endings
  <2>2. \A j \in 1..len + 1 : j \in 1..len \/ j = len + 1
        BY <1>9
  <2>3. 1..len \subseteq 1..len + 1 /\ len + 1 \in 1..len + 1
        BY <1>9
  <2> QED BY <1>7, <1>9, <1>12, <2>1, <2>2, <2>3
<1>14. ASSUME NEW id, PoolOwn(n, id), ~n.stray, due
       PROVE  Calls!Endings(n.inbox) = {} /\ n.asked = <<id>>
      BY <1>14 DEF PoolOwn, Owed
<1>15. ASSUME called, NEW id, PoolOwn(n, id) PROVE PoolOwn(r, id)
  <2>1. ASSUME NEW k \in 1..Len(box), \A j \in 1..k - 1 : box[j].kind = "part"
        PROVE  box[k].for = id \/ box[k].stray
    <3>1. CASE k \in 1..len
      <4>1. \A j \in 1..k - 1 : j \in 1..len
            BY <1>9, <3>1
      <4>2. \A j \in 1..k - 1 : n.inbox[j].kind = "part"
            BY <1>9, <2>1, <4>1
      <4> QED BY <1>8, <1>9, <1>15, <3>1, <4>2 DEF PoolOwn, Fronted
    <3>2. CASE k = len + 1
      <4>1. box[k].for = for /\ box[k].stray = stray
            BY <1>7, <1>9, <3>2
      <4>2. CASE stray
            BY <4>1, <4>2
      <4>3. CASE ~stray
        <5>1. due /\ n.asked = <<id>>
              BY <1>2, <1>14, <1>15, <4>3
        <5>2. Head(<<id>>) = id
              OBVIOUS
        <5> QED BY <1>3, <4>1, <5>1, <5>2
      <4> QED BY <4>2, <4>3
    <3> QED BY <1>9, <3>1, <3>2
  <2>2. ASSUME ~stray PROVE a = IF Calls!Endings(box) = {} THEN <<id>> ELSE <<>>
    <3>1. due /\ Calls!Endings(n.inbox) = {} /\ n.asked = <<id>>
          BY <1>2, <1>14, <1>15, <2>2
    <3>2. Tail(<<id>>) = <<>>
          OBVIOUS
    <3> QED BY <1>4, <1>13, <3>1, <3>2
  <2> QED BY <1>11, <2>1, <2>2 DEF PoolOwn, Owed, Fronted
<1>16. ASSUME ~called, Settled(n) PROVE Settled(r)
  <2> SUFFICES ASSUME ~stray PROVE a = <<>>
      BY <1>11 DEF Settled
  <2>1. n.asked = <<>>
        BY <1>2, <1>16 DEF Settled
  <2> QED BY <1>4, <2>1
<1> QED BY <1>11, <1>15, <1>16

\* The origin answers, errs or speaks unasked: the pool stays good.
LEMMA OriginOK ==
  ASSUME Calls!PoolSizes, Fine(pool), NEW c \in 1..Conns, Calls!Origin(c)
  PROVE  Goes(pool, pool')
<1>1. pool \in Pools /\ pool.net[c] \in ANet /\ ConnOK(pool, c)
      BY FieldsIs DEF Fine, Well
<1>2. PICK called \in BOOLEAN : called = (pool.conn[c].call # Calls!None)
      OBVIOUS
<1>3. PICK due \in BOOLEAN, kind \in Kinds :
        /\ (due => pool.net[c].asked # <<>>)
        /\ pool' = [pool EXCEPT !.net[c] = Calls!Arrives(pool.net[c], due, kind, called)]
      BY <1>2 DEF Calls!Origin, Kinds
<1>4. PICK n : n = Calls!Arrives(pool.net[c], due, kind, called)
      OBVIOUS
<1>5. pool.net[c].closed = "no" /\ pool.conn[c].state \in {"busy", "idle"}
      BY DEF Calls!Origin, Calls!Seen
<1>6. pool' = Nets(pool, c, n)
      BY <1>3, <1>4 DEF Nets
<1>7. /\ n \in ANet /\ (called => \A id : PoolOwn(pool.net[c], id) => PoolOwn(n, id))
      /\ (~called /\ Settled(pool.net[c]) => Settled(n))
      BY <1>1, <1>3, <1>4, <1>5, ArrivesOwn
<1>8. pool.conn[c].state = "busy" => PoolOwn(n, pool.call[pool.conn[c].call].id)
  <2>1. pool.conn[c].state = "busy" => called
        BY <1>1, <1>2 DEF ConnOK, Resting
  <2> QED BY <1>1, <1>7, <2>1 DEF ConnOK
<1>9. pool.conn[c].state = "idle" => Settled(n)
  <2>1. pool.conn[c].state = "idle" => ~called
        BY <1>1, <1>2 DEF ConnOK, Resting
  <2> QED BY <1>1, <1>7, <2>1 DEF ConnOK
<1> QED BY <1>5, <1>6, <1>7, <1>8, <1>9, NetsOK

Hows == {"fin", "reset"}

\* The origin closes or resets, with or without what it sent: it stays good.
LEMMA DropOK ==
  ASSUME Calls!PoolSizes, Fine(pool), NEW c \in 1..Conns, Calls!Drop(c)
  PROVE  Goes(pool, pool')
<1>1. pool \in Pools /\ pool.net[c] \in ANet
      BY FieldsIs DEF Fine, Well
<1>2. PICK how \in Hows, kept \in BOOLEAN :
        pool' = [pool EXCEPT !.net[c].inbox = IF kept THEN pool.net[c].inbox ELSE <<>>, !.net[c].closed = how]
      BY DEF Calls!Drop, Hows
<1>3. PICK box : box = IF kept THEN pool.net[c].inbox ELSE <<>>
      OBVIOUS
<1>4. PICK n : n = [pool.net[c] EXCEPT !.inbox = box, !.closed = how]
      OBVIOUS
<1>5. pool' = Nets(pool, c, n)
  <2>1. pool.net \in [1..Conns -> ANet]
        BY <1>1, PoolIs
  <2>2. pool' = [pool EXCEPT !.net = [[@ EXCEPT ![c].inbox = box] EXCEPT ![c].closed = how]]
        BY <1>1, <1>2, <1>3 DEF Pools
  <2>3. [[pool.net EXCEPT ![c].inbox = box] EXCEPT ![c].closed = how] = [pool.net EXCEPT ![c] = n]
        BY <1>1, <1>4, <2>1
  <2> QED BY <1>1, <2>2, <2>3 DEF Nets, Pools
<1>6. box \in Seq(Mail) /\ (box = pool.net[c].inbox \/ box = <<>>)
      BY <1>1, <1>3 DEF ANet
<1>7. n \in ANet /\ n.inbox = box /\ n.closed # "no"
      BY <1>1, <1>4, <1>6 DEF ANet, Hows
<1>8. pool.conn[c].state \in {"busy", "idle"}
      BY DEF Calls!Drop, Calls!Seen
<1>9. pool.conn[c].state = "busy" => PoolOwn(n, pool.call[pool.conn[c].call].id)
  <2> SUFFICES ASSUME pool.conn[c].state = "busy" PROVE PoolOwn(n, pool.call[pool.conn[c].call].id)
      OBVIOUS
  <2>1. Fronted(pool.net[c], pool.call[pool.conn[c].call].id)
        BY DEF Fine, ConnOK, PoolOwn
  <2>2. Fronted(n, pool.call[pool.conn[c].call].id)
        BY <1>6, <1>7, <2>1 DEF Fronted
  <2> QED BY <1>7, <2>2 DEF PoolOwn
<1>10. Settled(n)
      BY <1>7 DEF Settled
<1> QED BY <1>5, <1>7, <1>8, <1>9, <1>10, NetsOK
-----------------------------------------------------------------------------
\* A pool that nobody has used.
LEMMA InitPool == Calls!PoolSizes /\ Calls!Init => PoolIInv
<1> SUFFICES ASSUME Calls!PoolSizes, Calls!Init PROVE PoolIInv
    OBVIOUS
<1>1. /\ CallSlots \in Nat /\ CallSlots > 0 /\ Conns \in Nat /\ Conns > 0 /\ MaxCalls \in Nat
      BY DEF Calls!PoolSizes
<1>2. PICK q : q = [k \in 1..CallSlots |-> CallSlots + 1 - k]
      OBVIOUS
<1>3. \A k \in 1..CallSlots : CallSlots + 1 - k \in 1..CallSlots
      BY <1>1
<1>4. q \in [1..CallSlots -> 1..CallSlots] /\ \A k \in 1..CallSlots : q[k] = CallSlots + 1 - k
      BY <1>2, <1>3
<1>5. q \in Seq(1..CallSlots) /\ Len(q) = CallSlots
  <2>1. PICK S : S = 1..CallSlots
        OBVIOUS
  <2>2. q \in [1..CallSlots -> S]
        BY <1>4, <2>1
  <2>3. q \in Seq(S) /\ Len(q) = CallSlots
        BY <1>1, <2>2
  <2> QED BY <2>1, <2>3
<1>6. Once(q)
      BY <1>1, <1>4, <1>5 DEF Once
<1>7. ASSUME NEW s \in 1..CallSlots PROVE Has(q, s)
  <2>1. CallSlots + 1 - s \in 1..Len(q) /\ CallSlots + 1 - (CallSlots + 1 - s) = s
        BY <1>1, <1>5
  <2>2. q[CallSlots + 1 - s] = s
        BY <1>3, <1>4, <2>1
  <2> QED BY <2>1, <2>2 DEF Has
<1>8. Calls!Blank \in ACall /\ Calls!Blank.id = Calls!None
  <2>1. 0 \in 0..MaxCalls /\ {} \in SUBSET Marks
        BY <1>1
  <2> QED BY <2>1 DEF Calls!Blank, ACall, Calls!None
<1>9. Calls!Closed \in AConn /\ Calls!Closed.call = Calls!None /\ Calls!Closed.state = "closed"
  <2>1. 0 \in 0..CallSlots
        BY <1>1
  <2> QED BY <2>1 DEF Calls!Closed, Calls!None, AConn
<1>10. Calls!Quiet \in ANet
  <2>1. <<>> \in Seq(Mail)
        OBVIOUS
  <2>2. <<>> \in Seq(0..MaxCalls)
        OBVIOUS
  <2> QED BY <2>1, <2>2 DEF Calls!Quiet, ANet
<1>11. PICK h, f, g, z : /\ h = [s \in 1..CallSlots |-> Calls!Blank] /\ f = [c \in 1..Conns |-> Calls!Closed]
                         /\ g = [c \in 1..Conns |-> Calls!Quiet] /\ z = [i \in Calls!Calls |-> 0]
      OBVIOUS
<1>12. h \in [1..CallSlots -> ACall] /\ \A s \in 1..CallSlots : h[s] = Calls!Blank
      BY <1>8, <1>11
<1>13. f \in [1..Conns -> AConn] /\ \A c \in 1..Conns : f[c] = Calls!Closed
      BY <1>9, <1>11
<1>14. g \in [1..Conns -> ANet] /\ \A c \in 1..Conns : g[c] = Calls!Quiet
      BY <1>10, <1>11
<1>15. z \in [Calls!Calls -> Nat] /\ \A i \in Calls!Calls : z[i] = 0
      BY <1>11
<1>16. PICK w : w = pool
      OBVIOUS
<1>17. w = [call |-> h, free |-> q, waiting |-> <<>>, done |-> <<>>, taken |-> {},
            conn |-> f, net |-> g, ends |-> z, tries |-> z]
      BY <1>2, <1>11, <1>16 DEF Calls!Init
<1>18. /\ w.call = h /\ w.free = q /\ w.waiting = <<>> /\ w.done = <<>> /\ w.taken = {} /\ w.conn = f
       /\ w.net = g /\ w.ends = z /\ w.tries = z
      BY <1>17
<1>19. w \in Pools
  <2>1. <<>> \in Seq(1..CallSlots) /\ {} \in SUBSET (1..CallSlots)
        OBVIOUS
  <2> QED BY <1>5, <1>12, <1>13, <1>14, <1>15, <1>17, <2>1 DEF Pools
<1>20. PICK wh : wh = [s \in 1..CallSlots |-> "free"]
      OBVIOUS
<1>21. wh \in [1..CallSlots -> Places] /\ \A s \in 1..CallSlots : wh[s] = "free"
      BY <1>20 DEF Places
<1>22. Once(<<>>) /\ \A s : ~Has(<<>>, s)
      BY DEF Once, Has
<1>23. \A s \in 1..CallSlots : ~Holds(w, s)
  <2>1. \A s \in 1..CallSlots : s # Calls!None
        BY DEF Calls!None
  <2> QED BY <1>9, <1>13, <1>18, <2>1 DEF Holds
<1>24. Placed(w, wh)
  <2>1. \A c, d \in 1..Conns : w.conn[c].call = w.conn[d].call /\ w.conn[c].call # Calls!None => c = d
        BY <1>9, <1>13, <1>18
  <2> QED BY <1>6, <1>7, <1>18, <1>21, <1>22, <1>23, <2>1 DEF Placed
<1>25. \A s \in 1..CallSlots : CallOK(w, w.call[s], wh[s])
      BY <1>8, <1>12, <1>18, <1>21 DEF CallOK
<1>26. Well(w, wh)
  <2>1. \A s \in 1..CallSlots : w.call[s].id = Calls!None
        BY <1>8, <1>12, <1>18
  <2>2. \A i \in Calls!Calls : w.tries[i] <= 2 /\ w.ends[i] <= 1
        BY <1>15, <1>18
  <2> QED BY <1>19, <1>21, <1>24, <1>25, <2>1, <2>2 DEF Well
<1>27. \A c \in 1..Conns : ConnOK(w, c)
      BY <1>9, <1>13, <1>14, <1>18 DEF ConnOK, Resting
<1>28. Calls!Known(w) = 1..0
  <2>1. ASSUME NEW i \in Calls!Calls PROVE i \notin Calls!Known(w)
    <3>1. i # Calls!None
          BY DEF Calls!Calls, Calls!None
    <3> QED BY <1>8, <1>12, <1>15, <1>18, <3>1 DEF Calls!Known
  <2>2. Calls!Known(w) = {}
        BY <2>1 DEF Calls!Known
  <2> QED BY <2>2
<1>29. /\ pc \in {"app", "service", "deadline", "expire", "dispatch"} /\ at \in 1..Conns /\ late \in 0..MaxCalls
      BY <1>1 DEF Calls!Init
<1>30. 0 \in 0..MaxCalls
      BY <1>1
<1> QED BY <1>16, <1>21, <1>26, <1>27, <1>28, <1>29, <1>30 DEF PoolIInv, Fine

\* service leaves a good pool.
LEMMA ServiceOK ==
  ASSUME Calls!PoolSizes, Fine(pool), at \in 1..Conns, Calls!Service
  PROVE  Goes(pool, pool')
<1>1. PICK c \in 1..Conns : c = at
      OBVIOUS
<1>2. pool.conn[c].state # "closed"
      BY <1>1 DEF Calls!Service
<1>3. ConnOK(pool, c)
      BY DEF Fine
<1>4. CASE pool.conn[c].state = "connecting"
  <2>1. pool' \in Calls!Sends(pool, c) \/ pool' = Calls!Finish(pool, c, "connect")
        BY <1>1, <1>4 DEF Calls!Service
  <2>2. pool.conn[c].call # Calls!None /\ pool.net[c] = Calls!Quiet
        BY <1>3, <1>4 DEF ConnOK, Resting
  <2>3. PICK s \in 1..CallSlots, wh \in [1..CallSlots -> Places] : Held(pool, wh, c, s)
        BY <2>2, HeldNow
  <2>4. PoolReady(pool.conn[c], pool.net[c], pool.call[s].id)
        BY <1>4, <2>2 DEF PoolReady, Settled, Calls!Quiet
  <2>5. "connect" \in Codes
        BY DEF Codes
  <2>6. CASE pool' = Calls!Finish(pool, c, "connect")
    <3>1. Finished(pool, c, s, pool') /\ pool'.conn[c].state = "closed"
          BY <2>3, <2>5, <2>6, FinishIs
    <3> QED BY <2>3, <3>1, PoolFinishOK
  <2> QED BY <2>1, <2>3, <2>4, <2>6, SendsOK
<1>5. CASE pool.conn[c].state = "busy" /\ ~pool.conn[c].sent
  <2>1. pool' \in Calls!Sends(pool, c)
        BY <1>1, <1>5 DEF Calls!Service
  <2>2. pool.conn[c].call # Calls!None
        BY <1>3, <1>5 DEF ConnOK, Resting
  <2>3. PICK s \in 1..CallSlots, wh \in [1..CallSlots -> Places] :
          Held(pool, wh, c, s) /\ (pool.conn[c].state = "busy" => PoolOwn(pool.net[c], pool.call[s].id))
        BY <2>2, HeldNow
  <2>4. PoolReady(pool.conn[c], pool.net[c], pool.call[s].id)
        BY <1>5, <2>3 DEF PoolReady
  <2> QED BY <2>1, <2>3, <2>4, SendsOK
<1>6. CASE pool.conn[c].state # "connecting" /\ ~(pool.conn[c].state = "busy" /\ ~pool.conn[c].sent)
  <2>1. pool' \in Calls!Receives(pool, c)
        BY <1>1, <1>6 DEF Calls!Service
  <2> QED BY <1>2, <1>6, <2>1, ReceivesOK
<1> QED BY <1>4, <1>5, <1>6

\* A step that makes no call.
LEMMA GoesKeeps ==
  ASSUME PoolIInv, Goes(pool, pool'), pc' \in {"app", "service", "deadline", "expire", "dispatch"},
         at' \in 1..Conns, late' \in 0..MaxCalls
  PROVE  PoolIInv'
BY DEF PoolIInv, Goes

\* The next connection of a turn.
LEMMA StepIs ==
  ASSUME Calls!PoolSizes, at \in 1..Conns,
         NEW here, NEW there, Calls!Step(here, there)
  PROVE  at' \in 1..Conns /\ (pc' = here \/ pc' = there)
<1>1. Conns \in Nat /\ Conns > 0
      BY DEF Calls!PoolSizes
<1>2. CASE at < Conns
      BY <1>1, <1>2 DEF Calls!Step
<1>3. CASE ~(at < Conns)
      BY <1>1, <1>3 DEF Calls!Step
<1> QED BY <1>2, <1>3

\* How many calls have been made.
LEMMA MadeIs ==
  ASSUME Calls!PoolSizes, NEW m \in 0..MaxCalls, Calls!Known(pool) = 1..m
  PROVE  Calls!Made = m
<1>1. m \in Nat
      BY DEF Calls!PoolSizes
<1>2. Cardinality(1..m) = m
      BY <1>1, CardUpTo
<1> QED BY <1>2, SameCardinality DEF Calls!Made

\* get
LEMMA GetKeeps ==
  ASSUME Calls!PoolSizes, PoolIInv, NEW usable \in BOOLEAN, Calls!Get(usable)
  PROVE  PoolIInv'
<1>1. PICK m \in 0..MaxCalls : Calls!Known(pool) = 1..m
      BY DEF PoolIInv
<1>2. Fine(pool) /\ Calls!Made = m
      BY <1>1, MadeIs DEF PoolIInv
<1>3. pool.free # <<>> /\ m < MaxCalls /\ pool \in Pools
      BY <1>2 DEF Calls!Get, Fine, Well
<1>4. pool.free[Len(pool.free)] \in 1..CallSlots
      BY <1>3, PoolIs, SeqEnds
<1>5. PICK s \in 1..CallSlots : s = pool.free[Len(pool.free)]
      BY <1>4
<1>6. LastFree(pool, s)
      BY <1>3, <1>5 DEF LastFree
<1>7. PICK u : u = Gets(pool, s, m + 1)
      OBVIOUS
<1>8. pool' = Waits(u, s) \/ pool' = Calls!End(u, s, FALSE)
      BY <1>2, <1>5, <1>7 DEF Calls!Get, Gets, Waits
<1>9. Fine(pool') /\ Calls!Known(pool') = 1..(m + 1)
  <2>1. PICK r : r = pool'
        OBVIOUS
  <2>2. GetSteps(pool, s, m, u, r)
        BY <1>7, <1>8, <2>1 DEF GetSteps
  <2>3. Fine(r) /\ Calls!Known(r) = 1..(m + 1)
        BY <1>1, <1>2, <1>3, <1>6, <2>2, GetOK
  <2> QED BY <2>1, <2>3
<1>10. m + 1 \in 0..MaxCalls
  <2>1. MaxCalls \in Nat
        BY DEF Calls!PoolSizes
  <2> QED BY <1>3, <2>1
<1>11. pc' \in {"app", "service", "deadline", "expire", "dispatch"} /\ at' \in 1..Conns /\ late' \in 0..MaxCalls
      BY DEF Calls!Get, PoolIInv
<1> QED BY <1>9, <1>10, <1>11 DEF PoolIInv

\* Every step keeps the invariant.
LEMMA PoolStepKeeps ==
  ASSUME Calls!PoolSizes, PoolIInv, [Calls!Next]_(Calls!vars)
  PROVE  PoolIInv'
<1> DEFINE Turns == {"app", "service", "deadline", "expire", "dispatch"}
<1>1. Fine(pool) /\ pc \in Turns /\ at \in 1..Conns /\ late \in 0..MaxCalls
      BY DEF PoolIInv
<1>2. Goes(pool, pool)
      BY <1>1 DEF Goes
<1>3. ASSUME NEW usable \in BOOLEAN, Calls!Get(usable) PROVE PoolIInv'
      BY <1>3, GetKeeps
<1>4. ASSUME Calls!Take PROVE PoolIInv'
  <2>1. pool.done # <<>> /\ pool' = Takes(pool) /\ pc' = pc /\ at' = at /\ late' = late
        BY <1>4 DEF Calls!Take, Takes
  <2>2. Goes(pool, pool')
        BY <1>1, <2>1, TakeOK
  <2> QED BY <1>1, <2>1, <2>2, GoesKeeps
<1>5. ASSUME NEW s \in 1..CallSlots, Calls!Release(s) PROVE PoolIInv'
  <2>1. s \in pool.taken /\ pool' = Releases(pool, s) /\ pc' = pc /\ at' = at /\ late' = late
        BY <1>5 DEF Calls!Release, Releases
  <2>2. Goes(pool, pool')
        BY <1>1, <2>1, ReleaseOK
  <2> QED BY <1>1, <2>1, <2>2, GoesKeeps
<1>6. ASSUME Calls!Turn PROVE PoolIInv'
  <2>1. pool' = pool /\ pc' = "service" /\ at' = 1 /\ late' = late
        BY <1>6 DEF Calls!Turn
  <2>3. 1 \in 1..Conns
        BY DEF Calls!PoolSizes
  <2>2. Goes(pool, pool') /\ pc' \in Turns /\ at' \in 1..Conns /\ late' \in 0..MaxCalls
        BY <1>1, <1>2, <2>1, <2>3
  <2> QED BY <2>2, GoesKeeps
<1>7. ASSUME Calls!Service PROVE PoolIInv'
  <2>1. Goes(pool, pool')
        BY <1>1, <1>7, ServiceOK
  <2>2. at' \in 1..Conns /\ pc' \in Turns
        BY <1>1, <1>7, StepIs DEF Calls!Service
  <2>3. late' \in 0..MaxCalls
        BY <1>1, <1>7 DEF Calls!Service
  <2> QED BY <2>1, <2>2, <2>3, GoesKeeps
<1>8. ASSUME Calls!NotFired PROVE PoolIInv'
  <2>1. Goes(pool, pool') /\ late' \in 0..MaxCalls
        BY <1>1, <1>2, <1>8 DEF Calls!NotFired
  <2>2. at' \in 1..Conns /\ pc' \in Turns
        BY <1>1, <1>8, StepIs DEF Calls!NotFired
  <2> QED BY <2>1, <2>2, GoesKeeps
<1>9. ASSUME Calls!Deadline PROVE PoolIInv'
  <2>1. Goes(pool, pool')
    <3>1. CASE Calls!Overdue(at)
      <4>1. PICK c \in 1..Conns : c = at
            BY <1>1
      <4>2. pool.conn[c].call # Calls!None /\ pool' = Calls!Finish(pool, c, "timeout")
            BY <1>9, <3>1, <4>1 DEF Calls!Deadline, Calls!Overdue
      <4>3. PICK s \in 1..CallSlots, wh \in [1..CallSlots -> Places] : Held(pool, wh, c, s)
            BY <1>1, <4>2, HeldNow
      <4>4. "timeout" \in Codes
            BY DEF Codes
      <4> QED BY <4>2, <4>3, <4>4, FinishIs, PoolFinishOK
    <3>2. CASE ~Calls!Overdue(at)
          BY <1>2, <1>9, <3>2 DEF Calls!Deadline
    <3> QED BY <3>1, <3>2
  <2>2. at' \in 1..Conns /\ pc' \in Turns
        BY <1>1, <1>9, StepIs DEF Calls!Deadline
  <2>3. late' \in 0..MaxCalls
        BY <1>1, <1>9 DEF Calls!Deadline
  <2> QED BY <2>1, <2>2, <2>3, GoesKeeps
<1>10. ASSUME Calls!Expire PROVE PoolIInv'
  <2>1. Goes(pool, pool')
    <3>1. CASE pool.waiting # <<>> /\ Calls!Late(Head(pool.waiting))
      <4>1. PICK wh \in [1..CallSlots -> Places] : Well(pool, wh)
            BY <1>1 DEF Fine
      <4>2. PICK s \in 1..CallSlots : First(pool, wh, s)
            BY <3>1, <4>1, FirstIs
      <4>3. PICK u : u = Leaves(pool)
            OBVIOUS
      <4>4. Left(pool, u)
            BY <3>1, <4>1, <4>3, LeavesIs DEF Well
      <4>5. pool' = Calls!End(u, s, FALSE)
            BY <1>10, <3>1, <4>2, <4>3 DEF Calls!Expire, First, Leaves
      <4>6. u \in Pools /\ u.call[s].id \in Calls!Calls
            BY <4>2, <4>4 DEF Left, First
      <4>7. Ended(u, s, pool')
            BY <4>5, <4>6, EndIs
      <4> QED BY <1>1, <4>1, <4>2, <4>4, <4>7, ExpireOK
    <3>2. CASE ~(pool.waiting # <<>> /\ Calls!Late(Head(pool.waiting)))
          BY <1>2, <1>10, <3>2 DEF Calls!Expire
    <3> QED BY <3>1, <3>2
  <2>2. at' \in 1..Conns /\ pc' \in Turns /\ late' \in 0..MaxCalls
        BY <1>1, <1>10 DEF Calls!Expire
  <2> QED BY <2>1, <2>2, GoesKeeps
<1>11. ASSUME Calls!Dispatch PROVE PoolIInv'
  <2>1. Goes(pool, pool')
        BY <1>1, <1>11, DispatchOK
  <2>2. at' \in 1..Conns /\ pc' \in Turns /\ late' \in 0..MaxCalls
        BY <1>1, <1>11 DEF Calls!Dispatch
  <2> QED BY <2>1, <2>2, GoesKeeps
<1>12. ASSUME Calls!Dispatched PROVE PoolIInv'
  <2>1. Goes(pool, pool') /\ at' \in 1..Conns /\ pc' \in Turns /\ late' \in 0..MaxCalls
        BY <1>1, <1>2, <1>12 DEF Calls!Dispatched
  <2> QED BY <2>1, GoesKeeps
<1>13. ASSUME NEW c \in 1..Conns, Calls!Origin(c) PROVE PoolIInv'
  <2>1. Goes(pool, pool')
        BY <1>1, <1>13, OriginOK
  <2>2. at' \in 1..Conns /\ pc' \in Turns /\ late' \in 0..MaxCalls
        BY <1>1, <1>13 DEF Calls!Origin
  <2> QED BY <2>1, <2>2, GoesKeeps
<1>14. ASSUME NEW c \in 1..Conns, Calls!Drop(c) PROVE PoolIInv'
  <2>1. Goes(pool, pool')
        BY <1>1, <1>14, DropOK
  <2>2. at' \in 1..Conns /\ pc' \in Turns /\ late' \in 0..MaxCalls
        BY <1>1, <1>14 DEF Calls!Drop
  <2> QED BY <2>1, <2>2, GoesKeeps
<1>15. ASSUME Calls!Age PROVE PoolIInv'
  <2>1. PICK m \in 0..MaxCalls : Calls!Known(pool) = 1..m
        BY DEF PoolIInv
  <2>2. late < m /\ late' = late + 1
        BY <1>15, <2>1, MadeIs DEF Calls!Age
  <2>3. late' \in 0..MaxCalls
    <3>1. MaxCalls \in Nat
          BY DEF Calls!PoolSizes
    <3> QED BY <1>1, <2>2, <3>1
  <2>4. Goes(pool, pool') /\ at' \in 1..Conns /\ pc' \in Turns
        BY <1>1, <1>2, <1>15 DEF Calls!Age
  <2> QED BY <2>3, <2>4, GoesKeeps
<1>16. ASSUME UNCHANGED Calls!vars PROVE PoolIInv'
  <2>1. Goes(pool, pool') /\ at' \in 1..Conns /\ pc' \in Turns /\ late' \in 0..MaxCalls
        BY <1>1, <1>2, <1>16 DEF Calls!vars
  <2> QED BY <2>1, GoesKeeps
<1> QED BY <1>3, <1>4, <1>5, <1>6, <1>7, <1>8, <1>9, <1>10, <1>11, <1>12, <1>13, <1>14, <1>15, <1>16
        DEF Calls!Next, Calls!Running

\* Where a sequence has a slot, in a set of places.
Within(x, q, s) == {<<x, k>> : k \in {k \in DOMAIN q : q[k] = s}}

\* A slot that a sequence has once is in one place of it.
LEMMA OneOf ==
  ASSUME NEW q \in Seq(1..CallSlots), Once(q), NEW s, NEW x
  PROVE  (Has(q, s) => \E k : Within(x, q, s) = {<<x, k>>}) /\ (~Has(q, s) => Within(x, q, s) = {})
<1>1. DOMAIN q = 1..Len(q)
      OBVIOUS
<1>2. ASSUME Has(q, s) PROVE \E k : Within(x, q, s) = {<<x, k>>}
  <2>1. PICK k \in 1..Len(q) : q[k] = s
        BY <1>2 DEF Has
  <2>2. {j \in DOMAIN q : q[j] = s} = {k}
        BY <1>1, <2>1 DEF Once
  <2>3. Within(x, q, s) = {<<x, k>>}
        BY <2>2 DEF Within
  <2> QED BY <2>3
<1>3. ASSUME ~Has(q, s) PROVE Within(x, q, s) = {}
  <2>1. {j \in DOMAIN q : q[j] = s} = {}
        BY <1>1, <1>3 DEF Has
  <2> QED BY <2>1 DEF Within
<1> QED BY <1>2, <1>3

\* Each slot is in one place.
LEMMA PlaceOnceNow ==
  ASSUME Fine(pool)
  PROVE  Calls!PlaceOnce
<1>1. PICK wh \in [1..CallSlots -> Places] : Well(pool, wh)
      BY DEF Fine
<1>2. /\ pool \in Pools /\ pool.free \in Seq(1..CallSlots) /\ pool.waiting \in Seq(1..CallSlots)
      /\ pool.done \in Seq(1..CallSlots) /\ Once(pool.free) /\ Once(pool.waiting) /\ Once(pool.done)
      BY <1>1, PoolIs DEF Well, Placed
<1> SUFFICES ASSUME NEW s \in 1..CallSlots
             PROVE  Cardinality({<<"free", k>> : k \in {k \in DOMAIN pool.free : pool.free[k] = s}}
                      \cup {<<"waiting", k>> : k \in {k \in DOMAIN pool.waiting : pool.waiting[k] = s}}
                      \cup {<<"done", k>> : k \in {k \in DOMAIN pool.done : pool.done[k] = s}}
                      \cup {<<"conn", c>> : c \in {c \in 1..Conns : pool.conn[c].call = s}}
                      \cup {<<"taken", s>> : t \in pool.taken \cap {s}}) = 1
    BY SameCardinality DEF Calls!PlaceOnce
<1>3. PICK F, W, D, C, T :
        /\ F = {<<"free", k>> : k \in {k \in DOMAIN pool.free : pool.free[k] = s}}
        /\ W = {<<"waiting", k>> : k \in {k \in DOMAIN pool.waiting : pool.waiting[k] = s}}
        /\ D = {<<"done", k>> : k \in {k \in DOMAIN pool.done : pool.done[k] = s}}
        /\ C = {<<"conn", c>> : c \in {c \in 1..Conns : pool.conn[c].call = s}}
        /\ T = {<<"taken", s>> : t \in pool.taken \cap {s}}
      OBVIOUS
<1>4. (Has(pool.free, s) => \E k : F = {<<"free", k>>}) /\ (~Has(pool.free, s) => F = {})
  <2>1. F = Within("free", pool.free, s)
        BY <1>3 DEF Within
  <2>2. /\ Has(pool.free, s) => \E k : Within("free", pool.free, s) = {<<"free", k>>}
        /\ ~Has(pool.free, s) => Within("free", pool.free, s) = {}
        BY <1>2, OneOf
  <2> QED BY <2>1, <2>2
<1>5. (Has(pool.waiting, s) => \E k : W = {<<"waiting", k>>}) /\ (~Has(pool.waiting, s) => W = {})
  <2>1. W = Within("waiting", pool.waiting, s)
        BY <1>3 DEF Within
  <2>2. /\ Has(pool.waiting, s) => \E k : Within("waiting", pool.waiting, s) = {<<"waiting", k>>}
        /\ ~Has(pool.waiting, s) => Within("waiting", pool.waiting, s) = {}
        BY <1>2, OneOf
  <2> QED BY <2>1, <2>2
<1>6. (Has(pool.done, s) => \E k : D = {<<"done", k>>}) /\ (~Has(pool.done, s) => D = {})
  <2>1. D = Within("done", pool.done, s)
        BY <1>3 DEF Within
  <2>2. /\ Has(pool.done, s) => \E k : Within("done", pool.done, s) = {<<"done", k>>}
        /\ ~Has(pool.done, s) => Within("done", pool.done, s) = {}
        BY <1>2, OneOf
  <2> QED BY <2>1, <2>2
<1>7. (Holds(pool, s) => \E c : C = {<<"conn", c>>}) /\ (~Holds(pool, s) => C = {})
  <2>1. ASSUME Holds(pool, s) PROVE \E c : C = {<<"conn", c>>}
    <3>1. PICK c \in 1..Conns : pool.conn[c].call = s
          BY <2>1 DEF Holds
    <3>2. s # Calls!None
          BY DEF Calls!None
    <3>3. {d \in 1..Conns : pool.conn[d].call = s} = {c}
          BY <1>1, <3>1, <3>2 DEF Well, Placed
    <3>4. C = {<<"conn", c>>}
          BY <1>3, <3>3
    <3> QED BY <3>4
  <2>2. ASSUME ~Holds(pool, s) PROVE C = {}
    <3>1. {d \in 1..Conns : pool.conn[d].call = s} = {}
          BY <2>2 DEF Holds
    <3> QED BY <1>3, <3>1
  <2> QED BY <2>1, <2>2
<1>8. (s \in pool.taken => T = {<<"taken", s>>}) /\ (s \notin pool.taken => T = {})
      BY <1>3
<1>9. /\ Has(pool.free, s) <=> wh[s] = "free"
      /\ Has(pool.waiting, s) <=> wh[s] = "waiting"
      /\ Has(pool.done, s) <=> wh[s] = "done"
      /\ Holds(pool, s) <=> wh[s] = "conn"
      /\ s \in pool.taken <=> wh[s] = "taken"
      BY <1>1 DEF Well, Placed
<1>10. \E x : F \cup W \cup D \cup C \cup T = {x}
  <2>1. wh[s] \in Places
        OBVIOUS
  <2>2. CASE wh[s] = "free"
    <3>1. W = {} /\ D = {} /\ C = {} /\ T = {} /\ \E x : F = {x}
          BY <1>4, <1>5, <1>6, <1>7, <1>8, <1>9, <2>2
    <3> QED BY <3>1
  <2>3. CASE wh[s] = "waiting"
    <3>1. F = {} /\ D = {} /\ C = {} /\ T = {} /\ \E x : W = {x}
          BY <1>4, <1>5, <1>6, <1>7, <1>8, <1>9, <2>3
    <3> QED BY <3>1
  <2>4. CASE wh[s] = "done"
    <3>1. F = {} /\ W = {} /\ C = {} /\ T = {} /\ \E x : D = {x}
          BY <1>4, <1>5, <1>6, <1>7, <1>8, <1>9, <2>4
    <3> QED BY <3>1
  <2>5. CASE wh[s] = "conn"
    <3>1. F = {} /\ W = {} /\ D = {} /\ T = {} /\ \E x : C = {x}
          BY <1>4, <1>5, <1>6, <1>7, <1>8, <1>9, <2>5
    <3> QED BY <3>1
  <2>6. CASE wh[s] = "taken"
    <3>1. F = {} /\ W = {} /\ D = {} /\ C = {} /\ \E x : T = {x}
          BY <1>4, <1>5, <1>6, <1>7, <1>8, <1>9, <2>6
    <3> QED BY <3>1
  <2> QED BY <2>1, <2>2, <2>3, <2>4, <2>5, <2>6 DEF Places
<1>11. Cardinality(F \cup W \cup D \cup C \cup T) = 1
      BY <1>10, FS_Singleton
<1> QED BY <1>3, <1>11

\* The invariant says that calls are kept.
LEMMA KeptNow ==
  ASSUME Calls!PoolSizes, PoolIInv
  PROVE  Calls!CallsKept
<1>1. Fine(pool)
      BY DEF PoolIInv
<1>2. PICK wh \in [1..CallSlots -> Places] : Well(pool, wh)
      BY <1>1 DEF Fine
<1>3. /\ pool \in Pools /\ pool.free \in Seq(1..CallSlots) /\ pool.waiting \in Seq(1..CallSlots)
      /\ pool.done \in Seq(1..CallSlots) /\ Once(pool.free) /\ Once(pool.waiting) /\ Once(pool.done)
      BY <1>2, PoolIs DEF Well, Placed
<1>4. Calls!TypeOK
  <2>1. CallSlots \in Nat
        BY DEF Calls!PoolSizes
  <2>2. {pool.free, pool.waiting, pool.done} \subseteq Calls!BoundedSeq(1..CallSlots, CallSlots)
    <3>1. pool.free \in Calls!BoundedSeq(1..CallSlots, CallSlots)
          BY <1>3, <2>1, OnceIsShort
    <3>2. pool.waiting \in Calls!BoundedSeq(1..CallSlots, CallSlots)
          BY <1>3, <2>1, OnceIsShort
    <3>3. pool.done \in Calls!BoundedSeq(1..CallSlots, CallSlots)
          BY <1>3, <2>1, OnceIsShort
    <3> QED BY <3>1, <3>2, <3>3
  <2>3. pool.call \in [1..CallSlots -> ACall] /\ pool.taken \subseteq 1..CallSlots /\ pool.conn \in [1..Conns -> AConn]
        BY <1>3, PoolIs
  <2> QED BY <2>2, <2>3 DEF Calls!TypeOK, PoolIInv, ACall, AConn, Marks
<1>5. Calls!PlaceOnce
      BY <1>1, PlaceOnceNow
<1>8. ASSUME NEW t \in 1..CallSlots, Has(pool.done, t), pool.call[t].ok
      PROVE  AllStray(pool.call[t].others)
  <2>1. (Has(pool.done, t) <=> wh[t] = "done") /\ CallOK(pool, pool.call[t], wh[t])
        BY <1>2, <1>8, InPlace
  <2>2. CallOK(pool, pool.call[t], "done")
        BY <1>8, <2>1
  <2> QED BY <1>8, <2>2 DEF CallOK
<1>6. Calls!AnswersOwn
  <2> SUFFICES ASSUME NEW s \in Calls!Range(pool.done), pool.call[s].ok PROVE AllStray(pool.call[s].others)
      BY DEF Calls!AnswersOwn, AllStray
  <2>1. PICK k \in 1..Len(pool.done) : pool.done[k] = s
        BY <1>3 DEF Calls!Range
  <2>2. Has(pool.done, s)
        BY <2>1 DEF Has
  <2>3. pool.done[k] \in 1..CallSlots
    <3>1. PICK S : S = 1..CallSlots
          OBVIOUS
    <3>2. pool.done \in Seq(S)
          BY <1>3, <3>1
    <3>3. pool.done[k] \in S
          BY <3>2
    <3> QED BY <3>1, <3>3
  <2> QED BY <1>8, <2>1, <2>2, <2>3
<1>7. Calls!AtMostTwice
      BY <1>2 DEF Well, Calls!AtMostTwice
<1> QED BY <1>4, <1>5, <1>6, <1>7 DEF Calls!CallsKept

\* The calls of the run: their invariant while that part moves.
CallsPart == part = "calls" => PoolIInv

\* For any number of slots, connections and calls, whatever the origin sends or
\* drops between two steps: each call is in one place, ends once, is sent
\* twice at most and is answered with its own bytes, unless bytes that nobody
\* asked for came while its connection had a call (finish, end, dispatch,
\* pump).
THEOREM CallsAreKept == ReuseSpec => []CallsKept
<1>1. ReuseInit => CallsPart
      BY InitPool, PoolAssumption DEF ReuseInit, CallsPart
<1>2. ASSUME CallsPart, [ReuseNext]_allVars PROVE CallsPart'
  <2>1. part' = part /\ (part = "calls" => [Calls!Next]_(Calls!vars))
        BY <1>2 DEF ReuseNext, allVars, callVars, Calls!vars
  <2>2. CASE part # "calls"
        BY <2>1, <2>2 DEF CallsPart
  <2>3. CASE part = "calls"
    <3>1. PoolIInv'
          BY <1>2, <2>1, <2>3, PoolStepKeeps, PoolAssumption DEF CallsPart
    <3> QED BY <3>1 DEF CallsPart
  <2> QED BY <2>2, <2>3
<1>3. CallsPart => CallsKept
      BY KeptNow, PoolAssumption DEF CallsPart, CallsKept
<1> QED BY <1>1, <1>2, <1>3, PTL DEF ReuseSpec

-----------------------------------------------------------------------------
\* The lookups of the resolver.

\* The records of a query and of a lookup.
AQuery ==
  [state : {"idle", "udp", "tcp", "done"}, pending : {"none", "udp", "tcp", "close"},
   server : 0..ServerCount - 1, round : 0..Attempts, hops : 0..MaxHops,
   outcome : {"none", "addresses", "not found"} \cup Dns!Errors, nxdomain : BOOLEAN,
   fails : 0..ServerCount * Attempts, from : 0..Candidates]

ALookup ==
  [state : {"free", "running", "done"}, result : {"none", "found", "not found"} \cup Dns!Errors,
   candidate : 1..Candidates + 1, usable : SUBSET (1..Candidates),
   fallback : {"none"} \cup Dns!Errors, unsure : BOOLEAN, sources : SUBSET (0..Candidates)]

\* What the private functions take and give.
Worlds == [q : [Dns!Queries -> AQuery], l : [Lookups -> ALookup]]

\* What waits to go out is what the query waits for, and the failures of a
\* query in flight are counted by its round and server.
Counted(x) ==
  /\ x.pending \in {"udp", "tcp"} => x.state = x.pending
  /\ x.pending = "close" => ~Dns!Active(x)
  /\ Dns!Active(x) => x.round < Attempts /\ x.fails = x.round * ServerCount + x.server

\* A query that gave up has asked every server in every round.
Tried(x) == x.state = "done" /\ x.outcome = "no answer" => x.fails = ServerCount * Attempts

\* Addresses of a finished query are for the candidate being asked.
Own(x, k) == x.state = "done" /\ x.outcome = "addresses" => x.from = k.candidate

Erred(x) == x.state = "done" /\ x.outcome \in Dns!Errors

\* The lookup l, which is k, with the queries qs.
Coherent(k, qs, l) ==
  /\ k.state = "running" =>
       /\ k.candidate <= Candidates
       /\ \A p \in Dns!Pair(l) : qs[p].state # "idle" /\ Own(qs[p], k)
       /\ \E p \in Dns!Pair(l) : qs[p].state # "done"
       /\ k.unsure => k.fallback # "none" \/ \E p \in Dns!Pair(l) : Erred(qs[p])
  /\ k.state # "running" => \A p \in Dns!Pair(l) : ~Dns!Active(qs[p])
  /\ k.state = "done" => (k.result = "not found" => ~k.unsure) /\ k.sources \subseteq {k.candidate}
  /\ k.state = "free" => ~k.unsure
  /\ k.state # "free" => \A p \in Dns!Pair(l) : Tried(qs[p])

\* A query with nothing to go out has the socket it waits on.
Socketed(x, f) ==
  x.pending = "none" =>
    /\ x.state = "udp" <=> f = "udp"
    /\ x.state = "tcp" <=> f \in {"tcp write", "tcp read"}

\* The inductive invariant.
DnsIInv ==
  /\ Dns!TypeOK
  /\ \A q \in Dns!Queries : Counted(query[q]) /\ Socketed(query[q], fd[q])
  /\ \A l \in Lookups : Coherent(look[l], query, l)
  /\ pumping = (\E q \in Dns!Queries : query[q].pending # "none")

\* How a query may change while its socket does not.
Moves(x, y) ==
  \/ y.pending # "none"
  \/ x.pending = "none" /\ (y.state = "udp" <=> x.state = "udp") /\ (y.state = "tcp" <=> x.state = "tcp")

\* r is w but for the lookup l and its queries, and l is well.
Changes(w, r, l) ==
  /\ r \in Worlds
  /\ \A k \in Lookups : k # l => r.l[k] = w.l[k]
  /\ \A q \in Dns!Queries \ Dns!Pair(l) : r.q[q] = w.q[q]
  /\ \A q \in Dns!Pair(l) : Moves(w.q[q], r.q[q]) /\ Counted(r.q[q])
  /\ Coherent(r.l[l], r.q, l)

\* The query q of w is in flight, and its lookup is well.
Ready(w, q) ==
  /\ w \in Worlds /\ Dns!Active(w.q[q]) /\ Coherent(w.l[q[1]], w.q, q[1])
  /\ \A p \in Dns!Pair(q[1]) : p # q => Counted(w.q[p])

\* What an event of the query q makes of w, r: something of q goes out, and
\* the other query of its lookup stays as it is if it is in flight.
Handled(w, r, q) ==
  /\ Changes(w, r, q[1]) /\ r.q[q].pending # "none"
  /\ \A p \in Dns!Pair(q[1]) : p # q /\ w.q[p].state # "done" => r.q[p] = w.q[p]
-----------------------------------------------------------------------------
\* The queries of a lookup.
LEMMA PairOf ==
  ASSUME NEW l \in Lookups
  PROVE  Dns!Pair(l) \subseteq Dns!Queries /\ \A q \in Dns!Queries : q[1] \in Lookups /\ (q \in Dns!Pair(l) <=> q[1] = l)
BY DEF Dns!Queries, Dns!Pair

\* A query that is stopped is no longer in flight, and closes what it had open.
LEMMA StopOK ==
  ASSUME NEW x \in AQuery, Counted(x)
  PROVE  /\ Dns!Stop(x) \in AQuery /\ Counted(Dns!Stop(x)) /\ Moves(x, Dns!Stop(x)) /\ ~Dns!Active(Dns!Stop(x))
         /\ Dns!Stop(x).outcome = x.outcome /\ Dns!Stop(x).fails = x.fails /\ Dns!Stop(x).from = x.from
         /\ Dns!Stop(x).state = (IF x.state = "idle" THEN "idle" ELSE "done")
<1> DEFINE y == Dns!Stop(x)
<1>1. y = [x EXCEPT !.pending = IF Dns!Active(x) \/ x.pending # "none" THEN "close" ELSE x.pending,
                    !.state = IF x.state # "idle" THEN "done" ELSE x.state]
      BY DEF Dns!Stop
<1>2. /\ y \in AQuery /\ y.outcome = x.outcome /\ y.fails = x.fails /\ y.from = x.from
      /\ y.state = (IF x.state = "idle" THEN "idle" ELSE "done")
      /\ y.pending = (IF Dns!Active(x) \/ x.pending # "none" THEN "close" ELSE x.pending)
      BY <1>1 DEF AQuery
<1>3. ~Dns!Active(y)
      BY <1>2 DEF Dns!Active
<1> HIDE DEF y
<1>4. Counted(y)
      BY <1>2, <1>3 DEF Counted, AQuery
<1>5. Moves(x, y)
      BY <1>2, <1>3 DEF Moves, Dns!Active
<1> QED BY <1>2, <1>3, <1>4, <1>5 DEF y

\* A query asked anew.
LEMMA AskOK ==
  ASSUME Dns!DnsSizes, NEW x \in AQuery, NEW h \in 0..MaxHops
  PROVE  /\ Dns!Ask(x, h) \in AQuery /\ Counted(Dns!Ask(x, h)) /\ Moves(x, Dns!Ask(x, h))
         /\ Dns!Ask(x, h).state = "udp" /\ Dns!Ask(x, h).pending = "udp"
<1> DEFINE y == Dns!Ask(x, h)
<1>0. ServerCount \in Nat /\ ServerCount > 0 /\ Attempts \in Nat /\ Attempts > 0 /\ ServerCount * Attempts \in Nat
      BY DEF Dns!DnsSizes
<1>1. y = [x EXCEPT !.state = "udp", !.pending = "udp", !.hops = h, !.nxdomain = FALSE, !.server = 0,
                    !.round = 0, !.fails = 0]
      BY DEF Dns!Ask, Dns!Send, AQuery
<1>2. y.state = "udp" /\ y.pending = "udp" /\ y.round = 0 /\ y.server = 0 /\ y.fails = 0
      BY <1>1 DEF AQuery
<1>5. 0 \in 0..ServerCount - 1 /\ 0 \in 0..Attempts /\ 0 \in 0..(ServerCount * Attempts)
      BY <1>0
<1>6. y \in AQuery
      BY <1>1, <1>5 DEF AQuery
<1> HIDE DEF y
<1>3. Counted(y)
      BY <1>0, <1>2 DEF Counted, Dns!Active
<1>4. Moves(x, y)
      BY <1>2 DEF Moves
<1> QED BY <1>2, <1>3, <1>4, <1>6 DEF y

\* A change of one lookup and its queries.
LEMMA ChangesIntro ==
  ASSUME NEW w \in Worlds, NEW l \in Lookups, NEW k \in ALookup, NEW f \in [Dns!Queries -> AQuery],
         \A q \in Dns!Queries \ Dns!Pair(l) : f[q] = w.q[q],
         \A q \in Dns!Pair(l) : Moves(w.q[q], f[q]) /\ Counted(f[q]),
         Coherent(k, f, l),
         NEW r, r = [q |-> f, l |-> [w.l EXCEPT ![l] = k]]
  PROVE  Changes(w, r, l)
<1>1. r.q = f /\ r.l = [w.l EXCEPT ![l] = k] /\ w.l \in [Lookups -> ALookup]
      BY DEF Worlds
<1>2. r.l \in [Lookups -> ALookup] /\ r.l[l] = k /\ \A m \in Lookups : m # l => r.l[m] = w.l[m]
      BY <1>1
<1>3. r \in Worlds
      BY <1>1, <1>2 DEF Worlds
<1> QED BY <1>1, <1>2, <1>3 DEF Changes

\* dnsResolverFinish, of a lookup none of whose queries is in flight.
LEMMA FinishOK ==
  ASSUME NEW w \in Worlds, NEW l \in Lookups, NEW result \in {"found", "not found"} \cup Dns!Errors,
         NEW sources \in SUBSET (0..Candidates), sources \subseteq {w.l[l].candidate},
         result = "not found" => ~w.l[l].unsure,
         \A q \in Dns!Pair(l) : Counted(w.q[q]) /\ ~Dns!Active(w.q[q]) /\ Tried(w.q[q])
  PROVE  Changes(w, Dns!Finish(w, l, result, sources), l)
<1>1. w.q \in [Dns!Queries -> AQuery] /\ w.l \in [Lookups -> ALookup] /\ w.l[l] \in ALookup
      BY DEF Worlds
<1>2. PICK k : k = [w.l[l] EXCEPT !.state = "done", !.result = result, !.sources = sources]
      OBVIOUS
<1>3. /\ k \in ALookup /\ k.state = "done" /\ k.result = result /\ k.sources = sources
      /\ k.unsure = w.l[l].unsure /\ k.candidate = w.l[l].candidate
      BY <1>1, <1>2 DEF ALookup
<1>4. PICK f : f = Dns!StopBoth(w.q, l)
      OBVIOUS
<1>5. \A q \in Dns!Pair(l) : q \in Dns!Queries /\ w.q[q] \in AQuery /\ f[q] = Dns!Stop(w.q[q])
      BY <1>1, <1>4, PairOf DEF Dns!StopBoth
<1>6. \A q \in Dns!Queries \ Dns!Pair(l) : f[q] = w.q[q]
      BY <1>4 DEF Dns!StopBoth
<1>7. \A q \in Dns!Pair(l) : f[q] \in AQuery /\ Moves(w.q[q], f[q]) /\ Counted(f[q]) /\ ~Dns!Active(f[q]) /\ Tried(f[q])
  <2> SUFFICES ASSUME NEW q \in Dns!Pair(l)
               PROVE  f[q] \in AQuery /\ Moves(w.q[q], f[q]) /\ Counted(f[q]) /\ ~Dns!Active(f[q]) /\ Tried(f[q])
      OBVIOUS
  <2>1. /\ f[q] \in AQuery /\ Moves(w.q[q], f[q]) /\ Counted(f[q]) /\ ~Dns!Active(f[q])
        /\ f[q].outcome = w.q[q].outcome /\ f[q].fails = w.q[q].fails
        /\ f[q].state = (IF w.q[q].state = "idle" THEN "idle" ELSE "done")
    <3>1. PICK x : x = w.q[q]
          OBVIOUS
    <3>2. x \in AQuery /\ f[q] = Dns!Stop(x) /\ Counted(x)
          BY <1>5, <3>1
    <3> QED BY <3>1, <3>2, StopOK
  <2>2. w.q[q].state \in {"idle", "done"}
        BY <1>5 DEF Dns!Active, AQuery
  <2> QED BY <2>1, <2>2 DEF Tried
<1>8. f \in [Dns!Queries -> AQuery]
  <2>1. DOMAIN f = Dns!Queries /\ f = [q \in Dns!Queries |-> f[q]]
        BY <1>4 DEF Dns!StopBoth
  <2>2. \A q \in Dns!Queries : f[q] \in AQuery
        BY <1>1, <1>6, <1>7
  <2> QED BY <2>1, <2>2
<1>9. Coherent(k, f, l)
      BY <1>3, <1>7 DEF Coherent
<1>10. Dns!Finish(w, l, result, sources) = [q |-> f, l |-> [w.l EXCEPT ![l] = k]]
      BY <1>1, <1>2, <1>4 DEF Dns!Finish
<1> QED BY <1>3, <1>6, <1>7, <1>8, <1>9, <1>10, ChangesIntro

\* The least candidate that is left.
LEMMA LeastOf ==
  ASSUME NEW S, S \subseteq Nat, S # {}
  PROVE  Dns!Min(S) \in S
<1>1. PICK x \in S : \A y \in S : ~(<<y, x>> \in OpToRel(<, Nat))
      BY NatLessThanWellFounded, WFMin
<1>2. \A y \in S : x <= y
  <2> SUFFICES ASSUME NEW y \in S PROVE x <= y
      OBVIOUS
  <2>1. ~(y < x)
        BY <1>1 DEF OpToRel
  <2> QED BY <2>1, SMT
<1> QED BY <1>2 DEF Dns!Min

\* dnsResolverNextCandidate, where there is one.
LEMMA NextCandidateOK ==
  ASSUME Dns!DnsSizes, NEW w \in Worlds, NEW l \in Lookups, Dns!Remaining(w, l) # {},
         w.l[l].state = "running", w.l[l].unsure => w.l[l].fallback # "none"
  PROVE  Changes(w, Dns!NextCandidate(w, l), l)
<1>1. w.q \in [Dns!Queries -> AQuery] /\ w.l \in [Lookups -> ALookup] /\ w.l[l] \in ALookup
      BY DEF Worlds
<1>0. Candidates \in Nat /\ MaxHops \in Nat
      BY DEF Dns!DnsSizes
<1>2. 0 \in 0..MaxHops /\ w.l[l].usable \subseteq 1..Candidates
  <2>1. 0 \in 0..MaxHops
        BY <1>0
  <2>2. w.l[l].usable \in SUBSET (1..Candidates)
        BY <1>1 DEF ALookup
  <2> QED BY <2>1, <2>2
<1>3. PICK c : c = Dns!Min(Dns!Remaining(w, l))
      OBVIOUS
<1>4. c \in 1..Candidates
  <2>1. Dns!Remaining(w, l) \subseteq 1..Candidates
        BY <1>2 DEF Dns!Remaining
  <2>2. Dns!Remaining(w, l) \subseteq Nat
        BY <1>0, <2>1
  <2>3. c \in Dns!Remaining(w, l)
        BY <1>3, <2>2, LeastOf
  <2> QED BY <2>1, <2>3
<1>5. PICK k : k = [w.l[l] EXCEPT !.candidate = c]
      OBVIOUS
<1>6. /\ k \in ALookup /\ k.state = "running" /\ k.candidate = c /\ k.candidate <= Candidates
      /\ k.unsure = w.l[l].unsure /\ k.fallback = w.l[l].fallback
  <2>1. c \in 1..Candidates + 1 /\ c <= Candidates
        BY <1>0, <1>4
  <2> QED BY <1>1, <1>5, <2>1 DEF ALookup
<1>7. PICK f : f = [q \in Dns!Queries |-> IF q \in Dns!Pair(l) THEN Dns!Ask(w.q[q], 0) ELSE w.q[q]]
      OBVIOUS
<1>8. \A q \in Dns!Pair(l) : q \in Dns!Queries /\ w.q[q] \in AQuery /\ f[q] = Dns!Ask(w.q[q], 0)
      BY <1>1, <1>7, PairOf
<1>9. \A q \in Dns!Pair(l) : f[q] \in AQuery /\ Moves(w.q[q], f[q]) /\ Counted(f[q]) /\ f[q].state = "udp"
      BY <1>2, <1>8, AskOK
<1>10. \A q \in Dns!Queries \ Dns!Pair(l) : f[q] = w.q[q]
      BY <1>7
<1>11. f \in [Dns!Queries -> AQuery]
  <2>1. \A q \in Dns!Queries : f[q] \in AQuery
        BY <1>1, <1>9, <1>10
  <2> QED BY <1>7, <2>1
<1>12. Coherent(k, f, l)
  <2>1. <<l, "A">> \in Dns!Pair(l)
        BY DEF Dns!Pair
  <2> QED BY <1>6, <1>9, <2>1 DEF Coherent, Own, Tried
<1>13. Dns!NextCandidate(w, l) = [q |-> f, l |-> [w.l EXCEPT ![l] = k]]
      BY <1>1, <1>3, <1>5, <1>7 DEF Dns!NextCandidate
<1> QED BY <1>6, <1>9, <1>10, <1>11, <1>12, <1>13, ChangesIntro

\* Coherence looks at the queries of its lookup only.
LEMMA CoherentSame ==
  ASSUME NEW k, NEW qs, NEW rs, NEW l, Coherent(k, qs, l), \A p \in Dns!Pair(l) : rs[p] = qs[p]
  PROVE  Coherent(k, rs, l)
BY DEF Coherent

\* A change of one query.
LEMMA WithQuery ==
  ASSUME NEW w \in Worlds, NEW q \in Dns!Queries, NEW x \in AQuery, NEW r, r = Dns!Put(w, q, x)
  PROVE  /\ r \in Worlds /\ r.l = w.l /\ r.q[q] = x
         /\ \A p \in Dns!Queries : p # q => r.q[p] = w.q[p]
<1>1. w.q \in [Dns!Queries -> AQuery] /\ w.l \in [Lookups -> ALookup]
      BY DEF Worlds
<1>2. r = [q |-> [w.q EXCEPT ![q] = x], l |-> w.l]
      BY DEF Dns!Put
<1>3. r.q = [w.q EXCEPT ![q] = x] /\ r.l = w.l
      BY <1>2
<1>4. r.q \in [Dns!Queries -> AQuery] /\ r.q[q] = x /\ \A p \in Dns!Queries : p # q => r.q[p] = w.q[p]
      BY <1>1, <1>3
<1> QED BY <1>1, <1>2, <1>3, <1>4 DEF Worlds

\* dnsResolverDone, once both are done.
LEMMA BothDoneOK ==
  ASSUME Dns!DnsSizes, NEW w \in Worlds, NEW l \in Lookups, w.l[l].state = "running",
         w.l[l].candidate <= Candidates,
         \A p \in Dns!Pair(l) : /\ w.q[p].state = "done" /\ Counted(w.q[p]) /\ Tried(w.q[p])
                                /\ Own(w.q[p], w.l[l]),
         w.l[l].unsure => w.l[l].fallback # "none" \/ \E p \in Dns!Pair(l) : Erred(w.q[p])
  PROVE  Changes(w, Dns!BothDone(w, l), l)
<1>1. w.q \in [Dns!Queries -> AQuery] /\ w.l \in [Lookups -> ALookup] /\ w.l[l] \in ALookup
      BY DEF Worlds
<1>2. Dns!Pair(l) = {<<l, "A">>, <<l, "AAAA">>} /\ Dns!Pair(l) \subseteq Dns!Queries
      BY PairOf DEF Dns!Pair
<1>3. PICK a, b : a = w.q[<<l, "A">>] /\ b = w.q[<<l, "AAAA">>]
      OBVIOUS
<1>4. a \in AQuery /\ b \in AQuery /\ a.state = "done" /\ b.state = "done"
      BY <1>1, <1>2, <1>3
<1>5. PICK error : error = Dns!FirstError(a, b)
      OBVIOUS
<1>19. error = IF a.outcome \in Dns!Errors THEN a.outcome
               ELSE IF b.outcome \in Dns!Errors THEN b.outcome ELSE "none"
      BY <1>5 DEF Dns!FirstError
<1>6. PICK kept : kept = Dns!Kept(w.l[l].fallback, error)
      OBVIOUS
<1>7. error \in {"none"} \cup Dns!Errors /\ kept \in {"none"} \cup Dns!Errors /\ w.l[l].fallback \in {"none"} \cup Dns!Errors
      BY <1>1, <1>6, <1>19 DEF Dns!Kept, ALookup
<1>8. /\ kept = "none" => ~w.l[l].unsure
      /\ error # "none" => kept # "none"
      /\ w.l[l].fallback # "none" => kept # "none"
  <2>1. (\E p \in Dns!Pair(l) : Erred(w.q[p])) => error # "none"
        BY <1>2, <1>3, <1>19 DEF Erred, Dns!Errors
  <2> QED BY <1>6, <2>1 DEF Dns!Kept
<1>9. PICK moved : moved = Dns!GoneOn(w, l, kept)
      OBVIOUS
<1>10. PICK k : k = [w.l[l] EXCEPT !.fallback = kept, !.candidate = @ + 1]
      OBVIOUS
<1>11. moved = [q |-> w.q, l |-> [w.l EXCEPT ![l] = k]]
      BY <1>1, <1>9, <1>10 DEF Worlds, Dns!GoneOn
<1>12. /\ k \in ALookup /\ k.state = "running" /\ k.unsure = w.l[l].unsure /\ k.fallback = kept
  <2>1. Candidates \in Nat /\ w.l[l].candidate \in 1..Candidates + 1
        BY <1>1 DEF ALookup, Dns!DnsSizes
  <2>2. w.l[l].candidate + 1 \in 1..Candidates + 1
        BY <2>1
  <2> QED BY <1>1, <1>7, <1>10, <2>2 DEF ALookup
<1>13. /\ moved \in Worlds /\ moved.q = w.q /\ moved.l[l] = k
       /\ \A m \in Lookups : m # l => moved.l[m] = w.l[m]
  <2>1. moved.q = w.q /\ moved.l = [w.l EXCEPT ![l] = k]
        BY <1>11
  <2>2. moved.l \in [Lookups -> ALookup] /\ moved.l[l] = k /\ \A m \in Lookups : m # l => moved.l[m] = w.l[m]
        BY <1>1, <1>12, <2>1
  <2> QED BY <1>1, <1>11, <2>1, <2>2 DEF Worlds
<1>14. ASSUME NEW r, Changes(moved, r, l)
       PROVE  Changes(w, r, l)
      BY <1>13, <1>14 DEF Changes
<1>15. \A p \in Dns!Pair(l) : ~Dns!Active(w.q[p])
      BY DEF Dns!Active
<1> DEFINE goesOn == error # "none" \/ (a.nxdomain /\ b.nxdomain)
           verdict == IF kept # "none" THEN kept ELSE "not found"
<1>16. CASE "addresses" \in {a.outcome, b.outcome}
  <2>1. Dns!BothDone(w, l) = Dns!Finish(w, l, "found", Dns!Gathered(w, l))
        BY <1>3, <1>16 DEF Dns!BothDone
  <2>2. \A p \in Dns!Pair(l) : w.q[p].outcome = "addresses" => w.q[p].from = w.l[l].candidate /\ w.q[p].from \in 0..Candidates
        BY <1>1, <1>2 DEF Own, AQuery
  <2>3. Dns!Gathered(w, l) \subseteq {w.l[l].candidate} /\ Dns!Gathered(w, l) \in SUBSET (0..Candidates)
        BY <2>2 DEF Dns!Gathered
  <2> QED BY <1>15, <2>1, <2>3, FinishOK
<1>17. CASE "addresses" \notin {a.outcome, b.outcome} /\ error # "none" /\ ~(a.nxdomain \/ b.nxdomain)
  <2>1. Dns!BothDone(w, l) = Dns!Finish(w, l, error, {})
        BY <1>3, <1>5, <1>17 DEF Dns!BothDone
  <2>2. error \in Dns!Errors /\ error # "not found"
        BY <1>7, <1>17 DEF Dns!Errors
  <2> QED BY <1>15, <2>1, <2>2, FinishOK
<1>18. CASE /\ "addresses" \notin {a.outcome, b.outcome}
            /\ ~(error # "none" /\ ~(a.nxdomain \/ b.nxdomain))
  <2>1. Dns!BothDone(w, l) = IF goesOn /\ Dns!Remaining(moved, l) # {} THEN Dns!NextCandidate(moved, l)
                         ELSE Dns!Finish(IF goesOn THEN moved ELSE w, l, verdict, {})
        BY <1>3, <1>5, <1>6, <1>9, <1>18 DEF Dns!BothDone
  <2>2. CASE goesOn /\ Dns!Remaining(moved, l) # {}
    <3>1. Changes(moved, Dns!NextCandidate(moved, l), l)
          BY <1>8, <1>12, <1>13, <2>2, NextCandidateOK
    <3> QED BY <1>14, <2>1, <2>2, <3>1
  <2>3. CASE ~(goesOn /\ Dns!Remaining(moved, l) # {})
    <3>1. verdict \in {"found", "not found"} \cup Dns!Errors /\ (verdict = "not found" => ~w.l[l].unsure)
          BY <1>7, <1>8 DEF Dns!Errors
    <3> HIDE DEF verdict
    <3>2. CASE goesOn
      <4>1. Changes(moved, Dns!Finish(moved, l, verdict, {}), l)
            BY <1>12, <1>13, <1>15, <3>1, FinishOK
      <4> QED BY <1>14, <2>1, <2>3, <3>2, <4>1
    <3>3. CASE ~goesOn
      <4>1. Changes(w, Dns!Finish(w, l, verdict, {}), l)
            BY <1>15, <3>1, FinishOK
      <4> QED BY <2>1, <2>3, <3>3, <4>1
    <3> QED BY <3>2, <3>3
  <2> QED BY <2>2, <2>3
<1> QED BY <1>16, <1>17, <1>18

\* Moves follow each other.
LEMMA MovesOn ==
  ASSUME NEW x, NEW y, NEW z, Moves(x, y), Moves(y, z)
  PROVE  Moves(x, z)
BY DEF Moves

\* What Ready says of the lookup.
LEMMA ReadyIs ==
  ASSUME NEW q \in Dns!Queries, NEW w, Ready(w, q)
  PROVE  /\ q[1] \in Lookups /\ q \in Dns!Pair(q[1]) /\ w.q[q] \in AQuery /\ w.l[q[1]] \in ALookup
         /\ w.q \in [Dns!Queries -> AQuery] /\ w.l \in [Lookups -> ALookup]
         /\ w.l[q[1]].state = "running" /\ w.l[q[1]].candidate <= Candidates
         /\ w.q[q].state # "done" /\ w.q[q].state # "idle"
<1>1. q[1] \in Lookups
      BY DEF Dns!Queries
<1>2. q \in Dns!Pair(q[1]) /\ w.q \in [Dns!Queries -> AQuery] /\ w.l \in [Lookups -> ALookup]
      BY <1>1, PairOf DEF Ready, Worlds
<1>3. w.l[q[1]].state = "running" /\ w.l[q[1]].candidate <= Candidates
  <2>1. Coherent(w.l[q[1]], w.q, q[1]) /\ Dns!Active(w.q[q])
        BY DEF Ready
  <2>2. w.l[q[1]].state # "running" => \A p \in Dns!Pair(q[1]) : ~Dns!Active(w.q[p])
        BY <2>1 DEF Coherent
  <2>3. w.l[q[1]].state = "running"
        BY <1>2, <2>1, <2>2
  <2> QED BY <2>1, <2>3 DEF Coherent
<1> QED BY <1>1, <1>2, <1>3 DEF Ready, Dns!Active

\* A query in flight that stays in flight is the same to its lookup.
LEMMA StillReady ==
  ASSUME NEW q \in Dns!Queries, NEW w, Ready(w, q), NEW x \in AQuery, Dns!Active(x),
         NEW r, r = Dns!Put(w, q, x)
  PROVE  /\ Ready(r, q) /\ r.l = w.l /\ r.q[q] = x
         /\ \A p \in Dns!Queries : p # q => r.q[p] = w.q[p]
<1>1. r \in Worlds /\ r.l = w.l /\ r.q[q] = x /\ \A p \in Dns!Queries : p # q => r.q[p] = w.q[p]
      BY WithQuery DEF Ready
<1>2. q[1] \in Lookups /\ Dns!Pair(q[1]) \subseteq Dns!Queries /\ q \in Dns!Pair(q[1]) /\ w.l[q[1]].state = "running"
      BY ReadyIs, PairOf
<1>3. /\ w.q[q].state # "done" /\ w.q[q].state # "idle" /\ x.state # "done" /\ x.state # "idle"
      BY ReadyIs DEF Dns!Active
<1>4. Coherent(w.l[q[1]], w.q, q[1])
      BY DEF Ready
<1>5. \A p \in Dns!Pair(q[1]) : p # q => r.q[p] = w.q[p]
      BY <1>1, <1>2
<1>6. \A p \in Dns!Pair(q[1]) : /\ r.q[p].state # "idle" /\ Own(r.q[p], w.l[q[1]]) /\ Tried(r.q[p])
                                /\ Erred(w.q[p]) <=> Erred(r.q[p])
  <2> SUFFICES ASSUME NEW p \in Dns!Pair(q[1])
               PROVE  /\ r.q[p].state # "idle" /\ Own(r.q[p], w.l[q[1]]) /\ Tried(r.q[p])
                      /\ Erred(w.q[p]) <=> Erred(r.q[p])
      OBVIOUS
  <2>1. CASE p = q
        BY <1>1, <1>3, <2>1 DEF Own, Tried, Erred
  <2>2. CASE p # q
    <3>1. w.q[p].state # "idle" /\ Own(w.q[p], w.l[q[1]]) /\ Tried(w.q[p])
          BY <1>2, <1>4 DEF Coherent
    <3>2. r.q[p] = w.q[p]
          BY <1>5, <2>2
    <3> QED BY <3>1, <3>2
  <2> QED BY <2>1, <2>2
<1>7. Coherent(r.l[q[1]], r.q, q[1])
  <2>1. PICK k, l : k = w.l[q[1]] /\ l = q[1]
        OBVIOUS
  <2>2. /\ k.candidate <= Candidates
        /\ k.unsure => k.fallback # "none" \/ \E p \in Dns!Pair(l) : Erred(r.q[p])
        BY <1>2, <1>4, <1>6, <2>1 DEF Coherent
  <2>3. \E p \in Dns!Pair(l) : r.q[p].state # "done"
        BY <1>1, <1>2, <1>3, <2>1
  <2>4. k.state = "running" /\ \A p \in Dns!Pair(l) : r.q[p].state # "idle" /\ Own(r.q[p], k) /\ Tried(r.q[p])
        BY <1>2, <1>6, <2>1
  <2>5. Coherent(k, r.q, l)
        BY <2>2, <2>3, <2>4 DEF Coherent
  <2> QED BY <1>1, <2>1, <2>5
<1> QED BY <1>1, <1>5, <1>7 DEF Ready

\* A query in flight that is sent again.
LEMMA SentOK ==
  ASSUME NEW q \in Dns!Queries, NEW w, Ready(w, q), NEW x \in AQuery, Dns!Active(x), Counted(x), x.pending # "none",
         NEW r, r = Dns!Put(w, q, x)
  PROVE  Handled(w, r, q)
<1>1. Ready(r, q) /\ r.l = w.l /\ r.q[q] = x /\ \A p \in Dns!Queries : p # q => r.q[p] = w.q[p]
      BY StillReady
<1>2. q[1] \in Lookups /\ Dns!Pair(q[1]) \subseteq Dns!Queries /\ q \in Dns!Pair(q[1])
      BY ReadyIs, PairOf
<1>3. \A p \in Dns!Pair(q[1]) : Moves(w.q[p], r.q[p]) /\ Counted(r.q[p])
  <2> SUFFICES ASSUME NEW p \in Dns!Pair(q[1])
               PROVE  Moves(w.q[p], r.q[p]) /\ Counted(r.q[p])
      OBVIOUS
  <2>1. CASE p = q
        BY <1>1, <2>1 DEF Moves
  <2>2. CASE p # q
    <3>1. r.q[p] = w.q[p] /\ Counted(w.q[p])
          BY <1>1, <1>2, <2>2 DEF Ready
    <3> QED BY <3>1 DEF Moves
  <2> QED BY <2>1, <2>2
<1>4. Changes(w, r, q[1])
      BY <1>1, <1>2, <1>3 DEF Changes, Ready
<1> QED BY <1>1, <1>2, <1>4 DEF Handled

\* dnsResolverDone, of a query in flight.
LEMMA DoneOK ==
  ASSUME Dns!DnsSizes, NEW q \in Dns!Queries, NEW w, Ready(w, q),
         NEW outcome \in {"addresses", "not found"} \cup Dns!Errors,
         outcome = "no answer" => w.q[q].fails = ServerCount * Attempts,
         outcome = "addresses" => w.q[q].from = w.l[q[1]].candidate
  PROVE  Handled(w, Dns!Done(w, q, outcome), q)
<1>1. PICK l : l = q[1]
      OBVIOUS
<1>2. /\ l \in Lookups /\ q \in Dns!Pair(l) /\ w.q[q] \in AQuery /\ w.l[l] \in ALookup /\ w \in Worlds
      /\ w.l[l].state = "running" /\ w.l[l].candidate <= Candidates /\ Dns!Pair(l) \subseteq Dns!Queries
      /\ w.q[q].state # "done" /\ w.q[q].state # "idle"
      BY <1>1, ReadyIs, PairOf DEF Ready
<1>3. Coherent(w.l[l], w.q, l) /\ \A p \in Dns!Pair(l) : p # q => Counted(w.q[p])
      BY <1>1 DEF Ready
<1>4. PICK x : x = [w.q[q] EXCEPT !.pending = "close", !.state = "done", !.outcome = outcome]
      OBVIOUS
<1>5. /\ x \in AQuery /\ x.pending = "close" /\ x.state = "done" /\ x.outcome = outcome
      /\ x.fails = w.q[q].fails /\ x.from = w.q[q].from
      BY <1>2, <1>4 DEF AQuery
<1>6. PICK k : k = [w.l[l] EXCEPT !.unsure = @ \/ outcome \in Dns!Errors]
      OBVIOUS
<1>7. /\ k \in ALookup /\ k.state = "running" /\ k.candidate = w.l[l].candidate
      /\ k.fallback = w.l[l].fallback /\ k.unsure = (w.l[l].unsure \/ outcome \in Dns!Errors)
      BY <1>2, <1>6 DEF ALookup
<1>8. PICK v : v = [q |-> [w.q EXCEPT ![q] = x], l |-> [w.l EXCEPT ![l].unsure = @ \/ outcome \in Dns!Errors]]
      OBVIOUS
<1>9. v = [q |-> [w.q EXCEPT ![q] = x], l |-> [w.l EXCEPT ![l] = k]]
      BY <1>2, <1>6, <1>8 DEF Worlds
<1>10. w.q \in [Dns!Queries -> AQuery] /\ w.l \in [Lookups -> ALookup]
      BY <1>2 DEF Worlds
<1>11. v.q = [w.q EXCEPT ![q] = x] /\ v.l = [w.l EXCEPT ![l] = k]
      BY <1>9
<1>12. /\ v.q \in [Dns!Queries -> AQuery] /\ v.q[q] = x /\ v.l \in [Lookups -> ALookup] /\ v.l[l] = k
       /\ \A p \in Dns!Queries : p # q => v.q[p] = w.q[p]
       /\ \A m \in Lookups : m # l => v.l[m] = w.l[m]
  <2>1. v.q \in [Dns!Queries -> AQuery] /\ v.q[q] = x /\ \A p \in Dns!Queries : p # q => v.q[p] = w.q[p]
        BY <1>5, <1>10, <1>11
  <2>2. v.l \in [Lookups -> ALookup] /\ v.l[l] = k /\ \A m \in Lookups : m # l => v.l[m] = w.l[m]
        BY <1>2, <1>7, <1>10, <1>11
  <2> QED BY <2>1, <2>2
<1>13. v \in Worlds
      BY <1>9, <1>11, <1>12 DEF Worlds
<1>14. \A p \in Dns!Pair(l) : /\ Moves(w.q[p], v.q[p]) /\ Counted(v.q[p]) /\ Tried(v.q[p]) /\ Own(v.q[p], k)
                              /\ v.q[p].state # "idle" /\ (Erred(w.q[p]) => Erred(v.q[p]))
  <2> SUFFICES ASSUME NEW p \in Dns!Pair(l)
               PROVE  /\ Moves(w.q[p], v.q[p]) /\ Counted(v.q[p]) /\ Tried(v.q[p]) /\ Own(v.q[p], k)
                      /\ v.q[p].state # "idle" /\ (Erred(w.q[p]) => Erred(v.q[p]))
      OBVIOUS
  <2>1. CASE p = q
    <3>1. Counted(x)
          BY <1>5 DEF Counted, Dns!Active
    <3>2. Tried(x) /\ Own(x, k)
          BY <1>1, <1>5, <1>7 DEF Tried, Own
    <3>3. Moves(w.q[q], x) /\ x.state # "idle" /\ ~Erred(w.q[q])
          BY <1>2, <1>5 DEF Moves, Erred
    <3> QED BY <1>12, <2>1, <3>1, <3>2, <3>3
  <2>2. CASE p # q
    <3>1. v.q[p] = w.q[p] /\ Counted(w.q[p])
          BY <1>2, <1>3, <1>12, <2>2
    <3>2. Tried(w.q[p]) /\ Own(w.q[p], w.l[l]) /\ w.q[p].state # "idle"
          BY <1>2, <1>3 DEF Coherent
    <3> QED BY <1>7, <3>1, <3>2 DEF Moves, Own
  <2> QED BY <2>1, <2>2
<1>15. k.unsure => k.fallback # "none" \/ \E p \in Dns!Pair(l) : Erred(v.q[p])
  <2>1. outcome \in Dns!Errors => Erred(v.q[q])
        BY <1>5, <1>12 DEF Erred
  <2>2. w.l[l].unsure => w.l[l].fallback # "none" \/ \E p \in Dns!Pair(l) : Erred(w.q[p])
        BY <1>2, <1>3 DEF Coherent
  <2> QED BY <1>2, <1>7, <1>14, <2>1, <2>2
<1>16. PICK r : r = Dns!Done(w, q, outcome)
      OBVIOUS
<1>17. r = IF \A p \in Dns!Pair(l) : v.q[p].state = "done" THEN Dns!BothDone(v, l) ELSE v
  <2>1. Dns!Active(w.q[q])
        BY DEF Ready
  <2> QED BY <1>1, <1>4, <1>8, <1>16, <2>1 DEF Dns!Done
<1>18. Changes(v, r, l)
  <2>1. CASE \A p \in Dns!Pair(l) : v.q[p].state = "done"
        BY <1>2, <1>7, <1>12, <1>13, <1>14, <1>15, <1>17, <2>1, BothDoneOK
  <2>2. CASE ~ \A p \in Dns!Pair(l) : v.q[p].state = "done"
    <3>1. Coherent(k, v.q, l)
          BY <1>2, <1>7, <1>14, <1>15, <2>2 DEF Coherent
    <3>2. \A p \in Dns!Pair(l) : Moves(v.q[p], v.q[p])
          BY DEF Moves
    <3> QED BY <1>12, <1>13, <1>14, <1>17, <2>2, <3>1, <3>2 DEF Changes
  <2> QED BY <2>1, <2>2
<1>19. Changes(w, r, l)
  <2>1. \A p \in Dns!Pair(l) : Moves(w.q[p], r.q[p])
        BY <1>14, <1>18, MovesOn DEF Changes
  <2> QED BY <1>2, <1>12, <1>18, <2>1 DEF Changes
<1>20. r.q[q].pending # "none"
  <2>1. Moves(x, r.q[q])
        BY <1>2, <1>12, <1>18 DEF Changes
  <2> QED BY <1>5, <2>1 DEF Moves
<1>21. \A p \in Dns!Pair(l) : p # q /\ w.q[p].state # "done" => r.q[p] = w.q[p]
      BY <1>2, <1>12, <1>17
<1> QED BY <1>1, <1>16, <1>19, <1>20, <1>21 DEF Handled

\* The servers of a round and of the rounds before it.
LEMMA Rounds ==
  ASSUME NEW n \in Nat, NEW a \in Nat, NEW r \in Nat, NEW s \in Nat, r < a, s < n
  PROVE  /\ r * n \in Nat /\ n * a \in Nat /\ r * n + s + 1 <= n * a
         /\ s + 1 >= n => r * n + s + 1 = (r + 1) * n
         /\ r + 1 >= a => (r + 1) * n = n * a
<1>1. (r + 1) * n = r * n + n
      BY SMT
<1>2. r * n \in Nat /\ n * a \in Nat
      BY SMT
<1>3. (r + 1) * n <= n * a
  <2>1. PICK d \in Nat : a = (r + 1) + d
    <3>1. a - (r + 1) \in Nat /\ a = (r + 1) + (a - (r + 1))
          OBVIOUS
    <3> QED BY <3>1
  <2>2. d * n \in Nat
        BY SMT
  <2>3. n * a = (r + 1) * n + d * n
        BY <2>1, SMT
  <2>4. (r + 1) * n \in Nat
        BY SMT
  <2> QED BY <2>2, <2>3, <2>4
<1>4. r + 1 >= a => (r + 1) * n = n * a
  <2> SUFFICES ASSUME r + 1 >= a PROVE (r + 1) * n = n * a
      OBVIOUS
  <2>1. a = r + 1
        OBVIOUS
  <2> QED BY <2>1
<1> QED BY <1>1, <1>2, <1>3, <1>4

\* What comes of a query that is the same to its lookup comes of the query.
LEMMA HandledFrom ==
  ASSUME NEW q \in Dns!Queries, NEW w, Ready(w, q), NEW v, v.l = w.l,
         \A p \in Dns!Queries : p # q => v.q[p] = w.q[p], NEW r, Handled(v, r, q)
  PROVE  Handled(w, r, q)
<1>1. q[1] \in Lookups /\ q \in Dns!Pair(q[1]) /\ Dns!Pair(q[1]) \subseteq Dns!Queries
      BY ReadyIs, PairOf
<1>2. Moves(w.q[q], r.q[q])
      BY DEF Handled, Moves
<1>3. Changes(w, r, q[1])
      BY <1>1, <1>2 DEF Handled, Changes
<1> QED BY <1>1, <1>3 DEF Handled

\* dnsResolverServerFailed, of a query in flight.
LEMMA ServerFailedOK ==
  ASSUME Dns!DnsSizes, NEW q \in Dns!Queries, NEW w, Ready(w, q), Counted(w.q[q])
  PROVE  Handled(w, Dns!ServerFailed(w, q), q)
<1>1. w.q[q] \in AQuery /\ Dns!Active(w.q[q])
      BY ReadyIs DEF Ready
<1>2. PICK s, d, f : s = w.q[q].server /\ d = w.q[q].round /\ f = w.q[q].fails
      OBVIOUS
<1>3. ServerCount \in Nat /\ Attempts \in Nat /\ ServerCount > 0 /\ Attempts > 0
      BY DEF Dns!DnsSizes
<1>4. s \in 0..ServerCount - 1 /\ d \in 0..Attempts /\ d < Attempts /\ f = d * ServerCount + s
      BY <1>1, <1>2 DEF AQuery, Counted
<1>5. s \in Nat /\ d \in Nat /\ s < ServerCount
      BY <1>3, <1>4
<1>6. /\ d * ServerCount \in Nat /\ ServerCount * Attempts \in Nat /\ f + 1 <= ServerCount * Attempts
      /\ s + 1 >= ServerCount => f + 1 = (d + 1) * ServerCount
      /\ d + 1 >= Attempts => (d + 1) * ServerCount = ServerCount * Attempts
      BY <1>3, <1>4, <1>5, Rounds
<1> DEFINE last == s + 1 >= ServerCount
<1>7. PICK x : x = [w.q[q] EXCEPT !.server = IF last THEN 0 ELSE @ + 1, !.round = IF last THEN @ + 1 ELSE @,
                                  !.fails = @ + 1]
      OBVIOUS
<1>8. /\ x.server = (IF last THEN 0 ELSE s + 1) /\ x.round = (IF last THEN d + 1 ELSE d) /\ x.fails = f + 1
      /\ x.state = w.q[q].state /\ x.pending = w.q[q].pending
      BY <1>1, <1>2, <1>7 DEF AQuery
<1>9. x \in AQuery /\ Dns!Active(x)
  <2>1. (IF last THEN 0 ELSE s + 1) \in 0..ServerCount - 1
        BY <1>3, <1>5
  <2>2. (IF last THEN d + 1 ELSE d) \in 0..Attempts
        BY <1>3, <1>4, <1>5
  <2>3. f + 1 \in 0..(ServerCount * Attempts)
        BY <1>4, <1>5, <1>6
  <2>4. x \in AQuery
        BY <1>1, <1>2, <1>7, <2>1, <2>2, <2>3 DEF AQuery
  <2> QED BY <1>1, <1>8, <2>4 DEF Dns!Active
<1>10. Dns!ServerFailed(w, q) = IF x.round >= Attempts THEN Dns!Done(Dns!Put(w, q, x), q, "no answer")
                            ELSE Dns!Put(w, q, Dns!Send(x, "udp"))
      BY <1>2, <1>7 DEF Dns!ServerFailed, Dns!RoundsOver
<1>11. CASE x.round >= Attempts
  <2>1. PICK v : v = Dns!Put(w, q, x)
        OBVIOUS
  <2>2. /\ Ready(v, q) /\ v.l = w.l /\ v.q[q] = x
        /\ \A p \in Dns!Queries : p # q => v.q[p] = w.q[p]
        BY <1>9, <2>1, StillReady
  <2>3. v.q[q].fails = ServerCount * Attempts
        BY <1>3, <1>4, <1>5, <1>6, <1>8, <1>11, <2>2
  <2>4. Handled(v, Dns!Done(v, q, "no answer"), q)
        BY <2>2, <2>3, DoneOK DEF Dns!Errors
  <2>5. PICK r : r = Dns!Done(v, q, "no answer")
        OBVIOUS
  <2>6. Handled(w, r, q)
        BY <2>2, <2>4, <2>5, HandledFrom
  <2> QED BY <1>10, <1>11, <2>1, <2>5, <2>6
<1>12. CASE ~(x.round >= Attempts)
  <2>1. PICK y : y = Dns!Send(x, "udp")
        OBVIOUS
  <2>2. /\ y \in AQuery /\ y.state = "udp" /\ y.pending = "udp" /\ y.round = x.round /\ y.server = x.server
        /\ y.fails = x.fails
        BY <1>9, <2>1 DEF Dns!Send, AQuery
  <2>3. Dns!Active(y) /\ y.pending # "none"
        BY <2>2 DEF Dns!Active
  <2>4. y.round < Attempts /\ y.fails = y.round * ServerCount + y.server
        BY <1>3, <1>4, <1>5, <1>6, <1>8, <1>12, <2>2
  <2>5. Counted(y)
        BY <2>2, <2>4 DEF Counted
  <2> QED BY <1>10, <1>12, <2>1, <2>2, <2>3, <2>5, SentOK
<1> QED BY <1>11, <1>12

\* dnsResolverAnswer, of a query in flight.
LEMMA AnswerOK ==
  ASSUME Dns!DnsSizes, NEW q \in Dns!Queries, NEW w, Ready(w, q), Counted(w.q[q]), NEW reply \in Dns!Replies
  PROVE  Handled(w, Dns!Answer(w, q, reply), q)
<1>1. w.q[q] \in AQuery /\ Dns!Active(w.q[q]) /\ w.l[q[1]] \in ALookup /\ w.l[q[1]].candidate <= Candidates
      BY ReadyIs DEF Ready
<1>2. PICK x : x = [w.q[q] EXCEPT !.nxdomain = (reply = "nxdomain")]
      OBVIOUS
<1>3. /\ x \in AQuery /\ x.state = w.q[q].state /\ x.pending = w.q[q].pending /\ x.round = w.q[q].round
      /\ x.server = w.q[q].server /\ x.fails = w.q[q].fails /\ x.hops = w.q[q].hops
      BY <1>1, <1>2 DEF AQuery
<1>4. Dns!Active(x) /\ Counted(x)
      BY <1>1, <1>3 DEF Dns!Active, Counted
<1>5. PICK v : v = Dns!Put(w, q, x)
      OBVIOUS
<1>6. /\ Ready(v, q) /\ v.l = w.l /\ v.q[q] = x
      /\ \A p \in Dns!Queries : p # q => v.q[p] = w.q[p]
      BY <1>3, <1>4, <1>5, StillReady
<1>7. CASE reply \in {"nxdomain", "nodata"}
  <2>1. Dns!Answer(w, q, reply) = Dns!Done(v, q, "not found")
        BY <1>2, <1>5, <1>7 DEF Dns!Answer
  <2>2. Handled(v, Dns!Done(v, q, "not found"), q)
        BY <1>6, DoneOK
  <2> QED BY <1>6, <2>1, <2>2, HandledFrom
<1>8. CASE reply = "servfail"
  <2>1. Dns!Answer(w, q, reply) = Dns!ServerFailed(v, q)
        BY <1>2, <1>5, <1>8 DEF Dns!Answer
  <2>2. Handled(v, Dns!ServerFailed(v, q), q)
        BY <1>4, <1>6, ServerFailedOK
  <2> QED BY <1>6, <2>1, <2>2, HandledFrom
<1>9. CASE reply = "addresses"
  <2>1. PICK y : y = [x EXCEPT !.from = w.l[q[1]].candidate]
        OBVIOUS
  <2>2. PICK u : u = Dns!Put(w, q, y)
        OBVIOUS
  <2>3. w.l[q[1]].candidate \in 0..Candidates
    <3>1. w.l[q[1]].candidate \in 1..Candidates + 1 /\ Candidates \in Nat
          BY <1>1 DEF ALookup, Dns!DnsSizes
    <3> QED BY <1>1, <3>1
  <2>4. y \in AQuery /\ y.from = w.l[q[1]].candidate /\ y.state = x.state
        BY <1>3, <2>1, <2>3 DEF AQuery
  <2>5. Dns!Active(y)
        BY <1>4, <2>4 DEF Dns!Active
  <2>6. /\ Ready(u, q) /\ u.l = w.l /\ u.q[q] = y
        /\ \A p \in Dns!Queries : p # q => u.q[p] = w.q[p]
        BY <2>2, <2>4, <2>5, StillReady
  <2>7. Dns!Answer(w, q, reply) = Dns!Done(u, q, "addresses")
        BY <1>2, <1>9, <2>1, <2>2 DEF Dns!Answer
  <2>8. Handled(u, Dns!Done(u, q, "addresses"), q)
        BY <2>4, <2>6, DoneOK
  <2> QED BY <2>6, <2>7, <2>8, HandledFrom
<1>10. CASE reply = "loop" \/ (reply = "cname" /\ Dns!HopsOver(w.q[q].hops))
  <2>1. Dns!Answer(w, q, reply) = Dns!Done(v, q, "cname")
        BY <1>2, <1>5, <1>10 DEF Dns!Answer
  <2>2. Handled(v, Dns!Done(v, q, "cname"), q)
        BY <1>6, DoneOK DEF Dns!Errors
  <2> QED BY <1>6, <2>1, <2>2, HandledFrom
<1>11. CASE reply = "cname" /\ ~Dns!HopsOver(w.q[q].hops)
  <2>1. PICK h : h = w.q[q].hops + 1
        OBVIOUS
  <2>2. h \in 0..MaxHops
    <3>1. MaxHops \in Nat /\ w.q[q].hops \in 0..MaxHops
          BY <1>1 DEF AQuery, Dns!DnsSizes
    <3> QED BY <1>11, <2>1, <3>1 DEF Dns!HopsOver
  <2>3. PICK y : y = Dns!Ask(x, h)
        OBVIOUS
  <2>4. y \in AQuery /\ Counted(y) /\ Dns!Active(y) /\ y.pending # "none"
        BY <1>3, <2>2, <2>3, AskOK DEF Dns!Active
  <2>5. Dns!Answer(w, q, reply) = Dns!Put(w, q, y)
        BY <1>2, <1>11, <2>1, <2>3 DEF Dns!Answer
  <2> QED BY <2>4, <2>5, SentOK
<1> QED BY <1>7, <1>8, <1>9, <1>10, <1>11 DEF Dns!Replies
-----------------------------------------------------------------------------
\* A socket that stays as it is stays right.
LEMMA SocketedOn ==
  ASSUME NEW x, NEW y, NEW f, Moves(x, y), Socketed(x, f)
  PROVE  Socketed(y, f)
BY DEF Moves, Socketed

\* A call that ends in r.
LEMMA BecomesOK ==
  ASSUME NEW r \in Worlds, Dns!Becomes(r), fd' \in [Dns!Queries -> {"none", "udp", "tcp write", "tcp read"}],
         \A q \in Dns!Queries : Counted(r.q[q]) /\ Socketed(r.q[q], fd'[q]),
         \A l \in Lookups : Coherent(r.l[l], r.q, l)
  PROVE  DnsIInv'
<1>1. /\ query' = r.q /\ look' = r.l /\ pumping' = (\E q \in Dns!Queries : query'[q].pending # "none")
      BY DEF Dns!Becomes
<1>2. Dns!TypeOK'
      BY <1>1 DEF Dns!TypeOK, Worlds, AQuery, ALookup
<1> QED BY <1>1, <1>2 DEF DnsIInv

\* A call that changes one lookup.
LEMMA ChangesOK ==
  ASSUME DnsIInv, NEW l \in Lookups, NEW r, Dns!Becomes(r), fd' \in [Dns!Queries -> {"none", "udp", "tcp write", "tcp read"}],
         \A q \in Dns!Queries \ Dns!Pair(l) : fd'[q] = fd[q],
         NEW w, w.l = look, \A q \in Dns!Queries \ Dns!Pair(l) : w.q[q] = query[q],
         Changes(w, r, l), \A q \in Dns!Pair(l) : Socketed(r.q[q], fd'[q])
  PROVE  DnsIInv'
<1>1. r \in Worlds
      BY DEF Changes
<1>2. \A q \in Dns!Queries : Counted(r.q[q]) /\ Socketed(r.q[q], fd'[q])
      BY DEF Changes, DnsIInv
<1>3. \A k \in Lookups : Coherent(r.l[k], r.q, k)
  <2> SUFFICES ASSUME NEW k \in Lookups PROVE Coherent(r.l[k], r.q, k)
      OBVIOUS
  <2>1. CASE k = l
        BY <2>1 DEF Changes
  <2>2. CASE k # l
    <3>1. Coherent(look[k], query, k)
          BY DEF DnsIInv
    <3>2. \A p \in Dns!Pair(k) : p \in Dns!Queries \ Dns!Pair(l)
          BY <2>2, PairOf
    <3>3. \A p \in Dns!Pair(k) : r.q[p] = query[p]
          BY <3>2 DEF Changes
    <3>4. r.l[k] = look[k]
          BY <2>2 DEF Changes
    <3> QED BY <3>1, <3>3, <3>4, CoherentSame
  <2> QED BY <2>1, <2>2
<1> QED BY <1>1, <1>2, <1>3, BecomesOK

\* The state as a world.
LEMMA WorldIs ==
  ASSUME DnsIInv
  PROVE  /\ Dns!world \in Worlds /\ Dns!world.q = query /\ Dns!world.l = look
         /\ query \in [Dns!Queries -> AQuery] /\ look \in [Lookups -> ALookup]
         /\ fd \in [Dns!Queries -> {"none", "udp", "tcp write", "tcp read"}]
<1>1. query \in [Dns!Queries -> AQuery] /\ look \in [Lookups -> ALookup]
      BY DEF DnsIInv, Dns!TypeOK, AQuery, ALookup
<1> QED BY <1>1 DEF Dns!world, Worlds, DnsIInv, Dns!TypeOK

\* A query in flight between calls.
LEMMA ReadyNow ==
  ASSUME DnsIInv, NEW q \in Dns!Queries, Dns!Active(query[q])
  PROVE  Ready(Dns!world, q) /\ Counted(Dns!world.q[q]) /\ q[1] \in Lookups /\ q \in Dns!Pair(q[1]) /\ Dns!Pair(q[1]) \subseteq Dns!Queries
<1>1. q[1] \in Lookups /\ q \in Dns!Pair(q[1]) /\ Dns!Pair(q[1]) \subseteq Dns!Queries
      BY PairOf DEF Dns!Queries
<1>2. Coherent(look[q[1]], query, q[1]) /\ \A p \in Dns!Queries : Counted(query[p])
      BY <1>1 DEF DnsIInv
<1> QED BY <1>1, <1>2, WorldIs DEF Ready

\* A call that handles an event of q, and leaves the sockets.
LEMMA HandledOK ==
  ASSUME DnsIInv, NEW q \in Dns!Queries, Dns!Active(query[q]), NEW r, Handled(Dns!world, r, q), Dns!Becomes(r), UNCHANGED fd
  PROVE  DnsIInv'
<1>1. q[1] \in Lookups /\ Dns!Pair(q[1]) \subseteq Dns!Queries
      BY ReadyNow
<1>2. \A p \in Dns!Pair(q[1]) : Socketed(r.q[p], fd[p])
  <2> SUFFICES ASSUME NEW p \in Dns!Pair(q[1]) PROVE Socketed(r.q[p], fd[p])
      OBVIOUS
  <2>1. Moves(query[p], r.q[p])
        BY WorldIs DEF Handled, Changes
  <2>2. Socketed(query[p], fd[p])
        BY <1>1 DEF DnsIInv
  <2> QED BY <2>1, <2>2, SocketedOn
<1>3. Changes(Dns!world, r, q[1])
      BY DEF Handled
<1> QED BY <1>1, <1>2, <1>3, WorldIs, ChangesOK

\* receive
LEMMA ReceiveStep ==
  ASSUME Dns!DnsSizes, DnsIInv, NEW q \in Dns!Queries, Dns!Receive(q)
  PROVE  DnsIInv'
<1>1. query[q].state = "udp" /\ UNCHANGED fd /\ Dns!Active(query[q])
      BY DEF Dns!Receive, Dns!Active
<1>2. Ready(Dns!world, q) /\ Counted(Dns!world.q[q])
      BY <1>1, ReadyNow
<1>3. ASSUME NEW reply \in Dns!Replies, Dns!Becomes(Dns!Answer(Dns!world, q, reply))
      PROVE  DnsIInv'
      BY <1>1, <1>2, <1>3, AnswerOK, HandledOK
<1>4. CASE Dns!Becomes(Dns!ServerFailed(Dns!world, q))
      BY <1>1, <1>2, <1>4, ServerFailedOK, HandledOK
<1>5. CASE Dns!Becomes(Dns!Put(Dns!world, q, Dns!Send(query[q], "tcp")))
  <2>1. PICK x : x = Dns!Send(query[q], "tcp")
        OBVIOUS
  <2>2. query[q] \in AQuery
        BY WorldIs
  <2>3. /\ x \in AQuery /\ x.state = "tcp" /\ x.pending = "tcp" /\ x.round = query[q].round
        /\ x.server = query[q].server /\ x.fails = query[q].fails
        BY <2>1, <2>2 DEF Dns!Send, AQuery
  <2>4. Counted(query[q])
        BY DEF DnsIInv
  <2>5. Counted(x) /\ Dns!Active(x) /\ x.pending # "none"
        BY <1>1, <2>3, <2>4 DEF Counted, Dns!Active
  <2>6. Handled(Dns!world, Dns!Put(Dns!world, q, x), q)
        BY <1>2, <2>3, <2>5, SentOK
  <2> QED BY <1>1, <1>5, <2>1, <2>6, HandledOK
<1> QED BY <1>3, <1>4, <1>5 DEF Dns!Receive

\* receiveStream
LEMMA ReceiveStreamStep ==
  ASSUME Dns!DnsSizes, DnsIInv, NEW q \in Dns!Queries, Dns!ReceiveStream(q)
  PROVE  DnsIInv'
<1>1. query[q].state = "tcp" /\ UNCHANGED fd /\ Dns!Active(query[q])
      BY DEF Dns!ReceiveStream, Dns!Active
<1>2. Ready(Dns!world, q) /\ Counted(Dns!world.q[q])
      BY <1>1, ReadyNow
<1>3. ASSUME NEW reply \in Dns!Replies, Dns!Becomes(Dns!Answer(Dns!world, q, reply))
      PROVE  DnsIInv'
      BY <1>1, <1>2, <1>3, AnswerOK, HandledOK
<1>4. CASE Dns!Becomes(Dns!ServerFailed(Dns!world, q))
      BY <1>1, <1>2, <1>4, ServerFailedOK, HandledOK
<1> QED BY <1>3, <1>4 DEF Dns!ReceiveStream

\* dnsClientWrite
LEMMA WriteStep ==
  ASSUME DnsIInv, NEW q \in Dns!Queries, Dns!Write(q)
  PROVE  DnsIInv'
<1>1. /\ fd[q] = "tcp write" /\ fd' = [fd EXCEPT ![q] = "tcp read"] /\ UNCHANGED <<query, look, pumping>>
      BY DEF Dns!Write
<1>2. fd \in [Dns!Queries -> {"none", "udp", "tcp write", "tcp read"}]
      BY WorldIs
<1>3. fd'[q] = "tcp read" /\ \A p \in Dns!Queries : p # q => fd'[p] = fd[p]
      BY <1>1, <1>2
<1>4. Dns!TypeOK'
      BY <1>1, <1>2 DEF DnsIInv, Dns!TypeOK
<1>5. \A p \in Dns!Queries : Socketed(query'[p], fd'[p])
  <2> SUFFICES ASSUME NEW p \in Dns!Queries PROVE Socketed(query'[p], fd'[p])
      OBVIOUS
  <2>1. Socketed(query[p], fd[p])
        BY DEF DnsIInv
  <2>2. CASE p = q
        BY <1>1, <1>3, <2>1, <2>2 DEF Socketed
  <2>3. CASE p # q
        BY <1>1, <1>3, <2>1, <2>3
  <2> QED BY <2>2, <2>3
<1> QED BY <1>1, <1>4, <1>5 DEF DnsIInv

\* A call that handles an event of q, whose socket it closes; w is the state
\* but for what q had to go out.
LEMMA ClosedOK ==
  ASSUME DnsIInv, NEW q \in Dns!Queries, NEW w, Ready(w, q), w.l = look, \A p \in Dns!Queries : p # q => w.q[p] = query[p],
         NEW r, Handled(w, r, q), Dns!Becomes(r), fd' = [fd EXCEPT ![q] = "none"]
  PROVE  DnsIInv'
<1>1. q[1] \in Lookups /\ q \in Dns!Pair(q[1]) /\ Dns!Pair(q[1]) \subseteq Dns!Queries
      BY PairOf DEF Dns!Queries
<1>2. fd \in [Dns!Queries -> {"none", "udp", "tcp write", "tcp read"}]
      BY WorldIs
<1>3. /\ fd' \in [Dns!Queries -> {"none", "udp", "tcp write", "tcp read"}]
      /\ \A p \in Dns!Queries : p # q => fd'[p] = fd[p]
      BY <1>2
<1>4. \A p \in Dns!Pair(q[1]) : Socketed(r.q[p], fd'[p])
  <2> SUFFICES ASSUME NEW p \in Dns!Pair(q[1]) PROVE Socketed(r.q[p], fd'[p])
      OBVIOUS
  <2>1. CASE p = q
        BY <2>1 DEF Handled, Socketed
  <2>2. CASE p # q
    <3>1. Moves(query[p], r.q[p])
          BY <1>1, <2>2 DEF Handled, Changes
    <3>2. Socketed(query[p], fd[p]) /\ fd'[p] = fd[p]
          BY <1>1, <1>3, <2>2 DEF DnsIInv
    <3> QED BY <3>1, <3>2, SocketedOn
  <2> QED BY <2>1, <2>2
<1>5. Changes(w, r, q[1])
      BY DEF Handled
<1>6. \A p \in Dns!Queries \ Dns!Pair(q[1]) : fd'[p] = fd[p] /\ w.q[p] = query[p]
      BY <1>1, <1>3
<1>7. q[1] \in Lookups /\ fd' \in [Dns!Queries -> {"none", "udp", "tcp write", "tcp read"}]
      BY <1>1, <1>3
<1> QED BY <1>4, <1>5, <1>6, <1>7, ChangesOK

\* dnsClientFail
LEMMA FailStep ==
  ASSUME Dns!DnsSizes, DnsIInv, NEW q \in Dns!Queries, Dns!Fail(q)
  PROVE  DnsIInv'
<1>1. /\ ~pumping /\ fd[q] \in {"tcp write", "tcp read"} /\ fd' = [fd EXCEPT ![q] = "none"]
      /\ Dns!Becomes(IF Dns!Active(query[q]) THEN Dns!ServerFailed(Dns!world, q) ELSE Dns!world)
      BY DEF Dns!Fail
<1>2. Dns!Active(query[q])
  <2>1. Socketed(query[q], fd[q]) /\ query[q].pending = "none"
        BY <1>1 DEF DnsIInv
  <2> QED BY <1>1, <2>1 DEF Socketed, Dns!Active
<1>3. Ready(Dns!world, q) /\ Counted(Dns!world.q[q])
      BY <1>2, ReadyNow
<1>4. Handled(Dns!world, Dns!ServerFailed(Dns!world, q), q)
      BY <1>3, ServerFailedOK
<1> QED BY <1>1, <1>2, <1>3, <1>4, WorldIs, ClosedOK

\* pump
LEMMA PumpStep ==
  ASSUME Dns!DnsSizes, DnsIInv, NEW q \in Dns!Queries, NEW opens \in BOOLEAN, Dns!Pump(q, opens)
  PROVE  DnsIInv'
<1>1. PICK kind, x : kind = query[q].pending /\ x = [query[q] EXCEPT !.pending = "none"]
      OBVIOUS
<1>2. PICK w : w = Dns!Put(Dns!world, q, x)
      OBVIOUS
<1>3. kind \in {"udp", "tcp", "close"} /\ query[q] \in AQuery
  <2>1. query[q] \in AQuery
        BY WorldIs
  <2> QED BY <1>1, <2>1 DEF Dns!Pump, AQuery
<1>4. /\ x \in AQuery /\ x.pending = "none" /\ x.state = query[q].state /\ x.round = query[q].round
      /\ x.server = query[q].server /\ x.fails = query[q].fails /\ x.outcome = query[q].outcome
      /\ x.from = query[q].from
      BY <1>1, <1>3 DEF AQuery
<1>5. /\ Counted(query[q]) /\ Counted(x)
      /\ Dns!Active(x) = Dns!Active(query[q])
  <2>1. Counted(query[q])
        BY DEF DnsIInv
  <2> QED BY <1>4, <2>1 DEF Counted, Dns!Active
<1>6. /\ w \in Worlds /\ w.l = look /\ w.q[q] = x
      /\ \A p \in Dns!Queries : p # q => w.q[p] = query[p]
  <2>1. Dns!world \in Worlds /\ Dns!world.q = query /\ Dns!world.l = look
        BY WorldIs
  <2>2. x \in AQuery
        BY <1>4
  <2>3. /\ w \in Worlds /\ w.l = Dns!world.l /\ w.q[q] = x
        /\ \A p \in Dns!Queries : p # q => w.q[p] = Dns!world.q[p]
        BY <1>2, <2>1, <2>2, WithQuery
  <2> QED BY <2>1, <2>3
<1>7. q[1] \in Lookups /\ q \in Dns!Pair(q[1]) /\ Dns!Pair(q[1]) \subseteq Dns!Queries
      BY PairOf DEF Dns!Queries
<1>8. \A l \in Lookups : Coherent(w.l[l], w.q, l)
  <2> SUFFICES ASSUME NEW l \in Lookups PROVE Coherent(w.l[l], w.q, l)
      OBVIOUS
  <2>1. Coherent(look[l], query, l) /\ Dns!Pair(l) \subseteq Dns!Queries
        BY PairOf DEF DnsIInv
  <2>2. \A p \in Dns!Pair(l) : /\ w.q[p].state = query[p].state /\ w.q[p].outcome = query[p].outcome
                               /\ w.q[p].fails = query[p].fails /\ w.q[p].from = query[p].from
        BY <1>4, <1>6, <2>1
  <2>3. \A p \in Dns!Pair(l) : /\ Dns!Active(w.q[p]) = Dns!Active(query[p]) /\ Erred(w.q[p]) = Erred(query[p])
                               /\ Tried(w.q[p]) = Tried(query[p]) /\ Own(w.q[p], look[l]) = Own(query[p], look[l])
        BY <2>2 DEF Dns!Active, Erred, Tried, Own
  <2>4. Coherent(look[l], w.q, l)
        BY <2>1, <2>2, <2>3 DEF Coherent
  <2> QED BY <1>6, <2>4
<1>9. CASE kind = "close" \/ opens
  <2>1. Dns!Becomes(w) /\ fd' = [fd EXCEPT ![q] = CASE kind = "close" -> "none" [] kind = "udp" -> "udp"
                                                    [] kind = "tcp" -> "tcp write"]
        BY <1>1, <1>2, <1>9 DEF Dns!Pump
  <2>2. PICK f : f = CASE kind = "close" -> "none" [] kind = "udp" -> "udp" [] kind = "tcp" -> "tcp write"
        OBVIOUS
  <2>3. f = IF kind = "close" THEN "none" ELSE IF kind = "udp" THEN "udp" ELSE "tcp write"
        BY <1>3, <2>2
  <2>4. fd \in [Dns!Queries -> {"none", "udp", "tcp write", "tcp read"}] /\ f \in {"none", "udp", "tcp write", "tcp read"}
        BY <2>3, WorldIs
  <2>5. /\ fd' \in [Dns!Queries -> {"none", "udp", "tcp write", "tcp read"}] /\ fd'[q] = f
        /\ \A p \in Dns!Queries : p # q => fd'[p] = fd[p]
        BY <2>1, <2>2, <2>4
  <2>6. Socketed(x, f)
    <3>1. CASE kind = "close"
      <4>1. x.state # "udp" /\ x.state # "tcp"
            BY <1>1, <1>4, <1>5, <3>1 DEF Counted, Dns!Active
      <4> QED BY <2>3, <3>1, <4>1 DEF Socketed
    <3>2. CASE kind \in {"udp", "tcp"}
      <4>1. x.state = kind
            BY <1>1, <1>4, <1>5, <3>2 DEF Counted
      <4>2. (x.state = "udp" <=> f = "udp") /\ (x.state = "tcp" <=> f \in {"tcp write", "tcp read"})
            BY <2>3, <3>2, <4>1
      <4> QED BY <4>2 DEF Socketed
    <3> QED BY <1>3, <3>1, <3>2
  <2>7. \A p \in Dns!Queries : Counted(w.q[p]) /\ Socketed(w.q[p], fd'[p])
        BY <1>5, <1>6, <2>5, <2>6 DEF DnsIInv
  <2> QED BY <1>6, <1>8, <2>1, <2>5, <2>7, BecomesOK
<1>10. CASE ~(kind = "close" \/ opens)
  <2>1. Dns!Becomes(Dns!ServerFailed(w, q)) /\ fd' = [fd EXCEPT ![q] = "none"]
        BY <1>1, <1>2, <1>10 DEF Dns!Pump
  <2>2. Dns!Active(x)
        BY <1>1, <1>3, <1>5, <1>10 DEF Counted, Dns!Active
  <2>3. Ready(w, q)
        BY <1>6, <1>7, <1>8, <2>2 DEF Ready, DnsIInv
  <2>4. Handled(w, Dns!ServerFailed(w, q), q)
        BY <1>5, <1>6, <2>3, ServerFailedOK
  <2> QED BY <1>6, <2>1, <2>3, <2>4, ClosedOK
<1> QED BY <1>9, <1>10

\* tick, at one lookup.
LEMMA TickedOK ==
  ASSUME Dns!DnsSizes, DnsIInv, NEW l \in Lookups, NEW overdue \in SUBSET Dns!Queries, \A q \in overdue : Dns!Active(query[q])
  PROVE  Changes(Dns!world, Dns!Ticked(l, overdue), l)
<1>1. PICK a, b : a = <<l, "A">> /\ b = <<l, "AAAA">>
      OBVIOUS
<1>2. a \in Dns!Queries /\ b \in Dns!Queries /\ a # b /\ Dns!Pair(l) = {a, b} /\ a[1] = l /\ b[1] = l
      BY <1>1 DEF Dns!Queries, Dns!Pair
<1>3. PICK v : v = IF a \in overdue THEN Dns!ServerFailed(Dns!world, a) ELSE Dns!world
      OBVIOUS
<1>4. Dns!Ticked(l, overdue) = IF b \in overdue THEN Dns!ServerFailed(v, b) ELSE v
      BY <1>1, <1>3 DEF Dns!Ticked
<1>5. Changes(Dns!world, v, l) /\ (b \in overdue => v.q[b] = query[b])
  <2>1. CASE a \in overdue
    <3>1. Handled(Dns!world, v, a)
          BY <1>2, <1>3, <2>1, ReadyNow, ServerFailedOK
    <3>2. b \in overdue => query[b].state # "done"
          BY DEF Dns!Active
    <3> QED BY <1>2, <3>1, <3>2, WorldIs DEF Handled
  <2>2. CASE a \notin overdue
    <3>1. \A p \in Dns!Pair(l) : Moves(query[p], query[p]) /\ Counted(query[p])
          BY <1>2 DEF DnsIInv, Moves
    <3>2. Coherent(look[l], query, l)
          BY DEF DnsIInv
    <3> QED BY <1>3, <2>2, <3>1, <3>2, WorldIs DEF Changes
  <2> QED BY <2>1, <2>2
<1>6. CASE b \notin overdue
      BY <1>4, <1>5, <1>6
<1>7. CASE b \in overdue
  <2>1. PICK r : r = Dns!ServerFailed(v, b)
        OBVIOUS
  <2>2. Dns!Active(v.q[b]) /\ Counted(v.q[b])
        BY <1>2, <1>5, <1>7 DEF DnsIInv
  <2>3. Ready(v, b)
        BY <1>2, <1>5, <2>2 DEF Ready, Changes
  <2>4. Changes(v, r, l)
        BY <1>2, <2>1, <2>2, <2>3, ServerFailedOK DEF Handled
  <2>5. \A p \in Dns!Pair(l) : Moves(Dns!world.q[p], r.q[p])
        BY <1>5, <2>4, MovesOn DEF Changes
  <2> QED BY <1>4, <1>5, <1>7, <2>1, <2>4, <2>5 DEF Changes
<1> QED BY <1>6, <1>7

\* tick
LEMMA TickStep ==
  ASSUME Dns!DnsSizes, DnsIInv, NEW overdue \in SUBSET Dns!Queries, Dns!Tick(overdue)
  PROVE  DnsIInv'
<1>1. PICK r : r = [q |-> [q \in Dns!Queries |-> Dns!Ticked(q[1], overdue).q[q]], l |-> [l \in Lookups |-> Dns!Ticked(l, overdue).l[l]]]
      OBVIOUS
<1>2. Dns!Becomes(r) /\ UNCHANGED fd /\ \A q \in overdue : Dns!Active(query[q])
      BY <1>1 DEF Dns!Tick
<1>3. \A l \in Lookups : Changes(Dns!world, Dns!Ticked(l, overdue), l)
      BY <1>2, TickedOK
<1>4. /\ \A q \in Dns!Queries : r.q[q] = Dns!Ticked(q[1], overdue).q[q]
      /\ \A l \in Lookups : r.l[l] = Dns!Ticked(l, overdue).l[l]
      BY <1>1
<1>5. \A q \in Dns!Queries : /\ q[1] \in Lookups /\ q \in Dns!Pair(q[1]) /\ r.q[q] \in AQuery
                             /\ Moves(query[q], r.q[q]) /\ Counted(r.q[q])
  <2> SUFFICES ASSUME NEW q \in Dns!Queries
               PROVE  /\ q[1] \in Lookups /\ q \in Dns!Pair(q[1]) /\ r.q[q] \in AQuery
                      /\ Moves(query[q], r.q[q]) /\ Counted(r.q[q])
      OBVIOUS
  <2>1. q[1] \in Lookups /\ q \in Dns!Pair(q[1])
        BY PairOf DEF Dns!Queries
  <2>2. PICK t : t = Dns!Ticked(q[1], overdue)
        OBVIOUS
  <2>3. Changes(Dns!world, t, q[1])
        BY <1>3, <2>1, <2>2
  <2>4. t.q[q] \in AQuery /\ Moves(query[q], t.q[q]) /\ Counted(t.q[q])
        BY <2>1, <2>3, WorldIs DEF Changes, Worlds
  <2> QED BY <1>4, <2>1, <2>2, <2>4
<1>6. \A l \in Lookups : r.l[l] \in ALookup /\ Coherent(r.l[l], r.q, l)
  <2> SUFFICES ASSUME NEW l \in Lookups PROVE r.l[l] \in ALookup /\ Coherent(r.l[l], r.q, l)
      OBVIOUS
  <2>1. PICK t : t = Dns!Ticked(l, overdue)
        OBVIOUS
  <2>2. Changes(Dns!world, t, l)
        BY <1>3, <2>1
  <2>3. t.l[l] \in ALookup /\ Coherent(t.l[l], t.q, l)
        BY <2>2 DEF Changes, Worlds
  <2>4. \A p \in Dns!Pair(l) : r.q[p] = t.q[p]
        BY <1>4, <2>1, PairOf
  <2>5. Coherent(t.l[l], r.q, l)
        BY <2>3, <2>4, CoherentSame
  <2> QED BY <1>4, <2>1, <2>3, <2>5
<1>7. r \in Worlds
  <2>1. r.q \in [Dns!Queries -> AQuery]
        BY <1>1, <1>4, <1>5
  <2>2. r.l \in [Lookups -> ALookup]
        BY <1>1, <1>4, <1>6
  <2>3. r = [q |-> r.q, l |-> r.l]
        BY <1>1
  <2> QED BY <2>1, <2>2, <2>3 DEF Worlds
<1>8. \A q \in Dns!Queries : Socketed(r.q[q], fd[q])
      BY <1>5, SocketedOn DEF DnsIInv
<1> QED BY <1>2, <1>5, <1>6, <1>7, <1>8, WorldIs, BecomesOK

\* A lookup that is free, between calls: its queries have nothing to go out.
LEMMA FreeNow ==
  ASSUME DnsIInv, ~pumping, NEW l \in Lookups, look[l].state # "running"
  PROVE  /\ Dns!Pair(l) \subseteq Dns!Queries /\ Dns!Idle(query, l) \in [Dns!Queries -> AQuery]
         /\ \A q \in Dns!Queries \ Dns!Pair(l) : Dns!Idle(query, l)[q] = query[q]
         /\ \A q \in Dns!Pair(l) : LET y == Dns!Idle(query, l)[q] IN
              y.state = "idle" /\ y.pending = "none" /\ Counted(y) /\ Tried(y) /\ ~Dns!Active(y) /\ Moves(query[q], y)
<1>1. Dns!Pair(l) \subseteq Dns!Queries /\ query \in [Dns!Queries -> AQuery] /\ Coherent(look[l], query, l)
      BY PairOf, WorldIs DEF DnsIInv
<1>2. PICK f : f = Dns!Idle(query, l)
      OBVIOUS
<1>3. \A q \in Dns!Queries : f[q] = IF q \in Dns!Pair(l) THEN [query[q] EXCEPT !.state = "idle"] ELSE query[q]
      BY <1>2 DEF Dns!Idle
<1>4. \A q \in Dns!Queries : f[q] \in AQuery
  <2>1. \A q \in Dns!Queries : query[q] \in AQuery
        BY <1>1
  <2>2. ASSUME NEW x \in AQuery
        PROVE  [x EXCEPT !.state = "idle"] \in AQuery
        BY DEF AQuery
  <2> QED BY <1>3, <2>1, <2>2
<1>5. f \in [Dns!Queries -> AQuery]
      BY <1>2, <1>4 DEF Dns!Idle
<1>6. ASSUME NEW q \in Dns!Pair(l)
      PROVE  LET y == f[q] IN
             y.state = "idle" /\ y.pending = "none" /\ Counted(y) /\ Tried(y) /\ ~Dns!Active(y) /\ Moves(query[q], y)
  <2>1. query[q] \in AQuery /\ query[q].pending = "none" /\ ~Dns!Active(query[q])
        BY <1>1 DEF DnsIInv, Coherent
  <2>2. f[q].state = "idle" /\ f[q].pending = "none"
        BY <1>1, <1>3, <2>1 DEF AQuery
  <2> QED BY <2>1, <2>2 DEF Counted, Tried, Dns!Active, Moves
<1> QED BY <1>1, <1>2, <1>3, <1>5, <1>6

\* Changes that follow another.
LEMMA ChangesOn ==
  ASSUME NEW l \in Lookups, NEW w, NEW v, NEW r, Changes(v, r, l),
         \A k \in Lookups : k # l => v.l[k] = w.l[k],
         \A q \in Dns!Queries \ Dns!Pair(l) : v.q[q] = w.q[q],
         \A q \in Dns!Pair(l) : Moves(w.q[q], v.q[q])
  PROVE  Changes(w, r, l)
<1>1. \A q \in Dns!Pair(l) : Moves(w.q[q], r.q[q])
      BY MovesOn DEF Changes
<1> QED BY <1>1 DEF Changes

\* A call that changes one lookup and leaves the sockets.
LEMMA LookupOK ==
  ASSUME DnsIInv, NEW l \in Lookups, NEW r, Changes(Dns!world, r, l), Dns!Becomes(r), UNCHANGED fd
  PROVE  DnsIInv'
<1>1. Dns!Pair(l) \subseteq Dns!Queries
      BY PairOf
<1>2. \A q \in Dns!Pair(l) : Moves(query[q], r.q[q]) /\ Socketed(query[q], fd[q])
      BY <1>1, WorldIs DEF Changes, DnsIInv
<1>3. \A q \in Dns!Pair(l) : Socketed(r.q[q], fd'[q])
      BY <1>2, SocketedOn
<1> QED BY <1>3, WorldIs, ChangesOK

\* start
LEMMA StartStep ==
  ASSUME Dns!DnsSizes, DnsIInv, NEW l \in Lookups, NEW usable \in SUBSET (1..Candidates), Dns!Start(l, usable)
  PROVE  DnsIInv'
<1>1. ~pumping /\ look[l].state = "free" /\ UNCHANGED fd
      BY DEF Dns!Start
<1>2. PICK k, w : k = Dns!Started(l, usable) /\ w = [q |-> Dns!Idle(query, l), l |-> [look EXCEPT ![l] = k]]
      OBVIOUS
<1>3. look \in [Lookups -> ALookup] /\ look[l] \in ALookup /\ ~look[l].unsure
      BY <1>1, WorldIs DEF DnsIInv, Coherent
<1>4. Candidates \in Nat /\ 1 \in 1..Candidates + 1
      BY DEF Dns!DnsSizes
<1>5. /\ k \in ALookup /\ k.state = "running" /\ k.candidate = 1 /\ k.usable = usable /\ k.unsure = look[l].unsure
      BY <1>2, <1>3, <1>4 DEF Dns!Started, ALookup
<1>6. w.q = Dns!Idle(query, l) /\ w.l = [look EXCEPT ![l] = k]
      BY <1>2
<1>7. w.l \in [Lookups -> ALookup] /\ w.l[l] = k /\ \A m \in Lookups : m # l => w.l[m] = look[m]
      BY <1>3, <1>5, <1>6
<1>8. /\ Dns!Pair(l) \subseteq Dns!Queries /\ w.q \in [Dns!Queries -> AQuery]
      /\ \A q \in Dns!Queries \ Dns!Pair(l) : w.q[q] = query[q]
      /\ \A q \in Dns!Pair(l) : Counted(w.q[q]) /\ Tried(w.q[q]) /\ ~Dns!Active(w.q[q]) /\ Moves(query[q], w.q[q])
      BY <1>1, <1>6, FreeNow
<1>9. w \in Worlds
      BY <1>2, <1>6, <1>7, <1>8 DEF Worlds
<1>10. PICK r : r = IF usable = {} THEN Dns!Finish(w, l, "not found", {}) ELSE Dns!NextCandidate(w, l)
      OBVIOUS
<1>11. Dns!Becomes(r)
      BY <1>2, <1>10 DEF Dns!Start
<1>12. Changes(w, r, l)
  <2>1. CASE usable = {}
    <3>1. w.l[l].unsure = FALSE
          BY <1>3, <1>5, <1>7 DEF ALookup
    <3> QED BY <1>8, <1>9, <1>10, <2>1, <3>1, FinishOK
  <2>2. CASE usable # {}
    <3>1. Dns!Remaining(w, l) = usable
      <4>1. \A c \in usable : c >= 1
            BY <1>4
      <4>2. w.l[l].usable = usable /\ w.l[l].candidate = 1
            BY <1>5, <1>7
      <4> QED BY <4>1, <4>2 DEF Dns!Remaining
    <3> QED BY <1>3, <1>5, <1>7, <1>9, <1>10, <2>2, <3>1, NextCandidateOK
  <2> QED BY <2>1, <2>2
<1>13. Changes(Dns!world, r, l)
      BY <1>7, <1>8, <1>12, WorldIs, ChangesOn
<1> QED BY <1>1, <1>11, <1>13, LookupOK

\* start, where the answer is known
LEMMA StartNowStep ==
  ASSUME DnsIInv, NEW l \in Lookups, Dns!StartNow(l)
  PROVE  DnsIInv'
<1>1. ~pumping /\ look[l].state = "free" /\ UNCHANGED fd
      BY DEF Dns!StartNow
<1>2. PICK k, f : k = [look[l] EXCEPT !.state = "done", !.result = "found", !.sources = {}] /\ f = Dns!Idle(query, l)
      OBVIOUS
<1>3. look \in [Lookups -> ALookup] /\ look[l] \in ALookup
      BY WorldIs
<1>4. k \in ALookup /\ k.state = "done" /\ k.result = "found" /\ k.sources = {}
      BY <1>2, <1>3 DEF ALookup
<1>5. PICK r : r = [q |-> f, l |-> [look EXCEPT ![l] = k]]
      OBVIOUS
<1>6. Dns!Becomes(r)
      BY <1>2, <1>3, <1>5 DEF Dns!StartNow
<1>7. /\ Dns!Pair(l) \subseteq Dns!Queries /\ f \in [Dns!Queries -> AQuery]
      /\ \A q \in Dns!Queries \ Dns!Pair(l) : f[q] = query[q]
      /\ \A q \in Dns!Pair(l) : Counted(f[q]) /\ Tried(f[q]) /\ ~Dns!Active(f[q]) /\ Moves(query[q], f[q])
      BY <1>1, <1>2, FreeNow
<1>8. Coherent(k, f, l)
      BY <1>4, <1>7 DEF Coherent
<1>9. Changes(Dns!world, r, l)
      BY <1>4, <1>5, <1>7, <1>8, WorldIs, ChangesIntro
<1> QED BY <1>1, <1>6, <1>9, LookupOK

\* result
LEMMA ResultStep ==
  ASSUME DnsIInv, NEW l \in Lookups, Dns!Result(l)
  PROVE  DnsIInv'
<1>1. look[l].state = "done" /\ look' = [look EXCEPT ![l] = Dns!Freed(look[l])] /\ UNCHANGED <<query, fd, pumping>>
      BY DEF Dns!Result
<1>2. look \in [Lookups -> ALookup] /\ look[l] \in ALookup
      BY WorldIs
<1>3. PICK k : k = Dns!Freed(look[l])
      OBVIOUS
<1>4. k \in ALookup /\ k.state = "free" /\ k.unsure = FALSE
      BY <1>2, <1>3 DEF Dns!Freed, ALookup
<1>5. look' \in [Lookups -> ALookup] /\ look'[l] = k /\ \A m \in Lookups : m # l => look'[m] = look[m]
      BY <1>1, <1>2, <1>3, <1>4
<1>6. Dns!TypeOK'
      BY <1>1, <1>5 DEF DnsIInv, Dns!TypeOK, ALookup
<1>7. \A m \in Lookups : Coherent(look'[m], query, m)
  <2>1. Coherent(look[l], query, l)
        BY DEF DnsIInv
  <2>2. Coherent(k, query, l)
        BY <1>1, <1>4, <2>1 DEF Coherent
  <2> QED BY <1>5, <2>2 DEF DnsIInv
<1> QED BY <1>1, <1>6, <1>7 DEF DnsIInv

\* cancel
LEMMA CancelStep ==
  ASSUME DnsIInv, NEW l \in Lookups, Dns!Cancel(l)
  PROVE  DnsIInv'
<1>1. /\ UNCHANGED fd
      /\ Dns!Becomes([q |-> Dns!StopBoth(query, l), l |-> [look EXCEPT ![l] = Dns!Freed(look[l])]])
      BY DEF Dns!Cancel
<1>2. look \in [Lookups -> ALookup] /\ look[l] \in ALookup /\ query \in [Dns!Queries -> AQuery] /\ Dns!Pair(l) \subseteq Dns!Queries
      BY WorldIs, PairOf
<1>3. PICK k, f : k = Dns!Freed(look[l]) /\ f = Dns!StopBoth(query, l)
      OBVIOUS
<1>4. k \in ALookup /\ k.state = "free" /\ k.unsure = FALSE
      BY <1>2, <1>3 DEF Dns!Freed, ALookup
<1>5. \A q \in Dns!Queries : f[q] = IF q \in Dns!Pair(l) THEN Dns!Stop(query[q]) ELSE query[q]
      BY <1>3 DEF Dns!StopBoth
<1>6. \A q \in Dns!Pair(l) : f[q] \in AQuery /\ Moves(query[q], f[q]) /\ Counted(f[q]) /\ ~Dns!Active(f[q])
      BY <1>2, <1>5, StopOK DEF DnsIInv
<1>7. f \in [Dns!Queries -> AQuery]
  <2>1. \A q \in Dns!Queries : f[q] \in AQuery
        BY <1>2, <1>5, <1>6
  <2> QED BY <1>3, <2>1 DEF Dns!StopBoth
<1>8. Coherent(k, f, l)
      BY <1>4, <1>6 DEF Coherent
<1>9. PICK r : r = [q |-> f, l |-> [look EXCEPT ![l] = k]]
      OBVIOUS
<1>10. Changes(Dns!world, r, l)
      BY <1>4, <1>5, <1>6, <1>7, <1>8, <1>9, WorldIs, ChangesIntro
<1> QED BY <1>1, <1>3, <1>9, <1>10, LookupOK

\* The invariant holds at first.
LEMMA InitDns ==
  ASSUME Dns!DnsSizes, Dns!Init
  PROVE  DnsIInv
<1>1. ServerCount \in Nat /\ ServerCount > 0 /\ Attempts \in Nat /\ MaxHops \in Nat /\ Candidates \in Nat
      BY DEF Dns!DnsSizes
<1>2. /\ 0 \in 0..ServerCount - 1 /\ 0 \in 0..Attempts /\ 0 \in 0..MaxHops /\ 0 \in 0..Candidates
      /\ 1 \in 1..Candidates + 1
      BY <1>1
<1>3. 0 \in 0..(ServerCount * Attempts)
  <2>1. ServerCount * Attempts \in Nat
        BY <1>1
  <2> QED BY <2>1
<1>4. Dns!TypeOK
      BY <1>2, <1>3 DEF Dns!Init, Dns!TypeOK, Dns!Errors
<1>5. \A q \in Dns!Queries : /\ query[q].state = "idle" /\ query[q].pending = "none" /\ fd[q] = "none"
      BY DEF Dns!Init
<1>6. \A q \in Dns!Queries : Counted(query[q]) /\ Socketed(query[q], fd[q])
  <2>1. ASSUME NEW q \in Dns!Queries
        PROVE  Counted(query[q])
        BY <1>5 DEF Counted, Dns!Active
  <2>2. ASSUME NEW q \in Dns!Queries
        PROVE  Socketed(query[q], fd[q])
        BY <1>5 DEF Socketed
  <2> QED BY <2>1, <2>2
<1>7. \A l \in Lookups : Coherent(look[l], query, l)
  <2> SUFFICES ASSUME NEW l \in Lookups PROVE Coherent(look[l], query, l)
      OBVIOUS
  <2>1. look[l].state = "free" /\ look[l].unsure = FALSE
        BY DEF Dns!Init
  <2>2. \A p \in Dns!Pair(l) : ~Dns!Active(query[p])
        BY <1>5, PairOf DEF Dns!Active
  <2> QED BY <2>1, <2>2 DEF Coherent
<1>8. pumping = (\E q \in Dns!Queries : query[q].pending # "none")
      BY <1>5 DEF Dns!Init
<1> QED BY <1>4, <1>6, <1>7, <1>8 DEF DnsIInv

\* Every step keeps the invariant.
LEMMA DnsStepKeeps ==
  ASSUME Dns!DnsSizes, DnsIInv, [Dns!Next]_(Dns!vars)
  PROVE  DnsIInv'
<1>1. ASSUME NEW l \in Lookups, NEW n \in {1, Candidates}, NEW usable \in SUBSET (1..n), Dns!Start(l, usable)
      PROVE  DnsIInv'
  <2>1. usable \in SUBSET (1..Candidates)
        BY DEF Dns!DnsSizes
  <2> QED BY <1>1, <2>1, StartStep
<1>2. ASSUME NEW l \in Lookups, Dns!StartNow(l) \/ Dns!Result(l) \/ Dns!Cancel(l)
      PROVE  DnsIInv'
      BY <1>2, StartNowStep, ResultStep, CancelStep
<1>3. ASSUME NEW q \in Dns!Queries, Dns!Receive(q) \/ Dns!Write(q) \/ Dns!ReceiveStream(q) \/ Dns!Fail(q)
      PROVE  DnsIInv'
      BY <1>3, ReceiveStep, WriteStep, ReceiveStreamStep, FailStep
<1>4. ASSUME NEW q \in Dns!Queries, NEW opens \in BOOLEAN, Dns!Pump(q, opens)
      PROVE  DnsIInv'
      BY <1>4, PumpStep
<1>5. ASSUME NEW overdue \in SUBSET Dns!Queries, Dns!Tick(overdue)
      PROVE  DnsIInv'
      BY <1>5, TickStep
<1>6. CASE UNCHANGED Dns!vars
      BY <1>6 DEF Dns!vars, DnsIInv, Dns!TypeOK
<1> QED BY <1>1, <1>2, <1>3, <1>4, <1>5, <1>6 DEF Dns!Next

\* The invariant says that lookups are sound.
LEMMA LookupsSoundNow ==
  ASSUME DnsIInv
  PROVE  Dns!LookupSound
<1>1. Dns!SocketWhileWaiting
      BY DEF DnsIInv, Dns!SocketWhileWaiting, Socketed
<1>2. Dns!NotFoundIsCertain /\ Dns!AddressesOfLast
      BY DEF DnsIInv, Coherent, Dns!NotFoundIsCertain, Dns!AddressesOfLast
<1>3. Dns!EveryServerTried
  <2>1. \A q \in Dns!Queries : q[1] \in Lookups /\ q \in Dns!Pair(q[1])
        BY PairOf DEF Dns!Queries
  <2> QED BY <2>1 DEF DnsIInv, Coherent, Tried, Dns!EveryServerTried
<1> QED BY <1>1, <1>2, <1>3 DEF Dns!LookupSound, DnsIInv

\* The lookups of the run: their invariant while that part moves.
LookupsPart == part = "lookups" => DnsIInv

\* For any number of lookups, servers, rounds, hops and candidates: a query has
\* a socket while it waits for a reply and then only, "not found" is answered
\* when every question was answered, the addresses are those of the candidate
\* the lookup ended with, and a query gives up when every server failed it in
\* every round (dnsResolverDone, dnsResolverServerFailed, pump).
THEOREM LookupsAreSound == ReuseSpec => []LookupSound
<1>1. ReuseInit => LookupsPart
      BY InitDns, DnsAssumption DEF ReuseInit, LookupsPart
<1>2. ASSUME LookupsPart, [ReuseNext]_allVars PROVE LookupsPart'
  <2>1. part' = part /\ (part = "lookups" => [Dns!Next]_(Dns!vars))
        BY <1>2 DEF ReuseNext, allVars, lookupVars, Dns!vars
  <2>2. CASE part # "lookups"
        BY <2>1, <2>2 DEF LookupsPart
  <2>3. CASE part = "lookups"
    <3>1. DnsIInv'
          BY <1>2, <2>1, <2>3, DnsStepKeeps, DnsAssumption DEF LookupsPart
    <3> QED BY <3>1 DEF LookupsPart
  <2> QED BY <2>2, <2>3
<1>3. LookupsPart => LookupSound
      BY LookupsSoundNow, DnsAssumption DEF LookupsPart, LookupSound
<1> QED BY <1>1, <1>2, <1>3, PTL DEF ReuseSpec

-----------------------------------------------------------------------------
\* The caches of the compiler driver.

Labels == {"start", "runtime", "compile", "empty", "move", "key", "stage", "copy", "link",
           "linkstaged", "exec", "done", "refused", "no object"}
Compilers == [pc : Labels, prog : Programs, ent : Cache!Entries, left : SUBSET (RuntimeUnits \cup {1}),
              runtime : BOOLEAN, beside : Cache!Contents, built : Cache!Contents, ran : Cache!Contents]
Stored(e) == [key : {"mine", "other", "empty"}, obj : [Cache!Units(e) -> Cache!Contents]]

\* Unit u of entry e holds what its key promises, or a cleaner has been there.
Good(e, u) == disk[e].obj[u] # "other" /\ (~cleaned => disk[e].obj[u] # "none")
Sound(e) == \A u \in Cache!Units(e) : Good(e, u)

\* A key stands beside its own objects.
EntryInv ==
  \A e \in Cache!Entries :
    /\ disk[e].key = "mine" => Sound(e)
    /\ disk[e].key = "other" => \A u \in Cache!Units(e) : disk[e].obj[u] \in {"other", "none"}

\* A compiler that fills an entry has emptied its key, and what it moved is
\* good and stays so, whoever moves the same unit again.
FillOK(c) ==
  /\ c.pc \in {"empty", "move", "key"} =>
       /\ c.left \subseteq Cache!Units(c.ent)
       /\ c.ent # "rt" => c.built = "mine"
       /\ c.ent = "mod" => c.beside = "mine"
       /\ c.ent \in {"rt", "mod", c.prog}
  /\ c.pc = "empty" => c.left = Cache!Units(c.ent)
  /\ c.pc \in {"move", "key"} =>
       /\ disk[c.ent].key # "other"
       /\ \A u \in Cache!Units(c.ent) \ c.left : Good(c.ent, u)
  /\ c.pc = "key" => c.left = {}

\* What a compiler uses of an entry was good when it found the key, and is.
UseOK(c) ==
  /\ c.runtime => Sound("rt")
  /\ c.pc = "copy" => Sound("mod")
  /\ c.pc = "exec" => Sound(c.prog)
  /\ c.beside # "other" /\ c.built # "other" /\ c.ran # "other"
  /\ ~cleaned => c.pc # "no object"

CacheIInv ==
  /\ disk = [e \in Cache!Entries |-> disk[e]] /\ \A e \in Cache!Entries : disk[e] \in Stored(e)
  /\ proc \in [Procs -> Compilers] /\ cleaned \in BOOLEAN
  /\ EntryInv
  /\ \A p \in Procs : FillOK(proc[p]) /\ UseOK(proc[p])

\* What no step does to the entries: put another's object into one, take one
\* without the cleaner, or bring the key of another compiler back.
Steady ==
  /\ \A e \in Cache!Entries : disk[e].key # "other" => disk'[e].key # "other"
  /\ \A e \in Cache!Entries : \A u \in Cache!Units(e) :
       \/ disk'[e].obj[u] \in {disk[e].obj[u], "mine"}
       \/ disk'[e].obj[u] = "none" /\ cleaned'
  /\ cleaned => cleaned'

\* A good unit stays good.
LEMMA GoodStays ==
  ASSUME CacheIInv, Steady, cleaned' \in BOOLEAN, NEW e \in Cache!Entries, NEW u \in Cache!Units(e), Good(e, u)
  PROVE  Good(e, u)'
BY DEF CacheIInv, Steady, Good

\* Entries and units.
LEMMA Names ==
  ASSUME Cache!EntriesApart
  PROVE  /\ "rt" \in Cache!Entries /\ "mod" \in Cache!Entries /\ Programs \subseteq Cache!Entries
         /\ Cache!Units("rt") = RuntimeUnits /\ Cache!Units("mod") = {1}
         /\ \A prog \in Programs : prog # "rt" /\ prog # "mod" /\ Cache!Units(prog) = {1}
         /\ \A e \in Cache!Entries : Cache!Units(e) \subseteq RuntimeUnits \cup {1}
         /\ \A e \in Cache!Entries : e # "rt" => Cache!Units(e) = {1}
BY DEF Cache!EntriesApart, Cache!Entries, Cache!Units

\* A compiler that does nothing keeps what it relies on.
LEMMA OthersKeep ==
  ASSUME Cache!EntriesApart, CacheIInv, Steady, cleaned' \in BOOLEAN, NEW q \in Procs, proc'[q] = proc[q]
  PROVE  FillOK(proc[q])' /\ UseOK(proc[q])'
<1>1. proc[q] \in Compilers /\ FillOK(proc[q]) /\ UseOK(proc[q])
      BY DEF CacheIInv
<1>2. proc[q].ent \in Cache!Entries /\ proc[q].prog \in Cache!Entries
      BY <1>1, Names DEF Compilers
<1>3. \A e \in Cache!Entries : Sound(e) => Sound(e)'
      BY GoodStays DEF Sound
<1>4. FillOK(proc[q])'
  <2>1. proc[q].pc \in {"move", "key"} =>
          /\ disk'[proc[q].ent].key # "other"
          /\ \A u \in Cache!Units(proc[q].ent) \ proc[q].left : Good(proc[q].ent, u)'
        BY <1>1, <1>2, GoodStays DEF FillOK, Steady
  <2> QED BY <1>1, <2>1 DEF FillOK
<1>5. UseOK(proc[q])'
  <2>1. cleaned \in BOOLEAN
        BY DEF CacheIInv
  <2> QED BY <1>1, <1>2, <1>3, <2>1, Names DEF UseOK, Steady
<1> QED BY <1>4, <1>5

\* A step of compiler p that changes no entry.
LEMMA LocalStep ==
  ASSUME Cache!EntriesApart, CacheIInv, NEW p \in Procs, UNCHANGED <<disk, cleaned>>,
         proc' \in [Procs -> Compilers], \A q \in Procs : q # p => proc'[q] = proc[q],
         FillOK(proc'[p]), UseOK(proc'[p])
  PROVE  CacheIInv'
<1>1. Steady /\ cleaned' \in BOOLEAN
      BY DEF Steady, CacheIInv
<1>2. ASSUME NEW q \in Procs PROVE FillOK(proc[q])' /\ UseOK(proc[q])'
  <2>1. CASE q # p
        BY <1>1, <2>1, OthersKeep
  <2>2. CASE q = p
        BY <2>2 DEF FillOK, UseOK, Sound, Good
  <2> QED BY <2>1, <2>2
<1>3. EntryInv'
      BY DEF CacheIInv, EntryInv, Sound, Good
<1> QED BY <1>1, <1>2, <1>3 DEF CacheIInv

\* A step of compiler p that changes the entry of e.
LEMMA EntryStep ==
  ASSUME Cache!EntriesApart, CacheIInv, NEW p \in Procs, NEW e \in Cache!Entries, NEW s \in Stored(e),
         disk' = [disk EXCEPT ![e] = s], UNCHANGED cleaned,
         disk[e].key # "other" => s.key # "other",
         \A u \in Cache!Units(e) : s.obj[u] \in {disk[e].obj[u], "mine"},
         s.key = "mine" => Sound(e)',
         s.key = "other" => s.obj = disk[e].obj /\ disk[e].key = "other",
         proc' \in [Procs -> Compilers], \A q \in Procs : q # p => proc'[q] = proc[q],
         FillOK(proc[p])', UseOK(proc[p])'
  PROVE  CacheIInv'
<1>1. disk = [x \in Cache!Entries |-> disk[x]] /\ \A x \in Cache!Entries : disk[x] \in Stored(x)
      BY DEF CacheIInv
<1>2. /\ disk'[e] = s /\ \A x \in Cache!Entries : x # e => disk'[x] = disk[x]
      /\ disk' = [x \in Cache!Entries |-> disk'[x]] /\ \A x \in Cache!Entries : disk'[x] \in Stored(x)
      BY <1>1
<1>3. Steady /\ cleaned' \in BOOLEAN
      BY <1>2 DEF Steady, CacheIInv
<1>4. ASSUME NEW q \in Procs PROVE FillOK(proc[q])' /\ UseOK(proc[q])'
      BY <1>3, OthersKeep
<1>5. EntryInv'
  <2> SUFFICES ASSUME NEW x \in Cache!Entries
               PROVE  /\ disk'[x].key = "mine" => Sound(x)'
                      /\ disk'[x].key = "other" => \A u \in Cache!Units(x) : disk'[x].obj[u] \in {"other", "none"}
      BY DEF EntryInv
  <2>1. CASE x = e
        BY <1>2, <2>1 DEF CacheIInv, EntryInv
  <2>2. CASE x # e
        BY <1>2, <2>2 DEF CacheIInv, EntryInv, Sound, Good
  <2> QED BY <2>1, <2>2
<1> QED BY <1>2, <1>3, <1>4, <1>5 DEF CacheIInv

\* Nothing is being filled or found at the start.
LEMMA InitCache ==
  ASSUME Cache!EntriesApart, Cache!Init
  PROVE  CacheIInv
<1>1. PICK old \in SUBSET Cache!Entries : disk = [e \in Cache!Entries |->
        IF e \in old THEN Cache!Holding("other", "other", e) ELSE Cache!Holding("empty", "none", e)]
      BY DEF Cache!Init
<1>2. ASSUME NEW e \in Cache!Entries
      PROVE  /\ disk[e] \in Stored(e) /\ disk[e].key # "mine"
             /\ disk[e].key = "other" => \A u \in Cache!Units(e) : disk[e].obj[u] \in {"other", "none"}
  <2>1. CASE e \in old
        BY <1>1, <2>1 DEF Cache!Holding, Stored, Cache!Contents
  <2>2. CASE e \notin old
        BY <1>1, <2>2 DEF Cache!Holding, Stored, Cache!Contents
  <2> QED BY <2>1, <2>2
<1>3. disk = [e \in Cache!Entries |-> disk[e]]
      BY <1>1
<1>4. EntryInv
      BY <1>2 DEF EntryInv
<1>5. ASSUME NEW p \in Procs
      PROVE  proc[p] \in Compilers /\ FillOK(proc[p]) /\ UseOK(proc[p])
  <2>1. PICK prog \in Programs : proc[p] = Cache!Fresh(prog)
        BY DEF Cache!Init
  <2> QED BY <2>1, Names DEF Cache!Fresh, Compilers, Labels, Cache!Contents, FillOK, UseOK
<1>6. proc \in [Procs -> Compilers]
  <2>1. proc \in [Procs -> {Cache!Fresh(prog) : prog \in Programs}]
        BY DEF Cache!Init
  <2> QED BY <1>5, <2>1
<1>7. cleaned \in BOOLEAN
      BY DEF Cache!Init
<1> QED BY <1>2, <1>3, <1>4, <1>5, <1>6, <1>7 DEF CacheIInv

\* A compiler that moves to a place where it neither fills nor uses an entry.
Elsewhere == {"start", "runtime", "compile", "stage", "link", "linkstaged", "done", "refused"}

\* A compiler that only goes to a place where it fills nothing.
LEMMA GotoElsewhere ==
  ASSUME Cache!EntriesApart, CacheIInv, NEW p \in Procs, NEW l \in Elsewhere,
         Cache!Goto(p, l), UNCHANGED <<disk, cleaned>>
  PROVE  CacheIInv'
<1>1. proc[p] \in Compilers /\ UseOK(proc[p]) /\ proc \in [Procs -> Compilers]
      BY DEF CacheIInv
<1>2. proc'[p] = [proc[p] EXCEPT !.pc = l] /\ \A q \in Procs : q # p => proc'[q] = proc[q]
      BY <1>1 DEF Cache!Goto
<1>3. proc'[p] \in Compilers
      BY <1>1, <1>2 DEF Compilers, Labels, Elsewhere
<1>4. proc' \in [Procs -> Compilers]
      BY <1>1, <1>3 DEF Cache!Goto
<1>5. FillOK(proc'[p]) /\ UseOK(proc'[p])
      BY <1>1, <1>2 DEF FillOK, UseOK, Elsewhere, Compilers
<1> QED BY <1>2, <1>4, <1>5, LocalStep

\* cachedBinary: a program that will be run has its key.
LEMMA LookBinaryKeeps ==
  ASSUME Cache!EntriesApart, CacheIInv, NEW p \in Procs, Cache!LookBinary(p)
  PROVE  CacheIInv'
<1>1. proc[p] \in Compilers /\ UseOK(proc[p]) /\ proc \in [Procs -> Compilers]
      BY DEF CacheIInv
<1>2. CASE Cache!Hit(proc[p].prog)
  <2>1. proc'[p] = [proc[p] EXCEPT !.pc = "exec"] /\ \A q \in Procs : q # p => proc'[q] = proc[q]
        BY <1>1, <1>2 DEF Cache!Goto, Cache!LookBinary
  <2>2. proc'[p] \in Compilers
        BY <1>1, <2>1 DEF Compilers, Labels
  <2>3. proc' \in [Procs -> Compilers]
        BY <1>1, <2>2 DEF Cache!LookBinary, Cache!Goto
  <2>4. Sound(proc[p].prog)
        BY <1>1, <1>2, Names DEF CacheIInv, EntryInv, Cache!Hit, Compilers
  <2>5. FillOK(proc'[p]) /\ UseOK(proc'[p])
        BY <1>1, <2>1, <2>4 DEF FillOK, UseOK, Compilers
  <2> QED BY <2>1, <2>3, <2>5, LocalStep DEF Cache!LookBinary
<1>3. CASE ~Cache!Hit(proc[p].prog)
      BY <1>3, GotoElsewhere DEF Cache!LookBinary, Elsewhere
<1> QED BY <1>2, <1>3

\* cachedEntry for the runtime: what it will link has its key.
LEMMA LookRuntimeKeeps ==
  ASSUME Cache!EntriesApart, CacheIInv, NEW p \in Procs, Cache!LookRuntime(p)
  PROVE  CacheIInv'
<1>1. proc[p] \in Compilers /\ UseOK(proc[p]) /\ proc \in [Procs -> Compilers]
      BY DEF CacheIInv
<1> DEFINE c == [proc[p] EXCEPT !.pc = IF Cache!Hit("rt") THEN "stage" ELSE "compile", !.runtime = Cache!Hit("rt")]
<1>2. proc' = [proc EXCEPT ![p] = c]
      BY DEF Cache!LookRuntime
<1>3. c \in Compilers
      BY <1>1 DEF Compilers, Labels, Cache!Hit
<1>4. proc'[p] = c /\ proc' \in [Procs -> Compilers] /\ \A q \in Procs : q # p => proc'[q] = proc[q]
      BY <1>1, <1>2, <1>3
<1>5. Cache!Hit("rt") => Sound("rt")
      BY Names DEF CacheIInv, EntryInv, Cache!Hit
<1>6. FillOK(c) /\ UseOK(c)
      BY <1>1, <1>5 DEF FillOK, UseOK, Compilers
<1> QED BY <1>4, <1>6, LocalStep DEF Cache!LookRuntime

\* The runtime is compiled, and an entry is about to be filled.
LEMMA CompileRuntimeKeeps ==
  ASSUME Cache!EntriesApart, CacheIInv, NEW p \in Procs, Cache!CompileRuntime(p)
  PROVE  CacheIInv'
<1>1. proc[p] \in Compilers /\ UseOK(proc[p]) /\ proc \in [Procs -> Compilers]
      BY DEF CacheIInv
<1> DEFINE c == [proc[p] EXCEPT !.pc = "empty", !.ent = "rt", !.left = Cache!Units("rt")]
<1>2. proc' = [proc EXCEPT ![p] = c]
      BY DEF Cache!CompileRuntime, Cache!Fill
<1>3. c \in Compilers
      BY <1>1, Names DEF Compilers, Labels
<1>4. proc'[p] = c /\ proc' \in [Procs -> Compilers] /\ \A q \in Procs : q # p => proc'[q] = proc[q]
      BY <1>1, <1>2, <1>3
<1>5. UseOK(c)
      BY <1>1 DEF UseOK, Compilers
<1>6. FillOK(c)
      BY <1>1 DEF FillOK, Compilers
<1> QED BY <1>4, <1>5, <1>6, LocalStep DEF Cache!CompileRuntime

\* What filling an entry is followed by is sound, with its key written or not.
LEMMA FilledSound ==
  ASSUME Cache!EntriesApart, CacheIInv, NEW p \in Procs, NEW ok \in BOOLEAN,
         proc[p].pc \in {"move", "key"},
         ok => \A u \in Cache!Units(proc[p].ent) : Good(proc[p].ent, u)
  PROVE  Cache!Filled(p, ok) \in Compilers /\ FillOK(Cache!Filled(p, ok)) /\ UseOK(Cache!Filled(p, ok))
<1>1. proc[p] \in Compilers /\ FillOK(proc[p]) /\ UseOK(proc[p])
      BY DEF CacheIInv
<1>2. CASE proc[p].ent = "rt"
  <2> DEFINE c == [proc[p] EXCEPT !.pc = IF ok THEN "stage" ELSE "link", !.runtime = ok]
  <2>1. Cache!Filled(p, ok) = c
        BY <1>2 DEF Cache!Filled
  <2>2. c \in Compilers
        BY <1>1 DEF Compilers, Labels
  <2>3. ok => Sound("rt")
        BY <1>2 DEF Sound
  <2>4. FillOK(c) /\ UseOK(c)
        BY <1>1, <2>3 DEF FillOK, UseOK, Compilers
  <2> QED BY <2>1, <2>2, <2>4
<1>3. CASE proc[p].ent = "mod"
  <2> DEFINE c == [proc[p] EXCEPT !.pc = "empty", !.ent = proc[p].prog, !.left = Cache!Units(proc[p].prog)]
  <2>1. Cache!Filled(p, ok) = c
        BY <1>3 DEF Cache!Filled, Cache!Fill
  <2>2. proc[p].prog \in Programs /\ proc[p].prog \in Cache!Entries
        BY <1>1, Names DEF Compilers
  <2>3. c \in Compilers
        BY <1>1, <2>2, Names DEF Compilers, Labels
  <2>4. proc[p].built = "mine" /\ proc[p].prog # "rt" /\ proc[p].prog # "mod"
        BY <1>1, <1>3, <2>2, Names DEF FillOK
  <2>5. FillOK(c)
        BY <1>1, <2>4 DEF FillOK, Compilers
  <2>6. UseOK(c)
        BY <1>1 DEF UseOK, Compilers
  <2> QED BY <2>1, <2>3, <2>5, <2>6
<1>4. CASE proc[p].ent \notin {"rt", "mod"}
  <2> DEFINE c == [proc[p] EXCEPT !.pc = IF ok THEN "exec" ELSE "refused"]
  <2>1. Cache!Filled(p, ok) = c
        BY <1>4 DEF Cache!Filled
  <2>2. c \in Compilers
        BY <1>1 DEF Compilers, Labels
  <2>3. ok => Sound(proc[p].prog)
        BY <1>1, <1>4 DEF Sound, FillOK
  <2>4. FillOK(c) /\ UseOK(c)
        BY <1>1, <2>3 DEF FillOK, UseOK, Compilers
  <2> QED BY <2>1, <2>2, <2>4
<1> QED BY <1>2, <1>3, <1>4

\* One compiler changes.
LEMMA PutKeeps ==
  ASSUME Cache!EntriesApart, CacheIInv, NEW p \in Procs, NEW c \in Compilers,
         proc' = [proc EXCEPT ![p] = c], UNCHANGED <<disk, cleaned>>, FillOK(c), UseOK(c)
  PROVE  CacheIInv'
<1>1. proc \in [Procs -> Compilers]
      BY DEF CacheIInv
<1>2. proc'[p] = c /\ proc' \in [Procs -> Compilers] /\ \A q \in Procs : q # p => proc'[q] = proc[q]
      BY <1>1
<1> QED BY <1>2, LocalStep

\* A rename that fails leaves the entry without its key.
LEMMA MoveFailsKeeps ==
  ASSUME Cache!EntriesApart, CacheIInv, NEW p \in Procs, Cache!MoveFails(p)
  PROVE  CacheIInv'
<1>1. proc[p].pc \in {"move", "key"}
      BY DEF Cache!MoveFails, Cache!At
<1>2. Cache!Filled(p, FALSE) \in Compilers /\ FillOK(Cache!Filled(p, FALSE)) /\ UseOK(Cache!Filled(p, FALSE))
      BY <1>1, FilledSound
<1> QED BY <1>2, PutKeeps DEF Cache!MoveFails

\* stageModules looks at the module cache, or refuses it.
LEMMA StageKeeps ==
  ASSUME Cache!EntriesApart, CacheIInv, NEW p \in Procs, Cache!Stage(p)
  PROVE  CacheIInv'
<1>1. proc[p] \in Compilers /\ UseOK(proc[p]) /\ UNCHANGED <<disk, cleaned>>
      BY DEF CacheIInv, Cache!Stage
<1>2. CASE Cache!Goto(p, "link")
      BY <1>1, <1>2, GotoElsewhere DEF Elsewhere
<1>3. CASE Cache!Goto(p, "linkstaged")
      BY <1>1, <1>3, GotoElsewhere DEF Elsewhere
<1>4. CASE Cache!Hit("mod") /\ Cache!Goto(p, "copy")
  <2> DEFINE c == [proc[p] EXCEPT !.pc = "copy"]
  <2>1. c \in Compilers
        BY <1>1 DEF Compilers, Labels
  <2>2. Sound("mod")
        BY <1>4, Names DEF CacheIInv, EntryInv, Cache!Hit
  <2>3. FillOK(c) /\ UseOK(c)
        BY <1>1, <2>2 DEF FillOK, UseOK, Compilers
  <2>4. proc' = [proc EXCEPT ![p] = c]
        BY <1>4 DEF Cache!Goto
  <2> QED BY <1>1, <2>1, <2>3, <2>4, PutKeeps
<1> QED BY <1>2, <1>3, <1>4 DEF Cache!Stage

\* A cached object is used as it stands beside its key.
LEMMA CopyKeeps ==
  ASSUME Cache!EntriesApart, CacheIInv, NEW p \in Procs, Cache!Copy(p)
  PROVE  CacheIInv'
<1>1. proc[p] \in Compilers /\ UseOK(proc[p]) /\ disk["mod"] \in Stored("mod")
      BY Names DEF CacheIInv
<1>2. disk["mod"].obj[1] = "mine"
      BY <1>1, Names DEF Cache!Copy, Cache!At, UseOK, Sound, Good, Stored, Cache!Contents
<1> DEFINE c == [proc[p] EXCEPT !.beside = "mine", !.pc = "link"]
<1>3. c \in Compilers
      BY <1>1 DEF Compilers, Labels, Cache!Contents
<1>4. proc' = [proc EXCEPT ![p] = c] /\ UNCHANGED <<disk, cleaned>>
      BY <1>2 DEF Cache!Copy
<1>5. FillOK(c) /\ UseOK(c)
      BY <1>1 DEF FillOK, UseOK, Compilers
<1> QED BY <1>3, <1>4, <1>5, PutKeeps

\* A link that finds its objects makes the program's own binary.
LEMMA LinkedMine ==
  ASSUME Cache!EntriesApart, CacheIInv, NEW p \in Procs
  PROVE  /\ Cache!ModuleObject(p) = "mine" /\ Cache!Linked(p) \in {"mine", "none"}
         /\ ~cleaned => Cache!Linked(p) # "none"
<1>1. proc[p] \in Compilers /\ UseOK(proc[p]) /\ disk["rt"] \in Stored("rt")
      BY Names DEF CacheIInv
<1>2. Cache!ModuleObject(p) = "mine"
      BY <1>1 DEF UseOK, Cache!ModuleObject, Compilers, Cache!Contents
<1> DEFINE rt == IF proc[p].runtime THEN {disk["rt"].obj[u] : u \in RuntimeUnits} ELSE {}
           parts == {Cache!ModuleObject(p)} \cup rt
<1>3. /\ \A x \in rt : x \in {"mine", "none"}
      /\ ~cleaned => \A x \in rt : x = "mine"
  <2>1. CASE proc[p].runtime
    <3>1. \A u \in RuntimeUnits : disk["rt"].obj[u] \in Cache!Contents
          BY <1>1, Names DEF Stored
    <3>2. \A u \in RuntimeUnits : disk["rt"].obj[u] # "other" /\ (~cleaned => disk["rt"].obj[u] # "none")
          BY <1>1, <2>1, Names DEF UseOK, Sound, Good
    <3> QED BY <3>1, <3>2, <2>1 DEF Cache!Contents
  <2>2. CASE ~proc[p].runtime
        BY <2>2
  <2> QED BY <2>1, <2>2
<1>4. parts \subseteq {"mine", "none"} /\ "mine" \in parts /\ (~cleaned => "none" \notin parts)
      BY <1>2, <1>3
<1>5. "none" \notin parts => parts = {"mine"}
      BY <1>4
<1> HIDE DEF parts
<1>6. Cache!Linked(p) = IF "none" \in parts THEN "none" ELSE IF parts = {"mine"} THEN "mine" ELSE "other"
      BY DEF Cache!Linked, parts
<1> QED BY <1>2, <1>4, <1>5, <1>6

\* linkProgram links objects that are the compiler's own.
LEMMA LinkKeeps ==
  ASSUME Cache!EntriesApart, CacheIInv, NEW p \in Procs, Cache!Link(p)
  PROVE  CacheIInv'
<1>1. proc[p] \in Compilers /\ UseOK(proc[p])
      BY DEF CacheIInv
<1>2. Cache!Linked(p) = "mine" /\ Cache!ModuleObject(p) = "mine"
      BY LinkedMine DEF Cache!Link
<1>3. PICK e \in Cache!Entries : e \in {"mod", proc[p].prog} /\
        proc' = [proc EXCEPT ![p] = [[proc[p] EXCEPT !.built = Cache!Linked(p), !.beside = Cache!ModuleObject(p)]
                                       EXCEPT !.pc = "empty", !.ent = e, !.left = Cache!Units(e)]]
  <2>1. "mod" \in Cache!Entries /\ proc[p].prog \in Cache!Entries
        BY <1>1, Names DEF Compilers
  <2>2. CASE Cache!At(p, "linkstaged")
        BY <2>1, <2>2 DEF Cache!Link
  <2>3. CASE ~Cache!At(p, "linkstaged")
        BY <2>1, <2>3 DEF Cache!Link
  <2> QED BY <2>2, <2>3
<1> DEFINE c == [proc[p] EXCEPT !.built = "mine", !.beside = "mine", !.pc = "empty", !.ent = e, !.left = Cache!Units(e)]
<1>4. proc' = [proc EXCEPT ![p] = c]
      BY <1>2, <1>3
<1>5. c \in Compilers
      BY <1>1, Names DEF Compilers, Labels, Cache!Contents
<1>6. e # "rt"
      BY <1>1, <1>3, Names DEF Compilers
<1>7. FillOK(c) /\ UseOK(c)
      BY <1>1, <1>3, <1>6 DEF FillOK, UseOK, Compilers
<1> QED BY <1>4, <1>5, <1>7, PutKeeps DEF Cache!Link

\* Where an object is missing, the link fails.
LEMMA LinkFailsKeeps ==
  ASSUME Cache!EntriesApart, CacheIInv, NEW p \in Procs, Cache!LinkFails(p)
  PROVE  CacheIInv'
<1>1. proc[p] \in Compilers /\ UseOK(proc[p]) /\ cleaned \in BOOLEAN
      BY DEF CacheIInv
<1>2. cleaned
      BY LinkedMine DEF Cache!LinkFails
<1> DEFINE c == [proc[p] EXCEPT !.pc = "no object"]
<1>3. c \in Compilers
      BY <1>1 DEF Compilers, Labels
<1>4. FillOK(c) /\ UseOK(c)
      BY <1>1, <1>2 DEF FillOK, UseOK, Compilers
<1> QED BY <1>3, <1>4, PutKeeps DEF Cache!LinkFails, Cache!Goto

\* The program that is run was found with its key, or linked.
LEMMA ExecKeeps ==
  ASSUME Cache!EntriesApart, CacheIInv, NEW p \in Procs, Cache!Exec(p)
  PROVE  CacheIInv'
<1>1. proc[p] \in Compilers /\ UseOK(proc[p]) /\ cleaned \in BOOLEAN /\ proc[p].prog \in Programs
      BY DEF CacheIInv, Compilers
<1>2. disk[proc[p].prog] \in Stored(proc[p].prog) /\ Cache!Units(proc[p].prog) = {1}
      BY <1>1, Names DEF CacheIInv
<1> DEFINE x == disk[proc[p].prog].obj[1]
<1>3. x \in {"mine", "none"} /\ (~cleaned => x # "none")
      BY <1>1, <1>2 DEF Cache!Exec, Cache!At, UseOK, Sound, Good, Stored, Cache!Contents
<1>4. proc' = [proc EXCEPT ![p] = [proc[p] EXCEPT !.ran = x, !.pc = IF x = "none" THEN "no object" ELSE "done"]]
      BY DEF Cache!Exec
<1> HIDE DEF x
<1> DEFINE c == [proc[p] EXCEPT !.ran = x, !.pc = IF x = "none" THEN "no object" ELSE "done"]
<1>5. c \in Compilers
      BY <1>1, <1>3 DEF Compilers, Labels, Cache!Contents
<1>6. FillOK(c) /\ UseOK(c)
      BY <1>1, <1>3 DEF FillOK, UseOK, Compilers
<1> QED BY <1>4, <1>5, <1>6, PutKeeps DEF Cache!Exec

\* A compiler starts again with nothing in hand.
LEMMA AgainKeeps ==
  ASSUME Cache!EntriesApart, CacheIInv, NEW p \in Procs, NEW prog \in Programs, Cache!Again(p, prog)
  PROVE  CacheIInv'
<1>1. Cache!Fresh(prog) \in Compilers /\ FillOK(Cache!Fresh(prog)) /\ UseOK(Cache!Fresh(prog))
      BY Names DEF Cache!Fresh, Compilers, Labels, Cache!Contents, FillOK, UseOK
<1> QED BY <1>1, PutKeeps DEF Cache!Again

\* One entry and one compiler change.
LEMMA PutEntryKeeps ==
  ASSUME Cache!EntriesApart, CacheIInv, NEW p \in Procs, NEW c \in Compilers,
         NEW e \in Cache!Entries, NEW s \in Stored(e),
         disk' = [disk EXCEPT ![e] = s], UNCHANGED cleaned, proc' = [proc EXCEPT ![p] = c],
         disk[e].key # "other" => s.key # "other",
         \A u \in Cache!Units(e) : s.obj[u] \in {disk[e].obj[u], "mine"},
         s.key = "mine" => Sound(e)',
         s.key = "other" => s.obj = disk[e].obj /\ disk[e].key = "other",
         (FillOK(c) /\ UseOK(c))'
  PROVE  CacheIInv'
<1>1. proc \in [Procs -> Compilers]
      BY DEF CacheIInv
<1>2. proc'[p] = c /\ proc' \in [Procs -> Compilers] /\ \A q \in Procs : q # p => proc'[q] = proc[q]
      BY <1>1
<1>3. FillOK(proc[p])' /\ UseOK(proc[p])'
      BY <1>2
<1> QED BY <1>2, <1>3, EntryStep

\* A compiler that keeps what it fills and uses, across the change of an entry.
LEMMA SteadyKeeps ==
  ASSUME Cache!EntriesApart, CacheIInv, UNCHANGED cleaned, NEW e \in Cache!Entries, NEW s \in Stored(e),
         disk' = [disk EXCEPT ![e] = s],
         \A u \in Cache!Units(e) : s.obj[u] \in {disk[e].obj[u], "mine"}
  PROVE  /\ \A x \in Cache!Entries : x # e => disk'[x] = disk[x]
         /\ disk'[e] = s
         /\ \A x \in Cache!Entries : \A u \in Cache!Units(x) : Good(x, u) => Good(x, u)'
         /\ \A x \in Cache!Entries : Sound(x) => Sound(x)'
<1>1. disk = [x \in Cache!Entries |-> disk[x]] /\ \A x \in Cache!Entries : disk[x] \in Stored(x)
      BY DEF CacheIInv
<1>2. disk'[e] = s /\ \A x \in Cache!Entries : x # e => disk'[x] = disk[x]
      BY <1>1
<1>3. \A x \in Cache!Entries : \A u \in Cache!Units(x) : Good(x, u) => Good(x, u)'
      BY <1>2 DEF Good
<1> QED BY <1>2, <1>3 DEF Sound


\* What the compiler records: the fields of c are those of proc[p], but for
\* its place and the units it has left to move.
Same(c, p) ==
  /\ c.ent = proc[p].ent /\ c.prog = proc[p].prog /\ c.runtime = proc[p].runtime
  /\ c.beside = proc[p].beside /\ c.built = proc[p].built /\ c.ran = proc[p].ran

\* A compiler p that fills entry e becomes c, and the entry s.
Filling(p, c, e, s) ==
  /\ proc[p].pc \in {"empty", "move"} /\ proc[p].ent = e
  /\ s.key \in {"empty", disk[e].key} /\ s.key # "other"
  /\ Same(c, p) /\ c.pc \in {"move", "key"} /\ (c.pc = "key" => c.left = {})
  /\ c.left \subseteq Cache!Units(e)
  /\ \A u \in Cache!Units(e) \ c.left : s.obj[u] = "mine" \/ Good(e, u)

\* A write to an entry whose objects stay or become the right ones.
LEMMA FillingKeeps ==
  ASSUME Cache!EntriesApart, CacheIInv, NEW p \in Procs, NEW c \in Compilers,
         NEW e \in Cache!Entries, NEW s \in Stored(e),
         disk' = [disk EXCEPT ![e] = s], UNCHANGED cleaned, proc' = [proc EXCEPT ![p] = c],
         \A u \in Cache!Units(e) : s.obj[u] \in {disk[e].obj[u], "mine"},
         Filling(p, c, e, s)
  PROVE  CacheIInv'
<1>1. proc[p] \in Compilers /\ FillOK(proc[p]) /\ UseOK(proc[p]) /\ cleaned \in BOOLEAN
      BY DEF CacheIInv
<1>2. /\ disk'[e] = s
      /\ \A x \in Cache!Entries : \A u \in Cache!Units(x) : Good(x, u) => Good(x, u)'
      /\ \A x \in Cache!Entries : Sound(x) => Sound(x)'
      BY SteadyKeeps
<1>3. \A u \in Cache!Units(e) \ c.left : Good(e, u)'
      BY <1>2 DEF Good, Filling
<1>4. FillOK(c)'
  <2>1. /\ c.left \subseteq Cache!Units(c.ent) /\ (c.ent # "rt" => c.built = "mine")
        /\ (c.ent = "mod" => c.beside = "mine") /\ c.ent \in {"rt", "mod", c.prog}
        BY <1>1 DEF FillOK, Same, Filling
  <2>2. disk'[c.ent].key # "other" /\ \A u \in Cache!Units(c.ent) \ c.left : Good(c.ent, u)'
        BY <1>2, <1>3 DEF Same, Filling
  <2> QED BY <2>1, <2>2 DEF FillOK, Filling
<1>5. UseOK(c)'
  <2>1. c.prog \in Cache!Entries /\ "rt" \in Cache!Entries
        BY Names DEF Compilers
  <2> QED BY <1>1, <1>2, <2>1 DEF UseOK, Same, Filling
<1>6. s.key = "mine" => Sound(e)'
  <2>1. disk[e].key = "mine" => Sound(e)
        BY DEF CacheIInv, EntryInv
  <2> QED BY <1>2, <2>1 DEF Filling
<1>7. (FillOK(c) /\ UseOK(c))'
      BY <1>4, <1>5
<1>8. /\ s.key # "other" /\ (disk[e].key # "other" => s.key # "other")
      /\ s.key = "other" => s.obj = disk[e].obj /\ disk[e].key = "other"
      BY DEF Filling
<1> QED BY <1>6, <1>7, <1>8, PutEntryKeeps

\* An entry to be filled loses its key first.
LEMMA EmptyKeyKeeps ==
  ASSUME Cache!EntriesApart, CacheIInv, NEW p \in Procs, Cache!EmptyKey(p)
  PROVE  CacheIInv'
<1>1. proc[p] \in Compilers /\ FillOK(proc[p]) /\ proc[p].pc = "empty"
      BY DEF CacheIInv, Cache!EmptyKey, Cache!At
<1>2. PICK e \in Cache!Entries : e = proc[p].ent
      BY <1>1 DEF Compilers
<1>3. disk[e] \in Stored(e)
      BY DEF CacheIInv
<1>4. PICK s \in Stored(e) : s = [disk[e] EXCEPT !.key = "empty"]
      BY <1>3 DEF Stored
<1>5. PICK c \in Compilers : c = [proc[p] EXCEPT !.pc = "move"]
      BY <1>1 DEF Compilers, Labels
<1>6. s.key = "empty" /\ s.obj = disk[e].obj
      BY <1>3, <1>4 DEF Stored
<1>7. disk' = [disk EXCEPT ![e] = s] /\ proc' = [proc EXCEPT ![p] = c] /\ UNCHANGED cleaned
      BY <1>2, <1>4, <1>5 DEF Cache!EmptyKey, Cache!Emptied, Cache!Goto
<1>8. Same(c, p) /\ c.pc = "move" /\ c.left = Cache!Units(e)
      BY <1>1, <1>2, <1>5 DEF Same, FillOK, Compilers
<1>9. Filling(p, c, e, s)
      BY <1>1, <1>2, <1>6, <1>8 DEF Filling
<1> QED BY <1>6, <1>7, <1>9, FillingKeeps

\* An object that is moved into an entry is the right one.
LEMMA MoveKeeps ==
  ASSUME Cache!EntriesApart, CacheIInv, NEW p \in Procs, NEW u \in proc[p].left, Cache!Move(p, u)
  PROVE  CacheIInv'
<1>1. proc[p] \in Compilers /\ FillOK(proc[p]) /\ proc[p].pc = "move"
      BY DEF CacheIInv, Cache!Move, Cache!At
<1>2. PICK e \in Cache!Entries : e = proc[p].ent
      BY <1>1 DEF Compilers
<1>3. disk[e] \in Stored(e) /\ u \in Cache!Units(e) /\ Cache!Product(p) = "mine"
      BY <1>1, <1>2 DEF CacheIInv, FillOK, Cache!Product
<1>4. PICK s \in Stored(e) : s = [disk[e] EXCEPT !.obj = [disk[e].obj EXCEPT ![u] = "mine"]]
      BY <1>3 DEF Stored, Cache!Contents
<1>5. PICK c \in Compilers : c = [proc[p] EXCEPT !.left = proc[p].left \ {u}]
      BY <1>1 DEF Compilers, Labels
<1>6. s.key = disk[e].key /\ s.obj[u] = "mine" /\ \A v \in Cache!Units(e) : v # u => s.obj[v] = disk[e].obj[v]
      BY <1>3, <1>4 DEF Stored
<1>7. disk' = [disk EXCEPT ![e] = s] /\ proc' = [proc EXCEPT ![p] = c] /\ UNCHANGED cleaned
      BY <1>2, <1>3, <1>4, <1>5 DEF Cache!Move
<1>8. Same(c, p) /\ c.pc = "move" /\ c.left = proc[p].left \ {u}
      BY <1>1, <1>5 DEF Same, Compilers
<1>9. /\ disk[e].key # "other" /\ proc[p].left \subseteq Cache!Units(e)
      /\ \A v \in Cache!Units(e) \ proc[p].left : Good(e, v)
      BY <1>1, <1>2 DEF FillOK
<1>10. \A v \in Cache!Units(e) \ c.left : s.obj[v] = "mine" \/ Good(e, v)
      BY <1>6, <1>8, <1>9
<1>11. \A v \in Cache!Units(e) : s.obj[v] \in {disk[e].obj[v], "mine"}
      BY <1>6
<1>12. Filling(p, c, e, s)
      BY <1>1, <1>2, <1>6, <1>8, <1>9, <1>10 DEF Filling
<1> QED BY <1>7, <1>11, <1>12, FillingKeeps

\* A key that is being written is no key yet (writeFileSync).
LEMMA TruncateKeyKeeps ==
  ASSUME Cache!EntriesApart, CacheIInv, NEW p \in Procs, Cache!TruncateKey(p)
  PROVE  CacheIInv'
<1>1. proc[p] \in Compilers /\ FillOK(proc[p]) /\ proc[p].pc = "move" /\ proc[p].left = {}
      BY DEF CacheIInv, Cache!TruncateKey, Cache!At, Cache!AllMoved
<1>2. PICK e \in Cache!Entries : e = proc[p].ent
      BY <1>1 DEF Compilers
<1>3. disk[e] \in Stored(e)
      BY DEF CacheIInv
<1>4. PICK s \in Stored(e) : s = [disk[e] EXCEPT !.key = "empty"]
      BY <1>3 DEF Stored
<1>5. PICK c \in Compilers : c = [proc[p] EXCEPT !.pc = "key"]
      BY <1>1 DEF Compilers, Labels
<1>6. s.key = "empty" /\ s.obj = disk[e].obj
      BY <1>3, <1>4 DEF Stored
<1>7. disk' = [disk EXCEPT ![e] = s] /\ proc' = [proc EXCEPT ![p] = c] /\ UNCHANGED cleaned
      BY <1>2, <1>4, <1>5 DEF Cache!TruncateKey, Cache!Goto
<1>8. Same(c, p) /\ c.pc = "key" /\ c.left = {}
      BY <1>1, <1>5 DEF Same, Compilers
<1>9. \A v \in Cache!Units(e) \ c.left : Good(e, v)
      BY <1>1, <1>2, <1>8 DEF FillOK
<1>10. Filling(p, c, e, s)
      BY <1>1, <1>2, <1>6, <1>8, <1>9 DEF Filling
<1> QED BY <1>6, <1>7, <1>10, FillingKeeps

\* The key is written when every object was moved.
LEMMA WriteKeyKeeps ==
  ASSUME Cache!EntriesApart, CacheIInv, NEW p \in Procs, Cache!WriteKey(p)
  PROVE  CacheIInv'
<1>1. proc[p] \in Compilers /\ FillOK(proc[p]) /\ proc[p].pc = "key" /\ proc[p].left = {}
      BY DEF CacheIInv, Cache!WriteKey, Cache!At, FillOK
<1>2. PICK e \in Cache!Entries : e = proc[p].ent
      BY <1>1 DEF Compilers
<1>3. disk[e] \in Stored(e)
      BY DEF CacheIInv
<1>4. PICK s \in Stored(e) : s = [disk[e] EXCEPT !.key = "mine"]
      BY <1>3 DEF Stored
<1>5. s.key = "mine" /\ s.obj = disk[e].obj
      BY <1>3, <1>4 DEF Stored
<1>6. \A v \in Cache!Units(e) : Good(e, v)
      BY <1>1, <1>2 DEF FillOK
<1>7. PICK c \in Compilers : c = Cache!Filled(p, TRUE) /\ FillOK(c) /\ UseOK(c)
      BY <1>1, <1>2, <1>6, FilledSound
<1>8. disk' = [disk EXCEPT ![e] = s] /\ proc' = [proc EXCEPT ![p] = c] /\ UNCHANGED cleaned
      BY <1>2, <1>4, <1>7 DEF Cache!WriteKey, Cache!Kept
<1>9. /\ disk'[e] = s
      /\ \A x \in Cache!Entries : \A u \in Cache!Units(x) : Good(x, u) => Good(x, u)'
      /\ \A x \in Cache!Entries : Sound(x) => Sound(x)'
      BY <1>5, <1>8, SteadyKeeps
<1>10. c.pc \notin {"move", "key"}
      BY <1>1, <1>7 DEF Cache!Filled, Cache!Fill, Compilers
<1>11. c.prog \in Cache!Entries /\ "rt" \in Cache!Entries /\ "mod" \in Cache!Entries
      BY Names DEF Compilers
<1>12. UseOK(c)'
      BY <1>7, <1>8, <1>9, <1>11 DEF UseOK
<1>13. FillOK(c)'
      BY <1>7, <1>10 DEF FillOK
<1>14. Sound(e)'
      BY <1>6, <1>9 DEF Sound
<1>15. (FillOK(c) /\ UseOK(c))'
      BY <1>12, <1>13
<1> QED BY <1>5, <1>8, <1>14, <1>15, PutEntryKeeps

\* A copy that fails takes the key away, and the object is compiled again.
LEMMA CopyFailsKeeps ==
  ASSUME Cache!EntriesApart, CacheIInv, NEW p \in Procs, Cache!CopyFails(p)
  PROVE  CacheIInv'
<1>1. proc[p] \in Compilers /\ FillOK(proc[p]) /\ UseOK(proc[p]) /\ cleaned \in BOOLEAN
      BY DEF CacheIInv
<1>2. "mod" \in Cache!Entries /\ disk["mod"] \in Stored("mod")
      BY Names DEF CacheIInv
<1>3. PICK s \in Stored("mod") : s = [disk["mod"] EXCEPT !.key = "empty"]
      BY <1>2 DEF Stored
<1>4. s.key = "empty" /\ s.obj = disk["mod"].obj
      BY <1>2, <1>3 DEF Stored
<1>5. PICK c \in Compilers : c = [proc[p] EXCEPT !.beside = "none", !.pc = "link"]
      BY <1>1 DEF Compilers, Labels, Cache!Contents
<1>6. disk' = [disk EXCEPT !["mod"] = s] /\ proc' = [proc EXCEPT ![p] = c] /\ UNCHANGED cleaned
      BY <1>3, <1>5 DEF Cache!CopyFails, Cache!Leftover
<1>7. \A x \in Cache!Entries : Sound(x) => Sound(x)'
      BY <1>2, <1>4, <1>6, SteadyKeeps
<1>8. FillOK(c)'
      BY <1>1, <1>5 DEF FillOK, Compilers
<1>9. UseOK(c)'
  <2>1. c.pc = "link" /\ c.runtime = proc[p].runtime /\ c.beside = "none" /\ c.built = proc[p].built
        /\ c.ran = proc[p].ran /\ "rt" \in Cache!Entries
        BY <1>1, <1>5, Names DEF Compilers
  <2> QED BY <1>1, <1>6, <1>7, <2>1 DEF UseOK
<1>10. (FillOK(c) /\ UseOK(c))'
      BY <1>8, <1>9
<1> QED BY <1>2, <1>4, <1>6, <1>10, PutEntryKeeps

\* A cleaner is always to blame from here on.
LEMMA CleanKeeps ==
  ASSUME Cache!EntriesApart, CacheIInv, NEW e \in Cache!Entries, NEW u \in Cache!Units(e), Cache!Clean(e, u)
  PROVE  CacheIInv'
<1>1. disk = [x \in Cache!Entries |-> disk[x]] /\ \A x \in Cache!Entries : disk[x] \in Stored(x)
      BY DEF CacheIInv
<1>2. PICK s \in Stored(e) : s = [disk[e] EXCEPT !.obj = [disk[e].obj EXCEPT ![u] = "none"]]
      BY <1>1 DEF Stored, Cache!Contents
<1>3. s.key = disk[e].key /\ s.obj[u] = "none" /\ \A v \in Cache!Units(e) : v # u => s.obj[v] = disk[e].obj[v]
      BY <1>1, <1>2 DEF Stored
<1>4. disk' = [disk EXCEPT ![e] = s] /\ cleaned' = TRUE /\ proc' = proc
      BY <1>2 DEF Cache!Clean
<1>5. /\ disk'[e] = s /\ \A x \in Cache!Entries : x # e => disk'[x] = disk[x]
      /\ disk' = [x \in Cache!Entries |-> disk'[x]] /\ \A x \in Cache!Entries : disk'[x] \in Stored(x)
      BY <1>1, <1>4
<1>6. Steady /\ cleaned' \in BOOLEAN
  <2>1. \A x \in Cache!Entries : \A v \in Cache!Units(x) :
          disk'[x].obj[v] \in {disk[x].obj[v], "mine"} \/ disk'[x].obj[v] = "none"
        BY <1>3, <1>5
  <2> QED BY <1>3, <1>4, <1>5, <2>1 DEF Steady
<1>7. \A q \in Procs : FillOK(proc[q])' /\ UseOK(proc[q])'
      BY <1>4, <1>6, OthersKeep
<1>8. EntryInv'
  <2> SUFFICES ASSUME NEW x \in Cache!Entries
               PROVE  /\ disk'[x].key = "mine" => Sound(x)'
                      /\ disk'[x].key = "other" => \A v \in Cache!Units(x) : disk'[x].obj[v] \in {"other", "none"}
      BY DEF EntryInv
  <2>1. disk'[x].key = disk[x].key
        BY <1>3, <1>5
  <2>2. disk'[x].key = "mine" => Sound(x)'
        BY <1>6, <2>1, GoodStays DEF CacheIInv, EntryInv, Sound
  <2>3. disk'[x].key = "other" => \A v \in Cache!Units(x) : disk'[x].obj[v] \in {"other", "none"}
        BY <1>3, <1>5, <2>1 DEF CacheIInv, EntryInv
  <2> QED BY <2>2, <2>3
<1> QED BY <1>4, <1>5, <1>6, <1>7, <1>8 DEF CacheIInv

\* A step that changes nothing keeps the invariant.
LEMMA CacheStutterKeeps ==
  ASSUME CacheIInv, UNCHANGED Cache!vars
  PROVE  CacheIInv'
<1>1. disk' = disk /\ proc' = proc /\ cleaned' = cleaned
      BY DEF Cache!vars
<1>2. EntryInv'
      BY <1>1 DEF CacheIInv, EntryInv, Sound, Good
<1>3. ASSUME NEW p \in Procs PROVE FillOK(proc[p])' /\ UseOK(proc[p])'
      BY <1>1 DEF CacheIInv, FillOK, UseOK, Sound, Good
<1> QED BY <1>1, <1>2, <1>3 DEF CacheIInv

\* Every step keeps the invariant.
LEMMA CacheStepKeeps ==
  ASSUME Cache!EntriesApart, CacheIInv, [Cache!Next]_(Cache!vars)
  PROVE  CacheIInv'
<1>1. ASSUME NEW p \in Procs, Cache!Fail(p) PROVE CacheIInv'
      BY <1>1, GotoElsewhere DEF Cache!Fail, Elsewhere
<1>2. ASSUME NEW p \in Procs, Cache!NoRuntimeCache(p) PROVE CacheIInv'
      BY <1>2, GotoElsewhere DEF Cache!NoRuntimeCache, Elsewhere
<1>3. CASE Cache!Next
  <2>1. CASE \E p \in Procs :
          \/ Cache!LookBinary(p) \/ Cache!Fail(p) \/ Cache!NoRuntimeCache(p) \/ Cache!LookRuntime(p) \/ Cache!CompileRuntime(p)
          \/ Cache!EmptyKey(p) \/ Cache!MoveFails(p) \/ Cache!TruncateKey(p) \/ Cache!WriteKey(p)
        BY <1>1, <1>2, <2>1, LookBinaryKeeps, LookRuntimeKeeps, CompileRuntimeKeeps, EmptyKeyKeeps,
           MoveFailsKeeps, TruncateKeyKeeps, WriteKeyKeeps
  <2>2. CASE \E p \in Procs : \E u \in proc[p].left : Cache!Move(p, u)
        BY <2>2, MoveKeeps
  <2>3. CASE \E p \in Procs :
          Cache!Stage(p) \/ Cache!Copy(p) \/ Cache!CopyFails(p) \/ Cache!Link(p) \/ Cache!LinkFails(p) \/ Cache!Exec(p)
        BY <2>3, StageKeeps, CopyKeeps, CopyFailsKeeps, LinkKeeps, LinkFailsKeeps, ExecKeeps
  <2>4. CASE \E p \in Procs : \E prog \in Programs : Cache!Again(p, prog)
        BY <2>4, AgainKeeps
  <2>5. CASE \E e \in Cache!Entries : \E u \in Cache!Units(e) : Cache!Clean(e, u)
        BY <2>5, CleanKeeps
  <2> QED BY <1>3, <2>1, <2>2, <2>3, <2>4, <2>5 DEF Cache!Next
<1> QED BY <1>3, CacheStutterKeeps

\* The invariant is what is promised.
LEMMA SoundNow ==
  ASSUME Cache!EntriesApart, CacheIInv
  PROVE  Cache!CacheSound
<1>1. Cache!TypeOK
      BY DEF CacheIInv, Cache!TypeOK, Compilers, Labels, Stored
<1>2. Cache!KeyMatchesObjects
  <2> SUFFICES ASSUME NEW e \in Cache!Entries, disk[e].key # "empty", NEW u \in Cache!Units(e)
               PROVE  disk[e].obj[u] \in {disk[e].key, "none"}
      BY DEF Cache!KeyMatchesObjects
  <2>1. disk[e] \in Stored(e)
        BY DEF CacheIInv
  <2>2. disk[e].key \in {"mine", "other"} /\ disk[e].obj[u] \in Cache!Contents
        BY <2>1 DEF Stored
  <2>3. disk[e].key = "mine" => disk[e].obj[u] # "other"
        BY DEF CacheIInv, EntryInv, Sound, Good
  <2>4. disk[e].key = "other" => disk[e].obj[u] \in {"other", "none"}
        BY DEF CacheIInv, EntryInv
  <2> QED BY <2>2, <2>3, <2>4 DEF Cache!Contents
<1>3. Cache!RunsItself
  <2> SUFFICES ASSUME NEW p \in Procs
               PROVE  proc[p].ran \in {"mine", "none"} /\ proc[p].built \in {"mine", "none"}
      BY DEF Cache!RunsItself
  <2>1. proc[p] \in Compilers /\ UseOK(proc[p])
        BY DEF CacheIInv
  <2>2. proc[p].ran \in Cache!Contents /\ proc[p].built \in Cache!Contents
        BY <2>1 DEF Compilers
  <2> QED BY <2>1, <2>2 DEF UseOK, Cache!Contents
<1>4. Cache!NeverMissing
      BY DEF Cache!NeverMissing, CacheIInv, UseOK
<1> QED BY <1>1, <1>2, <1>3, <1>4 DEF Cache!CacheSound

\* The caches of the run: their invariant while that part moves.
CachePart == part = "cache" => CacheIInv

\* Whatever compilers run at once or are killed, and whatever a cleaner takes,
\* for any compilers, programs and units of the runtime: a key stands beside
\* its own objects, what is run was linked from its own objects only, and no
\* object is missing unless a cleaner took one (cachedEntry, keepModules,
\* buildIntoCache, linkProgram).
THEOREM CacheIsSound == ReuseSpec => []CacheSound
<1>1. ReuseInit => CachePart
      BY InitCache, CacheAssumption DEF ReuseInit, CachePart
<1>2. ASSUME CachePart, [ReuseNext]_allVars PROVE CachePart'
  <2>1. part' = part /\ (part = "cache" => [Cache!Next]_(Cache!vars))
        BY <1>2 DEF ReuseNext, allVars, cacheVars, Cache!vars
  <2>2. CASE part # "cache"
        BY <2>1, <2>2 DEF CachePart
  <2>3. CASE part = "cache"
    <3>1. CacheIInv'
          BY <1>2, <2>1, <2>3, CacheStepKeeps, CacheAssumption DEF CachePart
    <3> QED BY <3>1 DEF CachePart
  <2> QED BY <2>2, <2>3
<1>3. CachePart => CacheSound
      BY SoundNow, CacheAssumption DEF CachePart, CacheSound
<1> QED BY <1>1, <1>2, <1>3, PTL DEF ReuseSpec
=============================================================================
