----------------------------- MODULE RegionTable -----------------------------
(***************************************************************************)
(* The regions of runtime/runtime-region.c: one table of slots a process,  *)
(* whose handles carry a generation, and arenas that are swapped with the  *)
(* thread's own while a region is entered.                                 *)
(*                                                                         *)
(* new and free change the table under its lock and are one step each.     *)
(* Every call first reads the slot's thread and generation with RELAXED    *)
(* loads and no lock: a load may answer any value stored since the reader  *)
(* last held the lock.  The two loads and the body are one step, since     *)
(* what a load may answer only grows until then and a slot that passes is  *)
(* changed by its own thread only.  A check that fails ends the process:   *)
(* the call is not a step.                                                 *)
(***************************************************************************)
EXTENDS Integers, Sequences

CONSTANTS
  Threads,
  Slots,     \* NISH_REGION_SLOTS
  GenEnd     \* NISH_REGION_GEN_END: the handle has room for 0..GenEnd - 1

Index == 0..Slots - 1
NoThread == 0
\* Threads are numbered from 1, and a handle has room for a generation.
TableSizes == Slots \in Nat \ {0} /\ GenEnd \in Nat /\ GenEnd >= 2 /\ NoThread \notin Threads

Null == <<>>

\* A handle: generation and index, the generation truncated to its bits.
HandleOf(gen, i) == <<gen % GenEnd, i>>
Handles == (0..GenEnd - 1) \X Index
Zero == <<0, 0>>

\* What a free slot keeps in outer: the next free slot's index + 1, or 0.
Link(n) == <<n>>
Links == {Link(n) : n \in 0..Slots}

\* Where a thread allocates outside every region.
Own(t) == <<t>>
Owns == {Own(t) : t \in Threads}

\* An arena: whose allocations its chunks hold, and whether it grows by a
\* region's chunk size (nish_region_chunk is not 0).
Arenas == [mem : SUBSET (Handles \cup Owns), chunk : BOOLEAN]

VARIABLES
  arena,     \* nish_arena and nish_region_chunk of each thread
  current,   \* nish_region_current of each thread
  slot,      \* arena (with its chunk size), outer, root and entered of each slot
  owners,    \* every value stored in a slot's thread, in order
  gens,      \* every value stored in a slot's gen, in order
  seen,      \* how much of owners and gens each thread has to see
  used,      \* nish_region_used
  freeList,  \* nish_region_free_list
  made       \* the handles handed out and not yet freed, with their threads

vars == <<arena, current, slot, owners, gens, seen, used, freeList, made>>

Init ==
  /\ arena = [t \in Threads |-> [mem |-> {}, chunk |-> FALSE]]
  /\ current = [t \in Threads |-> Zero]
  /\ slot = [i \in Index |->
       [arena |-> [mem |-> {}, chunk |-> FALSE], outer |-> Zero, root |-> Null, entered |-> FALSE]]
  /\ owners = [i \in Index |-> <<NoThread>>]
  /\ gens = [i \in Index |-> <<0>>]
  /\ seen = [t \in Threads |-> [i \in Index |-> <<1, 1>>]]
  /\ used = 0
  /\ freeList = 0
  /\ made = {}

Latest(log) == log[Len(log)]

\* Holding the lock, a thread sees every store made under it.
SeenUnderLock(t) ==
  seen' = [seen EXCEPT ![t] = [i \in Index |-> <<Len(owners'[i]), Len(gens'[i])>>]]

OwnersRead(t, i) == {owners[i][k] : k \in seen[t][i][1]..Len(owners[i])}
GensRead(t, i) == {gens[i][k] : k \in seen[t][i][2]..Len(gens[i])}

\* Mutant: the generation of a freed slot is not compared.
SlotOf_AnyGeneration(t, r) == r # Zero /\ t \in OwnersRead(t, r[2])

\* nish_region_slot_of: the handle passes the checks of thread t.
SlotOf(t, r) ==
  /\ r # Zero
  /\ t \in OwnersRead(t, r[2])
  /\ r[1] \in GensRead(t, r[2])

\* nish_region_new, when a slot is free or was never used.
New(t) ==
  \E i \in Index :
    /\ IF freeList # 0
       THEN /\ i = freeList - 1
            /\ freeList' = slot[i].outer[1]
            /\ UNCHANGED <<used, gens>>
       ELSE /\ i = used
            /\ used' = used + 1
            /\ gens' = [gens EXCEPT ![i] = Append(@, 1)]
            /\ UNCHANGED freeList
    /\ slot' = [slot EXCEPT ![i].arena.chunk = TRUE, ![i].outer = Zero]
    /\ owners' = [owners EXCEPT ![i] = Append(@, t)]
    /\ made' = made \cup {<<HandleOf(Latest(gens'[i]), i), t>>}
    /\ SeenUnderLock(t)
    /\ UNCHANGED <<arena, current>>

\* nish_region_enter: the arenas change places.
Enter(t, r) ==
  LET i == r[2] IN
  /\ SlotOf(t, r)
  /\ ~slot[i].entered
  /\ slot' = [slot EXCEPT ![i].entered = TRUE, ![i].outer = current[t], ![i].arena = arena[t]]
  /\ arena' = [arena EXCEPT ![t] = slot[i].arena]
  /\ current' = [current EXCEPT ![t] = r]
  /\ UNCHANGED <<owners, gens, seen, used, freeList, made>>

EnteredLast(t, r) == current[t] = r

\* nish_region_leave: the region entered last, with a root that is memory of it.
Leave(t, r) ==
  LET i == r[2] IN
  /\ SlotOf(t, r)
  /\ EnteredLast(t, r)
  /\ arena' = [arena EXCEPT ![t] = slot[i].arena]
  /\ slot' = [slot EXCEPT ![i].entered = FALSE, ![i].arena = arena[t], ![i].root = r]
  /\ current' = [current EXCEPT ![t] = slot[i].outer]
  /\ UNCHANGED <<owners, gens, seen, used, freeList, made>>

\* The slot goes on the free list unless its generations are used up.
Retired(gen) == gen >= GenEnd

FreedRoot(i) == Null

\* nish_region_free: the chunks go, the generation moves on.
Free(t, r) ==
  LET i == r[2]
      gen == Latest(gens[i]) + 1
  IN  /\ SlotOf(t, r)
      /\ ~slot[i].entered
      /\ owners' = [owners EXCEPT ![i] = Append(@, NoThread)]
      /\ gens' = [gens EXCEPT ![i] = Append(@, gen)]
      /\ slot' = [slot EXCEPT ![i].arena.mem = {}, ![i].root = FreedRoot(i),
                              ![i].outer = IF Retired(gen) THEN @ ELSE Link(freeList)]
      /\ freeList' = IF Retired(gen) THEN freeList ELSE i + 1
      /\ made' = {m \in made : m[1] # r}
      /\ SeenUnderLock(t)
      /\ UNCHANGED <<arena, current, used>>

\* nish_arena_grow and the inlined bump: the program allocates where it stands.
Alloc(t) ==
  /\ arena' = [arena EXCEPT ![t].mem = @ \cup {IF current[t] = Zero THEN Own(t) ELSE current[t]}]
  /\ UNCHANGED <<current, slot, owners, gens, seen, used, freeList, made>>

Next ==
  \E t \in Threads :
    \/ New(t)
    \/ Alloc(t)
    \/ \E r \in Handles : Enter(t, r) \/ Leave(t, r) \/ Free(t, r)

Spec == Init /\ [][Next]_vars
-----------------------------------------------------------------------------
TypeOK ==
  /\ arena \in [Threads -> Arenas]
  /\ current \in [Threads -> Handles]
  /\ slot \in [Index -> [arena : Arenas, outer : Handles \cup Links,
                         root : Handles \cup {Null}, entered : BOOLEAN]]
  /\ owners \in [Index -> Seq(Threads \cup {NoThread})]
  /\ gens \in [Index -> Seq(0..GenEnd)]
  /\ seen \in [Threads -> [Index -> Nat \X Nat]]
  /\ used \in 0..Slots
  /\ freeList \in 0..Slots
  /\ made \subseteq Handles \X Threads

\* A handle that passes the checks of a thread, whatever its relaxed loads
\* answer, names a region this thread made and nobody freed (nish_region_slot_of).
StaleRefused == \A t \in Threads, r \in Handles : SlotOf(t, r) => <<r, t>> \in made

\* The maker's checks never refuse a region that is not freed, in any order of
\* reuse of slots by other threads (nish_region_slot_of, nish_region_free).
LiveUsable ==
  \A m \in made :
    /\ m[1] # Zero
    /\ OwnersRead(m[2], m[1][2]) = {m[2]}
    /\ GensRead(m[2], m[1][2]) = {m[1][1]}

\* Where a region's memory is: in its slot, or with the thread that entered it
\* last, or in the slot of the region entered inside it.
Holder(t) == IF current[t] = Zero THEN Own(t) ELSE current[t]
Displaced(i, t) ==    \* what was entered before the entered slot i
  IF slot[i].outer = Zero THEN Own(t) ELSE slot[i].outer

\* Allocations of a region are in its own arena and in no other, however the
\* regions are nested, left and freed: freeing a region frees nothing else
\* (nish_region_swap, nish_region_enter, nish_region_leave).
RightArena ==
  /\ \A t \in Threads :
       arena[t].mem \subseteq {Holder(t)} /\ arena[t].chunk = (current[t] # Zero)
  /\ \A m \in made :
       LET s == slot[m[1][2]] IN
       IF s.entered
       THEN /\ s.arena.mem \subseteq {Displaced(m[1][2], m[2])}
            /\ s.arena.chunk = (s.outer # Zero)
       ELSE s.arena.mem \subseteq {m[1]} /\ s.arena.chunk

\* A region is entered with the root its own last leave recorded, or with none
\* when it is new: never with one of the region that had the slot before.
RootOwn == \A m \in made : slot[m[1][2]].root \in {Null, m[1]}

\* Regions are kept apart.
RegionsApart == TypeOK /\ StaleRefused /\ LiveUsable /\ RightArena /\ RootOwn
=============================================================================
