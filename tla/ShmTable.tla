------------------------------ MODULE ShmTable ------------------------------
(***************************************************************************)
(* The shared-memory regions of runtime/runtime-shm.c: a name in           *)
(* /dev/shm that threads of several processes create, open and unlink, the *)
(* table of mappings each thread keeps, whose handles carry a generation,  *)
(* and the windows a mapping lends to the program.                         *)
(*                                                                         *)
(* Only the system calls of create and open are shared between threads and *)
(* are steps of their own; the rest of a call touches one thread's table.  *)
(* A call that panics ends the process and is not a step.  A process dies  *)
(* at any step, and another starts in its place with an empty table.       *)
(***************************************************************************)
EXTENDS Integers, FiniteSets, FiniteSetsExt

CONSTANTS
  Threads,     \* each of a process of its own
  Slots,       \* NISHSHM_SLOTS - 1: slot 0 is never used
  GenMax,      \* NISHSHM_GEN_MAX, the generation that retires a slot
  Windows,     \* the headers lend makes
  MaxObjects,  \* bound: the objects created
  MaxMaps      \* bound: the mappings made

ASSUME SlotsAssumption == Slots \in Nat \ {0}
ASSUME GenAssumption == GenMax \in Nat /\ GenMax > 1
ASSUME BoundsAssumption == MaxObjects \in Nat /\ MaxMaps \in Nat

Index == 1..Slots
Handles == (1..GenMax) \X Index   \* generation and slot
None == 0

VARIABLES
  name,      \* the object the name is linked to, or None
  sized,     \* the objects whose size is set; 1..objects are all of them
  objects,
  call,      \* the create or open under way in each thread
  table,     \* nishshm_table: gen and base of each slot, base the mapping's number
  maps,      \* how many mappings were made
  issued,    \* ghost: each handle handed out, with its thread, mapping and object
  win        \* a header: the mapping that lent it, where its data is, whether lent

vars == <<name, sized, objects, call, table, maps, issued, win>>

Idle == [at |-> "idle", obj |-> None]
NewTable == [i \in Index |-> [gen |-> 0, base |-> None]]
NoWindow == [map |-> None, listed |-> FALSE, data |-> "none", lent |-> FALSE]

Init ==
  /\ name = None /\ sized = {} /\ objects = 0
  /\ call = [t \in Threads |-> Idle]
  /\ table = [t \in Threads |-> NewTable]
  /\ maps = 0 /\ issued = {}
  /\ win = [t \in Threads |-> [w \in Windows |-> NoWindow]]

SetCall(t, at, obj) == call' = [call EXCEPT ![t] = [at |-> at, obj |-> obj]]
-----------------------------------------------------------------------------
\* nishshm_create: open with O_CREAT and O_EXCL; a taken name changes nothing.
CreateName(t) ==
  /\ call[t].at = "idle" /\ name = None /\ objects < MaxObjects
  /\ objects' = objects + 1
  /\ name' = objects + 1
  /\ SetCall(t, "made", objects + 1)
  /\ UNCHANGED <<sized, table, maps, issued, win>>

\* ftruncate, or its failure, after which the path is unlinked.
CreateSize(t) ==
  /\ call[t].at = "made"
  /\ \/ /\ sized' = sized \cup {call[t].obj}
        /\ SetCall(t, "adopt", call[t].obj)
        /\ UNCHANGED name
     \/ /\ name' = None
        /\ SetCall(t, "idle", None)
        /\ UNCHANGED sized
  /\ UNCHANGED <<objects, table, maps, issued, win>>

\* nishshm_open: the descriptor, whatever becomes of the name.
OpenName(t) ==
  /\ call[t].at = "idle" /\ name # None
  /\ SetCall(t, "opened", name)
  /\ UNCHANGED <<name, sized, objects, table, maps, issued, win>>

\* One link, and a size above 0.
Acceptable(obj) == name = obj /\ obj \in sized

\* fstat and the refusals.
OpenStat(t) ==
  /\ call[t].at = "opened"
  /\ IF Acceptable(call[t].obj)
     THEN SetCall(t, "adopt", call[t].obj)
     ELSE SetCall(t, "idle", None)
  /\ UNCHANGED <<name, sized, objects, table, maps, issued, win>>

Usable(t, i) == table[t][i].base = None /\ table[t][i].gen < GenMax

\* slot_take and adopt: the first usable slot, given a first generation even
\* when the mapping then fails.
Adopt(t) ==
  /\ call[t].at = "adopt" /\ maps < MaxMaps
  /\ SetCall(t, "idle", None)
  /\ IF \A i \in Index : ~Usable(t, i)
     THEN UNCHANGED <<table, maps, issued>>
     ELSE LET i == Min({j \in Index : Usable(t, j)})
              gen == IF table[t][i].gen = 0 THEN 1 ELSE table[t][i].gen
          IN  \/ /\ table' = [table EXCEPT ![t][i] = [gen |-> gen, base |-> maps + 1]]
                 /\ maps' = maps + 1
                 /\ issued' = issued \cup {[thread |-> t, handle |-> <<gen, i>>,
                                            map |-> maps + 1, obj |-> call[t].obj]}
              \/ /\ table' = [table EXCEPT ![t][i].gen = gen]
                 /\ UNCHANGED <<maps, issued>>
  /\ UNCHANGED <<name, sized, objects, win>>

\* nishshm_unlink.
Unlink(t) ==
  /\ call[t].at = "idle" /\ name # None
  /\ name' = None
  /\ UNCHANGED <<sized, objects, call, table, maps, issued, win>>
-----------------------------------------------------------------------------
\* region_of: the mapping a handle names in a thread, or None.
RegionOf(t, h) == IF table[t][h[2]].gen = h[1] THEN table[t][h[2]].base ELSE None

\* The header w is a record of the mapping (window_of).
WindowOf(t, map, w) == win[t][w].listed /\ win[t][w].map = map

\* nishshm_lend: a new header, or one this mapping lent and was given back.
Lend(t, h, w) ==
  LET map == RegionOf(t, h) IN
  /\ call[t].at = "idle" /\ map # None
  /\ \/ win[t][w] = NoWindow
     \/ WindowOf(t, map, w) /\ ~win[t][w].lent
  /\ win' = [win EXCEPT ![t][w] = [map |-> map, listed |-> TRUE, data |-> "region", lent |-> TRUE]]
  /\ UNCHANGED <<name, sized, objects, call, table, maps, issued>>

\* nishshm_give_back: a window still on the mapping.
GiveBack(t, h, w) ==
  LET map == RegionOf(t, h) IN
  /\ call[t].at = "idle" /\ map # None
  /\ WindowOf(t, map, w) /\ win[t][w].lent /\ win[t][w].data = "region"
  /\ win' = [win EXCEPT ![t][w].data = "none", ![t][w].lent = FALSE]
  /\ UNCHANGED <<name, sized, objects, call, table, maps, issued>>

\* The program pushes to a header it holds: the data moves to its own memory.
Push(t, w) ==
  /\ call[t].at = "idle" /\ win[t][w] # NoWindow /\ win[t][w].data # "own"
  /\ win' = [win EXCEPT ![t][w].data = "own"]
  /\ UNCHANGED <<name, sized, objects, call, table, maps, issued>>

\* A window that close empties: on the mapping still.
Emptied(x) == x.data = "region" /\ x.lent

\* Mutant: closing leaves the generation.
NextGen_Same(gen) == gen

NextGen(gen) == gen + 1

\* nishshm_close: the windows, the mapping and the slot.
Close(t, h) ==
  LET map == RegionOf(t, h) IN
  /\ call[t].at = "idle" /\ map # None
  /\ win' = [win EXCEPT ![t] = [w \in Windows |->
       IF ~WindowOf(t, map, w) THEN win[t][w]
       ELSE [map |-> map, listed |-> FALSE, lent |-> FALSE,
             data |-> IF Emptied(win[t][w]) THEN "none" ELSE win[t][w].data]]]
  /\ table' = [table EXCEPT ![t][h[2]] = [gen |-> NextGen(@.gen), base |-> None]]
  /\ UNCHANGED <<name, sized, objects, call, maps, issued>>

\* The process of t ends anywhere, and another takes its place.
Restart(t) ==
  /\ call' = [call EXCEPT ![t] = Idle]
  /\ table' = [table EXCEPT ![t] = NewTable]
  /\ win' = [win EXCEPT ![t] = [w \in Windows |-> NoWindow]]
  /\ issued' = {x \in issued : x.thread # t}
  /\ UNCHANGED <<name, sized, objects, maps>>

Next ==
  \E t \in Threads :
    \/ CreateName(t) \/ CreateSize(t) \/ OpenName(t) \/ OpenStat(t) \/ Adopt(t)
    \/ Unlink(t) \/ Restart(t)
    \/ \E h \in Handles : Close(t, h)
    \/ \E h \in Handles, w \in Windows : Lend(t, h, w) \/ GiveBack(t, h, w)
    \/ \E w \in Windows : Push(t, w)

Spec == Init /\ [][Next]_vars
-----------------------------------------------------------------------------
TypeOK ==
  /\ name \in 0..objects /\ sized \subseteq 1..objects /\ objects \in 0..MaxObjects
  /\ call \in [Threads -> [at : {"idle", "made", "opened", "adopt"}, obj : 0..MaxObjects]]
  /\ table \in [Threads -> [Index -> [gen : 0..GenMax, base : 0..maps]]]
  /\ maps \in 0..MaxMaps
  /\ issued \subseteq [thread : Threads, handle : Handles, map : 1..maps, obj : 1..objects]
  /\ win \in [Threads -> [Windows -> [map : 0..maps, listed : BOOLEAN,
                                      data : {"none", "region", "own"}, lent : BOOLEAN]]]

\* A handle names the mapping it was handed out for or none at all, through
\* every reuse of its slot by the thread (region_of, slot_take, nishshm_close).
HandleNamesItsMapping ==
  \A x \in issued : RegionOf(x.thread, x.handle) \in {None, x.map}

Mapped(t) == {table[t][i].base : i \in Index} \ {None}

\* No array of the program points into a mapping that is gone, whatever was
\* lent, lent again, pushed to or closed before (nishshm_lend, nishshm_close).
NoDanglingWindow ==
  \A t \in Threads, w \in Windows :
    win[t][w].data = "region" => win[t][w].map \in Mapped(t)

\* A region is never mapped before its creator gave it its size, although its
\* name is there from the first system call on and its creator may die between
\* the two (nishshm_create, nishshm_open).
OnlyWholeRegions == \A x \in issued : x.obj \in sized

\* The handles of a table are sound: each names its own mapping, and no array
\* outlives the mapping it was lent (region_of, nishshm_lend, nishshm_close).
HandlesSound == TypeOK /\ HandleNamesItsMapping /\ NoDanglingWindow /\ OnlyWholeRegions
=============================================================================
