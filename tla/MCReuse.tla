------------------------------- MODULE MCReuse -------------------------------
(***************************************************************************)
(* What is kept to be used again, for TLC: the runtime's two tables of     *)
(* handles, the calls and connections of a pool to an origin, the lookups  *)
(* of a resolver, and the entries of the compiler's caches.  The models    *)
(* share no variable, so what holds of one with the others at rest holds   *)
(* of it in every interleaving with them: a behaviour moves one part.      *)
(***************************************************************************)
EXTENDS ShmTable, TLC

CONSTANTS
  RegionThreads, RegionSlots, GenEnd,   \* of the memory regions
  Lookups, ServerCount, Attempts, MaxHops, Candidates,   \* of the resolver
  CallSlots, Conns, MaxCalls, MaxInbox,   \* of the pool to an origin
  Procs, Programs, RuntimeUnits         \* of the build caches: the compilers, and what they use

VARIABLE part
\* RegionTable
VARIABLES arena, current, slot, owners, gens, seen, used, freeList, made
\* Upstream
VARIABLES pool, pc, at, late
\* DnsResolver
VARIABLES query, look, fd, pumping
\* BuildCache
VARIABLES disk, proc, cleaned

regionVars == <<arena, current, slot, owners, gens, seen, used, freeList, made>>
callVars == <<pool, pc, at, late>>
lookupVars == <<query, look, fd, pumping>>
cacheVars == <<disk, proc, cleaned>>
allVars == <<part, vars, regionVars, callVars, lookupVars, cacheVars>>

Regions == INSTANCE RegionTable WITH Threads <- RegionThreads, Slots <- RegionSlots
Calls == INSTANCE Upstream WITH Slots <- CallSlots
Dns == INSTANCE DnsResolver
Cache == INSTANCE BuildCache

ASSUME TableAssumption == Regions!TableSizes
ASSUME PoolAssumption == Calls!PoolSizes
ASSUME DnsAssumption == Dns!DnsSizes
ASSUME CacheAssumption == Cache!EntriesApart

ReuseInit ==
  /\ part \in {"shm", "regions", "calls", "lookups", "cache"}
  /\ Init /\ Regions!Init /\ Calls!Init /\ Dns!Init /\ Cache!Init
  /\ part # "cache" => \A e \in Cache!Entries : disk[e].key = "empty"

ReuseNext ==
  /\ part' = part
  /\ \/ part = "shm" /\ Next /\ UNCHANGED <<regionVars, callVars, lookupVars, cacheVars>>
     \/ part = "regions" /\ Regions!Next /\ UNCHANGED <<vars, callVars, lookupVars, cacheVars>>
     \/ part = "calls" /\ Calls!Next /\ UNCHANGED <<vars, regionVars, lookupVars, cacheVars>>
     \/ part = "lookups" /\ Dns!Next /\ UNCHANGED <<vars, regionVars, callVars, cacheVars>>
     \/ part = "cache" /\ Cache!Next /\ UNCHANGED <<vars, regionVars, callVars, lookupVars>>

ReuseSpec == ReuseInit /\ [][ReuseNext]_allVars
Alike == Permutations(Procs)
-----------------------------------------------------------------------------
\* The table of memory regions never mixes two of them up: a stale handle is
\* refused, a live one accepted, and each allocation is in the arena of the
\* region it was made in (nish_region_slot_of, nish_region_swap).
RegionsApart == part = "regions" => Regions!RegionsApart

\* No call of an origin is lost or answered twice, and none is given another's
\* answer, unless bytes that nobody asked for had come on its connection while
\* that had a call (finish, end, dispatch, pump).
CallsKept == part = "calls" => Calls!CallsKept

\* "A late, malformed or extra response must not be read as the next call's":
\* a call on a reused connection is handed only what was sent for it (usable).
OnlyAsked == part = "calls" => Calls!OnlyAsked

\* A lookup that ends says what its questions found, and its sockets end with
\* it (dnsResolverDone, dnsResolverStop).
LookupSound == part = "lookups" => Dns!LookupSound

\* What is run was built from its own objects, whatever compilers were killed
\* or ran at once (cachedEntry, keepModules, linkProgram).
CacheSound == part = "cache" => Cache!CacheSound
=============================================================================
