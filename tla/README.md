# Verification of Nish's stateful core

Nish compiles a static subset of TypeScript ahead of time. Most of the
repository is a sequential compiler (`src/`) and a library of pure functions
(`std/`), where a test vector says more than a model. This project is about the
rest: the code in which processes or threads share memory, in which a table is
used again and again through handles that outlive their entries, and in which
peers, packets and timers arrive in orders that a test hardly reaches. Paths
below are relative to the repository.

## Inventory

| Part | State | Operations | What is hard | Module |
|---|---|---|---|---|
| MPSC ring (`std/sync/ring.ts` 691-977) | enqueue position, per-slot number, length and bytes, header position, sleep flag; each object's own position | tryPush, tryPop, popBatch, popWait, init, attach | lock-free interleavings, relaxed loads, deaths at any access, sleeping and waking | `MpscRing` |
| SPSC ring (213-689) | two positions, a ring of bytes; cached positions, the reservation, the lent window | tryPush, reserve, commit, abandon, tryPop, popBatch, peek, release, attach | stale caches, wrapping, padding, windows lent in place, deaths | `SpscRing` |
| Doorbell (167-210, 560-582, 871-893) | the sleep flag, the futex | publish, ringRing, popWait, ringSleep | store buffers, the look before the sleep | `Doorbell` |
| Worker pool, scopes, channels (`runtime/runtime-parallel.c`) | one queue, a count in each caller's frame, a channel per scope | spawn, join, drain, send, count, receive, disable | lost wake-ups, frames that are gone, receivers that block threads | `JobPool` |
| Parallel ranges (`runtime-parallel.c` 463-574) | base, remainder, pieces, the claim counter | parallel_range, claims, join | exact cover, integer edges | `ParallelRange` |
| Lock words (`runtime-parallel.c` 684-707, `src/emit-parallel.ts`) | one word, the data it guards | lock, `nish_mutex_wait`, release | stale loads, acquire and release | `LockWord` |
| Shared-memory regions (`runtime/runtime-shm.c`) | the name, a table of slots with generations per thread, windows | create, open, unlink, close, lend, give back | stale handles, deaths between system calls | `ShmTable` |
| Memory regions (`runtime/runtime-region.c`) | slots with generations, arenas swapped while entered | new, enter, leave, free | stale handles read without a lock, nesting | `RegionTable` |
| Prefork supervisor (`std/net/prefork.ts`) | worker slots, back-off, group restart | start, reap, restart, escalate, stop | deaths, signals and timers in any order | `Prefork` |
| Upstream pool (`std/net/upstream.ts`) | calls, kept-alive connections | get, take, release, turn | retries, deadlines, reused connections | `Upstream` |
| Resolver (`std/net/dns-resolver.ts`, `dns.ts`) | lookups, queries, sockets | start, receive, tick, cancel | rounds, truncation, slots used again | `DnsResolver` |
| Build caches (`src/compile.ts`, `src/run-cache.ts`) | entries: a key and objects | stage, keep, link, hit | compilers at once, kills half way | `BuildCache` |
| QUIC streams (`std/net/quic-stream.ts`) | two rings, resend range, credit, states | write, read, reset, stop, frames in and out, ack, loss | loss and reordering, short writes, credit that is lost | `QuicTransfer` |
| Stream buffers (`quic-stream.ts`, `buffer-pool.ts`) | the pool, the reserve, who holds what | take, give, lend, keep, drain, prime | sharing between connections, limits | `QuicBuffers` |
| QUIC recovery (`std/net/quic-recovery.ts`) | sent packets, timers, window, ECN test | send, ACK, timeout, discard, change of path | spurious loss, full rings, probes | `QuicRecovery` |
| QUIC connection IDs (`std/net/quic-conn-cid.ts`) | IDs given and IDs held, retirements owed | issue, announce, retire, prune | frames repeated and out of order | `QuicLocalIds`, `QuicPeerIds` |
| HTTP/3 server (`std/net/http3-server.ts`) | slots, ready ring, dirty stack, timer wheel; the index of IDs | accept, touch, ready, flush, tick, release, stop; find, insert, remove, refile | late ticks, slots used again, removal from a probed table | `Http3Pool`, `Http3CidIndex` |
| QUIC handshake, HTTP/2, TLS, WebSocket, PostgreSQL | per connection | frames in, frames out | mostly parsing and keys | no |
| Compiler, pure library code, system-call wrappers | - | - | sequential | no |

How they interact. A ring lives in a shared-memory region and uses it as checked
atomic memory with a futex; a push on a doorbell ring wakes the consumer through
it. A parallel range and a scope both become jobs of the one pool; a scope's
tasks meet only in its channel. An HTTP/3 server holds QUIC connections in its
slots, routes datagrams to them through its index, and lets them share the
stream buffers; a connection drives its streams, its recovery and its tables of
IDs. These last three share nothing but the packets that carry their frames,
whose loss and reordering each model has for itself.

## How the modules are laid out

Each component has a module with its state, one action per operation or step,
and its properties. Where a specification says in little what a component
promises, it is a module too: `RecordQueue` (a bounded first-in first-out queue
of whole records, which both rings implement) and `StreamPromise` (what a stream
promises the two programs at its ends, which `QuicTransfer` implements). The
proofs are in `*Proofs` modules; `RingLemmas` holds the facts about positions,
slots and split histories that the two rings share.

The `MC*` modules are the instances TLC checks. Several of them put components
side by side that share no variable. Such a module has a variable `part`, chosen
at the start, and a behaviour moves that part only, while the others stay in one
initial state. Since the parts have no variable in common, every behaviour of a
part alone is a behaviour of the whole, and what holds of a part while the
others rest holds of it in every interleaving with them; checking the product
would multiply the states and show nothing more.

An operator named `X_Something`, with a comment that begins "Mutant", is a
deliberate defect of `X`: replacing `X` by it makes the property it is listed
with in `PROJECT.json` fail. It is part of no specification.

## The modules

**MpscRing.** Variables are the header's words (`tail`, `headWord`, `sleep`), the
slots (`seq`, `slotLen`, `slotBody`), the locals of each `tryPush` and of the
consumer's call, and two histories, what was claimed and what was delivered.
Each load, store and compare-exchange of lines 746-893 is an action. `LoadTail`
is a RELAXED load: it may answer any value since the one the producer last saw.
Everything else is sequentially consistent in the model; for a slot's plain
bytes that is justified by the proof of `NoDataRace`, for the flag and the
number of a doorbell ring by the SEQ_CST accesses, which `Doorbell` examines on
a machine with store buffers. `Die` stops a producer for good at any step;
`Attach` is a consumer's death at any step and the constructor of its successor.
The payload is a name of the record; a record of length 0 has none.

**SpscRing.** Positions are bytes, memory is kept by 4-byte words. A step makes at
most one access to a shared position; the copies in and out of the ring are one
step each, which `NoTrespass` justifies: the words a producer may write and the
words a consumer may read are disjoint in every state. A record that wraps is
written and read word by word modulo the capacity. The program's own writes into
a reserved window are `FillWindow`.

**Doorbell.** Each process has a store buffer. A SEQ_CST store or a
read-modify-write drains it, a RELEASE or RELAXED store waits in it, a load looks
in it first: the order x86 gives, in which the missing fence of a Dekker-style
handshake shows. Weaker machines are not modelled.

**JobPool.** What runs between taking and giving back the pool's or a channel's
lock is one step. A thread asleep on a condition variable is `parked` (the pool)
or `receiving` (a channel); `WaitEnds` is a spurious or timed end. Tasks 1 to
`Senders` of a scope each send one value, the last one receives until the channel
closes, which is the order the checker requires. `StartPool` may create any
subset of the workers, `SubmitUnpooled` any prefix of the threads. Arenas and the
fork handler are left out; failing to create a thread of a sized scope ends the
process.

**ParallelRange.** The arithmetic of `nish_parallel_range` over integers bounded by
`MaxInt`, then one process per job. `hits` counts the runs of the body on each
element.

**LockWord.** The compare-and-swap the compiler emits, the loop of
`nish_mutex_wait`, the release store. The guarded data is not atomic: a task may
read any update not older than the newest it has synchronised with.

**ShmTable, RegionTable.** Two tables whose handles carry a generation. In `ShmTable`
the system calls of create and open are steps, since names are shared; the table
is a thread's own, processes die anywhere, windows are lent, moved by a push and
given back. In `RegionTable` the table is shared, the lock makes `new` and `free`
one step each, and the checks of every call are relaxed loads that may answer old
values. A panic ends the process and is no step. `issued` in both is a ghost: the
handles the program may still hold.

**Prefork.** A step is one call of the supervisor's loop; workers die, signals
arrive and time passes between any two. `quick` and `owed` are ghosts: the wait
that the documentation promises, computed apart from the code's.

**Upstream, DnsResolver, BuildCache.** A turn of the upstream handler services one
connection per step, then ends what is late, then dispatches. The origin may answer,
err, speak unasked, close, whenever the pool reads the socket. Requests queue up at it
(`asked`) and it answers them in turn. Each part of a response is marked with the call
it was sent for, or with none, and a call keeps the marks of those it was given that
were not sent for it (`others`); what was sent unasked may arrive while the connection
is idle or once a call is on it, and from then on the connection is `stray`: HTTP/1.1
names no request in a response, and nothing can tell whose answer is whose. The
resolver's lookups ask two questions over UDP and TCP, in rounds over the servers and
the search list; a deadline may pass at any time, and while `pump` runs nothing else
happens. In the cache model each rename and each read of a key is a step and a
compiler dies at any of them; an entry's right content is "mine".

**QuicTransfer.** One direction of a stream between two ends that both run the
code. The byte at offset o is the number o. A program writes and reads only when
an event tells it to, and may hold its FIN back (`Finish`). Packets are lost,
reordered and wrongly taken for lost.

**QuicBuffers.** The pool, the reserve and the sides of the streams of several
connections. `panic` names the check that ended the program.

**QuicRecovery.** Two packet number spaces across the handshake, and one across a
change of path. The peer acknowledges all it has received, in every ACK. The
Initial space (an acknowledgement delay of 0 is all that differs), the
anti-amplification limit and skipped packet numbers are left out.

**QuicLocalIds, QuicPeerIds.** The table of IDs in its two directions, an ID being its
sequence number, against a client that keeps to the protocol. `refused` is a ghost: the
IDs whose last packet was lost while the ring of retirements was full.

**Http3Pool, Http3CidIndex.** The wheel is the code's own: lists in arrays, a bitmap
over the buckets, a cursor; the loops of tick and flush are steps. The index is the
probed table with its removal by moving entries back; the IDs a server draws are
taken to be distinct.

## Runs

| Run | Module | Bounds | Shows |
|---|---|---|---|
| `mpsc` | `MCMpscRing` | 2 producers, 2 slots, 2 pushes each, one length, rooms 1 and 3, all consumer calls, deaths everywhere | no data race, no corrupt-ring panic, no lost wake-up, first in first out, a refused push met a full ring, a dead claim or a late crash stalls and never repeats or tears a record; refinement of `RecordQueue` |
| `rings` | `MCRings` | 32 bytes, records of 0, 9 and 12 bytes, 3 of them, batches, deaths; doorbell with 2 producers of 2 records and 4 sleeps | records stay whole, an empty ring accepts, refinement of `RecordQueue`; no record is left behind a sleeper, and every one is taken |
| `threads` | `MCThreads` | 2 callers, 1 worker or none, 3 tasks a scope, pooled, unpooled and sized; every length from -1 to the largest integer, 5 grains, 4 CPU counts, 3 jobs of 2 pieces | joins are complete and safe, and return; ranges are covered exactly once |
| `waits` | `MCWaits` | 3 tasks, 2 rounds; 2 producers of 2 records into 2 slots | mutual exclusion, no lost update; every task gets in, every record is delivered, every push returns |
| `reuse` | `MCReuse` | 2 threads, 2 slots, 3 generations, 1 object mapped 3 times; 2 calls, 2 connections, 2 pieces unread; 1 lookup with 2 candidates and 2 rounds; 2 compilers of one program | nothing used again is mixed up with what had it before |
| `prefork` | `MCPrefork` | 2 workers, waits up to 3, one signal at a time | no orphan, no half group, no early restart; stop ends, workers return |
| `quic_streams` | `MCQuicTransfer` | rings of 2, 3 bytes, 2 packets in flight, 1 fault | the ends stay in step; refinement of `StreamPromise` |
| `quic_fair` | `MCQuicTransfer` | 1 packet in flight, 2 faults | every stream ends |
| `quic_conn` | `MCQuicConn` | 2 packets in each of two spaces, or 3 across a change of path; 5 IDs issued, 3 held; 4 IDs of the peer and 3 faults, or 6 and 1 | recovery accounts for everything and strands nothing; one halving a flight; IDs in use are accepted |
| `h3` | `MCHttp3Server` | 2 slots, a wheel of 4, delays to 5; 4 IDs, 12 places, two hashes; 2 connections, 4 buffers | slots, timers, index and buffers are sound |
| `upstream_extra` | `MCReuse` | 2 calls, 1 connection | a promise the code does not keep, see Findings |
| `quic_buffers_full` | `MCQuicBuffers` | 2 connections of a stream each, 4 buffers | a panic that legal calls reach, see Findings |

Why these bounds are enough for what they are to show. Two slots are the least a
ring may have; two pushes of two producers fill it, overtake it by a lap and meet
a full ring. Records of 0, 9 and 12 bytes in 32 wrap, pad and end exactly at the
lap. The deadlock that the pool's order prevents needs two queued tasks of one
scope. Three jobs of two pieces have remainders, idle jobs and claims past the
end, and 9 as the largest integer is met by lengths, grains and products. Two
slots with three generations are used, used again and retired. Two compilers
meet on one entry, and a third would only repeat one of them. Rings of two bytes
wrap within a stream of three. A wheel of four with delays of five has deadlines
beyond its horizon, and ticks more than a turn late. Four IDs homed in one place,
or in three places around the table's end, make runs that wrap and runs that start
inside runs.

Deadlock checking is off where the bounded system may stop: callers out of scopes,
sleeps, calls or generations used up, a supervisor that has returned.

### Fairness

Rings: a process inside a call keeps running (weak fairness of its steps), the
consumer keeps calling, store buffers drain, and a RELAXED load repeated for ever
reads the latest position (strong fairness of that case of `LoadTail`). Nothing
ends a futex wait but a wake. Pool: a thread that is not asleep keeps running, and
a sleep on a condition variable ends by a signal only. Locks: a task keeps running;
since the run bounds the rounds, weak fairness is enough although the word itself
is unfair. Supervisor: its loop turns, time passes, SIGKILL kills, and a start
tried again and again succeeds in the end (strong fairness). Streams: programs
answer their events, an end sends what it has room for, a packet arrives or is
found to be lost; faults are bounded. No specification is fair to the start of a
call.

## Proofs

All theorems hold for every value of the constants under the named assumptions of
the modules, which TLC evaluates in the runs.

**MpscRingProofs**, for every set of producers, every number of slots from 2, every
length, every mix of consumer calls, and deaths at any step: `TypeCorrect`,
`DeliversInOrder` (`Fifo`), `RaceFree` (`NoDataRace`), `NoCorruptRecord`
(`NeverCorrupt`), `CrashOnlyStalls` (`CrashesStall`),
`FullAnswer` (`FalseMeansFull`), `Doorbells` (`NoLostWakeup`), and `RefinesQueue`:
`Spec => ImplementsQueue`, the ring implements `RecordQueue`. None of these is
inductive alone. `RingInv` is: with D records freed, the window of positions D ..
D + Slots - 1 has one position per slot, and the number in position k's slot is
k + 1 if k was claimed and published, k otherwise (`SeqInv`); claims are within a
lap of what is freed and every unpublished claim has exactly one holder
(`PositionInv`); a published slot holds its claim's record (`ContentInv`); the
consumer stands at D, or at D - 1 for good after a death between the two stores of
`release` (`ConsumerInv`). There is a lemma per group of actions; the arithmetic of
slots is in `RingLemmas`. `DoorbellInv` adds that with the flag up and the record
there, some producer is at the bell, and with the flag taken down under a sleeper,
some producer is about to wake it. The refinement maps a claim to `Put` and a release
to `Take`; everything else leaves the queue alone.

**RingsProofs**. The SPSC ring, for every capacity that is a multiple of 4 from 8, every length, every
mix of `tryPush`, `reserve`, `commit`, `tryPop`, `popBatch`, `peek` and `release`, and
deaths of either process at any step: `RecordsStayIntact` (`RecordsIntact`), and
`DeliversInOrder`: what was freed is a prefix of what was published, whole and in
order. The ring keeps no list of its records; the consumer finds the next one by
parsing lengths and skip markers. So the inductive invariant `IInv` says that
boundaries exist, one per record ever published: they grow and are word-aligned, the
one after the freed records is the consumer's position and the last one the
producer's, and each queued record lies between its boundary and the next, past a
skip marker if there is one (`ChainInv`). Every position a process holds, however
stale, is a boundary on the right side, and what the producer writes ends within a
lap of the consumer's position (`ProducerInv`): this is why a store never reaches a
word of a queued record. A `Publish` extends the boundaries by one, and freeing
records moves the front.
The doorbell of a ring (`Bell`), for every set of producers and every number of pushes and sleeps,
with a store buffer per process: `BellIsSound` (`BellSound`). The invariant says that
the only store ever buffered is the consumer's lowering of the flag, gone before it
raises it again (`BufferInv`); that a consumer past its second look with the flag still
up has a producer at the bell for whatever came later (`LookedInv`); that a sleeper
whose flag is down has a producer about to wake it (`WakerInv`); and counts one token
per sleep, which is on the flag, with one producer, or spent (`TokenInv`).

**LockWordProofs**, for every set of tasks and every number of rounds:
`MutualExclusion` (`Exclusive`), `NoUpdateLost` (`NothingLost`), `TypeCorrect`. The
inductive invariant is `TypeOK /\ Exclusive /\ Guarded /\ NothingLost`: a free word
carries the newest update in its release, and a task inside has seen it.

**JobPoolProofs**, for every set of callers, every finite set of workers, every number
of senders per scope from 1 and every number of scopes, with a pool that starts or
fails to: `JoinsAreSafe` (`JoinSafe`). What a join promises speaks of the moment it is
over, so it takes an account to carry it there. `IInv` says that inside a join a task
is held in one place (the queue, the end of an unpooled join's list, or one thread) or
ran once (`RanInv`, `HoldInv`, `QueueInv`, `InlineInv`); that the pool's `pending` is
the number of tasks that did not run and the channel's the number of senders not off
(`PendingInv`, `ChannelInv`, with the cardinality lemmas of the library); that a
scope's receiver is queued behind its senders, at a distance fixed by their numbers,
which is why a worker that blocks in it never blocks its senders; and `NoLostWakeup`.
The bounds in `TypeOK` are conclusions of the accounts, not hypotheses.
`PoolAssumption` keeps callers, workers and tasks apart, as threads are.

**PreforkProofs**, for every number of workers from 1 and every choice of the times that
`preforkInvalid` accepts: `WorkersAreSupervised` (`Supervised`). `IInv` adds to
`NoOrphan` and `OneGroup` that the delay a slot carries is the one its early exits
promised (`SlotsInv`; doubling and the cap need 2^(n+1) = 2 * 2^n, which is proved from
the number of subsets), that nothing runs before the first start (`FirstInv`) and that a
slot is given up only where nothing is restarted (`GoneInv`): without the last, the loop
could return "exited" with a worker alive.

**ReuseProofs**. Shared regions, for every number of threads, slots, generations from 2, objects,
mappings and windows: `HandlesAreSound` (`HandlesSound`). `IInv` adds that a handle's
generation is never ahead of its slot's and equals it only while the slot holds the
handle's mapping (`HandleInv`), that an occupied slot has not reached the generation
that retires it (`SlotInv`), that a call adopts only an object with its size
(`CallInv`), and that a window on a mapping is on the list that closing it walks
(`WindowInv`).
Memory regions (`Regions`), for every set of threads, every number of slots from 1 and
of generations from 2: `RegionsStayApart` (`RegionsApart`). A thread checks a handle
without the lock, so it may read any value a slot's owner and generation had since it
last looked. `SeenInv` says why that is harmless: a thread that can still read its own
name as the owner is the owner and has seen the newest generation. The rest describes
the table: which handles are out (`MadeInv`), what generations slots have (`GenInv`),
the free list, whose links lead to free slots and never two to one (`ListInv`), the
chain of entered regions from a thread's current one, in which no two have the same
outer region (`NestInv`), and where the allocations of each region are at each depth
(`PlaceInv`).
The pool of connections to an origin (`Calls`), for any number of slots and connections
from 1, of calls and of what the origin has sent and nobody read: `CallsAreKept`
(`CallsKept`). `Placed` gives each slot a place (free, waiting, on a connection, done,
taken) and says that it is there once and nowhere else; `CallOK` says by place how often
its call was sent and ended: a call that waits was sent once if it is a retry and never
otherwise, one that is done has ended once. For the answers the bytes on the way matter:
on a connection with a call all that is unread, up to the end of a response, is for that
call, and the origin still owes it an answer exactly if no end of one is unread (`Own`);
on an idle one it owes none (`Settled`). Both hold until bytes that nobody asked for come
while a call is there; from then on the connection is `stray`, and so is every piece read
from it (`AllStray`). A connection that was closed, or looked at by `usable` and found quiet,
has nothing unread from before. `Known` adds that the
calls made are 1 up to some number, so a new call has a number of its own. `finish`,
`close`, `send` and `receive` are proved one by one from a pool to those it may become
(`Goes`), then the handler's steps.
The lookups of the resolver (`Dns`), for any number of them and of servers, rounds and
candidates from 1, and any number of hops: `LookupsAreSound` (`LookupSound`). `Counted`
says that the failures of a query in flight are its rounds times the servers plus its
server, so the last failure of the last round is the last server's; `Coherent` ties a
lookup to its two queries: one of them is not done while it runs, its addresses are for
the candidate being asked, and if some question got no answer either an error was kept
or a query still has it. `Socketed` says that a query with nothing to go out has the
socket it waits on. The private functions are proved one by one on worlds (`Changes`,
`Handled`), then the calls.
The build caches (`Cache`), for every set of compilers, programs and runtime units:
`CacheIsSound` (`CacheSound`). `EntryInv`: a key stands beside its own objects. A
compiler that fills an entry has emptied its key, and what it has moved stays good
whoever moves the same unit again (`FillOK`); what a compiler uses was good when it
found the key and is still (`UseOK`): objects of a key are only ever replaced by equal
ones.

**QuicConnProofs**. The congestion window, for every number of packets, every time and every order of ACKs,
losses and marks: `OneHalvingPerFlight`, the action property `HalvedOncePerFlight`. A
step alone does not show it; `FlightInv` does: a packet in a ring that was sent after
the current period began remembers the halving that began it. The lemmas say what
`Compact`, `Settle` and loss detection keep of a ring.
The IDs a server gives out (`Local`), for every number the client takes from 1 and every
number issued: `LocalIdsAreAccepted` (`LocalIdsAccepted`). The invariant says that every
announcement in flight is of an ID that is active or that the client gave up, that what
it gave up it holds no more, and that only such IDs are retired.
The theorems about `Bell`, `Regions`, `Calls`, `Dns`, `Cache` and `Local` are about the specifications of
the runs, of which these are parts: a part's invariant holds as long as it is the part
that moves. Their assumptions (`NamesApart`, `TableSizes`, `PoolSizes`, `DnsSizes`, `EntriesApart`,
`IdLimits`) are
assumptions of the runs' modules.

What stays with TLC. Liveness, which the prover does not reach: `StopEnds`,
`WorkerReturns`, `JoinReturns`, `EveryTaskDone`, `Delivery`, `PushReturns`, `Taken`,
`BothEnd`. `EmptyRingAccepts` speaks of ENABLED. `DividesRange` and `SlotsSound`
rest on what folds and sums compute, `KeepsPromise` on reassembled
intervals: induction over data. `Recovers`, as a conjunct of the run's `AllRecovers`,
sums the bytes of a ring in the same way. That the SPSC ring implements `RecordQueue`
is checked in the run `rings`: its bound adds up the sizes of the queued records with a
fold, so only the MPSC ring has that proof. `PeerIdsAccepted` queues retirements with a
fold over a sorted set. The other safety properties (`EndsInStep`, `TimersSound`,
`IndexSound`, `LendingSound`) have no proof.

## Findings

Two disagreements are runs that end in a violation.

`upstream_extra`: `docs/security/upstream.md` (UPSTREAM-2) says that "a late, malformed
or extra response must not be read as the next call's", and that it holds. `usable`
reads a kept-alive connection once before it is reused, and sees what has arrived by
then. An extra response still on its way is read as the response of the call that is
sent next. The rest of the promise is `CallsKept`: no late answer of a call that failed,
and nothing that arrived while the connection was idle, reaches a call.

`quic_buffers_full`: `keep` panics when the reserve is full, and calls that "a
table's bug". With pools shared by connections, resetting streams of several of them
in a row, which is legal, gives back more than one connection holds and reaches the
panic with no table at fault.

Others were met while the modules were written. They can be read off the models,
and no run is kept for them:

- `runtime-shm.c` and `std/sync/shm.ts` say that a handle passed to another thread
  names nothing there. `region_of` compares slot and generation only, and every
  thread's table starts at slot 1, generation 1: it may name a region of that
  thread's own.
- `upstream.ts` says a dropped call is made once more "on a new connection";
  `dispatch` uses any idle one. Two calls retried in one turn are queued younger
  first, although the loop that ends late calls relies on the oldest being first.
- `restartEcn` keeps the counts of each space, so that counts raised by packets of
  the old path can pass for those of the new one and find a path that clears marks
  capable. `HonestPathNotFailed`, the other direction, holds.
- A first Initial that does not open leaves an HTTP/3 slot taken with no ID filed and
  no timer; only `stop` frees it.
- `addPeerAt` counts a retirement that is queued already as one more, and so can
  close on a repeated frame; and `queueRetire` drops a retirement whose packet is found
  lost while the ring is full, after which the client is never told. In `quic_conn` the
  part `crowded` fills the ring and reaches both. `PeerIdsAccepted` excepts the second
  (`refused`); that `addPeerAt`, which counts before it queues, never drops one is part
  of it.
- The comment at `runtime/runtime-parallel.c:546` says of the pieces of a region "Never
  finer than the grain, which is what a piece must be worth". The count of chunks is
  rounded up, so five elements at a grain of four become two pieces of three and two.
  Answers do not depend on it.
- A consumer of the MPSC ring that dies between the two stores of `release` leaves a
  ring no later consumer can pop from (`CrashesStall`), as a producer dead in its
  claim does, which the module comment does mention. A producer that dies after
  publishing and before ringing leaves a record to the next push or the wait's limit.

## Not modelled

The handshake and the frame parsers of QUIC, HTTP/2, TLS, WebSocket and PostgreSQL;
the pacer of QUIC, whose questions are arithmetic; the compiler; pure library code;
thin wrappers over system calls. Of the parts that are modelled: weaker memory than
store buffers, reinitialising a ring in use, 64-bit positions wrapping round, the
fork handler of the pool, stream limits and the event order of QUIC streams, what a
listener answers, the outbound address policy.

## Plan

1. More proofs: what a stream keeps of its bytes and credit (`EndsInStep`), the timer wheel
   and the index of the HTTP/3 pool, and its slots with the fold of its stop turned into
   steps of the loop.
2. The fork handler and pipelines of channels in `JobPool`; stream limits.
3. The state machines of the QUIC and HTTP/2 connections.
