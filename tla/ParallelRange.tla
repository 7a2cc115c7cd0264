--------------------------- MODULE ParallelRange ---------------------------
(***************************************************************************)
(* nish_parallel_range of runtime/runtime-parallel.c: a range of elements  *)
(* is divided into contiguous pieces, which the region's jobs claim one at *)
(* a time off a shared counter. The pool that runs the jobs is JobPool;    *)
(* here each job is a process that starts at its own time and returns when *)
(* no piece is left.                                                       *)
(***************************************************************************)
EXTENDS Integers, FiniteSets

CONSTANTS
  MaxInt,    \* the largest value of an int64_t, 2^63 - 1
  Lens,      \* the lengths a caller asks for
  Grains,    \* the grains a caller asks for
  Cpus,      \* what nish_cpu_count may answer
  ParMax,    \* NISH_PAR_MAX, 64
  ParPieces  \* NISH_PAR_PIECES, 8

\* The lengths and grains are in -MaxInt..MaxInt, the CPUs in 1..MaxInt, and
\* ParMax * ParPieces is at most MaxInt.

Jobs == 1..ParMax
Elements == 0..(MaxInt - 1)
AtMost(a, b) == IF a < b THEN a ELSE b

VARIABLES
  phase,   \* "idle", "region" while jobs run, "joined" at the caller's return
  asked,   \* the call: its length and grain, the CPUs, whether it is nested
  region,  \* nish_par_region: base, rem, pieces
  next,    \* the next piece to claim
  at,      \* per job: "off", "first" (the lead), "claim", "run", "done"
  piece,   \* per job: the piece it runs
  hits     \* per element: how often the body ran on it in this call

vars == <<phase, asked, region, next, at, piece, hits>>

NoCall == [len |-> 0, grain |-> 1, cpus |-> 1, nested |-> FALSE]
NoRegion == [base |-> 0, rem |-> 0, pieces |-> 0]
Fresh == [x \in Elements |-> 0]

Init ==
  /\ phase = "idle"
  /\ asked = NoCall
  /\ region = NoRegion
  /\ next = 0
  /\ at = [j \in Jobs |-> "off"]
  /\ piece = [j \in Jobs |-> 0]
  /\ hits = Fresh

\* A grain below 1 is 1.
Grain(a) == IF a.grain < 1 THEN 1 ELSE a.grain

\* The length over the grain, rounded up without the sum that overflows.
Chunks(a) == a.len \div Grain(a) + (IF a.len % Grain(a) # 0 THEN 1 ELSE 0)

\* The jobs of a call: never more than it has chunks, nor than the machine has.
JobCount(a) == AtMost(AtMost(a.cpus, ParMax), Chunks(a))

Pieces(a) == AtMost(JobCount(a) * ParPieces, Chunks(a))

Whole(a) == JobCount(a) <= 1 \/ a.nested

Hi_NoRemainder(r, i) == i * r.base + AtMost(i, r.rem) + r.base

\* nish_par_piece: where piece i begins, and the element after its last.
Lo(r, i) == i * r.base + AtMost(i, r.rem)
Hi(r, i) == Lo(r, i) + r.base + (IF i < r.rem THEN 1 ELSE 0)

Body(lo, hi) == [x \in Elements |-> IF lo <= x /\ x < hi THEN hits[x] + 1 ELSE hits[x]]

(***************************************************************************)
(* The call: nothing to do, the loop it would have been, or a region.      *)
(***************************************************************************)
CallEmpty(a) ==
  /\ phase = "idle" /\ a.len <= 0
  /\ phase' = "joined" /\ asked' = a
  /\ UNCHANGED <<region, next, at, piece, hits>>

CallWhole(a) ==
  /\ phase = "idle" /\ a.len > 0 /\ Whole(a)
  /\ phase' = "joined" /\ asked' = a
  /\ hits' = Body(0, a.len)
  /\ UNCHANGED <<region, next, at, piece>>

CallDivided(a) ==
  /\ phase = "idle" /\ a.len > 0 /\ ~Whole(a)
  /\ phase' = "region" /\ asked' = a
  /\ region' = [base |-> a.len \div Pieces(a), rem |-> a.len % Pieces(a), pieces |-> Pieces(a)]
  /\ next' = 1
  /\ at' = [j \in Jobs |-> IF j = 1 THEN "first" ELSE IF j <= JobCount(a) THEN "claim" ELSE "off"]
  /\ UNCHANGED <<piece, hits>>

\* nish_par_run_lead: the caller's piece 0, which the counter starts past.
LeadPiece(j) ==
  /\ at[j] = "first"
  /\ piece' = [piece EXCEPT ![j] = 0]
  /\ at' = [at EXCEPT ![j] = "run"]
  /\ UNCHANGED <<phase, asked, region, next, hits>>

\* The fetch-and-add of nish_par_run, and the test of what it answered.
Claim(j) ==
  /\ at[j] = "claim"
  /\ next' = next + 1
  /\ piece' = [piece EXCEPT ![j] = next]
  /\ at' = [at EXCEPT ![j] = IF next < region.pieces THEN "run" ELSE "done"]
  /\ UNCHANGED <<phase, asked, region, hits>>

RunPiece(j) ==
  /\ at[j] = "run"
  /\ hits' = Body(Lo(region, piece[j]), Hi(region, piece[j]))
  /\ at' = [at EXCEPT ![j] = "claim"]
  /\ UNCHANGED <<phase, asked, region, next, piece>>

\* nish_jobs_run returns once every job has.
Join ==
  /\ phase = "region"
  /\ \A j \in Jobs : at[j] \in {"off", "done"}
  /\ phase' = "joined"
  /\ UNCHANGED <<asked, region, next, at, piece, hits>>

\* The caller goes on, and its frame with the region in it is gone.
Return ==
  /\ phase = "joined"
  /\ phase' = "idle"
  /\ region' = NoRegion /\ next' = 0
  /\ at' = [j \in Jobs |-> "off"] /\ piece' = [j \in Jobs |-> 0]
  /\ hits' = Fresh /\ asked' = NoCall

Calls == [len : Lens, grain : Grains, cpus : Cpus, nested : BOOLEAN]
Call(a) == CallEmpty(a) \/ CallWhole(a) \/ CallDivided(a)
JobStep(j) == LeadPiece(j) \/ Claim(j) \/ RunPiece(j)

Next ==
  \/ \E a \in Calls : Call(a)
  \/ \E j \in Jobs : JobStep(j)
  \/ Join
  \/ Return

Spec == Init /\ [][Next]_vars

-----------------------------------------------------------------------------
\* The type invariant, which is also where an int64_t would overflow: the
\* counter goes past the last piece by at most one per job.
TypeOK ==
  /\ phase \in {"idle", "region", "joined"}
  /\ asked \in [len : -MaxInt..MaxInt, grain : -MaxInt..MaxInt, cpus : 1..MaxInt, nested : BOOLEAN]
  /\ region \in [base : 0..MaxInt, rem : 0..MaxInt, pieces : 0..(ParMax * ParPieces)]
  /\ next \in 0..(ParMax * ParPieces + ParMax)
  /\ at \in [Jobs -> {"off", "first", "claim", "run", "done"}]
  /\ piece \in [Jobs -> 0..(ParMax * ParPieces + ParMax)]
  /\ hits \in [Elements -> Nat]

\* At the join the body has run exactly once on every element of the range
\* and on nothing past it, however the claims interleaved.
ExactCover ==
  phase = "joined" =>
    \A x \in Elements : hits[x] = IF x < asked.len THEN 1 ELSE 0

\* No two jobs are ever inside the body with an element in common, which is
\* what lets the body write its elements without a lock.
PiecesApart ==
  \A j, k \in Jobs : j # k /\ at[j] = "run" /\ at[k] = "run" =>
    \/ Hi(region, piece[j]) <= Lo(region, piece[k])
    \/ Hi(region, piece[k]) <= Lo(region, piece[j])

\* The longest piece is at most one element longer than the shortest, and none
\* is empty.
Balanced ==
  phase = "region" =>
    /\ region.base >= 1
    /\ \A i, k \in 0..(region.pieces - 1) :
         Hi(region, i) - Lo(region, i) <= Hi(region, k) - Lo(region, k) + 1

\* RT-8: a call outside a region with more elements than its grain is divided
\* whenever there is a second CPU, up to the longest length there is.
WorkShared ==
  phase = "joined" /\ region = NoRegion /\ asked.cpus > 1 /\ ParMax > 1 /\ ~asked.nested
    => asked.len <= Grain(asked)

\* A range is divided rightly: each element once, no two jobs on one, pieces
\* alike, and divided at all when it should be (nish_parallel_range,
\* nish_par_piece).
DividesRange == TypeOK /\ ExactCover /\ PiecesApart /\ Balanced /\ WorkShared
=============================================================================
