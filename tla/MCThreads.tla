------------------------------ MODULE MCThreads ------------------------------
(***************************************************************************)
(* The pool with its scopes and channels, and the division of a range, for *)
(* TLC.  The two models share no variable (that each job of a range gets a *)
(* thread in the end is the pool's JoinReturns), so what holds of one with *)
(* the other at rest holds of it in every interleaving with it: a          *)
(* behaviour moves one part.                                               *)
(***************************************************************************)
EXTENDS JobPool

VARIABLE part
\* ParallelRange
VARIABLES phase, asked, region, next, doing, piece, hits

rangeVars == <<phase, asked, region, next, doing, piece, hits>>
allVars == <<part, vars, rangeVars>>

\* 9 is the largest integer: lengths, grains and counts at its edge.
Range == INSTANCE ParallelRange WITH
  at <- doing, MaxInt <- 9, Lens <- -1..9, Grains <- {0, 1, 2, 4, 9}, Cpus <- {1, 2, 3, 5}, ParMax <- 3, ParPieces <- 2

ThreadsInit == part \in {"pool", "range"} /\ Init /\ Range!Init

ThreadsNext ==
  /\ part' = part
  /\ \/ part = "pool" /\ Next /\ UNCHANGED rangeVars
     \/ part = "range" /\ Range!Next /\ UNCHANGED vars

\* Of the pool only: a thread that can run does, and nothing ends a wait by
\* itself.
Moves(A) == part = "pool" /\ A /\ UNCHANGED <<part, rangeVars>>
PoolFairness ==
  /\ \A c \in Callers : WF_allVars(Moves(CallerStep(c)))
  /\ \A t \in Callers \cup Workers : WF_allVars(Moves(PoolStep(t)))
  /\ \A t \in Threads : WF_allVars(Moves(Task(t)))
  /\ \A j \in Jobs : WF_allVars(Moves(ThreadExits(j)))

ThreadsSpec == ThreadsInit /\ [][ThreadsNext]_allVars /\ PoolFairness

----------------------------------------------------------------------------
\* A range is divided into pieces that cover it once, are alike and are never
\* run by two threads (nish_parallel_range, nish_par_piece).
DividesRange == Range!DividesRange
=============================================================================
