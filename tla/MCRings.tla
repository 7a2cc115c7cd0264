------------------------------- MODULE MCRings -------------------------------
(***************************************************************************)
(* The one-producer ring and the doorbell of both rings, for TLC.  The two *)
(* models share no variable, so what holds of one with the other at rest   *)
(* holds of it in every interleaving with it: a behaviour moves one part.  *)
(***************************************************************************)
EXTENDS SpscRing, SequencesExt

CONSTANTS Producers, MaxPushes, MaxSleeps    \* of the doorbell

VARIABLE part
\* Doorbell
VARIABLES memory, buffer, pc, taken, sleeps, wakes

bellVars == <<memory, buffer, pc, taken, sleeps, wakes>>
allVars == <<part, vars, bellVars>>

Bell == INSTANCE Doorbell

ASSUME BellAssumption == Bell!NamesApart

RingsInit == part \in {"ring", "bell"} /\ Init /\ Bell!Init

RingsNext ==
  /\ part' = part
  /\ \/ part = "ring" /\ Next /\ UNCHANGED bellVars
     \/ part = "bell" /\ Bell!Next /\ UNCHANGED vars

\* Of the doorbell only: a process inside a call keeps running and buffers
\* drain; nothing ends a wait but a wake.
Running(A) == part = "bell" /\ A /\ UNCHANGED <<part, vars>>
Fairness ==
  /\ \A x \in Bell!Processes : WF_allVars(Running(Bell!Flush(x)))
  /\ \A p \in Producers : WF_allVars(Running(Bell!Ring(p)))
  /\ WF_allVars(Running(Bell!Consume))

RingsSpec == RingsInit /\ [][RingsNext]_allVars /\ Fairness

----------------------------------------------------------------------------
\* The records published and not freed, and what they cost.
Queued == SubSeq(pushed, Len(delivered) + 1, Len(pushed))
CostOf(q) == FoldSeq(LAMBDA r, sum : ringRecordBytes(r.len) + sum, 0, q)
FitsRing(q) == CostOf(q) <= Capacity

Queue ==
  INSTANCE RecordQueue WITH
    Record <- {RecordOf(id, n) : id \in 1..MaxRecords, n \in Lens \cup Reserves},
    Fits <- FitsRing,
    queue <- Queued,
    taken <- delivered

\* The ring implements a bounded first-in first-out queue of whole records:
\* every push, pop, batch and release is one Put or one Take of it, and a
\* process that dies anywhere and is replaced loses and repeats nothing that
\* was published (the calls of SpscRing).
ImplementsQueue == Queue!Spec

\* No record is left behind a sleeping consumer, and one producer pays for each
\* wake (publish, ringRing, ringSleep).
BellSound == Bell!BellSound

\* Every published record is taken in the end, although nothing but a wake
\* ends a wait (ringRing, popWait).
Taken == Bell!Taken
=============================================================================
