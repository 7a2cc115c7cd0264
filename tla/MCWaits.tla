------------------------------ MODULE MCWaits -------------------------------
(***************************************************************************)
(* What is waited for, for TLC: a guard by tasks that spin, a record by a  *)
(* consumer that sleeps.  The models share no variable, so what holds of   *)
(* one with the other at rest holds of it in every interleaving with it: a *)
(* behaviour moves one part.                                               *)
(***************************************************************************)
EXTENDS LockWord, Sequences

CONSTANT Producers

VARIABLE part
\* MpscRing
VARIABLES tail, headWord, sleep, seq, slotLen, slotBody, ppc, pos, rec, made, dead,
          cpc, mode, head, room, left, clen, cbody, claims, delivered

ringVars == <<tail, headWord, sleep, seq, slotLen, slotBody, ppc, pos, rec, made, dead,
              cpc, mode, head, room, left, clen, cbody, claims, delivered>>
allVars == <<part, vars, ringVars>>

\* Nobody dies, and the consumer only waits: nothing but the doorbell wakes it.
Ring == INSTANCE MpscRing WITH
  pc <- ppc, Slots <- 2, SlotBytes <- 2, Lens <- {1}, Rooms <- {1}, Batches <- {1}, Modes <- {"popWait, no limit"},
  Doorbell <- TRUE, HasFutex <- TRUE, Mortal <- {}, ConsumerDies <- FALSE, MaxPushes <- 2

WaitsInit == part \in {"lock", "ring"} /\ Init /\ Ring!Init

InLock(A) == part = "lock" /\ A /\ UNCHANGED <<part, ringVars>>
InRing(A) == part = "ring" /\ A /\ UNCHANGED <<part, vars>>

WaitsNext == InLock(Next) \/ InRing(Ring!Next)

\* The fairness of each part, as its module gives it.
LockFairness == \A t \in Tasks : WF_allVars(InLock(Step(t)))

RingFairness ==
  /\ \A p \in Producers :
       /\ WF_allVars(InRing(Ring!Push(p)))
       /\ SF_allVars(InRing(Ring!LoadTail(p) /\ pos'[p] = tail))
  /\ WF_allVars(InRing(Ring!Consume)) /\ WF_allVars(InRing(Ring!ConsumerCall))

WaitsSpec == WaitsInit /\ [][WaitsNext]_allVars /\ LockFairness /\ RingFairness
----------------------------------------------------------------------------
\* Every task that wants the lock gets in and out as often as it wants
\* (nish_mutex_wait, the release at every exit of the block).
EveryTaskDone == part = "lock" => AllDone

\* Every record whose slot was claimed is popped in the end, by a consumer
\* that nothing but the doorbell wakes (tryPush, popWait, ringRing).
Delivery == part = "ring" => Ring!Delivery

\* Every tryPush returns, however often another producer takes its slot.
PushReturns == part = "ring" => Ring!PushReturns
=============================================================================
