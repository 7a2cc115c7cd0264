--------------------------- MODULE MCHttp3Server ----------------------------
(***************************************************************************)
(* Three parts of an HTTP/3 server, for TLC: its slots with their queues   *)
(* and timers, its index of connection IDs, and the buffers that the       *)
(* streams of its connections share.  The models share no variable, so     *)
(* what holds of one with the others at rest holds of it in every          *)
(* interleaving with them: a behaviour moves one part.                     *)
(***************************************************************************)
EXTENDS Http3Pool, TLC

CONSTANTS Conns, Buffers    \* the connections that share the buffers, the buffers

VARIABLE part
\* Http3CidIndex
VARIABLES home, index, heldIndex, conn, sign
\* QuicBuffers
VARIABLES made, freeBuffers, reserve, left, st, packet, panic

indexVars == <<home, index, heldIndex, conn, sign>>
bufferVars == <<made, freeBuffers, reserve, left, st, packet, panic>>
allVars == <<part, vars, indexVars, bufferVars>>

\* IDs homed around the end of the table: in one place, and spread over three
\* so that runs start inside runs.
Together == [i \in 1..4 |-> 11]
Spread == [i \in 1..4 |-> (10 + (i % 3)) % 12]

Ids == INSTANCE Http3CidIndex WITH
  held <- heldIndex, Slots <- 2, Locals <- 2, Size <- 12, IDs <- 1..4, Homes <- {Together, Spread}, MaxIssued <- 4

Pools == INSTANCE QuicBuffers WITH
  free <- freeBuffers, ready <- reserve, dirty <- left, Slots <- {"k"}, Size <- 1

ServerInit ==
  /\ part \in {"pool", "ids", "buffers"}
  /\ Init /\ Ids!Init /\ Pools!Init
  /\ part # "ids" => home = Together

ServerNext ==
  /\ part' = part
  /\ \/ part = "pool" /\ Next /\ UNCHANGED <<indexVars, bufferVars>>
     \/ part = "ids" /\ Ids!Next /\ UNCHANGED <<vars, bufferVars>>
     \/ part = "buffers" /\ Pools!Next /\ UNCHANGED <<vars, indexVars>>

ServerSpec == ServerInit /\ [][ServerNext]_allVars

Alike == Permutations(Buffers)
----------------------------------------------------------------------------
\* A connection ID leads to the connection that owns it and to no other,
\* whatever was entered and removed around it (find, insert, remove).
IndexSound == part = "ids" => Ids!IndexSound

\* Every buffer of the pools that two connections share is in one place, clean
\* when it waits to be lent, and there when a stream or a frame needs it (take,
\* give, lend, keep).
LendingSound == part = "buffers" => Pools!LendingSound
=============================================================================
