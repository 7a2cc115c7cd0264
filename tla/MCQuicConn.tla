----------------------------- MODULE MCQuicConn -----------------------------
(***************************************************************************)
(* Three parts of a QUIC connection, for TLC: its loss recovery and the    *)
(* connection IDs of its two directions.  They share no variable, so what  *)
(* holds of one with the others at rest holds of it in every interleaving  *)
(* with them: a behaviour moves one part.  The constants of the recovery   *)
(* are those of a connection across its handshake; once it is confirmed    *)
(* and moves to another path it is the part Moving.                        *)
(***************************************************************************)
EXTENDS QuicRecovery, TLC

CONSTANTS
  a1, a2,
  Want, MaxIssued, MaxFaults   \* of the IDs the server gives

VARIABLE part
\* QuicLocalIds
VARIABLES local, announced, next, closedLocal, news, sent, holds, gone, retires, owed, faultsLocal
\* QuicPeerIds
VARIABLES issued, prior, told, frames, peerIds, priorTo, current, toRetire, flying, closedPeer, retired, refused, faultsPeer

localVars == <<local, announced, next, closedLocal, news, sent, holds, gone, retires, owed, faultsLocal>>
peerVars == <<issued, prior, told, frames, peerIds, priorTo, current, toRetire, flying, closedPeer, retired, refused, faultsPeer>>
allVars == <<part, vars, localVars, peerVars>>

Moving == INSTANCE QuicRecovery WITH
  HandshakeItems <- {}, AppItems <- {a1, a2}, MaxHandshake <- 0, MaxApp <- 3,
  TestingPackets <- 1, EarlyResends <- 0, Paths <- {TRUE, FALSE}, MaxBare <- 1, MaxMoves <- 1

Local == INSTANCE QuicLocalIds WITH
  closed <- closedLocal, faults <- faultsLocal

ASSUME LocalAssumption == Local!IdLimits

Peer == INSTANCE QuicPeerIds WITH
  peer <- peerIds, pending <- toRetire, closed <- closedPeer, faults <- faultsPeer,
  Limit <- 2, Copies <- 3, MaxSeq <- 3, MaxFaults <- 3

\* So many retirements that their ring is full.
Crowded == INSTANCE QuicPeerIds WITH
  peer <- peerIds, pending <- toRetire, closed <- closedPeer, faults <- faultsPeer,
  Limit <- 2, Copies <- 2, MaxSeq <- 5, MaxFaults <- 1

ConnInit ==
  /\ part \in {"opening", "moving", "local", "peer", "crowded"}
  /\ IF part = "moving" THEN Moving!Init ELSE Init
  /\ Local!Init /\ IF part = "crowded" THEN Crowded!Init ELSE Peer!Init

ConnNext ==
  /\ part' = part
  /\ \/ part = "opening" /\ Next /\ UNCHANGED <<localVars, peerVars>>
     \/ part = "moving" /\ Moving!Next /\ UNCHANGED <<localVars, peerVars>>
     \/ part = "local" /\ Local!Next /\ UNCHANGED <<vars, peerVars>>
     \/ part = "peer" /\ Peer!Next /\ UNCHANGED <<vars, localVars>>
     \/ part = "crowded" /\ Crowded!Next /\ UNCHANGED <<vars, localVars>>

ConnSpec == ConnInit /\ [][ConnNext]_allVars
Alike == Permutations({a1, a2})

----------------------------------------------------------------------------
\* The counters of recovery are right, nothing sent is beyond the reach of its
\* timers, and no honest path is given up, across the handshake and across a
\* move (receiveAck, deadline, processEcn).
AllRecovers ==
  /\ part = "opening" => Recovers
  /\ part = "moving" => Moving!Recovers

\* Every ID the client may send to is one the server's table has, the client
\* is never given more than it takes, and is never closed on (retireLocal,
\* topUpConnectionIds).
LocalIdsAccepted == part = "local" => Local!LocalIdsAccepted

\* The server sends to an ID that the client still accepts, and no ID it gave
\* up is forgotten on the way out, but for one whose last packet is lost while
\* the ring of retirements is full (addPeerAt, queueRetire).
PeerIdsAccepted ==
  /\ part = "peer" => Peer!PeerIdsAccepted
  /\ part = "crowded" => Crowded!PeerIdsAccepted
=============================================================================
