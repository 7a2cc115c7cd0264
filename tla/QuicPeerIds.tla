---------------------------- MODULE QuicPeerIds -----------------------------
(***************************************************************************)
(* The connection IDs a QUIC client gives a server to send to              *)
(* (std/net/quic-conn-cid.ts as std/net/quic.ts drives it).  The client,   *)
(* which is external, issues IDs in NEW_CONNECTION_ID frames whose Retire  *)
(* Prior To makes the server give up older ones; frames come late, twice   *)
(* and out of order.  The server owes a RETIRE_CONNECTION_ID for each it   *)
(* gives up: it waits in a ring, flies in a packet, is lost and queued     *)
(* again.  An ID is its sequence number: an honest client never reuses     *)
(* one, nor gives an ID twice.                                             *)
(***************************************************************************)
EXTENDS Integers, Sequences, FiniteSets, FiniteSetsExt, SequencesExt

CONSTANTS
  Limit,      \* the active_connection_id_limit the server advertised
  Copies,     \* bound: how often a NEW_CONNECTION_ID frame arrives at most
  MaxSeq,     \* bound: the last sequence number the client issues
  MaxFaults   \* bound: frames repeated, and retirements lost or sent again for a probe

Sequence == 0..MaxSeq
None == -1
Ring == 2 * Limit

VARIABLES
  issued,     \* client: the last sequence number issued
  prior,      \* client: its Retire Prior To
  told,       \* client: sequence numbers a RETIRE_CONNECTION_ID arrived for
  frames,     \* <<sequence, prior>> -> copies still to arrive
  peer,       \* server: the active IDs
  priorTo,    \* server: the highest Retire Prior To seen
  current,    \* server: the ID it sends to
  pending,    \* server: the ring of retirements to send, oldest first
  flying,     \* retirement -> packets in flight that carry it
  closed,     \* server: whether it closed the connection with an error
  retired,    \* history: IDs the server gave up
  refused,    \* history: IDs whose last packet was lost while the ring was full
  faults      \* history: frames repeated, retirements lost or probed for

client == <<issued, prior, told, frames>>
table == <<peer, priorTo, current, retired>>
vars == <<client, table, pending, flying, closed, refused, faults>>

Frame == Sequence \X Sequence

\* establish(): the ID of the client's first packet.
Init ==
  /\ issued = 0 /\ prior = 0 /\ told = {} /\ frames = [f \in Frame |-> 0]
  /\ peer = {0} /\ priorTo = 0 /\ current = 0 /\ retired = {}
  /\ pending = <<>> /\ flying = [s \in Sequence |-> 0] /\ closed = FALSE
  /\ refused = {} /\ faults = 0

\* The client issues an ID, giving up older ones or not, so that the active
\* ones are within the limit; so many copies of the frame will arrive.
Issue(to, copies) ==
  /\ ~closed /\ issued < MaxSeq /\ issued' = issued + 1
  /\ to \in prior..issued' /\ issued' - to + 1 <= Limit
  /\ prior' = to /\ frames' = [frames EXCEPT ![<<issued', to>>] = copies]
  /\ faults + copies - 1 <= MaxFaults /\ faults' = faults + copies - 1
  /\ UNCHANGED <<told, table, pending, flying, closed, refused>>

\* queueRetire(): not one queued already, nor one more than the ring holds.
Queued(q, s) == IF s \in ToSet(q) \/ Len(q) >= Ring THEN q ELSE Append(q, s)

\* The Retire Prior To in force, in addPeerAt().
NewPrior(to) == IF to > priorTo THEN to ELSE priorTo

\* Mutant: the ID of a frame that came too late is not queued.
Owed_Active(s, to) == {old \in peer : old < NewPrior(to)}

\* What a frame makes the server give up: the active IDs that are too old now
\* and its own, if that came too late.
Owed(s, to) == {old \in peer \union {s} : old < NewPrior(to)}

\* prune(): the oldest active ID.
Pruned(ids) == IF ids = {} THEN None ELSE Min(ids)

\* addPeerAt() of a NEW_CONNECTION_ID frame: a repeat of an active ID changes
\* nothing; a frame past a limit closes the connection.
AddPeer(s, to) ==
  LET owed == Owed(s, to)
      kept == {id \in peer \union {s} : id >= NewPrior(to)}
      over == Cardinality(kept) > Limit \/ Len(pending) + Cardinality(owed) > Ring
  IN \/ s \in peer /\ UNCHANGED <<table, pending, closed>>
     \/ s \notin peer /\ over /\ closed' = TRUE /\ UNCHANGED <<table, pending>>
     \/ /\ s \notin peer /\ ~over
        /\ peer' = kept /\ priorTo' = NewPrior(to) /\ current' = Pruned(kept)
        /\ pending' = FoldLeft(Queued, pending, SetToSortSeq(owed, <))
        /\ retired' = retired \union ((peer \union {s}) \ kept)
        /\ UNCHANGED closed

\* A NEW_CONNECTION_ID frame arrives.
FrameArrives(f) ==
  /\ ~closed /\ frames[f] > 0 /\ frames' = [frames EXCEPT ![f] = @ - 1]
  /\ AddPeer(f[1], f[2])
  /\ UNCHANGED <<issued, prior, told, flying, refused, faults>>

\* buildApplication(): the oldest retirement goes out in a packet.
SendRetire ==
  /\ ~closed /\ pending # <<>>
  /\ pending' = Tail(pending) /\ flying' = [flying EXCEPT ![Head(pending)] = @ + 1]
  /\ UNCHANGED <<client, table, closed, refused, faults>>

\* A packet with the retirement reaches the client.
RetireArrives(s) ==
  /\ flying[s] > 0 /\ s \notin told /\ told' = told \union {s}
  /\ UNCHANGED <<issued, prior, frames, table, pending, flying, closed, refused, faults>>

\* The packet is acknowledged.
Acked(s) ==
  /\ ~closed /\ flying[s] > 0 /\ s \in told /\ flying' = [flying EXCEPT ![s] = @ - 1]
  /\ UNCHANGED <<client, table, pending, closed, refused, faults>>

\* requeueControl()
Requeued(s) == Queued(pending, s)

\* The packet is found lost, or a probe timeout queues what it carries again.
Lost(s, probe) ==
  /\ ~closed /\ flying[s] > 0 /\ faults < MaxFaults /\ faults' = faults + 1
  /\ flying' = IF probe THEN flying ELSE [flying EXCEPT ![s] = @ - 1]
  /\ pending' = Requeued(s)
  /\ refused' = IF s \in ToSet(pending') \/ flying'[s] > 0 THEN refused ELSE refused \union {s}
  /\ UNCHANGED <<client, table, closed>>

Next ==
  \/ \E to \in Sequence, copies \in 1..Copies : Issue(to, copies)
  \/ \E f \in Frame : FrameArrives(f)
  \/ SendRetire
  \/ \E s \in Sequence : RetireArrives(s)
  \/ \E s \in Sequence : Acked(s)
  \/ \E s \in Sequence, probe \in BOOLEAN : Lost(s, probe)

Spec == Init /\ [][Next]_vars
----------------------------------------------------------------------------
(* Properties                                                              *)

TypeOK ==
  /\ {issued, prior, priorTo} \subseteq Sequence /\ told \subseteq Sequence
  /\ peer \subseteq Sequence /\ current \in Sequence \union {None} /\ {retired, refused} \subseteq SUBSET Sequence
  /\ frames \in [Frame -> 0..Copies] /\ flying \in [Sequence -> 0..(MaxFaults + Copies + 1)]
  /\ pending \in Seq(Sequence) /\ Len(pending) <= Ring /\ Cardinality(peer) <= Limit /\ closed \in BOOLEAN

\* However frames are reordered and repeated, the server sends to an ID that
\* is active in its table and that the client accepts still, not having been
\* told it is given up (addPeerAt, prune).
SendsToAccepted == ~closed => current \in peer /\ current \notin told

\* "Retire Prior To retires every older ID at once: each is queued for this
\* side to send RETIRE_CONNECTION_ID for": an ID the server gave up is queued,
\* in flight or confirmed, losses and probes included.  addPeerAt counts first,
\* so that what it queues has room; requeueControl does not, and the exception
\* is an ID whose last packet was lost while the ring was full (queueRetire,
\* "unless it is queued already or the ring is full").
NothingForgotten ==
  ~closed => \A s \in retired : s \in ToSet(pending) \/ flying[s] > 0 \/ s \in told \union refused

\* The IDs the client gave are used and given up as it may expect.
PeerIdsAccepted == TypeOK /\ SendsToAccepted /\ NothingForgotten
=============================================================================
