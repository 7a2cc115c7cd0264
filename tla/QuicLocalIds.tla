---------------------------- MODULE QuicLocalIds ----------------------------
(***************************************************************************)
(* The connection IDs a QUIC server gives a client to send to              *)
(* (std/net/quic-conn-cid.ts as std/net/quic.ts drives it): issued up to   *)
(* the client's limit, announced in NEW_CONNECTION_ID frames, announced    *)
(* again when a packet is found lost, retired by the client and replaced.  *)
(* The client is external: it sends to any ID it holds and retires those   *)
(* it pleases, but the last.  Packets are lost, reordered, and found lost  *)
(* though they arrive.  An ID is its sequence number.                      *)
(***************************************************************************)
EXTENDS Integers, FiniteSets, FiniteSetsExt

CONSTANTS
  Want,        \* IDs the client takes at once, at most QUIC_CONN_LOCAL_CIDS
  MaxIssued,   \* QUIC_CONN_MAX_ISSUED_CIDS
  MaxFaults    \* bound: packets lost, or found lost

\* The client takes one ID at least, and the server issues what it takes.
IdLimits == Want \in Nat \ {0} /\ MaxIssued \in Nat /\ Want <= MaxIssued

Sequence == 0..(MaxIssued - 1)

VARIABLES
  local,      \* server: sequence numbers of its active IDs
  announced,  \* server: those of them a frame announced
  next,       \* server: the next sequence number
  closed,     \* server: whether it closed the connection with an error
  news,       \* NEW_CONNECTION_ID frames in flight
  sent,       \* server: frames whose packets are neither acknowledged nor lost
  holds,      \* client: IDs it holds and has not retired
  gone,       \* client: IDs it retired
  retires,    \* RETIRE_CONNECTION_ID frames in flight: <<sequence, ID the packet was sent to>>
  owed,       \* client: retirements not acknowledged
  faults      \* history: packets lost, or found lost

server == <<local, announced, next, closed>>
client == <<holds, gone, owed>>
vars == <<server, client, news, sent, retires, faults>>

\* How many IDs topUpConnectionIds() may add.
Missing == Want - Cardinality(local)

\* topUpConnectionIds() with addLocal(): ids are the active ones left.
TopUp(ids) ==
  LET n == Min({Missing + Cardinality(local) - Cardinality(ids), MaxIssued - next})
      more == IF n > 0 THEN next..(next + n - 1) ELSE {}
  IN local' = ids \union more /\ next' = next + Cardinality(more)

\* establish(), and the handshake is complete: the first ID, which travels in
\* the long header, and the others to announce.
Init ==
  /\ local = 0..(Want - 1) /\ announced = {0} /\ next = Want /\ closed = FALSE
  /\ news = {} /\ sent = {} /\ holds = {0} /\ gone = {} /\ retires = {} /\ owed = {} /\ faults = 0

\* buildApplication(): the oldest ID not announced, nextUnannounced().
Announce ==
  LET rest == local \ announced
  IN /\ ~closed /\ rest # {}
     /\ announced' = announced \union {Min(rest)}
     /\ news' = news \union {Min(rest)} /\ sent' = sent \union {Min(rest)}
     /\ UNCHANGED <<local, next, closed, client, retires, faults>>

\* The client learns of an ID; a repeat of one it holds or has retired is nothing new.
Learn(s) ==
  /\ s \in news /\ news' = news \ {s}
  /\ holds' = holds \union ({s} \ gone)
  /\ UNCHANGED <<server, gone, owed, sent, retires, faults>>

\* The packet that announced it is acknowledged.
AnnounceAcked(s) ==
  /\ ~closed /\ s \in sent /\ s \in holds \union gone /\ sent' = sent \ {s}
  /\ UNCHANGED <<server, client, news, retires, faults>>

\* requeueControl(): an ID still active is to be announced again.
Reannounced(s) == IF s \in local THEN announced \ {s} ELSE announced

\* The packet is found lost, and is, or comes late.
AnnounceLost(s, late) ==
  /\ ~closed /\ s \in sent /\ faults < MaxFaults /\ faults' = faults + 1
  /\ sent' = sent \ {s} /\ announced' = Reannounced(s)
  /\ news' = IF late THEN news ELSE news \ {s}
  /\ UNCHANGED <<local, next, closed, client, retires>>

\* The client retires an ID in a packet it sends to another.
Retire(s, to) ==
  /\ ~closed /\ {s, to} \subseteq holds /\ s # to
  /\ holds' = holds \ {s} /\ gone' = gone \union {s} /\ owed' = owed \union {s}
  /\ retires' = retires \union {<<s, to>>}
  /\ UNCHANGED <<server, news, sent, faults>>

\* It sends the retirement again, to an ID it holds now.
RetireAgain(s, to) ==
  /\ ~closed /\ s \in owed /\ to \in holds /\ \A r \in retires : r[1] # s
  /\ retires' = retires \union {<<s, to>>}
  /\ UNCHANGED <<server, client, news, sent, faults>>

\* A packet with a retirement is lost, and the client may find it lost.
RetireLost(r) ==
  /\ r \in retires /\ faults < MaxFaults /\ faults' = faults + 1
  /\ retires' = retires \ {r}
  /\ UNCHANGED <<server, client, news, sent>>

\* addressedHere(): a short header to an active ID.
AddressedHere(to) == to \in local

\* retireLocal() refuses an ID never issued and the ID the packet was sent to.
Refused(s, to) == s >= next \/ (s \in local /\ s = to)

\* Mutant: older IDs are retired with it.
Without_Older(s) == {id \in local : id > s}

\* retireLocal(): the IDs left.
Without(s) == local \ {s}

\* A packet with a retirement arrives: it is dropped unless it was sent to an
\* active ID; an ID retireLocal() takes out is replaced.  The acknowledgement
\* may be lost.
RetireArrives(r, acked) ==
  LET s == r[1]
      to == r[2]
  IN /\ ~closed /\ r \in retires /\ retires' = retires \ {r}
     /\ \/ ~AddressedHere(to) /\ UNCHANGED <<server, owed>>
        \/ /\ AddressedHere(to) /\ closed' = Refused(s, to)
           /\ owed' = IF acked THEN owed \ {s} ELSE owed
           /\ IF closed' THEN UNCHANGED <<local, next, announced>>
              ELSE TopUp(Without(s)) /\ announced' = announced \ {s}
     /\ faults' = IF acked THEN faults ELSE faults + 1
     /\ UNCHANGED <<holds, gone, news, sent>>

Next ==
  \/ Announce
  \/ \E s \in Sequence : Learn(s) \/ AnnounceAcked(s)
  \/ \E s \in Sequence, late \in BOOLEAN : AnnounceLost(s, late)
  \/ \E s, to \in Sequence : Retire(s, to)
  \/ \E s, to \in Sequence : RetireAgain(s, to)
  \/ \E r \in Sequence \X Sequence : RetireLost(r) \/ RetireArrives(r, TRUE)
  \/ faults < MaxFaults /\ \E r \in Sequence \X Sequence : RetireArrives(r, FALSE)

Spec == Init /\ [][Next]_vars
----------------------------------------------------------------------------
(* Properties                                                              *)

TypeOK ==
  /\ local \subseteq Sequence /\ announced \subseteq Sequence /\ next \in 0..MaxIssued
  /\ closed \in BOOLEAN /\ news \subseteq Sequence /\ sent \subseteq Sequence
  /\ holds \subseteq Sequence /\ gone \subseteq Sequence /\ owed \subseteq gone
  /\ retires \subseteq Sequence \X Sequence /\ Cardinality(local) <= Want /\ announced \subseteq 0..(next - 1)

\* Every ID the client may still send to is one the server's table has, so a
\* datagram sent to it is routed and accepted, whatever was lost, repeated or
\* overtaken (retireLocal, ownsLocalAt).
StillAccepted == ~closed => holds \subseteq local

\* The client is never given more IDs than it said it takes, replacements
\* that overtake and frames sent again included (topUpConnectionIds).
WithinLimit == Cardinality(holds) <= Want

\* An honest client is never closed on (retireLocal's PROTOCOL_VIOLATION).
HonestStaysOpen == ~closed

LocalIdsAccepted == TypeOK /\ StillAccepted /\ WithinLimit /\ HonestStaysOpen
=============================================================================
