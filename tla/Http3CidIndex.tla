--------------------------- MODULE Http3CidIndex ----------------------------
(***************************************************************************)
(* The index by which an HTTP/3 server routes a datagram to the slot that  *)
(* owns its Destination Connection ID (std/net/http3-server.ts): a table   *)
(* of linear probing whose removals move later entries back, and the       *)
(* refiling of a slot's IDs after each datagram, skipped when a signature  *)
(* of them has not changed.  Connections (std/net/quic.ts) issue IDs, lose *)
(* retired ones, and own the client's original DCID until the handshake is *)
(* done.  The hash is keyed with random bytes: where each ID is homed is   *)
(* chosen in the initial state.  IDs this side draws are taken to be       *)
(* distinct from every ID in use.                                          *)
(***************************************************************************)
EXTENDS Integers, FiniteSets, FiniteSetsExt

CONSTANTS
  Slots,       \* how many slots the pool has
  Locals,      \* QUIC_CONN_LOCAL_CIDS: local IDs of a connection
  Size,        \* places of the table, a power of two
  IDs,         \* connection IDs
  Homes,       \* the hashes to consider: functions from IDs to places
  MaxIssued    \* QUIC_CONN_MAX_ISSUED_CIDS

Keys == Locals + 1
Slot == 0..(Slots - 1)
Entry == 0..(Slots * Keys - 1)
Place == 0..(Size - 1)
None == -1

\* The table has two places for every key (Size >= 2 * Slots * Keys).

VARIABLES
  home,    \* where the probe for an ID starts
  index,   \* the table, and the ID each entry is filed as
  held,    \* the slots that hold a connection
  conn,    \* slot -> the connection's IDs
  sign     \* slot -> the signature its IDs were last filed under, empty for none

vars == <<home, index, held, conn, sign>>

\* QuicConnection.reset(): no ID yet.
Fresh == [local |-> [j \in 0..(Locals - 1) |-> None], issued |-> 0, original |-> None, complete |-> FALSE]

Init ==
  /\ home \in Homes
  /\ index = [table |-> [p \in Place |-> None], key |-> [e \in Entry |-> None]]
  /\ held = {} /\ conn = [s \in Slot |-> Fresh] /\ sign = [s \in Slot |-> <<>>]

----------------------------------------------------------------------------
(* The table.                                                              *)

Probe(from, n) == (from + n) % Size

\* The first of the places `stops` that a probe from `from` comes to, or None.
FirstStop(from, stops) ==
  LET hits == {n \in 0..(Size - 1) : Probe(from, n) \in stops}
  IN IF hits = {} THEN None ELSE Probe(from, Min(hits))

\* find(): the slot that owns id.
Find(ix, id) ==
  LET p == FirstStop(home[id], {q \in Place : ix.table[q] = None \/ ix.key[ix.table[q]] = id})
  IN IF p = None THEN None
     ELSE IF ix.table[p] = None THEN None ELSE ix.table[p] \div Keys

\* insert(): an ID filed already is left where it is.
Insert(ix, e, id) ==
  LET p == FirstStop(home[id], {q \in Place : ix.table[q] = None})
  IN IF Find(ix, id) # None THEN ix
     ELSE [table |-> IF p = None THEN ix.table ELSE [ix.table EXCEPT ![p] = e],
           key   |-> [ix.key EXCEPT ![e] = id]]

\* Mutant: an entry moves back only over its own home.
MayMove_Home(h, hole, next) == h = hole

\* remove(): an entry may move into the hole when its home is not between the
\* hole and it.
MayMove(h, hole, next) == (hole - h) % Size < (next - h) % Size

\* remove(): the table once the place `at` is emptied, later entries of the
\* run moved back.
Close(ix, at) ==
  LET step[n \in 0..Size] ==
        IF n = 0 THEN [table |-> ix.table, hole |-> at, next |-> Probe(at, 1), on |-> TRUE]
        ELSE LET q == step[n - 1]
                 other == q.table[q.next]
             IN IF ~q.on \/ other = None THEN [q EXCEPT !.on = FALSE]
                ELSE IF MayMove(home[ix.key[other]], q.hole, q.next)
                     THEN [q EXCEPT !.table[q.hole] = other, !.hole = q.next, !.next = Probe(@, 1)]
                     ELSE [q EXCEPT !.next = Probe(@, 1)]
      end == step[Size]
  IN [end.table EXCEPT ![end.hole] = None]

\* remove()
Remove(ix, e) ==
  LET p == FirstStop(home[ix.key[e]], {q \in Place : ix.table[q] \in {None, e}})
      key == [ix.key EXCEPT ![e] = None]
  IN IF ix.key[e] = None THEN ix
     ELSE IF p = None THEN [ix EXCEPT !.key = key]
     ELSE IF ix.table[p] = None THEN [ix EXCEPT !.key = key]
     ELSE [table |-> Close(ix, p), key |-> key]

----------------------------------------------------------------------------
(* The slots.                                                              *)

\* unindex()
Unindex(ix, s) ==
  LET gone[j \in 0..Keys] == IF j = 0 THEN ix ELSE Remove(gone[j - 1], s * Keys + j - 1)
  IN gone[Keys]

Active(c) == {j \in DOMAIN c.local : c.local[j] # None}

\* refile()'s signature, whose four fields do not overlap.
Signature(c) == <<c.issued, Cardinality(Active(c)), c.original # None, c.complete>>

\* refile()
Refiled(ix, s, c) ==
  LET filed[j \in 0..Locals] ==
        IF j = 0 THEN Unindex(ix, s)
        ELSE IF c.local[j - 1] = None THEN filed[j - 1]
        ELSE Insert(filed[j - 1], s * Keys + j - 1, c.local[j - 1])
  IN IF ~c.complete /\ c.original # None
     THEN Insert(filed[Locals], s * Keys + Locals, c.original) ELSE filed[Locals]

Refile(s, c, last) ==
  /\ conn' = [conn EXCEPT ![s] = c]
  /\ sign' = [sign EXCEPT ![s] = Signature(c)]
  /\ index' = IF Signature(c) = last THEN index ELSE Refiled(index, s, c)

\* ownsConnectionIdAt(): the IDs a datagram reaches connection c by.
Owned(c) == {c.local[j] : j \in Active(c)} \union (IF c.complete \/ c.original = None THEN {} ELSE {c.original})
InUse == UNION {Owned(conn[s]) : s \in held}

\* topUpConnectionIds(): the connections c may become, new IDs in its free
\* places until all are taken or no more are issued.
ToppedUp(c, taken) ==
  LET room == {j \in DOMAIN c.local : c.local[j] = None}
      n    == Min({Cardinality(room), MaxIssued - c.issued})
      into == {j \in room : Cardinality({i \in room : i < j}) < n}
      draws == {f \in [into -> IDs \ taken] : \A i, j \in into : f[i] = f[j] => i = j}
  IN {[c EXCEPT !.local = [j \in DOMAIN c.local |-> IF j \in into THEN f[j] ELSE c.local[j]],
                !.issued = @ + n] : f \in draws}

\* unowned() and serve() of the first Initial: it opens and starts the
\* connection, or was damaged and unstart() leaves none of its IDs.
Accept(s, id, opens) ==
  /\ s \notin held /\ Find(index, id) = None
  /\ held' = held \union {s}
  /\ \E first \in IDs \ (InUse \union {id}) :
       Refile(s, IF opens THEN [Fresh EXCEPT !.local[0] = first, !.issued = 1, !.original = id] ELSE Fresh, <<>>)
  /\ UNCHANGED home

\* serve(): a datagram sent to one of the slot's IDs completes the handshake
\* or retires other local IDs, and IDs are topped up.
Serve(id) ==
  LET s == Find(index, id)
      c == conn[s]
  IN /\ s # None
     /\ \/ /\ ~c.complete
           /\ \E d \in ToppedUp([c EXCEPT !.complete = TRUE], InUse) : Refile(s, d, sign[s])
        \/ /\ c.complete
           /\ \E gone \in SUBSET {j \in Active(c) : c.local[j] # id} :
                LET left == [c EXCEPT !.local = [j \in DOMAIN c.local |-> IF j \in gone THEN None ELSE c.local[j]]]
                IN /\ gone # {}
                   /\ \E d \in ToppedUp(left, InUse) : Refile(s, d, sign[s])
     /\ UNCHANGED <<home, held>>

\* release(); what the slot's connection and signature were is not read again,
\* unowned() sets both.
Release(s) ==
  /\ s \in held /\ held' = held \ {s}
  /\ index' = Unindex(index, s)
  /\ conn' = [conn EXCEPT ![s] = Fresh] /\ sign' = [sign EXCEPT ![s] = <<>>]
  /\ UNCHANGED home

Next ==
  \/ \E s \in Slot, id \in IDs, opens \in BOOLEAN : Accept(s, id, opens)
  \/ \E id \in IDs : Serve(id)
  \/ \E s \in Slot : Release(s)

Spec == Init /\ [][Next]_vars

----------------------------------------------------------------------------
(* Properties                                                              *)

TypeOK ==
  /\ home \in [IDs -> Place] /\ held \subseteq Slot
  /\ index.table \in [Place -> Entry \union {None}] /\ index.key \in [Entry -> IDs \union {None}]
  /\ \A s \in Slot : conn[s].issued \in 0..MaxIssued /\ conn[s].complete \in BOOLEAN
  /\ \A s \in Slot \ held : conn[s] = Fresh

\* After any run of insertions and removals, wrapping round the table's end
\* and through shared runs, an ID is found at the slot whose connection owns
\* it and at no other, and one nobody owns any more is not found (find,
\* insert, remove, refile, release).
RoutesToOwner ==
  \A id \in IDs :
    LET owners == {s \in held : id \in Owned(conn[s])}
    IN owners = IF Find(index, id) = None THEN {} ELSE {Find(index, id)}

\* The table holds an entry exactly once while it is filed and not at all
\* after: removals leave neither a copy nor a stranger behind that would use
\* up its places (insert, remove).
FiledOnce ==
  \A e \in Entry : Cardinality({p \in Place : index.table[p] = e}) = IF index.key[e] = None THEN 0 ELSE 1

\* The index is sound: an ID leads to the connection that owns it, and no
\* removal leaves an entry behind (find, insert, remove).
IndexSound == TypeOK /\ RoutesToOwner /\ FiledOnce
=============================================================================
