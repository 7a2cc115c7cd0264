------------------------------- MODULE Upstream -------------------------------
(***************************************************************************)
(* The pool of kept-alive connections to one origin, std/net/upstream.ts:  *)
(* calls wait for a connection, are sent, answered, retried once where a   *)
(* reused connection drops them, and ended by their deadline; the program  *)
(* takes and releases them.  A turn of the handler's loop services the     *)
(* connections one by one, ends what is late and dispatches what waits; a  *)
(* step is one of these, and the origin acts between any two.              *)
(*                                                                         *)
(* A call has a number that says which one it is and orders the deadlines. *)
(* A response is a part and an end; each is marked with the call the       *)
(* origin sent it for, or with none.  What nobody asked for may have been  *)
(* under way when the pool looked, and arrive after the next call was      *)
(* sent.  Lengths, heads and bodies are left out.                          *)
(***************************************************************************)
EXTENDS Integers, Sequences, SequencesExt, FiniteSets, FiniteSetsExt

CONSTANTS
  Slots, Conns,     \* how many calls and connections there is room for
  MaxCalls,         \* bound: the calls made
  MaxInbox          \* bound: what the origin has sent and nobody has read

\* The constructor asks for a slot and a connection at least.
PoolSizes == {Slots, Conns} \subseteq Nat \ {0} /\ {MaxCalls, MaxInbox} \subseteq Nat

Calls == 1..MaxCalls
None == 0

VARIABLES
  pool,      \* the pool's fields, and beside them what the origin holds and what has happened
  pc, at,    \* where a turn is, and at which connection
  late       \* the calls up to this one are past their deadline

vars == <<pool, pc, at, late>>

\* What has arrived, the calls the origin has to answer, whether the socket is
\* closed, and a ghost: that bytes nobody asked for came while it had a call.
Quiet == [inbox |-> <<>>, asked |-> <<>>, closed |-> "no", stray |-> FALSE]
\* A call, and of what it was given what was not sent for it.
Blank == [id |-> None, retried |-> FALSE, ok |-> FALSE, others |-> {}]
Closed == [state |-> "closed", call |-> None, sent |-> FALSE, reused |-> FALSE, answered |-> FALSE]

Init ==
  /\ pool = [call |-> [s \in 1..Slots |-> Blank], free |-> [k \in 1..Slots |-> Slots + 1 - k],
             waiting |-> <<>>, done |-> <<>>, taken |-> {}, conn |-> [c \in 1..Conns |-> Closed],
             net |-> [c \in 1..Conns |-> Quiet],    \* each connection as the origin and the socket hold it
             ends |-> [i \in Calls |-> 0],          \* ghost: how often each call has ended
             tries |-> [i \in Calls |-> 0]]         \* ghost: how often each call was sent
  /\ pc = "app" /\ at = 1 /\ late = 0

Known(w) == {i \in Calls : w.tries[i] > 0 \/ w.ends[i] > 0 \/ \E s \in 1..Slots : w.call[s].id = i}
Made == Cardinality(Known(pool))
-----------------------------------------------------------------------------
\* The private methods, each from a pool to the next, or to those it may be.

\* end(r, code).
End(w, s, ok) == [w EXCEPT !.call[s].ok = ok, !.call[s].others = IF ok THEN @ ELSE {},
                           !.done = Append(@, s), !.ends[w.call[s].id] = @ + 1]

\* close(c), of a connection without a call, and a connection left idle; the
\* fields that dispatch sets again are cleared here.
Rests(w, c, state) == [w EXCEPT !.conn[c] = [Closed EXCEPT !.state = state, !.call = w.conn[c].call]]
Close(w, c) == [Rests(w, c, "closed") EXCEPT !.net[c] = Quiet]

Retried(call) == [call EXCEPT !.retried = TRUE]

Unusable(code) == code # "none"

Retries(w, c, code) ==
  /\ code \notin {"none", "timeout"}
  /\ w.conn[c].reused /\ ~w.conn[c].answered /\ ~w.call[w.conn[c].call].retried

Parted(w, c) == [w EXCEPT !.conn[c].call = None]
Again(w, s) == [w EXCEPT !.call[s] = Retried(@), !.waiting = <<s>> \o @]

\* finish(c, code), of a connection with a call.
Finish(w, c, code) ==
  LET s == w.conn[c].call
      v == Parted(w, c)
      u == IF Retries(w, c, code)
           THEN Again(v, s)
           ELSE End(v, s, code = "none")
  IN  IF Unusable(code) THEN Close(u, c) ELSE Rests(u, c, "idle")

\* send(c): the whole head, some of it, or a write that fails.
Sends(w, c) ==
  LET id == w.call[w.conn[c].call].id
      v == [w EXCEPT !.net[c].asked = IF w.conn[c].state = "busy" THEN @ ELSE Append(@, id),
                     !.conn[c].state = "busy"]
  IN  {[v EXCEPT !.conn[c].sent = TRUE], v, Finish(w, c, "closed")}

\* receive(c) and parse(c): all that has arrived.
Endings(box) == {i \in 1..Len(box) : box[i].kind # "part"}

\* What of it is read for the call: all, or up to the end of its response.
Upto(box) == IF Endings(box) = {} THEN Len(box) ELSE Min(Endings(box))

\* What is known of it: who it was sent for, and whether the connection was
\* astray.
Mark(piece) == [for |-> piece.for, stray |-> piece.stray]

\* Of what is read, what was not sent for the call.
Strange(box, id) == {Mark(box[k]) : k \in {j \in 1..Upto(box) : box[j].for # id}}

\* It is fed to the parser, and what came before the end is the call's.
Read(w, c) ==
  LET box == w.net[c].inbox IN
  [w EXCEPT !.net[c].inbox = <<>>, !.conn[c].answered = @ \/ Upto(box) > 0,
            !.call[w.conn[c].call].others = @ \cup Strange(box, w.call[w.conn[c].call].id)]

Receives(w, c) ==
  LET box == w.net[c].inbox
      closed == w.net[c].closed
      called == w.conn[c].call # None
      read == Read(w, c)
      ended == Finish(read, c, "none")
  IN  CASE ~called -> {IF box # <<>> \/ closed # "no" THEN Close(w, c) ELSE w}
        [] called /\ Endings(box) # {} ->
             IF box[Upto(box)].kind = "bad" THEN {Finish(read, c, "error")}
             ELSE {Close(ended, c)} \cup (IF Upto(box) = Len(box) /\ closed = "no" THEN {ended} ELSE {})
        [] called /\ Endings(box) = {} /\ closed = "no" -> {read}
        [] called /\ Endings(box) = {} /\ closed = "reset" -> {Finish(read, c, "reset")}
        [] called /\ Endings(box) = {} /\ closed = "fin" ->
             {Finish(read, c, "closed")} \cup
             (IF read.conn[c].answered THEN {Close(ended, c)} ELSE {})   \* a body the close ends
-----------------------------------------------------------------------------
\* get(req, path): a call is made and waits, or ends at once.
Get(usable) ==
  /\ pc = "app" /\ pool.free # <<>> /\ Made < MaxCalls
  /\ LET s == pool.free[Len(pool.free)]
         w == [pool EXCEPT !.free = SubSeq(@, 1, Len(@) - 1),
                           !.call[s] = [Blank EXCEPT !.id = Made + 1]]
     IN  /\ pool' = IF usable THEN [w EXCEPT !.waiting = Append(@, s)] ELSE End(w, s, FALSE)
         /\ pc' = IF usable THEN "dispatch" ELSE "app"
  /\ UNCHANGED <<at, late>>

\* take().  What the call was given is the program's from here.
Take ==
  /\ pc = "app" /\ pool.done # <<>>
  /\ pool' = [pool EXCEPT !.done = Tail(@), !.taken = @ \cup {Head(pool.done)},
                          !.call[Head(pool.done)] = [Blank EXCEPT !.id = pool.call[Head(pool.done)].id]]
  /\ UNCHANGED <<pc, at, late>>

\* release(r).  get sets the fields of a call again, so they are cleared here.
Release(s) ==
  /\ pc = "app" /\ s \in pool.taken
  /\ pool' = [pool EXCEPT !.taken = @ \ {s}, !.free = Append(@, s), !.call[s] = Blank]
  /\ UNCHANGED <<pc, at, late>>

\* ready(), first in a turn: pump().
Turn ==
  /\ pc = "app"
  /\ pc' = "service" /\ at' = 1
  /\ UNCHANGED <<pool, late>>

Step(here, there) ==
  IF at < Conns THEN at' = at + 1 /\ pc' = here ELSE at' = 1 /\ pc' = there

\* service(c) of connection `at`, where the loop fired for it.
Service ==
  /\ pc = "service" /\ pool.conn[at].state # "closed"
  /\ LET c == pool.conn[at] IN
     pool' \in CASE c.state = "connecting" -> Sends(pool, at) \cup {Finish(pool, at, "connect")}
                 [] c.state = "busy" /\ ~c.sent -> Sends(pool, at)
                 [] OTHER -> Receives(pool, at)
  /\ Step("service", "deadline")
  /\ UNCHANGED late

\* The loop is level-triggered: where it did not fire there is nothing to read
\* yet.
NotFired ==
  /\ pc = "service"
  /\ pool.net[at].inbox = <<>> /\ pool.net[at].closed = "no"
  /\ Step("service", "deadline")
  /\ UNCHANGED <<pool, late>>

Late(s) == pool.call[s].id <= late

Overdue(c) == pool.conn[c].call # None /\ Late(pool.conn[c].call)

\* The deadline of the call of connection `at`.
Deadline ==
  /\ pc = "deadline"
  /\ IF Overdue(at) THEN pool' = Finish(pool, at, "timeout")
     ELSE UNCHANGED pool
  /\ Step("deadline", "expire")
  /\ UNCHANGED late

\* The first of the waiting calls, while it is late.
Expire ==
  /\ pc = "expire"
  /\ IF pool.waiting # <<>> /\ Late(Head(pool.waiting))
     THEN pool' = End([pool EXCEPT !.waiting = Tail(@)], Head(pool.waiting), FALSE) /\ pc' = pc
     ELSE pc' = "dispatch" /\ UNCHANGED pool
  /\ UNCHANGED <<at, late>>
-----------------------------------------------------------------------------
\* Mutant: an idle connection is taken without a look at it.
Usable_Unread(c) == pool.conn[c].state = "idle"

\* usable(c): nothing but would-block may be read from it.
Usable(c) == pool.conn[c].state = "idle" /\ pool.net[c].inbox = <<>> /\ pool.net[c].closed = "no"

\* idle(): the first idle connection that is usable; the ones found unusable
\* on the way are closed.  Else the first that is closed by then.
Good == {c \in 1..Conns : Usable(c)}
Dropped == {c \in 1..Conns : pool.conn[c].state = "idle" /\ ~Usable(c) /\ (Good # {} => c < Min(Good))}
Openable == Dropped \cup {c \in 1..Conns : pool.conn[c].state = "closed"}
Looked == [pool EXCEPT !.conn = [c \in 1..Conns |-> IF c \in Dropped THEN Closed ELSE pool.conn[c]],
                       !.net = [c \in 1..Conns |-> IF c \in Dropped THEN Quiet ELSE pool.net[c]]]

\* The first call that waits is given the connection c.
Assigned(s, c) ==
  [Looked EXCEPT !.waiting = Tail(@), !.tries[pool.call[s].id] = @ + 1,
                 !.conn[c] = [Closed EXCEPT !.state = Looked.conn[c].state, !.call = s, !.reused = Good # {}]]

\* dispatch(), a turn of its loop.
Dispatch ==
  /\ pc = "dispatch" /\ pool.waiting # <<>> /\ Good \cup Openable # {}
  /\ LET s == Head(pool.waiting)
         c == IF Good # {} THEN Min(Good) ELSE Min(Openable)
         w == Assigned(s, c)
     IN  pool' \in IF Good # {} THEN Sends(w, c)
                   ELSE {[w EXCEPT !.conn[c].state = "connecting"], Finish(w, c, "connect")}
  /\ UNCHANGED <<pc, at, late>>

Dispatched ==
  /\ pc = "dispatch" /\ (pool.waiting = <<>> \/ Good \cup Openable = {})
  /\ pc' = "app"
  /\ UNCHANGED <<pool, at, late>>
-----------------------------------------------------------------------------
\* What the origin does is first seen where the pool reads the socket: when it
\* services the connection, and when it looks at an idle one.  Nothing else
\* tells when it happened.
Seen(c) ==
  \/ pool.conn[c].state = "busy" /\ pool.conn[c].sent /\ pc = "service" /\ at = c
  \/ pool.conn[c].state = "idle" /\ (pc = "service" => at = c) /\ pc \in {"service", "dispatch"}

\* Bound: what is unread.  One piece tells all there is to see of an idle one.
Room(c) == IF pool.conn[c].call = None THEN 1 ELSE MaxInbox

\* A piece arrives: of the answer that is due next, or one nobody asked for.
Arrives(n, due, kind, called) ==
  LET stray == n.stray \/ (called /\ ~due) IN
  [n EXCEPT !.inbox = Append(@, [for |-> IF due THEN Head(n.asked) ELSE None, kind |-> kind, stray |-> stray]),
            !.asked = IF due /\ kind # "part" THEN Tail(@) ELSE @,
            !.stray = stray]

\* The origin answers what it was asked, well or badly, in the order it was
\* asked; or what it sent unasked arrives, whether a call is there or not.
Origin(c) ==
  /\ Seen(c) /\ pool.net[c].closed = "no"
  /\ Len(pool.net[c].inbox) < Room(c)
  /\ \E due \in BOOLEAN, kind \in {"part", "end", "bad"} :
       /\ due => pool.net[c].asked # <<>>
       /\ pool' = [pool EXCEPT !.net[c] = Arrives(@, due, kind, pool.conn[c].call # None)]
  /\ UNCHANGED <<pc, at, late>>

\* The connection is closed or reset from outside; a reset may lose what arrived.
Drop(c) ==
  /\ Seen(c) /\ pool.net[c].closed = "no"
  /\ \E how \in {"fin", "reset"}, kept \in BOOLEAN :
       /\ how = "fin" => kept
       /\ pool' = [pool EXCEPT !.net[c].inbox = IF kept THEN @ ELSE <<>>, !.net[c].closed = how]
  /\ UNCHANGED <<pc, at, late>>

\* Time passes; a turn reads the clock once, whatever it services before.
Age ==
  /\ pc = "app" /\ late < Made
  /\ late' = late + 1
  /\ UNCHANGED <<pool, pc, at>>

Running == Service \/ NotFired \/ Deadline \/ Expire \/ Dispatch \/ Dispatched

Next ==
  \/ \E usable \in BOOLEAN : Get(usable)
  \/ Take \/ (\E s \in 1..Slots : Release(s)) \/ Turn \/ Running
  \/ (\E c \in 1..Conns : Origin(c) \/ Drop(c)) \/ Age

Spec == Init /\ [][Next]_vars
-----------------------------------------------------------------------------

TypeOK ==
  /\ pool.call \in [1..Slots -> [id : 0..MaxCalls, retried : BOOLEAN, ok : BOOLEAN,
                                  others : SUBSET [for : 0..MaxCalls, stray : BOOLEAN]]]
  /\ {pool.free, pool.waiting, pool.done} \subseteq BoundedSeq(1..Slots, Slots)
  /\ pool.taken \subseteq 1..Slots
  /\ pool.conn \in [1..Conns -> [state : {"closed", "connecting", "busy", "idle"}, call : 0..Slots,
                                 sent : BOOLEAN, reused : BOOLEAN, answered : BOOLEAN]]
  /\ pc \in {"app", "service", "deadline", "expire", "dispatch"} /\ at \in 1..Conns /\ late \in 0..MaxCalls

\* Every slot is in one place: free, waiting, on one connection, done or taken.
\* No interleaving of drops, retries, timeouts and reuse loses a call or hands
\* it out twice (finish, end, dispatch, release).
PlaceOnce ==
  \A s \in 1..Slots :
    Cardinality({<<"free", k>> : k \in {k \in DOMAIN pool.free : pool.free[k] = s}}
      \cup {<<"waiting", k>> : k \in {k \in DOMAIN pool.waiting : pool.waiting[k] = s}}
      \cup {<<"done", k>> : k \in {k \in DOMAIN pool.done : pool.done[k] = s}}
      \cup {<<"conn", c>> : c \in {c \in 1..Conns : pool.conn[c].call = s}}
      \cup {<<"taken", s>> : t \in pool.taken \cap {s}}) = 1

\* A call that ends well was given only what the origin sent for it, neither
\* the late answer of a call that timed out nor what came on the connection
\* while it was idle, unless bytes that nobody asked for had come on it while
\* it had a call (pump, usable, parse).
AnswersOwn ==
  \A s \in Range(pool.done) : pool.call[s].ok => \A p \in pool.call[s].others : p.stray

\* A kept-alive connection is checked before it is reused, "so no call is
\* written to a dead socket or handed bytes it did not ask for" (usable, which
\* sees what has arrived by then).
OnlyAsked ==
  \A c \in 1..Conns : pool.conn[c].reused => pool.call[pool.conn[c].call].others = {}

\* A call is sent at most twice, and ends once (finish, "at most once").
AtMostTwice == \A i \in Calls : pool.tries[i] <= 2 /\ pool.ends[i] <= 1

\* Calls are kept: each in one place, answered by its own answer, sent twice at
\* most.
CallsKept == TypeOK /\ PlaceOnce /\ AnswersOwn /\ AtMostTwice
=============================================================================
