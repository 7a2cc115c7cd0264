----------------------------- MODULE Http3Pool ------------------------------
(***************************************************************************)
(* The slots of an HTTP/3 server (std/net/http3-server.ts): connections    *)
(* come into free slots and leave them, a ready ring names the slots with  *)
(* news for the program, a dirty stack those that flush must send for, and *)
(* a wheel of one-millisecond buckets files each slot under its next       *)
(* deadline.  The wheel is the code's own: linked lists in arrays, a       *)
(* bitmap over the buckets, a cursor.  The loops of tick and flush are     *)
(* steps, between which nothing else happens.  What a connection does is   *)
(* left open: a datagram or the program touches its slot, and a flush      *)
(* finds it closed or answers its next deadline.                           *)
(***************************************************************************)
EXTENDS Integers, Sequences, FiniteSets, SequencesExt

CONSTANTS
  Slots,    \* how many slots the pool has
  Wheel,    \* H3_SERVER_WHEEL: buckets of the wheel
  Word,     \* buckets a word of the bitmap covers
  MaxDelay, \* bound: how far ahead a deadline is
  MaxNow    \* bound: the last millisecond

ASSUME PoolAssumption ==
  /\ {Slots, Wheel, Word, MaxDelay, MaxNow} \subseteq Nat \ {0}
  /\ Wheel % Word = 0

Slot == 0..(Slots - 1)
Bucket == 0..(Wheel - 1)
None == -1

VARIABLES
  now,      \* the caller's millisecond
  held,     \* the slots that hold a connection
  free,     \* the stack of released slots
  used,     \* slots ever accepted into
  ready,    \* the ready ring, oldest first
  dirty,    \* the dirty stack, top last
  queued,   \* slot -> which of the two it is marked to be on
  wheel,    \* the wheel
  doing,    \* the loop being run, "idle" outside both
  steps,    \* buckets the tick has run
  stopped,  \* whether stop was called
  news,     \* history: held slots touched since ready last answered them
  owing,    \* history: held slots to be flushed
  want,     \* history: the deadline each held slot waits for, or None
  ticked    \* history: whether a tick has ended in this millisecond

slots == <<held, free, used>>
queues == <<ready, dirty, queued, news, owing>>
vars == <<now, slots, queues, wheel, doing, steps, stopped, want, ticked>>

Init ==
  /\ now = 0 /\ held = {} /\ free = <<>> /\ used = 0
  /\ ready = <<>> /\ dirty = <<>> /\ queued = [s \in Slot |-> {}]
  /\ wheel = [head |-> [b \in Bucket |-> None], bits |-> [x \in 0..(Wheel \div Word - 1) |-> {}],
              nextOf |-> [s \in Slot |-> None], prevOf |-> [s \in Slot |-> None],
              bucketOf |-> [s \in Slot |-> None], dueAt |-> [s \in Slot |-> None], cursor |-> None]
  /\ doing = "idle" /\ steps = 0 /\ stopped = FALSE
  /\ news = {} /\ owing = {} /\ want = [s \in Slot |-> None] /\ ticked = FALSE

----------------------------------------------------------------------------
(* The wheel.                                                              *)

BucketOf(time) == time % Wheel

\* flag()
Flag(w, b, on) ==
  [w EXCEPT !.bits[b \div Word] = IF on THEN @ \union {b % Word} ELSE @ \ {b % Word}]

\* A slot in no bucket.  Its links and deadline stay in the arrays and are not
\* read again before file() writes them: they are modelled as None.
Dead(w, s) == [w EXCEPT !.bucketOf[s] = None, !.nextOf[s] = None, !.prevOf[s] = None, !.dueAt[s] = None]

\* Mutant: the neighbour after the slot keeps pointing back to it.
Unfile_NoBack(w, s) ==
  LET b == w.bucketOf[s]
      p == w.prevOf[s]
      u == IF p # None THEN [w EXCEPT !.nextOf[p] = w.nextOf[s]] ELSE [w EXCEPT !.head[b] = w.nextOf[s]]
      v == IF u.head[b] = None THEN Flag(u, b, FALSE) ELSE u
  IN IF b = None THEN w ELSE Dead(v, s)

\* unfile()
Unfile(w, s) ==
  LET b == w.bucketOf[s]
      p == w.prevOf[s]
      n == w.nextOf[s]
      ahead == IF p # None THEN [w EXCEPT !.nextOf[p] = n] ELSE [w EXCEPT !.head[b] = n]
      back  == IF n # None THEN [ahead EXCEPT !.prevOf[n] = p] ELSE ahead
      marked == IF back.head[b] = None THEN Flag(back, b, FALSE) ELSE back
  IN IF b = None THEN w ELSE Dead(marked, s)

Started(w) == IF w.cursor < 0 THEN [w EXCEPT !.cursor = now] ELSE w

\* The millisecond file() puts a deadline under.
Filed(w, due) ==
  LET at == IF due < w.cursor THEN w.cursor ELSE due
      horizon == w.cursor + Wheel - 1
  IN IF at > horizon THEN horizon ELSE at

\* file()
File(w0, s, due) ==
  LET w == Started(Unfile(w0, s))
      b == BucketOf(Filed(w, due))
      first == w.head[b]
      behind == IF first # None THEN [w EXCEPT !.prevOf[first] = s] ELSE w
  IN IF due < 0 THEN Unfile(w0, s)
     ELSE Flag([behind EXCEPT !.nextOf[s] = first, !.prevOf[s] = None, !.head[b] = s,
                              !.bucketOf[s] = b, !.dueAt[s] = due], b, TRUE)

\* Where next() starts to look.
From(w) == IF w.cursor < 0 THEN now ELSE w.cursor

\* next(): milliseconds to the first filled bucket.
Timeout(w) ==
  LET end == From(w) + Wheel
      scan[time \in From(w)..(end + Word)] ==
        LET b == BucketOf(time)
        IN IF time >= end THEN None
           ELSE IF w.bits[b \div Word] = {} THEN scan[time + Word - (b % Word)]
           ELSE IF w.head[b] # None THEN IF time <= now THEN 0 ELSE time - now
           ELSE scan[time + 1]
  IN scan[From(w)]

----------------------------------------------------------------------------
(* The slots and their queues.                                             *)

\* Mutant: a slot marked already is pushed again.
MarkDirty_Twice(s) ==
  /\ dirty' = IF Len(dirty) < Slots THEN Append(dirty, s) ELSE dirty
  /\ queued' = [queued EXCEPT ![s] = @ \union {"dirty"}]

\* dirty()
MarkDirty(s) ==
  LET room == "dirty" \notin queued[s] /\ Len(dirty) < Slots
  IN /\ dirty' = IF room THEN Append(dirty, s) ELSE dirty
     /\ queued' = [queued EXCEPT ![s] = IF room THEN @ \union {"dirty"} ELSE @]

\* touch() of a held slot
Touched(s) ==
  LET onRing  == "ready" \notin queued[s] /\ Len(ready) < Slots
      onStack == "dirty" \notin queued[s] /\ Len(dirty) < Slots
  IN /\ ready' = IF onRing THEN Append(ready, s) ELSE ready
     /\ dirty' = IF onStack THEN Append(dirty, s) ELSE dirty
     /\ queued' = [queued EXCEPT ![s] = @ \union (IF onRing THEN {"ready"} ELSE {})
                                           \union (IF onStack THEN {"dirty"} ELSE {})]
     /\ news' = news \union {s} /\ owing' = owing \union {s}

\* A datagram for a held slot, served, or the program touches it.
Touch(s) ==
  /\ doing = "idle" /\ s \in held
  /\ Touched(s)
  /\ UNCHANGED <<now, slots, wheel, doing, steps, stopped, want, ticked>>

\* unowned(): an Initial the listener accepts, while a slot is left.
Accept ==
  /\ doing = "idle" /\ ~stopped
  /\ free # <<>> \/ used < Slots
  /\ LET s == IF free # <<>> THEN Last(free) ELSE used
     IN /\ free' = IF free # <<>> THEN Front(free) ELSE free
        /\ used' = IF free # <<>> THEN used ELSE used + 1
        /\ held' = held \union {s}
        /\ want' = [want EXCEPT ![s] = None]
        /\ Touched(s)
  /\ UNCHANGED <<now, wheel, doing, steps, stopped, ticked>>

\* ready(): slots that hold nothing any more are passed over.
Ready ==
  /\ doing = "idle" /\ ready # <<>>
  /\ LET here == {i \in DOMAIN ready : ready[i] \in held}
         upTo == IF here = {} THEN Len(ready) ELSE CHOOSE i \in here : \A j \in here : i <= j
         left == {ready[i] : i \in 1..upTo}
     IN /\ ready' = SubSeq(ready, upTo + 1, Len(ready))
        /\ queued' = [s \in Slot |-> IF s \in left THEN queued[s] \ {"ready"} ELSE queued[s]]
        /\ news' = news \ {ready[upTo]}
  /\ UNCHANGED <<now, slots, dirty, owing, wheel, doing, steps, stopped, want, ticked>>

\* release()
Release(s) == /\ held' = held \ {s} /\ free' = Append(free, s) /\ wheel' = Unfile(wheel, s)

\* flush(): the loop starts.
Flush == doing = "idle" /\ dirty # <<>> /\ doing' = "flush" /\ UNCHANGED <<now, slots, queues, wheel, steps, stopped, want, ticked>>

\* The deadlines a connection may answer: none, or one in the milliseconds to come.
Deadlines == {None} \union (now..(now + MaxDelay))

\* flush(): the slot on top of the stack, and flushSlot() of one that is held:
\* its connection has closed, or has a next deadline.
FlushSlot ==
  /\ doing = "flush" /\ dirty # <<>>
  /\ LET s == Last(dirty)
     IN /\ dirty' = Front(dirty) /\ queued' = [queued EXCEPT ![s] = @ \ {"dirty"}]
        /\ \/ s \notin held /\ UNCHANGED <<slots, wheel, want, news, owing>>
           \/ /\ s \in held /\ Release(s)
              /\ want' = [want EXCEPT ![s] = None] /\ news' = news \ {s} /\ owing' = owing \ {s}
              /\ UNCHANGED used
           \/ /\ s \in held /\ owing' = owing \ {s}
              /\ \E due \in Deadlines : wheel' = File(wheel, s, due) /\ want' = [want EXCEPT ![s] = due]
              /\ UNCHANGED <<slots, news>>
  /\ UNCHANGED <<now, ready, doing, steps, stopped, ticked>>

FlushEnds == doing = "flush" /\ dirty = <<>> /\ doing' = "idle" /\ UNCHANGED <<now, slots, queues, wheel, steps, stopped, want, ticked>>

\* tick(): late by more than a turn, the cursor is a turn ago.
CaughtUp(w) == IF now - w.cursor >= Wheel THEN [w EXCEPT !.cursor = now - (Wheel - 1)] ELSE w

\* tick(): the loop starts.
Tick ==
  /\ doing = "idle" /\ doing' = "tick" /\ steps' = 0
  /\ wheel' = CaughtUp(Started(wheel))
  /\ UNCHANGED <<now, slots, queues, stopped, want, ticked>>

Running == doing = "tick" /\ wheel.cursor <= now /\ steps < Wheel

\* tick(): a slot of the cursor's bucket, taken, is filed again or its timers run.
TickSlot ==
  /\ Running
  /\ LET s == wheel.head[BucketOf(wheel.cursor)]
         w == Unfile(wheel, s)
     IN /\ s # None
        /\ \/ /\ s \notin held \/ wheel.dueAt[s] > now
              /\ wheel' = IF s \in held THEN File(w, s, wheel.dueAt[s]) ELSE w
              /\ UNCHANGED <<dirty, queued, owing, want>>
           \/ /\ s \in held /\ wheel.dueAt[s] <= now
              /\ wheel' = w /\ MarkDirty(s)
              /\ owing' = owing \union {s} /\ want' = [want EXCEPT ![s] = None]
  /\ UNCHANGED <<now, slots, ready, news, doing, steps, stopped, ticked>>

\* tick(): the cursor's bucket is empty.
TickBucket ==
  /\ Running /\ wheel.head[BucketOf(wheel.cursor)] = None
  /\ wheel' = [wheel EXCEPT !.cursor = @ + 1] /\ steps' = steps + 1
  /\ UNCHANGED <<now, slots, queues, doing, stopped, want, ticked>>

TickEnds ==
  /\ doing = "tick" /\ ~Running /\ doing' = "idle" /\ steps' = 0 /\ ticked' = TRUE
  /\ wheel' = IF wheel.cursor <= now THEN [wheel EXCEPT !.cursor = now + 1] ELSE wheel
  /\ UNCHANGED <<now, slots, queues, stopped, want>>

\* stop(): every held slot is released, lowest first.
Stop ==
  /\ doing = "idle" /\ ~stopped /\ stopped' = TRUE
  /\ LET all == SetToSortSeq(held, <)
     IN free' = free \o all /\ wheel' = FoldLeft(Unfile, wheel, all)
  /\ held' = {} /\ news' = {} /\ owing' = {} /\ want' = [s \in Slot |-> None]
  /\ UNCHANGED <<now, used, ready, dirty, queued, doing, steps, ticked>>

\* The program comes back later, on time or not.
Pass ==
  /\ doing = "idle"
  /\ \E t \in (now + 1)..MaxNow : now' = t
  /\ ticked' = FALSE
  /\ UNCHANGED <<slots, queues, wheel, doing, steps, stopped, want>>

Loops == FlushSlot \/ FlushEnds \/ TickSlot \/ TickBucket \/ TickEnds
Calls == (\E s \in Slot : Touch(s)) \/ Accept \/ Ready \/ Flush \/ Tick \/ Stop \/ Pass

Next == Loops \/ Calls

Spec == Init /\ [][Next]_vars

----------------------------------------------------------------------------
(* Properties                                                              *)

TypeOK ==
  /\ now \in 0..MaxNow /\ held \subseteq Slot /\ used \in 0..Slots
  /\ free \in Seq(Slot) /\ ready \in Seq(Slot) /\ dirty \in Seq(Slot)
  /\ Len(ready) <= Slots /\ Len(dirty) <= Slots
  /\ queued \in [Slot -> SUBSET {"ready", "dirty"}]
  /\ wheel.head \in [Bucket -> Slot \union {None}] /\ wheel.bucketOf \in [Slot -> Bucket \union {None}]
  /\ wheel.nextOf \in [Slot -> Slot \union {None}] /\ wheel.prevOf \in [Slot -> Slot \union {None}]
  /\ wheel.bits \in [0..(Wheel \div Word - 1) -> SUBSET (0..(Word - 1))]
  /\ wheel.cursor \in {None} \union (0..(now + 1)) /\ steps \in 0..Wheel
  /\ ticked \in BOOLEAN /\ stopped \in BOOLEAN /\ doing \in {"idle", "tick", "flush"} /\ news \subseteq held /\ owing \subseteq held

\* However slots are accepted, released, stopped and accepted into again, a
\* slot that was ever used is free once or holds a connection (release,
\* unowned, stop).
PoolWhole ==
  /\ held \union ToSet(free) = 0..(used - 1)
  /\ held \intersect ToSet(free) = {} /\ Len(free) = Cardinality(ToSet(free))

\* Marks left by a connection that is gone never hide the next one's: a held
\* slot is on the ready ring, once, exactly when ready has yet to answer it,
\* and on the dirty stack, once, exactly when flush owes it (touch, dirty,
\* ready, flush, release).
NewsKept ==
  /\ IsInjective(ready) /\ IsInjective(dirty)
  /\ ToSet(ready) \intersect held = news /\ ToSet(dirty) \intersect held = owing

Chain(b) ==
  LET at[i \in 0..Slots] == IF i = 0 THEN wheel.head[b] ELSE IF at[i - 1] = None THEN None ELSE wheel.nextOf[at[i - 1]]
  IN at

\* The wheel's lists hold together: the list of a bucket visits each slot
\* filed there and no other, back pointers mirror it, the bitmap has the bits
\* of the buckets that hold any, and only held slots are filed (file, unfile,
\* take, release).
WheelWhole ==
  /\ \A b \in Bucket :
       LET c == Chain(b)
       IN /\ c[Slots] = None
          /\ {c[i] : i \in 0..Slots} \ {None} = {s \in Slot : wheel.bucketOf[s] = b}
          /\ \A i \in 0..(Slots - 1) : c[i] # None => wheel.prevOf[c[i]] = (IF i = 0 THEN None ELSE c[i - 1])
          /\ (c[0] # None) <=> (b % Word \in wheel.bits[b \div Word])
  /\ \A s \in Slot : wheel.bucketOf[s] # None => s \in held

\* The program that sleeps for timeout() is back for every deadline: at it, or
\* in the next millisecond when it has passed, whatever else was filed, late
\* ticks and deadlines past the horizon included (next, file, tick).
WakesInTime ==
  doing = "idle" =>
    \A s \in held : want[s] # None =>
      /\ Timeout(wheel) # None
      /\ now + Timeout(wheel) <= (IF want[s] > now THEN want[s] ELSE now + 1)

\* A program that ticks whenever timeout() says 0 does not spin: after a tick
\* timeout() asks for a later millisecond, though slots at the horizon share
\* the bucket of this one (next, tick).
NoSpin == doing = "idle" /\ ticked => Timeout(wheel) # 0

\* The slots are accounted for, and so is what each has to tell the program or
\* to send (accept, touch, ready, flush, release).
SlotsSound == TypeOK /\ PoolWhole /\ NewsKept

\* The timers are sound: the wheel's lists hold together, and the program that
\* sleeps for timeout() comes back for every deadline and does not spin
\* (file, unfile, next, tick).
TimersSound == WheelWhole /\ WakesInTime /\ NoSpin
=============================================================================
