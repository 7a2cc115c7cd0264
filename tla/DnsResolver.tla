----------------------------- MODULE DnsResolver -----------------------------
(***************************************************************************)
(* The stub resolver of std/net/dns-resolver.ts driven by the DnsClient of *)
(* std/net/dns.ts.  A lookup asks A and AAAA at once, over UDP and, where  *)
(* a reply is cut, over TCP; it tries every server for some rounds,        *)
(* follows CNAME chains and goes through the candidates of the search      *)
(* list.  The slots of lookups and their queries are used again.           *)
(*                                                                         *)
(* Names are left out: a candidate is a number, a query's name is told by  *)
(* its candidate and its hops.  A reply that does not match the query's    *)
(* server, ID and question is dropped and counted, which changes nothing   *)
(* here, so only replies that match are actions.  A deadline may pass at   *)
(* any time.  `pump` runs before a call of the client returns: while       *)
(* `pumping`, nothing else happens.                                        *)
(***************************************************************************)
EXTENDS Integers, Sequences, FiniteSets, FiniteSetsExt

CONSTANTS
  Lookups,        \* the slots
  ServerCount, Attempts, MaxHops,
  Candidates      \* candidate names at most: the search list and the name

\* There is a server to ask, a round to ask it in, and a name to ask for.
DnsSizes == {ServerCount, Attempts, Candidates} \subseteq Nat \ {0} /\ MaxHops \in Nat

Queries == Lookups \X {"A", "AAAA"}
Pair(l) == {<<l, "A">>, <<l, "AAAA">>}
Replies == {"addresses", "nodata", "nxdomain", "cname", "loop", "servfail"}
Errors == {"no answer", "cname"}

VARIABLES
  query,     \* the queries
  look,      \* the lookups
  fd,        \* the client's socket of each query
  pumping

vars == <<query, look, fd, pumping>>
world == [q |-> query, l |-> look]

Init ==
  /\ query = [q \in Queries |-> [state |-> "idle", pending |-> "none", server |-> 0, round |-> 0,
                                 hops |-> 0, outcome |-> "none", nxdomain |-> FALSE,
                                 fails |-> 0,        \* ghost: servers failed since the name was asked
                                 from |-> 0]]        \* ghost: the candidate its answers are for
  /\ look = [l \in Lookups |-> [state |-> "free", result |-> "none", candidate |-> 1, usable |-> {},
                                fallback |-> "none",
                                unsure |-> FALSE,    \* ghost: some question of it got no answer
                                sources |-> {}]]     \* ghost: the candidates its addresses are for
  /\ fd = [q \in Queries |-> "none"]
  /\ pumping = FALSE

Active(x) == x.state \in {"udp", "tcp"}
-----------------------------------------------------------------------------
\* The private functions, each from a world [q, l] or a query to the next.

\* w with x for the query q.
Put(w, q, x) == [q |-> [w.q EXCEPT ![q] = x], l |-> w.l]

\* dnsResolverStop.
Stop(x) == [x EXCEPT !.pending = IF Active(x) \/ @ # "none" THEN "close" ELSE @,
                     !.state = IF @ # "idle" THEN "done" ELSE @]

StopBoth(qs, l) == [q \in Queries |-> IF q \in Pair(l) THEN Stop(qs[q]) ELSE qs[q]]

\* dnsResolverFinish.
Finish(w, l, result, sources) ==
  [q |-> StopBoth(w.q, l),
   l |-> [w.l EXCEPT ![l].state = "done", ![l].result = result, ![l].sources = sources]]

\* dnsResolverSend.
Send(x, how) == [x EXCEPT !.state = how, !.pending = how]

\* dnsResolverAsk, dnsResolverBegin.
Ask(x, hops) == [Send(x, "udp") EXCEPT !.hops = hops, !.nxdomain = FALSE,
                                       !.server = 0, !.round = 0, !.fails = 0]

\* dnsResolverNextCandidate: the next usable candidate is begun, or none is.
Remaining(w, l) == {c \in w.l[l].usable : c >= w.l[l].candidate}

NextCandidate(w, l) ==
  [q |-> [q \in Queries |-> IF q \in Pair(l) THEN Ask(w.q[q], 0) ELSE w.q[q]],
   l |-> [w.l EXCEPT ![l].candidate = Min(Remaining(w, l))]]

\* dnsResolverGather: the addresses of the queries whose outcome is some.
Gathered(w, l) == {w.q[q].from : q \in {p \in Pair(l) : w.q[p].outcome = "addresses"}}

\* Mutant: the error of a candidate the search went past is forgotten.
Kept_Not(fallback, error) == "none"

Kept(fallback, error) == IF fallback = "none" THEN error ELSE fallback

\* dnsResolverDone, once both queries of l are done: v4's error goes first.
FirstError(a, b) ==
  CASE a.outcome \in Errors -> a.outcome
    [] a.outcome \notin Errors /\ b.outcome \in Errors -> b.outcome
    [] OTHER -> "none"

GoneOn(w, l, kept) ==
  [q |-> w.q, l |-> [w.l EXCEPT ![l].fallback = kept, ![l].candidate = @ + 1]]

BothDone(w, l) ==
  LET a == w.q[<<l, "A">>]
      b == w.q[<<l, "AAAA">>]
      error == FirstError(a, b)
      kept == Kept(w.l[l].fallback, error)
      moved == GoneOn(w, l, kept)
      goesOn == error # "none" \/ (a.nxdomain /\ b.nxdomain)
      verdict == IF kept # "none" THEN kept ELSE "not found"
  IN  CASE "addresses" \in {a.outcome, b.outcome} -> Finish(w, l, "found", Gathered(w, l))
        [] "addresses" \notin {a.outcome, b.outcome} /\ error # "none" /\ ~(a.nxdomain \/ b.nxdomain) ->
             Finish(w, l, error, {})
        [] OTHER ->
             IF goesOn /\ Remaining(moved, l) # {}
             THEN NextCandidate(moved, l)
             ELSE Finish(IF goesOn THEN moved ELSE w, l, verdict, {})

\* dnsResolverDone.
Done(w, q, outcome) ==
  LET x == [w.q[q] EXCEPT !.pending = IF Active(w.q[q]) THEN "close" ELSE @,
                          !.state = "done", !.outcome = outcome]
      v == [q |-> [w.q EXCEPT ![q] = x], l |-> [w.l EXCEPT ![q[1]].unsure = @ \/ outcome \in Errors]]
  IN  IF \A p \in Pair(q[1]) : v.q[p].state = "done" THEN BothDone(v, q[1]) ELSE v

RoundsOver(round) == round >= Attempts

\* dnsResolverServerFailed.
ServerFailed(w, q) ==
  LET last == w.q[q].server + 1 >= ServerCount
      x == [w.q[q] EXCEPT !.server = IF last THEN 0 ELSE @ + 1,
                          !.round = IF last THEN @ + 1 ELSE @,
                          !.fails = @ + 1]
  IN  IF RoundsOver(x.round)
      THEN Done(Put(w, q, x), q, "no answer")
      ELSE Put(w, q, Send(x, "udp"))

HopsOver(hops) == hops >= MaxHops

\* dnsResolverAnswer.
Answer(w, q, reply) ==
  LET x == [w.q[q] EXCEPT !.nxdomain = (reply = "nxdomain")]
      v == Put(w, q, x)
  IN
  CASE reply = "nxdomain"  -> Done(v, q, "not found")
    [] reply = "servfail"  -> ServerFailed(v, q)
    [] reply = "addresses" -> Done(Put(w, q, [x EXCEPT !.from = w.l[q[1]].candidate]), q, "addresses")
    [] reply = "nodata"    -> Done(v, q, "not found")
    [] reply = "loop" \/ (reply = "cname" /\ HopsOver(w.q[q].hops)) -> Done(v, q, "cname")
    [] OTHER -> Put(w, q, Ask(x, w.q[q].hops + 1))
-----------------------------------------------------------------------------
\* A call of the client: the resolver's new state, then pump.
Becomes(w) ==
  /\ query' = w.q /\ look' = w.l
  /\ pumping' = (\E q \in Queries : w.q[q].pending # "none")

Idle(qs, l) == [q \in Queries |-> IF q \in Pair(l) THEN [qs[q] EXCEPT !.state = "idle"] ELSE qs[q]]
Started(l, usable) == [look[l] EXCEPT !.state = "running", !.candidate = 1, !.fallback = "none",
                                      !.usable = usable]

\* start: a name to ask for, with the candidates that are names.
Start(l, usable) ==
  /\ ~pumping /\ look[l].state = "free"
  /\ LET w == [q |-> Idle(query, l), l |-> [look EXCEPT ![l] = Started(l, usable)]]
     IN  Becomes(IF usable = {} THEN Finish(w, l, "not found", {}) ELSE NextCandidate(w, l))
  /\ UNCHANGED fd

\* start: localhost, an address, a host of the hosts file; dnsResolverFinishNow.
StartNow(l) ==
  /\ ~pumping /\ look[l].state = "free"
  /\ Becomes([q |-> Idle(query, l),
              l |-> [look EXCEPT ![l].state = "done", ![l].result = "found", ![l].sources = {}]])
  /\ UNCHANGED fd

\* nextOutgoing and a turn of pump; a socket that cannot be had is fail(q).
Pump(q, opens) ==
  /\ pumping /\ query[q].pending # "none"
  /\ LET kind == query[q].pending
         w == Put(world, q, [query[q] EXCEPT !.pending = "none"])
     IN  IF kind = "close" \/ opens
         THEN /\ fd' = [fd EXCEPT ![q] = CASE kind = "close" -> "none"
                                            [] kind = "udp" -> "udp"
                                            [] kind = "tcp" -> "tcp write"]
              /\ Becomes(w)
         ELSE /\ fd' = [fd EXCEPT ![q] = "none"]
              /\ Becomes(ServerFailed(w, q))

\* receive: a datagram that matches, whole or cut short.
Receive(q) ==
  /\ ~pumping /\ fd[q] = "udp" /\ query[q].state = "udp"
  /\ \/ \E reply \in Replies : Becomes(Answer(world, q, reply))
     \/ Becomes(ServerFailed(world, q))
     \/ Becomes(Put(world, q, Send(query[q], "tcp")))
  /\ UNCHANGED fd

\* dnsClientWrite: the whole query is written.
Write(q) ==
  /\ ~pumping /\ fd[q] = "tcp write"
  /\ fd' = [fd EXCEPT ![q] = "tcp read"]
  /\ UNCHANGED <<query, look, pumping>>

\* receiveStream, at the byte that completes a reply or cannot be one.
ReceiveStream(q) ==
  /\ ~pumping /\ fd[q] = "tcp read" /\ query[q].state = "tcp"
  /\ \/ \E reply \in Replies : Becomes(Answer(world, q, reply))
     \/ Becomes(ServerFailed(world, q))
  /\ UNCHANGED fd

\* dnsClientFail: the connection fails or closes.
Fail(q) ==
  /\ ~pumping /\ fd[q] \in {"tcp write", "tcp read"}
  /\ fd' = [fd EXCEPT ![q] = "none"]
  /\ Becomes(IF Active(query[q]) THEN ServerFailed(world, q) ELSE world)

\* tick, at the two queries of l: those of `late` are past their deadline.
Ticked(l, late) ==
  LET failed(w, q) == IF q \in late THEN ServerFailed(w, q) ELSE w
  IN  failed(failed(world, <<l, "A">>), <<l, "AAAA">>)

\* tick: a failure changes its own lookup only, so each is taken by itself.
Tick(late) ==
  /\ ~pumping /\ late # {} /\ \A q \in late : Active(query[q])
  /\ Becomes([q |-> [q \in Queries |-> Ticked(q[1], late).q[q]],
              l |-> [l \in Lookups |-> Ticked(l, late).l[l]]])
  /\ UNCHANGED fd

Freed(x) == [x EXCEPT !.state = "free", !.unsure = FALSE, !.sources = {}]

\* result, of a lookup that is done.
Result(l) ==
  /\ ~pumping /\ look[l].state = "done"
  /\ look' = [look EXCEPT ![l] = Freed(@)]
  /\ UNCHANGED <<query, fd, pumping>>

Cancel(l) ==
  /\ ~pumping /\ look[l].state # "free"
  /\ Becomes([q |-> StopBoth(query, l), l |-> [look EXCEPT ![l] = Freed(@)]])
  /\ UNCHANGED fd

Next ==
  \/ \E l \in Lookups :
       \/ \E n \in {1, Candidates} : \E usable \in SUBSET (1..n) : Start(l, usable)
       \/ StartNow(l) \/ Result(l) \/ Cancel(l)
  \/ \E q \in Queries : Receive(q) \/ Write(q) \/ ReceiveStream(q) \/ Fail(q)
  \/ \E q \in Queries, opens \in BOOLEAN : Pump(q, opens)
  \/ \E late \in SUBSET Queries : Tick(late)

Spec == Init /\ [][Next]_vars
-----------------------------------------------------------------------------
TypeOK ==
  /\ query \in [Queries -> [
       state : {"idle", "udp", "tcp", "done"}, pending : {"none", "udp", "tcp", "close"},
       server : 0..ServerCount - 1, round : 0..Attempts, hops : 0..MaxHops,
       outcome : {"none", "addresses", "not found"} \cup Errors, nxdomain : BOOLEAN,
       fails : 0..ServerCount * Attempts, from : 0..Candidates]]
  /\ look \in [Lookups -> [
       state : {"free", "running", "done"}, result : {"none", "found", "not found"} \cup Errors,
       candidate : 1..Candidates + 1, usable : SUBSET (1..Candidates),
       fallback : {"none"} \cup Errors, unsure : BOOLEAN, sources : SUBSET (0..Candidates)]]
  /\ fd \in [Queries -> {"none", "udp", "tcp write", "tcp read"}]
  /\ pumping \in BOOLEAN

\* Between calls of the client a query has a socket exactly when it waits for
\* a reply, and it is of the kind the query waits on: no order of answers,
\* failures, cancels and new starts leaks a socket or waits without one
\* (dnsResolverStop, dnsResolverDone, pump).
SocketWhileWaiting ==
  ~pumping => \A q \in Queries :
    /\ query[q].state = "udp" <=> fd[q] = "udp"
    /\ query[q].state = "tcp" <=> fd[q] \in {"tcp write", "tcp read"}

\* "Not found" is certain: every question the lookup asked was answered; one
\* that timed out or whose chain broke leaves its error (dnsResolverDone).
NotFoundIsCertain ==
  \A l \in Lookups : look[l].state = "done" /\ look[l].result = "not found" => ~look[l].unsure

\* The addresses a lookup answers were all given for the candidate it ended
\* with, never for one it went past or by an earlier lookup of the slot
\* (dnsResolverGather, dnsResolverBegin).
AddressesOfLast ==
  \A l \in Lookups : look[l].state = "done" => look[l].sources \subseteq {look[l].candidate}

\* A query gives up only after every server failed it in every round
\* (dnsResolverServerFailed).
EveryServerTried ==
  \A q \in Queries :
    /\ look[q[1]].state # "free"
    /\ query[q].state = "done" /\ query[q].outcome = "no answer"
    => query[q].fails = ServerCount * Attempts

\* A lookup is sound in all of these.
LookupSound == TypeOK /\ SocketWhileWaiting /\ NotFoundIsCertain /\ AddressesOfLast /\ EveryServerTried
=============================================================================
