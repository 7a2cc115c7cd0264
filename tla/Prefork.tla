------------------------------- MODULE Prefork -------------------------------
(***************************************************************************)
(* The supervisor of std/net/prefork.ts: it starts the workers, reaps the  *)
(* ones that exit, starts them again after a wait that doubles while they  *)
(* die young, restarts them as one group when they share service channels, *)
(* and stops them on a signal: SIGTERM, a period of grace, SIGKILL.        *)
(*                                                                         *)
(* Time is relative: a slot's `at` is kept as the worker's age or as the   *)
(* wait that is left, and deadlines as what is left of them.  A step of    *)
(* the supervisor is one call of its loop; workers die, signals arrive and *)
(* time passes between any two.  The channels' bytes and the listeners are *)
(* left out.                                                               *)
(***************************************************************************)
EXTENDS Integers, FiniteSets, FiniteSetsExt

CONSTANTS
  N,           \* the number of workers
  Service,     \* serviceWorker, where there is one
  BackoffMs, BackoffCapMs, QuickExitMs, GraceMs,    \* in units of time
  MaxSignals   \* bound: the signals waiting in the pipe

Workers == 0..N - 1

ASSUME WorkersAssumption == N \in Nat \ {0} /\ Service \in Workers
ASSUME TimesAssumption ==     \* preforkInvalid
  /\ {BackoffMs, BackoffCapMs, QuickExitMs, GraceMs} \subseteq Nat
  /\ BackoffMs > 0 /\ BackoffCapMs >= BackoffMs
ASSUME SignalsAssumption == MaxSignals \in Nat

VARIABLES
  grouped, restarts,   \* the configuration: a service worker, `restart`
  pc,                  \* where the supervisor is
  result,              \* what it will answer
  signals,             \* how many signals wait in the pipe
  slot,                \* the slots, and the process each pid stands for
  cascading, cascadeIn, deadlineIn,
  group,               \* which of the last two sets of pairs is the latest
  quick, owed          \* ghosts: young deaths in a row, the wait the documentation promises

vars == <<grouped, restarts, pc, result, signals, slot, cascading, cascadeIn,
          deadlineIn, group, quick, owed>>

Waiting == [proc |-> "none", term |-> FALSE, kill |-> FALSE, group |-> 0,
            age |-> 0, wait |-> 0, delay |-> 0, gone |-> FALSE]

Init ==
  /\ grouped \in BOOLEAN /\ restarts \in BOOLEAN
  /\ pc = "first" /\ result = "stopped" /\ signals = 0
  /\ slot = [i \in Workers |-> Waiting]
  /\ cascading = FALSE /\ cascadeIn = 0 /\ deadlineIn = 0 /\ group = 0
  /\ quick = [i \in Workers |-> 0] /\ owed = [i \in Workers |-> 0]

Children == {i \in Workers : slot[i].proc # "none"}      \* pid > 0
Zombies == {i \in Workers : slot[i].proc = "zombie"}
-----------------------------------------------------------------------------
\* start(index): a new process in the slot.
Started(s, g) == [s EXCEPT !.proc = "run", !.term = FALSE, !.kill = FALSE, !.age = 0, !.group = g]

NextDelay(s, failed) ==
  IF failed \/ s.age < QuickExitMs
  THEN CASE s.delay = 0 -> BackoffMs
         [] s.delay > BackoffCapMs \div 2 -> BackoffCapMs
         [] OTHER -> s.delay * 2
  ELSE 0

\* backoff(slot, now, failed).
Backoff(s, failed) == [s EXCEPT !.delay = NextDelay(s, failed), !.wait = NextDelay(s, failed)]

\* The wait the documentation promises after k young deaths in a row.
Promised(k) == IF k = 0 THEN 0 ELSE Min({BackoffCapMs, BackoffMs * 2 ^ (k - 1)})
MaxQuick == BackoffCapMs + 1     \* where Promised has long been at the cap
Owe(own, failed) ==
  LET k(i) == IF failed \/ slot[i].age < QuickExitMs THEN Min({quick[i] + 1, MaxQuick}) ELSE 0
  IN  /\ quick' = [i \in Workers |-> IF i \in own THEN k(i) ELSE quick[i]]
      /\ owed' = [i \in Workers |-> IF i \in own THEN Promised(k(i)) ELSE owed[i]]

\* signal(sig), to every slot of f that has a pid.
Termed(f) == [i \in Workers |-> IF f[i].proc # "none" THEN [f[i] EXCEPT !.term = TRUE] ELSE f[i]]
Killed(f) == [i \in Workers |-> IF f[i].proc # "none" THEN [f[i] EXCEPT !.kill = TRUE] ELSE f[i]]

Reaped(s) == [s EXCEPT !.proc = "none", !.gone = ~restarts]
ReapedAt(s, left) == [Reaped(s) EXCEPT !.wait = left]
-----------------------------------------------------------------------------
\* restart(true): all start, or those before the first that fails.
StartFirst ==
  /\ pc = "first"
  /\ \/ /\ slot' = [i \in Workers |-> Started(slot[i], group)]
        /\ pc' = "poll" /\ UNCHANGED result
     \/ \E f \in Workers :
          /\ slot' = [i \in Workers |-> IF i < f THEN Started(slot[i], group) ELSE slot[i]]
          /\ pc' = "stop" /\ result' = "spawn failed"
  /\ UNCHANGED <<grouped, restarts, signals, cascading, cascadeIn, deadlineIn, group, quick, owed>>

\* pollWait in the loop: a signal ends it, anything else is a tick.
Poll ==
  /\ pc = "poll"
  /\ IF signals > 0
     THEN signals' = signals - 1 /\ pc' = "stop"
     ELSE pc' = "reap" /\ UNCHANGED signals
  /\ UNCHANGED <<grouped, restarts, result, slot, cascading, cascadeIn, deadlineIn, group, quick, owed>>

\* reap(false): every child that has exited.  Of a group that was whole, the
\* one waitPid answers first is backed off and the others are stopped.
Reap ==
  /\ pc = "reap"
  /\ LET left == Children \ Zombies IN
     IF ~restarts /\ left = {}
     THEN pc' = "stop" /\ result' = "exited"    \* escalate and restart find nothing to do
     ELSE pc' = "escalate" /\ UNCHANGED result
  /\ \/ /\ ~restarts \/ cascading \/ Zombies = {}
        /\ slot' = [i \in Workers |-> IF i \in Zombies THEN ReapedAt(slot[i], 0) ELSE slot[i]]
        /\ UNCHANGED <<cascading, cascadeIn, quick, owed>>
     \/ /\ restarts /\ ~cascading /\ ~grouped /\ Zombies # {}
        /\ slot' = [i \in Workers |->
             IF i \in Zombies THEN Backoff(Reaped(slot[i]), FALSE) ELSE slot[i]]
        /\ Owe(Zombies, FALSE)
        /\ UNCHANGED <<cascading, cascadeIn>>
     \/ /\ restarts /\ ~cascading /\ grouped
        /\ \E first \in Zombies :
             /\ slot' = Termed([i \in Workers |->
                  CASE i = first -> Backoff(Reaped(slot[i]), FALSE)
                    [] i \in Zombies \ {first} -> ReapedAt(slot[i], 0)
                    [] OTHER -> slot[i]])
             /\ Owe({first}, FALSE)
        /\ cascading' = TRUE /\ cascadeIn' = GraceMs
  /\ UNCHANGED <<grouped, restarts, signals, deadlineIn, group>>

\* Mutant: a group that outlives its grace is sent SIGTERM again.
EscalateSignal_Term(f) == Termed(f)

EscalateSignal(f) == Killed(f)

\* escalate().
Escalate ==
  /\ pc = "escalate"
  /\ IF cascading /\ Children # {} /\ cascadeIn = 0
     THEN cascadeIn' = GraceMs /\ slot' = EscalateSignal(slot)
     ELSE UNCHANGED <<cascadeIn, slot>>
  /\ pc' = "restart"
  /\ UNCHANGED <<grouped, restarts, result, signals, cascading, deadlineIn, group, quick, owed>>

Due == {i \in Workers : slot[i].proc = "none" /\ ~slot[i].gone /\ slot[i].wait = 0}

\* restart(false) without a service worker: `fails` are the starts refused.
RestartEach(fails) ==
  /\ pc = "restart" /\ ~grouped
  /\ fails \subseteq Due
  /\ slot' = [i \in Workers |->
       CASE i \in fails -> Backoff(slot[i], TRUE)
         [] i \in Due \ fails -> Started(slot[i], group)
         [] OTHER -> slot[i]]
  /\ Owe(fails, TRUE)
  /\ pc' = "poll"
  /\ UNCHANGED <<grouped, restarts, result, signals, cascading, cascadeIn, deadlineIn, group>>

\* Mutant: the group is started again while some of it still runs.
GroupDue_SomeRun == Due # {} /\ \A i \in Workers : slot[i].wait = 0

\* None of the group runs and the latest slot's time has come.
GroupDue ==
  /\ Children = {}
  /\ \E i \in Workers : ~slot[i].gone
  /\ \A i \in Workers : ~slot[i].gone => slot[i].wait = 0

GroupWaits ==
  /\ pc = "restart" /\ grouped /\ ~GroupDue
  /\ pc' = "poll"
  /\ UNCHANGED <<grouped, restarts, result, signals, slot, cascading, cascadeIn, deadlineIn, group, quick, owed>>

\* restartGroup(false), all started on fresh pairs.
RestartGroup ==
  /\ pc = "restart" /\ grouped /\ GroupDue
  /\ group' = 1 - group
  /\ slot' = [i \in Workers |-> Started(slot[i], group')]
  /\ cascading' = FALSE
  /\ pc' = "poll"
  /\ UNCHANGED <<grouped, restarts, result, signals, cascadeIn, deadlineIn, quick, owed>>

\* restartGroup(false), stopped by the start of f or, before any, by the pairs.
RestartGroupFails ==
  /\ pc = "restart" /\ grouped /\ GroupDue
  /\ group' = 1 - group
  /\ \E f \in Workers : \E some \in {{}, {i \in Workers : i < f}} :
       /\ some = {} => f \in {0, Service}
       /\ slot' = Termed([i \in Workers |->
            CASE i = f -> Backoff(slot[i], TRUE)
              [] i \in some -> Started(slot[i], group')
              [] OTHER -> slot[i]])
       /\ Owe({f}, TRUE)
  /\ cascading' = TRUE /\ cascadeIn' = GraceMs
  /\ pc' = "poll"
  /\ UNCHANGED <<grouped, restarts, result, signals, deadlineIn>>
-----------------------------------------------------------------------------
\* reap(true).
ReapStopping(f) == [i \in Workers |-> IF i \in Zombies THEN Reaped(f[i]) ELSE f[i]]

\* stop(): SIGTERM to all.
StopTerm ==
  /\ pc = "stop"
  /\ slot' = ReapStopping(Termed(slot))
  /\ deadlineIn' = GraceMs
  /\ pc' = "grace"
  /\ UNCHANGED <<grouped, restarts, result, signals, cascading, cascadeIn, group, quick, owed>>

\* Mutant: the grace period only ends with the last worker.
GraceOver_Never == Children = {}

GraceOver == Children = {} \/ deadlineIn = 0

\* A turn of the loop during the grace period; a signal ends it.
GraceTurn ==
  /\ pc = "grace" /\ ~GraceOver
  /\ slot' = ReapStopping(slot)
  /\ IF signals > 0
     THEN signals' = signals - 1 /\ pc' = "forced"
     ELSE UNCHANGED <<signals, pc>>
  /\ UNCHANGED <<grouped, restarts, result, cascading, cascadeIn, deadlineIn, group, quick, owed>>

\* SIGKILL to what is left, or done.
GraceEnds ==
  /\ pc = "forced" \/ (pc = "grace" /\ GraceOver)
  /\ slot' = Killed(slot)
  /\ pc' = IF Children = {} THEN "done" ELSE "kill"
  /\ UNCHANGED <<grouped, restarts, result, signals, cascading, cascadeIn, deadlineIn, group, quick, owed>>

AllReaped == Children = Zombies

KillTurn ==
  /\ pc = "kill"
  /\ slot' = ReapStopping(slot)
  /\ pc' = IF AllReaped THEN "done" ELSE "kill"
  /\ signals' = IF AllReaped \/ signals = 0 THEN signals ELSE signals - 1
  /\ UNCHANGED <<grouped, restarts, result, cascading, cascadeIn, deadlineIn, group, quick, owed>>
-----------------------------------------------------------------------------
\* A worker exits: on its own, on SIGTERM if it likes, on SIGKILL.
Die(i) ==
  /\ slot[i].proc = "run"
  /\ slot' = [slot EXCEPT ![i].proc = "zombie"]
  /\ UNCHANGED <<grouped, restarts, pc, result, signals, cascading, cascadeIn, deadlineIn, group, quick, owed>>

\* What SIGKILL does, sooner or later.
Perish(i) == slot[i].kill /\ Die(i)

\* SIGTERM or SIGINT to the supervisor.
Signal ==
  /\ pc # "done" /\ signals < MaxSignals
  /\ signals' = signals + 1
  /\ UNCHANGED <<grouped, restarts, pc, result, slot, cascading, cascadeIn, deadlineIn, group, quick, owed>>

Less(n) == IF n = 0 THEN 0 ELSE n - 1

Tick ==
  /\ pc # "done"
  /\ slot' = [i \in Workers |-> [slot[i] EXCEPT
       !.age = IF slot[i].proc = "none" THEN 0 ELSE Min({@ + 1, QuickExitMs}),
       !.wait = IF slot[i].proc = "none" THEN Less(@) ELSE @]]
  /\ cascadeIn' = Less(cascadeIn) /\ deadlineIn' = Less(deadlineIn)
  /\ owed' = [i \in Workers |-> Less(owed[i])]
  /\ UNCHANGED <<grouped, restarts, pc, result, signals, cascading, group, quick>>

Supervisor ==
  \/ StartFirst \/ Poll \/ Reap \/ Escalate
  \/ \E fails \in SUBSET Workers : RestartEach(fails)
  \/ GroupWaits \/ RestartGroup \/ RestartGroupFails
  \/ StopTerm \/ GraceTurn \/ GraceEnds \/ KillTurn

StartsAgain(i) == i \in Due /\ \E fails \in SUBSET (Workers \ {i}) : RestartEach(fails)

Next == Supervisor \/ (\E i \in Workers : Die(i)) \/ Signal \/ Tick

Spec == Init /\ [][Next]_vars

\* The supervisor's loop turns, time passes, SIGKILL kills, and a start that is
\* tried again and again succeeds in the end.
FairSpec ==
  /\ Spec
  /\ WF_vars(Supervisor) /\ WF_vars(Tick)
  /\ \A i \in Workers : WF_vars(Perish(i)) /\ SF_vars(StartsAgain(i))
  /\ SF_vars(RestartGroup)
-----------------------------------------------------------------------------
TypeOK ==
  /\ grouped \in BOOLEAN /\ restarts \in BOOLEAN /\ cascading \in BOOLEAN
  /\ pc \in {"first", "poll", "reap", "escalate", "restart", "stop", "grace", "forced", "kill", "done"}
  /\ result \in {"stopped", "exited", "spawn failed"}
  /\ signals \in 0..MaxSignals
  /\ slot \in [Workers ->
       [proc : {"none", "run", "zombie"}, term : BOOLEAN, kill : BOOLEAN, group : {0, 1},
        age : 0..QuickExitMs, wait : 0..BackoffCapMs, delay : 0..BackoffCapMs, gone : BOOLEAN]]
  /\ cascadeIn \in 0..GraceMs /\ deadlineIn \in 0..GraceMs /\ group \in {0, 1}
  /\ quick \in [Workers -> 0..MaxQuick] /\ owed \in [Workers -> 0..BackoffCapMs]

\* preforkWith returns only when every worker it ever started has exited and
\* was reaped, whatever it answers (stop, reap).
NoOrphan == pc = "done" => Children = {}

\* Workers that run at the same time share one set of service pairs: none
\* holds an end whose peer was restarted without it (restartGroup, cascade).
OneGroup ==
  grouped => \A i, j \in Workers :
    slot[i].proc = "run" /\ slot[j].proc = "run" => slot[i].group = slot[j].group

\* A worker that keeps dying young, or whose start keeps being refused, is
\* never started before the wait the documentation promises is over: the first
\* backoffMs, doubled each time up to the cap (backoff, restart, restartGroup).
BackoffHonoured == \A i \in Workers : slot[i].proc = "run" => owed[i] = 0

\* The workers are supervised: none outlives the supervisor, those that run
\* belong together, and none is started before its wait is over (stop,
\* restartGroup, backoff).
Supervised == TypeOK /\ NoOrphan /\ OneGroup /\ BackoffHonoured

Stopping == pc \in {"stop", "grace", "forced", "kill", "done"}

\* A signal ends in preforkWith returning, even when every worker ignores
\* SIGTERM (stop).
StopEnds == signals > 0 ~> pc = "done"

\* A worker that exited is started again unless the supervisor stops: also in a
\* group, whose other members may ignore SIGTERM (escalate, restartGroup).
WorkerReturns ==
  \A i \in Workers :
    restarts /\ slot[i].proc = "zombie" ~> slot[i].proc = "run" \/ Stopping
=============================================================================
