------------------------------ MODULE BuildCache ------------------------------
(***************************************************************************)
(* The caches `nish run` fills and reads: the compiled runtime, the object *)
(* of each module and the linked binary (src/compile.ts, run-cache.ts and  *)
(* build-cache.ts).  Compilers of the same user run at the same time and   *)
(* die at any step; a cache cleaner may take an object and leave its key.  *)
(*                                                                         *)
(* An entry is a directory named by the digest of its key, so one content  *)
(* is right for it ("mine"); "other" is what a compiler that named entries *)
(* otherwise, or a hand, left there.  A file a write has truncated or not  *)
(* finished equals no key ("empty").  Each rename is a step.               *)
(***************************************************************************)
EXTENDS Integers, FiniteSets

CONSTANTS
  Procs,      \* the compilers
  Programs,   \* what they run; each has an entry for its binary
  RuntimeUnits

Entries == {"rt", "mod"} \cup Programs
\* No program's entry is one of the other two.
EntriesApart == Programs \cap {"rt", "mod"} = {}

Units(e) == IF e = "rt" THEN RuntimeUnits ELSE {1}

VARIABLES
  disk,      \* the entries
  proc,      \* the compilers
  cleaned    \* ghost: a cleaner has been here

vars == <<disk, proc, cleaned>>

Holding(k, c, e) == [key |-> k, obj |-> [u \in Units(e) |-> c]]

Fresh(prog) ==
  [pc |-> "start", prog |-> prog, ent |-> prog, left |-> {},
   runtime |-> FALSE,      \* links against the entry of the runtime
   beside |-> "none",      \* the object beside the module's IR
   built |-> "none", ran |-> "none"]

Init ==
  /\ \E left \in SUBSET Entries : disk = [e \in Entries |->
       IF e \in left THEN Holding("other", "other", e) ELSE Holding("empty", "none", e)]
  /\ proc \in [Procs -> {Fresh(prog) : prog \in Programs}]
  /\ cleaned = FALSE

At(p, pc) == proc[p].pc = pc
Goto(p, pc) == proc' = [proc EXCEPT ![p].pc = pc]
-----------------------------------------------------------------------------
\* The stored key equals this one, byte for byte.
Hit(e) == disk[e].key = "mine"

\* cachedBinary: the run cache.
LookBinary(p) ==
  /\ At(p, "start")
  /\ Goto(p, IF Hit(proc[p].prog) THEN "exec" ELSE "runtime")
  /\ UNCHANGED <<disk, cleaned>>

\* No toolchain, no private root, no scratch directory, a link that fails.
Fail(p) ==
  /\ proc[p].pc \in {"runtime", "compile", "link", "linkstaged"}
  /\ Goto(p, "refused")
  /\ UNCHANGED <<disk, cleaned>>

\* cachedRuntime: without a root of its own the link compiles everything.
NoRuntimeCache(p) ==
  /\ At(p, "runtime")
  /\ Goto(p, "link")
  /\ UNCHANGED <<disk, cleaned>>

LookRuntime(p) ==
  /\ At(p, "runtime")
  /\ proc' = [proc EXCEPT ![p].pc = IF Hit("rt") THEN "stage" ELSE "compile",
                          ![p].runtime = Hit("rt")]
  /\ UNCHANGED <<disk, cleaned>>

\* cachedEntry: build.sh has compiled the units into the scratch directory.
Fill(p, e) == [proc[p] EXCEPT !.pc = "empty", !.ent = e, !.left = Units(e)]

CompileRuntime(p) ==
  /\ At(p, "compile")
  /\ proc' = [proc EXCEPT ![p] = Fill(p, "rt")]
  /\ UNCHANGED <<disk, cleaned>>
-----------------------------------------------------------------------------
\* What filling an entry is followed by, with its key written or not.
Filled(p, ok) ==
  CASE proc[p].ent = "rt"  -> [proc[p] EXCEPT !.pc = IF ok THEN "stage" ELSE "link", !.runtime = ok]
    [] proc[p].ent = "mod" -> Fill(p, proc[p].prog)
    [] OTHER               -> [proc[p] EXCEPT !.pc = IF ok THEN "exec" ELSE "refused"]

\* Mutant: the key the entry holds stays while the objects move in.
Emptied_Kept(s) == s

Emptied(s) == [s EXCEPT !.key = "empty"]

\* writeFileSync(keyFile, "").
EmptyKey(p) ==
  /\ At(p, "empty")
  /\ disk' = [disk EXCEPT ![proc[p].ent] = Emptied(@)]
  /\ Goto(p, "move")
  /\ UNCHANGED cleaned

\* What p's scratch directory holds of the entry it fills.
Product(p) ==
  CASE proc[p].ent = "rt"  -> "mine"
    [] proc[p].ent = "mod" -> proc[p].beside
    [] OTHER               -> proc[p].built

\* mv -f, one rename at a time.
Move(p, u) ==
  /\ At(p, "move") /\ u \in proc[p].left
  /\ disk' = [disk EXCEPT ![proc[p].ent].obj[u] = Product(p)]
  /\ proc' = [proc EXCEPT ![p].left = @ \ {u}]
  /\ UNCHANGED cleaned

\* An mv that fails, after any of the others: no key is written.
MoveFails(p) ==
  /\ At(p, "move") /\ proc[p].left # {}
  /\ proc' = [proc EXCEPT ![p] = Filled(p, FALSE)]
  /\ UNCHANGED <<disk, cleaned>>

AllMoved(p) == proc[p].left = {}

\* writeFileSync(keyFile, key) truncates before it writes.
TruncateKey(p) ==
  /\ At(p, "move") /\ AllMoved(p)
  /\ disk' = [disk EXCEPT ![proc[p].ent].key = "empty"]
  /\ Goto(p, "key")
  /\ UNCHANGED cleaned

\* What rm -rf of the scratch directory leaves of the entry: all of it.
Kept(s) == s

WriteKey(p) ==
  /\ At(p, "key")
  /\ disk' = [disk EXCEPT ![proc[p].ent] = Kept([@ EXCEPT !.key = "mine"])]
  /\ proc' = [proc EXCEPT ![p] = Filled(p, TRUE)]
  /\ UNCHANGED cleaned
-----------------------------------------------------------------------------
\* stageModules, stageModule: the module cache, used or refused.
Stage(p) ==
  /\ At(p, "stage")
  /\ \/ Goto(p, IF Hit("mod") THEN "copy" ELSE "linkstaged")
     \/ Goto(p, "link")
  /\ UNCHANGED <<disk, cleaned>>

\* cp -f of a whole object.
Copy(p) ==
  /\ At(p, "copy") /\ disk["mod"].obj[1] # "none"
  /\ proc' = [proc EXCEPT ![p].beside = disk["mod"].obj[1], ![p].pc = "link"]
  /\ UNCHANGED <<disk, cleaned>>

Leftover == "none"

\* cp fails: the object is gone, or the disk is full; its key goes too.
CopyFails(p) ==
  /\ At(p, "copy")
  /\ proc' = [proc EXCEPT ![p].beside = Leftover, ![p].pc = "link"]
  /\ disk' = [disk EXCEPT !["mod"].key = "empty"]
  /\ UNCHANGED cleaned

\* The object the link takes for the module: the copy, or a new one.
ModuleObject(p) == IF proc[p].beside = "none" THEN "mine" ELSE proc[p].beside

Linked(p) ==
  LET used == {ModuleObject(p)} \cup
              (IF proc[p].runtime THEN {disk["rt"].obj[u] : u \in RuntimeUnits} ELSE {})
  IN  IF "none" \in used THEN "none" ELSE IF used = {"mine"} THEN "mine" ELSE "other"

\* linkProgram; keepModules follows where the module's object is to be kept.
Link(p) ==
  /\ proc[p].pc \in {"link", "linkstaged"} /\ Linked(p) # "none"
  /\ LET made == [proc[p] EXCEPT !.built = Linked(p), !.beside = ModuleObject(p)]
         e == IF At(p, "linkstaged") THEN "mod" ELSE proc[p].prog
     IN  proc' = [proc EXCEPT ![p] = [made EXCEPT !.pc = "empty", !.ent = e, !.left = Units(e)]]
  /\ UNCHANGED <<disk, cleaned>>

\* An object of the runtime's entry is not there.
LinkFails(p) ==
  /\ proc[p].pc \in {"link", "linkstaged"} /\ Linked(p) = "none"
  /\ Goto(p, "no object")
  /\ UNCHANGED <<disk, cleaned>>

\* The binary is started, or is not there.
Exec(p) ==
  /\ At(p, "exec")
  /\ proc' = [proc EXCEPT ![p].ran = disk[proc[p].prog].obj[1],
                          ![p].pc = IF disk[proc[p].prog].obj[1] = "none" THEN "no object" ELSE "done"]
  /\ UNCHANGED <<disk, cleaned>>

\* The compiler ends or is killed, and the user runs a program again.
Again(p, prog) ==
  /\ proc' = [proc EXCEPT ![p] = Fresh(prog)]
  /\ UNCHANGED <<disk, cleaned>>

\* A cache cleaner takes an object and leaves the key.
Clean(e, u) ==
  /\ disk' = [disk EXCEPT ![e].obj[u] = "none"]
  /\ cleaned' = TRUE
  /\ UNCHANGED proc

Next ==
  \/ \E p \in Procs :
       \/ LookBinary(p) \/ Fail(p) \/ NoRuntimeCache(p) \/ LookRuntime(p) \/ CompileRuntime(p)
       \/ EmptyKey(p) \/ MoveFails(p) \/ TruncateKey(p) \/ WriteKey(p)
       \/ \E u \in proc[p].left : Move(p, u)
       \/ Stage(p) \/ Copy(p) \/ CopyFails(p) \/ Link(p) \/ LinkFails(p) \/ Exec(p)
       \/ \E prog \in Programs : Again(p, prog)
  \/ \E e \in Entries : \E u \in Units(e) : Clean(e, u)

Spec == Init /\ [][Next]_vars
-----------------------------------------------------------------------------
Contents == {"mine", "other", "none"}

TypeOK ==
  /\ \A e \in Entries : disk[e] \in [key : {"mine", "other", "empty"}, obj : [Units(e) -> Contents]]
  /\ proc \in [Procs -> [
       pc : {"start", "runtime", "compile", "empty", "move", "key", "stage", "copy", "link",
             "linkstaged", "exec", "done", "refused", "no object"},
       prog : Programs, ent : Entries, left : SUBSET (RuntimeUnits \cup {1}),
       runtime : BOOLEAN, beside : Contents, built : Contents, ran : Contents]]
  /\ cleaned \in BOOLEAN

\* Whatever compilers are killed and however two misses interleave, a key on
\* disk stands beside whole objects of its own, or, after a cleaner, beside
\* none (cachedEntry, keepModules, buildIntoCache).
KeyMatchesObjects ==
  \A e \in Entries : disk[e].key # "empty" =>
    \A u \in Units(e) : disk[e].obj[u] \in {disk[e].key, "none"}

\* The binary a run starts was linked from objects of this program, module
\* and recipe only: neither what another compiler left in an entry nor a
\* truncated copy is ever in it (cachedBinary, stageModules, linkProgram).
RunsItself == \A p \in Procs : proc[p].ran \in {"mine", "none"} /\ proc[p].built \in {"mine", "none"}

\* Compilers alone never take an object from under each other: a link or a
\* start that finds none has a cleaner to blame (cachedRuntime).
NeverMissing == ~cleaned => \A p \in Procs : proc[p].pc # "no object"

\* The caches are sound in all of these.
CacheSound == TypeOK /\ KeyMatchesObjects /\ RunsItself /\ NeverMissing
=============================================================================
