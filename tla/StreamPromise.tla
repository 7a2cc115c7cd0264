---------------------------- MODULE StreamPromise ----------------------------
(***************************************************************************)
(* What a one-way stream promises the two programs that use it: bytes are  *)
(* read in the order they were written, the end is told only after the     *)
(* last of them, and a reset cuts the stream for the reader.               *)
(***************************************************************************)
EXTENDS Naturals

CONSTANT Length

VARIABLES
  written, read,   \* how many bytes were written and read
  closed,          \* "open", "fin" or "reset", by the writer
  told             \* what the reader was told of the end: "open", "fin" or "reset"

vars == <<written, read, closed, told>>

Init == written = 0 /\ read = 0 /\ closed = "open" /\ told = "open"

Write ==
  /\ closed = "open"
  /\ written' \in written..Length
  /\ closed' \in {"open", "fin"}
  /\ UNCHANGED <<read, told>>

Cut ==
  /\ closed # "reset" /\ closed' = "reset"
  /\ UNCHANGED <<written, read, told>>

Read ==
  /\ told = "open"
  /\ read' \in (read + 1)..written
  /\ UNCHANGED <<written, closed, told>>

End ==
  /\ told = "open"
  /\ \/ closed # "open" /\ read = written /\ told' = "fin"
     \/ closed = "reset" /\ told' = "reset"
  /\ UNCHANGED <<written, read, closed>>

Spec == Init /\ [][Write \/ Cut \/ Read \/ End]_vars
=============================================================================
