---------------------------- MODULE RecordQueue ----------------------------
(***************************************************************************)
(* What a ring of nish/sync/ring promises: a bounded first-in first-out    *)
(* queue of whole records.  A push that answers true puts one record at    *)
(* the back while there is room for it; a pop takes one or more from the   *)
(* front.                                                                  *)
(***************************************************************************)
EXTENDS Naturals, Sequences

CONSTANTS
  Record,    \* the records
  Fits(_)    \* whether a sequence of records fits the ring

VARIABLES
  queue,     \* the records queued, oldest first
  taken      \* every record taken, in order

Init == queue = <<>> /\ taken = <<>>

Put ==
  /\ queue' # <<>>
  /\ LET r == queue'[Len(queue')] IN r \in Record /\ queue' = Append(queue, r)
  /\ Fits(queue')
  /\ UNCHANGED taken

Take ==
  \E k \in 1..Len(queue) :
    /\ taken' = taken \o SubSeq(queue, 1, k)
    /\ queue' = SubSeq(queue, k + 1, Len(queue))

Next == Put \/ Take

Spec == Init /\ [][Next]_<<queue, taken>>
=============================================================================
