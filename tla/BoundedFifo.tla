------------------------------ MODULE BoundedFifo ------------------------------
(***************************************************************************)
(* What a queue of limited capacity promises its callers: values come out  *)
(* in the order they went in, each exactly once; a full queue refuses a    *)
(* value and says so; an empty one says so.                                *)
(***************************************************************************)
EXTENDS Naturals, Sequences

CONSTANTS
  Value,      \* what may be stored
  Capacity,   \* how many values fit
  Nil         \* the answer of an empty queue, and of an operation without one

VARIABLES
  items,      \* the values held, oldest first
  answer      \* what the last operation returned

Init == items = <<>> /\ answer = Nil

Push(v) ==
  \/ /\ Len(items) < Capacity
     /\ items' = Append(items, v) /\ answer' = TRUE
  \/ /\ Len(items) = Capacity
     /\ items' = items /\ answer' = FALSE

Pull ==
  \/ /\ items # <<>>
     /\ items' = Tail(items) /\ answer' = Head(items)
  \/ items = <<>> /\ items' = items /\ answer' = Nil

\* Free discards values from the oldest on; all of them, unless the destroy
\* function of one fails.
Free ==
  /\ \E k \in 0 .. Len(items) : items' = SubSeq(items, k + 1, Len(items))
  /\ answer' = Nil

Next == (\E v \in Value : Push(v)) \/ Pull \/ Free

Spec == Init /\ [][Next]_<<items, answer>>
=============================================================================
