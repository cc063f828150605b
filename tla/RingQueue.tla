------------------------------- MODULE RingQueue -------------------------------
(***************************************************************************)
(* open/lib/queue.lua: the ring buffer in which the redis and http pools   *)
(* keep their sockets.  _value is a table that is indexed from 0 to        *)
(* _maxindex - 1, _first the oldest entry, _last the newest.               *)
(***************************************************************************)
EXTENDS Integers, Sequences

CONSTANTS
  Value,      \* what the callers store: never nil
  MaxIndex,   \* _maxindex, the capacity
  Nil         \* Lua's nil

ASSUME RingQueueAssumption ==
  /\ MaxIndex \in Nat \ {0}
  /\ Nil \notin Value \cup BOOLEAN

VARIABLES first, last, counter, value, answer

ringVars == <<first, last, counter, value, answer>>

Index == 0 .. MaxIndex - 1

RingTypeOK ==
  /\ first \in Index
  /\ last \in Index \cup {-1}
  /\ counter \in 0 .. MaxIndex
  /\ value \in [Index -> Value \cup {Nil}]
  /\ answer \in Value \cup {Nil, TRUE, FALSE}

\* Queue:new
RingInit ==
  /\ first = 0 /\ last = -1 /\ counter = 0
  /\ value = [i \in Index |-> Nil]
  /\ answer = Nil

-----------------------------------------------------------------------------
Push(v) ==
  \/ /\ counter >= MaxIndex
     /\ answer' = FALSE /\ UNCHANGED <<first, last, counter, value>>
  \/ /\ counter < MaxIndex
     /\ last' = (last + 1) % MaxIndex
     /\ value' = [value EXCEPT ![last'] = v]
     /\ counter' = counter + 1
     /\ answer' = TRUE /\ UNCHANGED first

Pull ==
  \/ /\ counter = 0
     /\ answer' = Nil /\ UNCHANGED <<first, last, counter, value>>
  \/ /\ counter # 0
     /\ answer' = value[first]
     /\ value' = [value EXCEPT ![first] = Nil]
     /\ first' = (first + 1) % MaxIndex
     /\ counter' = counter - 1
     /\ UNCHANGED last

\* Slip for Free: the slots that were freed are not skipped.
FreeKeepsFirst ==
  \E k \in 0 .. counter :
    /\ value' = [i \in Index |-> IF (i - first) % MaxIndex < k THEN Nil ELSE value[i]]
    /\ counter' = counter - k
    /\ answer' = Nil /\ UNCHANGED <<first, last>>

\* The loop of Queue:free has gone round k times when it ends: the queue is
\* empty, or destroycb failed for the entry that is now the first.
Free ==
  \E k \in 0 .. counter :
    /\ value' = [i \in Index |-> IF (i - first) % MaxIndex < k THEN Nil ELSE value[i]]
    /\ first' = (first + k) % MaxIndex
    /\ counter' = counter - k
    /\ answer' = Nil /\ UNCHANGED last

RingNext == (\E v \in Value : Push(v)) \/ Pull \/ Free

RingSpec == RingInit /\ [][RingNext]_ringVars

-----------------------------------------------------------------------------
\* The values held, oldest first.
Items == [i \in 1 .. counter |-> value[(first + i - 1) % MaxIndex]]

Fifo == INSTANCE BoundedFifo
          WITH items <- Items, answer <- answer, Capacity <- MaxIndex

\* The ring, its two indices and its counter together behave as a bounded
\* first-in first-out queue: nothing is lost, doubled or reordered where the
\* indices wrap around, nor after a free that stopped half way.
ImplementsFifo == Fifo!Spec

\* The indices and the counter, three redundant pieces of state, agree, and
\* the slots outside the window are released, so that a pulled socket is not
\* kept alive by the table.
WindowAgrees ==
  /\ (last + 1) % MaxIndex = (first + counter) % MaxIndex
  /\ \A i \in Index : (value[i] # Nil) <=> (i - first) % MaxIndex < counter

=============================================================================
