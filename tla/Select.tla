-------------------------------- MODULE Select --------------------------------
(* select.c of LuaSocket: which of the objects in two tables can be read   *)
(* or written at once. An object with bytes in its own buffer is dirty: it *)
(* can be read although the kernel holds nothing for its descriptor.       *)
EXTENDS Integers, SequencesExt

CONSTANTS
  Item,      \* objects of the script
  Fds,       \* numbers of descriptors
  Tables,    \* the sequences of objects that select may be called with
  SetSize    \* FD_SETSIZE

ASSUME SelectAssumption == Fds \subseteq Nat /\ \A tab \in Tables : tab \in Seq(Item)

VARIABLES
  fdOf,      \* what getfd gives for an object: -1 when it is closed
  isDirty,   \* the objects whose buffer is not empty
  request,   \* the tables and the limit of the call: -1 for none
  kernel,    \* the descriptors that are ready, r and w; fails: one is no descriptor
  waits,     \* the limit that the kernel is given
  result     \* what the call returned
pollVars == <<fdOf, isDirty, request, kernel, waits, result>>

NoResult == [r |-> <<>>, w |-> <<>>, err |-> "running"]

SelectInit ==
  /\ fdOf \in [Item -> Fds \cup {-1}] /\ isDirty \in SUBSET Item
  /\ \A i, j \in Item : i # j /\ fdOf[i] = fdOf[j] => fdOf[i] = -1
  /\ request \in [r: Tables, w: Tables, t: {-1, 5}]
  /\ LET open == {fdOf[i] : i \in Item} \ {-1}
     IN kernel \in [r: SUBSET open, w: SUBSET open, fails: BOOLEAN]
  /\ waits = 0 /\ result = NoResult

Biggest(a, b) == IF a > b THEN a ELSE b
Collecting == [set |-> {}, max |-> -1, wrong |-> FALSE, itab |-> <<>>]
\* The descriptor goes into the set, and into the table that maps it back.
Collected(c, item) ==
  LET fd == fdOf[item]
  IN IF fd = -1 THEN c
     ELSE [set |-> c.set \cup {fd}, max |-> Biggest(c.max, fd), wrong |-> c.wrong \/ fd >= SetSize,
           itab |-> [k \in DOMAIN c.itab \cup {fd} |-> IF k = fd THEN item ELSE c.itab[k]]]
collect_fd(c, tab) ==
  LET Upto[n \in 0 .. Len(tab)] ==
        IF n = 0 THEN [c EXCEPT !.set = {}] ELSE Collected(Upto[n - 1], tab[n])
  IN Upto[Len(tab)]

CanRead(item) == fdOf[item] # -1 /\ item \in isDirty
check_dirty(tab) ==
  LET Upto[n \in 0 .. Len(tab)] ==
        IF n = 0 THEN <<>>
        ELSE IF CanRead(tab[n]) THEN Append(Upto[n - 1], tab[n]) ELSE Upto[n - 1]
  IN Upto[Len(tab)]

\* Slip for return_fd: the loop begins at one.
ReturnFromOne(set, max, itab) ==
  LET Upto[fd \in 0 .. max] ==
        IF fd <= 1 THEN <<>>
        ELSE IF fd - 1 \in set THEN Append(Upto[fd - 1], itab[fd - 1]) ELSE Upto[fd - 1]
  IN Upto[max]

\* The objects of the descriptors below max that are in the set, in their order.
return_fd(set, max, itab) ==
  LET Upto[fd \in 0 .. max] ==
        IF fd = 0 THEN <<>>
        ELSE IF fd - 1 \in set THEN Append(Upto[fd - 1], itab[fd - 1]) ELSE Upto[fd - 1]
  IN Upto[max]

(* The kernel leaves in the sets what is ready, and waits for the first    *)
(* that is. When it fails it leaves the sets alone, and select fails too   *)
(* unless something was dirty.                                             *)
global_select ==
  LET reading == collect_fd(Collecting, request.r)
      both == collect_fd(reading, request.w)
      dirty == check_dirty(request.r)
      rset == reading.set \ {fdOf[dirty[k]] : k \in DOMAIN dirty}
      rs == IF kernel.fails THEN rset ELSE rset \cap kernel.r
      ws == IF kernel.fails THEN both.set ELSE both.set \cap kernel.w
      returned == [r |-> dirty \o return_fd(rs, both.max + 1, both.itab),
                   w |-> return_fd(ws, both.max + 1, both.itab), err |-> "none"]
  IN IF both.wrong THEN result' = [NoResult EXCEPT !.err = "too large"] /\ UNCHANGED waits
     ELSE /\ waits' = IF dirty # <<>> THEN 0 ELSE request.t
          /\ \/ /\ dirty # <<>> \/ (~kernel.fails /\ rs \cup ws # {})
                /\ result' = returned
             \/ /\ dirty = <<>> /\ kernel.fails
                /\ result' = [NoResult EXCEPT !.err = "failed"]
             \/ /\ dirty = <<>> /\ ~kernel.fails /\ rs \cup ws = {} /\ request.t # -1
                /\ result' = [NoResult EXCEPT !.err = "timeout"]

SelectNext == result = NoResult /\ global_select /\ UNCHANGED <<fdOf, isDirty, request, kernel>>

SelectSpec == SelectInit /\ [][SelectNext]_pollVars

-----------------------------------------------------------------------------
(* Unless the kernel fails, select finds every object that can be read or  *)
(* written and no other, an object that is asked for once comes once, and  *)
(* it neither waits nor times out while an object has unread bytes of its  *)
(* own: the kernel, which gave them away, would never wake it.             *)
Open(tab) == {item \in ToSet(tab) : fdOf[item] # -1}
Readable == {item \in Open(request.r) : item \in isDirty \/ fdOf[item] \in kernel.r}
Writable == {item \in Open(request.w) : fdOf[item] \in kernel.w}
SelectFindsAll ==
  result.err # "running" /\ ~kernel.fails =>
    /\ result.err = "none" => ToSet(result.r) = Readable /\ ToSet(result.w) = Writable
    /\ result.err = "timeout" => Readable = {} /\ Writable = {}
    /\ IsInjective(request.r) => IsInjective(result.r)
    /\ IsInjective(result.w)
    /\ result.err = "none" /\ Open(request.r) \cap isDirty # {} => waits = 0
=============================================================================
