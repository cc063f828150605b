------------------------------ MODULE SliceUpload ------------------------------
(***************************************************************************)
(* fsystem_manager: one client uploads a file in N slices with             *)
(* optSlicePush, several at a time over several workers, and joins them    *)
(* with optSliceComplete.  Workers die between any two steps.  The client  *)
(* repeats a call whose connection broke, starts over when complete finds  *)
(* a slice missing, and has one upload task per path.                      *)
(***************************************************************************)
EXTENDS Naturals, Sequences, FiniteSets

CONSTANTS
  N,         \* totalChunks
  Worker,
  MaxCrash   \* bound: how many workers die

ASSUME SliceUploadAssumption == N \in Nat \ {0} /\ MaxCrash \in Nat

Slice == 1 .. N

VARIABLES
  part,      \* .UPLOAD_CACHE/<uuid>_part_<i>: absent, empty or full
  dst,       \* the content of the destination file
  handler,   \* the handler of each worker
  slice,     \* the slice that it pushes, or copies next
  buffer,    \* what complete has written to final_file, not yet flushed
  acked,     \* slices of this attempt that the client knows to be uploaded
  code,      \* the ERRORCODE of the last complete
  crashes

sliceVars == <<part, dst, handler, slice, buffer, acked, code, crashes>>

Busy == {w \in Worker : handler[w] # "idle"}
Completing == {w \in Worker : handler[w] \in {"join", "copy"}}

SliceTypeOK ==
  /\ part \in [Slice -> {"absent", "empty", "full"}]
  /\ dst \in Seq(Slice) /\ buffer \in Seq(Slice)
  /\ Len(dst) + Len(buffer) <= N
  /\ handler \in [Worker -> {"idle", "push", "write", "join", "copy"}]
  /\ slice \in [Worker -> 1 .. N + 1]
  /\ acked \subseteq Slice
  /\ code \in {"none", "0", "20009"}
  /\ crashes \in 0 .. MaxCrash

SliceInit ==
  /\ part = [i \in Slice |-> "absent"]
  /\ dst = <<>> /\ buffer = <<>>
  /\ handler = [w \in Worker |-> "idle"] /\ slice = [w \in Worker |-> 1]
  /\ acked = {} /\ code = "none" /\ crashes = 0

Goto(w, label) == handler' = [handler EXCEPT ![w] = label]

-----------------------------------------------------------------------------
(* optSlicePush *)

\* The form is read piece by piece; then the handler runs without a pause.
PushStart(w, i) ==
  /\ handler[w] = "idle" /\ Completing = {} /\ code # "0"
  /\ i \notin acked
  /\ \A v \in Busy : slice[v] # i
  /\ Goto(w, "push") /\ slice' = [slice EXCEPT ![w] = i]
  /\ UNCHANGED <<part, dst, buffer, acked, code, crashes>>

\* Slip for PushOpen: the check that the source has commented out; a part
\* that exists is refused.
PushOpenOnce(w) ==
  /\ handler[w] = "push"
  /\ IF part[slice[w]] = "absent"
     THEN part' = [part EXCEPT ![slice[w]] = "empty"] /\ Goto(w, "write")
     ELSE UNCHANGED part /\ Goto(w, "idle")
  /\ UNCHANGED <<dst, slice, buffer, acked, code, crashes>>

\* Slip for PushOpen: the answer is sent before the content is written.
PushOpenAcks(w) ==
  /\ handler[w] = "push"
  /\ part' = [part EXCEPT ![slice[w]] = "empty"] /\ Goto(w, "write")
  /\ acked' = acked \cup {slice[w]}
  /\ UNCHANGED <<dst, slice, buffer, code, crashes>>

\* io.open with "wb" creates the part, or empties it.
PushOpen(w) ==
  /\ handler[w] = "push"
  /\ part' = [part EXCEPT ![slice[w]] = "empty"] /\ Goto(w, "write")
  /\ UNCHANGED <<dst, slice, buffer, acked, code, crashes>>

PushWrite(w) ==
  /\ handler[w] = "write"
  /\ part' = [part EXCEPT ![slice[w]] = "full"]
  /\ acked' = acked \cup {slice[w]}
  /\ Goto(w, "idle") /\ slice' = [slice EXCEPT ![w] = 1]
  /\ UNCHANGED <<dst, buffer, code, crashes>>

-----------------------------------------------------------------------------
(* optSliceComplete *)

CompleteStart(w) ==
  /\ Busy = {} /\ code # "0"
  /\ acked = Slice
  /\ Goto(w, "join") /\ slice' = [slice EXCEPT ![w] = 1]
  /\ UNCHANGED <<part, dst, buffer, acked, code, crashes>>

\* io.open with "wb" empties the destination before any part is looked at.
Join(w) ==
  /\ handler[w] = "join"
  /\ dst' = <<>> /\ Goto(w, "copy")
  /\ UNCHANGED <<part, slice, buffer, acked, code, crashes>>

\* Write what the library holds back.
FlushFile(w) ==
  /\ handler[w] = "copy" /\ buffer # <<>>
  /\ dst' = dst \o buffer /\ buffer' = <<>>
  /\ UNCHANGED <<part, handler, slice, acked, code, crashes>>

\* Slip for Copy: the part is kept when it has been copied.
CopyKeeps(w) ==
  /\ handler[w] = "copy" /\ slice[w] <= N
  /\ part[slice[w]] # "absent"
  /\ buffer' = IF part[slice[w]] = "full" THEN Append(buffer, slice[w]) ELSE buffer
  /\ slice' = [slice EXCEPT ![w] = @ + 1]
  /\ UNCHANGED <<part, dst, handler, acked, code, crashes>>

\* The next part is copied and removed.
Copy(w) ==
  /\ handler[w] = "copy" /\ slice[w] <= N
  /\ part[slice[w]] # "absent"
  /\ buffer' = IF part[slice[w]] = "full" THEN Append(buffer, slice[w]) ELSE buffer
  /\ part' = [part EXCEPT ![slice[w]] = "absent"]
  /\ slice' = [slice EXCEPT ![w] = @ + 1]
  /\ UNCHANGED <<dst, handler, acked, code, crashes>>

\* Closing the file flushes it; the client hears the code, and starts over
\* unless it is success.
Close(w, answer) ==
  /\ dst' = dst \o buffer /\ buffer' = <<>>
  /\ code' = answer
  /\ acked' = IF answer = "0" THEN acked ELSE {}
  /\ Goto(w, "idle") /\ slice' = [slice EXCEPT ![w] = 1]
  /\ UNCHANGED <<part, crashes>>

Missing(w) ==
  /\ handler[w] = "copy" /\ slice[w] <= N
  /\ part[slice[w]] = "absent"
  /\ Close(w, "20009")

Finish(w) ==
  /\ handler[w] = "copy" /\ slice[w] = N + 1
  /\ Close(w, "0")

\* The worker dies: the connection breaks, and the client repeats the call,
\* the slice or complete.
Crash(w) ==
  /\ w \in Busy /\ crashes < MaxCrash
  /\ crashes' = crashes + 1
  /\ buffer' = IF w \in Completing THEN <<>> ELSE buffer
  /\ Goto(w, "idle") /\ slice' = [slice EXCEPT ![w] = 1]
  /\ UNCHANGED <<part, dst, acked, code>>

Handler(w) ==
  PushOpen(w) \/ PushWrite(w) \/ Join(w) \/ FlushFile(w) \/ Copy(w) \/ Missing(w) \/ Finish(w)

Client == \E w \in Worker : CompleteStart(w) \/ \E i \in Slice : PushStart(w, i)

Done == code = "0" /\ Busy = {} /\ UNCHANGED sliceVars

SliceNext == Client \/ Done \/ \E w \in Worker : Handler(w) \/ Crash(w)

\* A worker goes on with what it started, and the client with its upload.
SliceSpec ==
  /\ SliceInit /\ [][SliceNext]_sliceVars
  /\ \A w \in Worker : WF_sliceVars(Handler(w))
  /\ WF_sliceVars(Client)

-----------------------------------------------------------------------------
(* Properties.                                                             *)

Whole == [i \in Slice |-> i]

\* When complete reports success, the file holds every slice, once and in
\* order, whatever died before.
SuccessMeansWhole == code = "0" => dst = Whole

\* A slice that was acknowledged is never lost while no worker dies: it is in
\* its part, in the buffer of complete, or in the destination.
AckedIsSomewhere ==
  crashes = 0 =>
    \A i \in acked : part[i] = "full" \/ \E k \in 1 .. Len(dst \o buffer) : (dst \o buffer)[k] = i

\* A finished upload leaves nothing in the cache, although attempts that were
\* given up did.
CacheIsEmptied == code = "0" => \A i \in Slice : part[i] = "absent"

\* What success promises about the file, and about the cache.
SuccessIsClean == SuccessMeansWhole /\ CacheIsEmptied

\* An upload that has begun succeeds, after finitely many crashes.
UploadFinishes == Busy # {} ~> code = "0"
=============================================================================
