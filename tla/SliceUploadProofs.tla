-------------------------- MODULE SliceUploadProofs ---------------------------
(***************************************************************************)
(* Proofs about SliceUpload, for any number of slices, workers and crashes *)
(* of workers: what a complete that reports success has left behind, and   *)
(* where an acknowledged slice is.                                         *)
(***************************************************************************)
EXTENDS SliceUpload, TLAPS, SequenceTheorems

\* Who is where. A complete works alone; a slice that is being pushed is not
\* acknowledged, and what the library holds back belongs to a complete.
Roles ==
  /\ \A w \in Completing : Busy = {w} /\ acked = Slice
  /\ \A w \in Worker : handler[w] = "join" => slice[w] = 1
  /\ \A w \in Worker : handler[w] \in {"push", "write"} => slice[w] \in Slice \ acked
  /\ \A v, w \in Busy : v # w => slice[v] # slice[w]
  /\ (\A w \in Worker : handler[w] # "copy") => buffer = <<>>
  /\ code = "0" => Busy = {}

\* What the file has received when slice k is the next.
Prefix(k) == [i \in 1 .. k - 1 |-> i]

\* An acknowledged slice is not empty. A complete has copied, whole and in
\* order, and removed what comes before its next slice.
Copied ==
  /\ \A i \in acked : part[i] # "empty"
  /\ \A w \in Worker : handler[w] = "copy" =>
       /\ dst \o buffer = Prefix(slice[w])
       /\ \A i \in 1 .. slice[w] - 1 : part[i] = "absent"
  /\ code = "0" => dst = Whole /\ \A i \in Slice : part[i] = "absent"

\* As long as nothing dies, what is acknowledged and not yet copied is full.
NotLost ==
  crashes = 0 /\ code # "0" =>
    \A i \in acked :
      part[i] = "full" \/ \E w \in Worker : handler[w] = "copy" /\ i < slice[w]

Inv == SliceTypeOK /\ Roles /\ Copied /\ NotLost

-----------------------------------------------------------------------------
LEMMA PrefixSeq ==
  ASSUME NEW k \in 1 .. N + 1
  PROVE  Prefix(k) \in Seq(Slice) /\ Len(Prefix(k)) = k - 1
  BY SliceUploadAssumption DEF Prefix, Slice

LEMMA AppendPrefix ==
  ASSUME NEW k \in Slice
  PROVE  Append(Prefix(k), k) = Prefix(k + 1)
  <1>1. Prefix(k) \in Seq(Slice) /\ Len(Prefix(k)) = k - 1
    BY PrefixSeq, SliceUploadAssumption DEF Slice
  <1>2. /\ Append(Prefix(k), k) \in Seq(Slice)
        /\ Len(Append(Prefix(k), k)) = k
        /\ \A i \in 1 .. k : Append(Prefix(k), k)[i] = i
    BY <1>1, SliceUploadAssumption DEF Prefix, Slice
  <1>3. Prefix(k + 1) \in Seq(Slice) /\ Len(Prefix(k + 1)) = k
    BY PrefixSeq, SliceUploadAssumption DEF Slice
  <1>4. \A i \in 1 .. k : Prefix(k + 1)[i] = i
    BY SliceUploadAssumption DEF Prefix, Slice
  <1> QED BY <1>2, <1>3, <1>4, SeqEqual

LEMMA ConcatAppend ==
  ASSUME NEW S, NEW s \in Seq(S), NEW t \in Seq(S), NEW e \in S
  PROVE  s \o Append(t, e) = Append(s \o t, e)
  <1>1. s \o Append(t, e) \in Seq(S) /\ Append(s \o t, e) \in Seq(S)
    OBVIOUS
  <1>2. Len(s \o Append(t, e)) = Len(Append(s \o t, e))
    OBVIOUS
  <1>3. \A i \in 1 .. Len(s \o Append(t, e)) : (s \o Append(t, e))[i] = Append(s \o t, e)[i]
    OBVIOUS
  <1> QED BY <1>1, <1>2, <1>3, SeqEqual

LEMMA PrefixWhole == Prefix(N + 1) = Whole
  BY SliceUploadAssumption DEF Prefix, Whole, Slice
-----------------------------------------------------------------------------
LEMMA InitInv == SliceInit => Inv
  <1> SUFFICES ASSUME SliceInit PROVE Inv
    OBVIOUS
  <1>1. SliceTypeOK
    BY SliceUploadAssumption DEF SliceInit, SliceTypeOK, Slice
  <1>2. Roles /\ Copied /\ NotLost
    BY DEF SliceInit, Roles, Copied, NotLost, Completing, Busy
  <1> QED BY <1>1, <1>2 DEF Inv

LEMMA TypeStep == Inv /\ [SliceNext]_sliceVars => SliceTypeOK'
  <1> SUFFICES ASSUME Inv, [SliceNext]_sliceVars PROVE SliceTypeOK'
    OBVIOUS
  <1> USE SliceUploadAssumption DEF Inv, SliceTypeOK, Slice, Goto
  <1>1. ASSUME NEW w \in Worker, CompleteStart(w) \/ PushOpen(w) \/ PushWrite(w) PROVE SliceTypeOK'
    <2>1. CASE CompleteStart(w)
      BY <2>1 DEF CompleteStart
    <2>2. CASE PushOpen(w)
      BY <2>2 DEF PushOpen
    <2>3. CASE PushWrite(w)
      <3>1. slice[w] \in Slice
        BY <2>3 DEF PushWrite, Roles
      <3>2. part' \in [Slice -> {"absent", "empty", "full"}] /\ acked' \subseteq Slice
        BY <2>3, <3>1 DEF PushWrite
      <3>3. slice' \in [Worker -> 1 .. N + 1] /\ handler' \in [Worker -> {"idle", "push", "write", "join", "copy"}]
        BY <2>3 DEF PushWrite
      <3> QED BY <2>3, <3>2, <3>3 DEF PushWrite
    <2> QED BY <1>1, <2>1, <2>2, <2>3
  <1>2. ASSUME NEW w \in Worker, NEW i \in Slice, PushStart(w, i) PROVE SliceTypeOK'
    BY <1>2 DEF PushStart
  <1>3. ASSUME NEW w \in Worker, Join(w) PROVE SliceTypeOK'
    <2>1. dst' = <<>> /\ buffer' = buffer /\ Len(buffer) <= N
      BY <1>3 DEF Join
    <2> QED BY <1>3, <2>1 DEF Join
  <1>4. ASSUME NEW w \in Worker, FlushFile(w) PROVE SliceTypeOK'
    <2>1. dst' \in Seq(Slice) /\ Len(dst') = Len(dst) + Len(buffer) /\ buffer' = <<>>
      BY <1>4 DEF FlushFile
    <2> QED BY <1>4, <2>1 DEF FlushFile
  <1>5. ASSUME NEW w \in Worker, Copy(w) PROVE SliceTypeOK'
    <2>1. dst \o buffer = Prefix(slice[w]) /\ slice[w] \in 1 .. N
      BY <1>5 DEF Copy, Copied
    <2>2. Len(dst) + Len(buffer) = slice[w] - 1
      <3>1. Len(dst \o buffer) = Len(dst) + Len(buffer)
        BY ConcatProperties
      <3>2. slice[w] \in 1 .. N + 1
        BY <2>1
      <3> QED BY <2>1, <3>1, <3>2, PrefixSeq
    <2>3. /\ buffer' \in Seq(Slice) /\ Len(buffer') \in Nat
          /\ Len(buffer') <= Len(buffer) + 1 /\ dst' = dst
      <3>1. buffer' = buffer \/ buffer' = Append(buffer, slice[w])
        BY <1>5 DEF Copy
      <3>2. Append(buffer, slice[w]) \in Seq(Slice) /\ Len(Append(buffer, slice[w])) = Len(buffer) + 1
        BY <2>1
      <3>3. Len(buffer) \in Nat /\ dst' = dst
        BY <1>5, LenProperties DEF Copy
      <3>4. CASE buffer' = buffer
        BY <3>3, <3>4
      <3>5. CASE buffer' = Append(buffer, slice[w])
        BY <3>2, <3>3, <3>5
      <3> QED BY <3>1, <3>4, <3>5
    <2> QED BY <1>5, <2>1, <2>2, <2>3 DEF Copy
  <1>6. ASSUME NEW w \in Worker, Missing(w) \/ Finish(w) PROVE SliceTypeOK'
    <2>1. PICK a \in {"0", "20009"} : Close(w, a)
      BY <1>6 DEF Missing, Finish
    <2>2. dst' \in Seq(Slice) /\ Len(dst') = Len(dst) + Len(buffer) /\ buffer' = <<>>
      BY <2>1, ConcatProperties DEF Close
    <2> QED BY <2>1, <2>2 DEF Close
  <1>7. ASSUME NEW w \in Worker, Crash(w) PROVE SliceTypeOK'
    <2>1. buffer' \in Seq(Slice) /\ Len(buffer') <= Len(buffer) /\ Len(buffer') \in Nat /\ dst' = dst
      <3>1. /\ Len(buffer) \in Nat /\ dst' = dst
            /\ <<>> \in Seq(Slice) /\ Len(<<>>) = 0
        BY <1>7, LenProperties, EmptySeq DEF Crash
      <3>2. buffer' = buffer \/ buffer' = <<>>
        BY <1>7 DEF Crash
      <3>3. CASE buffer' = buffer
        BY <3>1, <3>3
      <3>4. CASE buffer' = <<>>
        BY <3>1, <3>4
      <3> QED BY <3>2, <3>3, <3>4
    <2>2. Len(dst') + Len(buffer') <= N
      BY <2>1
    <2> QED BY <1>7, <2>1, <2>2 DEF Crash
  <1>8. CASE UNCHANGED sliceVars
    BY <1>8 DEF sliceVars
  <1> QED BY <1>1, <1>2, <1>3, <1>4, <1>5, <1>6, <1>7, <1>8 DEF SliceNext, Client, Done, Handler

LEMMA RolesStep == Inv /\ [SliceNext]_sliceVars => Roles'
  <1> SUFFICES ASSUME Inv, [SliceNext]_sliceVars PROVE Roles'
    OBVIOUS
  <1> USE DEF Inv, SliceTypeOK, Roles, Goto, Completing, Busy
  <1>1. ASSUME NEW w \in Worker, CompleteStart(w) PROVE Roles'
    BY <1>1 DEF CompleteStart
  <1>2. ASSUME NEW w \in Worker, NEW i \in Slice, PushStart(w, i) PROVE Roles'
    BY <1>2 DEF PushStart
  <1>3. ASSUME NEW w \in Worker, PushOpen(w) PROVE Roles'
    BY <1>3 DEF PushOpen
  <1>4. ASSUME NEW w \in Worker, PushWrite(w) PROVE Roles'
    <2>1. Completing = {}
      BY <1>4 DEF PushWrite
    <2> QED BY <1>4, <2>1 DEF PushWrite
  <1>5. ASSUME NEW w \in Worker, Join(w) PROVE Roles'
    BY <1>5 DEF Join
  <1>6. ASSUME NEW w \in Worker, FlushFile(w) \/ Copy(w) PROVE Roles'
    BY <1>6 DEF FlushFile, Copy
  <1>7. ASSUME NEW w \in Worker, Missing(w) \/ Finish(w) PROVE Roles'
    <2>1. Busy = {w}
      BY <1>7 DEF Missing, Finish
    <2>2. Busy' = {} /\ buffer' = <<>>
      <3>1. PICK a \in {"0", "20009"} : Close(w, a)
        BY <1>7 DEF Missing, Finish
      <3>2. handler' = [handler EXCEPT ![w] = "idle"] /\ buffer' = <<>>
        BY <3>1 DEF Close
      <3> QED BY <2>1, <3>2
    <2>3. code' = "0" => Busy' = {}
      BY <2>2
    <2>4. \A v \in Worker : handler'[v] = "idle"
      BY <2>2
    <2> QED BY <2>2, <2>4
  <1>8. ASSUME NEW w \in Worker, Crash(w) PROVE Roles'
    BY <1>8 DEF Crash
  <1>9. CASE UNCHANGED sliceVars
    BY <1>9 DEF sliceVars
  <1> QED
    BY <1>1, <1>2, <1>3, <1>4, <1>5, <1>6, <1>7, <1>8, <1>9 DEF SliceNext, Client, Done, Handler
LEMMA CopiedStep == Inv /\ [SliceNext]_sliceVars => Copied'
  <1> SUFFICES ASSUME Inv, [SliceNext]_sliceVars PROVE Copied'
    OBVIOUS
  <1> USE DEF Inv, SliceTypeOK, Copied, Goto
  <1>1. ASSUME NEW w \in Worker, CompleteStart(w) PROVE Copied'
    BY <1>1 DEF CompleteStart
  <1>2. ASSUME NEW w \in Worker, NEW i \in Slice, PushStart(w, i) PROVE Copied'
    BY <1>2 DEF PushStart
  <1>3. ASSUME NEW w \in Worker, PushOpen(w) \/ PushWrite(w) PROVE Copied'
    <2>1. slice[w] \in Slice \ acked
      BY <1>3 DEF PushOpen, PushWrite, Roles
    <2>2. \A v \in Worker : handler[v] # "copy"
      BY <1>3 DEF PushOpen, PushWrite, Roles, Completing, Busy
    <2>3. code # "0"
      BY <1>3 DEF PushOpen, PushWrite, Roles, Busy
    <2>4. CASE PushOpen(w)
      BY <2>1, <2>2, <2>3, <2>4 DEF PushOpen
    <2>5. CASE PushWrite(w)
      BY <2>1, <2>2, <2>3, <2>5 DEF PushWrite
    <2> QED BY <1>3, <2>4, <2>5
  <1>4. ASSUME NEW w \in Worker, Join(w) PROVE Copied'
    <2>1. /\ \A v \in Worker : v # w => handler[v] = "idle"
          /\ code # "0" /\ buffer = <<>>
      BY <1>4 DEF Join, Roles, Completing, Busy
    <2>2. dst' \o buffer' = <<>> /\ slice' = slice
      BY <1>4, <2>1 DEF Join
    <2>3. slice[w] = 1
      BY <1>4 DEF Join, Roles
    <2> QED BY <1>4, <2>1, <2>2, <2>3 DEF Join, Prefix
  <1>5. ASSUME NEW w \in Worker, FlushFile(w) PROVE Copied'
    <2>1. dst' \o buffer' = dst \o buffer
      BY <1>5, ConcatEmptySeq, ConcatProperties DEF FlushFile
    <2>2. code # "0"
      BY <1>5 DEF FlushFile, Roles, Busy
    <2> QED BY <1>5, <2>1, <2>2 DEF FlushFile
  <1>6. ASSUME NEW w \in Worker, Copy(w) PROVE Copied'
    <2>1. /\ \A v \in Worker : v # w => handler[v] = "idle"
          /\ code # "0" /\ acked = Slice
      BY <1>6 DEF Copy, Roles, Completing, Busy
    <2>2. slice[w] \in Slice /\ slice'[w] = slice[w] + 1 /\ handler' = handler
      BY <1>6, SliceUploadAssumption DEF Copy, Slice
    <2>3. part[slice[w]] = "full"
      BY <1>6, <2>1, <2>2 DEF Copy
    <2>4. dst' \o buffer' = Prefix(slice'[w])
      <3>1. dst' \o buffer' = Append(dst \o buffer, slice[w])
        BY <1>6, <2>2, <2>3, ConcatAppend DEF Copy
      <3>2. dst \o buffer = Prefix(slice[w])
        BY <1>6 DEF Copy
      <3> QED BY <2>2, <3>1, <3>2, AppendPrefix
    <2>5. \A i \in 1 .. slice'[w] - 1 : part'[i] = "absent"
      BY <1>6, <2>2, SliceUploadAssumption DEF Copy, Slice
    <2>6. \A i \in Slice : part'[i] # "empty"
      BY <1>6, <2>1, <2>2 DEF Copy
    <2> QED BY <1>6, <2>1, <2>2, <2>4, <2>5, <2>6 DEF Copy
  <1>7. ASSUME NEW w \in Worker, Missing(w) \/ Finish(w) PROVE Copied'
    <2>1. \A v \in Worker : v # w => handler[v] = "idle"
      BY <1>7 DEF Missing, Finish, Roles, Completing, Busy
    <2>2. /\ handler' = [handler EXCEPT ![w] = "idle"] /\ part' = part
          /\ dst' = dst \o buffer /\ acked' \subseteq acked
      BY <1>7 DEF Missing, Finish, Close
    <2>3. CASE Missing(w)
      BY <2>1, <2>2, <2>3 DEF Missing, Close
    <2>4. CASE Finish(w)
      <3>1. dst' = Whole
        BY <2>2, <2>4, PrefixWhole DEF Finish
      <3>2. \A i \in Slice : part[i] = "absent"
        BY <2>4, SliceUploadAssumption DEF Finish, Slice
      <3> QED BY <2>1, <2>2, <3>1, <3>2
    <2> QED BY <1>7, <2>3, <2>4
  <1>8. ASSUME NEW w \in Worker, Crash(w) PROVE Copied'
    <2>1. \A v \in Worker : handler'[v] = "copy" => handler[v] = "copy" /\ w \notin Completing /\ slice'[v] = slice[v]
      BY <1>8 DEF Crash, Roles, Completing, Busy
    <2>2. code # "0"
      BY <1>8 DEF Crash, Roles
    <2> QED BY <1>8, <2>1, <2>2 DEF Crash
  <1>9. CASE UNCHANGED sliceVars
    BY <1>9 DEF sliceVars
  <1> QED
    BY <1>1, <1>2, <1>3, <1>4, <1>5, <1>6, <1>7, <1>8, <1>9 DEF SliceNext, Client, Done, Handler

LEMMA NotLostStep == Inv /\ [SliceNext]_sliceVars => NotLost'
  <1> SUFFICES ASSUME Inv, [SliceNext]_sliceVars PROVE NotLost'
    OBVIOUS
  <1> USE DEF Inv, SliceTypeOK, NotLost, Goto
  <1>1. ASSUME NEW w \in Worker, CompleteStart(w) PROVE NotLost'
    BY <1>1 DEF CompleteStart, Busy
  <1>2. ASSUME NEW w \in Worker, NEW i \in Slice, PushStart(w, i) PROVE NotLost'
    BY <1>2 DEF PushStart
  <1>3. ASSUME NEW w \in Worker, PushOpen(w) \/ PushWrite(w) PROVE NotLost'
    <2>1. slice[w] \in Slice \ acked
      BY <1>3 DEF PushOpen, PushWrite, Roles
    <2>2. \A v \in Worker : handler[v] # "copy"
      BY <1>3 DEF PushOpen, PushWrite, Roles, Completing, Busy
    <2>3. CASE PushOpen(w)
      BY <2>1, <2>2, <2>3 DEF PushOpen
    <2>4. CASE PushWrite(w)
      BY <2>1, <2>2, <2>4 DEF PushWrite
    <2> QED BY <1>3, <2>3, <2>4
  <1>4. ASSUME NEW w \in Worker, Join(w) PROVE NotLost'
    <2>1. \A v \in Worker : handler[v] # "copy"
      BY <1>4 DEF Join, Roles, Completing, Busy
    <2> QED BY <1>4, <2>1 DEF Join
  <1>5. ASSUME NEW w \in Worker, FlushFile(w) PROVE NotLost'
    BY <1>5 DEF FlushFile
  <1>6. ASSUME NEW w \in Worker, Copy(w) PROVE NotLost'
    <2>1. \A v \in Worker : handler[v] = "copy" => v = w
      BY <1>6 DEF Copy, Roles, Completing, Busy
    <2>2. slice[w] \in Slice /\ slice'[w] = slice[w] + 1 /\ handler' = handler /\ handler[w] = "copy"
      BY <1>6, SliceUploadAssumption DEF Copy, Slice
    <2>3. ASSUME NEW i \in acked, crashes = 0, code # "0"
          PROVE  part'[i] = "full" \/ i < slice'[w]
      <3>1. part[i] = "full" \/ i < slice[w]
        BY <2>1, <2>3
      <3>2. i \in Slice
        OBVIOUS
      <3> QED BY <1>6, <2>2, <3>1, <3>2, SliceUploadAssumption DEF Copy, Slice
    <2> QED BY <1>6, <2>2, <2>3 DEF Copy
  <1>7. ASSUME NEW w \in Worker, Missing(w) \/ Finish(w) PROVE NotLost'
    BY <1>7 DEF Missing, Finish, Close
  <1>8. ASSUME NEW w \in Worker, Crash(w) PROVE NotLost'
    BY <1>8 DEF Crash
  <1>9. CASE UNCHANGED sliceVars
    BY <1>9 DEF sliceVars
  <1> QED
    BY <1>1, <1>2, <1>3, <1>4, <1>5, <1>6, <1>7, <1>8, <1>9 DEF SliceNext, Client, Done, Handler

LEMMA Invariant == SliceSpec => []Inv
  <1>1. Inv /\ [SliceNext]_sliceVars => Inv'
    BY TypeStep, RolesStep, CopiedStep, NotLostStep DEF Inv
  <1> QED BY InitInv, <1>1, PTL DEF SliceSpec

-----------------------------------------------------------------------------
\* Every variable has its type: the destination and what is held back never
\* have more than N slices.
THEOREM TypeCorrect == SliceSpec => []SliceTypeOK
  <1>1. Inv => SliceTypeOK
    BY DEF Inv
  <1> QED BY Invariant, <1>1, PTL

\* A complete that reports success has joined every slice, once and in order,
\* and leaves no part behind, whatever died before.
THEOREM SuccessLeavesTheFile == SliceSpec => []SuccessIsClean
  <1>1. Inv => SuccessIsClean
    BY DEF Inv, Copied, SuccessIsClean, SuccessMeansWhole, CacheIsEmptied
  <1> QED BY Invariant, <1>1, PTL

\* As long as no worker dies, an acknowledged slice is in its part, in what the
\* library holds back, or in the destination.
THEOREM AcknowledgedIsKept == SliceSpec => []AckedIsSomewhere
  <1>1. Inv => AckedIsSomewhere
    <2> SUFFICES ASSUME Inv, crashes = 0, NEW i \in acked, part[i] # "full"
                 PROVE  \E k \in 1 .. Len(dst \o buffer) : (dst \o buffer)[k] = i
      BY DEF AckedIsSomewhere
    <2>1. i \in Slice
      BY DEF Inv, SliceTypeOK
    <2>2. CASE code = "0"
      <3>1. dst = Prefix(N + 1) /\ buffer = <<>>
        BY <2>2, PrefixWhole DEF Inv, Copied, Roles, Busy
      <3>2. dst \o buffer = Prefix(N + 1)
        BY <3>1, ConcatEmptySeq DEF Inv, SliceTypeOK
      <3>3. N + 1 \in 1 .. N + 1 /\ i \in 1 .. N
        BY <2>1, SliceUploadAssumption DEF Slice
      <3>4. Len(Prefix(N + 1)) = N /\ Prefix(N + 1)[i] = i
        BY <3>3, PrefixSeq, SliceUploadAssumption DEF Prefix
      <3> QED BY <3>2, <3>3, <3>4
    <2>3. CASE code # "0"
      <3>1. PICK w \in Worker : handler[w] = "copy" /\ i < slice[w]
        BY <2>3 DEF Inv, NotLost
      <3>2. dst \o buffer = Prefix(slice[w]) /\ slice[w] \in 1 .. N + 1
        BY <3>1 DEF Inv, Copied, SliceTypeOK
      <3>3. i \in 1 .. slice[w] - 1
        BY <2>1, <3>1, <3>2, SliceUploadAssumption DEF Slice
      <3>4. Len(Prefix(slice[w])) = slice[w] - 1 /\ Prefix(slice[w])[i] = i
        BY <3>2, <3>3, PrefixSeq DEF Prefix
      <3> QED BY <3>2, <3>3, <3>4
    <2> QED BY <2>2, <2>3
  <1> QED BY Invariant, <1>1, PTL
=============================================================================
