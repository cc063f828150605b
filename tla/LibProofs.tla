------------------------------ MODULE LibProofs -------------------------------
(* Proofs about libraries of src/open/lib. RingQueue, for every capacity   *)
(* and every set of values: the bookkeeping of the ring, and that it       *)
(* implements BoundedFifo. LuaLog, for any number of names, directories,   *)
(* handles and descriptors: descriptors neither leak nor are shared, and   *)
(* lines reach their files. LuaSocket: for every stream, buffer and limit  *)
(* the bytes come and go once and calls wait for their limit (BufferedIo); *)
(* for any number of objects every descriptor has its owner                *)
(* (SocketObjects); for all tables select finds what is ready (Select).    *)
EXTENDS RingQueue, LuaLog, SocketObjects, BufferedIo, Select, SequenceTheorems, FiniteSetTheorems, TLAPS

-----------------------------------------------------------------------------
(* queue.lua                                                               *)

\* Arithmetic modulo a variable, for the numbers that can occur.
LEMMA Wrap ==
  ASSUME NEW n \in Nat \ {0}, NEW x \in Int, -n <= x, x < 2 * n
  PROVE  /\ x < 0 => x % n = x + n
         /\ 0 <= x /\ x < n => x % n = x
         /\ n <= x => x % n = x - n
  OBVIOUS

Slot(d) == (first + d) % MaxIndex
Distance(i) == (i - first) % MaxIndex

LEMMA SlotValue ==
  ASSUME first \in Index
  PROVE  \A d \in 0 .. MaxIndex : Slot(d) =
           IF first + d < MaxIndex THEN first + d ELSE first + d - MaxIndex
  <1> TAKE d \in 0 .. MaxIndex
  <1>1. first + d \in Int /\ 0 <= first + d /\ first + d < 2 * MaxIndex
    BY RingQueueAssumption DEF Index
  <1> PICK x \in Int : x = first + d
    BY <1>1
  <1>2. Slot(d) = x % MaxIndex
    BY DEF Slot
  <1>3. -MaxIndex <= x /\ ~ (x < 0) /\ x < 2 * MaxIndex
    BY <1>1, RingQueueAssumption
  <1>4. CASE x < MaxIndex
    <2>1. x % MaxIndex = x
      BY <1>3, <1>4, Wrap, RingQueueAssumption
    <2> QED BY <1>2, <1>4, <2>1
  <1>5. CASE ~ (x < MaxIndex)
    <2>1. x % MaxIndex = x - MaxIndex
      BY <1>3, <1>5, Wrap, RingQueueAssumption
    <2>2. x - MaxIndex = first + d - MaxIndex
      BY RingQueueAssumption DEF Index
    <2> QED BY <1>2, <1>5, <2>1, <2>2
  <1> QED BY <1>4, <1>5

LEMMA DistanceValue ==
  ASSUME first \in Index
  PROVE  \A i \in Index : Distance(i) =
           IF i >= first THEN i - first ELSE i - first + MaxIndex
  <1> TAKE i \in Index
  <1>1. i - first \in Int /\ -MaxIndex <= i - first /\ i - first < MaxIndex
    BY RingQueueAssumption DEF Index
  <1>2. i \in Int /\ first \in Int /\ (i - first < 0 <=> ~(i >= first))
    BY RingQueueAssumption DEF Index
  <1>3. (i - first) % MaxIndex =
          IF i - first < 0 THEN i - first + MaxIndex ELSE i - first
    BY <1>1, Wrap, RingQueueAssumption
  <1> QED BY <1>2, <1>3 DEF Distance

\* Slot and Distance are inverse to each other.
LEMMA SlotDistance ==
  ASSUME first \in Index
  PROVE  /\ \A d \in Index : Slot(d) \in Index /\ Distance(Slot(d)) = d
         /\ \A i \in Index : Distance(i) \in Index /\ Slot(Distance(i)) = i
  <1>1. ASSUME NEW d \in Index PROVE Slot(d) \in Index /\ Distance(Slot(d)) = d
    <2>1. Slot(d) = IF first + d < MaxIndex THEN first + d ELSE first + d - MaxIndex
      BY SlotValue, RingQueueAssumption DEF Index
    <2>2. Slot(d) \in Index
      BY <2>1, RingQueueAssumption DEF Index
    <2> QED BY <2>1, <2>2, DistanceValue, RingQueueAssumption DEF Index
  <1>2. ASSUME NEW i \in Index PROVE Distance(i) \in Index /\ Slot(Distance(i)) = i
    <2>1. Distance(i) = IF i >= first THEN i - first ELSE i - first + MaxIndex
      BY DistanceValue
    <2>2. Distance(i) \in Index
      BY <2>1, RingQueueAssumption DEF Index
    <2>3. Distance(i) \in 0 .. MaxIndex
      BY <2>2, RingQueueAssumption DEF Index
    <2> QED BY <2>1, <2>2, <2>3, SlotValue, RingQueueAssumption DEF Index
  <1> QED BY <1>1, <1>2

RingIInv == RingTypeOK /\ WindowAgrees

LEMMA InitRing == RingInit => RingIInv
  <1> SUFFICES ASSUME RingInit PROVE RingIInv
    OBVIOUS
  <1>1. RingTypeOK
    BY RingQueueAssumption DEF RingInit, RingTypeOK, Index
  <1>2. \A i \in Index : ~ ((i - first) % MaxIndex < 0)
    BY <1>1, RingQueueAssumption, DistanceValue DEF RingInit, Index, RingTypeOK, Distance
  <1> QED BY <1>1, <1>2 DEF RingInit, RingIInv, WindowAgrees, Index

\* Where a push goes: the slot at distance counter.
LEMMA PushSlot ==
  ASSUME RingIInv, counter < MaxIndex
  PROVE  /\ (last + 1) % MaxIndex = Slot(counter)
         /\ Slot(counter) \in Index
         /\ counter \in Index
  <1>1. counter \in Index /\ first \in Index
    BY RingQueueAssumption DEF RingIInv, RingTypeOK, Index
  <1> QED BY <1>1, SlotDistance DEF RingIInv, WindowAgrees, Slot

\* Moving the first entry along shortens every distance that is long enough.
LEMMA MoveFirst ==
  ASSUME first \in Index, NEW k \in 0 .. MaxIndex, NEW c \in k .. MaxIndex,
         NEW f, f = (first + k) % MaxIndex
  PROVE  /\ f \in Index
         /\ (f + (c - k)) % MaxIndex = (first + c) % MaxIndex
         /\ \A i \in Index : (i - f) % MaxIndex < c - k <=>
                               k <= Distance(i) /\ Distance(i) < c
  <1>1. f = IF first + k < MaxIndex THEN first + k ELSE first + k - MaxIndex
    BY SlotValue DEF Slot
  <1>2. f \in Index
    BY <1>1, RingQueueAssumption DEF Index
  <1>3. (f + (c - k)) % MaxIndex = (first + c) % MaxIndex
    <2>1. (first + c) % MaxIndex =
            IF first + c < MaxIndex THEN first + c ELSE first + c - MaxIndex
      BY SlotValue, RingQueueAssumption DEF Slot
    <2>2. (f + (c - k)) % MaxIndex =
            IF f + (c - k) < MaxIndex THEN f + (c - k) ELSE f + (c - k) - MaxIndex
      <3>1. f + (c - k) \in Int /\ 0 <= f + (c - k) /\ f + (c - k) < 2 * MaxIndex
        BY <1>1, <1>2, RingQueueAssumption DEF Index
      <3> QED BY <3>1, Wrap, RingQueueAssumption
    <2> QED BY <1>1, <2>1, <2>2, RingQueueAssumption DEF Index
  <1>4. ASSUME NEW i \in Index
        PROVE  (i - f) % MaxIndex < c - k <=> k <= Distance(i) /\ Distance(i) < c
    <2>1. (i - f) % MaxIndex = IF i >= f THEN i - f ELSE i - f + MaxIndex
      <3>1. i - f \in Int /\ -MaxIndex <= i - f /\ i - f < MaxIndex
        BY <1>2, RingQueueAssumption DEF Index
      <3>2. i \in Int /\ f \in Int /\ (i - f < 0 <=> ~(i >= f))
        BY <1>2, RingQueueAssumption DEF Index
      <3>3. (i - f) % MaxIndex = IF i - f < 0 THEN i - f + MaxIndex ELSE i - f
        BY <3>1, Wrap, RingQueueAssumption
      <3> QED BY <3>2, <3>3
    <2>2. Distance(i) = IF i >= first THEN i - first ELSE i - first + MaxIndex
      BY DistanceValue
    <2> QED BY <1>1, <2>1, <2>2, RingQueueAssumption DEF Index
  <1> QED BY <1>2, <1>3, <1>4

LEMMA StepRing == RingIInv /\ [RingNext]_ringVars => RingIInv'
  <1> SUFFICES ASSUME RingIInv, [RingNext]_ringVars PROVE RingIInv'
    OBVIOUS
  <1> USE RingQueueAssumption
  <1>1. ASSUME NEW v \in Value, Push(v) PROVE RingIInv'
    <2>1. CASE counter >= MaxIndex
      <3>1. answer' = FALSE /\ UNCHANGED <<first, last, counter, value>>
        BY <1>1, <2>1 DEF Push, RingIInv, RingTypeOK
      <3> QED BY <3>1 DEF RingIInv, RingTypeOK, WindowAgrees
    <2>2. CASE counter < MaxIndex
      <3>1. /\ last' = Slot(counter) /\ last' \in Index /\ counter \in Index
            /\ value' = [value EXCEPT ![last'] = v]
            /\ counter' = counter + 1 /\ answer' = TRUE /\ first' = first
        <4>1. ~ (counter >= MaxIndex)
          BY <2>2 DEF RingIInv, RingTypeOK
        <4> QED BY <1>1, <2>2, <4>1, PushSlot DEF Push
      <3>2. RingTypeOK'
        BY <3>1 DEF RingIInv, RingTypeOK, Index
      <3>3. (last + 1)' % MaxIndex = (first + counter)' % MaxIndex
        <4>1. last' = IF first + counter < MaxIndex THEN first + counter
                      ELSE first + counter - MaxIndex
          BY <3>1, SlotValue DEF RingIInv, RingTypeOK, Index
        <4>2. (last' + 1) % MaxIndex =
                IF last' + 1 < MaxIndex THEN last' + 1 ELSE last' + 1 - MaxIndex
          BY <3>1, Wrap DEF Index
        <4>3. (first + (counter + 1)) % MaxIndex =
                IF first + (counter + 1) < MaxIndex THEN first + (counter + 1)
                ELSE first + (counter + 1) - MaxIndex
          <5>1. counter + 1 \in 0 .. MaxIndex /\ first \in Index
            BY <3>1 DEF RingIInv, RingTypeOK, Index
          <5> QED BY <5>1, SlotValue DEF Slot
        <4> QED BY <3>1, <4>1, <4>2, <4>3 DEF RingIInv, RingTypeOK, Index
      <3>4. \A i \in Index : (value'[i] # Nil) <=> Distance(i) < counter + 1
        <4> TAKE i \in Index
        <4>1. Distance(i) \in Index /\ Slot(Distance(i)) = i
              /\ Distance(Slot(counter)) = counter
          BY <3>1, SlotDistance DEF RingIInv, RingTypeOK
        <4>2. i = last' => Distance(i) = counter
          BY <3>1, <4>1
        <4>3. i # last' => Distance(i) # counter
          BY <3>1, <4>1
        <4>4. value[i] # Nil <=> Distance(i) < counter
          BY DEF RingIInv, WindowAgrees, Distance
        <4> QED BY <3>1, <4>1, <4>2, <4>3, <4>4 DEF RingIInv, RingTypeOK, Index
      <3> QED BY <3>1, <3>2, <3>3, <3>4 DEF RingIInv, WindowAgrees, Distance
    <2>3. counter >= MaxIndex \/ counter < MaxIndex
      <3>1. counter \in 0 .. MaxIndex
        BY DEF RingIInv, RingTypeOK
      <3> QED BY <3>1
    <2> QED BY <2>1, <2>2, <2>3
  <1>2. CASE Pull
    <2>1. CASE counter = 0
      BY <1>2, <2>1 DEF Pull, RingIInv, RingTypeOK, WindowAgrees
    <2>2. CASE counter # 0
      <3>1. /\ answer' = value[first]
            /\ value' = [value EXCEPT ![first] = Nil]
            /\ first' = (first + 1) % MaxIndex /\ counter' = counter - 1
            /\ last' = last /\ 1 \in 0 .. MaxIndex /\ counter \in 1 .. MaxIndex
            /\ first \in Index
        BY <1>2, <2>2 DEF Pull, RingIInv, RingTypeOK
      <3>2. /\ first' \in Index
            /\ (first' + (counter - 1)) % MaxIndex = (first + counter) % MaxIndex
            /\ \A i \in Index : (i - first') % MaxIndex < counter - 1 <=>
                                  1 <= Distance(i) /\ Distance(i) < counter
        BY <3>1, MoveFirst
      <3>3. RingTypeOK'
        <4>1. counter' \in 0 .. MaxIndex
          BY <3>1
        <4> QED BY <3>1, <3>2, <4>1 DEF RingIInv, RingTypeOK
      <3>4. \A i \in Index : value'[i] # Nil <=> 1 <= Distance(i) /\ Distance(i) < counter
        <4> TAKE i \in Index
        <4>1. Distance(i) \in Index /\ Slot(Distance(i)) = i
          BY <3>1, SlotDistance
        <4>2. Slot(0) = first /\ Distance(first) = 0
          BY <3>1, SlotValue, DistanceValue DEF Index
        <4>3. i = first <=> Distance(i) = 0
          BY <4>1, <4>2
        <4>4. value[i] # Nil <=> Distance(i) < counter
          BY DEF RingIInv, WindowAgrees, Distance
        <4> QED BY <3>1, <4>1, <4>3, <4>4 DEF RingIInv, RingTypeOK, Index
      <3> QED BY <3>1, <3>2, <3>3, <3>4 DEF RingIInv, WindowAgrees
    <2> QED BY <2>1, <2>2
  <1>3. CASE Free
    <2> PICK k \in 0 .. counter :
          /\ value' = [i \in Index |-> IF (i - first) % MaxIndex < k THEN Nil ELSE value[i]]
          /\ first' = (first + k) % MaxIndex
          /\ counter' = counter - k
          /\ answer' = Nil /\ UNCHANGED last
      BY <1>3 DEF Free
    <2>1. /\ k \in 0 .. MaxIndex /\ counter \in k .. MaxIndex /\ first \in Index
      BY DEF RingIInv, RingTypeOK
    <2>2. /\ first' \in Index
          /\ (first' + (counter - k)) % MaxIndex = (first + counter) % MaxIndex
          /\ \A i \in Index : (i - first') % MaxIndex < counter - k <=>
                                k <= Distance(i) /\ Distance(i) < counter
      BY <2>1, MoveFirst
    <2>3. RingTypeOK'
      BY <2>1, <2>2 DEF RingIInv, RingTypeOK
    <2>4. \A i \in Index : value'[i] # Nil <=> k <= Distance(i) /\ Distance(i) < counter
      <3> TAKE i \in Index
      <3>1. Distance(i) \in Index
        BY <2>1, SlotDistance
      <3>2. value[i] # Nil <=> Distance(i) < counter
        BY DEF RingIInv, WindowAgrees, Distance
      <3>3. value'[i] = IF Distance(i) < k THEN Nil ELSE value[i]
        BY DEF Distance
      <3> QED BY <2>1, <3>1, <3>2, <3>3 DEF Index
    <2> QED BY <2>2, <2>3, <2>4 DEF RingIInv, WindowAgrees
  <1>4. CASE UNCHANGED ringVars
    BY <1>4 DEF ringVars, RingIInv, RingTypeOK, WindowAgrees
  <1> QED BY <1>1, <1>2, <1>3, <1>4 DEF RingNext

LEMMA AlwaysRing == RingSpec => []RingIInv
  BY InitRing, StepRing, PTL DEF RingSpec

\* For every capacity: first, last, counter and the filled slots agree.
THEOREM WindowAlwaysAgrees == RingSpec => []WindowAgrees
  BY AlwaysRing, PTL DEF RingIInv

-----------------------------------------------------------------------------
(* The refinement.                                                         *)

LEMMA ItemsAre ==
  ASSUME RingIInv
  PROVE  /\ Items \in Seq(Value) /\ Len(Items) = counter
         /\ \A i \in 1 .. counter : Items[i] = value[Slot(i - 1)]
  <1>1. counter \in Nat /\ counter <= MaxIndex /\ first \in Index
    BY RingQueueAssumption DEF RingIInv, RingTypeOK
  <1>2. ASSUME NEW i \in 1 .. counter
        PROVE  value[Slot(i - 1)] \in Value
    <2>1. i - 1 \in Index /\ i - 1 < counter
      BY <1>1, RingQueueAssumption DEF Index
    <2>2. Slot(i - 1) \in Index /\ Distance(Slot(i - 1)) = i - 1
      BY <1>1, <2>1, SlotDistance
    <2>3. value[Slot(i - 1)] # Nil
      BY <2>1, <2>2 DEF RingIInv, WindowAgrees, Distance
    <2> QED BY <2>2, <2>3 DEF RingIInv, RingTypeOK
  <1>3. \A i \in 1 .. counter : Items[i] = value[Slot(i - 1)]
    BY <1>1 DEF Items, Slot
  <1>4. Items = [i \in 1 .. counter |-> value[Slot(i - 1)]]
    BY <1>1 DEF Items, Slot
  <1> QED BY <1>1, <1>2, <1>3, <1>4

LEMMA AppendIs ==
  ASSUME NEW S, NEW s \in Seq(S), NEW v \in S
  PROVE  Append(s, v) = [i \in 1 .. Len(s) + 1 |-> IF i <= Len(s) THEN s[i] ELSE v]
  <1> DEFINE t == Append(s, v)
  <1>1. /\ t \in Seq(S) /\ Len(t) = Len(s) + 1 /\ Len(s) \in Nat
        /\ \A i \in 1 .. Len(s) : t[i] = s[i]
        /\ t[Len(s) + 1] = v
    BY AppendProperties
  <1> HIDE DEF t
  <1>2. t = [i \in 1 .. Len(s) + 1 |-> t[i]]
    BY <1>1
  <1>3. ASSUME NEW i \in 1 .. Len(s) + 1
        PROVE  t[i] = IF i <= Len(s) THEN s[i] ELSE v
    <2>1. CASE i <= Len(s)
      BY <1>1, <2>1
    <2>2. CASE ~ (i <= Len(s))
      <3>1. i = Len(s) + 1
        BY <1>1, <2>2
      <3> QED BY <1>1, <2>2, <3>1
    <2> QED BY <2>1, <2>2
  <1>4. t = [i \in 1 .. Len(s) + 1 |-> IF i <= Len(s) THEN s[i] ELSE v]
    BY <1>2, <1>3
  <1> QED BY <1>4 DEF t

\* Releasing the k oldest slots leaves the queue without its k oldest values.
LEMMA ItemsShift ==
  ASSUME RingIInv, RingIInv', NEW k \in 0 .. counter,
         first' = (first + k) % MaxIndex, counter' = counter - k,
         \A i \in Index : k <= Distance(i) => value'[i] = value[i]
  PROVE  Items' = SubSeq(Items, k + 1, counter)
  <1>1. counter \in Nat /\ counter <= MaxIndex /\ first \in Index
        /\ k \in Nat /\ k <= counter
    BY RingQueueAssumption DEF RingIInv, RingTypeOK
  <1>2. Items' = [j \in 1 .. counter - k |-> value'[(first' + (j - 1)) % MaxIndex]]
    BY DEF Items
  <1>3. SubSeq(Items, k + 1, counter) = [j \in 1 .. counter - k |-> Items[k + j]]
    BY <1>1, ItemsAre
  <1>4. ASSUME NEW j \in 1 .. counter - k
        PROVE  value'[(first' + (j - 1)) % MaxIndex] = Items[k + j]
    <2> DEFINE d == k + j - 1
    <2>1. d \in k .. MaxIndex /\ d \in Index /\ d - k = j - 1 /\ k \in 0 .. MaxIndex
          /\ k + j \in 1 .. counter /\ k + j - 1 = d
      BY <1>1, RingQueueAssumption DEF Index
    <2> HIDE DEF d
    <2>2. (first' + (d - k)) % MaxIndex = Slot(d)
      BY <1>1, <2>1, MoveFirst DEF Slot
    <2>3. Slot(d) \in Index /\ Distance(Slot(d)) = d
      BY <1>1, <2>1, SlotDistance
    <2>4. value'[Slot(d)] = value[Slot(d)]
      <3>1. k <= Distance(Slot(d))
        BY <1>1, <2>1, <2>3
      <3> QED BY <2>3, <3>1, Zenon
    <2>5. (k + j) - 1 = d
      BY <1>1, <2>1
    <2>6. Items[k + j] = value[Slot(d)]
      BY <2>1, <2>5, ItemsAre
    <2> QED BY <2>1, <2>2, <2>4, <2>6
  <1> QED BY <1>2, <1>3, <1>4

LEMMA InitFifo == RingInit => Fifo!Init
  BY RingQueueAssumption DEF RingInit, Fifo!Init, Items

LEMMA StepFifo == RingIInv /\ RingIInv' /\ [RingNext]_ringVars => [Fifo!Next]_<<Items, answer>>
  <1> SUFFICES ASSUME RingIInv, RingIInv', [RingNext]_ringVars PROVE [Fifo!Next]_<<Items, answer>>
    OBVIOUS
  <1> USE RingQueueAssumption
  <1>0. counter \in Nat /\ counter <= MaxIndex /\ first \in Index
    BY DEF RingIInv, RingTypeOK
  <1>1. ASSUME NEW v \in Value, Push(v) PROVE Fifo!Push(v)
    <2>1. CASE counter >= MaxIndex
      <3>1. answer' = FALSE /\ first' = first /\ counter' = counter /\ value' = value
        BY <1>0, <1>1, <2>1 DEF Push
      <3>2. Items' = Items
        BY <3>1 DEF Items
      <3>3. Len(Items) = MaxIndex
        BY <1>0, <2>1, ItemsAre
      <3> QED BY <3>1, <3>2, <3>3 DEF Fifo!Push
    <2>2. CASE counter < MaxIndex
      <3>1. /\ value' = [value EXCEPT ![Slot(counter)] = v]
            /\ counter' = counter + 1 /\ answer' = TRUE /\ first' = first
            /\ counter \in Index /\ Slot(counter) \in Index
        <4>1. ~ (counter >= MaxIndex)
          BY <1>0, <2>2
        <4> QED BY <1>1, <2>2, <4>1, PushSlot DEF Push
      <3>2. Items' = [i \in 1 .. counter + 1 |-> value'[Slot(i - 1)]]
        BY <3>1 DEF Items, Slot
      <3>3. Append(Items, v) =
              [i \in 1 .. counter + 1 |-> IF i <= counter THEN Items[i] ELSE v]
        BY <1>0, ItemsAre, AppendIs
      <3>4. ASSUME NEW i \in 1 .. counter + 1
            PROVE  value'[Slot(i - 1)] = IF i <= counter THEN Items[i] ELSE v
        <4>1. CASE i <= counter
          <5>1. i \in 1 .. counter /\ i - 1 \in Index /\ i - 1 # counter
            BY <1>0, <4>1 DEF Index
          <5>2. Slot(i - 1) \in Index /\ Slot(i - 1) # Slot(counter)
            BY <1>0, <3>1, <5>1, SlotDistance
          <5>3. value'[Slot(i - 1)] = value[Slot(i - 1)]
            BY <3>1, <5>2 DEF RingIInv, RingTypeOK
          <5> QED BY <4>1, <5>1, <5>3, ItemsAre
        <4>2. CASE ~ (i <= counter)
          <5>1. i - 1 = counter
            BY <1>0, <4>2
          <5> QED BY <3>1, <4>2, <5>1 DEF RingIInv, RingTypeOK
        <4> QED BY <4>1, <4>2
      <3>5. Items' = Append(Items, v)
        BY <3>2, <3>3, <3>4
      <3>6. Len(Items) < MaxIndex
        BY <2>2, ItemsAre
      <3> QED BY <3>1, <3>5, <3>6 DEF Fifo!Push
    <2> QED BY <1>0, <2>1, <2>2
  <1>2. ASSUME Pull PROVE Fifo!Pull
    <2>1. CASE counter = 0
      <3>1. answer' = Nil /\ Items' = Items /\ Len(Items) = 0
        BY <1>2, <2>1, ItemsAre DEF Pull, Items
      <3>2. Items = << >>
        BY <3>1, ItemsAre
      <3> QED BY <3>1, <3>2, Zenon DEF Fifo!Pull
    <2>2. CASE counter # 0
      <3>1. /\ answer' = value[first] /\ value' = [value EXCEPT ![first] = Nil]
            /\ first' = (first + 1) % MaxIndex /\ counter' = counter - 1
            /\ 1 \in 0 .. counter /\ 1 \in 1 .. counter
        BY <1>0, <1>2, <2>2 DEF Pull
      <3>2. Slot(0) = first /\ Distance(first) = 0
        BY <1>0, SlotValue, DistanceValue DEF Index
      <3>3. \A i \in Index : 1 <= Distance(i) => value'[i] = value[i]
        BY <3>1, <3>2 DEF RingIInv, RingTypeOK
      <3>4. Items' = SubSeq(Items, 1 + 1, counter)
        BY <3>1, <3>3, ItemsShift
      <3>5. Items # << >> /\ Tail(Items) = SubSeq(Items, 2, counter)
            /\ Head(Items) = Items[1]
        BY <1>0, <2>2, ItemsAre
      <3>6. Items[1] = value[first]
        <4>1. 1 - 1 = 0
          OBVIOUS
        <4> QED BY <3>1, <3>2, <4>1, ItemsAre
      <3>7. Items' = Tail(Items) /\ answer' = Head(Items)
        <4>1. 1 + 1 = 2
          OBVIOUS
        <4>2. Items' = SubSeq(Items, 2, counter)
          BY <3>4, <4>1
        <4> QED BY <3>1, <3>5, <3>6, <4>2, Zenon
      <3> QED BY <3>5, <3>7, Zenon DEF Fifo!Pull
    <2> QED BY <2>1, <2>2
  <1>3. ASSUME Free PROVE Fifo!Free
    <2> PICK k \in 0 .. counter :
          /\ value' = [i \in Index |-> IF (i - first) % MaxIndex < k THEN Nil ELSE value[i]]
          /\ first' = (first + k) % MaxIndex
          /\ counter' = counter - k
          /\ answer' = Nil /\ UNCHANGED last
      BY <1>3 DEF Free
    <2>1. ASSUME NEW i \in Index, k <= Distance(i) PROVE value'[i] = value[i]
      <3>1. Distance(i) \in Index /\ ~ (Distance(i) < k)
        BY <1>0, <2>1, SlotDistance DEF Index
      <3> QED BY <3>1 DEF Distance
    <2>2. Items' = SubSeq(Items, k + 1, counter)
      BY <2>1, ItemsShift
    <2>3. Len(Items) = counter
      BY ItemsAre
    <2> QED BY <2>2, <2>3, Zenon DEF Fifo!Free
  <1>4. CASE UNCHANGED ringVars
    BY <1>4 DEF ringVars, Items
  <1> QED BY <1>1, <1>2, <1>3, <1>4 DEF RingNext, Fifo!Next

\* For every capacity the ring buffer implements the bounded FIFO queue.
THEOREM RingImplementsFifo == RingSpec => ImplementsFifo
  <1>1. RingInit => Fifo!Init
    BY InitFifo
  <1>2. RingIInv /\ RingIInv' /\ [RingNext]_ringVars => [Fifo!Next]_<<Items, answer>>
    BY StepFifo
  <1> QED BY <1>1, <1>2, AlwaysRing, PTL DEF RingSpec, ImplementsFifo, Fifo!Spec

-----------------------------------------------------------------------------
(* lua-log                                                                 *)

\* Memory that is no handle (any more) owns nothing: open starts with fd = -1.
DeadOwnNothing == \A h \in Handle \ live : fd[h] = Null

\* The handle of the line that is being written is kept by a variable or as the
\* default: the collector does not take it.
LineType ==
  \/ writing = NoLine
  \/ writing \in Line /\ writing.hdl \in (inHand \cup {default}) \ {Null}

IInv == TypeOK /\ DescriptorsOwned /\ ReachableIsOpen /\ DeadOwnNothing /\ LineType

\* The part of the state that Reopen works on.
Owned == DescriptorsOwned /\ DeadOwnNothing
FileTypes == fd \in [Handle -> Fd \cup {Null}] /\ file \in [Fd -> File \cup {Null}]

-----------------------------------------------------------------------------
LEMMA InitIInv == Init => IInv
  <1> SUFFICES ASSUME Init PROVE IInv
    OBVIOUS
  <1>1. (CHOOSE n \in Name : TRUE) \in Name
    BY LuaLogAssumption
  <1>2. TypeOK
    <2>1. path \in [Handle -> Dir] /\ name \in [Handle -> Name]
      BY <1>1, LuaLogAssumption DEF Init
    <2>2. fd \in [Handle -> Fd \cup {Null}] /\ file \in [Fd -> File \cup {Null}]
      BY DEF Init
    <2>3. outcome.op = "none" /\ today \in 0..LastDay /\ writing = NoLine /\ current \in Name
      BY <1>1, LuaLogAssumption DEF Init, Quiet
    <2>4. /\ live = {} /\ inHand = {} /\ default = Null /\ logpath \in Dir
          /\ pool \in [Name -> {Null}]
      BY LuaLogAssumption DEF Init
    <2> QED BY <2>1, <2>2, <2>3, <2>4 DEF TypeOK
  <1>3. DescriptorsOwned /\ ReachableIsOpen /\ DeadOwnNothing /\ LineType
    BY DEF Init, DescriptorsOwned, ReachableIsOpen, Reachable, DeadOwnNothing, LineType
  <1> QED BY <1>2, <1>3 DEF IInv

\* _initlog keeps the descriptors owned, for a handle that exists as for a new
\* one, and either opens the handle's file or changes nothing.
LEMMA ReopenKeepsOwned ==
  ASSUME TypeOK, Owned, NEW h \in Handle, NEW p \in Dir, NEW n \in Name,
         NEW ok \in BOOLEAN, Reopen(h, p, n, ok),
         live' = live \cup {h},
         path'[h] = p, name'[h] = n,
         h \in live => path[h] = p /\ name[h] = n,
         \A g \in live \ {h} : path'[g] = path[g] /\ name'[g] = name[g]
  PROVE  /\ Owned' /\ FileTypes'
         /\ \A g \in live : fd[g] # Null => fd'[g] # Null
         /\ ok => fd'[h] # Null /\ file'[fd'[h]] = TodaysFile(p, n)
  <1>1. TodaysFile(p, n) \in File /\ Null \notin Fd
    BY LuaLogAssumption DEF TodaysFile, File, TypeOK
  <1>2. CASE ok
    <2>1. PICK d \in Fd :
            /\ file[d] = Null
            /\ fd' = [fd EXCEPT ![h] = d]
            /\ file' = [e \in Fd |-> IF e = d THEN TodaysFile(p, n)
                                     ELSE IF e = fd[h] THEN Null ELSE file[e]]
      BY <1>2 DEF Reopen
    <2>2. FileTypes'
      BY <1>1, <2>1 DEF FileTypes, TypeOK
    <2>3. fd'[h] = d /\ file'[d] = TodaysFile(p, n) /\ d # Null
      BY <1>1, <2>1 DEF TypeOK
    <2>4. TodaysFile(p, n) # Null /\ TodaysFile(p, n).dir = p /\ TodaysFile(p, n).name = n
      BY <1>1, NullAssumption DEF TodaysFile
    <2>5. \A g \in live \ {h} : fd'[g] = fd[g] /\ fd[g] # d
      BY <1>1, <2>1 DEF Owned, DescriptorsOwned, TypeOK
    <2>6. \A g \in live \ {h} : fd[g] # Null => fd[g] # fd[h]
      BY LuaLogAssumption DEF Owned, DescriptorsOwned, DeadOwnNothing, TypeOK
    <2>7. DescriptorsOwned'
      <3>1. ASSUME NEW g \in live', fd'[g] # Null
            PROVE  /\ file'[fd'[g]] # Null
                   /\ file'[fd'[g]].dir = path'[g] /\ file'[fd'[g]].name = name'[g]
        <4>1. CASE g = h
          BY <2>3, <2>4, <4>1
        <4>2. CASE g # h
          <5>1. g \in live \ {h} /\ fd[g] \in Fd /\ fd'[g] = fd[g]
            BY <2>5, <3>1, <4>2 DEF TypeOK
          <5>2. file'[fd[g]] = file[fd[g]]
            BY <2>1, <2>5, <2>6, <5>1, LuaLogAssumption
          <5> QED BY <3>1, <5>1, <5>2 DEF Owned, DescriptorsOwned
        <4> QED BY <4>1, <4>2
      <3>2. \A f, g \in live' : f # g /\ fd'[f] # Null => fd'[f] # fd'[g]
        BY <2>3, <2>5 DEF Owned, DescriptorsOwned
      <3>3. \A e \in Fd : file'[e] # Null => \E g \in live' : fd'[g] = e
        <4> SUFFICES ASSUME NEW e \in Fd, file'[e] # Null
                     PROVE  \E g \in live' : fd'[g] = e
          OBVIOUS
        <4>1. CASE e = d
          BY <2>3, <4>1
        <4>2. CASE e # d
          <5>1. e # fd[h] /\ file[e] # Null
            BY <2>1, <4>2
          <5>2. PICK g \in live : fd[g] = e
            BY <5>1 DEF Owned, DescriptorsOwned
          <5> QED BY <2>5, <5>1, <5>2
        <4> QED BY <4>1, <4>2
      <3> QED BY <3>1, <3>2, <3>3 DEF DescriptorsOwned
    <2>8. DeadOwnNothing'
      BY <2>1 DEF Owned, DeadOwnNothing, TypeOK
    <2> QED BY <1>2, <2>2, <2>3, <2>5, <2>7, <2>8 DEF Owned
  <1>3. CASE ~ok
    <2>1. UNCHANGED <<fd, file>>
      BY <1>3 DEF Reopen
    <2>2. h \notin live => fd[h] = Null
      BY DEF Owned, DeadOwnNothing
    <2>3. DescriptorsOwned'
      BY <2>1, <2>2 DEF Owned, DescriptorsOwned
    <2> QED BY <1>3, <2>1, <2>3 DEF Owned, DeadOwnNothing, FileTypes, TypeOK
  <1> QED BY <1>2, <1>3

-----------------------------------------------------------------------------
\* Steps that leave handles and files alone.
LEMMA QuietStep ==
  ASSUME IInv, UNCHANGED <<handles, file>>, inHand' \subseteq live, LineType', current' \in Name,
         pool' \in [Name -> live \cup {Null}], default' \in live \cup {Null},
         logpath' \in Dir, today' \in 0..LastDay,
         outcome'.op \in {"none", "open", "write"},
         Reachable' \subseteq Reachable \cup {Null}
  PROVE  IInv'
  <1>1. UNCHANGED <<live, fd, path, name, file>>
    BY DEF handles
  <1>2. TypeOK'
    BY <1>1 DEF IInv, TypeOK, LineType
  <1>3. DescriptorsOwned' /\ DeadOwnNothing'
    BY <1>1 DEF IInv, DescriptorsOwned, DeadOwnNothing
  <1>4. ReachableIsOpen'
    BY <1>1 DEF IInv, ReachableIsOpen
  <1> QED BY <1>2, <1>3, <1>4 DEF IInv

LEMMA OpenNewStep ==
  ASSUME IInv, writing = NoLine, NEW n \in Name, NEW dir \in Dir \cup {Null}, OpenNew(n, dir)
  PROVE  IInv'
  <1>1. PICK p \in Dir : p = IF dir = Null THEN logpath ELSE dir
    BY DEF IInv, TypeOK
  <1>2. PICK h \in Handle \ live, ok \in BOOLEAN :
          /\ live' = live \cup {h}
          /\ path' = [path EXCEPT ![h] = p] /\ name' = [name EXCEPT ![h] = n]
          /\ Reopen(h, p, n, ok)
          /\ IF ok
             THEN /\ pool' = [pool EXCEPT ![n] = h] /\ default' = h /\ current' = n
                  /\ inHand' \in {inHand, inHand \cup {h}}
                  /\ outcome' = [op |-> "open", want |-> [dir |-> p, name |-> n],
                                 got |-> [dir |-> p, name |-> n]]
             ELSE UNCHANGED tables /\ outcome' = Quiet
          /\ UNCHANGED <<writing, logpath, today>>
    BY <1>1 DEF OpenNew
  <1>3. path' \in [Handle -> Dir] /\ name' \in [Handle -> Name]
    BY <1>1, <1>2 DEF IInv, TypeOK
  <1>4. /\ Owned' /\ FileTypes'
        /\ \A g \in live : fd[g] # Null => fd'[g] # Null
        /\ ok => fd'[h] # Null
    <2>1. TypeOK /\ Owned /\ h \in Handle /\ h \notin live
      BY <1>2 DEF IInv, Owned
    <2>2. path'[h] = p /\ name'[h] = n
      BY <1>2 DEF IInv, TypeOK
    <2>3. \A g \in live \ {h} : path'[g] = path[g] /\ name'[g] = name[g]
      BY <1>2 DEF IInv, TypeOK
    <2>4. Reopen(h, p, n, ok) /\ live' = live \cup {h}
      BY <1>2
    <2>5. h \in live => path[h] = p /\ name[h] = n
      BY <2>1
    <2> HIDE DEF IInv
    <2> QED BY <2>1, <2>2, <2>3, <2>4, <2>5, ReopenKeepsOwned, Zenon
  <1>5. TypeOK'
    <2>1. live' \subseteq Handle /\ inHand' \subseteq live'
      BY <1>2 DEF IInv, TypeOK, tables
    <2>2. pool' \in [Name -> live' \cup {Null}] /\ default' \in live' \cup {Null}
      BY <1>2 DEF IInv, TypeOK, tables
    <2>3. logpath' \in Dir /\ today' \in 0..LastDay
      BY <1>2 DEF IInv, TypeOK
    <2>4. outcome'.op \in {"none", "open", "write"}
      BY <1>2 DEF Quiet
    <2>5. current' \in Name /\ LineType'
      BY <1>1, <1>2 DEF IInv, TypeOK, LineType, tables
    <2> QED BY <1>3, <1>4, <2>1, <2>2, <2>3, <2>4, <2>5 DEF TypeOK, FileTypes, LineType
  <1>6. ReachableIsOpen'
    <2>1. Reachable' \subseteq Reachable \cup IF ok THEN {h} ELSE {}
      BY <1>2 DEF Reachable, IInv, TypeOK, tables
    <2>2. Reachable \subseteq live \cup {Null}
      BY DEF Reachable, IInv, TypeOK
    <2> QED BY <1>4, <2>1, <2>2 DEF ReachableIsOpen, IInv
  <1>7. LineType'
    BY <1>2 DEF LineType
  <1> QED BY <1>4, <1>5, <1>6, <1>7 DEF IInv, Owned

\* write and flush of a handle that exists.
LEMMA RewriteStep ==
  ASSUME IInv, NEW h \in live, NEW ok \in BOOLEAN,
         Reopen(h, path[h], name[h], ok),
         UNCHANGED <<live, path, name, tables, logpath, today>>, LineType',
         outcome'.op \in {"none", "open", "write"}
  PROVE  /\ IInv'
         /\ ok => fd'[h] # Null /\ file'[fd'[h]] = TodaysFile(path[h], name[h])
  <1>1. h \in Handle /\ path[h] \in Dir /\ name[h] \in Name /\ live' = live \cup {h}
    BY DEF IInv, TypeOK
  <1>2. /\ Owned' /\ FileTypes'
        /\ \A g \in live : fd[g] # Null => fd'[g] # Null
        /\ ok => fd'[h] # Null /\ file'[fd'[h]] = TodaysFile(path[h], name[h])
    BY <1>1, ReopenKeepsOwned DEF IInv, Owned
  <1>3. TypeOK'
    BY <1>2 DEF TypeOK, IInv, FileTypes, LineType, tables
  <1>4. ReachableIsOpen'
    <2>1. Reachable' = Reachable /\ Reachable \subseteq live \cup {Null}
      BY DEF Reachable, tables, IInv, TypeOK
    <2> QED BY <1>2, <2>1 DEF ReachableIsOpen, IInv
  <1> QED BY <1>2, <1>3, <1>4 DEF IInv, Owned

LEMMA CollectStep ==
  ASSUME IInv, NEW h \in Handle, Collect(h)
  PROVE  IInv'
  <1>1. /\ h \in live /\ h \notin Reachable
        /\ live' = live \ {h} /\ fd' = [fd EXCEPT ![h] = Null]
        /\ file' = [e \in Fd |-> IF e = fd[h] THEN Null ELSE file[e]]
        /\ pool' = [pool EXCEPT ![name[h]] = Null]
        /\ default' = default
        /\ UNCHANGED <<path, name, inHand, current, writing, logpath, today>> /\ outcome' = Quiet
    BY DEF Collect, Reachable
  <1>l. LineType'
    BY <1>1 DEF IInv, LineType
  <1>2. TypeOK'
    <2>1. pool' \in [Name -> live' \cup {Null}] /\ default' \in live' \cup {Null}
      BY <1>1 DEF IInv, TypeOK, Reachable
    <2>2. inHand' \subseteq live' /\ live' \subseteq Handle
      BY <1>1 DEF IInv, TypeOK, Reachable
    <2> QED BY <1>1, <2>1, <2>2 DEF IInv, TypeOK, Quiet
  <1>3. DescriptorsOwned'
    BY <1>1, LuaLogAssumption DEF IInv, TypeOK, DescriptorsOwned
  <1>4. DeadOwnNothing'
    BY <1>1 DEF IInv, TypeOK, DeadOwnNothing
  <1>5. ReachableIsOpen'
    <2>1. Reachable' \subseteq Reachable \cup {Null}
      BY <1>1 DEF Reachable, IInv, TypeOK
    <2>2. Reachable \subseteq live \cup {Null}
      BY DEF Reachable, IInv, TypeOK
    <2> QED BY <1>1, <2>1, <2>2 DEF IInv, ReachableIsOpen, TypeOK
  <1> QED BY <1>2, <1>3, <1>4, <1>5, <1>l DEF IInv

LEMMA NextIInv ==
  ASSUME IInv, [Next]_vars
  PROVE  IInv'
  <1>0. LineType
    BY DEF IInv
  <1>l. writing = NoLine /\ UNCHANGED writing => LineType'
    BY DEF LineType
  <1>i. inHand \subseteq live /\ default \in live \cup {Null} /\ live \subseteq Handle
    BY DEF IInv, TypeOK
  <1> USE DEF Quiet
  <1>1. ASSUME NEW n \in Name, writing = NoLine, OpenAgain(n) PROVE IInv'
    BY <1>1, <1>l, QuietStep DEF OpenAgain, IInv, TypeOK, Reachable
  <1>2. ASSUME NEW n \in Name, writing = NoLine, CloseName(n) PROVE IInv'
    BY <1>2, <1>l, QuietStep DEF CloseName, IInv, TypeOK, Reachable
  <1>3. ASSUME NEW h \in inHand \cup {default}, NEW n \in Name, writing = NoLine, Write(h, n)
        PROVE  IInv'
    <2>1. LineType'
      <3>1. CASE h = Null
        BY <1>3, <1>l, <3>1 DEF Write
      <3>2. CASE h # Null
        <4>1. h \in Handle /\ TodaysFile(path[h], n) \in File
          BY <1>i, <3>2 DEF IInv, TypeOK, TodaysFile, File
        <4>2. writing' = [at |-> "stamped", hdl |-> h, want |-> TodaysFile(path[h], n), fd |-> Null]
          BY <1>3, <3>2 DEF Write
        <4>3. h \in (inHand' \cup {default'}) \ {Null}
          BY <1>3, <3>2 DEF Write, tables
        <4> QED BY <4>1, <4>2, <4>3 DEF LineType, Line
      <3> QED BY <3>1, <3>2
    <2>2. /\ UNCHANGED <<live, fd, path, name, file, pool, default, inHand, current, logpath, today>>
          /\ outcome' = Quiet
      BY <1>3 DEF Write, handles, tables
    <2>3. Reachable' = Reachable
      BY <2>2 DEF Reachable
    <2> QED BY <2>1, <2>2, <2>3, QuietStep DEF handles, IInv, TypeOK
  <1>3a. CASE WriteOpens
    <2>1. PICK ok \in BOOLEAN :
            /\ Reopen(writing.hdl, path[writing.hdl], name[writing.hdl], ok)
            /\ writing' = [writing EXCEPT !.at = "opened", !.fd = IF ok THEN fd'[writing.hdl] ELSE Null]
      BY <1>3a DEF WriteOpens
    <2>2. /\ writing.at = "stamped" /\ outcome' = Quiet
          /\ UNCHANGED <<live, path, name, tables, logpath, today>>
      BY <1>3a DEF WriteOpens
    <2>3. /\ writing \in Line
          /\ writing.hdl \in (inHand \cup {default}) \ {Null}
      BY <1>0, <2>2 DEF LineType, NoLine
    <2>4. writing.hdl \in live
      BY <1>i, <2>3
    <2>5. fd' \in [Handle -> Fd \cup {Null}]
      BY <2>1, <2>3 DEF Reopen, IInv, TypeOK
    <2>6. LineType'
      BY <2>1, <2>2, <2>3, <2>5 DEF LineType, Line, tables
    <2> QED BY <2>1, <2>2, <2>4, <2>6, RewriteStep
  <1>3b. CASE WritePrints
    <2>1. /\ UNCHANGED <<live, fd, path, name, file, pool, default, inHand, current, logpath, today>>
          /\ writing' = NoLine /\ outcome'.op \in {"none", "write"}
      BY <1>3b DEF WritePrints, handles, tables
    <2>2. Reachable' = Reachable /\ LineType'
      BY <2>1 DEF Reachable, LineType
    <2> QED BY <2>1, <2>2, QuietStep DEF handles, IInv, TypeOK
  <1>4. ASSUME NEW h \in inHand, writing = NoLine, Flush(h) PROVE IInv'
    BY <1>4, <1>l, RewriteStep DEF Flush, IInv, TypeOK
  <1>5. CASE writing = NoLine /\ CloseAll
    BY <1>5, <1>l, QuietStep DEF CloseAll, IInv, TypeOK, Reachable
  <1>6. CASE writing = NoLine /\ CloseDefault
    BY <1>6, <1>l, QuietStep DEF CloseDefault, IInv, TypeOK, Reachable
  <1>7. CASE Midnight
    <2>1. LineType'
      BY <1>0, <1>7 DEF LineType, Midnight, tables
    <2> QED
      BY <1>7, <2>1, QuietStep, LuaLogAssumption DEF Midnight, tables, IInv, TypeOK, Reachable
  <1>8. ASSUME NEW p \in Dir, writing = NoLine, SetPath(p) PROVE IInv'
    BY <1>8, <1>l, QuietStep DEF SetPath, tables, IInv, TypeOK, Reachable
  <1>9. CASE writing = NoLine /\ Save
    BY <1>9, <1>l, QuietStep DEF Save, IInv, TypeOK, Reachable
  <1>10. ASSUME NEW h \in inHand, writing = NoLine, Restore(h) \/ Drop(h) PROVE IInv'
    BY <1>10, <1>l, QuietStep DEF Restore, Drop, IInv, TypeOK, Reachable
  <1>11. CASE UNCHANGED vars
    <2>1. LineType'
      BY <1>0, <1>11 DEF LineType, vars
    <2> QED BY <1>11, <2>1, QuietStep DEF vars, handles, IInv, TypeOK, Reachable
  <1>12. current \in Name /\ \A h \in inHand : name[h] \in Name
    BY DEF IInv, TypeOK
  <1>13. CASE writing = NoLine /\ LogCall
    BY <1>1, <1>2, <1>3, <1>4, <1>5, <1>6, <1>8, <1>9, <1>10, <1>12, <1>13, OpenNewStep DEF LogCall
  <1> QED BY <1>3a, <1>3b, <1>7, <1>11, <1>13, CollectStep DEF Next

LEMMA Inductive == Spec => []IInv
  BY InitIInv, NextIInv, PTL DEF Spec

-----------------------------------------------------------------------------
\* Variables keep their types; in particular no pool entry and no Lua variable
\* ever stands for a handle that was finalized.
THEOREM TypeCorrect == Spec => []TypeOK
  <1>1. IInv => TypeOK
    BY DEF IInv
  <1> QED BY Inductive, <1>1, PTL

\* However handles are opened, replaced, closed and collected: no descriptor
\* leaks, none is shared, and each refers to the file of its handle.
THEOREM DescriptorsAreOwned == Spec => []DescriptorsOwned
  <1>1. IInv => DescriptorsOwned
    BY DEF IInv
  <1> QED BY Inductive, <1>1, PTL

\* The handles that Lua can reach all have an open file.
THEOREM ReachableAreOpen == Spec => []ReachableIsOpen
  <1>1. IInv => ReachableIsOpen
    BY DEF IInv
  <1> QED BY Inductive, <1>1, PTL

(* Where a line goes. Each entry of the pool has its own name, the default *)
(* that of the file which was asked for last, and the line that is being   *)
(* written knows its place; once its file is open it is the one of a day   *)
(* that began no earlier than the line's own.                              *)
Named ==
  /\ \A n \in Name : pool[n] # Null => name[pool[n]] = n
  /\ default # Null => name[default] = current

Placed ==
  writing # NoLine =>
    /\ writing.want.dir = path[writing.hdl] /\ writing.want.name = name[writing.hdl]
    /\ writing.want.day \in 0 .. today
    /\ writing.at = "opened" /\ writing.fd # Null =>
         /\ writing.fd = fd[writing.hdl]
         /\ file[writing.fd].day \in writing.want.day .. today

LineInv == IInv /\ Named /\ Placed /\ LineOnItsDay

LEMMA NamedStep ==
  ASSUME LineInv, [Next]_vars
  PROVE  Named'
  <1> USE DEF Named
  <1>0. /\ \A n \in Name : pool[n] \in live \cup {Null}
        /\ live \subseteq Handle /\ default \in live \cup {Null} /\ inHand \subseteq live
        /\ DOMAIN name = Handle /\ DOMAIN pool = Name /\ Null \notin Handle
    BY LuaLogAssumption DEF LineInv, IInv, TypeOK
  <1>a. /\ \A n \in Name : pool[n] # Null => name[pool[n]] = n
        /\ default # Null => name[default] = current
    BY DEF LineInv
  <1>1. ASSUME NEW n \in Name, OpenAgain(n) PROVE Named'
    BY <1>0, <1>a, <1>1 DEF OpenAgain, handles
  <1>2. ASSUME NEW n \in Name, NEW dir \in Dir \cup {Null}, OpenNew(n, dir) PROVE Named'
    <2>1. PICK h \in Handle \ live :
            /\ name' = [name EXCEPT ![h] = n]
            /\ \/ pool' = [pool EXCEPT ![n] = h] /\ default' = h /\ current' = n
               \/ UNCHANGED <<pool, default, current>>
      BY <1>2 DEF OpenNew, tables
    <2> QED BY <1>0, <1>a, <2>1
  <1>3. ASSUME NEW h \in Handle, Collect(h) PROVE Named'
    BY <1>0, <1>a, <1>3 DEF Collect
  <1>4. ASSUME UNCHANGED name, UNCHANGED default \/ default' = Null, UNCHANGED current,
               \A n \in Name : pool'[n] \in {pool[n], Null}
        PROVE  Named'
    BY <1>a, <1>4
  <1>5. ASSUME NEW h \in inHand, Restore(h) PROVE Named'
    BY <1>0, <1>a, <1>5 DEF Restore, handles
  <1>6. ASSUME NEW n \in Name, CloseName(n) PROVE Named'
    BY <1>0, <1>4, <1>6 DEF CloseName, handles
  <1>7. CASE CloseAll
    BY <1>4, <1>7 DEF CloseAll, handles
  <1>8. CASE CloseDefault
    BY <1>4, <1>8 DEF CloseDefault, handles
  <1>9. CASE UNCHANGED <<name, tables>>
    BY <1>4, <1>9 DEF tables
  <1>10. CASE Save \/ \E h \in inHand : Drop(h)
    BY <1>4, <1>10 DEF Save, Drop, handles
  <1>11. CASE WriteOpens \/ WritePrints \/ Midnight \/ (\E p \in Dir : SetPath(p))
             \/ Write(default, current) \/ (\E h \in inHand : Write(h, name[h]) \/ Flush(h))
    BY <1>9, <1>11 DEF WriteOpens, WritePrints, Midnight, SetPath, Write, Flush, handles
  <1>12. CASE LogCall
    BY <1>1, <1>2, <1>5, <1>6, <1>7, <1>8, <1>10, <1>11, <1>12 DEF LogCall
  <1>13. CASE UNCHANGED vars
    BY <1>9, <1>13 DEF vars, tables
  <1> QED BY <1>3, <1>11, <1>12, <1>13 DEF Next

LEMMA LineStep ==
  ASSUME LineInv, [Next]_vars
  PROVE  Placed'
  <1>0. /\ IInv /\ TypeOK /\ Named /\ LineType
        /\ live \subseteq Handle /\ default \in live \cup {Null} /\ inHand \subseteq live
        /\ today \in 0 .. LastDay /\ LastDay \in Nat
    BY LuaLogAssumption DEF LineInv, IInv, TypeOK
  <1>1. ASSUME NEW h \in inHand \cup {default}, NEW n \in Name, writing = NoLine, Write(h, n),
               h # Null => name[h] = n
        PROVE  Placed'
    <2> SUFFICES ASSUME writing' # NoLine PROVE Placed'
      BY DEF Placed
    <2>1. /\ h # Null /\ UNCHANGED <<path, name, today>>
          /\ writing' = [at |-> "stamped", hdl |-> h, want |-> TodaysFile(path[h], n), fd |-> Null]
      BY <1>1 DEF Write, handles
    <2>2. 0 <= today
      BY <1>0
    <2> QED BY <1>0, <1>1, <2>1, <2>2 DEF Placed, TodaysFile
  <1>2. Placed /\ (writing # NoLine => writing.hdl \in live)
    BY <1>0 DEF LineInv, LineType
  <1>3. CASE WriteOpens
    <2>1. PICK ok \in BOOLEAN :
            /\ Reopen(writing.hdl, path[writing.hdl], name[writing.hdl], ok)
            /\ writing' = [writing EXCEPT !.at = "opened", !.fd = IF ok THEN fd'[writing.hdl] ELSE Null]
      BY <1>3 DEF WriteOpens
    <2>2. /\ writing.at = "stamped" /\ outcome' = Quiet
          /\ UNCHANGED <<live, path, name, tables, logpath, today>>
      BY <1>3 DEF WriteOpens
    <2>3. /\ writing \in Line /\ writing # NoLine
          /\ Placed /\ writing.hdl \in live
      BY <1>0, <1>2, <2>2 DEF LineType, NoLine
    <2>4. /\ writing'.hdl = writing.hdl /\ writing'.want = writing.want
          /\ writing'.fd = IF ok THEN fd'[writing.hdl] ELSE Null
      BY <2>1, <2>3 DEF Line
    <2>5. ok => file'[fd'[writing.hdl]].day = today
      <3>1. LineType'
        <4>1. fd' \in [Handle -> Fd \cup {Null}]
          BY <1>0, <2>1, <2>3 DEF Reopen, TypeOK
        <4>2. writing.hdl \in (inHand \cup {default}) \ {Null}
          BY <1>0, <2>2 DEF LineType, NoLine
        <4> QED BY <2>1, <2>2, <2>3, <4>1, <4>2 DEF LineType, Line, tables
      <3>2. ok => file'[fd'[writing.hdl]] = TodaysFile(path[writing.hdl], name[writing.hdl])
        BY <1>0, <2>1, <2>2, <2>3, <3>1, RewriteStep DEF Quiet
      <3> QED BY <3>2 DEF TodaysFile
    <2>6. writing.want.day \in 0 .. today /\ today \in Int
      BY <1>0, <2>3 DEF Placed
    <2>7. today \in writing.want.day .. today
      BY <2>6
    <2> QED BY <2>2, <2>3, <2>4, <2>5, <2>7 DEF Placed
  <1>4. CASE WritePrints
    BY <1>4 DEF WritePrints, Placed
  <1>5. CASE Midnight
    <2> SUFFICES ASSUME writing' # NoLine PROVE Placed'
      BY DEF Placed
    <2>1. writing # NoLine /\ UNCHANGED <<writing, path, name, fd, file>> /\ today' = today + 1
      BY <1>5 DEF Midnight, handles
    <2>2. Placed
      BY <1>2, <2>1
    <2>3. \A d \in Int : d <= today => d <= today'
      BY <1>0, <2>1
    <2>4. writing.want.day \in 0 .. today'
      BY <2>1, <2>2, <2>3 DEF Placed
    <2>5. ASSUME writing.at = "opened", writing.fd # Null
          PROVE  writing.fd = fd[writing.hdl] /\ file[writing.fd].day \in writing.want.day .. today'
      BY <2>1, <2>2, <2>3, <2>5 DEF Placed
    <2> QED BY <2>1, <2>2, <2>4, <2>5 DEF Placed
  <1>6. ASSUME NEW h \in Handle, Collect(h) PROVE Placed'
    <2> SUFFICES ASSUME writing' # NoLine PROVE Placed'
      BY DEF Placed
    <2>1. /\ writing # NoLine /\ UNCHANGED <<writing, path, name, today>>
          /\ fd' = [fd EXCEPT ![h] = Null] /\ h \in live \ Reachable
          /\ file' = [e \in Fd |-> IF e = fd[h] THEN Null ELSE file[e]]
      BY <1>6 DEF Collect
    <2>2. Placed /\ writing.hdl \in live /\ writing.hdl # h
      BY <1>0, <1>2, <2>1 DEF LineType, Reachable
    <2>3. ASSUME writing.at = "opened", writing.fd # Null
          PROVE  fd'[writing.hdl] = fd[writing.hdl] /\ file'[writing.fd] = file[writing.fd]
      <3>1. writing.fd = fd[writing.hdl]
        BY <2>1, <2>2, <2>3 DEF Placed
      <3>2. fd[writing.hdl] # fd[h] /\ writing.fd \in Fd
        BY <1>0, <2>1, <2>2, <2>3, <3>1 DEF IInv, DescriptorsOwned, TypeOK
      <3> QED BY <1>0, <2>1, <2>2, <3>1, <3>2 DEF TypeOK
    <2> QED BY <2>1, <2>2, <2>3 DEF Placed
  <1>7. CASE UNCHANGED vars
    BY <1>2, <1>7 DEF vars, Placed
  <1>8. CASE writing = NoLine /\ LogCall
    <2>1. current \in Name /\ (default # Null => name[default] = current)
          /\ \A h \in inHand : name[h] \in Name
      BY <1>0 DEF TypeOK, Named
    <2>2. CASE UNCHANGED writing
      BY <1>8, <2>2 DEF Placed
    <2>3. CASE \/ Write(default, current) \/ \E h \in inHand : Write(h, name[h])
      BY <1>1, <1>8, <2>1, <2>3
    <2>4. ASSUME NEW n \in Name, NEW dir \in Dir \cup {Null},
                 OpenAgain(n) \/ CloseName(n) \/ OpenNew(n, dir)
          PROVE  UNCHANGED writing
      BY <2>4 DEF OpenAgain, CloseName, OpenNew
    <2>5. ASSUME NEW h \in inHand, Restore(h) \/ Flush(h) \/ Drop(h) PROVE UNCHANGED writing
      BY <2>5 DEF Restore, Flush, Drop
    <2>6. CASE Save \/ CloseAll \/ CloseDefault \/ \E p \in Dir : SetPath(p)
      BY <2>2, <2>6 DEF Save, CloseAll, CloseDefault, SetPath
    <2> QED BY <1>8, <2>2, <2>3, <2>4, <2>5, <2>6 DEF LogCall
  <1> QED BY <1>3, <1>4, <1>5, <1>6, <1>7, <1>8 DEF Next

LEMMA PrintStep ==
  ASSUME LineInv, [Next]_vars
  PROVE  LineOnItsDay'
  <1>1. CASE WritePrints
    <2>1. /\ UNCHANGED <<today, path, name>> /\ writing.at = "opened"
          /\ outcome' = IF writing.fd = Null THEN Quiet
                        ELSE [op |-> "write", want |-> writing.want, got |-> file[writing.fd]]
      BY <1>1 DEF WritePrints, handles
    <2>2. writing # NoLine
      BY <2>1 DEF NoLine
    <2>3. CASE writing.fd = Null
      BY <2>1, <2>3 DEF LineOnItsDay, Quiet
    <2>4. CASE writing.fd # Null
      <3>1. /\ writing.fd = fd[writing.hdl] /\ file[writing.fd].day \in writing.want.day .. today
            /\ writing.want.dir = path[writing.hdl] /\ writing.want.name = name[writing.hdl]
        BY <2>1, <2>2, <2>4 DEF LineInv, Placed
      <3>2. writing.hdl \in live
        BY <2>2 DEF LineInv, IInv, TypeOK, LineType
      <3>3. /\ file[writing.fd] # Null /\ file[writing.fd].dir = path[writing.hdl]
            /\ file[writing.fd].name = name[writing.hdl]
        BY <2>4, <3>1, <3>2 DEF LineInv, IInv, DescriptorsOwned
      <3> QED BY <2>1, <2>4, <3>1, <3>3 DEF LineOnItsDay
    <2> QED BY <2>3, <2>4
  <1>2. CASE UNCHANGED vars
    BY <1>2 DEF vars, LineInv, LineOnItsDay
  <1>3. ASSUME outcome'.op # "write" PROVE LineOnItsDay'
    BY <1>3 DEF LineOnItsDay
  <1>4. ASSUME NEW n \in Name, NEW dir \in Dir \cup {Null}, OpenNew(n, dir)
        PROVE  outcome'.op # "write"
    BY <1>4 DEF OpenNew, Quiet
  <1>5. ASSUME NEW n \in Name, OpenAgain(n) PROVE outcome'.op # "write"
    BY <1>5 DEF OpenAgain
  <1>6. ASSUME outcome' = Quiet PROVE outcome'.op # "write"
    BY <1>6 DEF Quiet
  <1>7. ASSUME NEW h \in Handle, Collect(h) PROVE outcome' = Quiet
    BY <1>7 DEF Collect
  <1>8. CASE LogCall
    <2>1. \/ outcome' = Quiet
          \/ \E n \in Name : OpenAgain(n) \/ \E dir \in Dir \cup {Null} : OpenNew(n, dir)
      BY <1>8 DEF LogCall, Write, CloseName, Flush, Save, Restore, Drop, CloseAll, CloseDefault,
                  SetPath
    <2> QED BY <1>3, <1>4, <1>5, <1>6, <2>1
  <1>9. CASE WriteOpens \/ Midnight
    BY <1>3, <1>6, <1>9 DEF WriteOpens, Midnight
  <1> QED BY <1>1, <1>2, <1>3, <1>6, <1>7, <1>8, <1>9 DEF Next

\* Every line that does not go to the terminal is in a file of the name that its
\* caller opened last, of the day of its time stamp or of one that began since.
THEOREM LinesReachTheirFile == Spec => []LineOnItsDay
  <1>1. Init => LineInv
    <2> SUFFICES ASSUME Init PROVE LineInv
      OBVIOUS
    <2> QED BY InitIInv DEF LineInv, Init, Named, Placed, LineOnItsDay, Quiet
  <1>2. LineInv /\ [Next]_vars => LineInv'
    BY NextIInv, NamedStep, LineStep, PrintStep DEF LineInv
  <1>3. LineInv => LineOnItsDay
    BY DEF LineInv
  <1> QED BY <1>1, <1>2, <1>3, PTL DEF Spec

-----------------------------------------------------------------------------
(* Loops. What a recursive function computes after its last round is       *)
(* proved by induction up to a bound, which the pigeonhole principle gives. *)

(* Induction up to a bound, from the pigeonhole principle: a set that      *)
(* holds 0 and with every number below N the next holds N, or its part up  *)
(* to N would go into itself without 0. What is to be proved of a number   *)
(* is put into the set, so that no operator has to be instantiated.        *)
LEMMA SetInduction ==
  ASSUME NEW S, NEW N \in Nat, 0 \in S,
         \A n \in 0 .. N - 1 : n \in S => n + 1 \in S
  PROVE  N \in S
  <1> SUFFICES ASSUME N \notin S PROVE FALSE
    OBVIOUS
  <1> DEFINE A == {n \in 0 .. N : n \in S}
             B == A \ {0}
             f == [n \in A |-> n + 1]
  <1>1. IsFiniteSet(A)
    <2>1. IsFiniteSet(0 .. N)
      BY FS_Interval
    <2>2. A \in SUBSET (0 .. N)
      OBVIOUS
    <2> QED BY <2>1, <2>2, FS_Subset
  <1>2. 0 \in A
    OBVIOUS
  <1>3. IsFiniteSet(B) /\ Cardinality(B) < Cardinality(A)
    <2> HIDE DEF A
    <2>1. Cardinality(A) \in Nat
      BY <1>1, FS_CardinalityType
    <2>2. IsFiniteSet(A \ {0}) /\ Cardinality(A \ {0}) = Cardinality(A) - 1
      BY <1>1, <1>2, FS_RemoveElement, Zenon
    <2>3. B = A \ {0}
      OBVIOUS
    <2> HIDE DEF B
    <2> QED BY <2>1, <2>2, <2>3
  <1>4. f \in [A -> B]
    <2>1. \A n \in A : n + 1 \in B
      <3> TAKE n \in A
      <3>1. n \in 0 .. N - 1
        OBVIOUS
      <3> QED BY <3>1
    <2> QED BY <2>1
  <1>5. \A x, y \in A : x # y => f[x] # f[y]
    OBVIOUS
  <1> HIDE DEF A, B, f
  <1> QED BY <1>1, <1>3, <1>4, <1>5, FS_PigeonHole

\* A set of naturals that is not empty has a least member.
LEMMA LeastNatural ==
  ASSUME NEW S \in SUBSET Nat, S # {}
  PROVE  \E m \in S : \A n \in S : m <= n
  <1> SUFFICES ASSUME \A m \in S : \E n \in S : n < m PROVE FALSE
    OBVIOUS
  <1> PICK k \in S : TRUE
    OBVIOUS
  <1> DEFINE Above == {n \in 0 .. k + 1 : \A m \in S : n <= m}
  <1>1. 0 \in Above
    OBVIOUS
  <1>2. \A n \in 0 .. k : n \in Above => n + 1 \in Above
    <2> TAKE n \in 0 .. k
    <2> HAVE n \in Above
    <2>1. n \notin S
      OBVIOUS
    <2>2. \A m \in S : n + 1 <= m
      BY <2>1
    <2> QED BY <2>2
  <1>3. k + 1 \in Above
    <2> HIDE DEF Above
    <2>1. k + 1 \in Nat /\ (k + 1) - 1 = k
      OBVIOUS
    <2> QED BY <1>1, <1>2, <2>1, SetInduction
  <1> QED BY <1>3

(* A loop of N rounds, round n of which takes x to G[n][x], has a      *)
(* function that lists what every round starts from.                       *)
LEMMA LoopExists ==
  ASSUME NEW X, NEW start \in X, NEW N \in Nat, NEW G \in [1 .. N -> [X -> X]]
  PROVE  \E f \in [0 .. N -> X] :
           f[0] = start /\ \A n \in 1 .. N : f[n] = G[n][f[n - 1]]
  <1> DEFINE Upto(n, f) == f[0] = start /\ \A k \in 1 .. n : f[k] = G[k][f[k - 1]]
             S == {n \in 0 .. N : \E f \in [0 .. n -> X] : Upto(n, f)}
  <1>1. 0 \in S
    <2> DEFINE f == [k \in 0 .. 0 |-> start]
    <2>1. f \in [0 .. 0 -> X] /\ Upto(0, f)
      OBVIOUS
    <2> HIDE DEF f, Upto
    <2>2. 0 \in 0 .. N
      OBVIOUS
    <2> QED BY <2>1, <2>2
  <1>2. \A n \in 0 .. N - 1 : n \in S => n + 1 \in S
    <2> TAKE n \in 0 .. N - 1
    <2> HAVE n \in S
    <2> PICK f \in [0 .. n -> X] : Upto(n, f)
      OBVIOUS
    <2> DEFINE g == [k \in 0 .. n + 1 |-> IF k <= n THEN f[k] ELSE G[n + 1][f[n]]]
    <2>1. G[n + 1][f[n]] \in X
      <3>1. n + 1 \in 1 .. N /\ f[n] \in X
        OBVIOUS
      <3> QED BY <3>1
    <2>2. g \in [0 .. n + 1 -> X]
      BY <2>1
    <2>3. g[0] = start
      OBVIOUS
    <2>4. \A k \in 1 .. n + 1 : g[k] = G[k][g[k - 1]]
      <3> TAKE k \in 1 .. n + 1
      <3>1. CASE k <= n
        <4>1. g[k] = f[k] /\ g[k - 1] = f[k - 1] /\ k \in 1 .. n
          BY <3>1
        <4> HIDE DEF g
        <4> QED BY <4>1
      <3>2. CASE k = n + 1
        <4>1. g[k] = G[n + 1][f[n]] /\ g[k - 1] = f[n]
          BY <3>2
        <4> HIDE DEF g
        <4> QED BY <4>1, <3>2
      <3> QED BY <3>1, <3>2
    <2> HIDE DEF g
    <2>5. Upto(n + 1, g)
      BY <2>3, <2>4
    <2>6. n + 1 \in 0 .. N
      OBVIOUS
    <2> QED BY <2>2, <2>5, <2>6
  <1>3. N \in S
    <2> HIDE DEF S
    <2> QED BY <1>1, <1>2, SetInduction
  <1> QED BY <1>3

-----------------------------------------------------------------------------
(* buffer.c: a line is what came before LF, without the CRs.               *)

\* f tells what the loop of Without has gathered after each byte.
Gathers(S, s, drop, f) ==
  /\ f \in [0 .. Len(s) -> Seq(S)]
  /\ f[0] = <<>>
  /\ \A n \in 1 .. Len(s) :
       f[n] = IF s[n] \in drop THEN f[n - 1] ELSE Append(f[n - 1], s[n])
  /\ Without(s, drop) = f[Len(s)]

LEMMA WithoutLoop ==
  ASSUME NEW S, NEW s \in Seq(S), NEW drop
  PROVE  \E f : Gathers(S, s, drop, f)
  <1> DEFINE R(f) == [n \in 0 .. Len(s) |->
                        IF n = 0 THEN <<>>
                        ELSE IF s[n] \in drop THEN f[n - 1] ELSE Append(f[n - 1], s[n])]
             G == [n \in 1 .. Len(s) |-> [t \in Seq(S) |->
                     IF s[n] \in drop THEN t ELSE Append(t, s[n])]]
             h == CHOOSE f : f = R(f)
  <1>1. Len(s) \in Nat
    OBVIOUS
  <1>2. G \in [1 .. Len(s) -> [Seq(S) -> Seq(S)]]
    OBVIOUS
  <1>3. PICK f \in [0 .. Len(s) -> Seq(S)] :
          f[0] = <<>> /\ \A n \in 1 .. Len(s) : f[n] = G[n][f[n - 1]]
    <2> HIDE DEF G
    <2>1. <<>> \in Seq(S)
      OBVIOUS
    <2> DEFINE X == Seq(S)
               N == Len(s)
    <2>2. <<>> \in X /\ N \in Nat /\ G \in [1 .. N -> [X -> X]]
      BY <1>1, <1>2, <2>1
    <2> HIDE DEF X, N
    <2>3. \E f \in [0 .. N -> X] : f[0] = <<>> /\ \A n \in 1 .. N : f[n] = G[n][f[n - 1]]
      BY ONLY <2>2, LoopExists, SMTT(30)
    <2> QED BY <2>3 DEF X, N
  <1>4. \A n \in 1 .. Len(s) :
          f[n] = IF s[n] \in drop THEN f[n - 1] ELSE Append(f[n - 1], s[n])
    <2> TAKE n \in 1 .. Len(s)
    <2>1. f[n] = G[n][f[n - 1]]
      BY <1>3
    <2>2. f[n - 1] \in Seq(S)
      BY <1>1
    <2> PICK t \in Seq(S) : t = f[n - 1]
      BY <2>2
    <2>3. G[n][t] = IF s[n] \in drop THEN t ELSE Append(t, s[n])
      OBVIOUS
    <2> HIDE DEF G
    <2> QED BY <2>1, <2>3
  <1>5. f = R(f)
    <2>1. f = [n \in 0 .. Len(s) |-> f[n]]
      OBVIOUS
    <2>2. \A n \in 0 .. Len(s) : f[n] = IF n = 0 THEN <<>>
                        ELSE IF s[n] \in drop THEN f[n - 1] ELSE Append(f[n - 1], s[n])
      <3> TAKE n \in 0 .. Len(s)
      <3>1. CASE n = 0
        BY <1>3, <3>1
      <3>2. CASE n # 0
        <4>1. n \in 1 .. Len(s)
          BY <1>1, <3>2
        <4> QED BY <1>4, <3>2, <4>1
      <3> QED BY <3>1, <3>2
    <2>3. f[0] = <<>> /\ DOMAIN f = 0 .. Len(s) /\ DOMAIN R(f) = 0 .. Len(s)
      BY <1>3
    <2>4. \A n \in 0 .. Len(s) : R(f)[n] = IF n = 0 THEN <<>>
                        ELSE IF s[n] \in drop THEN f[n - 1] ELSE Append(f[n - 1], s[n])
      OBVIOUS
    <2>5. \A n \in 0 .. Len(s) : R(f)[n] = f[n]
      BY <2>2, <2>4
    <2>6. R(f) = [n \in 0 .. Len(s) |-> R(f)[n]]
      OBVIOUS
    <2> HIDE DEF R
    <2> QED BY <2>1, <2>5, <2>6
  <1>6. h = R(h)
    <2> HIDE DEF R
    <2> QED BY <1>5
  <1>7. Without(s, drop) = h[Len(s)]
    BY DEF Without
  <1>8. \A n \in 0 .. Len(s) : h[n] = IF n = 0 THEN <<>>
                        ELSE IF s[n] \in drop THEN h[n - 1] ELSE Append(h[n - 1], s[n])
    <2>1. \A n \in 0 .. Len(s) : R(h)[n] = IF n = 0 THEN <<>>
                        ELSE IF s[n] \in drop THEN h[n - 1] ELSE Append(h[n - 1], s[n])
      OBVIOUS
    <2> HIDE DEF R, h
    <2> QED BY <1>6, <2>1
  <1>9. h[Len(s)] = f[Len(s)]
    <2> HIDE DEF h
    <2> DEFINE Same == {n \in 0 .. Len(s) : h[n] = f[n]}
    <2>1. 0 \in Same
      BY <1>3, <1>8
    <2>2. \A n \in 0 .. Len(s) - 1 : n \in Same => n + 1 \in Same
      <3> TAKE n \in 0 .. Len(s) - 1
      <3> HAVE n \in Same
      <3>1. n + 1 \in 1 .. Len(s) /\ (n + 1) - 1 = n /\ n + 1 # 0 /\ n + 1 \in 0 .. Len(s)
        OBVIOUS
      <3>2. f[n + 1] = IF s[n + 1] \in drop THEN f[n] ELSE Append(f[n], s[n + 1])
        BY <1>4, <3>1
      <3>3. h[n + 1] = IF s[n + 1] \in drop THEN h[n] ELSE Append(h[n], s[n + 1])
        BY <1>8, <3>1
      <3> QED BY <3>1, <3>2, <3>3
    <2>3. Len(s) \in Same
      <3> HIDE DEF Same
      <3> QED BY <1>1, <2>1, <2>2, SetInduction
    <2> QED BY <2>3
  <1> HIDE DEF h
  <1> QED BY <1>3, <1>4, <1>7, <1>9 DEF Gathers

\* Append goes into the second part. The names keep the provers from computing.
Cat(s, t) == s \o t
Added(s, e) == Append(s, e)
LEMMA AddedToCat ==
  ASSUME NEW S, NEW s \in Seq(S), NEW t \in Seq(S), NEW e \in S
  PROVE  Added(Cat(s, t), e) = Cat(s, Added(t, e))
  <1>1. <<e>> \in Seq(S) /\ s \o t \in Seq(S)
    BY ConcatProperties
  <1>2. Append(s \o t, e) = (s \o t) \o <<e>> /\ Append(t, e) = t \o <<e>>
    BY <1>1, AppendIsConcat
  <1>3. (s \o t) \o <<e>> = s \o (t \o <<e>>)
    BY <1>1, ConcatAssociative
  <1> QED BY <1>2, <1>3 DEF Added, Cat

LEMMA WithoutIsSeq ==
  ASSUME NEW S, NEW s \in Seq(S), NEW drop
  PROVE  Without(s, drop) \in Seq(S)
  <1> PICK f : Gathers(S, s, drop, f)
    BY WithoutLoop
  <1> QED BY DEF Gathers

\* Dropping distributes over concatenation.
LEMMA WithoutConcat ==
  ASSUME NEW S, NEW s \in Seq(S), NEW t \in Seq(S), NEW drop
  PROVE  Without(s \o t, drop) = Without(s, drop) \o Without(t, drop)
  <1> DEFINE u == s \o t
  <1>1. u \in Seq(S) /\ Len(u) = Len(s) + Len(t)
        /\ (\A i \in 1 .. Len(s) : u[i] = s[i])
        /\ (\A i \in 1 .. Len(t) : u[Len(s) + i] = t[i])
    BY ConcatProperties
  <1> HIDE DEF u
  <1>2. PICK f : Gathers(S, u, drop, f)
    BY <1>1, WithoutLoop
  <1>3. PICK g : Gathers(S, s, drop, g)
    BY WithoutLoop
  <1>4. PICK h : Gathers(S, t, drop, h)
    BY WithoutLoop
  <1>5. Len(s) \in Nat /\ Len(t) \in Nat
    OBVIOUS
  <1>6. f[Len(s)] = g[Len(s)]
    <2> DEFINE Same == {n \in 0 .. Len(s) : f[n] = g[n]}
    <2>1. 0 \in Same
      BY <1>2, <1>3, <1>5 DEF Gathers
    <2>2. \A n \in 0 .. Len(s) - 1 : n \in Same => n + 1 \in Same
      <3> TAKE n \in 0 .. Len(s) - 1
      <3> HAVE n \in Same
      <3>1. n + 1 \in 1 .. Len(s) /\ n + 1 \in 1 .. Len(u) /\ (n + 1) - 1 = n /\ n + 1 \in 0 .. Len(s)
        BY <1>1, <1>5
      <3>2. f[n + 1] = IF u[n + 1] \in drop THEN f[n] ELSE Append(f[n], u[n + 1])
        BY <1>2, <3>1 DEF Gathers
      <3>3. g[n + 1] = IF s[n + 1] \in drop THEN g[n] ELSE Append(g[n], s[n + 1])
        BY <1>3, <3>1 DEF Gathers
      <3>4. u[n + 1] = s[n + 1]
        BY <1>1, <3>1
      <3> QED BY <3>1, <3>2, <3>3, <3>4
    <2>3. Len(s) \in Same
      <3> HIDE DEF Same
      <3> QED BY <1>5, <2>1, <2>2, SetInduction
    <2> QED BY <2>3
  <1>7. f[Len(s) + Len(t)] = g[Len(s)] \o h[Len(t)]
    <2> PICK gs \in Seq(S) : gs = g[Len(s)]
      BY <1>3, <1>5 DEF Gathers
    <2> DEFINE Same == {n \in 0 .. Len(t) : f[Len(s) + n] = gs \o h[n]}
    <2>1. 0 \in Same
      BY <1>4, <1>5, <1>6, ConcatEmptySeq DEF Gathers
    <2>2. \A n \in 0 .. Len(t) - 1 : n \in Same => n + 1 \in Same
      <3> TAKE n \in 0 .. Len(t) - 1
      <3> HAVE n \in Same
      <3>1. n + 1 \in 1 .. Len(t) /\ n \in 0 .. Len(t) /\ Len(s) + (n + 1) \in 1 .. Len(u)
            /\ (n + 1) - 1 = n /\ Len(s) + (n + 1) - 1 = Len(s) + n /\ n + 1 \in 0 .. Len(t)
        BY <1>1, <1>5
      <3>2. f[Len(s) + (n + 1)] = IF u[Len(s) + (n + 1)] \in drop THEN f[Len(s) + n]
                                 ELSE Append(f[Len(s) + n], u[Len(s) + (n + 1)])
        BY <1>2, <3>1 DEF Gathers
      <3>3. h[n + 1] = IF t[n + 1] \in drop THEN h[n] ELSE Append(h[n], t[n + 1])
        BY <1>4, <3>1 DEF Gathers
      <3>4. u[Len(s) + (n + 1)] = t[n + 1]
        BY <1>1, <3>1
      <3>5. h[n] \in Seq(S) /\ t[n + 1] \in S
        <4>1. h[n] \in Seq(S)
          BY <1>4, <3>1 DEF Gathers
        <4>2. t[n + 1] \in S
          BY <3>1, ElementOfSeq
        <4> QED BY <4>1, <4>2
      <3>6. Append(gs \o h[n], t[n + 1]) = gs \o Append(h[n], t[n + 1])
        <4> PICK hn \in Seq(S), e \in S : hn = h[n] /\ e = t[n + 1]
          BY <3>5
        <4>1. Added(Cat(gs, hn), e) = Cat(gs, Added(hn, e))
          BY AddedToCat
        <4> QED BY <4>1 DEF Added, Cat
      <3>7. f[Len(s) + n] = gs \o h[n]
        OBVIOUS
      <3>8. f[Len(s) + (n + 1)] = gs \o h[n + 1]
        BY <3>2, <3>3, <3>4, <3>6, <3>7
      <3> QED BY <3>1, <3>8
    <2>3. Len(t) \in Same
      <3> HIDE DEF Same
      <3> QED BY <1>5, <2>1, <2>2, SetInduction
    <2> QED BY <2>3
  <1> QED BY <1>1, <1>2, <1>3, <1>4, <1>7 DEF u, Gathers

\* Only the bytes that occur matter.
LEMMA WithoutAgrees ==
  ASSUME NEW S, NEW s \in Seq(S), NEW drop, NEW more,
         \A i \in 1 .. Len(s) : s[i] \in drop <=> s[i] \in more
  PROVE  Without(s, drop) = Without(s, more)
  <1> PICK f : Gathers(S, s, drop, f)
    BY WithoutLoop
  <1> PICK g : Gathers(S, s, more, g)
    BY WithoutLoop
  <1>1. Len(s) \in Nat
    OBVIOUS
  <1> DEFINE Same == {n \in 0 .. Len(s) : f[n] = g[n]}
  <1>2. 0 \in Same
    BY <1>1 DEF Gathers
  <1>3. \A n \in 0 .. Len(s) - 1 : n \in Same => n + 1 \in Same
    <2> TAKE n \in 0 .. Len(s) - 1
    <2> HAVE n \in Same
    <2>1. n + 1 \in 1 .. Len(s) /\ (n + 1) - 1 = n /\ n + 1 \in 0 .. Len(s)
      BY <1>1
    <2>2. f[n + 1] = IF s[n + 1] \in drop THEN f[n] ELSE Append(f[n], s[n + 1])
      BY <2>1 DEF Gathers
    <2>3. g[n + 1] = IF s[n + 1] \in more THEN g[n] ELSE Append(g[n], s[n + 1])
      BY <2>1 DEF Gathers
    <2>4. s[n + 1] \in drop <=> s[n + 1] \in more
      BY <2>1 DEF Gathers
    <2> QED BY <2>1, <2>2, <2>3, <2>4
  <1>4. Len(s) \in Same
    <2> HIDE DEF Same
    <2> QED BY <1>1, <1>2, <1>3, SetInduction
  <1> QED BY <1>4 DEF Gathers

\* A byte alone that is dropped, and nothing.
LEMMA WithoutOne ==
  ASSUME NEW S, NEW s \in Seq(S), NEW drop, Len(s) = 1, s[1] \in drop
  PROVE  Without(s, drop) = <<>>
  <1> PICK f : Gathers(S, s, drop, f)
    BY WithoutLoop
  <1>1. 1 \in 1 .. Len(s) /\ 1 - 1 = 0
    OBVIOUS
  <1>2. f[1] = f[0]
    BY <1>1 DEF Gathers
  <1> QED BY <1>2 DEF Gathers

LEMMA WithoutNone ==
  ASSUME NEW S, NEW s \in Seq(S), NEW drop, Len(s) = 0
  PROVE  Without(s, drop) = <<>>
  <1> PICK f : Gathers(S, s, drop, f)
    BY WithoutLoop
  <1> QED BY DEF Gathers

-----------------------------------------------------------------------------
(* Slices of the stream, which is what the buffer holds and what a call    *)
(* has taken of it.                                                        *)

\* What follows the first a of a sequence up to b.
LEMMA Slice ==
  ASSUME NEW S, NEW s \in Seq(S), NEW a \in Nat, NEW b \in Nat, a <= b, b <= Len(s)
  PROVE  /\ SubSeq(s, a + 1, b) \in Seq(S)
         /\ Len(SubSeq(s, a + 1, b)) = b - a
         /\ \A i \in 1 .. b - a : SubSeq(s, a + 1, b)[i] = s[a + i]
  <1>1. \A i \in a + 1 .. b : s[i] \in S
    BY ElementOfSeq
  <1>2. /\ SubSeq(s, a + 1, b) \in Seq(S)
        /\ Len(SubSeq(s, a + 1, b)) = IF a + 1 <= b THEN b - (a + 1) + 1 ELSE 0
        /\ \A i \in 1 .. b - (a + 1) + 1 : SubSeq(s, a + 1, b)[i] = s[(a + 1) + i - 1]
    BY <1>1, SubSeqProperties
  <1> QED BY <1>2

LEMMA SliceJoin ==
  ASSUME NEW S, NEW s \in Seq(S), NEW a \in Nat, NEW b \in Nat, NEW c \in Nat,
         a <= b, b <= c, c <= Len(s)
  PROVE  SubSeq(s, a + 1, c) = SubSeq(s, a + 1, b) \o SubSeq(s, b + 1, c)
  <1>1. a + 1 \in 1 .. Len(s) + 1 /\ b \in (a + 1) - 1 .. Len(s) /\ c \in b .. Len(s)
    OBVIOUS
  <1> QED BY <1>1, ConcatAdjacentSubSeq

LEMMA SliceOfSlice ==
  ASSUME NEW S, NEW s \in Seq(S), NEW a \in Nat, NEW b \in Nat, a <= b, b <= Len(s),
         NEW c \in Nat, NEW d \in Nat, c <= d, d <= b - a
  PROVE  SubSeq(SubSeq(s, a + 1, b), c + 1, d) = SubSeq(s, (a + c) + 1, a + d)
  <1> DEFINE u == SubSeq(s, a + 1, b)
             v == SubSeq(u, c + 1, d)
             w == SubSeq(s, (a + c) + 1, a + d)
  <1>1. u \in Seq(S) /\ Len(u) = b - a /\ \A i \in 1 .. b - a : u[i] = s[a + i]
    BY Slice
  <1>2. v \in Seq(S) /\ Len(v) = d - c /\ \A i \in 1 .. d - c : v[i] = u[c + i]
    <2> HIDE DEF u
    <2> QED BY <1>1, Slice
  <1>3. w \in Seq(S) /\ Len(w) = d - c /\ \A i \in 1 .. d - c : w[i] = s[(a + c) + i]
    <2> PICK e \in Nat, f \in Nat : e = a + c /\ f = a + d
      OBVIOUS
    <2>1. e <= f /\ f <= Len(s) /\ f - e = d - c
      OBVIOUS
    <2>2. SubSeq(s, e + 1, f) \in Seq(S) /\ Len(SubSeq(s, e + 1, f)) = f - e
          /\ \A i \in 1 .. f - e : SubSeq(s, e + 1, f)[i] = s[e + i]
      BY <2>1, Slice
    <2> QED BY <2>1, <2>2
  <1> HIDE DEF u, v, w
  <1>4. \A i \in 1 .. d - c : v[i] = w[i]
    BY <1>1, <1>2, <1>3
  <1>5. v = w
    BY <1>2, <1>3, <1>4, SeqEqual
  <1> QED BY <1>5 DEF u, v, w

\* Skipping n of what two sequences have in common leaves the same in both.
LEMMA Remains ==
  ASSUME NEW S, NEW s \in Seq(S), NEW rec \in Nat, NEW t \in Nat, rec <= t, t <= Len(s),
         NEW b \in Seq(S), NEW at \in Nat, at <= Len(b),
         SubSeq(b, at + 1, Len(b)) = SubSeq(s, rec + 1, t),
         NEW n \in Nat, n <= t - rec
  PROVE  SubSeq(b, (at + n) + 1, Len(b)) = SubSeq(s, (rec + n) + 1, t)
  <1> DEFINE l == Len(b)
             m == t - rec
  <1>1. l \in Nat /\ m \in Nat /\ l <= Len(b) /\ at <= l /\ rec + m = t /\ n <= m
    OBVIOUS
  <1>2. Len(SubSeq(b, at + 1, l)) = l - at /\ Len(SubSeq(s, rec + 1, t)) = m
    <2>1. Len(SubSeq(s, rec + 1, t)) = t - rec
      BY Slice
    <2> HIDE DEF l
    <2>2. Len(SubSeq(b, at + 1, l)) = l - at
      BY <1>1, Slice
    <2> QED BY <2>1, <2>2
  <1>3. SubSeq(b, at + 1, l) = SubSeq(s, rec + 1, t)
    OBVIOUS
  <1> HIDE DEF l, m
  <1>4. m = l - at /\ at + m = l /\ rec + m = t /\ n <= m
    <2>1. m = l - at
      BY <1>2, <1>3
    <2> QED BY <1>1, <2>1
  <1>5. SubSeq(SubSeq(b, at + 1, l), n + 1, m) = SubSeq(b, (at + n) + 1, at + m)
    BY <1>1, <1>4, SliceOfSlice
  <1>6. SubSeq(SubSeq(s, rec + 1, t), n + 1, m) = SubSeq(s, (rec + n) + 1, rec + m)
    BY <1>1, <1>4, SliceOfSlice
  <1>7. SubSeq(b, (at + n) + 1, l) = SubSeq(s, (rec + n) + 1, t)
    BY <1>4, <1>5, <1>6, <1>3
  <1> QED BY <1>7 DEF l

LEMMA Skipped ==
  ASSUME NEW S, NEW s \in Seq(S), NEW rec \in Nat, NEW t \in Nat, rec <= t, t <= Len(s),
         NEW n \in Nat, n <= t - rec
  PROVE  SubSeq(SubSeq(s, rec + 1, t), 1, n) = SubSeq(s, rec + 1, rec + n)
  <1>1. SubSeq(SubSeq(s, rec + 1, t), 0 + 1, n) = SubSeq(s, (rec + 0) + 1, rec + n)
    BY SliceOfSlice
  <1>2. 0 + 1 = 1 /\ (rec + 0) + 1 = rec + 1
    OBVIOUS
  <1> QED BY <1>1, <1>2

LEMMA SliceNone ==
  ASSUME NEW S, NEW s \in Seq(S), NEW a \in Nat
  PROVE  SubSeq(s, a + 1, a) = <<>>
  BY SubSeqEmpty

-----------------------------------------------------------------------------
(* What holds of a call while it runs: what it answers, how far the        *)
(* stream is, and how long it has waited.                                  *)

\* What the variables hold.
Calls == [kind: Kinds \cup {"send", "idle"}, asked: Nat, wanted: Int, out: Seq(Byte),
          total: Nat, pc: {"ready", "wait"}, left: Nat \cup {-1}]
Answers == [kind: Kinds \cup {"send", "idle"}, asked: Nat, err: Errors, out: Seq(Byte)]
IoTypes ==
  /\ stream \in Streams /\ arrived \in 0 .. Len(stream)
  /\ end \in {"open", "closed", "reset", "broken"}
  /\ taken \in 0 .. arrived /\ received \in 0 .. taken
  /\ data \in Seq(Byte) /\ Len(data) <= BufSize /\ bufFirst \in 0 .. Len(data)
  /\ room \in 0 .. Room /\ sock \in BOOLEAN
  /\ tm \in [block: Limits \cup {-1}, total: Limits \cup {-1}]
  /\ elapsed \in Nat /\ from \in 0 .. received /\ told \in 0 .. Size
  /\ op \in Calls /\ ioAnswer \in Answers
  /\ op.kind = "idle" => op = Idle

\* How far a call is: a receive of a number of bytes, a send, and what waits.
HowFar ==
  /\ op.kind = "count" => /\ op.total <= op.wanted
                          /\ Len(op.out) + op.wanted = op.asked + op.total
  /\ op.kind = "send" => op.asked = told + 1 /\ op.total < op.wanted /\ told + op.wanted <= Size
  /\ wire = Bytes(1, IF op.kind = "send" THEN Sent ELSE told)
  /\ Waiting /\ Receiving => received = taken

\* The clock of a call, and what it still waits.
InTime ==
  Waiting => /\ tm.block # 0
             /\ (Deadline < 0) <=> (op.left = -1)
             /\ Deadline >= 0 => /\ op.left = 0 \/ elapsed + op.left <= Deadline
                                 /\ elapsed + op.left > Smallest - Milli

\* What a round hands out of the bytes u, and which of them it skips.
RoundIs(u, r) ==
  /\ r.skip \in 0 .. Len(u) /\ r.done \in BOOLEAN /\ r.out \in Seq(Byte)
  /\ op.kind # "line" => r.out = SubSeq(u, 1, r.skip)
  /\ op.kind = "line" => /\ r.out = Without(SubSeq(u, 1, r.skip), {CRByte, LFByte})
                         /\ {k \in 1 .. r.skip : u[k] = LFByte} = IF r.done THEN {r.skip} ELSE {}
  /\ op.kind = "count" => /\ op.total + r.skip <= op.wanted
                          /\ r.done => op.total + r.skip = op.wanted
  /\ op.kind = "all" => ~r.done

LEMMA RoundOfLine ==
  ASSUME op.kind = "line", NEW u \in Seq(Byte)
  PROVE  RoundIs(u, Round(u))
  <1> DEFINE ends == {i \in 1 .. Len(u) : u[i] = LFByte}
             least == CHOOSE i \in ends : \A j \in ends : i <= j
             pos == IF ends = {} THEN Len(u) ELSE least - 1
             skip == IF ends = {} THEN pos ELSE pos + 1
             line == SubSeq(u, 1, pos)
  <1>1. Round(u) = [skip |-> skip, out |-> Without(line, {CRByte}), done |-> ends # {}]
    BY DEF Round, recvline
  <1>2. Len(u) \in Nat
    OBVIOUS
  <1>3. ends # {} => least \in 1 .. Len(u) /\ u[least] = LFByte /\ \A j \in ends : least <= j
    <2> HAVE ends # {}
    <2>1. ends \in SUBSET Nat
      OBVIOUS
    <2>2. \E i \in ends : \A j \in ends : i <= j
      <3> HIDE DEF ends
      <3> QED BY <2>1, LeastNatural
    <2>3. least \in ends /\ \A j \in ends : least <= j
      BY <2>2
    <2> QED BY <2>3
  <1> HIDE DEF least
  <1>4. pos \in Nat /\ skip \in 0 .. Len(u) /\ pos <= Len(u)
    BY <1>2, <1>3
  <1>5. line \in Seq(Byte) /\ Len(line) = pos /\ \A i \in 1 .. pos : line[i] = u[i]
    <2> HIDE DEF pos
    <2>1. SubSeq(u, 0 + 1, pos) \in Seq(Byte) /\ Len(SubSeq(u, 0 + 1, pos)) = pos - 0
          /\ \A i \in 1 .. pos - 0 : SubSeq(u, 0 + 1, pos)[i] = u[0 + i]
      BY <1>4, Slice
    <2> QED BY <1>4, <2>1
  <1>6. \A i \in 1 .. pos : u[i] # LFByte
    BY <1>2, <1>3
  <1> DEFINE Bare == Without(line, {CRByte})
  <1>7. Bare = Without(line, {CRByte, LFByte}) /\ Bare \in Seq(Byte)
    <2> HIDE DEF pos, line
    <2>1. \A i \in 1 .. Len(line) : line[i] \in {CRByte} <=> line[i] \in {CRByte, LFByte}
      BY <1>5, <1>6
    <2> QED BY <1>5, <2>1, WithoutAgrees, WithoutIsSeq
  <1>8. Bare = Without(SubSeq(u, 1, skip), {CRByte, LFByte})
    <2>1. CASE ends = {}
      BY <1>7, <2>1
    <2>2. CASE ends # {}
      <3> DEFINE final == SubSeq(u, pos + 1, skip)
      <3>0. skip = pos + 1 /\ skip = least
        BY <1>3, <2>2
      <3>1. final \in Seq(Byte) /\ Len(final) = 1 /\ final[1] = LFByte
        <4> HIDE DEF pos, skip
        <4>1. pos <= skip /\ skip \in Nat /\ skip <= Len(u) /\ skip - pos = 1
          BY <1>4, <3>0
        <4>2. final \in Seq(Byte) /\ Len(final) = skip - pos
              /\ \A i \in 1 .. skip - pos : final[i] = u[pos + i]
          BY <1>4, <4>1, Slice
        <4>3. final[1] = u[pos + 1]
          BY <4>1, <4>2
        <4> QED BY <1>3, <2>2, <3>0, <4>1, <4>2, <4>3
      <3>2. Without(final, {CRByte, LFByte}) = <<>>
        <4> HIDE DEF final
        <4> QED BY <3>1, WithoutOne
      <3>3. SubSeq(u, 1, skip) = line \o final
        <4> HIDE DEF pos, skip
        <4>1. 1 \in 1 .. Len(u) + 1 /\ pos \in 1 - 1 .. Len(u) /\ skip \in pos .. Len(u)
          BY <1>2, <1>4, <3>0
        <4> QED BY <4>1, ConcatAdjacentSubSeq
      <3>4. Without(line \o final, {CRByte, LFByte}) = Without(line, {CRByte, LFByte}) \o Without(final, {CRByte, LFByte})
        <4> HIDE DEF line, final
        <4> QED BY <1>5, <3>1, WithoutConcat
      <3>5. Bare \o <<>> = Bare
        <4> HIDE DEF Bare
        <4> QED BY <1>7, ConcatEmptySeq
      <3> HIDE DEF line, final, pos, skip
      <3> QED BY <1>7, <3>2, <3>3, <3>4, <3>5
    <2> QED BY <2>1, <2>2
  <1>9. {k \in 1 .. skip : u[k] = LFByte} = IF ends # {} THEN {skip} ELSE {}
    <2>1. CASE ends = {}
      BY <1>2, <1>6, <2>1
    <2>2. CASE ends # {}
      <3>1. skip = least
        BY <1>3, <2>2
      <3>2. \A k \in 1 .. least : u[k] = LFByte => k = least
        BY <1>3, <2>2
      <3>3. \A k \in {k \in 1 .. least : u[k] = LFByte} : k = least
        BY <3>2
      <3>4. least \in {k \in 1 .. least : u[k] = LFByte}
        BY <1>3, <2>2
      <3>5. {k \in 1 .. least : u[k] = LFByte} = {least}
        BY <3>3, <3>4
      <3> QED BY <2>2, <3>1, <3>5
    <2> QED BY <2>1, <2>2
  <1> DEFINE r == Round(u)
  <1>10. r.skip = skip /\ r.out = Bare /\ r.done = (ends # {})
    BY <1>1
  <1> HIDE DEF r, skip, Bare, ends
  <1>11. r.skip \in 0 .. Len(u) /\ r.done \in BOOLEAN /\ r.out \in Seq(Byte)
    BY <1>4, <1>7, <1>10
  <1>12. r.out = Without(SubSeq(u, 1, r.skip), {CRByte, LFByte})
    BY <1>8, <1>10
  <1>13. {k \in 1 .. r.skip : u[k] = LFByte} = IF r.done THEN {r.skip} ELSE {}
    BY <1>9, <1>10
  <1>14. RoundIs(u, r)
    BY <1>11, <1>12, <1>13 DEF RoundIs
  <1> QED BY <1>14 DEF r

LEMMA RoundFacts ==
  ASSUME op \in Calls, Receiving, op.kind = "count" => op.total <= op.wanted,
         NEW u \in Seq(Byte)
  PROVE  RoundIs(u, Round(u))
  <1>1. Len(u) \in Nat
    OBVIOUS
  <1>2. CASE op.kind = "line"
    BY <1>2, RoundOfLine
  <1>3. CASE op.kind = "all"
    <2>1. Round(u) = [skip |-> Len(u), out |-> u, done |-> FALSE]
      BY <1>3 DEF Round, recvall
    <2>2. SubSeq(u, 1, Len(u)) = u
      BY SubSeqFull
    <2> QED BY <1>1, <1>3, <2>1, <2>2 DEF RoundIs
  <1>4. CASE op.kind = "count"
    <2> DEFINE n == Lesser(Len(u), op.wanted - op.total)
               full == op.total + n >= op.wanted
    <2>1. Round(u) = [skip |-> n, out |-> SubSeq(u, 1, n), done |-> full]
      BY <1>4 DEF Round, recvraw
    <2>2. n \in Nat /\ n <= Len(u) /\ op.total + n <= op.wanted
          /\ op.total \in Nat /\ op.wanted \in Int
      BY <1>1, <1>4 DEF Lesser, Calls
    <2> HIDE DEF n
    <2>3. SubSeq(u, 1, n) \in Seq(Byte)
      <3>1. SubSeq(u, 0 + 1, n) \in Seq(Byte)
        BY <1>1, <2>2, Slice
      <3> QED BY <3>1
    <2> DEFINE r == Round(u)
    <2>a. full \in BOOLEAN /\ (full => op.total + n = op.wanted)
      BY <2>2
    <2> HIDE DEF full
    <2>4. r.skip = n /\ r.out = SubSeq(u, 1, n) /\ r.done = full
      <3> DEFINE out == SubSeq(u, 1, n)
      <3>1. r = [skip |-> n, out |-> out, done |-> full]
        BY <2>1
      <3> HIDE DEF r, out
      <3>2. r.skip = n /\ r.out = out /\ r.done = full
        BY <3>1
      <3> QED BY <3>2 DEF out
    <2> HIDE DEF r
    <2>5. r.skip \in 0 .. Len(u) /\ r.done \in BOOLEAN /\ r.out \in Seq(Byte)
      BY <1>1, <2>2, <2>3, <2>4, <2>a
    <2>6. op.total + r.skip <= op.wanted /\ (r.done => op.total + r.skip = op.wanted)
      BY <2>2, <2>4, <2>a
    <2>7. RoundIs(u, r)
      BY <1>4, <2>4, <2>5, <2>6 DEF RoundIs
    <2> QED BY <2>7 DEF r
  <1> QED BY <1>2, <1>3, <1>4 DEF Receiving, Kinds

-----------------------------------------------------------------------------
(* buffer.c, receive: one round takes what is in the buffer, and goes on.  *)

IoInv == IoTypes /\ HowFar /\ BufferIsNext /\ ReceiveIsStream

LEMMA StreamIsSeq == ASSUME IoTypes PROVE stream \in Seq(Byte)
  BY IoAssumption DEF IoTypes

\* The bytes that a round is given: those from position at of the buffer on.
GivenFrom(bytes, at) == SubSeq(bytes, at + 1, Len(bytes))

\* What GoOn may be called with: t and e are taken and end after it.
Gets(bytes, at, err, t, e) ==
  /\ bytes \in Seq(Byte) /\ Len(bytes) <= BufSize /\ at \in 0 .. Len(bytes)
  /\ GivenFrom(bytes, at) = SubSeq(stream, received + 1, t)
  /\ t \in taken .. arrived /\ e \in {"open", "closed", "reset", "broken"}
  /\ err \in Errors
  /\ err # "none" => t = received
  /\ err = "closed" /\ sock => e # "open" /\ t = arrived

\* A round: what it is given is the next of the stream, and what it skips too.
Given(bytes, at, t, u, r) ==
  /\ t \in Nat /\ t <= Len(stream) /\ received <= t
  /\ u \in Seq(Byte) /\ Len(u) = Len(bytes) - at /\ Len(u) = t - received
  /\ \A k \in 1 .. Len(u) : u[k] = stream[received + k]
  /\ RoundIs(u, r)
  /\ r.skip \in Nat /\ r.skip <= t - received
  /\ SubSeq(u, 1, r.skip) = SubSeq(stream, received + 1, received + r.skip)

LEMMA GivenFacts ==
  ASSUME IoInv, Receiving, NEW bytes, NEW at, NEW err, NEW t, NEW e, Gets(bytes, at, err, t, e),
         NEW u, u = GivenFrom(bytes, at), NEW r, r = Round(u)
  PROVE  Given(bytes, at, t, u, r)
  <1>1. stream \in Seq(Byte) /\ Len(stream) \in Nat
    BY StreamIsSeq DEF IoInv
  <1>2. received \in Nat /\ t \in Nat /\ received <= t /\ t <= Len(stream)
        /\ at \in Nat /\ Len(bytes) \in Nat /\ at <= Len(bytes) /\ bytes \in Seq(Byte)
    BY <1>1 DEF IoInv, IoTypes, Gets
  <1>3. u \in Seq(Byte) /\ Len(u) = Len(bytes) - at
    BY <1>2, Slice DEF GivenFrom
  <1>4. u = SubSeq(stream, received + 1, t)
    BY DEF Gets
  <1>5. Len(u) = t - received /\ \A k \in 1 .. t - received : u[k] = stream[received + k]
    BY <1>1, <1>2, <1>4, Slice
  <1>6. RoundIs(u, r)
    BY <1>3, RoundFacts DEF IoInv, IoTypes, HowFar
  <1>7. r.skip \in Nat /\ r.skip <= t - received
    <2>1. r.skip \in 0 .. Len(u)
      BY <1>6 DEF RoundIs
    <2> QED BY <1>2, <1>5, <2>1
  <1>9. SubSeq(u, 1, r.skip) = SubSeq(stream, received + 1, received + r.skip)
    <2>1. SubSeq(SubSeq(stream, received + 1, t), 1, r.skip)
            = SubSeq(stream, received + 1, received + r.skip)
      BY <1>1, <1>2, <1>7, Skipped
    <2> QED BY ONLY <1>4, <2>1
  <1>10. \A k \in 1 .. Len(u) : u[k] = stream[received + k]
    BY <1>5
  <1> QED BY <1>2, <1>3, <1>5, <1>6, <1>7, <1>9, <1>10 DEF Given

\* What a round leaves in the buffer.
SkipTo(bytes, at, n, d, b) ==
  IF at + n >= Len(bytes) THEN d = <<>> /\ b = 0 ELSE d = bytes /\ b = at + n

LeftOver(d, b, rec, t) ==
  /\ d \in Seq(Byte) /\ Len(d) <= BufSize /\ b \in 0 .. Len(d)
  /\ SubSeq(d, b + 1, Len(d)) = SubSeq(stream, rec + 1, t)

LEMMA SkipKeeps ==
  ASSUME IoInv, NEW bytes, NEW at, NEW err, NEW t, NEW e, Gets(bytes, at, err, t, e),
         NEW u, NEW r, Given(bytes, at, t, u, r),
         NEW d, NEW b, SkipTo(bytes, at, r.skip, d, b)
  PROVE  LeftOver(d, b, received + r.skip, t)
  <1> DEFINE n == r.skip
  <1>0. n \in Nat /\ n <= t - received /\ Len(bytes) - at = t - received
    BY DEF Given
  <1>1. stream \in Seq(Byte) /\ Len(stream) \in Nat
    BY StreamIsSeq DEF IoInv
  <1>2. received \in Nat /\ t \in Nat /\ received <= t /\ t <= Len(stream)
        /\ at \in Nat /\ Len(bytes) \in Nat /\ at <= Len(bytes) /\ bytes \in Seq(Byte)
    BY <1>1 DEF IoInv, IoTypes, Gets
  <1>3. Len(bytes) <= BufSize /\ GivenFrom(bytes, at) = SubSeq(stream, received + 1, t)
    BY DEF Gets
  <1> HIDE DEF n
  <1>7. SkipTo(bytes, at, n, d, b)
    BY DEF n
  <1>4. CASE at + n >= Len(bytes)
    <2>1. d = <<>> /\ b = 0
      BY <1>7, <1>4 DEF SkipTo
    <2>2. received + n = t
      BY <1>0, <1>2, <1>4
    <2>3. SubSeq(stream, (received + n) + 1, t) = <<>>
      BY <1>1, <1>2, <2>2, SliceNone
    <2>5. Len(<<>>) = 0 /\ <<>> \in Seq(Byte) /\ BufSize \in Nat
      BY IoAssumption
    <2>6. SubSeq(<<>>, 0 + 1, 0) = <<>>
      BY <2>5, SliceNone
    <2>7. d \in Seq(Byte) /\ Len(d) <= BufSize /\ b \in 0 .. Len(d)
      BY <2>1, <2>5
    <2>8. SubSeq(d, b + 1, Len(d)) = <<>>
      BY <2>1, <2>5, <2>6
    <2>9. LeftOver(d, b, received + n, t)
      BY <2>3, <2>7, <2>8 DEF LeftOver
    <2> QED BY <2>9 DEF n
  <1>5. CASE ~(at + n >= Len(bytes))
    <2>1. d = bytes /\ b = at + n
      BY <1>7, <1>5 DEF SkipTo
    <2>2. SubSeq(bytes, at + 1, Len(bytes)) = SubSeq(stream, received + 1, t)
      BY <1>3 DEF GivenFrom
    <2>3. SubSeq(bytes, (at + n) + 1, Len(bytes)) = SubSeq(stream, (received + n) + 1, t)
      BY <1>0, <1>1, <1>2, <2>2, Remains
    <2>4. d \in Seq(Byte) /\ Len(d) <= BufSize /\ b \in 0 .. Len(d)
      BY <1>0, <1>2, <1>3, <1>5, <2>1
    <2>9. LeftOver(d, b, received + n, t)
      BY <2>1, <2>3, <2>4 DEF LeftOver
    <2> QED BY <2>9 DEF n
  <1> QED BY <1>4, <1>5

\* What the calls of a receive have gathered after a round.
RoundResult(r, err, t, out, total, rec) ==
  /\ rec \in Nat /\ received <= rec /\ rec <= t /\ out \in Seq(Byte) /\ total \in Nat
  /\ op.kind # "line" => out = SubSeq(stream, from + 1, rec)
  /\ op.kind = "line" => /\ out = Without(SubSeq(stream, from + 1, rec), {CRByte, LFByte})
                         /\ {i \in from + 1 .. rec : stream[i] = LFByte} = IF r.done THEN {rec} ELSE {}
  /\ op.kind = "count" => /\ total <= op.wanted /\ Len(out) + op.wanted = op.asked + total
                          /\ r.done => total = op.wanted
  /\ op.kind = "all" => ~r.done
  /\ err # "none" => rec = t

LEMMA RoundKeeps ==
  ASSUME IoInv, Receiving, NEW bytes, NEW at, NEW err, NEW t, NEW e, Gets(bytes, at, err, t, e),
         NEW u, u = GivenFrom(bytes, at), NEW r, r = Round(u)
  PROVE  RoundResult(r, err, t, op.out \o r.out, op.total + r.skip, received + r.skip)
  <1> DEFINE out == op.out \o r.out
             total == op.total + r.skip
             rec == received + r.skip
             new == SubSeq(stream, received + 1, rec)
             old == SubSeq(stream, from + 1, received)
             both == SubSeq(stream, from + 1, rec)
  <1>1. stream \in Seq(Byte) /\ Len(stream) \in Nat
    BY StreamIsSeq DEF IoInv
  <1>2. /\ t \in Nat /\ t <= Len(stream) /\ received <= t
        /\ u \in Seq(Byte) /\ Len(u) = t - received
        /\ \A k \in 1 .. Len(u) : u[k] = stream[received + k]
        /\ RoundIs(u, r)
        /\ r.skip \in Nat /\ r.skip <= t - received
        /\ SubSeq(u, 1, r.skip) = new
    <2>1. Given(bytes, at, t, u, r)
      BY GivenFacts
    <2> QED BY <2>1 DEF Given
  <1>3. received \in Nat /\ from \in Nat /\ from <= received /\ op \in Calls
    BY DEF IoInv, IoTypes
  <1>4. rec \in Nat /\ received <= rec /\ rec <= t /\ rec <= Len(stream)
    BY <1>2, <1>3
  <1>5. op.out \in Seq(Byte) /\ op.total \in Nat /\ op.wanted \in Int /\ op.asked \in Nat
    BY <1>3 DEF Calls
  <1>6. r.out \in Seq(Byte) /\ total \in Nat
    BY <1>2, <1>5 DEF RoundIs
  <1>7. out \in Seq(Byte) /\ Len(out) = Len(op.out) + Len(r.out)
    <2> SUFFICES ASSUME NEW a \in Seq(Byte), NEW b \in Seq(Byte)
                 PROVE  a \o b \in Seq(Byte) /\ Len(a \o b) = Len(a) + Len(b)
      BY <1>5, <1>6
    <2> QED BY ConcatProperties
  <1>8. both = old \o new /\ old \in Seq(Byte) /\ new \in Seq(Byte) /\ Len(new) = rec - received
    <2> HIDE DEF rec
    <2>1. both = old \o new
      BY <1>1, <1>3, <1>4, SliceJoin
    <2>2. new \in Seq(Byte) /\ Len(new) = rec - received
      BY <1>1, <1>3, <1>4, Slice
    <2>3. received <= Len(stream)
      BY <1>2, <1>3
    <2>4. old \in Seq(Byte)
      BY <1>1, <1>3, <2>3, Slice
    <2> QED BY <2>1, <2>2, <2>4
  <1>9. op.kind # "line" => out = both
    <2> HAVE op.kind # "line"
    <2>1. op.out = old
      BY DEF IoInv, ReceiveIsStream, Gathered, Piece
    <2>2. r.out = new
      BY <1>2 DEF RoundIs
    <2> QED BY <1>8, <2>1, <2>2
  <1>10. op.kind = "line" => out = Without(both, {CRByte, LFByte})
    <2> HAVE op.kind = "line"
    <2>1. op.out = Without(old, {CRByte, LFByte})
      BY DEF IoInv, ReceiveIsStream, Gathered, Piece
    <2>2. r.out = Without(new, {CRByte, LFByte})
      BY <1>2 DEF RoundIs
    <2>3. Without(old \o new, {CRByte, LFByte}) = Without(old, {CRByte, LFByte}) \o Without(new, {CRByte, LFByte})
      <3> HIDE DEF old, new
      <3> QED BY <1>8, WithoutConcat
    <2> QED BY <1>8, <2>1, <2>2, <2>3
  <1>11. op.kind = "line" => {i \in from + 1 .. rec : stream[i] = LFByte} = IF r.done THEN {rec} ELSE {}
    <2> HAVE op.kind = "line"
    <2>1. \A i \in from + 1 .. received : stream[i] # LFByte
      BY DEF IoInv, ReceiveIsStream, LFs
    <2>2. {k \in 1 .. r.skip : u[k] = LFByte} = IF r.done THEN {r.skip} ELSE {}
      BY <1>2 DEF RoundIs
    <2>3. \A k \in 1 .. r.skip : stream[received + k] = u[k]
      BY <1>2, <1>3
    <2>4. \A i \in received + 1 .. rec : i - received \in 1 .. r.skip /\ received + (i - received) = i
      BY <1>2, <1>3
    <2>5. \A i \in from + 1 .. rec : stream[i] = LFByte => i \in received + 1 .. rec
      BY <1>3, <1>4, <2>1
    <2>6. \A i \in received + 1 .. rec : stream[i] = u[i - received]
      BY <2>3, <2>4
    <2>7. CASE r.done
      <3>1. \A i \in from + 1 .. rec : stream[i] = LFByte => i = rec
        <4> TAKE i \in from + 1 .. rec
        <4> HAVE stream[i] = LFByte
        <4>1. i \in received + 1 .. rec /\ u[i - received] = LFByte
          BY <2>5, <2>6
        <4>2. i - received = r.skip
          BY <2>2, <2>4, <2>7, <4>1
        <4> QED BY <1>3, <4>1, <4>2
      <3>2. r.skip \in 1 .. r.skip /\ u[r.skip] = LFByte
        BY <2>2, <2>7
      <3>3. r.skip >= 1 /\ stream[received + r.skip] = LFByte
        BY <1>2, <2>3, <3>2
      <3>4. rec \in from + 1 .. rec /\ stream[rec] = LFByte
        <4>1. r.skip \in Nat /\ r.skip >= 1
          BY <1>2, <3>3
        <4>2. from + 1 <= rec
          BY <1>3, <4>1
        <4> HIDE DEF rec
        <4>3. rec \in from + 1 .. rec
          BY <1>3, <1>4, <4>2
        <4> QED BY <3>3, <4>3 DEF rec
      <3> HIDE DEF rec
      <3> QED BY <2>7, <3>1, <3>4
    <2>8. CASE ~r.done
      <3>1. \A i \in from + 1 .. rec : stream[i] # LFByte
        BY <2>2, <2>4, <2>5, <2>6, <2>8
      <3> QED BY <2>8, <3>1
    <2> QED BY <2>7, <2>8
  <1>12. op.kind = "count" => /\ total <= op.wanted /\ Len(out) + op.wanted = op.asked + total
                              /\ r.done => total = op.wanted
    <2> HAVE op.kind = "count"
    <2>1. op.total + r.skip <= op.wanted /\ (r.done => op.total + r.skip = op.wanted) /\ r.out = new
      BY <1>2 DEF RoundIs
    <2>2. Len(op.out) + op.wanted = op.asked + op.total
      BY DEF IoInv, HowFar
    <2>3. Len(r.out) = r.skip
      BY <1>2, <1>3, <1>8, <2>1
    <2>4. Len(op.out) \in Nat
      BY <1>5
    <2> HIDE DEF out
    <2>5. r.skip \in Nat /\ Len(out) = Len(op.out) + r.skip
      BY <1>2, <1>7, <2>3
    <2>6. Len(out) + op.wanted = op.asked + total
      BY <1>5, <2>2, <2>4, <2>5
    <2> QED BY <2>1, <2>6
  <1>13. op.kind = "all" => ~r.done
    BY <1>2 DEF RoundIs
  <1>14. err # "none" => rec = t
    <2> HAVE err # "none"
    <2>1. t = received
      BY DEF Gets
    <2> QED BY <1>2, <1>3, <2>1
  <1> HIDE DEF out, total, rec, both
  <1>15. RoundResult(r, err, t, out, total, rec)
    BY <1>4, <1>6, <1>7, <1>9, <1>10, <1>11, <1>12, <1>13, <1>14 DEF RoundResult, both
  <1> QED BY <1>15 DEF out, total, rec

\* What a round changes has the values it may have.
LEMMA RoundTypes ==
  ASSUME IoInv, UNCHANGED still, LeftOver(data', bufFirst', received', taken'),
         received' \in Nat, received <= received', received' <= taken', taken' \in taken .. arrived,
         end' \in {"open", "closed", "reset", "broken"},
         op' \in Calls, op'.kind = "idle" => op' = Idle, ioAnswer' \in Answers
  PROVE  IoTypes'
  <1>1. /\ stream' = stream /\ arrived' = arrived /\ wire' = wire /\ room' = room /\ sock' = sock
        /\ tm' = tm /\ elapsed' = elapsed /\ from' = from /\ told' = told
    BY DEF still
  <1>2. taken' \in 0 .. arrived' /\ received' \in 0 .. taken' /\ from' \in 0 .. received'
    <2>1. arrived \in Nat /\ taken \in Nat /\ from \in Nat /\ from <= received /\ received \in Nat
      BY StreamIsSeq DEF IoInv, IoTypes
    <2>2. \A t \in taken .. arrived : t \in 0 .. arrived
      BY <2>1
    <2>3. \A t \in 0 .. arrived : \A i \in Nat : received <= i /\ i <= t => i \in 0 .. t /\ from \in 0 .. i
      BY <2>1
    <2>4. taken' \in 0 .. arrived
      BY <2>2
    <2> QED BY <1>1, <2>3, <2>4
  <1>3. data' \in Seq(Byte) /\ Len(data') <= BufSize /\ bufFirst' \in 0 .. Len(data')
    BY DEF LeftOver
  <1> QED BY <1>1, <1>2, <1>3 DEF IoInv, IoTypes

\* No receive changes what was sent.
LEMMA SameSent ==
  ASSUME IoInv, Receiving, UNCHANGED <<wire, told>>, op' \in Calls, op'.kind # "send",
         op'.pc = "ready",
         op'.kind = "count" => op'.total <= op'.wanted
                               /\ Len(op'.out) + op'.wanted = op'.asked + op'.total
  PROVE  HowFar'
  <1>1. wire = Bytes(1, told)
    BY DEF IoInv, HowFar, Receiving, Kinds
  <1>2. wire' = Bytes(1, IF op'.kind = "send" THEN Sent' ELSE told')
    BY <1>1
  <1> QED BY <1>2 DEF HowFar, Waiting

\* A round keeps the invariant, whether the call goes on or ends.
LEMMA GoOnKeeps ==
  ASSUME IoInv, Receiving, NEW bytes, NEW at, NEW err, Gets(bytes, at, err, taken', end'),
         GoOn(bytes, at, err), UNCHANGED still, op.pc = "ready" \/ err # "none"
  PROVE  IoInv'
  <1> DEFINE u == GivenFrom(bytes, at)
             r == Round(u)
             out == op.out \o r.out
             total == op.total + r.skip
             rec == received + r.skip
             t == taken'
  <1>1. Given(bytes, at, t, u, r)
    BY GivenFacts
  <1>2. RoundResult(r, err, t, out, total, rec)
    <2> HIDE DEF u, r
    <2>1. RoundResult(r, err, t, op.out \o r.out, op.total + r.skip, received + r.skip)
      BY RoundKeeps DEF u, r
    <2> QED BY <2>1
  <1>3. received' = rec /\ SkipTo(bytes, at, r.skip, data', bufFirst')
    BY DEF GoOn, GivenFrom, buffer_skip, SkipTo
  <1>4. /\ ~(r.done \/ err # "none") => op' = [op EXCEPT !.out = out, !.total = total] /\ ioAnswer' = ioAnswer
        /\ r.done \/ err # "none" =>
             op' = Idle /\ ioAnswer' = [kind |-> op.kind, asked |-> op.asked,
                                       err |-> Outcome(err, total), out |-> out]
    BY DEF GoOn, GivenFrom, Finish
  <1> HIDE DEF u, r
  <1>6. LeftOver(data', bufFirst', received + r.skip, t)
    BY <1>1, <1>3, SkipKeeps
  <1>7. BufferIsNext'
    BY <1>3, <1>6 DEF BufferIsNext, Unread, still, LeftOver
  <1>8. rec \in Nat /\ received <= rec /\ rec <= t /\ out \in Seq(Byte) /\ total \in Nat
    BY <1>2 DEF RoundResult
  <1>9. t \in taken .. arrived /\ end' \in {"open", "closed", "reset", "broken"} /\ err \in Errors
    BY DEF Gets
  <1>10. op \in Calls /\ op.kind \in Kinds
    BY DEF IoInv, IoTypes, Receiving
  <1>b. LeftOver(data', bufFirst', received', taken') /\ received' \in Nat
        /\ received <= received' /\ received' <= taken'
    BY <1>3, <1>6, <1>8
  <1>c. /\ op.kind # "line" => out = SubSeq(stream, from + 1, received')
        /\ op.kind = "line" => out = Without(SubSeq(stream, from + 1, received'), {CRByte, LFByte})
    BY <1>2, <1>3 DEF RoundResult
  <1>d. op.kind = "line" => {i \in from + 1 .. received' : stream[i] = LFByte}
                              = IF r.done THEN {received'} ELSE {}
    BY <1>2, <1>3 DEF RoundResult
  <1>e. op.kind = "count" => /\ total <= op.wanted /\ Len(out) + op.wanted = op.asked + total
                             /\ r.done => total = op.wanted
    BY <1>2 DEF RoundResult
  <1>f. (op.kind = "all" => ~r.done) /\ (err # "none" => received' = taken')
    BY <1>2, <1>3 DEF RoundResult
  <1>g. stream' = stream /\ arrived' = arrived /\ sock' = sock /\ from' = from /\ wire' = wire /\ told' = told
    BY DEF still
  <1>h. taken' \in taken .. arrived /\ end' \in {"open", "closed", "reset", "broken"}
    BY <1>9
  <1> HIDE DEF out, total, rec, t
  <1>11. CASE r.done \/ err # "none"
    <2>1. op' = Idle /\ ioAnswer' = [kind |-> op.kind, asked |-> op.asked,
                                    err |-> Outcome(err, total), out |-> out]
      BY <1>4, <1>11
    <2>2. Outcome(err, total) \in Errors
      BY <1>9 DEF Outcome, Errors
    <2>3. ioAnswer' \in Answers /\ op' \in Calls /\ op'.kind = "idle" /\ op'.pc = "ready"
      <3>1. op.kind \in Kinds \cup {"send", "idle"} /\ op.asked \in Nat
        BY <1>10 DEF Calls
      <3>2. ioAnswer' \in Answers
        BY <1>8, <2>1, <2>2, <3>1 DEF Answers
      <3>3. Idle \in Calls
        BY DEF Idle, Calls
      <3> QED BY <2>1, <3>2, <3>3 DEF Idle
    <2>4. IoTypes'
      BY <1>b, <1>h, <2>1, <2>3, RoundTypes
    <2>5. HowFar'
      BY <1>g, <2>3, SameSent
    <2>6. ioAnswer'.kind = op.kind /\ ioAnswer'.err = Outcome(err, total) /\ ioAnswer'.out = out
          /\ ioAnswer'.asked = op.asked
      BY <2>1
    <2>7. Gathered(ioAnswer.kind, ioAnswer.out)'
      BY <1>c, <1>g, <2>6 DEF Gathered, Piece
    <2>8. op.kind = "line" => LFs' = IF ioAnswer'.err = "none" THEN {received'} ELSE {}
      <3> HAVE op.kind = "line"
      <3>1. LFs' = IF r.done THEN {received'} ELSE {}
        BY <1>d, <1>g DEF LFs
      <3>2. ioAnswer'.err = err
        BY <2>6 DEF Outcome
      <3>3. CASE err = "none"
        BY <1>11, <3>1, <3>2, <3>3
      <3>4. CASE err # "none"
        <4>1. received' = received
          BY <1>f, <3>4 DEF Gets
        <4>2. LFs' = LFs /\ LFs = {}
          BY <1>g, <4>1 DEF LFs, IoInv, ReceiveIsStream
        <4> QED BY <3>2, <3>4, <4>2
      <3> QED BY <3>3, <3>4
    <2>9. op.kind = "count" => /\ ioAnswer'.err = "none" => Len(ioAnswer'.out) = ioAnswer'.asked
                               /\ Len(ioAnswer'.out) <= ioAnswer'.asked
      <3> HAVE op.kind = "count"
      <3>1. ioAnswer'.err = err
        BY <2>6 DEF Outcome
      <3>2. op.wanted \in Int /\ op.asked \in Nat /\ Len(out) \in Nat
        BY <1>8, <1>10 DEF Calls
      <3>3. Len(out) <= op.asked /\ (r.done => Len(out) = op.asked)
        BY <1>8, <1>e, <3>2
      <3> QED BY <1>11, <2>6, <3>1, <3>3
    <2>10. op.kind = "all" /\ ioAnswer'.err = "none" /\ sock' => end' # "open" /\ received' = arrived'
      <3> HAVE op.kind = "all" /\ ioAnswer'.err = "none" /\ sock'
      <3>1. err = "closed"
        BY <1>11, <1>f, <2>6 DEF Outcome
      <3>2. end' # "open" /\ taken' = arrived
        BY <1>g, <3>1 DEF Gets
      <3> QED BY <1>f, <1>g, <3>1, <3>2
    <2>11. ReceiveIsStream'
      BY <2>3, <2>6, <2>7, <2>8, <2>9, <2>10 DEF ReceiveIsStream, Receiving, Kinds
    <2> QED BY <1>7, <2>4, <2>5, <2>11 DEF IoInv
  <1>12. CASE ~(r.done \/ err # "none")
    <2>1. op' = [op EXCEPT !.out = out, !.total = total] /\ ioAnswer' = ioAnswer
      BY <1>4, <1>12
    <2>2. /\ op'.kind = op.kind /\ op'.asked = op.asked /\ op'.wanted = op.wanted
          /\ op'.out = out /\ op'.total = total /\ op' \in Calls /\ op'.pc = "ready"
      BY <1>8, <1>10, <1>12, <2>1 DEF Calls
    <2>3. ioAnswer' \in Answers /\ op'.kind \in Kinds
      BY <1>10, <2>1, <2>2 DEF IoInv, IoTypes
    <2>4. IoTypes'
      <3>1. op'.kind # "idle"
        BY <2>3 DEF Kinds
      <3> QED BY <1>b, <1>h, <2>2, <2>3, <3>1, RoundTypes
    <2>5. HowFar'
      BY <1>e, <1>g, <2>2, <2>3, SameSent DEF Kinds
    <2>6. Gathered(op.kind, op.out)'
      BY <1>c, <1>g, <2>2 DEF Gathered, Piece
    <2>7. op'.kind = "line" => LFs' = {}
      BY <1>12, <1>d, <1>g, <2>2 DEF LFs
    <2>8. op' # Idle
      BY <2>3 DEF Idle, Kinds
    <2>9. ReceiveIsStream'
      BY <2>6, <2>7, <2>8 DEF ReceiveIsStream
    <2> QED BY <1>7, <2>4, <2>5, <2>9 DEF IoInv
  <1> QED BY <1>11, <1>12

-----------------------------------------------------------------------------
(* receive and the peer: what is not in the buffer is in the kernel.       *)

\* What the invariant says of bytes is kept by what leaves them alone.
SameCall(p) ==
  /\ op'.kind = op.kind /\ op'.asked = op.asked /\ op'.wanted = op.wanted
  /\ op'.out = op.out /\ op'.total = op.total /\ op'.pc = p /\ op' \in Calls

LEMMA PollKeeps ==
  ASSUME IoInv, op.kind # "idle", NEW p \in {"ready", "wait"}, SameCall(p), elapsed' \in Nat,
         p = "wait" /\ Receiving => received = taken,
         UNCHANGED <<peerVars, bufVars, sendVars, calling, ioAnswer>>
  PROVE  IoInv'
  <1>2. /\ op'.kind = op.kind /\ op'.asked = op.asked /\ op'.wanted = op.wanted
        /\ op'.out = op.out /\ op'.total = op.total /\ op'.pc = p /\ op' \in Calls
    BY DEF SameCall
  <1>3. /\ stream' = stream /\ arrived' = arrived /\ end' = end /\ taken' = taken /\ data' = data
        /\ bufFirst' = bufFirst /\ received' = received /\ wire' = wire /\ room' = room
        /\ sock' = sock /\ tm' = tm /\ from' = from /\ told' = told /\ ioAnswer' = ioAnswer
    BY DEF peerVars, bufVars, sendVars, calling
  <1>4. IoTypes'
    BY <1>2, <1>3 DEF IoInv, IoTypes
  <1>5. HowFar'
    BY <1>2, <1>3 DEF IoInv, HowFar, Sent, Waiting, Receiving
  <1>6. BufferIsNext'
    BY <1>3 DEF IoInv, BufferIsNext, Unread
  <1>7. op' # Idle
    BY <1>2 DEF Idle
  <1>8. Receiving' => Gathered(op.kind, op.out)' /\ (op'.kind = "line" => LFs' = {})
    BY <1>2, <1>3 DEF IoInv, ReceiveIsStream, Receiving, Gathered, Piece, LFs
  <1>9. ReceiveIsStream'
    BY <1>7, <1>8 DEF ReceiveIsStream
  <1> QED BY <1>4, <1>5, <1>6, <1>9 DEF IoInv

\* What a call ends with that takes no byte from the stream.
LEMMA SameStream ==
  ASSUME IoInv, UNCHANGED <<stream, taken, data, bufFirst, received>>
  PROVE  BufferIsNext'
  BY DEF IoInv, BufferIsNext, Unread

LEMMA EmptyMeansTaken ==
  ASSUME IoInv, buffer_isempty
  PROVE  received = taken
  <1>1. stream \in Seq(Byte) /\ Len(stream) \in Nat
    BY StreamIsSeq DEF IoInv
  <1>2. received \in Nat /\ taken \in Nat /\ received <= taken /\ taken <= Len(stream)
        /\ data \in Seq(Byte) /\ bufFirst \in Nat /\ Len(data) \in Nat /\ bufFirst <= Len(data)
    BY <1>1 DEF IoInv, IoTypes
  <1>3. bufFirst = Len(data)
    BY <1>2 DEF buffer_isempty
  <1>4. Len(Unread) = 0
    <2>1. Len(SubSeq(data, bufFirst + 1, Len(data))) = Len(data) - bufFirst
      BY <1>2, Slice
    <2>2. Len(data) - bufFirst = 0
      BY <1>2, <1>3
    <2> QED BY <2>1, <2>2 DEF Unread
  <1>5. Len(SubSeq(stream, received + 1, taken)) = taken - received
    BY <1>1, <1>2, Slice
  <1>6. Unread = SubSeq(stream, received + 1, taken)
    BY DEF IoInv, BufferIsNext
  <1> QED BY <1>2, <1>4, <1>5, <1>6

-----------------------------------------------------------------------------
LEMMA IoInitially ==
  IoInit => IoInv
  <1> SUFFICES ASSUME IoInit PROVE IoInv
    OBVIOUS
  <1>1. op = Idle /\ ioAnswer = NoAnswer /\ op.kind = "idle" /\ ioAnswer.kind = "idle"
    BY DEF IoInit, Idle, NoAnswer
  <1>2. Idle \in Calls /\ NoAnswer \in Answers
    BY DEF Idle, NoAnswer, Calls, Answers, Errors
  <1>3. stream \in Seq(Byte) /\ Len(stream) \in Nat /\ BufSize \in Nat /\ Room \in Nat /\ Size \in Nat
    BY IoAssumption DEF IoInit
  <1>4. IoTypes
    <2>1. tm \in [block: Limits \cup {-1}, total: Limits \cup {-1}]
      BY DEF IoInit, timeout_init
    <2>2. data \in Seq(Byte) /\ Len(data) <= BufSize /\ bufFirst \in 0 .. Len(data)
      BY <1>3 DEF IoInit
    <2> QED BY <1>1, <1>2, <1>3, <2>1, <2>2 DEF IoInit, IoTypes
  <1>5. HowFar
    <2>1. Bytes(1, 0) = <<>>
      BY DEF Bytes
    <2>2. op.pc = "ready"
      BY <1>1 DEF Idle
    <2> QED BY <1>1, <2>1, <2>2 DEF IoInit, HowFar, Waiting
  <1>6. BufferIsNext
    <2>1. SubSeq(stream, 0 + 1, 0) = <<>>
      BY <1>3, SliceNone
    <2>2. SubSeq(<<>>, 0 + 1, 0) = <<>> /\ Len(<<>>) = 0
      <3>1. <<>> \in Seq(Byte)
        OBVIOUS
      <3> QED BY <3>1, SliceNone
    <2> QED BY <2>1, <2>2 DEF IoInit, BufferIsNext, Unread
  <1>7. ReceiveIsStream
    BY <1>1 DEF ReceiveIsStream, Receiving, Kinds
  <1> QED BY <1>4, <1>5, <1>6, <1>7 DEF IoInv

\* The peer and the network.
LEMMA PeerKeeps ==
  ASSUME IoInv, Peer
  PROVE  IoInv'
  <1>1. CASE Arrive
    <2>1. /\ end = "open" /\ arrived < Len(stream) /\ arrived' = arrived + 1
          /\ stream' = stream /\ end' = end /\ taken' = taken /\ data' = data
          /\ bufFirst' = bufFirst /\ received' = received /\ wire' = wire /\ room' = room
          /\ sock' = sock /\ tm' = tm /\ from' = from /\ told' = told /\ elapsed' = elapsed
          /\ op' = op /\ ioAnswer' = ioAnswer
      BY <1>1 DEF Arrive, bufVars, sendVars, calling
    <2>2. arrived' \in 0 .. Len(stream) /\ taken \in 0 .. arrived'
      <3>1. stream \in Seq(Byte) /\ Len(stream) \in Nat
        BY StreamIsSeq DEF IoInv
      <3> QED BY <2>1, <3>1 DEF IoInv, IoTypes
    <2>3. IoTypes'
      BY <2>1, <2>2 DEF IoInv, IoTypes
    <2>4. HowFar' /\ BufferIsNext'
      BY <2>1 DEF IoInv, HowFar, Sent, Waiting, Receiving, BufferIsNext, Unread
    <2>5. ReceiveIsStream'
      BY <2>1 DEF IoInv, ReceiveIsStream, Receiving, Gathered, Piece, LFs
    <2> QED BY <2>3, <2>4, <2>5 DEF IoInv
  <1>2. CASE PeerEnds
    <2>1. /\ end' \in {"closed", "reset", "broken"}
          /\ stream' = stream /\ arrived' = arrived /\ taken' = taken /\ data' = data
          /\ bufFirst' = bufFirst /\ received' = received /\ wire' = wire /\ room' = room
          /\ sock' = sock /\ tm' = tm /\ from' = from /\ told' = told /\ elapsed' = elapsed
          /\ op' = op /\ ioAnswer' = ioAnswer
      BY <1>2 DEF PeerEnds, bufVars, sendVars, calling
    <2>3. IoTypes'
      BY <2>1 DEF IoInv, IoTypes
    <2>4. HowFar' /\ BufferIsNext'
      BY <2>1 DEF IoInv, HowFar, Sent, Waiting, Receiving, BufferIsNext, Unread
    <2>5. ReceiveIsStream'
      BY <2>1 DEF IoInv, ReceiveIsStream, Receiving, Gathered, Piece, LFs
    <2> QED BY <2>3, <2>4, <2>5 DEF IoInv
  <1>3. CASE PeerReads
    <2>1. /\ room < Room /\ room' = room + 1
          /\ stream' = stream /\ arrived' = arrived /\ end' = end /\ taken' = taken /\ data' = data
          /\ bufFirst' = bufFirst /\ received' = received /\ wire' = wire
          /\ sock' = sock /\ tm' = tm /\ from' = from /\ told' = told /\ elapsed' = elapsed
          /\ op' = op /\ ioAnswer' = ioAnswer
      BY <1>3 DEF PeerReads, peerVars, bufVars, sendVars, calling
    <2>2. room' \in 0 .. Room
      BY <2>1, IoAssumption DEF IoInv, IoTypes
    <2>3. IoTypes'
      BY <2>1, <2>2 DEF IoInv, IoTypes
    <2>4. HowFar' /\ BufferIsNext'
      BY <2>1 DEF IoInv, HowFar, Sent, Waiting, Receiving, BufferIsNext, Unread
    <2>5. ReceiveIsStream'
      BY <2>1 DEF IoInv, ReceiveIsStream, Receiving, Gathered, Piece, LFs
    <2> QED BY <2>3, <2>4, <2>5 DEF IoInv
  <1> QED BY <1>1, <1>2, <1>3 DEF Peer

\* What a script sets between two calls.
LEMMA ScriptSets ==
  ASSUME IoInv, \/ \E mode \in {"b", "t"}, t \in Limits : SetTimeout(mode, t)
                \/ Close
  PROVE  IoInv'
  <1>1. /\ stream' = stream /\ arrived' = arrived /\ end' = end /\ taken' = taken /\ data' = data
        /\ bufFirst' = bufFirst /\ received' = received /\ wire' = wire /\ room' = room
        /\ from' = from /\ told' = told /\ elapsed' = elapsed
        /\ op' = op /\ ioAnswer' = ioAnswer
    BY DEF SetTimeout, Close, peerVars, bufVars, sendVars
  <1>2. sock' \in BOOLEAN /\ (sock' => sock)
    <2>1. sock \in BOOLEAN
      BY DEF IoInv, IoTypes
    <2>2. sock' = sock \/ sock' = FALSE
      BY DEF SetTimeout, Close
    <2>3. CASE sock' = sock
      BY <2>1, <2>3
    <2>4. CASE sock' = FALSE
      BY <2>4
    <2> QED BY <2>2, <2>3, <2>4
  <1>3. tm' \in [block: Limits \cup {-1}, total: Limits \cup {-1}]
    <2>1. tm \in [block: Limits \cup {-1}, total: Limits \cup {-1}]
      BY DEF IoInv, IoTypes
    <2>2. \A t \in Limits : /\ [tm EXCEPT !.block = t] \in [block: Limits \cup {-1}, total: Limits \cup {-1}]
                            /\ [tm EXCEPT !.total = t] \in [block: Limits \cup {-1}, total: Limits \cup {-1}]
      BY <2>1
    <2> QED BY <2>1, <2>2 DEF SetTimeout, Close, timeout_settimeout
  <1>4. IoTypes'
    BY <1>1, <1>2, <1>3 DEF IoInv, IoTypes
  <1>5. HowFar' /\ BufferIsNext'
    BY <1>1 DEF IoInv, HowFar, Sent, Waiting, Receiving, BufferIsNext, Unread
  <1>6. ReceiveIsStream'
    BY <1>1, <1>2 DEF IoInv, ReceiveIsStream, Receiving, Gathered, Piece, LFs
  <1> QED BY <1>4, <1>5, <1>6 DEF IoInv

\* A receive begins, or ends at once with the prefix that it was given.
LEMMA ReceiveBegins ==
  ASSUME IoInv, NEW kind \in Kinds, NEW n \in Nat, buffer_meth_receive(kind, n)
  PROVE  IoInv'
  <1> PICK part \in {<<>>, ioAnswer.out} :
        /\ \/ part = <<>> /\ from' = received
           \/ part # <<>> /\ Continues(kind, n) /\ from' = from
        /\ \/ /\ kind # "count" \/ part = <<>> \/ n > Len(part)
              /\ op' = [kind |-> kind, asked |-> n, wanted |-> n - Len(part), out |-> part,
                        total |-> 0, pc |-> "ready", left |-> -1]
              /\ ioAnswer' = ioAnswer
           \/ /\ kind = "count" /\ part # <<>> /\ n <= Len(part)
              /\ Finish(kind, n, "none", part)
    BY DEF buffer_meth_receive
  <1>1. /\ stream' = stream /\ arrived' = arrived /\ end' = end /\ taken' = taken /\ data' = data
        /\ bufFirst' = bufFirst /\ received' = received /\ wire' = wire /\ room' = room
        /\ sock' = sock /\ tm' = tm /\ told' = told /\ elapsed' = 0 /\ op = Idle
    BY DEF buffer_meth_receive, peerVars, bufVars, sendVars
  <1>2. ioAnswer \in Answers /\ received \in Nat /\ from \in Nat /\ from <= received
        /\ stream \in Seq(Byte) /\ Len(stream) \in Nat
    BY StreamIsSeq DEF IoInv, IoTypes
  <1>3. part \in Seq(Byte) /\ Len(part) \in Nat
    <2>1. ioAnswer.out \in Seq(Byte) /\ <<>> \in Seq(Byte)
      BY <1>2 DEF Answers
    <2>2. part \in Seq(Byte)
      BY <2>1
    <2> QED BY <2>2
  <1>4. from' \in 0 .. received
    BY <1>2
  <1>5. /\ part = IF kind = "line" THEN Without(Piece', {CRByte, LFByte}) ELSE Piece'
        /\ kind = "line" => LFs' = {}
        /\ kind = "count" /\ part # <<>> => Len(part) <= n
    <2>1. CASE part = <<>> /\ from' = received
      <3>1. Piece' = <<>> /\ LFs' = {}
        <4>1. SubSeq(stream, received + 1, received) = <<>>
          BY <1>2, SliceNone
        <4>2. received + 1 .. received = {}
          BY <1>2
        <4> QED BY <1>1, <2>1, <4>1, <4>2 DEF Piece, LFs
      <3>2. Without(<<>>, {CRByte, LFByte}) = <<>>
        <4>1. <<>> \in Seq(Byte) /\ Len(<<>>) = 0
          OBVIOUS
        <4> QED BY <4>1, WithoutNone
      <3> QED BY <2>1, <3>1, <3>2
    <2>2. CASE part # <<>> /\ Continues(kind, n) /\ from' = from
      <3>1. Piece' = Piece /\ LFs' = LFs
        BY <1>1, <2>2 DEF Piece, LFs
      <3>2. part = ioAnswer.out /\ ioAnswer.kind = kind /\ ioAnswer.asked = n /\ ioAnswer.err # "none"
        BY <2>2 DEF Continues
      <3>3. Gathered(kind, part) /\ (kind = "line" => LFs = {}) /\ (kind = "count" => Len(part) <= n)
        BY <1>1, <3>2 DEF IoInv, ReceiveIsStream
      <3> QED BY <3>1, <3>3 DEF Gathered
    <2> QED BY <2>1, <2>2
  <1>6. BufferIsNext'
    BY <1>1, SameStream
  <1>7. wire = Bytes(1, told)
    BY <1>1 DEF IoInv, HowFar, Idle
  <1>8. CASE /\ kind # "count" \/ part = <<>> \/ n > Len(part)
             /\ op' = [kind |-> kind, asked |-> n, wanted |-> n - Len(part), out |-> part,
                       total |-> 0, pc |-> "ready", left |-> -1]
             /\ ioAnswer' = ioAnswer
    <2>1. /\ op'.kind = kind /\ op'.asked = n /\ op'.wanted = n - Len(part) /\ op'.out = part
          /\ op'.total = 0 /\ op'.pc = "ready"
      BY <1>8
    <2>2. op' \in Calls
      <3>1. n - Len(part) \in Int
        BY <1>3
      <3>2. kind \in Kinds \cup {"send", "idle"} /\ part \in Seq(Byte)
        BY <1>3
      <3> HIDE DEF Kinds
      <3> DEFINE wanted == n - Len(part)
      <3>3. op' = [kind |-> kind, asked |-> n, wanted |-> wanted, out |-> part,
                   total |-> 0, pc |-> "ready", left |-> -1]
        BY <1>8
      <3> HIDE DEF wanted
      <3>4. wanted \in Int
        BY <3>1 DEF wanted
      <3> QED BY <3>2, <3>3, <3>4 DEF Calls
    <2>3. kind # "idle" /\ kind # "send"
      BY DEF Kinds
    <2>4. IoTypes'
      BY <1>1, <1>4, <1>8, <2>1, <2>2, <2>3 DEF IoInv, IoTypes
    <2>5. HowFar'
      <3>1. kind = "count" => 0 <= n - Len(part) /\ Len(part) + (n - Len(part)) = n + 0
        <4>1. part = <<>> => Len(part) = 0
          OBVIOUS
        <4> QED BY <1>3, <1>8, <4>1
      <3>2. wire' = Bytes(1, told')
        BY <1>1, <1>7
      <3> QED BY <2>1, <2>3, <3>1, <3>2 DEF HowFar, Waiting
    <2>6. op' # Idle
      BY <2>1, <2>3 DEF Idle
    <2>7. Gathered(op.kind, op.out)' /\ (op'.kind = "line" => LFs' = {})
      BY <1>5, <2>1 DEF Gathered
    <2>8. ReceiveIsStream'
      BY <2>6, <2>7 DEF ReceiveIsStream
    <2> QED BY <1>6, <2>4, <2>5, <2>8 DEF IoInv
  <1>9. CASE /\ kind = "count" /\ part # <<>> /\ n <= Len(part)
             /\ Finish(kind, n, "none", part)
    <2>1. op' = Idle /\ ioAnswer' = [kind |-> kind, asked |-> n, err |-> "none", out |-> part]
      BY <1>9 DEF Finish
    <2>2. ioAnswer'.kind = kind /\ ioAnswer'.asked = n /\ ioAnswer'.err = "none" /\ ioAnswer'.out = part
      BY <2>1
    <2>3. ioAnswer' \in Answers
      BY <1>3, <2>1 DEF Answers, Errors
    <2>4. op'.kind = "idle" /\ op'.pc = "ready" /\ op' \in Calls
      BY <2>1 DEF Idle, Calls
    <2>5. IoTypes'
      BY <1>1, <1>4, <2>1, <2>3, <2>4 DEF IoInv, IoTypes
    <2>6. HowFar'
      BY <1>1, <1>7, <2>4 DEF HowFar, Waiting
    <2>7. Len(part) = n
      BY <1>3, <1>5, <1>9
    <2>8. Gathered(ioAnswer.kind, ioAnswer.out)'
      BY <1>5, <2>2 DEF Gathered
    <2>9. ReceiveIsStream'
      BY <1>9, <2>2, <2>4, <2>7, <2>8 DEF ReceiveIsStream, Receiving, Kinds
    <2> QED BY <1>6, <2>5, <2>6, <2>9 DEF IoInv
  <1> QED BY <1>8, <1>9

-----------------------------------------------------------------------------
(* buffer.c and usocket.c: recv and its waits.                             *)

\* What poll is told to wait.
LEMMA PollIsTime ==
  ASSUME IoInv
  PROVE  PollTime(timeout_getretry(tm, elapsed)) \in Nat \cup {-1}
  <1>1. tm.block \in Int /\ tm.total \in Int /\ elapsed \in Int
    <2>1. tm.block \in Limits \cup {-1} /\ tm.total \in Limits \cup {-1} /\ elapsed \in Nat
      BY DEF IoInv, IoTypes
    <2>2. \A t \in Limits \cup {-1} : t \in Int
      BY IoAssumption
    <2> QED BY <2>1, <2>2
  <1>2. timeout_getretry(tm, elapsed) \in Int
    BY <1>1 DEF timeout_getretry, Both, Lesser, NotNegative
  <1>3. \A left \in Int : PollTime(left) \in Nat \cup {-1}
    <2> TAKE left \in Int
    <2>1. left >= 0 => left \div 2 \in Nat
      OBVIOUS
    <2>2. left >= 0 => (left \div 2) * 2 \in Nat
      BY <2>1
    <2> QED BY <2>2 DEF PollTime, Milli
  <1> QED BY <1>2, <1>3

LEMMA WaitKeeps ==
  ASSUME IoInv, op.kind # "idle", Wait, UNCHANGED elapsed, Receiving => received = taken,
         UNCHANGED <<peerVars, bufVars, sendVars, calling, ioAnswer>>
  PROVE  IoInv'
  <1> DEFINE l == PollTime(timeout_getretry(tm, elapsed))
  <1>1. l \in Nat \cup {-1}
    BY PollIsTime
  <1>2. op' = [op EXCEPT !.pc = "wait", !.left = l]
    BY DEF Wait
  <1>3. elapsed' \in Nat
    BY DEF IoInv, IoTypes
  <1> HIDE DEF l
  <1>4. SameCall("wait")
    <2>1. op \in Calls
      BY DEF IoInv, IoTypes
    <2> QED BY <1>1, <1>2, <2>1 DEF SameCall, Calls
  <1>5. "wait" \in {"ready", "wait"}
    OBVIOUS
  <1> QED BY <1>3, <1>4, <1>5, PollKeeps

\* The buffer is given again.
LEMMA FromBufferKeeps ==
  ASSUME IoInv, FromBuffer
  PROVE  IoInv'
  <1>1. taken' = taken /\ end' = end /\ UNCHANGED still /\ Receiving /\ GoOn(data, bufFirst, "none")
        /\ op.pc = "ready"
    BY DEF FromBuffer
  <1>2. taken \in taken .. arrived
    BY StreamIsSeq DEF IoInv, IoTypes
  <1>3. GivenFrom(data, bufFirst) = SubSeq(stream, received + 1, taken)
    BY DEF IoInv, BufferIsNext, Unread, GivenFrom
  <1>4. Gets(data, bufFirst, "none", taken, end)
    BY <1>2, <1>3 DEF IoInv, IoTypes, Gets, Errors
  <1>5. Gets(data, bufFirst, "none", taken', end')
    BY <1>1, <1>4
  <1> QED BY <1>1, <1>5, GoOnKeeps

\* recv gives bytes of the kernel.
LEMMA RecvBytesKeeps ==
  ASSUME IoInv, RecvBytes
  PROVE  IoInv'
  <1> DEFINE got == Lesser(BufSize, Len(Kernel))
             bytes == SubSeq(Kernel, 1, got)
  <1>1. /\ Receiving /\ received = taken /\ GoOn(bytes, 0, "none")
        /\ taken' = taken + got /\ end' = end /\ UNCHANGED still /\ op.pc = "ready"
    BY EmptyMeansTaken DEF RecvBytes, Asking
  <1>2. stream \in Seq(Byte) /\ Len(stream) \in Nat /\ BufSize \in Nat
    BY IoAssumption, StreamIsSeq DEF IoInv
  <1>3. taken \in Nat /\ arrived \in Nat /\ taken <= arrived /\ arrived <= Len(stream)
    BY <1>2 DEF IoInv, IoTypes
  <1>4. Kernel \in Seq(Byte) /\ Len(Kernel) = arrived - taken
    BY <1>2, <1>3, Slice DEF Kernel
  <1>5. got \in Nat /\ got <= BufSize /\ got <= arrived - taken
    BY <1>2, <1>3, <1>4 DEF Lesser
  <1> HIDE DEF got
  <1>6. bytes = SubSeq(stream, taken + 1, taken + got)
    <2>1. SubSeq(SubSeq(stream, taken + 1, arrived), 1, got) = SubSeq(stream, taken + 1, taken + got)
      BY <1>2, <1>3, <1>5, Skipped
    <2> QED BY <2>1 DEF Kernel
  <1>7. bytes \in Seq(Byte) /\ Len(bytes) = got
    <2>1. SubSeq(Kernel, 0 + 1, got) \in Seq(Byte) /\ Len(SubSeq(Kernel, 0 + 1, got)) = got - 0
      BY <1>3, <1>4, <1>5, Slice
    <2> QED BY <1>5, <2>1
  <1>8. GivenFrom(bytes, 0) = bytes
    <2> HIDE DEF bytes
    <2>1. SubSeq(bytes, 1, Len(bytes)) = bytes
      BY <1>7, SubSeqFull
    <2>2. 0 + 1 = 1
      OBVIOUS
    <2> QED BY <2>1, <2>2 DEF GivenFrom
  <1>9. taken + got \in taken .. arrived
    BY <1>3, <1>5
  <1> HIDE DEF bytes
  <1>10. Gets(bytes, 0, "none", taken + got, end)
    <2>1. 0 \in 0 .. Len(bytes) /\ Len(bytes) <= BufSize
      BY <1>5, <1>7
    <2>2. end \in {"open", "closed", "reset", "broken"}
      BY DEF IoInv, IoTypes
    <2> QED BY <1>1, <1>6, <1>7, <1>8, <1>9, <2>1, <2>2 DEF Gets, Errors
  <1>11. Gets(bytes, 0, "none", taken', end')
    BY <1>1, <1>10
  <1> QED BY <1>1, <1>11, GoOnKeeps

\* recv gives no byte: the call of the system ends, or its time is over.
LEMMA NothingKeeps ==
  ASSUME IoInv, Receiving, received = taken, NEW err \in Errors \ {"none"}, GoOn(<<>>, 0, err),
         UNCHANGED still, UNCHANGED taken, end' \in {"open", "closed", "reset", "broken"},
         err = "closed" /\ sock => end' # "open" /\ taken = arrived
  PROVE  IoInv'
  <1>1. err # "none" /\ err \in Errors /\ received = taken
    OBVIOUS
  <1>2. stream \in Seq(Byte) /\ Len(stream) \in Nat /\ BufSize \in Nat
    BY IoAssumption, StreamIsSeq DEF IoInv
  <1>3. taken \in Nat /\ arrived \in Nat /\ taken <= arrived
    BY <1>2 DEF IoInv, IoTypes
  <1>4. SubSeq(stream, received + 1, taken) = <<>>
    BY <1>1, <1>2, <1>3, SliceNone
  <1>5. <<>> \in Seq(Byte) /\ Len(<<>>) = 0
    OBVIOUS
  <1>6. GivenFrom(<<>>, 0) = <<>>
    BY <1>5, SliceNone DEF GivenFrom
  <1>7. Gets(<<>>, 0, err, taken, end')
    <2>1. 0 \in 0 .. Len(<<>>) /\ Len(<<>>) <= BufSize
      BY <1>2, <1>5
    <2>2. taken \in taken .. arrived
      BY <1>3
    <2> QED BY <1>1, <1>4, <1>5, <1>6, <2>1, <2>2 DEF Gets
  <1>8. Gets(<<>>, 0, err, taken', end')
    BY <1>7
  <1> QED BY <1>1, <1>8, GoOnKeeps

LEMMA KernelIsEmpty ==
  ASSUME IoInv, Kernel = <<>>
  PROVE  taken = arrived
  <1>1. stream \in Seq(Byte) /\ Len(stream) \in Nat
    BY StreamIsSeq DEF IoInv
  <1>2. taken \in Nat /\ arrived \in Nat /\ taken <= arrived /\ arrived <= Len(stream)
    BY <1>1 DEF IoInv, IoTypes
  <1>3. Len(SubSeq(stream, taken + 1, arrived)) = arrived - taken
    BY <1>1, <1>2, Slice
  <1>4. Len(<<>>) = 0
    OBVIOUS
  <1> QED BY <1>2, <1>3, <1>4 DEF Kernel

LEMMA RecvEndsKeeps ==
  ASSUME IoInv, RecvEnds
  PROVE  IoInv'
  <1>1. Receiving /\ received = taken /\ UNCHANGED still /\ UNCHANGED taken
    BY EmptyMeansTaken DEF RecvEnds, Asking
  <1>2. end \in {"open", "closed", "reset", "broken"} /\ {"closed", "reset"} \subseteq Errors \ {"none"}
    BY DEF IoInv, IoTypes, Errors
  <1>3. CASE ~sock /\ GoOn(<<>>, 0, "closed") /\ UNCHANGED end
    BY <1>1, <1>2, <1>3, NothingKeeps
  <1>4. CASE sock /\ Kernel = <<>> /\ end \in {"closed", "broken"} /\ GoOn(<<>>, 0, "closed") /\ UNCHANGED end
    <2>1. taken = arrived /\ end' # "open" /\ end' \in {"open", "closed", "reset", "broken"}
      BY <1>4, KernelIsEmpty
    <2>2. "closed" \in Errors \ {"none"}
      BY <1>2
    <2> QED BY <1>1, <1>4, <2>1, <2>2, NothingKeeps
  <1>5. CASE sock /\ Kernel = <<>> /\ end = "reset" /\ GoOn(<<>>, 0, "reset") /\ end' = "broken"
    <2>1. end' \in {"open", "closed", "reset", "broken"} /\ "reset" \in Errors \ {"none"} /\ "reset" # "closed"
      BY <1>2, <1>5
    <2> QED BY <1>1, <1>5, <2>1, NothingKeeps
  <1> QED BY <1>3, <1>4, <1>5 DEF RecvEnds

LEMMA RecvWaitsKeeps ==
  ASSUME IoInv, RecvWaits
  PROVE  IoInv'
  <1>1. Receiving /\ received = taken /\ UNCHANGED still /\ UNCHANGED <<end, taken>>
    BY EmptyMeansTaken DEF RecvWaits, Asking
  <1>2. end \in {"open", "closed", "reset", "broken"} /\ "timeout" \in Errors \ {"none"} /\ "timeout" # "closed"
    BY DEF IoInv, IoTypes, Errors
  <1>3. CASE GoOn(<<>>, 0, "timeout")
    BY <1>1, <1>2, <1>3, NothingKeeps
  <1>4. CASE Wait /\ UNCHANGED <<bufVars, ioAnswer>>
    <2>1. op.kind # "idle"
      BY <1>1 DEF Receiving, Kinds
    <2>2. UNCHANGED <<peerVars, bufVars, sendVars, calling, ioAnswer>> /\ UNCHANGED elapsed
      BY <1>1, <1>4 DEF still, peerVars, sendVars, calling
    <2> QED BY <1>1, <1>4, <2>1, <2>2, WaitKeeps
  <1> QED BY <1>3, <1>4 DEF RecvWaits

-----------------------------------------------------------------------------
(* buffer.c, send: the bytes on the wire are those of the calls.           *)

LEMMA BytesJoin ==
  ASSUME NEW n \in Nat, NEW m \in Nat
  PROVE  Bytes(1, n) \o Bytes(n + 1, n + m) = Bytes(1, n + m)
  <1> DEFINE a == Bytes(1, n)
             b == Bytes(n + 1, n + m)
             c == Bytes(1, n + m)
  <1>1. a \in Seq(Nat) /\ Len(a) = n /\ \A i \in 1 .. n : a[i] = i
    <2>1. a = [i \in 1 .. n |-> i]
      BY DEF Bytes
    <2> QED BY <2>1
  <1>2. b \in Seq(Nat) /\ Len(b) = m /\ \A i \in 1 .. m : b[i] = n + i
    <2>1. b = [i \in 1 .. m |-> n + i]
      <3>1. (n + m) - (n + 1) + 1 = m /\ \A i \in 1 .. m : (n + 1) + i - 1 = n + i
        OBVIOUS
      <3> QED BY <3>1 DEF Bytes
    <2>2. \A i \in 1 .. m : n + i \in Nat
      OBVIOUS
    <2> QED BY <2>1, <2>2
  <1>3. c \in Seq(Nat) /\ Len(c) = n + m /\ \A i \in 1 .. n + m : c[i] = i
    <2>1. c = [i \in 1 .. n + m |-> i]
      BY DEF Bytes
    <2>2. n + m \in Nat
      OBVIOUS
    <2> QED BY <2>1, <2>2
  <1> HIDE DEF a, b, c
  <1>4. a \o b \in Seq(Nat) /\ Len(a \o b) = n + m
        /\ (\A i \in 1 .. n : (a \o b)[i] = a[i]) /\ (\A i \in 1 .. m : (a \o b)[n + i] = b[i])
    <2>1. a \o b \in Seq(Nat) /\ Len(a \o b) = Len(a) + Len(b)
          /\ \A i \in 1 .. Len(a) + Len(b) : (a \o b)[i] = IF i <= Len(a) THEN a[i] ELSE b[i - Len(a)]
      BY <1>1, <1>2, ConcatProperties
    <2>2. \A i \in 1 .. n + m : (a \o b)[i] = IF i <= n THEN a[i] ELSE b[i - n]
      BY <1>1, <1>2, <2>1
    <2>3. \A i \in 1 .. n : (a \o b)[i] = a[i]
      <3>1. \A i \in 1 .. n : i \in 1 .. n + m /\ i <= n
        OBVIOUS
      <3> QED BY <2>2, <3>1
    <2>4. \A i \in 1 .. m : n + i \in 1 .. n + m /\ ~(n + i <= n) /\ (n + i) - n = i
      OBVIOUS
    <2>5. \A i \in 1 .. m : (a \o b)[n + i] = b[i]
      BY <2>2, <2>4
    <2> QED BY <1>1, <1>2, <2>1, <2>3, <2>5
  <1> DEFINE d == a \o b
  <1>5. d \in Seq(Nat) /\ Len(d) = n + m /\ (\A i \in 1 .. n : d[i] = i)
        /\ (\A i \in 1 .. m : d[n + i] = n + i)
    BY <1>1, <1>2, <1>4
  <1> HIDE DEF d
  <1>6. \A i \in 1 .. n + m : d[i] = c[i]
    <2> TAKE i \in 1 .. n + m
    <2>1. CASE i \in 1 .. n
      BY <1>3, <1>5, <2>1
    <2>2. CASE i \notin 1 .. n
      <3>1. i - n \in 1 .. m /\ n + (i - n) = i
        BY <2>2
      <3>2. d[n + (i - n)] = n + (i - n)
        BY <1>5, <3>1
      <3> QED BY <1>3, <3>1, <3>2
    <2> QED BY <2>1, <2>2
  <1>7. d = c
    BY <1>3, <1>5, <1>6, SeqEqual
  <1> QED BY <1>7 DEF a, b, c, d

LEMMA BytesLen ==
  ASSUME NEW n \in Nat
  PROVE  Len(Bytes(1, n)) = n
  <1>1. Bytes(1, n) = [i \in 1 .. n |-> i]
    BY DEF Bytes
  <1> QED BY <1>1

\* A send that ends leaves the stream alone, and tells how far it is.
LEMMA ToldKeeps ==
  ASSUME IoInv, UNCHANGED <<stream, arrived, taken, data, bufFirst, received, sock, tm, from>>,
         NEW err \in Errors, NEW index \in 0 .. Size, Told(err, index),
         end' \in {"open", "closed", "reset", "broken"}, room' \in 0 .. Room, elapsed' \in Nat,
         wire' = Bytes(1, index)
  PROVE  IoInv'
  <1>1. /\ op' = Idle /\ told' = index
        /\ ioAnswer' = [kind |-> "send", asked |-> index, err |-> err, out |-> <<>>]
    BY DEF Told, Finish
  <1>2. op' \in Calls /\ op'.kind = "idle" /\ op'.pc = "ready"
    BY <1>1 DEF Idle, Calls
  <1>3. ioAnswer' \in Answers /\ ioAnswer'.kind = "send"
    <2>1. index \in Nat /\ <<>> \in Seq(Byte)
      BY IoAssumption
    <2>2. ioAnswer' \in Answers
      BY <1>1, <2>1 DEF Answers
    <2> QED BY <1>1, <2>2
  <1>4. IoTypes'
    BY <1>1, <1>2, <1>3 DEF IoInv, IoTypes
  <1>5. HowFar'
    BY <1>1, <1>2 DEF HowFar, Waiting
  <1>6. BufferIsNext'
    BY SameStream
  <1>7. ReceiveIsStream'
    BY <1>2, <1>3 DEF ReceiveIsStream, Receiving, Kinds
  <1> QED BY <1>4, <1>5, <1>6, <1>7 DEF IoInv

\* Where a send stands.
LEMMA SentFacts ==
  ASSUME IoInv, op.kind = "send"
  PROVE  /\ op \in Calls /\ op.total \in Nat /\ op.wanted \in Nat /\ told \in Nat
         /\ Sent = told + op.total /\ op.total < op.wanted /\ told + op.wanted <= Size
         /\ op.asked = told + 1 /\ Sent \in 0 .. Size /\ wire = Bytes(1, Sent)
  <1>1. op \in Calls /\ op.total \in Nat /\ op.wanted \in Int /\ op.asked \in Nat /\ told \in 0 .. Size
    BY DEF IoInv, IoTypes, Calls
  <1>2. op.asked = told + 1 /\ op.total < op.wanted /\ told + op.wanted <= Size /\ wire = Bytes(1, Sent)
    BY DEF IoInv, HowFar
  <1>3. Size \in Nat
    BY IoAssumption
  <1>4. Sent = told + op.total /\ op.wanted \in Nat /\ told \in Nat
    BY <1>1, <1>2, <1>3 DEF Sent
  <1> QED BY <1>1, <1>2, <1>3, <1>4

LEMMA SendBegins ==
  ASSUME IoInv, NEW i \in Int, NEW j \in Int, buffer_meth_send(i, j)
  PROVE  IoInv'
  <1>1. /\ stream' = stream /\ arrived' = arrived /\ end' = end /\ taken' = taken /\ data' = data
        /\ bufFirst' = bufFirst /\ received' = received /\ wire' = wire /\ room' = room
        /\ sock' = sock /\ tm' = tm /\ from' = from /\ elapsed' = 0 /\ op = Idle
        /\ SendFirst(i) = told + 1
    BY DEF buffer_meth_send, peerVars, bufVars, sendVars
  <1>2. told \in 0 .. Size /\ Size \in Nat /\ wire = Bytes(1, told) /\ room \in 0 .. Room
    BY <1>1, IoAssumption DEF IoInv, IoTypes, HowFar, Idle
  <1>3. SendLast(j) \in Int /\ SendLast(j) <= Size
    BY <1>2 DEF SendLast, Absolute, Lesser
  <1> DEFINE final == SendLast(j)
             wanted == final - (told + 1) + 1
  <1>4. CASE /\ SendFirst(i) <= final
             /\ op' = [kind |-> "send", asked |-> SendFirst(i), wanted |-> final - SendFirst(i) + 1,
                       out |-> <<>>, total |-> 0, pc |-> "ready", left |-> -1]
             /\ UNCHANGED <<ioAnswer, told>>
    <2>1. told + 1 <= final /\ told + 1 \in Nat /\ wanted \in Int /\ 0 < wanted /\ told + wanted <= Size
      <3> HIDE DEF final
      <3>1. final \in Int /\ final <= Size /\ told \in Nat
        BY <1>2, <1>3 DEF final
      <3>2. told + 1 <= final
        BY <1>1, <1>4
      <3> QED BY <1>2, <3>1, <3>2
    <2>2. op' = [kind |-> "send", asked |-> told + 1, wanted |-> wanted,
                 out |-> <<>>, total |-> 0, pc |-> "ready", left |-> -1]
      BY <1>1, <1>4
    <2> HIDE DEF wanted
    <2>3. op'.kind = "send" /\ op'.asked = told + 1 /\ op'.wanted = wanted /\ op'.total = 0 /\ op'.pc = "ready"
      BY <2>2
    <2>4. op' \in Calls
      <3>1. <<>> \in Seq(Byte)
        OBVIOUS
      <3> DEFINE asked == told + 1
      <3>2. asked \in Nat
        BY <2>1
      <3>3. op' = [kind |-> "send", asked |-> asked, wanted |-> wanted,
                   out |-> <<>>, total |-> 0, pc |-> "ready", left |-> -1]
        BY <2>2
      <3> HIDE DEF asked
      <3> QED BY <2>1, <3>1, <3>2, <3>3 DEF Calls
    <2>5. IoTypes'
      BY <1>1, <1>4, <2>3, <2>4 DEF IoInv, IoTypes
    <2>6. HowFar'
      <3>1. Sent' = told
        <4>1. (told + 1) - 1 + 0 = told
          BY <1>2
        <4> QED BY <2>3, <4>1 DEF Sent
      <3> QED BY <1>1, <1>2, <1>4, <2>1, <2>3, <3>1 DEF HowFar, Waiting
    <2>7. BufferIsNext'
      BY <1>1, SameStream
    <2>8. ReceiveIsStream'
      <3>1. op' # Idle
        BY <2>3 DEF Idle
      <3> QED BY <2>3, <3>1 DEF ReceiveIsStream, Receiving, Kinds
    <2> QED BY <2>5, <2>6, <2>7, <2>8 DEF IoInv
  <1>5. CASE Told("none", SendFirst(i) - 1)
    <2>1. SendFirst(i) - 1 = told
      BY <1>1, <1>2
    <2>2. Told("none", told) /\ "none" \in Errors
      BY <1>5, <2>1 DEF Errors
    <2>3. end' \in {"open", "closed", "reset", "broken"} /\ elapsed' \in Nat /\ room' \in 0 .. Room
          /\ wire' = Bytes(1, told)
      BY <1>1, <1>2 DEF IoInv, IoTypes
    <2> QED BY <1>1, <1>2, <2>2, <2>3, ToldKeeps
  <1> QED BY <1>4, <1>5 DEF buffer_meth_send

LEMMA SendBytesKeeps ==
  ASSUME IoInv, SendBytes
  PROVE  IoInv'
  <1>1. /\ op.kind = "send" /\ op.pc = "ready"
        /\ stream' = stream /\ arrived' = arrived /\ end' = end /\ taken' = taken /\ data' = data
        /\ bufFirst' = bufFirst /\ received' = received
        /\ sock' = sock /\ tm' = tm /\ from' = from /\ elapsed' = elapsed
    BY DEF SendBytes, Sending, peerVars, bufVars
  <1>2. PICK put \in 1 .. Lesser(Step, room) :
          /\ wire' = wire \o Bytes(Sent + 1, Sent + put)
          /\ room' = room - put
          /\ IF op.total + put < op.wanted
             THEN op' = [op EXCEPT !.total = op.total + put] /\ UNCHANGED <<ioAnswer, told>>
             ELSE Told("none", Sent + put)
    BY DEF SendBytes
  <1>3. /\ op \in Calls /\ op.total \in Nat /\ op.wanted \in Nat /\ told \in Nat
        /\ Sent = told + op.total /\ op.total < op.wanted /\ told + op.wanted <= Size
        /\ op.asked = told + 1 /\ Sent \in 0 .. Size /\ wire = Bytes(1, Sent)
    BY <1>1, SentFacts
  <1>4. room \in 0 .. Room /\ Room \in Nat /\ StepSize \in Nat /\ Size \in Nat
    BY IoAssumption DEF IoInv, IoTypes
  <1>5. put \in Nat /\ put <= op.wanted - op.total /\ put <= room
    BY <1>3, <1>4 DEF Step, Lesser
  <1>6. room' \in 0 .. Room
    BY <1>2, <1>4, <1>5
  <1>7. wire' = Bytes(1, Sent + put)
    <2>1. Sent \in Nat
      BY <1>3, <1>4
    <2>2. Bytes(1, Sent) \o Bytes(Sent + 1, Sent + put) = Bytes(1, Sent + put)
      BY <1>5, <2>1, BytesJoin
    <2> QED BY <1>2, <1>3, <2>2
  <1>8. CASE op.total + put < op.wanted
    <2>1. op' = [op EXCEPT !.total = op.total + put] /\ ioAnswer' = ioAnswer /\ told' = told
      BY <1>2, <1>8
    <2>2. op.total + put \in Nat
      BY <1>3, <1>5
    <2>3. /\ op'.kind = "send" /\ op'.asked = op.asked /\ op'.wanted = op.wanted
          /\ op'.total = op.total + put /\ op'.pc = "ready" /\ op' \in Calls
      BY <1>1, <1>3, <2>1, <2>2 DEF Calls
    <2>4. IoTypes'
      BY <1>1, <1>6, <2>1, <2>3 DEF IoInv, IoTypes
    <2>5. Sent' = Sent + put
      <3>1. op.asked - 1 + (op.total + put) = Sent + put
        BY <1>3, <1>5
      <3> QED BY <2>3, <3>1 DEF Sent
    <2>6. HowFar'
      BY <1>3, <1>7, <1>8, <2>1, <2>3, <2>5 DEF HowFar, Waiting
    <2>7. BufferIsNext'
      BY <1>1, SameStream
    <2>8. ReceiveIsStream'
      <3>1. op' # Idle
        BY <2>3 DEF Idle
      <3> QED BY <2>3, <3>1 DEF ReceiveIsStream, Receiving, Kinds
    <2> QED BY <2>4, <2>6, <2>7, <2>8 DEF IoInv
  <1>9. CASE ~(op.total + put < op.wanted)
    <2>1. Told("none", Sent + put)
      BY <1>2, <1>9
    <2>2. Sent + put \in 0 .. Size
      BY <1>3, <1>4, <1>5
    <2>3. "none" \in Errors /\ end' \in {"open", "closed", "reset", "broken"} /\ elapsed' \in Nat
      BY <1>1 DEF IoInv, IoTypes, Errors
    <2> QED BY <1>1, <1>6, <1>7, <2>1, <2>2, <2>3, ToldKeeps
  <1> QED BY <1>8, <1>9

\* A send that gives the kernel nothing.
LEMMA SendStops ==
  ASSUME IoInv, op.kind = "send", NEW err \in Errors, Told(err, Sent),
         end' \in {"open", "closed", "reset", "broken"},
         UNCHANGED <<stream, arrived, bufVars, sendVars, sock, tm, elapsed, from>>
  PROVE  IoInv'
  <1>1. Sent \in 0 .. Size /\ wire = Bytes(1, Sent)
    BY SentFacts
  <1>2. UNCHANGED <<stream, arrived, taken, data, bufFirst, received, sock, tm, from>>
    BY DEF bufVars
  <1>3. room' \in 0 .. Room /\ elapsed' \in Nat /\ wire' = Bytes(1, Sent)
    BY <1>1 DEF sendVars, IoInv, IoTypes
  <1> QED BY <1>1, <1>2, <1>3, ToldKeeps

LEMMA SendEndsKeeps ==
  ASSUME IoInv, SendEnds
  PROVE  IoInv'
  <1>1. op.kind = "send" /\ UNCHANGED <<stream, arrived, bufVars, sendVars, sock, tm, elapsed, from>>
    BY DEF SendEnds, Sending
  <1>2. CASE Told("reset", Sent) /\ end' = "broken"
    BY <1>1, <1>2, SendStops DEF Errors
  <1>3. CASE Told("closed", Sent) /\ UNCHANGED end
    <2>1. end' \in {"open", "closed", "reset", "broken"}
      BY <1>3 DEF IoInv, IoTypes
    <2> QED BY <1>1, <1>3, <2>1, SendStops DEF Errors
  <1> QED BY <1>2, <1>3 DEF SendEnds

LEMMA SendWaitsKeeps ==
  ASSUME IoInv, SendWaits
  PROVE  IoInv'
  <1>1. op.kind = "send" /\ UNCHANGED <<peerVars, bufVars, sendVars, sock, tm, elapsed, from>>
    BY DEF SendWaits, Sending
  <1>2. end' \in {"open", "closed", "reset", "broken"}
        /\ UNCHANGED <<stream, arrived, bufVars, sendVars, sock, tm, elapsed, from>>
    BY <1>1 DEF IoInv, IoTypes, peerVars
  <1>3. CASE Told("timeout", Sent)
    BY <1>1, <1>2, <1>3, SendStops DEF Errors
  <1>4. CASE Wait /\ UNCHANGED <<ioAnswer, told>>
    <2>1. UNCHANGED <<peerVars, bufVars, sendVars, calling, ioAnswer>> /\ UNCHANGED elapsed
      BY <1>1, <1>4 DEF calling
    <2>2. op.kind # "idle" /\ ~Receiving
      BY <1>1 DEF Receiving, Kinds
    <2> QED BY <1>4, <2>1, <2>2, WaitKeeps
  <1> QED BY <1>3, <1>4 DEF SendWaits

-----------------------------------------------------------------------------
\* The loop round poll.
LEMMA PollStepKeeps ==
  ASSUME IoInv, Wakes \/ Interrupted
  PROVE  IoInv'
  <1>1. Waiting /\ UNCHANGED <<peerVars, bufVars, sendVars, calling, ioAnswer>>
    BY DEF Wakes, Interrupted
  <1>2. op.kind # "idle" /\ op \in Calls /\ op.pc = "wait"
    BY <1>1 DEF IoInv, IoTypes, Waiting, Idle
  <1>3. elapsed \in Nat /\ (Receiving => received = taken)
    BY <1>1 DEF IoInv, IoTypes, HowFar
  <1>4. CASE Wakes
    <2>1. op' = [op EXCEPT !.pc = "ready", !.left = -1] /\ elapsed' \in Nat
      BY <1>3, <1>4 DEF Wakes
    <2>2. "ready" \in {"ready", "wait"} /\ "ready" # "wait"
      OBVIOUS
    <2>3. SameCall("ready")
      BY <1>2, <2>1 DEF SameCall, Calls
    <2> QED BY <1>1, <1>2, <2>1, <2>2, <2>3, PollKeeps
  <1>5. CASE Interrupted
    <2>1. Wait /\ UNCHANGED elapsed
      BY <1>5 DEF Interrupted
    <2> QED BY <1>1, <1>2, <1>3, <2>1, WaitKeeps
  <1> QED BY <1>4, <1>5

LEMMA TickKeeps ==
  ASSUME IoInv, Tick
  PROVE  IoInv'
  <1>1. /\ op.kind # "idle" /\ op \in Calls /\ elapsed \in Nat
        /\ (op.pc = "wait" /\ Receiving => received = taken)
    BY DEF Tick, IoInv, IoTypes, HowFar, Waiting
  <1>2. UNCHANGED <<peerVars, bufVars, sendVars, calling, ioAnswer>>
    BY DEF Tick
  <1>3. elapsed' \in Nat
    <2>1. elapsed' = Lesser(elapsed + 1, LongTime) /\ LongTime \in Nat
      BY IoAssumption DEF Tick
    <2> QED BY <1>1, <2>1 DEF Lesser
  <1>4. SameCall(op.pc)
    <2>1. CASE Waiting /\ op.left > 0
      <3> DEFINE l == op.left - 1
      <3>1. l \in Nat \cup {-1}
        BY <1>1, <2>1 DEF Calls
      <3>2. op' = [op EXCEPT !.left = l]
        BY <2>1 DEF Tick
      <3> HIDE DEF l
      <3> QED BY <1>1, <3>1, <3>2 DEF SameCall, Calls
    <2>2. CASE ~(Waiting /\ op.left > 0)
      BY <1>1, <2>2 DEF SameCall, Tick
    <2> QED BY <2>1, <2>2
  <1>5. op.pc \in {"ready", "wait"}
    BY <1>1 DEF Calls
  <1> QED BY <1>1, <1>2, <1>3, <1>4, <1>5, PollKeeps

LEMMA TimesOutKeeps ==
  ASSUME IoInv, TimesOut
  PROVE  IoInv'
  <1>1. Waiting /\ UNCHANGED end
    BY DEF TimesOut
  <1>2. end' \in {"open", "closed", "reset", "broken"} /\ "timeout" \in Errors \ {"none"} /\ "timeout" # "closed"
    BY <1>1 DEF IoInv, IoTypes, Errors
  <1>3. CASE Receiving /\ GoOn(<<>>, 0, "timeout") /\ UNCHANGED <<still, taken>>
    <2>1. received = taken /\ UNCHANGED still /\ UNCHANGED taken
      BY <1>1, <1>3 DEF IoInv, HowFar
    <2> QED BY <1>2, <1>3, <2>1, NothingKeeps
  <1>4. CASE ~Receiving /\ Told("timeout", Sent)
             /\ UNCHANGED <<stream, arrived, bufVars, sendVars, sock, tm, elapsed, from>>
    <2>1. op.kind = "send"
      BY <1>1, <1>4 DEF IoInv, IoTypes, Calls, Receiving, Waiting, Idle
    <2>2. "timeout" \in Errors
      BY <1>2
    <2> QED BY <1>2, <1>4, <2>1, <2>2, SendStops
  <1> QED BY <1>3, <1>4 DEF TimesOut

-----------------------------------------------------------------------------
\* Every step keeps the invariant.
LEMMA IoStep ==
  ASSUME IoInv, [IoNext]_ioVars
  PROVE  IoInv'
  <1>1. CASE Peer
    BY <1>1, PeerKeeps
  <1>2. CASE Script
    <2>1. CASE \/ \E mode \in {"b", "t"}, t \in Limits : SetTimeout(mode, t)
               \/ Close
      BY <2>1, ScriptSets
    <2>2. ASSUME NEW n \in Counts, buffer_meth_receive("count", n) PROVE IoInv'
      BY <2>2, ReceiveBegins, IoAssumption DEF Kinds
    <2>3. CASE buffer_meth_receive("line", 0)
      BY <2>3, ReceiveBegins DEF Kinds
    <2>4. CASE buffer_meth_receive("all", 0)
      BY <2>4, ReceiveBegins DEF Kinds
    <2>5. ASSUME NEW i \in -Size .. Size, NEW j \in -Size .. Size, buffer_meth_send(i, j) PROVE IoInv'
      <3>1. i \in Int /\ j \in Int
        BY IoAssumption
      <3> QED BY <2>5, <3>1, SendBegins
    <2> QED BY <1>2, <2>1, <2>2, <2>3, <2>4, <2>5 DEF Script
  <1>3. CASE Call
    BY <1>3, FromBufferKeeps, RecvBytesKeeps, RecvEndsKeeps, RecvWaitsKeeps, SendBytesKeeps,
       SendEndsKeeps, SendWaitsKeeps, PollStepKeeps, TimesOutKeeps DEF Call
  <1>4. CASE Interrupted \/ Tick
    BY <1>4, PollStepKeeps, TickKeeps
  <1>5. CASE UNCHANGED ioVars
    <2>1. /\ stream' = stream /\ arrived' = arrived /\ end' = end /\ taken' = taken /\ data' = data
          /\ bufFirst' = bufFirst /\ received' = received /\ wire' = wire /\ room' = room
          /\ sock' = sock /\ tm' = tm /\ from' = from /\ told' = told /\ elapsed' = elapsed
          /\ op' = op /\ ioAnswer' = ioAnswer
      BY <1>5 DEF ioVars
    <2>2. IoTypes'
      BY <2>1 DEF IoInv, IoTypes
    <2>3. HowFar' /\ BufferIsNext'
      BY <2>1 DEF IoInv, HowFar, Sent, Waiting, Receiving, BufferIsNext, Unread
    <2>4. ReceiveIsStream'
      BY <2>1 DEF IoInv, ReceiveIsStream, Receiving, Gathered, Piece, LFs
    <2> QED BY <2>2, <2>3, <2>4 DEF IoInv
  <1> QED BY <1>1, <1>2, <1>3, <1>4, <1>5 DEF IoNext

LEMMA IoAlways == IoSpec => []IoInv
  <1>1. IoInv /\ [IoNext]_ioVars => IoInv'
    BY IoStep
  <1> QED BY IoInitially, <1>1, PTL DEF IoSpec

(* Whatever the patterns of receive, the sizes of the buffer, of a step and *)
(* of what the kernel takes, and wherever limits, errors and the end of the *)
(* connection cut a call short: the script gets the stream of the peer in   *)
(* order, each byte once, and the kernel gets the message once, up to the   *)
(* index that send returned. (buffer.c, usocket.c)                          *)
THEOREM EachByteOnce == IoSpec => []EveryByteOnce
  <1>1. IoInv => EveryByteOnce
    <2> SUFFICES ASSUME IoInv PROVE EveryByteOnce
      OBVIOUS
    <2>1. stream \in Seq(Byte) /\ Size \in Nat
      BY StreamIsSeq, IoAssumption DEF IoInv
    <2>2. PICK n \in 0 .. Size : wire = Bytes(1, n) /\ (op.kind # "send" => told = n)
      <3>1. CASE op.kind = "send"
        BY <3>1, SentFacts
      <3>2. CASE op.kind # "send"
        BY <3>2 DEF IoInv, IoTypes, HowFar
      <3> QED BY <3>1, <3>2
    <2>3. Len(wire) = n
      <3>1. n \in Nat
        BY <2>1
      <3> QED BY <2>2, <3>1, BytesLen
    <2>4. SendExact
      BY <2>2, <2>3 DEF SendExact
    <2>5. IoTypeOK
      <3>1. op.kind \in Kinds \cup {"send", "idle"} /\ op.pc \in {"ready", "wait"} /\ ioAnswer.err \in Errors
        BY DEF IoInv, IoTypes, Calls, Answers
      <3>2. Len(wire) <= Size
        BY <2>1, <2>3
      <3> QED BY <3>1, <3>2 DEF IoInv, IoTypes, IoTypeOK
    <2> QED BY <2>4, <2>5 DEF IoInv, EveryByteOnce
  <1> QED BY IoAlways, <1>1, PTL

-----------------------------------------------------------------------------
(* timeout.c: no poll reaches beyond the limit of its call, and a call     *)
(* that gives up has been under way for its limit, less what poll cannot   *)
(* count.                                                                  *)

\* The limits are numbers.
LEMMA TimeTypes ==
  ASSUME IoInv
  PROVE  /\ tm.block \in Nat \cup {-1} /\ tm.total \in Nat \cup {-1} /\ elapsed \in Nat
         /\ Deadline \in Nat \cup {-1}
  <1>1. tm.block \in Limits \cup {-1} /\ tm.total \in Limits \cup {-1} /\ elapsed \in Nat
    BY DEF IoInv, IoTypes
  <1>2. \A t \in Limits \cup {-1} : t \in Nat \cup {-1}
    BY IoAssumption
  <1> QED BY <1>1, <1>2 DEF Deadline

\* The smaller of the limits that there are.
LEMMA SmallestIs ==
  ASSUME IoInv, Deadline >= 0
  PROVE  /\ Smallest \in Nat
         /\ tm.block < 0 => Smallest = tm.total
         /\ tm.total < 0 => Smallest = tm.block
         /\ tm.block >= 0 => Smallest <= tm.block
         /\ tm.total >= 0 => Smallest <= tm.total
         /\ Smallest = tm.block \/ Smallest = tm.total
  <1> DEFINE limits == {tm.block, tm.total} \ {-1}
  <1>1. tm.block \in Nat \cup {-1} /\ tm.total \in Nat \cup {-1}
    BY TimeTypes
  <1>2. limits \in SUBSET Nat /\ limits # {}
    BY <1>1 DEF Deadline
  <1>3. \E m \in limits : \A n \in limits : m <= n
    <2> HIDE DEF limits
    <2> QED BY <1>2, LeastNatural
  <1>4. Smallest \in limits /\ \A n \in limits : Smallest <= n
    BY <1>3 DEF Smallest
  <1> HIDE DEF Smallest
  <1>5. \A s : s \in limits /\ (\A n \in limits : s <= n) =>
          /\ s \in Nat
          /\ tm.block < 0 => s = tm.total
          /\ tm.total < 0 => s = tm.block
          /\ tm.block >= 0 => s <= tm.block
          /\ tm.total >= 0 => s <= tm.total
          /\ s = tm.block \/ s = tm.total
    BY <1>1
  <1> QED BY <1>4, <1>5

\* What is left for a poll, in whole milliseconds, reaches no limit too late,
\* and the next one too early by less than a millisecond.
LEMMA WholeMillis ==
  ASSUME NEW n \in Nat
  PROVE  PollTime(n) \in Nat /\ PollTime(n) <= n /\ n < PollTime(n) + Milli
  <1>1. PollTime(n) = (n \div 2) * 2
    BY DEF PollTime, Milli
  <1>2. n \div 2 \in Nat /\ (n \div 2) * 2 <= n /\ n < (n \div 2) * 2 + 2
    OBVIOUS
  <1> QED BY <1>1, <1>2 DEF Milli

LEMMA WaitTime ==
  ASSUME IoInv, NEW l, l = PollTime(timeout_getretry(tm, elapsed))
  PROVE  /\ (Deadline < 0) <=> (l = -1)
         /\ Deadline >= 0 => /\ l \in Nat /\ (l = 0 \/ elapsed + l <= Deadline)
                             /\ elapsed + l > Smallest - Milli
  <1>1. tm.block \in Nat \cup {-1} /\ tm.total \in Nat \cup {-1} /\ elapsed \in Nat
    BY TimeTypes
  <1> DEFINE left == timeout_getretry(tm, elapsed)
  <1>4. Deadline \in Int
    BY TimeTypes
  <1>2. CASE Deadline < 0
    <2>1. left = -1
      BY <1>1, <1>2 DEF Deadline, timeout_getretry
    <2>2. l = -1
      BY <2>1 DEF PollTime
    <2> QED BY <1>2, <1>4, <2>2
  <1>3. CASE Deadline >= 0
    <2>1. /\ Smallest \in Nat /\ (tm.block < 0 => Smallest = tm.total) /\ (tm.total < 0 => Smallest = tm.block)
          /\ (tm.block >= 0 => Smallest <= tm.block) /\ (tm.total >= 0 => Smallest <= tm.total)
      BY <1>3, SmallestIs
    <2>2. left \in Nat /\ (left = 0 \/ elapsed + left <= Deadline) /\ elapsed + left >= Smallest
      <3>1. CASE tm.block < 0
        BY <1>1, <1>3, <2>1, <3>1 DEF Deadline, timeout_getretry, NotNegative
      <3>2. CASE tm.block >= 0 /\ tm.total < 0
        BY <1>1, <1>3, <2>1, <3>2 DEF Deadline, timeout_getretry, NotNegative
      <3>3. CASE tm.block >= 0 /\ tm.total >= 0
        BY <1>1, <1>3, <2>1, <3>3 DEF Deadline, timeout_getretry, NotNegative, Both, Lesser
      <3> QED BY <1>1, <3>1, <3>2, <3>3
    <2> HIDE DEF left
    <2>3. l \in Nat /\ l <= left /\ left < l + Milli
      BY <2>2, WholeMillis DEF left
    <2>4. Deadline \in Nat
      BY <1>3, TimeTypes
    <2>5. (l = 0 \/ elapsed + l <= Deadline) /\ elapsed + l > Smallest - Milli
      BY <1>1, <2>1, <2>2, <2>3, <2>4 DEF Milli
    <2> QED BY <1>3, <2>3, <2>4, <2>5
  <1> QED BY <1>2, <1>3, <1>4

LEMMA TimeInit == IoInit => InTime
  BY DEF IoInit, InTime, Waiting, Idle

\* A step that stops no clock.
LEMMA TimeFrame ==
  ASSUME InTime, tm' = tm, elapsed' = elapsed, op' = Idle \/ (op # Idle /\ op'.pc = "ready") \/ op' = op
  PROVE  InTime'
  <1>1. Deadline' = Deadline /\ Smallest' = Smallest
    BY DEF Deadline, Smallest
  <1>2. CASE op' = Idle
    BY <1>2 DEF InTime, Waiting, Idle
  <1>3. CASE op # Idle /\ op'.pc = "ready"
    BY <1>1, <1>3 DEF InTime, Waiting
  <1>4. CASE op' = op
    BY <1>1, <1>4 DEF InTime, Waiting
  <1> QED BY <1>2, <1>3, <1>4

LEMMA WaitInTime ==
  ASSUME IoInv, InTime, op # Idle, Wait, tm' = tm, elapsed' = elapsed, tm.block # 0
  PROVE  InTime'
  <1> DEFINE l == PollTime(timeout_getretry(tm, elapsed))
  <1>1. op' = [op EXCEPT !.pc = "wait", !.left = l] /\ op \in Calls
    BY DEF Wait, IoInv, IoTypes
  <1>3. /\ (Deadline < 0) <=> (l = -1)
        /\ Deadline >= 0 => /\ l \in Nat /\ (l = 0 \/ elapsed + l <= Deadline)
                            /\ elapsed + l > Smallest - Milli
    BY WaitTime
  <1> HIDE DEF l
  <1>4. op'.left = l
    BY <1>1 DEF Calls
  <1>5. Deadline' = Deadline /\ Smallest' = Smallest
    BY DEF Deadline, Smallest
  <1> QED BY <1>3, <1>4, <1>5 DEF InTime

\* A round ends the call or goes on with it.
LEMMA GoOnInTime ==
  ASSUME IoInv, InTime, Receiving, NEW bytes, NEW at, NEW err, GoOn(bytes, at, err),
         op.pc = "ready" \/ err # "none", UNCHANGED still
  PROVE  /\ InTime'
         /\ TimesOutNow => err = "timeout"
  <1>1. op' = Idle \/ (op # Idle /\ op'.pc = "ready")
    <2>1. op # Idle /\ op \in Calls
      BY DEF Receiving, Kinds, Idle, IoInv, IoTypes
    <2>2. CASE op' = Idle
      BY <2>2
    <2>3. CASE op' # Idle
      <3>1. err = "none" /\ op' = [op EXCEPT !.out = op.out \o Round(SubSeq(bytes, at + 1, Len(bytes))).out,
                                  !.total = op.total + Round(SubSeq(bytes, at + 1, Len(bytes))).skip]
        BY <2>3 DEF GoOn, Finish
      <3> HIDE DEF Round
      <3>2. op'.pc = op.pc
        BY <2>1, <3>1 DEF Calls
      <3> QED BY <2>1, <3>1, <3>2
    <2> QED BY <2>2, <2>3
  <1>2. TimesOutNow => err = "timeout"
    <2> HAVE TimesOutNow
    <2>1. op # op'
      BY DEF TimesOutNow
    <2>2. CASE err # "none"
      <3> DEFINE total == op.total + Round(SubSeq(bytes, at + 1, Len(bytes))).skip
      <3>1. ioAnswer'.err = Outcome(err, total)
        BY <2>2 DEF GoOn, Finish
      <3> HIDE DEF total
      <3> QED BY <3>1 DEF Outcome, TimesOutNow
    <2>3. CASE err = "none"
      <3> DEFINE r == Round(SubSeq(bytes, at + 1, Len(bytes)))
                 total == op.total + r.skip
                 out == op.out \o r.out
      <3>0. \/ Finish(op.kind, op.asked, Outcome(err, total), out)
            \/ op' = [op EXCEPT !.out = out, !.total = total]
        BY DEF GoOn
      <3> HIDE DEF r, total, out
      <3>1. \/ ioAnswer'.err = Outcome(err, total)
            \/ op' = [op EXCEPT !.out = out, !.total = total]
        BY <3>0 DEF Finish
      <3>2. CASE ioAnswer'.err = Outcome(err, total)
        BY <2>3, <3>2 DEF Outcome, TimesOutNow
      <3>3. CASE op' = [op EXCEPT !.out = out, !.total = total]
        <4>1. op \in Calls /\ op.kind # "idle" /\ op'.kind = "idle"
          BY DEF IoInv, IoTypes, Receiving, Kinds, TimesOutNow, Idle
        <4> QED BY <3>3, <4>1 DEF Calls
      <3> QED BY <3>1, <3>2, <3>3
    <2> QED BY <2>2, <2>3
  <1>3. tm' = tm /\ elapsed' = elapsed
    BY DEF still
  <1> QED BY <1>1, <1>2, <1>3, TimeFrame

\* No wait at all counts as the limit that ran out.
LEMMA NoWait ==
  ASSUME IoInv, timeout_iszero(tm)
  PROVE  Deadline >= 0 /\ elapsed > Smallest - Milli
  <1>1. tm.block = 0 /\ tm.total \in Nat \cup {-1} /\ elapsed \in Nat
    BY TimeTypes DEF timeout_iszero
  <1>2. Deadline >= 0
    BY <1>1 DEF Deadline
  <1>3. Smallest \in Nat /\ Smallest <= 0
    BY <1>1, <1>2, SmallestIs
  <1> QED BY <1>1, <1>2, <1>3 DEF Milli

\* What a step may answer with the word timeout.
Late == TimesOutNow => Deadline >= 0 /\ elapsed > Smallest - Milli

LEMMA ScriptInTime ==
  ASSUME IoInv, InTime, Peer \/ Script
  PROVE  InTime' /\ Late
  <1>1. CASE Peer
    <2>1. op' = op /\ tm' = tm /\ elapsed' = elapsed
      BY <1>1 DEF Peer, Arrive, PeerEnds, PeerReads, calling
    <2> QED BY <2>1, TimeFrame DEF Late, TimesOutNow
  <1>2. CASE Script
    <2>1. op = Idle
      BY <1>2 DEF Script, SetTimeout, Close, buffer_meth_receive, buffer_meth_send
    <2>2. CASE op' = Idle
      BY <2>1, <2>2 DEF InTime, Waiting, Idle, Late, TimesOutNow
    <2>3. CASE op' # Idle
      <3>1. elapsed' = 0 /\ tm' = tm /\ op'.pc = "ready"
        <4>1. CASE \E kind, n : buffer_meth_receive(kind, n)
          BY <2>3, <4>1 DEF buffer_meth_receive, Finish
        <4>2. CASE \E i, j : buffer_meth_send(i, j)
          BY <2>3, <4>2 DEF buffer_meth_send, Told, Finish
        <4>3. CASE Close \/ \E mode, t : SetTimeout(mode, t)
          BY <2>1, <2>3, <4>3 DEF Close, SetTimeout
        <4> QED BY <1>2, <4>1, <4>2, <4>3 DEF Script
      <3>2. Deadline' = Deadline
        BY <3>1 DEF Deadline
      <3> QED BY <2>1, <3>1, <3>2, TimeTypes DEF InTime, Waiting, Late, TimesOutNow
    <2> QED BY <2>2, <2>3
  <1> QED BY <1>1, <1>2

LEMMA RecvInTime ==
  ASSUME IoInv, InTime, FromBuffer \/ RecvBytes \/ RecvEnds \/ RecvWaits
  PROVE  InTime' /\ Late
  <1>1. Receiving /\ op.pc = "ready" /\ op # Idle /\ UNCHANGED still
    BY DEF FromBuffer, RecvBytes, RecvEnds, RecvWaits, Asking, Receiving, Kinds, Idle
  <1>2. CASE \E bytes, at, err : GoOn(bytes, at, err) /\ err # "timeout"
    BY <1>1, <1>2, GoOnInTime DEF Late
  <1>3. CASE timeout_iszero(tm) /\ GoOn(<<>>, 0, "timeout")
    BY <1>1, <1>3, GoOnInTime, NoWait DEF Late
  <1>4. CASE ~timeout_iszero(tm) /\ Wait
    <2>1. tm.block # 0 /\ tm' = tm /\ elapsed' = elapsed
      BY <1>1, <1>4 DEF timeout_iszero, still
    <2>2. op' # Idle
      <3>1. op \in Calls /\ op'.pc = "wait"
        BY <1>4 DEF IoInv, IoTypes, Wait, Calls
      <3> QED BY <3>1 DEF Idle
    <2> QED BY <1>1, <1>4, <2>1, <2>2, WaitInTime DEF Late, TimesOutNow
  <1>5. FromBuffer \/ RecvBytes \/ RecvEnds => \E bytes, at, err : GoOn(bytes, at, err) /\ err # "timeout"
    <2>1. FromBuffer => \E bytes, at, err : GoOn(bytes, at, err) /\ err # "timeout"
      BY DEF FromBuffer
    <2>2. RecvBytes => \E bytes, at, err : GoOn(bytes, at, err) /\ err # "timeout"
      BY DEF RecvBytes
    <2>3. RecvEnds => \E bytes, at, err : GoOn(bytes, at, err) /\ err # "timeout"
      BY DEF RecvEnds
    <2> QED BY <2>1, <2>2, <2>3
  <1> QED BY <1>2, <1>3, <1>4, <1>5 DEF RecvWaits

LEMMA SendInTime ==
  ASSUME IoInv, InTime, SendBytes \/ SendEnds \/ SendWaits
  PROVE  InTime' /\ Late
  <1>1. op.kind = "send" /\ op.pc = "ready" /\ op # Idle /\ op \in Calls /\ tm' = tm /\ elapsed' = elapsed
    BY DEF SendBytes, SendEnds, SendWaits, Sending, Idle, IoInv, IoTypes
  <1>2. CASE \E err, index : Told(err, index) /\ (err = "timeout" => timeout_iszero(tm))
    <2>1. op' = Idle
      BY <1>2 DEF Told, Finish
    <2>2. TimesOutNow => timeout_iszero(tm)
      BY <1>2 DEF Told, Finish, TimesOutNow
    <2> QED BY <1>1, <2>1, <2>2, TimeFrame, NoWait DEF Late
  <1>3. CASE \E put : op' = [op EXCEPT !.total = op.total + put]
    <2>1. op'.pc = "ready" /\ op'.kind = "send"
      BY <1>1, <1>3 DEF Calls
    <2>2. op' # Idle
      BY <2>1 DEF Idle
    <2> QED BY <1>1, <2>1, <2>2, TimeFrame DEF Late, TimesOutNow
  <1>4. CASE ~timeout_iszero(tm) /\ Wait
    <2>1. tm.block # 0
      BY <1>4 DEF timeout_iszero
    <2>2. op' # Idle
      <3>1. op'.pc = "wait"
        BY <1>1, <1>4 DEF Wait, Calls
      <3> QED BY <3>1 DEF Idle
    <2> QED BY <1>1, <1>4, <2>1, <2>2, WaitInTime DEF Late, TimesOutNow
  <1>5. SendBytes => \/ \E put : op' = [op EXCEPT !.total = op.total + put]
                     \/ \E err, index : Told(err, index) /\ (err = "timeout" => timeout_iszero(tm))
    BY DEF SendBytes
  <1>6. SendEnds => \E err, index : Told(err, index) /\ (err = "timeout" => timeout_iszero(tm))
    BY DEF SendEnds
  <1>7. SendWaits => \/ \E err, index : Told(err, index) /\ (err = "timeout" => timeout_iszero(tm))
                     \/ ~timeout_iszero(tm) /\ Wait
    BY DEF SendWaits
  <1> QED BY <1>2, <1>3, <1>4, <1>5, <1>6, <1>7

\* The clock goes on, in a poll and outside of it.
LEMMA TickInTime ==
  ASSUME IoInv, InTime, Tick
  PROVE  InTime' /\ Late
  <1>1. op \in Calls /\ op # Idle /\ op.kind # "idle" /\ UNCHANGED <<tm, ioAnswer>>
    BY DEF Tick, IoInv, IoTypes, Idle, calling
  <1>2. /\ Deadline \in Nat \cup {-1} /\ elapsed \in Nat /\ op.left \in Nat \cup {-1}
        /\ Deadline' = Deadline /\ Smallest' = Smallest
    BY <1>1, TimeTypes DEF Calls, Deadline, Smallest
  <1>3. elapsed' = Lesser(elapsed + 1, LongTime)
    BY DEF Tick
  <1>4. op' # Idle /\ (Waiting' <=> Waiting)
    <2>1. op'.kind = op.kind /\ op'.pc = op.pc
      BY <1>1 DEF Tick, Calls
    <2> QED BY <1>1, <2>1 DEF Idle, Waiting
  <1>5. ASSUME Waiting PROVE InTime'
    <2> DEFINE l == IF op.left > 0 THEN op.left - 1 ELSE op.left
               e == Lesser(elapsed + 1, LongTime)
    <2>1. /\ tm.block # 0 /\ (Deadline < 0 <=> op.left = -1)
          /\ Deadline >= 0 => /\ op.left = 0 \/ elapsed + op.left <= Deadline
                              /\ elapsed + op.left > Smallest - Milli
      BY <1>5 DEF InTime
    <2>2. op'.left = l
      BY <1>1, <1>5 DEF Tick, Calls
    <2>3. Deadline >= 0 => Smallest \in Nat /\ Smallest < LongTime /\ LongTime \in Nat
      <3>1. tm.block \in Limits \cup {-1} /\ tm.total \in Limits \cup {-1}
        BY DEF IoInv, IoTypes
      <3>2. Deadline >= 0 => Smallest \in Nat /\ (Smallest = tm.block \/ Smallest = tm.total)
        BY SmallestIs
      <3>3. LongTime \in Nat /\ \A t \in Limits : t < LongTime
        BY IoAssumption
      <3> QED BY <3>1, <3>2, <3>3
    <2>4. /\ Deadline < 0 <=> l = -1
          /\ Deadline >= 0 => (l = 0 \/ e + l <= Deadline) /\ e + l > Smallest - Milli
      <3>1. CASE Deadline < 0
        BY <1>2, <2>1, <3>1
      <3>2. CASE Deadline >= 0
        <4>1. LongTime \in Nat /\ Smallest \in Nat /\ Smallest < LongTime /\ op.left \in Nat
          BY <1>2, <2>1, <2>3, <3>2
        <4>2. e \in Nat /\ e <= elapsed + 1 /\ (e = elapsed + 1 \/ e = LongTime)
          BY <1>2, <4>1 DEF Lesser
        <4>3. l \in Nat /\ ((op.left = 0 /\ l = 0) \/ l = op.left - 1)
          BY <4>1
        <4> HIDE DEF e, l
        <4> QED BY <1>2, <2>1, <3>2, <4>1, <4>2, <4>3 DEF Milli
      <3> QED BY <1>2, <3>1, <3>2
    <2> HIDE DEF e, l
    <2>5. elapsed' = e
      BY <1>3 DEF e
    <2> QED BY <1>1, <1>2, <2>1, <2>2, <2>4, <2>5 DEF InTime
  <1>6. ASSUME ~Waiting PROVE InTime'
    <2>1. ~Waiting'
      BY <1>4, <1>6
    <2> QED BY <2>1 DEF InTime
  <1> QED BY <1>4, <1>5, <1>6 DEF Late, TimesOutNow

LEMMA PollInTime ==
  ASSUME IoInv, InTime, Wakes \/ Interrupted \/ TimesOut
  PROVE  InTime' /\ Late
  <1>1. Waiting /\ op \in Calls /\ op # Idle /\ tm' = tm
    BY DEF Wakes, Interrupted, TimesOut, Waiting, IoInv, IoTypes, Idle, calling, still
  <1>2. /\ tm.block # 0
        /\ (Deadline < 0) <=> (op.left = -1)
        /\ Deadline >= 0 => /\ op.left = 0 \/ elapsed + op.left <= Deadline
                            /\ elapsed + op.left > Smallest - Milli
    BY <1>1 DEF InTime
  <1>3. Deadline \in Nat \cup {-1} /\ elapsed \in Nat /\ op.left \in Nat \cup {-1}
    BY <1>1, TimeTypes DEF Calls
  <1>4. Deadline' = Deadline /\ Smallest' = Smallest
    BY <1>1 DEF Deadline, Smallest
  <1>5. CASE Wakes
    <2>1. op'.pc = "ready" /\ elapsed' = elapsed /\ op'.kind = op.kind /\ op'.asked = op.asked
      BY <1>1, <1>5 DEF Wakes, Calls
    <2>2. op.kind # "idle"
      BY <1>1 DEF IoInv, IoTypes
    <2>3. op' # Idle
      BY <2>1, <2>2 DEF Idle
    <2> QED BY <1>1, <2>1, <2>3, TimeFrame DEF Late, TimesOutNow
  <1>6. CASE Interrupted
    <2>1. Wait /\ elapsed' = elapsed
      BY <1>6 DEF Interrupted
    <2>2. op' # Idle
      <3>1. op'.pc = "wait"
        BY <1>1, <2>1 DEF Wait, Calls
      <3> QED BY <3>1 DEF Idle
    <2> QED BY <1>1, <1>2, <2>1, <2>2, WaitInTime DEF Late, TimesOutNow
  <1>8. CASE TimesOut
    <2>1. op.left = 0
      BY <1>8 DEF TimesOut
    <2>2. Deadline >= 0 /\ elapsed > Smallest - Milli
      BY <1>2, <1>3, <2>1
    <2>3. CASE Receiving /\ GoOn(<<>>, 0, "timeout") /\ UNCHANGED still
      BY <2>2, <2>3, GoOnInTime DEF Late
    <2>4. CASE Told("timeout", Sent) /\ tm' = tm /\ elapsed' = elapsed
      <3>1. op' = Idle
        BY <2>4 DEF Told, Finish
      <3> QED BY <2>2, <2>4, <3>1, TimeFrame DEF Late
    <2> QED BY <1>8, <2>3, <2>4 DEF TimesOut
  <1> QED BY <1>5, <1>6, <1>8

(* For every pair of limits and every course of the clock, which passes     *)
(* while a loop receives and sends too: no call waits beyond its limit, and *)
(* none answers timeout before the smaller limit, less the fraction of a    *)
(* millisecond that poll cannot count, is over.                             *)
(* (timeout_getretry, socket_waitfd)                                        *)
THEOREM NeitherLateNorEarly == IoSpec => TimeoutInTime
  <1>1. ASSUME IoInv, InTime, [IoNext]_ioVars PROVE InTime' /\ (Late \/ UNCHANGED ioVars)
    <2>1. CASE UNCHANGED ioVars
      <3>1. op' = op /\ tm' = tm /\ elapsed' = elapsed
        BY <2>1 DEF ioVars
      <3> QED BY <1>1, <2>1, <3>1, TimeFrame
    <2>2. CASE IoNext
      BY <1>1, <2>2, ScriptInTime, RecvInTime, SendInTime, PollInTime, TickInTime DEF IoNext, Call
    <2> QED BY <1>1, <2>1, <2>2
  <1>2. IoInv /\ InTime =>
          (Waiting /\ Deadline >= 0 => op.left = 0 \/ (op.left > 0 /\ elapsed + op.left <= Deadline))
    <2> SUFFICES ASSUME IoInv, InTime, Waiting, Deadline >= 0
                 PROVE  op.left = 0 \/ (op.left > 0 /\ elapsed + op.left <= Deadline)
      OBVIOUS
    <2>1. op.left \in Nat \cup {-1} /\ op.left # -1 /\ (op.left = 0 \/ elapsed + op.left <= Deadline)
      BY TimeTypes DEF IoInv, IoTypes, Calls, InTime
    <2> QED BY <2>1
  <1>3. IoInv /\ InTime /\ [IoNext]_ioVars =>
          InTime' /\ [TimesOutNow => Deadline >= 0 /\ elapsed > Smallest - Milli]_ioVars
    BY <1>1 DEF Late
  <1> QED BY IoAlways, TimeInit, <1>2, <1>3, PTL DEF IoSpec, TimeoutInTime

-----------------------------------------------------------------------------
(* usocket.c and inet.c: descriptors, and the loops over addresses.        *)

Links == {"none", "pending", "linked", "listen"}
Errs == {"none", "failed", "timeout", "closed"}
Kernels == [family: Families, nb: BOOLEAN, bound: BOOLEAN, link: Links]
Works == [sock: Socket \cup {Invalid}, family: Families, cur: Families,
          fd: [Socket -> Kernels], err: Errs, over: BOOLEAN]

\* A table of descriptors in which those of Z are as they were, and at most s is
\* open besides.
TableIs(t, Z, s) ==
  /\ t \in [Socket -> Kernels] /\ s \in Socket \cup {Invalid}
  /\ \A d \in Z : d \in Socket /\ t[d] = socks[d] /\ t[d].family # "unspec"
  /\ \A d \in Socket : t[d].family # "unspec" => d \in Z \/ d = s
  /\ s # Invalid => s \notin Z /\ t[s].family # "unspec"

WorkIs(w, Z) == w \in Works /\ TableIs(w.fd, Z, w.sock)
Same(w, v) == w.family = v.family /\ w.cur = v.cur /\ w.over = v.over

LEMMA NoSocket == Invalid \notin Socket
  BY SocketAssumption DEF Invalid

LEMMA BecomesIs ==
  ASSUME NEW Z, NEW w, WorkIs(w, Z), w.sock # Invalid, NEW s \in Kernels, s.family = w.fd[w.sock].family
  PROVE  /\ WorkIs(Becomes(w, s), Z) /\ Same(Becomes(w, s), w)
         /\ Becomes(w, s).sock = w.sock /\ Becomes(w, s).err = w.err
         /\ Becomes(w, s).fd[w.sock] = s
  <1> DEFINE t == [w.fd EXCEPT ![w.sock] = s]
             v == Becomes(w, s)
  <1>1. w \in Works /\ w.sock \in Socket /\ w.fd \in [Socket -> Kernels]
    BY DEF WorkIs, Works
  <1>2. t \in [Socket -> Kernels] /\ t[w.sock] = s /\ \A d \in Socket : d # w.sock => t[d] = w.fd[d]
    BY <1>1
  <1>3. v = [w EXCEPT !.fd = t]
    BY DEF Becomes
  <1> HIDE DEF t, v
  <1>4. v \in Works /\ v.fd = t /\ v.sock = w.sock /\ v.err = w.err /\ v.family = w.family
        /\ v.cur = w.cur /\ v.over = w.over
    BY <1>1, <1>2, <1>3 DEF Works
  <1>5. TableIs(t, Z, w.sock)
    BY <1>1, <1>2 DEF WorkIs, TableIs
  <1>6. WorkIs(v, Z) /\ Same(v, w) /\ v.sock = w.sock /\ v.err = w.err /\ v.fd[w.sock] = s
    BY <1>2, <1>4, <1>5 DEF WorkIs, Same
  <1> QED BY <1>6 DEF v

LEMMA UnusedIs == Unused \in Kernels /\ Unused.family = "unspec"
  BY DEF Unused, Kernels, Links, Families

LEMMA DestroyIs ==
  ASSUME NEW Z, NEW w, WorkIs(w, Z)
  PROVE  /\ WorkIs(socket_destroy(w), Z) /\ Same(socket_destroy(w), w)
         /\ socket_destroy(w).sock = Invalid /\ socket_destroy(w).err = w.err
  <1>1. w \in Works /\ w.sock \in Socket \cup {Invalid} /\ w.fd \in [Socket -> Kernels]
    BY DEF WorkIs, Works
  <1>2. CASE w.sock = Invalid
    BY <1>2 DEF socket_destroy, Same
  <1>3. CASE w.sock # Invalid
    <2> DEFINE t == [w.fd EXCEPT ![w.sock] = Unused]
               v == socket_destroy(w)
    <2>1. t \in [Socket -> Kernels] /\ t[w.sock].family = "unspec" /\ \A d \in Socket : d # w.sock => t[d] = w.fd[d]
      BY <1>1, <1>3, UnusedIs
    <2>2. v = [[w EXCEPT !.fd = t] EXCEPT !.sock = Invalid]
      BY <1>3 DEF socket_destroy, Becomes
    <2> HIDE DEF t, v
    <2>3. v \in Works /\ v.fd = t /\ v.sock = Invalid /\ v.err = w.err /\ v.family = w.family
          /\ v.cur = w.cur /\ v.over = w.over
      BY <1>1, <2>1, <2>2 DEF Works
    <2>4. TableIs(t, Z, Invalid)
      BY <1>1, <1>3, <2>1 DEF WorkIs, TableIs
    <2>5. WorkIs(v, Z) /\ Same(v, w) /\ v.sock = Invalid /\ v.err = w.err
      BY <2>3, <2>4 DEF WorkIs, Same
    <2> QED BY <2>5 DEF v
  <1> QED BY <1>2, <1>3

\* A descriptor that is new has the lowest number that no other has.
IsNew(c, family) == c.sock # Invalid /\ c.fd[c.sock] = [Unused EXCEPT !.family = family]

LEMMA CreateIs ==
  ASSUME NEW Z, NEW w \in Works, TableIs(w.fd, Z, Invalid), NEW family \in Families \ {"unspec"}, NEW made,
         NEW c, c = socket_create(w, family, made)
  PROVE  /\ WorkIs(c, Z) /\ Same(c, w)
         /\ c.err = "none" => IsNew(c, family)
         /\ c.err # "none" => c.sock = Invalid
         /\ made /\ Unopened(w.fd) # {} => c.err = "none"
  <1>1. w \in Works /\ w.fd \in [Socket -> Kernels] /\ TableIs(w.fd, Z, Invalid)
    BY DEF Works
  <1>2. CASE made /\ Unopened(w.fd) # {}
    <2> DEFINE d == Lowest(w.fd)
               s == [Unused EXCEPT !.family = family]
               t == [w.fd EXCEPT ![d] = s]
               v == [w EXCEPT !.sock = d, !.err = "none"]
    <2>1. d \in Unopened(w.fd)
      <3> DEFINE free == Unopened(w.fd)
      <3>1. free \in SUBSET Nat /\ free # {}
        BY <1>2, SocketAssumption DEF Unopened
      <3>2. \E m \in free : \A n \in free : m <= n
        <4> HIDE DEF free
        <4> QED BY <3>1, LeastNatural
      <3> QED BY <3>2 DEF Lowest
    <2>2. d \in Socket /\ w.fd[d].family = "unspec" /\ d # Invalid
      BY <2>1, NoSocket DEF Unopened
    <2>3. s \in Kernels /\ s.family = family
      BY UnusedIs DEF Kernels
    <2>4. c = [v EXCEPT !.fd = [v.fd EXCEPT ![v.sock] = s]]
      BY <1>2 DEF socket_create, Becomes
    <2> HIDE DEF d, s
    <2>5. v \in Works /\ v.sock = d /\ v.fd = w.fd /\ v.err = "none" /\ v.family = w.family /\ v.cur = w.cur
          /\ v.over = w.over
      BY <1>1, <2>2 DEF Works, Errs
    <2>6. t \in [Socket -> Kernels] /\ t[d] = s /\ \A e \in Socket : e # d => t[e] = w.fd[e]
      BY <1>1, <2>2, <2>3
    <2> HIDE DEF v
    <2>7. c = [v EXCEPT !.fd = t]
      BY <2>4, <2>5
    <2> HIDE DEF t
    <2>8. c \in Works /\ c.fd = t /\ c.sock = d /\ c.err = "none" /\ c.family = w.family
          /\ c.cur = w.cur /\ c.over = w.over
      BY <2>5, <2>6, <2>7 DEF Works
    <2>9. TableIs(t, Z, d)
      <3>1. d \notin Z /\ t[d].family # "unspec"
        BY <1>1, <2>2, <2>3, <2>6 DEF TableIs
      <3>2. \A e \in Z : e \in Socket /\ e # d /\ t[e] = w.fd[e]
        BY <1>1, <2>6, <3>1 DEF TableIs
      <3>3. \A e \in Z : t[e] = socks[e] /\ t[e].family # "unspec"
        BY <1>1, <3>2 DEF TableIs
      <3>4. \A e \in Socket : t[e].family # "unspec" => e \in Z \/ e = d
        BY <1>1, <2>6, NoSocket DEF TableIs
      <3> QED BY <2>2, <2>6, <3>1, <3>2, <3>3, <3>4 DEF TableIs
    <2> QED BY <2>2, <2>6, <2>8, <2>9 DEF WorkIs, Same, IsNew, s
  <1>3. CASE ~(made /\ Unopened(w.fd) # {})
    <2>1. c = [w EXCEPT !.sock = Invalid, !.err = "failed"]
      BY <1>3 DEF socket_create
    <2>2. c \in Works /\ c.fd = w.fd /\ c.sock = Invalid /\ c.err = "failed" /\ c.family = w.family
          /\ c.cur = w.cur /\ c.over = w.over
      BY <1>1, <2>1 DEF Works, Errs
    <2> QED BY <1>1, <1>3, <2>2 DEF WorkIs, Same
  <1> QED BY <1>2, <1>3

\* What holds of the work while the addresses are tried, one after the other: h is
\* the family that was asked for, s the descriptor that the object had.
Trying(w, Z, h, s) ==
  /\ WorkIs(w, Z)
  /\ w.sock # Invalid =>
       LET k == w.fd[w.sock]
       IN /\ k.nb
          /\ w.cur \in {k.family, "unspec"} /\ w.family \in {k.family, "unspec"}
          /\ k.bound => w.family = k.family /\ w.cur = k.family /\ (w.over \/ h = k.family)
  /\ w.over \/ w.family \in {"unspec", h}
  /\ s # Invalid /\ socks[s].bound => w.sock = s /\ w.fd[s].bound

\* The socket for an address is the one that was there, or a new one.
FitsFor(f, w, Z, a) ==
  /\ WorkIs(f, Z) /\ f.family = w.family /\ f.over = w.over
  /\ f.err # "none" => f.sock = Invalid /\ f.cur \in Families
  /\ f.err = "none" => f.sock # Invalid /\ f.cur = a.family
  /\ \/ w.cur = a.family /\ w.sock # Invalid /\ f.sock = w.sock /\ f.fd = w.fd /\ f.err = "none"
     \/ /\ w.cur # a.family \/ w.sock = Invalid
        /\ f.err = "none" => IsNew(f, a.family)

LEMMA FittingIs ==
  ASSUME NEW Z, NEW w, WorkIs(w, Z), NEW a \in Attempts
  PROVE  FitsFor(Fitting(w, a), w, Z, a)
  <1> DEFINE f == Fitting(w, a)
  <1>0. a.family \in Inet /\ Inet \subseteq Families \ {"unspec"} /\ w \in Works
    BY DEF Attempts, Inet, Families, WorkIs
  <1>1. CASE w.cur # a.family \/ w.sock = Invalid
    <2> DEFINE e == socket_destroy(w)
               c == socket_create(e, a.family, a.made)
    <2>1. WorkIs(e, Z) /\ Same(e, w) /\ e.sock = Invalid
      BY DestroyIs
    <2>2. f = IF c.err = "none" THEN [c EXCEPT !.cur = a.family] ELSE c
      BY <1>1 DEF Fitting, inet_trycreate
    <2> HIDE DEF e
    <2>3. WorkIs(c, Z) /\ Same(c, e) /\ (c.err = "none" => IsNew(c, a.family))
          /\ (c.err # "none" => c.sock = Invalid)
      BY <1>0, <2>1, CreateIs DEF WorkIs
    <2> HIDE DEF c, f
    <2>4. c \in Works /\ c.family = w.family /\ c.over = w.over
      BY <2>1, <2>3 DEF WorkIs, Same
    <2>5. CASE c.err = "none"
      <3>1. f = [c EXCEPT !.cur = a.family]
        BY <2>2, <2>5
      <3>2. f \in Works /\ f.fd = c.fd /\ f.sock = c.sock /\ f.err = "none" /\ f.family = w.family
            /\ f.cur = a.family /\ f.over = w.over
        BY <1>0, <2>4, <2>5, <3>1 DEF Works
      <3>3. WorkIs(f, Z) /\ IsNew(f, a.family)
        BY <2>3, <2>5, <3>2 DEF WorkIs, IsNew
      <3>4. FitsFor(f, w, Z, a)
        BY <1>1, <3>2, <3>3 DEF FitsFor, IsNew
      <3> QED BY <3>4 DEF f
    <2>6. CASE c.err # "none"
      <3>1. f = c /\ f.cur \in Families
        BY <2>2, <2>4, <2>6 DEF Works
      <3>2. FitsFor(f, w, Z, a)
        BY <1>1, <2>3, <2>4, <2>6, <3>1 DEF FitsFor
      <3> QED BY <3>2 DEF f
    <2> QED BY <2>5, <2>6
  <1>2. CASE ~(w.cur # a.family \/ w.sock = Invalid)
    <2>1. f = [w EXCEPT !.err = "none"]
      BY <1>2 DEF Fitting
    <2> HIDE DEF f
    <2>2. f \in Works /\ f.fd = w.fd /\ f.sock = w.sock /\ f.err = "none" /\ f.family = w.family
          /\ f.cur = w.cur /\ f.over = w.over
      BY <1>0, <2>1 DEF Works, Errs
    <2>3. FitsFor(f, w, Z, a)
      BY <1>2, <2>2 DEF FitsFor, WorkIs
    <2> QED BY <2>3 DEF f
  <1> QED BY <1>1, <1>2

\* The descriptor of the work is as new, or as it was.
LEMMA FitsIs ==
  ASSUME NEW Z, NEW w, NEW h, NEW s, Trying(w, Z, h, s), ~w.over, NEW a \in Resolved(h),
         NEW f, FitsFor(f, w, Z, a)
  PROVE  /\ f.err # "none" => Trying(f, Z, h, s)
         /\ f.err = "none" =>
              LET k == f.fd[f.sock]
              IN /\ k \in Kernels /\ k.family = a.family
                 /\ k.nb \/ IsNew(f, a.family)
                 /\ k.bound => f.family = a.family /\ h = a.family
                 /\ f.family \in {"unspec", a.family}
                 /\ s # Invalid /\ socks[s].bound => f.sock = s /\ k.bound
  <1>1. a.family \in Inet /\ h \in {"unspec", a.family} /\ "unspec" \notin Inet
    BY DEF Resolved, Attempts, Inet
  <1>2. w \in Works /\ f \in Works /\ f.family = w.family /\ w.family \in {"unspec", h} /\ ~f.over
        /\ w.family \in {"unspec", a.family}
    BY <1>1 DEF Trying, FitsFor, WorkIs
  <1>3. s # Invalid /\ socks[s].bound => w.cur = a.family /\ w.sock # Invalid
    <2> HAVE s # Invalid /\ socks[s].bound
    <2>1. w.sock = s /\ w.fd[s].bound
      BY DEF Trying
    <2>2. w.fd[s].family # "unspec"
      BY <2>1 DEF Trying, WorkIs, TableIs
    <2>3. w.cur = w.fd[s].family /\ h = w.fd[s].family
      BY <2>1 DEF Trying
    <2> QED BY <1>1, <2>1, <2>2, <2>3
  <1>4. CASE f.err # "none"
    <2>1. f.sock = Invalid /\ WorkIs(f, Z) /\ ~(s # Invalid /\ socks[s].bound)
      BY <1>3, <1>4 DEF FitsFor
    <2> QED BY <1>2, <1>4, <2>1 DEF Trying
  <1>5. CASE f.err = "none"
    <2> DEFINE k == f.fd[f.sock]
    <2>1. f.sock # Invalid /\ f.sock \in Socket /\ f.fd \in [Socket -> Kernels]
      BY <1>2, <1>5 DEF FitsFor, Works
    <2>2. k \in Kernels
      BY <2>1
    <2>3. CASE w.cur = a.family /\ w.sock # Invalid /\ f.sock = w.sock /\ f.fd = w.fd
      <3>1. k = w.fd[w.sock] /\ k.family # "unspec"
        BY <2>3 DEF Trying, WorkIs, TableIs
      <3>2. k.nb /\ w.cur \in {k.family, "unspec"}
            /\ (k.bound => w.family = k.family /\ h = k.family)
        BY <2>3, <3>1 DEF Trying
      <3>3. k.family = a.family
        BY <1>1, <2>3, <3>2
      <3>4. s # Invalid /\ socks[s].bound => f.sock = s /\ k.bound
        BY <2>3 DEF Trying
      <3> HIDE DEF k
      <3>5. /\ k \in Kernels /\ k.family = a.family
            /\ k.nb \/ IsNew(f, a.family)
            /\ k.bound => f.family = a.family /\ h = a.family
            /\ f.family \in {"unspec", a.family}
            /\ s # Invalid /\ socks[s].bound => f.sock = s /\ k.bound
        BY <1>2, <2>2, <3>2, <3>3, <3>4
      <3> QED BY <1>5, <3>5 DEF k
    <2>4. CASE (w.cur # a.family \/ w.sock = Invalid) /\ IsNew(f, a.family)
      <3>1. k = [Unused EXCEPT !.family = a.family]
        BY <2>4 DEF IsNew
      <3>2. k.family = a.family /\ ~k.bound
        BY <3>1 DEF Unused
      <3>3. ~(s # Invalid /\ socks[s].bound)
        BY <1>3, <2>4
      <3> HIDE DEF k
      <3>4. /\ k \in Kernels /\ k.family = a.family
            /\ k.nb \/ IsNew(f, a.family)
            /\ k.bound => f.family = a.family /\ h = a.family
            /\ f.family \in {"unspec", a.family}
            /\ s # Invalid /\ socks[s].bound => f.sock = s /\ k.bound
        BY <1>2, <2>2, <2>4, <3>2, <3>3
      <3> QED BY <1>5, <3>4 DEF k
    <2> QED BY <1>5, <2>3, <2>4 DEF FitsFor
  <1> QED BY <1>4, <1>5

\* A connect, on a descriptor that is open: only what it is linked to may change.
LEMMA ConnectIs ==
  ASSUME NEW Z, NEW g, WorkIs(g, Z), g.sock # Invalid, NEW isStream \in BOOLEAN,
         NEW res \in {"done", "timeout", "failed"}, NEW c, c = socket_connect(g, isStream, res)
  PROVE  /\ WorkIs(c, Z) /\ Same(c, g) /\ c.sock = g.sock
         /\ c.fd[c.sock].nb = g.fd[g.sock].nb /\ c.fd[c.sock].family = g.fd[g.sock].family
         /\ c.fd[c.sock].bound = g.fd[g.sock].bound
  <1> DEFINE old == g.fd[g.sock]
  <1>0. g \in Works /\ old \in Kernels
    BY DEF WorkIs, Works
  <1>1. CASE isStream /\ old.link \in {"linked", "listen"}
    <2>1. c = [g EXCEPT !.err = "failed"]
      BY <1>1 DEF socket_connect
    <2>2. c \in Works /\ c.fd = g.fd /\ c.sock = g.sock /\ c.cur = g.cur /\ c.family = g.family
          /\ c.over = g.over
      BY <1>0, <2>1 DEF Works, Errs
    <2> QED BY <2>2 DEF WorkIs, Same
  <1>2. CASE ~(isStream /\ old.link \in {"linked", "listen"})
    <2> DEFINE err == IF res = "done" THEN "none" ELSE res
               b == [g EXCEPT !.err = err]
               link == IF res = "done" THEN "linked"
                       ELSE IF res = "timeout" /\ isStream THEN "pending" ELSE old.link
               l == [old EXCEPT !.link = link]
    <2>1. c = Becomes(b, l)
      BY <1>2 DEF socket_connect
    <2>2. old \in Kernels /\ old = g.fd[g.sock]
      BY <1>0
    <2> HIDE DEF old
    <2>3. link \in Links
      BY <2>2 DEF Kernels, Links
    <2> HIDE DEF link
    <2>4. l \in Kernels /\ l.nb = old.nb /\ l.family = old.family /\ l.bound = old.bound
      BY <2>2, <2>3 DEF Kernels
    <2>5. err \in Errs
      BY DEF Errs
    <2> HIDE DEF err, l
    <2>6. b \in Works /\ b.fd = g.fd /\ b.sock = g.sock /\ b.cur = g.cur /\ b.family = g.family
          /\ b.over = g.over
      BY <1>0, <2>5 DEF Works
    <2> HIDE DEF b
    <2>7. WorkIs(b, Z) /\ b.sock # Invalid /\ l.family = b.fd[b.sock].family
      BY <2>2, <2>4, <2>6 DEF WorkIs
    <2>8. WorkIs(c, Z) /\ Same(c, b) /\ c.sock = b.sock /\ c.fd[b.sock] = l
      BY <2>1, <2>4, <2>7, BecomesIs
    <2> QED BY <2>2, <2>4, <2>6, <2>8 DEF Same
  <1> QED BY <1>1, <1>2

\* One address more, in the loop of inet_tryconnect.
LEMMA TryConnectIs ==
  ASSUME NEW Z, NEW w, NEW h, NEW s, Trying(w, Z, h, s), NEW a \in Resolved(h),
         NEW isStream \in BOOLEAN, NEW zero \in BOOLEAN
  PROVE  Trying(TryConnect(w, a, isStream, zero), Z, h, s)
  <1>0. a \in Attempts
    BY DEF Resolved
  <1> DEFINE f == Fitting(w, a)
             new == w.cur # a.family \/ w.sock = Invalid
             g == IF new THEN socket_setnonblocking(f) ELSE f
             c == socket_connect(g, isStream, a.res)
             v == TryConnect(w, a, isStream, zero)
  <1>1. CASE w.over
    BY <1>1 DEF TryConnect
  <1>2. CASE ~w.over
    <2>1. v = IF f.err # "none" THEN f
              ELSE IF c.err = "none" \/ zero THEN [c EXCEPT !.family = c.cur, !.over = TRUE] ELSE c
      BY <1>2 DEF TryConnect
    <2>2. FitsFor(f, w, Z, a)
      BY <1>0, FittingIs DEF Trying
    <2> HIDE DEF f, v
    <2>3. CASE f.err # "none"
      <3>1. Trying(f, Z, h, s)
        BY <1>2, <2>2, <2>3, FitsIs
      <3> QED BY <2>1, <2>3, <3>1 DEF v
    <2>4. CASE f.err = "none"
      <3> DEFINE k == f.fd[f.sock]
      <3>1. /\ k \in Kernels /\ k.family = a.family
            /\ k.nb \/ IsNew(f, a.family)
            /\ k.bound => f.family = a.family /\ h = a.family
            /\ f.family \in {"unspec", a.family}
            /\ s # Invalid /\ socks[s].bound => f.sock = s /\ k.bound
        BY <1>2, <2>2, <2>4, FitsIs
      <3>2. WorkIs(f, Z) /\ f.sock # Invalid /\ f.cur = a.family /\ f.over = w.over
        BY <2>2, <2>4 DEF FitsFor
      <3>3. WorkIs(g, Z) /\ g.sock = f.sock /\ g.cur = a.family /\ g.family = f.family /\ ~g.over
            /\ g.fd[g.sock].nb /\ g.fd[g.sock].family = a.family /\ g.fd[g.sock].bound = k.bound
            /\ g.fd[g.sock] \in Kernels
        <4>1. CASE new
          <5> DEFINE l == [k EXCEPT !.nb = TRUE]
          <5>1. l \in Kernels /\ l.family = k.family /\ l.nb /\ l.bound = k.bound
            BY <3>1 DEF Kernels
          <5>2. g = Becomes(f, l)
            BY <4>1 DEF socket_setnonblocking
          <5> HIDE DEF l, g
          <5>3. WorkIs(g, Z) /\ Same(g, f) /\ g.sock = f.sock /\ g.fd[f.sock] = l
            BY <3>2, <5>1, <5>2, BecomesIs
          <5> QED BY <1>2, <3>1, <3>2, <5>1, <5>3 DEF Same
        <4>2. CASE ~new
          <5>1. g = f /\ f.sock = w.sock /\ f.fd = w.fd /\ w.sock # Invalid
            BY <2>2, <4>2 DEF FitsFor
          <5>2. k.nb
            BY <5>1 DEF Trying
          <5> QED BY <1>2, <3>1, <3>2, <5>1, <5>2
        <4> QED BY <4>1, <4>2
      <3> HIDE DEF g, k
      <3>4. g \in Works
        BY <3>3 DEF WorkIs
      <3>5. /\ WorkIs(c, Z) /\ c.sock = f.sock /\ c.cur = a.family /\ c.family = f.family /\ ~c.over
            /\ c.fd[c.sock].nb /\ c.fd[c.sock].family = a.family /\ c.fd[c.sock].bound = k.bound
        <4>1. a.res \in {"done", "timeout", "failed"} /\ g.sock # Invalid
          BY <1>0, <3>2, <3>3 DEF Attempts
        <4> HIDE DEF c
        <4>2. /\ WorkIs(c, Z) /\ Same(c, g) /\ c.sock = g.sock
              /\ c.fd[c.sock].nb = g.fd[g.sock].nb /\ c.fd[c.sock].family = g.fd[g.sock].family
              /\ c.fd[c.sock].bound = g.fd[g.sock].bound
          <5> DEFINE r == a.res
          <5>1. WorkIs(g, Z) /\ g.sock # Invalid /\ c = socket_connect(g, isStream, r)
                /\ r \in {"done", "timeout", "failed"} /\ isStream \in BOOLEAN
            BY <3>3, <4>1 DEF c
          <5> HIDE DEF r
          <5> QED BY ONLY <5>1, ConnectIs
        <4> QED BY <3>3, <4>2 DEF Same
      <3> HIDE DEF c
      <3>6. CASE c.err = "none" \/ zero
        <4>1. v = [c EXCEPT !.family = c.cur, !.over = TRUE]
          BY <2>1, <2>4, <3>6
        <4>2. c \in Works
          BY <3>5 DEF WorkIs
        <4>3. v \in Works /\ v.fd = c.fd /\ v.sock = c.sock /\ v.cur = c.cur /\ v.family = c.cur /\ v.over = TRUE
          BY <4>1, <4>2 DEF Works
        <4>4. WorkIs(v, Z)
          BY <3>5, <4>3 DEF WorkIs
        <4>5. Trying(v, Z, h, s)
          BY <3>1, <3>5, <4>3, <4>4 DEF Trying
        <4> QED BY <4>5 DEF v
      <3>7. CASE ~(c.err = "none" \/ zero)
        <4>1. v = c
          BY <2>1, <2>4, <3>7
        <4>2. h \in {"unspec", a.family}
          BY DEF Resolved
        <4>3. c.family \in {"unspec", h}
          BY <1>2, <2>2, <3>5 DEF FitsFor, Trying
        <4>4. Trying(c, Z, h, s)
          BY <3>1, <3>5, <4>3 DEF Trying
        <4> QED BY <4>1, <4>4 DEF v
      <3> QED BY <3>6, <3>7
    <2> QED BY <2>3, <2>4
  <1> QED BY <1>1, <1>2

\* A bind, on a descriptor that is open.
LEMMA BindIs ==
  ASSUME NEW Z, NEW f, WorkIs(f, Z), f.sock # Invalid, NEW res,
         NEW b, b = socket_bind(f, res)
  PROVE  /\ WorkIs(b, Z) /\ Same(b, f) /\ b.sock = f.sock
         /\ b.fd[b.sock].nb /\ b.fd[b.sock].family = f.fd[f.sock].family
         /\ f.fd[f.sock].bound => b.fd[b.sock].bound
         /\ b.err # "none" => b.fd[b.sock].bound = f.fd[f.sock].bound
  <1> DEFINE old == f.fd[f.sock]
             good == res = "done" /\ ~old.bound
             e == [f EXCEPT !.err = IF good THEN "none" ELSE "failed"]
             l == [old EXCEPT !.nb = TRUE, !.bound = old.bound \/ good]
  <1>1. f \in Works /\ f.sock \in Socket /\ old \in Kernels /\ old.family # "unspec"
    BY DEF WorkIs, Works, TableIs
  <1>2. b = Becomes(e, l)
    BY <1>1 DEF socket_bind, IsOpen
  <1> HIDE DEF old
  <1>3. good \in BOOLEAN /\ old.bound \in BOOLEAN
    BY <1>1 DEF Kernels
  <1> HIDE DEF good
  <1>4. /\ l \in Kernels /\ l.nb /\ l.family = old.family
        /\ (old.bound => l.bound) /\ (~good => l.bound = old.bound)
    BY <1>1, <1>3 DEF Kernels
  <1>5. /\ e \in Works /\ e.fd = f.fd /\ e.sock = f.sock /\ e.cur = f.cur /\ e.family = f.family
        /\ e.over = f.over /\ (e.err # "none" => ~good)
    BY <1>1 DEF Works, Errs
  <1> HIDE DEF e, l
  <1>6. WorkIs(e, Z) /\ e.sock # Invalid /\ l.family = e.fd[e.sock].family
    BY <1>4, <1>5 DEF WorkIs, old
  <1>7. WorkIs(b, Z) /\ Same(b, e) /\ b.sock = e.sock /\ b.err = e.err /\ b.fd[e.sock] = l
    BY <1>2, <1>4, <1>6, BecomesIs
  <1>8. b.fd[b.sock] = l /\ b.sock = f.sock /\ Same(b, f) /\ f.fd[f.sock] = old
    BY <1>5, <1>7 DEF Same, old
  <1> QED BY <1>4, <1>5, <1>7, <1>8

\* One address more, in the loop of inet_trybind.
LEMMA TryBindIs ==
  ASSUME NEW Z, NEW w, NEW h, NEW s, Trying(w, Z, h, s), NEW a \in Resolved(h)
  PROVE  Trying(TryBind(w, a), Z, h, s)
  <1>0. a \in Attempts
    BY DEF Resolved
  <1> DEFINE f == Fitting(w, a)
             b == socket_bind(f, a.res)
             v == TryBind(w, a)
  <1>1. CASE w.over
    BY <1>1 DEF TryBind
  <1>2. CASE ~w.over
    <2>1. v = IF f.err # "none" THEN f
              ELSE IF b.err = "none" THEN [b EXCEPT !.family = b.cur, !.over = TRUE] ELSE b
      BY <1>2 DEF TryBind
    <2>2. FitsFor(f, w, Z, a)
      BY <1>0, FittingIs DEF Trying
    <2> HIDE DEF f, v
    <2>3. CASE f.err # "none"
      <3>1. Trying(f, Z, h, s)
        BY <1>2, <2>2, <2>3, FitsIs
      <3> QED BY <2>1, <2>3, <3>1 DEF v
    <2>4. CASE f.err = "none"
      <3> DEFINE k == f.fd[f.sock]
      <3>1. /\ k \in Kernels /\ k.family = a.family
            /\ k.nb \/ IsNew(f, a.family)
            /\ k.bound => f.family = a.family /\ h = a.family
            /\ f.family \in {"unspec", a.family}
            /\ s # Invalid /\ socks[s].bound => f.sock = s /\ k.bound
        BY <1>2, <2>2, <2>4, FitsIs
      <3>2. WorkIs(f, Z) /\ f.sock # Invalid /\ f.cur = a.family /\ f.over = w.over /\ f.family = w.family
        BY <2>2, <2>4 DEF FitsFor
      <3>3. /\ WorkIs(b, Z) /\ Same(b, f) /\ b.sock = f.sock
            /\ b.fd[b.sock].nb /\ b.fd[b.sock].family = k.family
            /\ k.bound => b.fd[b.sock].bound
            /\ b.err # "none" => b.fd[b.sock].bound = k.bound
        <4> HIDE DEF b
        <4> QED BY <3>2, BindIs DEF b
      <3> HIDE DEF b, k
      <3>5. b.cur = a.family /\ b.family = f.family /\ ~b.over /\ b.fd[b.sock].family = a.family
        BY <1>2, <3>1, <3>2, <3>3 DEF Same
      <3>6. CASE b.err = "none"
        <4>1. v = [b EXCEPT !.family = b.cur, !.over = TRUE]
          BY <2>1, <2>4, <3>6
        <4>2. b \in Works
          BY <3>3 DEF WorkIs
        <4>3. v \in Works /\ v.fd = b.fd /\ v.sock = b.sock /\ v.cur = b.cur /\ v.family = b.cur /\ v.over = TRUE
          BY <4>1, <4>2 DEF Works
        <4>4. WorkIs(v, Z)
          BY <3>3, <4>3 DEF WorkIs
        <4>5. Trying(v, Z, h, s)
          BY <3>1, <3>3, <3>5, <4>3, <4>4 DEF Trying
        <4> QED BY <4>5 DEF v
      <3>7. CASE b.err # "none"
        <4>1. v = b
          BY <2>1, <2>4, <3>7
        <4>2. b.family \in {"unspec", h}
          BY <1>2, <3>2, <3>5 DEF Trying
        <4>3. Trying(b, Z, h, s)
          BY <3>1, <3>3, <3>5, <3>7, <4>2 DEF Trying
        <4> QED BY <4>1, <4>3 DEF v
      <3> QED BY <3>6, <3>7
    <2> QED BY <2>3, <2>4
  <1> QED BY <1>1, <1>2

-----------------------------------------------------------------------------
\* Any loop that goes from good works to good works, with what holds of them as a
\* set: there is a function that the definition of such a loop names.
Goes(f, Good, w, N, Move) ==
  /\ f \in [0 .. N -> SUBSET Good]
  /\ f[0] = {w} /\ \A n \in 1 .. N : f[n] = Move[f[n - 1]]

LEMMA SetsExist ==
  ASSUME NEW Good, NEW w \in Good, NEW N \in Nat, NEW Move \in [SUBSET Good -> SUBSET Good]
  PROVE  \E f : Goes(f, Good, w, N, Move)
  <1> DEFINE X == SUBSET Good
             G == [n \in 1 .. N |-> Move]
             start == {w}
  <1>1. start \in X /\ G \in [1 .. N -> [X -> X]]
    OBVIOUS
  <1>2. \A n \in 1 .. N : G[n] = Move
    OBVIOUS
  <1> HIDE DEF X, G, start
  <1>3. PICK f \in [0 .. N -> X] : f[0] = start /\ \A n \in 1 .. N : f[n] = G[n][f[n - 1]]
    BY <1>1, LoopExists
  <1>4. \A n \in 1 .. N : f[n] = Move[f[n - 1]]
    BY <1>2, <1>3
  <1> QED BY <1>3, <1>4 DEF X, start, Goes

LEMMA ConnectLoop ==
  ASSUME NEW Z, NEW w, NEW h, NEW s, Trying(w, Z, h, s), NEW isStream \in BOOLEAN, NEW zero \in BOOLEAN,
         NEW v \in inet_tryconnect(w, h, isStream, zero)
  PROVE  Trying(v, Z, h, s)
  <1> DEFINE Good == {x \in Works : Trying(x, Z, h, s)}
             N == Addresses
             Tries(T) == {TryConnect(x, a, isStream, zero) : x \in T, a \in Resolved(h)}
             R(f) == [n \in 0 .. Addresses |-> IF n = 0 THEN {w} ELSE Tries(f[n - 1])]
             k == CHOOSE f : f = R(f)
             Move == [T \in SUBSET Good |-> Tries(T)]
  <1>1. \A x : Trying(x, Z, h, s) => x \in Good
    BY DEF Trying, WorkIs
  <1>2. \A T \in SUBSET Good : Tries(T) \in SUBSET Good
    <2> SUFFICES ASSUME NEW T \in SUBSET Good, NEW x \in T, NEW a \in Resolved(h)
                 PROVE  TryConnect(x, a, isStream, zero) \in Good
      OBVIOUS
    <2>1. Trying(x, Z, h, s)
      OBVIOUS
    <2> HIDE DEF Good
    <2> QED BY <1>1, <2>1, TryConnectIs
  <1>3. w \in Good /\ N \in Nat
    BY <1>1, SocketAssumption
  <1> HIDE DEF Good
  <1>4. Move \in [SUBSET Good -> SUBSET Good] /\ \A T \in SUBSET Good : Move[T] = Tries(T)
    BY <1>2
  <1> HIDE DEF Tries, Move
  <1>5. PICK f \in [0 .. N -> SUBSET Good] : f[0] = {w} /\ \A n \in 1 .. N : f[n] = Move[f[n - 1]]
    <2>1. Move \in [SUBSET Good -> SUBSET Good] /\ w \in Good /\ N \in Nat
      BY <1>3, <1>4
    <2> HIDE DEF N, R, k
    <2>2. \E f : Goes(f, Good, w, N, Move)
      BY ONLY <2>1, SetsExist
    <2> QED BY <2>2 DEF Goes
  <1>6. \A n \in 1 .. N : f[n] = Tries(f[n - 1])
    BY <1>3, <1>4, <1>5
  <1>7. f = R(f)
    <2>1. f = [n \in 0 .. N |-> f[n]]
      OBVIOUS
    <2>2. \A n \in 0 .. N : R(f)[n] = f[n]
      BY <1>3, <1>5, <1>6
    <2>3. R(f) = [n \in 0 .. N |-> R(f)[n]]
      OBVIOUS
    <2> HIDE DEF R
    <2> QED BY <2>1, <2>2, <2>3
  <1>8. k = R(k)
    <2> HIDE DEF R
    <2> QED BY <1>7
  <1>9. \A n \in 0 .. N : k[n] = IF n = 0 THEN {w} ELSE Tries(k[n - 1])
    <2>1. \A n \in 0 .. N : R(k)[n] = IF n = 0 THEN {w} ELSE Tries(k[n - 1])
      OBVIOUS
    <2> HIDE DEF R, k
    <2> QED BY <1>8, <2>1
  <1>10. inet_tryconnect(w, h, isStream, zero) = UNION {k[n] : n \in 1 .. Addresses}
    BY DEF inet_tryconnect, Tries
  <1> HIDE DEF k
  <1>11. ASSUME NEW m \in 1 .. N PROVE k[m] \in SUBSET Good
    <2> DEFINE S == {n \in 0 .. N : k[n] \in SUBSET Good}
    <2>1. 0 \in S
      BY <1>3, <1>9
    <2>2. \A n \in 0 .. m - 1 : n \in S => n + 1 \in S
      <3> TAKE n \in 0 .. m - 1
      <3> HAVE n \in S
      <3>1. n + 1 \in 0 .. N /\ n + 1 # 0 /\ (n + 1) - 1 = n
        BY <1>3
      <3>2. k[n + 1] = Tries(k[n])
        BY <1>9, <3>1
      <3> QED BY <1>2, <3>1, <3>2
    <2>3. m \in Nat
      BY <1>3
    <2>4. m \in S
      <3> HIDE DEF S
      <3> QED BY <2>1, <2>2, <2>3, SetInduction
    <2> QED BY <2>4
  <1>12. v \in Good
    BY <1>10, <1>11
  <1> QED BY <1>12 DEF Good

LEMMA BindLoop ==
  ASSUME NEW Z, NEW w, NEW h, NEW s, Trying(w, Z, h, s), NEW v \in inet_trybind(w, h)
  PROVE  Trying(v, Z, h, s)
  <1> DEFINE Good == {x \in Works : Trying(x, Z, h, s)}
             N == Addresses
             Tries(T) == {TryBind(x, a) : x \in T, a \in Resolved(h)}
             R(f) == [n \in 0 .. Addresses |-> IF n = 0 THEN {w} ELSE Tries(f[n - 1])]
             k == CHOOSE f : f = R(f)
             Move == [T \in SUBSET Good |-> Tries(T)]
  <1>1. \A x : Trying(x, Z, h, s) => x \in Good
    BY DEF Trying, WorkIs
  <1>2. \A T \in SUBSET Good : Tries(T) \in SUBSET Good
    <2> SUFFICES ASSUME NEW T \in SUBSET Good, NEW x \in T, NEW a \in Resolved(h)
                 PROVE  TryBind(x, a) \in Good
      OBVIOUS
    <2>1. Trying(x, Z, h, s)
      OBVIOUS
    <2> HIDE DEF Good
    <2> QED BY <1>1, <2>1, TryBindIs
  <1>3. w \in Good /\ N \in Nat
    BY <1>1, SocketAssumption
  <1> HIDE DEF Good
  <1>4. Move \in [SUBSET Good -> SUBSET Good] /\ \A T \in SUBSET Good : Move[T] = Tries(T)
    BY <1>2
  <1> HIDE DEF Tries, Move
  <1>5. PICK f \in [0 .. N -> SUBSET Good] : f[0] = {w} /\ \A n \in 1 .. N : f[n] = Move[f[n - 1]]
    <2>1. Move \in [SUBSET Good -> SUBSET Good] /\ w \in Good /\ N \in Nat
      BY <1>3, <1>4
    <2> HIDE DEF N, R, k
    <2>2. \E f : Goes(f, Good, w, N, Move)
      BY ONLY <2>1, SetsExist
    <2> QED BY <2>2 DEF Goes
  <1>6. \A n \in 1 .. N : f[n] = Tries(f[n - 1])
    BY <1>3, <1>4, <1>5
  <1>7. f = R(f)
    <2>1. f = [n \in 0 .. N |-> f[n]]
      OBVIOUS
    <2>2. \A n \in 0 .. N : R(f)[n] = f[n]
      BY <1>3, <1>5, <1>6
    <2>3. R(f) = [n \in 0 .. N |-> R(f)[n]]
      OBVIOUS
    <2> HIDE DEF R
    <2> QED BY <2>1, <2>2, <2>3
  <1>8. k = R(k)
    <2> HIDE DEF R
    <2> QED BY <1>7
  <1>9. \A n \in 0 .. N : k[n] = IF n = 0 THEN {w} ELSE Tries(k[n - 1])
    <2>1. \A n \in 0 .. N : R(k)[n] = IF n = 0 THEN {w} ELSE Tries(k[n - 1])
      OBVIOUS
    <2> HIDE DEF R, k
    <2> QED BY <1>8, <2>1
  <1>10. inet_trybind(w, h) = UNION {k[n] : n \in 1 .. Addresses}
    BY DEF inet_trybind, Tries
  <1> HIDE DEF k
  <1>11. ASSUME NEW m \in 1 .. N PROVE k[m] \in SUBSET Good
    <2> DEFINE S == {n \in 0 .. N : k[n] \in SUBSET Good}
    <2>1. 0 \in S
      BY <1>3, <1>9
    <2>2. \A n \in 0 .. m - 1 : n \in S => n + 1 \in S
      <3> TAKE n \in 0 .. m - 1
      <3> HAVE n \in S
      <3>1. n + 1 \in 0 .. N /\ n + 1 # 0 /\ (n + 1) - 1 = n
        BY <1>3
      <3>2. k[n + 1] = Tries(k[n])
        BY <1>9, <3>1
      <3> QED BY <1>2, <3>1, <3>2
    <2>3. m \in Nat
      BY <1>3
    <2>4. m \in S
      <3> HIDE DEF S
      <3> QED BY <2>1, <2>2, <2>3, SetInduction
    <2> QED BY <2>4
  <1>12. v \in Good
    BY <1>10, <1>11
  <1> QED BY <1>12 DEF Good

-----------------------------------------------------------------------------
(* The objects of LuaSocket: every descriptor has its owner.               *)

None == <<"none", "none">>
Userdata == [class: Classes \cup {None}, sock: Socket \cup {Invalid}, family: Families]

\* What an object may rely on: f is the family that it remembers for descriptor s.
Holds(s, f, t) ==
  s # Invalid => /\ t[s].family # "unspec" /\ t[s].nb
                 /\ f \in {t[s].family, "unspec"} /\ (t[s].bound => f = t[s].family)

\* Unix sockets know what they are: they bind without a loop that would keep it.
KindIs(c, f) == c[1] \in {"unixstream", "unixdgram"} => f = "unix"

SockInv ==
  /\ obj \in [Place -> Userdata] /\ socks \in [Socket -> Kernels] /\ lost \subseteq Socket
  /\ \A o \in Place : obj[o].class = None => obj[o] = Nothing
  /\ \A o \in Place : KindIs(obj[o].class, obj[o].family)
  /\ \A o \in Place : obj[o].sock \notin lost /\ Holds(obj[o].sock, obj[o].family, socks)
  /\ \A o, p \in Place : o # p /\ obj[o].sock # Invalid => obj[o].sock # obj[p].sock
  /\ \A d \in Socket : socks[d].family # "unspec" => d \in lost \/ \E o \in Place : obj[o].sock = d
  /\ \A d \in lost : socks[d].family # "unspec"

LEMMA SocketsHold == SockInv => SocketsAreOwned
  <1> SUFFICES ASSUME SockInv PROVE SocketsAreOwned
    OBVIOUS
  <1>1. \A o \in Made : o \in Place /\ obj[o].class # None
    BY DEF Made, Vacant, None
  <1>2. \A o \in Place : o \notin Made => obj[o].sock = Invalid
    BY DEF Made, Vacant, None, SockInv, Nothing
  <1>3. SocketTypeOK
    BY DEF SocketTypeOK, SockInv, Userdata, Kernels, Links, None
  <1>4. DescriptorsHaveOneOwner
    BY <1>1, <1>2, NoSocket DEF DescriptorsHaveOneOwner, SockInv, Holds, IsOpen
  <1>5. NeverBlocks /\ FamilyIsTrue
    BY <1>1 DEF NeverBlocks, FamilyIsTrue, SockInv, Holds
  <1> QED BY <1>3, <1>4, <1>5 DEF SocketsAreOwned

\* The descriptors that are none of the object's business.
Others(o) == {d \in Socket : socks[d].family # "unspec"} \ {obj[o].sock}
Leaves(o, t, s, f) == TableIs(t, Others(o), s) /\ f \in Families /\ Holds(s, f, t)

\* A bind is not undone by what a call leaves.
KeepsIt(o, c, t, s) ==
  Bound(o) /\ obj[o].class[1] \in {"tcp", "udp"} =>
    \/ s = obj[o].sock /\ t[s].bound
    \/ s = Invalid /\ c = obj[o].class
    \/ c = None
Keeps ==
  \A o \in Made : Bound(o) /\ obj[o].class[1] \in {"tcp", "udp"} =>
    \/ obj'[o].sock = obj[o].sock /\ socks'[obj[o].sock].bound
    \/ obj'[o].sock = Invalid /\ obj'[o].class = obj[o].class
    \/ obj'[o] = Nothing

\* A call changes one object, and no descriptor of another one.
LEMMA ChangeOne ==
  ASSUME SockInv, NEW o \in Place, NEW c \in Classes \cup {None}, NEW t, NEW s, NEW f,
         Leaves(o, t, s, f), KeepsIt(o, c, t, s), c = None => s = Invalid /\ f = "unspec", KindIs(c, f),
         obj' = [obj EXCEPT ![o] = [class |-> c, sock |-> s, family |-> f]],
         socks' = t, lost' = lost
  PROVE  SockInv' /\ Keeps
  <1> DEFINE new == [class |-> c, sock |-> s, family |-> f]
  <1>1. TableIs(t, Others(o), s) /\ f \in Families /\ Holds(s, f, t)
    BY DEF Leaves
  <1>2. new \in Userdata /\ new.class = c /\ new.sock = s /\ new.family = f /\ (c = None => new = Nothing)
    BY <1>1 DEF Userdata, TableIs, Nothing, None
  <1> HIDE DEF new
  <1>3. obj' \in [Place -> Userdata] /\ obj'[o] = new /\ \A p \in Place : p # o => obj'[p] = obj[p]
    BY <1>2 DEF SockInv, new
  <1>4. socks' \in [Socket -> Kernels] /\ lost' \subseteq Socket /\ t \in [Socket -> Kernels]
    BY <1>1 DEF TableIs, SockInv
  <1>5. \A p \in Place : p # o /\ obj[p].sock # Invalid =>
          obj[p].sock \in Socket /\ obj[p].sock # s /\ socks'[obj[p].sock] = socks[obj[p].sock]
    <2> SUFFICES ASSUME NEW p \in Place, p # o, obj[p].sock # Invalid
                 PROVE  obj[p].sock \in Socket /\ obj[p].sock # s /\ t[obj[p].sock] = socks[obj[p].sock]
      OBVIOUS
    <2>1. obj[p].sock \in Socket
      BY DEF SockInv, Userdata
    <2>2. obj[p].sock \in Others(o)
      BY <2>1 DEF SockInv, Holds, Others
    <2> QED BY <1>1, <2>1, <2>2 DEF TableIs
  <1>6. s \notin lost
    <2>1. Invalid \notin lost
      BY NoSocket DEF SockInv
    <2>2. s = Invalid \/ (s \in Socket /\ s \notin Others(o))
      BY <1>1 DEF TableIs
    <2> QED BY <2>1, <2>2 DEF Others, SockInv
  <1>7. \A p \in Place : obj'[p].class = None => obj'[p] = Nothing
    BY <1>2, <1>3 DEF SockInv
  <1>8. \A p \in Place : obj'[p].sock \notin lost
    BY <1>2, <1>3, <1>6 DEF SockInv
  <1>9. \A p \in Place : Holds(obj'[p].sock, obj'[p].family, socks')
    <2> TAKE p \in Place
    <2>1. CASE p = o
      BY <1>1, <1>2, <1>3, <2>1
    <2>2. CASE p # o
      BY <1>3, <1>5, <2>2 DEF SockInv, Holds
    <2> QED BY <2>1, <2>2
  <1>10. \A p, q \in Place : p # q /\ obj'[p].sock # Invalid => obj'[p].sock # obj'[q].sock
    BY <1>2, <1>3, <1>5 DEF SockInv
  <1>11. \A d \in Socket : socks'[d].family # "unspec" => d \in lost \/ \E p \in Place : obj'[p].sock = d
    <2> TAKE d \in Socket
    <2> HAVE socks'[d].family # "unspec"
    <2>1. CASE d = s
      BY <1>2, <1>3, <2>1
    <2>2. CASE d # s
      <3>1. d \in Others(o)
        BY <1>1, <2>2 DEF TableIs
      <3>2. CASE d \in lost
        BY <3>2
      <3>3. CASE d \notin lost
        <4>1. PICK p \in Place : obj[p].sock = d
          BY <3>1, <3>3 DEF Others, SockInv
        <4>2. p # o
          BY <3>1, <4>1 DEF Others
        <4> QED BY <1>3, <4>1, <4>2
      <3> QED BY <3>2, <3>3
    <2> QED BY <2>1, <2>2
  <1>12. \A d \in lost : socks'[d].family # "unspec"
    <2> TAKE d \in lost
    <2>1. d \in Others(o)
      BY DEF SockInv, Others
    <2> QED BY <1>1, <2>1 DEF TableIs
  <1>13. \A p \in Place : KindIs(obj'[p].class, obj'[p].family)
    BY <1>2, <1>3 DEF SockInv
  <1>14. SockInv'
    BY <1>13, <1>3, <1>4, <1>7, <1>8, <1>9, <1>10, <1>11, <1>12 DEF SockInv, Holds, KindIs
  <1>15. Keeps
    <2> SUFFICES ASSUME NEW p \in Made, Bound(p), obj[p].class[1] \in {"tcp", "udp"}
                 PROVE  \/ obj'[p].sock = obj[p].sock /\ socks'[obj[p].sock].bound
                        \/ obj'[p].sock = Invalid /\ obj'[p].class = obj[p].class
                        \/ obj'[p] = Nothing
      BY DEF Keeps
    <2>1. p \in Place
      BY DEF Made
    <2>2. CASE p = o
      BY <1>2, <1>3, <2>2 DEF KeepsIt
    <2>3. CASE p # o
      BY <1>3, <1>5, <2>1, <2>3 DEF Bound
    <2> QED BY <2>2, <2>3
  <1> QED BY <1>14, <1>15

\* A call begins.
LEMMA StartIs ==
  ASSUME SockInv, NEW o \in Place
  PROVE  /\ Trying(Work(o), Others(o), obj[o].family, obj[o].sock)
         /\ obj[o].sock = Invalid => \A h : obj[o].family = "unspec" => Trying(Work(o), Others(o), h, Invalid)
  <1> DEFINE w == Work(o)
             Z == Others(o)
  <1>1. obj[o] \in Userdata /\ socks \in [Socket -> Kernels] /\ Holds(obj[o].sock, obj[o].family, socks)
    BY DEF SockInv
  <1>2. w \in Works /\ w.sock = obj[o].sock /\ w.family = obj[o].family /\ w.cur = obj[o].family
        /\ w.fd = socks /\ w.over = FALSE
    BY <1>1 DEF Work, Works, Userdata, Errs
  <1>3. TableIs(socks, Z, obj[o].sock)
    BY <1>1 DEF TableIs, Others, Userdata, Holds
  <1> HIDE DEF w, Z
  <1>4. WorkIs(w, Z)
    BY <1>2, <1>3 DEF WorkIs
  <1>5. Trying(w, Z, obj[o].family, obj[o].sock)
    BY <1>1, <1>2, <1>4 DEF Trying, Holds
  <1>6. ASSUME obj[o].sock = Invalid, NEW h, obj[o].family = "unspec" PROVE Trying(w, Z, h, Invalid)
    BY <1>2, <1>4, <1>6 DEF Trying
  <1> QED BY <1>5, <1>6 DEF w, Z

LEMMA TryingLeaves ==
  ASSUME NEW w, NEW o, NEW h, NEW s, Trying(w, Others(o), h, s)
  PROVE  Leaves(o, w.fd, w.sock, w.family)
  <1>1. w \in Works /\ TableIs(w.fd, Others(o), w.sock)
    BY DEF Trying, WorkIs
  <1>2. w.family \in Families
    BY <1>1 DEF Works
  <1>3. Holds(w.sock, w.family, w.fd)
    BY <1>1 DEF Trying, Holds, TableIs
  <1> QED BY <1>1, <1>2, <1>3 DEF Leaves

LEMMA ClassesAreMade == None \notin Classes
  BY DEF None, Classes

LEMMA StoreIs ==
  ASSUME SockInv, NEW o \in Place, NEW w, NEW c \in Classes, Leaves(o, w.fd, w.sock, w.family),
         KeepsIt(o, c, w.fd, w.sock), KindIs(c, w.family), Store(o, w, c)
  PROVE  SockInv' /\ Keeps
  <1> DEFINE t == w.fd
             s == w.sock
             f == w.family
  <1>1. Leaves(o, t, s, f) /\ KeepsIt(o, c, t, s) /\ KindIs(c, f) /\ c # None
    BY ClassesAreMade
  <1>2. obj' = [obj EXCEPT ![o] = [class |-> c, sock |-> s, family |-> f]] /\ socks' = t /\ lost' = lost
    BY DEF Store
  <1> HIDE DEF t, s, f
  <1> QED BY <1>1, <1>2, ChangeOne

LEMMA FreshIs == SockInv /\ Vacant # {} => Fresh \in Place /\ obj[Fresh] = Nothing
  BY DEF Fresh, Vacant, SockInv, None

LEMMA PutIs ==
  ASSUME SockInv, Vacant # {}, NEW kind, NEW role, <<kind, role>> \in Classes, NEW t, NEW s, NEW f,
         Leaves(Fresh, t, s, f), KindIs(<<kind, role>>, f), Put(Fresh, New(kind, role, s, f), t)
  PROVE  SockInv' /\ Keeps
  <1> DEFINE c == <<kind, role>>
             o == Fresh
  <1>1. o \in Place /\ obj[o] = Nothing
    BY FreshIs
  <1>2. c \in Classes /\ c # None /\ KindIs(c, f) /\ Leaves(o, t, s, f)
    BY ClassesAreMade
  <1>3. obj' = [obj EXCEPT ![o] = [class |-> c, sock |-> s, family |-> f]] /\ socks' = t /\ lost' = lost
    BY DEF Put, New
  <1> HIDE DEF c, o
  <1>4. KeepsIt(o, c, t, s)
    BY <1>1 DEF KeepsIt, Bound, Nothing
  <1> QED BY <1>1, <1>2, <1>3, <1>4, ChangeOne

LEMMA MadeIs ==
  ASSUME SockInv, NEW o \in Made
  PROVE  o \in Place /\ obj[o].class \in Classes /\ KindIs(obj[o].class, obj[o].family)
  BY DEF Made, Vacant, None, SockInv, Userdata

LEMMA OfIs ==
  ASSUME SockInv, NEW kind, kind # "none", NEW roles, NEW o \in Of(kind, roles)
  PROVE  /\ o \in Made /\ o \in Place /\ obj[o].class[1] = kind /\ obj[o].class[2] \in roles
         /\ obj[o].class \in Classes /\ KindIs(obj[o].class, obj[o].family)
  <1>1. o \in Place /\ obj[o].class[1] = kind /\ obj[o].class[2] \in roles
    BY DEF Of
  <1>2. o \in Made
    BY <1>1 DEF Made, Vacant
  <1> QED BY <1>1, <1>2, MadeIs

\* What the loops over the addresses leave is right, whatever they end with.
LEMMA LoopEnds ==
  ASSUME NEW o, NEW w, NEW h, Trying(w, Others(o), h, obj[o].sock), NEW c
  PROVE  Leaves(o, w.fd, w.sock, w.family) /\ KeepsIt(o, c, w.fd, w.sock)
  <1>1. Leaves(o, w.fd, w.sock, w.family)
    BY TryingLeaves
  <1>2. KeepsIt(o, c, w.fd, w.sock)
    BY DEF Trying, KeepsIt, Bound
  <1> QED BY <1>1, <1>2

LEMMA ClosedLeaves ==
  ASSUME NEW o, NEW w, WorkIs(w, Others(o)), w.sock = Invalid
  PROVE  Leaves(o, w.fd, w.sock, w.family)
  BY DEF WorkIs, Works, Leaves, Holds

Opened(g, Z, w, family) ==
  /\ WorkIs(g, Z) /\ Same(g, w) /\ g.sock # Invalid
  /\ g.fd[g.sock].nb /\ g.fd[g.sock].family = family /\ ~g.fd[g.sock].bound

LEMMA NewSocket ==
  ASSUME NEW Z, NEW w \in Works, TableIs(w.fd, Z, Invalid), NEW family \in Families \ {"unspec"},
         Unopened(w.fd) # {}, NEW g, g = socket_setnonblocking(socket_create(w, family, TRUE))
  PROVE  Opened(g, Z, w, family)
  <1> DEFINE c == socket_create(w, family, TRUE)
             l == [c.fd[c.sock] EXCEPT !.nb = TRUE]
  <1>1. g = Becomes(c, l)
    BY DEF socket_setnonblocking
  <1> HIDE DEF c
  <1>2. WorkIs(c, Z) /\ Same(c, w) /\ c.err = "none" /\ IsNew(c, family)
    BY CreateIs DEF c
  <1>3. c.sock # Invalid /\ c.fd[c.sock] = [Unused EXCEPT !.family = family]
    BY <1>2 DEF IsNew
  <1>4. l \in Kernels /\ l.nb /\ l.family = family /\ ~l.bound /\ c.fd[c.sock].family = family
    <2>1. [Unused EXCEPT !.family = family] \in Kernels
      BY UnusedIs DEF Kernels
    <2>2. ~Unused.bound
      BY DEF Unused
    <2> QED BY <1>3, <2>1, <2>2 DEF Kernels
  <1> HIDE DEF l
  <1>5. WorkIs(g, Z) /\ Same(g, c) /\ g.sock = c.sock /\ g.fd[c.sock] = l
    <2>1. WorkIs(c, Z) /\ c.sock # Invalid /\ l \in Kernels /\ l.family = c.fd[c.sock].family
      BY <1>2, <1>3, <1>4
    <2> QED BY ONLY <1>1, <2>1, BecomesIs
  <1> QED BY <1>2, <1>3, <1>4, <1>5 DEF Same, Opened

\* A descriptor whose links change stays the object's.
LEMMA LinkIs ==
  ASSUME SockInv, NEW o \in Place, obj[o].sock # Invalid, NEW link \in Links, NEW w, NEW c,
         w = Becomes(Work(o), [socks[obj[o].sock] EXCEPT !.link = link])
  PROVE  Leaves(o, w.fd, w.sock, w.family) /\ KeepsIt(o, c, w.fd, w.sock) /\ w.family = obj[o].family
  <1> DEFINE k == socks[obj[o].sock]
             l == [k EXCEPT !.link = link]
             u == Work(o)
  <1>1. u.sock = obj[o].sock /\ u.fd = socks /\ u.family = obj[o].family
    BY DEF Work
  <1>2. WorkIs(u, Others(o))
    BY StartIs DEF Trying
  <1> HIDE DEF u
  <1>3. k \in Kernels /\ Holds(obj[o].sock, obj[o].family, socks)
    BY <1>1, <1>2 DEF WorkIs, Works, SockInv
  <1>4. l \in Kernels /\ l.family = k.family /\ l.nb = k.nb /\ l.bound = k.bound
    BY <1>3 DEF Kernels
  <1>5. w = Becomes(u, l)
    BY DEF u
  <1>6. k = u.fd[u.sock]
    BY <1>1
  <1> HIDE DEF l, k
  <1>7. WorkIs(w, Others(o)) /\ Same(w, u) /\ w.sock = u.sock /\ w.fd[u.sock] = l
    <2>1. WorkIs(u, Others(o)) /\ u.sock # Invalid /\ l \in Kernels /\ l.family = u.fd[u.sock].family
      BY <1>1, <1>2, <1>4, <1>6
    <2> QED BY <1>5, <2>1, BecomesIs
  <1>8. w.family = obj[o].family /\ w.sock = obj[o].sock /\ w.fd[w.sock] = l
    BY <1>1, <1>7 DEF Same
  <1>9. Holds(w.sock, w.family, w.fd)
    BY <1>3, <1>4, <1>8 DEF Holds, k
  <1>10. Leaves(o, w.fd, w.sock, w.family)
    BY <1>7, <1>9 DEF Leaves, WorkIs, Works
  <1>11. KeepsIt(o, c, w.fd, w.sock)
    BY <1>4, <1>8 DEF KeepsIt, Bound, k
  <1> QED BY <1>8, <1>10, <1>11

LEMMA SockInitially == SocketInit => SockInv
  <1> SUFFICES ASSUME SocketInit PROVE SockInv
    OBVIOUS
  <1>1. Nothing \in Userdata /\ Nothing.sock = Invalid /\ Nothing.class = None /\ KindIs(Nothing.class, Nothing.family)
    BY DEF Nothing, Userdata, None, Families, KindIs
  <1>2. \A o \in Place : obj[o] = Nothing
    BY DEF SocketInit
  <1>3. obj \in [Place -> Userdata] /\ socks \in [Socket -> Kernels] /\ lost = {}
    BY <1>1, UnusedIs DEF SocketInit
  <1>4. \A d \in Socket : socks[d].family = "unspec"
    BY UnusedIs DEF SocketInit
  <1> QED BY <1>1, <1>2, <1>3, <1>4 DEF SockInv, Holds

LEMMA CloseKeeps ==
  ASSUME SockInv, NEW o, meth_close(o) PROVE SockInv' /\ Keeps
  <1> DEFINE u == Work(o)
             w == socket_destroy(u)
             c == obj[o].class
  <1>1. o \in Place /\ o \in Made /\ c \in Classes /\ KindIs(c, obj[o].family)
    BY MadeIs DEF meth_close
  <1>2. WorkIs(u, Others(o)) /\ u.family = obj[o].family
    BY <1>1, StartIs DEF Trying, Work
  <1>3. Store(o, w, c)
    BY DEF meth_close
  <1> HIDE DEF u
  <1>4. WorkIs(w, Others(o)) /\ Same(w, u) /\ w.sock = Invalid
    BY <1>2, DestroyIs
  <1> HIDE DEF w
  <1>5. Leaves(o, w.fd, w.sock, w.family) /\ KindIs(c, w.family)
    BY <1>1, <1>2, <1>4, ClosedLeaves DEF Same
  <1>6. KeepsIt(o, c, w.fd, w.sock)
    BY <1>4 DEF KeepsIt
  <1> HIDE DEF c
  <1> QED BY <1>1, <1>3, <1>5, <1>6, StoreIs

LEMMA GcKeeps ==
  ASSUME SockInv, NEW o, gc(o) PROVE SockInv' /\ Keeps
  <1> DEFINE u == Work(o)
             w == socket_destroy(u)
             t == w.fd
             c == None
             s == Invalid
             f == "unspec"
  <1>1. o \in Place
    BY DEF gc, Made
  <1>2. WorkIs(u, Others(o))
    BY <1>1, StartIs DEF Trying
  <1>3. obj' = [obj EXCEPT ![o] = [class |-> c, sock |-> s, family |-> f]] /\ socks' = t /\ lost' = lost
    BY DEF gc, Nothing, None
  <1> HIDE DEF u
  <1>4. WorkIs(w, Others(o)) /\ w.sock = Invalid
    BY <1>2, DestroyIs
  <1> HIDE DEF w
  <1>5. Leaves(o, t, s, f)
    BY <1>4 DEF WorkIs, Leaves, Holds, Families
  <1>6. KeepsIt(o, c, t, s) /\ c \in Classes \cup {None} /\ (c = None => s = Invalid /\ f = "unspec") /\ KindIs(c, f)
    BY DEF KeepsIt, KindIs, None
  <1> HIDE DEF t, c, s, f
  <1> QED BY ONLY SockInv, <1>1, <1>3, <1>5, <1>6, ChangeOne

\* A place that is free: none of the descriptors is its own.
LEMMA FreshBegins ==
  ASSUME SockInv, Vacant # {}
  PROVE  /\ Fresh \in Place /\ obj[Fresh] = Nothing /\ TableIs(socks, Others(Fresh), Invalid)
         /\ Work(Fresh) \in Works /\ \A h : Trying(Work(Fresh), Others(Fresh), h, Invalid)
  <1>1. Fresh \in Place /\ obj[Fresh] = Nothing
    BY FreshIs
  <1>2. obj[Fresh].sock = Invalid /\ obj[Fresh].family = "unspec"
    BY <1>1 DEF Nothing
  <1>3. \A h : Trying(Work(Fresh), Others(Fresh), h, Invalid)
    BY <1>1, <1>2, StartIs
  <1>4. WorkIs(Work(Fresh), Others(Fresh)) /\ Work(Fresh).fd = socks /\ Work(Fresh).sock = Invalid
    BY <1>2, <1>3 DEF Trying, Work
  <1> QED BY <1>1, <1>3, <1>4 DEF WorkIs

LEMMA CreateKeeps ==
  ASSUME SockInv, NEW kind, NEW role, NEW family \in Inet \cup {"unspec"}, <<kind, role>> \in Classes,
         kind \in {"tcp", "udp"}, create(kind, role, family)
  PROVE  SockInv' /\ Keeps
  <1>1. Vacant # {} /\ KindIs(<<kind, role>>, family)
    BY DEF create, KindIs
  <1>2. CASE family = "unspec" /\ Put(Fresh, New(kind, role, Invalid, family), socks)
    <2>1. Leaves(Fresh, socks, Invalid, family)
      BY <1>1, <1>2, FreshBegins DEF Leaves, Holds, Families
    <2> DEFINE s == Invalid
               t == socks
    <2>2. Leaves(Fresh, t, s, family) /\ Put(Fresh, New(kind, role, s, family), t)
      BY <1>2, <2>1
    <2> HIDE DEF s, t
    <2> QED BY ONLY SockInv, <<kind, role>> \in Classes, <1>1, <2>2, PutIs
  <1>3. CASE family \in Inet /\ Unopened(socks) # {}
    <2> DEFINE u == Work(Fresh)
               w == socket_setnonblocking(socket_create(u, family, TRUE))
    <2>1. u \in Works /\ u.fd = socks /\ TableIs(u.fd, Others(Fresh), Invalid) /\ family \in Families \ {"unspec"}
      BY <1>1, <1>3, FreshBegins DEF Work, Families, Inet
    <2>2. CASE Put(Fresh, New(kind, role, w.sock, family), w.fd)
      <3> HIDE DEF u
      <3>1. Unopened(u.fd) # {}
        BY <1>3, <2>1
      <3> HIDE DEF w
      <3>2. /\ WorkIs(w, Others(Fresh)) /\ w.sock # Invalid
            /\ w.fd[w.sock].nb /\ w.fd[w.sock].family = family /\ ~w.fd[w.sock].bound
        <4> DEFINE Z == Others(Fresh)
        <4>1. u \in Works /\ TableIs(u.fd, Z, Invalid) /\ family \in Families \ {"unspec"}
              /\ w = socket_setnonblocking(socket_create(u, family, TRUE))
          BY <2>1 DEF w
        <4> HIDE DEF Z
        <4>2. Opened(w, Z, u, family)
          BY ONLY <3>1, <4>1, NewSocket
        <4> QED BY <4>2 DEF Opened, Z
      <3>3. Leaves(Fresh, w.fd, w.sock, family)
        BY <2>1, <3>2 DEF Leaves, Holds, WorkIs
      <3> QED BY <1>1, <2>2, <3>3, PutIs
    <2>3. CASE family = "unspec"
      BY <1>3, <2>3 DEF Inet
    <2> QED BY <1>3, <2>2, <2>3 DEF create, inet_trycreate
  <1> QED BY <1>2, <1>3 DEF create

LEMMA InetBindKeeps ==
  ASSUME SockInv, NEW o, inet_bind(o) PROVE SockInv' /\ Keeps
  <1> DEFINE c == obj[o].class
             h == obj[o].family
             u == Work(o)
  <1>1. o \in Place /\ c \in Classes /\ c[1] \in {"tcp", "udp"}
    BY OfIs DEF inet_bind
  <1>2. PICK w \in inet_trybind(u, h) : Store(o, w, c)
    BY DEF inet_bind
  <1>3. Trying(u, Others(o), h, obj[o].sock)
    BY <1>1, StartIs
  <1>4. KindIs(c, w.family)
    BY <1>1 DEF KindIs
  <1> HIDE DEF u, c, h
  <1>5. Trying(w, Others(o), h, obj[o].sock)
    BY <1>3, BindLoop
  <1>6. Leaves(o, w.fd, w.sock, w.family) /\ KeepsIt(o, c, w.fd, w.sock)
    BY <1>5, LoopEnds
  <1> QED BY <1>1, <1>2, <1>4, <1>6, StoreIs

LEMMA ConnectsKeep ==
  ASSUME SockInv, NEW o \in Place, NEW c \in Classes, c[1] \in {"tcp", "udp"},
         NEW isStream \in BOOLEAN, NEW zero \in BOOLEAN,
         NEW w \in inet_tryconnect(Work(o), obj[o].family, isStream, zero), Store(o, w, c)
  PROVE  SockInv' /\ Keeps
  <1> DEFINE h == obj[o].family
             u == Work(o)
  <1>1. Trying(u, Others(o), h, obj[o].sock) /\ w \in inet_tryconnect(u, h, isStream, zero)
    BY StartIs
  <1> HIDE DEF u, h
  <1>2. Trying(w, Others(o), h, obj[o].sock)
    BY <1>1, ConnectLoop
  <1>3. Leaves(o, w.fd, w.sock, w.family) /\ KeepsIt(o, c, w.fd, w.sock)
    BY <1>2, LoopEnds
  <1>4. KindIs(c, w.family)
    BY DEF KindIs
  <1> QED BY <1>3, <1>4, StoreIs

LEMMA TcpConnectKeeps ==
  ASSUME SockInv, NEW o, tcp_connect(o) PROVE SockInv' /\ Keeps
  <1>1. o \in Place
    BY OfIs DEF tcp_connect
  <1>0. PICK zero \in BOOLEAN :
          \E w \in inet_tryconnect(Work(o), obj[o].family, TRUE, zero) : Store(o, w, <<"tcp", "client">>)
    BY DEF tcp_connect
  <1>2. PICK w \in inet_tryconnect(Work(o), obj[o].family, TRUE, zero) : Store(o, w, <<"tcp", "client">>)
    BY <1>0
  <1> DEFINE c == <<"tcp", "client">>
  <1>3. c \in Classes /\ c[1] \in {"tcp", "udp"} /\ Store(o, w, c)
    BY <1>2 DEF Classes
  <1> HIDE DEF c
  <1> QED BY <1>1, <1>2, <1>3, ConnectsKeep

\* No object changes, and one descriptor more may be nobody's.
LEMMA NobodyIs ==
  ASSUME SockInv, Vacant # {}, NEW t, NEW s, TableIs(t, Others(Fresh), s),
         obj' = obj, socks' = t, lost' = lost \cup ({s} \ {Invalid})
  PROVE  SockInv' /\ Keeps
  <1> DEFINE open == {d \in Socket : socks[d].family # "unspec"}
  <1>1. TableIs(t, open, s)
    <2>1. obj[Fresh].sock = Invalid
      BY FreshIs DEF Nothing
    <2>2. Others(Fresh) = open
      BY <2>1, NoSocket DEF Others
    <2> QED BY <2>2
  <1>2. /\ t \in [Socket -> Kernels] /\ \A d \in open : d \in Socket /\ t[d] = socks[d]
        /\ \A d \in Socket : t[d].family # "unspec" => d \in open \/ d = s
        /\ s # Invalid => s \in Socket /\ s \notin open /\ t[s].family # "unspec"
    BY <1>1 DEF TableIs
  <1>3. \A o \in Place : obj[o].sock # Invalid => obj[o].sock \in open /\ socks'[obj[o].sock] = socks[obj[o].sock]
    BY <1>2 DEF SockInv, Holds, Userdata
  <1>4. lost \subseteq open /\ lost' \subseteq Socket
    BY <1>2 DEF SockInv
  <1>5. \A o \in Place : obj'[o].sock \notin lost' /\ Holds(obj'[o].sock, obj'[o].family, socks')
    <2> TAKE o \in Place
    <2>1. obj[o].sock \notin lost'
      BY <1>2, <1>3 DEF SockInv
    <2> QED BY <1>3, <2>1 DEF SockInv, Holds
  <1>6. \A d \in Socket : socks'[d].family # "unspec" => d \in lost' \/ \E o \in Place : obj'[o].sock = d
    <2> TAKE d \in Socket
    <2> HAVE socks'[d].family # "unspec"
    <2>1. CASE d = s
      BY <2>1, NoSocket
    <2>2. CASE d # s
      <3>1. d \in open
        BY <1>2, <2>2
      <3> QED BY <3>1 DEF SockInv
    <2> QED BY <2>1, <2>2
  <1>7. \A d \in lost' : socks'[d].family # "unspec"
    BY <1>2, <1>4
  <1>8. SockInv'
    <2>1. /\ obj' \in [Place -> Userdata] /\ socks' \in [Socket -> Kernels]
          /\ \A o \in Place : obj'[o].class = None => obj'[o] = Nothing
          /\ \A o \in Place : KindIs(obj'[o].class, obj'[o].family)
          /\ \A o, p \in Place : o # p /\ obj'[o].sock # Invalid => obj'[o].sock # obj'[p].sock
      BY <1>2 DEF SockInv
    <2> QED BY <1>4, <1>5, <1>6, <1>7, <2>1 DEF SockInv, Holds, KindIs
  <1>9. Keeps
    <2> SUFFICES ASSUME NEW o \in Made, Bound(o)
                 PROVE  obj'[o].sock = obj[o].sock /\ socks'[obj[o].sock].bound
      BY DEF Keeps
    <2> QED BY <1>3 DEF Bound, Made
  <1> QED BY <1>8, <1>9

\* The second loop of socket.connect begins with what the first one left.
LEMMA OnceMore ==
  ASSUME NEW Z, NEW b, NEW h, Trying(b, Z, h, Invalid)
  PROVE  Trying([b EXCEPT !.over = FALSE], Z, b.family, Invalid)
  <1> DEFINE v == [b EXCEPT !.over = FALSE]
  <1>1. b \in Works
    BY DEF Trying, WorkIs
  <1>2. v \in Works /\ v.fd = b.fd /\ v.sock = b.sock /\ v.cur = b.cur /\ v.family = b.family
    BY <1>1 DEF Works
  <1> HIDE DEF v
  <1>3. WorkIs(v, Z)
    BY <1>2 DEF Trying, WorkIs
  <1>4. Trying(v, Z, b.family, Invalid)
    BY <1>2, <1>3 DEF Trying
  <1> QED BY <1>4 DEF v

LEMMA GlobalConnectKeeps ==
  ASSUME SockInv, global_connect PROVE SockInv' /\ Keeps
  <1> DEFINE u == Work(Fresh)
             Z == Others(Fresh)
  <1>1. Vacant # {}
    BY DEF global_connect
  <1>2. Fresh \in Place /\ \A h : Trying(u, Z, h, Invalid)
    BY <1>1, FreshBegins
  <1>3. PICK family \in Inet \cup {"unspec"} : \E b \in {u} \cup inet_trybind(u, family) :
      \/ /\ b.err # "none"
         /\ lost' = lost \cup ({b.sock} \ {Invalid})
         /\ socks' = b.fd /\ UNCHANGED obj
      \/ /\ b.err = "none"
         /\ \E w \in inet_tryconnect([b EXCEPT !.over = FALSE], b.family, TRUE, FALSE) :
              \/ w.err # "none" /\ socks' = socket_destroy(w).fd /\ UNCHANGED <<obj, lost>>
              \/ /\ w.err = "none"
                 /\ Put(Fresh, New("tcp", "client", w.sock, w.family), w.fd)
    BY DEF global_connect
  <1>4. PICK b \in {u} \cup inet_trybind(u, family) :
      \/ /\ b.err # "none"
         /\ lost' = lost \cup ({b.sock} \ {Invalid})
         /\ socks' = b.fd /\ UNCHANGED obj
      \/ /\ b.err = "none"
         /\ \E w \in inet_tryconnect([b EXCEPT !.over = FALSE], b.family, TRUE, FALSE) :
              \/ w.err # "none" /\ socks' = socket_destroy(w).fd /\ UNCHANGED <<obj, lost>>
              \/ /\ w.err = "none"
                 /\ Put(Fresh, New("tcp", "client", w.sock, w.family), w.fd)
    BY <1>3
  <1> HIDE DEF u
  <1>5. Trying(b, Z, family, Invalid)
    <2>1. CASE b = u
      BY <1>2, <2>1
    <2>2. CASE b \in inet_trybind(u, family)
      <3>1. Trying(u, Z, family, Invalid)
        BY <1>2
      <3> HIDE DEF Z
      <3> QED BY <2>2, <3>1, BindLoop
    <2> QED BY <2>1, <2>2
  <1>6. CASE /\ lost' = lost \cup ({b.sock} \ {Invalid})
             /\ socks' = b.fd /\ UNCHANGED obj
    <2>1. TableIs(b.fd, Others(Fresh), b.sock)
      BY <1>5 DEF Trying, WorkIs
    <2> QED BY <1>1, <1>6, <2>1, NobodyIs
  <1>7. CASE \E w \in inet_tryconnect([b EXCEPT !.over = FALSE], b.family, TRUE, FALSE) :
               \/ w.err # "none" /\ socks' = socket_destroy(w).fd /\ UNCHANGED <<obj, lost>>
               \/ /\ w.err = "none"
                  /\ Put(Fresh, New("tcp", "client", w.sock, w.family), w.fd)
    <2> DEFINE v == [b EXCEPT !.over = FALSE]
               h == b.family
    <2>1. PICK w \in inet_tryconnect(v, h, TRUE, FALSE) :
               \/ w.err # "none" /\ socks' = socket_destroy(w).fd /\ UNCHANGED <<obj, lost>>
               \/ /\ w.err = "none"
                  /\ Put(Fresh, New("tcp", "client", w.sock, w.family), w.fd)
      BY <1>7
    <2>2. Trying(v, Z, h, Invalid)
      <3> HIDE DEF Z
      <3> QED BY <1>5, OnceMore
    <2> HIDE DEF v, h
    <2>3. Trying(w, Z, h, Invalid)
      <3> HIDE DEF Z
      <3> DEFINE isStream == TRUE
                 zero == FALSE
      <3>1. isStream \in BOOLEAN /\ zero \in BOOLEAN /\ w \in inet_tryconnect(v, h, isStream, zero)
        BY <2>1
      <3> HIDE DEF isStream, zero
      <3> QED BY ONLY <2>2, <3>1, ConnectLoop
    <2>4. CASE socks' = socket_destroy(w).fd /\ UNCHANGED <<obj, lost>>
      <3> DEFINE e == socket_destroy(w)
                 s == Invalid
      <3>1. WorkIs(w, Z)
        BY <2>3 DEF Trying
      <3>2. WorkIs(e, Z) /\ e.sock = s
        <4> HIDE DEF Z
        <4> QED BY <3>1, DestroyIs
      <3>3. TableIs(e.fd, Others(Fresh), s)
        BY <3>2 DEF WorkIs
      <3>4. obj' = obj /\ socks' = e.fd /\ lost' = lost \cup ({s} \ {Invalid})
        BY <2>4
      <3> HIDE DEF e, s
      <3> QED BY ONLY SockInv, <1>1, <3>3, <3>4, NobodyIs
    <2>5. CASE Put(Fresh, New("tcp", "client", w.sock, w.family), w.fd)
      <3>1. Leaves(Fresh, w.fd, w.sock, w.family)
        BY <2>3, TryingLeaves
      <3> DEFINE kind == "tcp"
                 role == "client"
      <3>2. <<kind, role>> \in Classes /\ KindIs(<<kind, role>>, w.family)
            /\ Put(Fresh, New(kind, role, w.sock, w.family), w.fd)
        BY <2>5 DEF Classes, KindIs
      <3> HIDE DEF kind, role
      <3> QED BY ONLY SockInv, <1>1, <3>1, <3>2, PutIs
    <2> QED BY <2>1, <2>4, <2>5
  <1> QED BY <1>4, <1>6, <1>7

LEMMA ListenKeeps ==
  ASSUME SockInv, NEW o, listen(o) PROVE SockInv' /\ Keeps
  <1> DEFINE w == Becomes(Work(o), [socks[obj[o].sock] EXCEPT !.link = "listen"])
             c == <<obj[o].class[1], "server">>
  <1>1. o \in Place /\ obj[o].class[1] \in {"tcp", "unixstream"} /\ KindIs(obj[o].class, obj[o].family)
    BY OfIs DEF listen
  <1>2. obj[o].sock # Invalid /\ Store(o, w, c)
    BY DEF listen, IsOpen
  <1>3. c \in Classes
    BY <1>1 DEF Classes
  <1>4. KindIs(c, obj[o].family)
    BY <1>1 DEF KindIs
  <1> HIDE DEF c
  <1>5. Leaves(o, w.fd, w.sock, w.family) /\ KeepsIt(o, c, w.fd, w.sock) /\ w.family = obj[o].family
    <2> DEFINE link == "listen"
    <2>1. link \in Links /\ w = Becomes(Work(o), [socks[obj[o].sock] EXCEPT !.link = link])
      BY DEF Links
    <2> HIDE DEF w, link
    <2> QED BY ONLY SockInv, <1>1, <1>2, <2>1, LinkIs
  <1> HIDE DEF w
  <1> QED BY <1>1, <1>2, <1>3, <1>4, <1>5, StoreIs

LEMMA AcceptKeeps ==
  ASSUME SockInv, NEW o, accept(o) PROVE SockInv' /\ Keeps
  <1> DEFINE u == Work(o)
             family == socks[obj[o].sock].family
             g == socket_setnonblocking(socket_create(u, family, TRUE))
             l == [g.fd[g.sock] EXCEPT !.link = "linked"]
             v == Becomes(g, l)
             Z == Others(Fresh)
             f == obj[o].family
             kind == obj[o].class[1]
             role == "client"
  <1>1. o \in Place /\ kind \in {"tcp", "unixstream"} /\ KindIs(obj[o].class, f)
    BY OfIs DEF accept
  <1>2. Vacant # {} /\ Unopened(socks) # {} /\ obj[o].sock # Invalid /\ family # "unspec"
    BY DEF accept, IsOpen
  <1>3. Put(Fresh, New(kind, role, g.sock, f), v.fd)
    BY DEF accept
  <1>4. <<kind, role>> \in Classes /\ KindIs(<<kind, role>>, f)
    BY <1>1 DEF Classes, KindIs
  <1>5. u \in Works /\ u.fd = socks
    BY <1>1, StartIs DEF Trying, WorkIs, Work
  <1>6. family \in Families \ {"unspec"} /\ f \in Families /\ f \in {family, "unspec"}
    BY <1>1, <1>2 DEF SockInv, Userdata, Kernels, Holds
  <1> HIDE DEF u, family
  <1>7. TableIs(u.fd, Z, Invalid) /\ Unopened(u.fd) # {}
    BY <1>2, <1>5, FreshBegins
  <1> HIDE DEF g, Z
  <1>8. /\ WorkIs(g, Z) /\ g.sock # Invalid
        /\ g.fd[g.sock].nb /\ g.fd[g.sock].family = family /\ ~g.fd[g.sock].bound
    <2>1. g = socket_setnonblocking(socket_create(u, family, TRUE))
      BY DEF g
    <2>2. Opened(g, Z, u, family)
      BY ONLY <1>5, <1>6, <1>7, <2>1, NewSocket
    <2> QED BY <2>2 DEF Opened
  <1>9. l \in Kernels /\ l.family = family /\ l.nb /\ ~l.bound
    <2>1. g.fd[g.sock] \in Kernels
      BY <1>8 DEF WorkIs, Works
    <2> QED BY <1>8, <2>1 DEF Kernels, Links
  <1> HIDE DEF l
  <1>10. WorkIs(v, Z) /\ v.sock = g.sock /\ v.fd[g.sock] = l
    <2>1. l.family = g.fd[g.sock].family
      BY <1>8, <1>9
    <2> QED BY ONLY <1>8, <1>9, <2>1, BecomesIs
  <1> HIDE DEF v
  <1> DEFINE t == v.fd
             s == g.sock
  <1>11. Leaves(Fresh, t, s, f)
    BY <1>6, <1>9, <1>10 DEF Leaves, WorkIs, Holds, Z
  <1>12. Put(Fresh, New(kind, role, s, f), t)
    BY <1>3
  <1> HIDE DEF t, s, f, kind, role
  <1> QED BY ONLY SockInv, <1>2, <1>4, <1>11, <1>12, PutIs

LEMMA SettlesKeeps ==
  ASSUME SockInv, NEW d \in Socket, Settles(d) PROVE SockInv' /\ Keeps
  <1>1. PICK link \in {"linked", "none"} : socks' = [socks EXCEPT ![d] = [socks[d] EXCEPT !.link = link]]
    BY DEF Settles
  <1>2. obj' = obj /\ lost' = lost
    BY DEF Settles
  <1>3. socks' \in [Socket -> Kernels]
        /\ \A e \in Socket : socks'[e].family = socks[e].family /\ socks'[e].nb = socks[e].nb
                             /\ socks'[e].bound = socks[e].bound
    <2> DEFINE l == [socks[d] EXCEPT !.link = link]
    <2>1. socks[d] \in Kernels /\ socks \in [Socket -> Kernels]
      BY DEF SockInv
    <2>2. l \in Kernels /\ l.family = socks[d].family /\ l.nb = socks[d].nb /\ l.bound = socks[d].bound
      BY <2>1 DEF Kernels, Links
    <2> HIDE DEF l
    <2>3. socks' = [socks EXCEPT ![d] = l]
      BY <1>1 DEF l
    <2> QED BY <2>1, <2>2, <2>3
  <1>4. \A o \in Place : obj[o].sock \in Socket \cup {Invalid}
    BY DEF SockInv, Userdata
  <1>5. \A o \in Place : Holds(obj'[o].sock, obj'[o].family, socks')
    BY <1>2, <1>3, <1>4 DEF SockInv, Holds
  <1>6. SockInv'
    BY <1>2, <1>3, <1>5 DEF SockInv, Holds, KindIs
  <1>7. Keeps
    BY <1>2, <1>3, <1>4 DEF Keeps, Bound, Made
  <1> QED BY <1>6, <1>7

LEMMA SetPeerNameKeeps ==
  ASSUME SockInv, NEW o, udp_setpeername(o) PROVE SockInv' /\ Keeps
  <1>1. o \in Place /\ obj[o].class \in Classes /\ obj[o].class[1] = "udp"
    BY OfIs DEF udp_setpeername
  <1>2. CASE \E zero \in BOOLEAN : \E w \in inet_tryconnect(Work(o), obj[o].family, FALSE, zero) :
               Store(o, w, IF w.err = "none" THEN <<"udp", "connected">> ELSE obj[o].class)
    <2>1. PICK zero \in BOOLEAN : \E w \in inet_tryconnect(Work(o), obj[o].family, FALSE, zero) :
               Store(o, w, IF w.err = "none" THEN <<"udp", "connected">> ELSE obj[o].class)
      BY <1>2
    <2>2. PICK w \in inet_tryconnect(Work(o), obj[o].family, FALSE, zero) :
               Store(o, w, IF w.err = "none" THEN <<"udp", "connected">> ELSE obj[o].class)
      BY <2>1
    <2> DEFINE c == IF w.err = "none" THEN <<"udp", "connected">> ELSE obj[o].class
               isStream == FALSE
    <2>3. c \in Classes /\ c[1] \in {"tcp", "udp"} /\ Store(o, w, c) /\ isStream \in BOOLEAN
          /\ w \in inet_tryconnect(Work(o), obj[o].family, isStream, zero)
      BY <1>1, <2>2 DEF Classes
    <2> HIDE DEF c, isStream
    <2> QED BY ONLY SockInv, <1>1, <2>3, ConnectsKeep
  <1>3. CASE LET w == IF obj[o].family \in Inet /\ IsOpen(socks, obj[o].sock)
                      THEN Becomes(Work(o), [socks[obj[o].sock] EXCEPT !.link = "none"]) ELSE Work(o)
             IN Store(o, w, <<"udp", "unconnected">>)
    <2> DEFINE c == <<"udp", "unconnected">>
               link == "none"
               v == Becomes(Work(o), [socks[obj[o].sock] EXCEPT !.link = link])
               u == Work(o)
    <2>1. c \in Classes /\ (\A f : KindIs(c, f)) /\ link \in Links
      BY DEF Classes, KindIs, Links
    <2>2. (Store(o, v, c) /\ obj[o].sock # Invalid) \/ Store(o, u, c)
      BY <1>3 DEF IsOpen
    <2> HIDE DEF c, link
    <2>3. CASE Store(o, v, c) /\ obj[o].sock # Invalid
      <3>1. Leaves(o, v.fd, v.sock, v.family) /\ KeepsIt(o, c, v.fd, v.sock)
        <4>1. v = Becomes(Work(o), [socks[obj[o].sock] EXCEPT !.link = link])
          OBVIOUS
        <4> HIDE DEF v, u
        <4> QED BY ONLY SockInv, <1>1, <2>1, <2>3, <4>1, LinkIs
      <3> HIDE DEF v
      <3> QED BY <1>1, <2>1, <2>3, <3>1, StoreIs
    <2>4. CASE Store(o, u, c)
      <3>1. Trying(u, Others(o), obj[o].family, obj[o].sock)
        BY <1>1, StartIs
      <3> HIDE DEF u
      <3>2. Leaves(o, u.fd, u.sock, u.family) /\ KeepsIt(o, c, u.fd, u.sock)
        BY <3>1, LoopEnds
      <3> QED BY <1>1, <2>1, <2>4, <3>2, StoreIs
    <2> QED BY <2>2, <2>3, <2>4
  <1> QED BY <1>2, <1>3 DEF udp_setpeername

LEMMA SendtoKeeps ==
  ASSUME SockInv, NEW o, udp_sendto(o) PROVE SockInv' /\ Keeps
  <1> DEFINE u == Work(o)
             Z == Others(o)
             c == obj[o].class
  <1>1. o \in Place /\ c \in Classes /\ c[1] = "udp"
    BY OfIs DEF udp_sendto
  <1>2. obj[o].sock = Invalid /\ Unopened(socks) # {}
    BY DEF udp_sendto
  <1>3. PICK family \in Inet :
          LET w == socket_setnonblocking(socket_create(u, family, TRUE))
          IN Store(o, [w EXCEPT !.family = family], c)
    BY DEF udp_sendto, inet_trycreate
  <1>4. u \in Works /\ TableIs(u.fd, Z, Invalid) /\ Unopened(u.fd) # {}
    <2>1. u.fd = socks /\ u.sock = Invalid
      BY <1>2 DEF Work
    <2> QED BY <1>1, <1>2, <2>1, StartIs DEF Trying, WorkIs
  <1>5. family \in Families \ {"unspec"}
    BY DEF Families, Inet
  <1> DEFINE w == socket_setnonblocking(socket_create(u, family, TRUE))
             v == [w EXCEPT !.family = family]
  <1>6. Store(o, v, c)
    BY <1>3
  <1> HIDE DEF u, Z
  <1>7. Opened(w, Z, u, family)
    <2>1. w = socket_setnonblocking(socket_create(u, family, TRUE))
      OBVIOUS
    <2> HIDE DEF w, v, c
    <2> QED BY ONLY <1>4, <1>5, <2>1, NewSocket
  <1> HIDE DEF w
  <1>8. WorkIs(w, Z) /\ w.sock # Invalid /\ w.fd[w.sock].nb /\ w.fd[w.sock].family = family /\ ~w.fd[w.sock].bound
    BY <1>7 DEF Opened
  <1>9. v.fd = w.fd /\ v.sock = w.sock /\ v.family = family
    BY <1>8 DEF WorkIs, Works
  <1> HIDE DEF v
  <1>10. Leaves(o, v.fd, v.sock, v.family)
    BY <1>5, <1>8, <1>9 DEF WorkIs, Leaves, Holds, Z
  <1>11. KeepsIt(o, c, v.fd, v.sock) /\ KindIs(c, v.family)
    BY <1>1, <1>2 DEF KeepsIt, Bound, KindIs
  <1> HIDE DEF c
  <1> QED BY <1>1, <1>6, <1>10, <1>11, StoreIs

LEMMA UnixCreateKeeps ==
  ASSUME SockInv, NEW kind \in {"unixstream", "unixdgram"}, unix_create(kind) PROVE SockInv' /\ Keeps
  <1> DEFINE u == Work(Fresh)
             Z == Others(Fresh)
             family == "unix"
             role == IF kind = "unixstream" THEN "master" ELSE "unconnected"
             w == socket_setnonblocking(socket_create(u, family, TRUE))
  <1>1. Vacant # {} /\ Unopened(socks) # {} /\ Put(Fresh, New(kind, role, w.sock, family), w.fd)
    BY DEF unix_create
  <1>2. u \in Works /\ u.fd = socks /\ TableIs(socks, Z, Invalid)
    BY <1>1, FreshBegins DEF Work
  <1>3. family \in Families \ {"unspec"} /\ <<kind, role>> \in Classes /\ KindIs(<<kind, role>>, family)
    BY DEF Families, Classes, KindIs
  <1>4. TableIs(u.fd, Z, Invalid) /\ Unopened(u.fd) # {}
    BY <1>1, <1>2
  <1> HIDE DEF u, Z, family, role
  <1>5. Opened(w, Z, u, family)
    <2>1. w = socket_setnonblocking(socket_create(u, family, TRUE))
      OBVIOUS
    <2> HIDE DEF w
    <2> QED BY ONLY <1>2, <1>3, <1>4, <2>1, NewSocket
  <1> HIDE DEF w
  <1> DEFINE t == w.fd
             s == w.sock
  <1>6. Leaves(Fresh, t, s, family)
    BY <1>3, <1>5 DEF Opened, WorkIs, Leaves, Holds, Z
  <1>7. Put(Fresh, New(kind, role, s, family), t)
    BY <1>1
  <1> HIDE DEF t, s
  <1> QED BY ONLY SockInv, <1>1, <1>3, <1>6, <1>7, PutIs

LEMMA UnixFamily ==
  ASSUME SockInv, NEW o \in Place, obj[o].class[1] \in {"unixstream", "unixdgram"}
  PROVE  /\ obj[o].family = "unix" /\ WorkIs(Work(o), Others(o))
         /\ Work(o).sock = obj[o].sock /\ Work(o).family = "unix"
         /\ obj[o].sock # Invalid => Work(o).fd[obj[o].sock].family = "unix" /\ Work(o).fd[obj[o].sock].nb
  <1>1. obj[o].family = "unix"
    BY DEF SockInv, KindIs
  <1>2. WorkIs(Work(o), Others(o))
    BY StartIs DEF Trying
  <1> QED BY <1>1, <1>2 DEF Work, SockInv, Holds

\* The work of a unix call, which keeps the descriptor as it is or gives it up.
LEMMA UnixStores ==
  ASSUME SockInv, NEW o \in Place, obj[o].class[1] \in {"unixstream", "unixdgram"},
         NEW w, NEW c \in Classes, c[1] = obj[o].class[1],
         WorkIs(w, Others(o)), w.family = "unix",
         w.sock # Invalid => w.fd[w.sock].nb /\ w.fd[w.sock].family = "unix",
         Store(o, w, c)
  PROVE  SockInv' /\ Keeps
  <1>1. Leaves(o, w.fd, w.sock, w.family)
    BY DEF WorkIs, TableIs, Leaves, Holds, Families
  <1>2. KeepsIt(o, c, w.fd, w.sock)
    BY DEF KeepsIt
  <1>3. KindIs(c, w.family)
    BY DEF KindIs
  <1> QED BY <1>1, <1>2, <1>3, StoreIs

LEMMA UnixBindKeeps ==
  ASSUME SockInv, NEW o, unix_bind(o) PROVE SockInv' /\ Keeps
  <1> DEFINE u == Work(o)
             c == obj[o].class
             Z == Others(o)
  <1>1. o \in Place /\ c \in Classes /\ obj[o].class[1] \in {"unixstream", "unixdgram"}
    BY OfIs DEF unix_bind
  <1>2. /\ WorkIs(u, Z) /\ u.family = "unix"
        /\ u.sock # Invalid => u.fd[u.sock].family = "unix"
    BY <1>1, UnixFamily
  <1>3. PICK res \in {"done", "failed"} :
          LET w == socket_bind(u, res)
          IN Store(o, IF w.err = "none" THEN w ELSE socket_destroy(w), c)
    BY DEF unix_bind
  <1> DEFINE w == socket_bind(u, res)
             v == IF w.err = "none" THEN w ELSE socket_destroy(w)
  <1>4. Store(o, v, c)
    BY <1>3
  <1> HIDE DEF u, Z
  <1>5. /\ WorkIs(w, Z) /\ w.family = "unix"
        /\ w.sock # Invalid => w.fd[w.sock].nb /\ w.fd[w.sock].family = "unix"
    <2>1. CASE u.sock = Invalid
      <3>1. w = [u EXCEPT !.err = "failed"]
        BY <2>1 DEF socket_bind, IsOpen
      <3> HIDE DEF w
      <3>2. w \in Works /\ w.fd = u.fd /\ w.sock = Invalid /\ w.family = u.family
        BY <1>2, <2>1, <3>1 DEF WorkIs, Works, Errs
      <3> QED BY <1>2, <2>1, <3>2 DEF WorkIs
    <2>2. CASE u.sock # Invalid
      <3> HIDE DEF w
      <3>1. /\ WorkIs(w, Z) /\ Same(w, u) /\ w.sock = u.sock
            /\ w.fd[w.sock].nb /\ w.fd[w.sock].family = u.fd[u.sock].family
        BY <1>2, <2>2, BindIs DEF w
      <3> QED BY <1>2, <2>2, <3>1 DEF Same
    <2> QED BY <2>1, <2>2
  <1> HIDE DEF w
  <1>6. /\ WorkIs(v, Z) /\ v.family = "unix"
        /\ v.sock # Invalid => v.fd[v.sock].nb /\ v.fd[v.sock].family = "unix"
    <2>1. CASE v = w
      BY <1>5, <2>1
    <2>2. CASE v = socket_destroy(w)
      <3> HIDE DEF v
      <3>1. WorkIs(v, Z) /\ Same(v, w) /\ v.sock = Invalid
        BY <1>5, <2>2, DestroyIs
      <3> QED BY <1>5, <3>1 DEF Same
    <2> QED BY <2>1, <2>2
  <1>7. c[1] = obj[o].class[1]
    OBVIOUS
  <1> HIDE DEF v, c
  <1> QED BY ONLY SockInv, <1>1, <1>4, <1>6, <1>7, UnixStores DEF Z

LEMMA UnixConnectKeeps ==
  ASSUME SockInv, NEW o, unix_connect(o) PROVE SockInv' /\ Keeps
  <1> DEFINE u == Work(o)
             Z == Others(o)
             isStream == obj[o].class[1] = "unixstream"
             role == IF isStream THEN "client" ELSE "connected"
             made == <<obj[o].class[1], role>>
             old == obj[o].class
  <1>1. o \in Place /\ old \in Classes /\ obj[o].class[1] \in {"unixstream", "unixdgram"}
    BY OfIs DEF unix_connect
  <1>2. made \in Classes /\ made[1] = obj[o].class[1] /\ old[1] = obj[o].class[1] /\ isStream \in BOOLEAN
    BY <1>1 DEF Classes
  <1>3. /\ WorkIs(u, Z) /\ u.family = "unix"
        /\ u.sock # Invalid => u.fd[u.sock].nb /\ u.fd[u.sock].family = "unix"
    BY <1>1, UnixFamily
  <1>4. PICK res \in {"done", "timeout", "failed"} :
          LET w == socket_connect(u, isStream, res)
          IN Store(o, w, made) \/ Store(o, socket_destroy(w), old)
    BY DEF unix_connect
  <1> DEFINE w == socket_connect(u, isStream, res)
             e == socket_destroy(w)
  <1>5. Store(o, w, made) \/ Store(o, e, old)
    BY <1>4
  <1> HIDE DEF u, Z, isStream
  <1>6. /\ WorkIs(w, Z) /\ w.family = "unix"
        /\ w.sock # Invalid => w.fd[w.sock].nb /\ w.fd[w.sock].family = "unix"
    <2>1. CASE u.sock = Invalid
      <3>1. w = [u EXCEPT !.err = "closed"]
        BY <2>1 DEF socket_connect
      <3> HIDE DEF w
      <3>2. w \in Works /\ w.fd = u.fd /\ w.sock = Invalid /\ w.family = u.family
        BY <1>3, <2>1, <3>1 DEF WorkIs, Works, Errs
      <3> QED BY <1>3, <2>1, <3>2 DEF WorkIs
    <2>2. CASE u.sock # Invalid
      <3>1. w = socket_connect(u, isStream, res)
        OBVIOUS
      <3> HIDE DEF w, made, old, role
      <3>2. /\ WorkIs(w, Z) /\ Same(w, u) /\ w.sock = u.sock
            /\ w.fd[w.sock].nb = u.fd[u.sock].nb /\ w.fd[w.sock].family = u.fd[u.sock].family
        BY ONLY <1>2, <1>3, <2>2, <3>1, res \in {"done", "timeout", "failed"}, ConnectIs
      <3> QED BY <1>3, <2>2, <3>2 DEF Same
    <2> QED BY <2>1, <2>2
  <1> HIDE DEF w
  <1>7. WorkIs(e, Z) /\ e.family = "unix" /\ e.sock = Invalid
    <2> HIDE DEF e
    <2>1. WorkIs(e, Z) /\ Same(e, w) /\ e.sock = Invalid
      BY <1>6, DestroyIs DEF e
    <2> QED BY <1>6, <2>1 DEF Same
  <1> HIDE DEF e, made, old
  <1>8. CASE Store(o, w, made)
    BY ONLY SockInv, <1>1, <1>2, <1>6, <1>8, UnixStores DEF Z
  <1>9. CASE Store(o, e, old)
    BY ONLY SockInv, <1>1, <1>2, <1>7, <1>9, UnixStores DEF Z
  <1> QED BY <1>5, <1>8, <1>9

LEMMA SockStep ==
  ASSUME SockInv, [SocketNext]_socketVars
  PROVE  SockInv' /\ (SocketNext => Keeps)
  <1>1. CASE SocketNext
    <2>1. CASE tcp
      <3>1. CASE \E family \in Inet \cup {"unspec"} : tcp_create(family)
        <4> DEFINE kind == "tcp"
                   role == "master"
        <4>1. PICK family \in Inet \cup {"unspec"} : create(kind, role, family)
          BY <3>1 DEF tcp_create
        <4>2. <<kind, role>> \in Classes /\ kind \in {"tcp", "udp"}
          BY DEF Classes
        <4> HIDE DEF kind, role
        <4> QED BY ONLY SockInv, <4>1, <4>2, CreateKeeps
      <3>2. CASE \E o \in Place : tcp_connect(o)
        BY <3>2, TcpConnectKeeps
      <3>3. CASE global_connect
        BY <3>3, GlobalConnectKeeps
      <3> QED BY <2>1, <3>1, <3>2, <3>3 DEF tcp
    <2>2. CASE udp
      <3>1. CASE \E family \in Inet \cup {"unspec"} : udp_create(family)
        <4> DEFINE kind == "udp"
                   role == "unconnected"
        <4>1. PICK family \in Inet \cup {"unspec"} : create(kind, role, family)
          BY <3>1 DEF udp_create
        <4>2. <<kind, role>> \in Classes /\ kind \in {"tcp", "udp"}
          BY DEF Classes
        <4> HIDE DEF kind, role
        <4> QED BY ONLY SockInv, <4>1, <4>2, CreateKeeps
      <3>2. CASE \E o \in Place : udp_setpeername(o) \/ udp_sendto(o)
        BY <3>2, SetPeerNameKeeps, SendtoKeeps
      <3> QED BY <2>2, <3>1, <3>2 DEF udp
    <2>3. CASE unix
      BY <2>3, UnixCreateKeeps, UnixBindKeeps, UnixConnectKeeps DEF unix
    <2>4. CASE every
      BY <2>4, CloseKeeps, GcKeeps, InetBindKeeps, ListenKeeps, AcceptKeeps DEF every
    <2>5. CASE \E d \in Socket : Settles(d)
      BY <2>5, SettlesKeeps
    <2> QED BY <1>1, <2>1, <2>2, <2>3, <2>4, <2>5 DEF SocketNext
  <1>2. CASE UNCHANGED socketVars /\ ~SocketNext
    BY <1>2 DEF socketVars, SockInv, Holds, KindIs
  <1> QED BY <1>1, <1>2

LEMMA SockAlways == SocketSpec => []SockInv
  BY SockInitially, SockStep, PTL DEF SocketSpec

(* For any number of objects and descriptors, whatever the kernel, the      *)
(* resolver and the memory refuse, and whenever a collector finds an object: *)
(* each open descriptor is held by exactly one object, no object holds one   *)
(* that is closed, and the family an object remembers is that of its         *)
(* descriptor or none. What it rests on is SockInv, which adds the class and *)
(* the history of each object. (tcp.c, udp.c, unix.c, inet.c, usocket.c)     *)
THEOREM EveryDescriptorHasItsOwner == SocketSpec => []SocketsAreOwned
  BY SockAlways, SocketsHold, PTL

(* "if there was a bind, all families will be the same and we will not enter *)
(* this branch" (inet.c): in any history of calls, a descriptor that was     *)
(* bound leaves its object by close or the collector, or where a unix socket *)
(* fails to connect or to be bound again, and never in the loop of           *)
(* inet_tryconnect over addresses.                                           *)
THEOREM NoBindIsUndone == SocketSpec => BoundIsKept
  <1>1. SockInv /\ [SocketNext]_socketVars => [Keeps]_socketVars
    BY SockStep
  <1>2. SocketSpec => [][Keeps]_socketVars
    BY SockAlways, <1>1, PTL DEF SocketSpec
  <1> QED BY <1>2 DEF BoundIsKept, Keeps

-----------------------------------------------------------------------------
(* select.c: loops that keep some of what they go through.                 *)

\* A loop that appends the items that it keeps: K are the rounds that keep one, e the
\* items.
Sifts(f, N, K, e) ==
  f = [n \in 0 .. N |-> IF n = 0 THEN <<>> ELSE IF n \in K THEN Append(f[n - 1], e[n]) ELSE f[n - 1]]
Sifted(s, K, e) ==
  /\ s \in Seq({e[n] : n \in K}) /\ ToSet(s) = {e[n] : n \in K}
  /\ (\A m, n \in K : e[m] = e[n] => m = n) => IsInjective(s)

LEMMA OneMore ==
  ASSUME NEW T, NEW s \in Seq(T), NEW x
  PROVE  /\ Append(s, x) \in Seq(T \cup {x}) /\ ToSet(Append(s, x)) = ToSet(s) \cup {x}
         /\ IsInjective(s) /\ x \notin ToSet(s) => IsInjective(Append(s, x))
  <1> DEFINE t == Append(s, x)
  <1>1. s \in Seq(T \cup {x}) /\ x \in T \cup {x}
    <2>1. s \in [1 .. Len(s) -> T] /\ Len(s) \in Nat
      OBVIOUS
    <2>2. s \in [1 .. Len(s) -> T \cup {x}]
      BY <2>1
    <2> QED BY <2>1, <2>2, SeqDef
  <1>2. t \in Seq(T \cup {x}) /\ Len(t) = Len(s) + 1 /\ t[Len(s) + 1] = x
        /\ (\A i \in 1 .. Len(s) : t[i] = s[i]) /\ Len(s) \in Nat
    BY <1>1
  <1>3. DOMAIN t = 1 .. Len(s) + 1 /\ DOMAIN s = 1 .. Len(s)
    BY <1>2
  <1> HIDE DEF t
  <1>4. ToSet(t) = ToSet(s) \cup {x}
    <2>1. \A i \in 1 .. Len(s) + 1 : t[i] \in ToSet(s) \cup {x}
      BY <1>2, <1>3 DEF ToSet
    <2>2. \A i \in 1 .. Len(s) : s[i] \in ToSet(t)
      BY <1>2, <1>3 DEF ToSet
    <2>3. x \in ToSet(t)
      <3>1. Len(s) + 1 \in 1 .. Len(s) + 1
        BY <1>2
      <3> QED BY <1>2, <1>3, <3>1 DEF ToSet
    <2> QED BY <1>3, <2>1, <2>2, <2>3 DEF ToSet
  <1>5. ASSUME IsInjective(s), x \notin ToSet(s) PROVE IsInjective(t)
    <2> SUFFICES ASSUME NEW i \in 1 .. Len(s) + 1, NEW j \in 1 .. Len(s) + 1, t[i] = t[j] PROVE i = j
      BY <1>3 DEF IsInjective
    <2>1. \A k \in 1 .. Len(s) : s[k] # x
      BY <1>3, <1>5 DEF ToSet
    <2>2. CASE i \in 1 .. Len(s) /\ j \in 1 .. Len(s)
      BY <1>2, <1>3, <1>5, <2>2 DEF IsInjective
    <2>3. CASE i = Len(s) + 1
      BY <1>2, <2>1, <2>3
    <2>4. CASE j = Len(s) + 1
      BY <1>2, <2>1, <2>4
    <2> QED BY <1>2, <2>2, <2>3, <2>4
  <1> QED BY <1>2, <1>4, <1>5 DEF t

LEMMA SiftExists ==
  ASSUME NEW N \in Nat, NEW K \in SUBSET (1 .. N), NEW e
  PROVE  \E f : Sifts(f, N, K, e)
  <1> DEFINE T == {e[n] : n \in K}
             X == Seq(T)
             start == <<>>
             G == [n \in 1 .. N |-> [s \in X |-> IF n \in K THEN Append(s, e[n]) ELSE s]]
  <1>1. start \in X
    OBVIOUS
  <1>2. \A n \in 1 .. N : [s \in X |-> IF n \in K THEN Append(s, e[n]) ELSE s] \in [X -> X]
    <2> SUFFICES ASSUME NEW n \in 1 .. N, NEW s \in X PROVE (IF n \in K THEN Append(s, e[n]) ELSE s) \in X
      OBVIOUS
    <2>1. CASE n \in K
      <3>1. e[n] \in T
        BY <2>1
      <3> HIDE DEF T
      <3> QED BY <2>1, <3>1
    <2>2. CASE n \notin K
      BY <2>2
    <2> QED BY <2>1, <2>2
  <1>3. G \in [1 .. N -> [X -> X]]
    BY <1>2
  <1>4. \A n \in 1 .. N : \A s \in X : G[n][s] = IF n \in K THEN Append(s, e[n]) ELSE s
    OBVIOUS
  <1> HIDE DEF G, X, start
  <1>5. PICK f \in [0 .. N -> X] : f[0] = start /\ \A n \in 1 .. N : f[n] = G[n][f[n - 1]]
    BY <1>1, <1>3, LoopExists
  <1>6. \A n \in 1 .. N : f[n - 1] \in X
    OBVIOUS
  <1>7. \A n \in 0 .. N : f[n] = IF n = 0 THEN <<>> ELSE IF n \in K THEN Append(f[n - 1], e[n]) ELSE f[n - 1]
    <2> TAKE n \in 0 .. N
    <2>1. CASE n = 0
      BY <1>5, <2>1 DEF start
    <2>2. CASE n # 0
      <3>1. n \in 1 .. N
        BY <2>2
      <3>2. f[n] = G[n][f[n - 1]]
        BY <1>5, <3>1
      <3>3. G[n][f[n - 1]] = IF n \in K THEN Append(f[n - 1], e[n]) ELSE f[n - 1]
        BY <1>4, <1>6, <3>1
      <3> QED BY <2>2, <3>2, <3>3
    <2> QED BY <2>1, <2>2
  <1>8. f = [n \in 0 .. N |-> f[n]]
    OBVIOUS
  <1> DEFINE g == [n \in 0 .. N |-> IF n = 0 THEN <<>> ELSE IF n \in K THEN Append(f[n - 1], e[n]) ELSE f[n - 1]]
  <1>9. \A n \in 0 .. N : g[n] = f[n]
    BY <1>7
  <1>10. g = [n \in 0 .. N |-> g[n]]
    OBVIOUS
  <1>11. f = g
    <2> HIDE DEF g
    <2> QED BY <1>8, <1>9, <1>10
  <1> QED BY <1>11 DEF Sifts

LEMMA SiftIs ==
  ASSUME NEW N \in Nat, NEW K \in SUBSET (1 .. N), NEW e, NEW f, Sifts(f, N, K, e)
  PROVE  Sifted(f[N], K, e)
  <1> DEFINE Upto(n) == {k \in 1 .. N : k \in K /\ k <= n}
             Good == {n \in 0 .. N : Sifted(f[n], Upto(n), e)}
  <1>1. \A n \in 0 .. N : f[n] = IF n = 0 THEN <<>> ELSE IF n \in K THEN Append(f[n - 1], e[n]) ELSE f[n - 1]
    BY DEF Sifts
  <1>2. 0 \in Good
    <2>1. f[0] = <<>> /\ Upto(0) = {} /\ 0 \in 0 .. N
      BY <1>1
    <2>2. <<>> \in Seq({}) /\ ToSet(<<>>) = {} /\ IsInjective(<<>>)
      BY DEF ToSet, IsInjective
    <2>3. {e[n] : n \in {}} = {}
      OBVIOUS
    <2>4. Sifted(<<>>, {}, e)
      BY <2>2, <2>3 DEF Sifted
    <2> QED BY <2>1, <2>4
  <1>3. \A n \in 0 .. N - 1 : n \in Good => n + 1 \in Good
    <2> TAKE n \in 0 .. N - 1
    <2> HAVE n \in Good
    <2>1. n + 1 \in 0 .. N /\ n + 1 # 0 /\ (n + 1) - 1 = n
      OBVIOUS
    <2>2. f[n + 1] = IF n + 1 \in K THEN Append(f[n], e[n + 1]) ELSE f[n]
      BY <1>1, <2>1
    <2>3. CASE n + 1 \notin K
      <3>1. Upto(n + 1) = Upto(n)
        BY <2>3
      <3> QED BY <2>1, <2>2, <2>3, <3>1
    <2>4. CASE n + 1 \in K
      <3> DEFINE x == e[n + 1]
                 s == f[n]
                 T == {e[k] : k \in Upto(n)}
      <3>1. Upto(n + 1) = Upto(n) \cup {n + 1} /\ n + 1 \notin Upto(n)
        BY <2>4
      <3>2. {e[k] : k \in Upto(n + 1)} = T \cup {x}
        BY <3>1
      <3>3. s \in Seq(T) /\ ToSet(s) = T /\ ((\A i, j \in Upto(n) : e[i] = e[j] => i = j) => IsInjective(s))
        BY DEF Sifted
      <3>4. (\A i, j \in Upto(n + 1) : e[i] = e[j] => i = j)
            => (\A i, j \in Upto(n) : e[i] = e[j] => i = j) /\ x \notin T
        BY <3>1
      <3>5. f[n + 1] = Append(s, x)
        BY <2>2, <2>4
      <3> HIDE DEF T, x, s
      <3>6. /\ Append(s, x) \in Seq(T \cup {x}) /\ ToSet(Append(s, x)) = ToSet(s) \cup {x}
            /\ IsInjective(s) /\ x \notin ToSet(s) => IsInjective(Append(s, x))
        BY <3>3, OneMore
      <3>7. Sifted(f[n + 1], Upto(n + 1), e)
        <4> DEFINE a == f[n + 1]
        <4>1. a \in Seq(T \cup {x}) /\ ToSet(a) = T \cup {x}
              /\ ((\A i, j \in Upto(n + 1) : e[i] = e[j] => i = j) => IsInjective(a))
          BY <3>3, <3>4, <3>5, <3>6
        <4> HIDE DEF a
        <4>2. Sifted(a, Upto(n + 1), e)
          BY <3>2, <4>1 DEF Sifted
        <4> QED BY <4>2 DEF a
      <3> QED BY <2>1, <3>7
    <2> QED BY <2>3, <2>4
  <1>4. N \in Good
    <2> HIDE DEF Good
    <2> QED BY <1>2, <1>3, SetInduction
  <1>5. Upto(N) = K
    <2>1. \A k \in K : k \in 1 .. N /\ k <= N
      OBVIOUS
    <2> HIDE DEF Good
    <2> QED BY <2>1
  <1> QED BY <1>4, <1>5

LEMMA DirtyIs ==
  ASSUME NEW tab \in Seq(Item)
  PROVE  Sifted(check_dirty(tab), {n \in 1 .. Len(tab) : CanRead(tab[n])}, tab)
  <1> DEFINE N == Len(tab)
             K == {n \in 1 .. Len(tab) : CanRead(tab[n])}
             R(f) == [n \in 0 .. Len(tab) |->
                        IF n = 0 THEN <<>>
                        ELSE IF CanRead(tab[n]) THEN Append(f[n - 1], tab[n]) ELSE f[n - 1]]
             k == CHOOSE f : f = R(f)
  <1>1. N \in Nat /\ K \in SUBSET (1 .. N)
    OBVIOUS
  <1>2. ASSUME NEW f PROVE f = R(f) <=> Sifts(f, N, K, tab)
    <2> DEFINE Q == [n \in 0 .. N |-> IF n = 0 THEN <<>> ELSE IF n \in K THEN Append(f[n - 1], tab[n]) ELSE f[n - 1]]
    <2>1. \A n \in 0 .. N : Q[n] = R(f)[n]
      <3> TAKE n \in 0 .. N
      <3>1. n # 0 => (n \in K <=> CanRead(tab[n]))
        OBVIOUS
      <3> HIDE DEF K
      <3> QED BY <3>1
    <2>2. Q = [n \in 0 .. N |-> Q[n]] /\ R(f) = [n \in 0 .. N |-> R(f)[n]]
      OBVIOUS
    <2>3. Q = R(f)
      <3> HIDE DEF Q, R
      <3> QED BY <2>1, <2>2
    <2> HIDE DEF R
    <2> QED BY <2>3 DEF Sifts
  <1>3. \E f : Sifts(f, N, K, tab)
    <2> HIDE DEF N, K
    <2> QED BY <1>1, SiftExists
  <1>4. k = R(k)
    <2> HIDE DEF R
    <2> QED BY <1>2, <1>3
  <1>5. Sifts(k, N, K, tab)
    <2> HIDE DEF R, k
    <2> QED BY <1>2, <1>4
  <1>6. check_dirty(tab) = k[N]
    BY DEF check_dirty
  <1>7. Sifted(k[N], K, tab)
    <2> HIDE DEF N, K, k
    <2> QED BY <1>1, <1>5, SiftIs
  <1> QED BY <1>6, <1>7

\* The items of a set of descriptors, by the table that the first pass made.
LEMMA ReturnIs ==
  ASSUME NEW max \in Nat, NEW set, NEW itab
  PROVE  Sifted(return_fd(set, max, itab), {n \in 1 .. max : n - 1 \in set}, [n \in 1 .. max |-> itab[n - 1]])
  <1> DEFINE N == max
             K == {n \in 1 .. max : n - 1 \in set}
             e == [n \in 1 .. max |-> itab[n - 1]]
             R(f) == [n \in 0 .. max |->
                        IF n = 0 THEN <<>>
                        ELSE IF n - 1 \in set THEN Append(f[n - 1], itab[n - 1]) ELSE f[n - 1]]
             k == CHOOSE f : f = R(f)
  <1>1. N \in Nat /\ K \in SUBSET (1 .. N)
    OBVIOUS
  <1>2. ASSUME NEW f PROVE f = R(f) <=> Sifts(f, N, K, e)
    <2> DEFINE Q == [n \in 0 .. N |-> IF n = 0 THEN <<>> ELSE IF n \in K THEN Append(f[n - 1], e[n]) ELSE f[n - 1]]
    <2>1. \A n \in 0 .. N : Q[n] = R(f)[n]
      <3> TAKE n \in 0 .. N
      <3>1. n # 0 => (n \in K <=> n - 1 \in set) /\ e[n] = itab[n - 1]
        OBVIOUS
      <3> HIDE DEF K, e
      <3> QED BY <3>1
    <2>2. Q = [n \in 0 .. N |-> Q[n]] /\ R(f) = [n \in 0 .. N |-> R(f)[n]]
      OBVIOUS
    <2>3. Q = R(f)
      <3> HIDE DEF Q, R
      <3> QED BY <2>1, <2>2
    <2> HIDE DEF R
    <2> QED BY <2>3 DEF Sifts
  <1>3. \E f : Sifts(f, N, K, e)
    <2> HIDE DEF N, K, e
    <2> QED BY <1>1, SiftExists
  <1>4. k = R(k)
    <2> HIDE DEF R
    <2> QED BY <1>2, <1>3
  <1>5. Sifts(k, N, K, e)
    <2> HIDE DEF R, k
    <2> QED BY <1>2, <1>4
  <1>6. return_fd(set, max, itab) = k[N]
    BY DEF return_fd
  <1>7. Sifted(k[N], K, e)
    <2> HIDE DEF N, K, k, e
    <2> QED BY <1>1, <1>5, SiftIs
  <1> QED BY <1>6, <1>7

-----------------------------------------------------------------------------
\* What the pass over the tables makes of them.
Tabs == UNION {[D -> Item] : D \in SUBSET Fds}
Passes == [set: SUBSET Fds, max: Fds \cup {-1}, wrong: BOOLEAN, itab: Tabs]
Maps(c) ==
  /\ c \in Passes /\ c.set \subseteq DOMAIN c.itab
  /\ \A d \in DOMAIN c.itab : d \in Fds /\ d <= c.max /\ c.itab[d] \in Item /\ fdOf[c.itab[d]] = d
After(c, b) == DOMAIN b.itab \subseteq DOMAIN c.itab

LEMMA CollectedIs ==
  ASSUME fdOf \in [Item -> Fds \cup {-1}], NEW c, Maps(c), NEW item \in Item
  PROVE  /\ Maps(Collected(c, item)) /\ After(Collected(c, item), c)
         /\ Collected(c, item).set = c.set \cup ({fdOf[item]} \ {-1})
  <1> DEFINE num == fdOf[item]
             v == Collected(c, item)
             D == DOMAIN c.itab \cup {num}
             t == [k \in D |-> IF k = num THEN item ELSE c.itab[k]]
             m == Biggest(c.max, num)
  <1>0. c \in Passes /\ Fds \subseteq Nat
    BY SelectAssumption DEF Maps
  <1>3. c.max \in Fds \cup {-1}
    BY <1>0 DEF Passes
  <1>4. c.max \in Int /\ \A d \in Fds : d \in Int
    <2> DEFINE b == c.max
    <2>1. b \in Fds \cup {-1}
      BY <1>3
    <2>2. \A d \in Fds : d \in Int
      BY <1>0
    <2> HIDE DEF b
    <2>3. b = -1 \/ b \in Fds
      BY <2>1
    <2>4. b \in Int
      BY <2>2, <2>3
    <2> QED BY <2>2, <2>4 DEF b
  <1>1. CASE num = -1
    <2>1. v = c
      BY <1>1 DEF Collected
    <2>2. Maps(v) /\ After(v, c)
      BY <1>4, <2>1 DEF After
    <2>3. v.set = c.set \cup ({fdOf[item]} \ {-1})
      BY <1>1, <2>1
    <2> QED BY <2>2, <2>3
  <1>2. CASE num # -1
    <2>1. v = [set |-> c.set \cup {num}, max |-> m, wrong |-> c.wrong \/ num >= SetSize, itab |-> t]
      BY <1>2 DEF Collected
    <2>2. v.set = c.set \cup {num} /\ v.max = m /\ v.itab = t /\ v.wrong = (c.wrong \/ num >= SetSize)
      BY <2>1
    <2>3. num \in Fds
      BY <1>2
    <2>4. D \in SUBSET Fds /\ DOMAIN c.itab \subseteq D /\ num \in D
      BY <2>3 DEF Maps
    <2>5. m \in Fds \cup {-1} /\ m >= c.max /\ m >= num
      <3> DEFINE b == c.max
      <3> HIDE DEF b, num
      <3> QED BY <1>3, <1>4, <2>3 DEF Biggest, b
    <2>6. \A d \in D : t[d] \in Item /\ fdOf[t[d]] = d /\ d <= m
      <3> TAKE d \in D
      <3>1. CASE d = num
        BY <2>5, <3>1
      <3>2. CASE d # num
        <4>1. d \in DOMAIN c.itab /\ t[d] = c.itab[d]
          BY <3>2
        <4>2. d \in Fds /\ d <= c.max /\ c.itab[d] \in Item /\ fdOf[c.itab[d]] = d
          BY <4>1 DEF Maps
        <4>3. m \in Int
          BY <1>4, <2>5
        <4>4. d <= m
          <5> DEFINE b == c.max
          <5> HIDE DEF b, m
          <5> QED BY <1>4, <2>5, <4>2, <4>3 DEF b
        <4> QED BY <4>1, <4>2, <4>4
      <3> QED BY <3>1, <3>2
    <2>7. t \in [D -> Item] /\ DOMAIN t = D
      BY <2>6
    <2>8. t \in Tabs
      <3> HIDE DEF t, D
      <3> QED BY <2>4, <2>7 DEF Tabs
    <2>9. v \in Passes
      <3>1. (c.wrong \/ num >= SetSize) \in BOOLEAN /\ c.set \cup {num} \in SUBSET Fds
        BY <1>0, <2>3 DEF Passes
      <3> HIDE DEF v, t, m
      <3> QED BY <2>1, <2>5, <2>8, <3>1 DEF Passes
    <2> HIDE DEF v, t, m, D
    <2>10. Maps(v)
      BY <2>2, <2>4, <2>6, <2>7, <2>9 DEF Maps
    <2>11. After(v, c)
      BY <2>2, <2>4, <2>5, <2>7 DEF After
    <2> QED BY <1>2, <2>2, <2>10, <2>11 DEF v
  <1> QED BY <1>1, <1>2

LEMMA CollectIs ==
  ASSUME fdOf \in [Item -> Fds \cup {-1}], NEW tab \in Seq(Item), NEW c, Maps(c),
         NEW r, r = collect_fd(c, tab)
  PROVE  Maps(r) /\ After(r, c) /\ r.set = {fdOf[tab[i]] : i \in 1 .. Len(tab)} \ {-1}
  <1> DEFINE N == Len(tab)
             X == {x \in Passes : Maps(x)}
             start == [c EXCEPT !.set = {}]
             G == [n \in 1 .. N |-> [x \in X |-> Collected(x, tab[n])]]
             R(f) == [n \in 0 .. Len(tab) |-> IF n = 0 THEN [c EXCEPT !.set = {}] ELSE Collected(f[n - 1], tab[n])]
             k == CHOOSE f : f = R(f)
             To(n) == {fdOf[tab[i]] : i \in 1 .. n} \ {-1}
             Good == {n \in 0 .. N : Maps(k[n]) /\ After(k[n], c) /\ k[n].set = To(n)}
  <1>1. N \in Nat /\ \A n \in 1 .. N : tab[n] \in Item
    OBVIOUS
  <1>2. start \in X /\ Maps(start) /\ After(start, c) /\ start.set = {}
    <2>1. c \in Passes
      BY DEF Maps
    <2>2. start \in Passes /\ start.set = {} /\ start.max = c.max /\ start.itab = c.itab
      BY <2>1 DEF Passes
    <2> HIDE DEF start
    <2>3. Maps(start) /\ After(start, c)
      BY <2>2 DEF Maps, After
    <2> QED BY <2>2, <2>3
  <1>3. \A x : Maps(x) => x \in X
    BY DEF Maps
  <1>4. \A n \in 1 .. N : \A x \in X : Collected(x, tab[n]) \in X
    <2> SUFFICES ASSUME NEW n \in 1 .. N, NEW x \in X PROVE Collected(x, tab[n]) \in X
      OBVIOUS
    <2>1. Maps(x) /\ tab[n] \in Item
      BY <1>1
    <2> DEFINE item == tab[n]
    <2> HIDE DEF X, item
    <2>2. Maps(Collected(x, item))
      BY <2>1, CollectedIs DEF item
    <2> QED BY <1>3, <2>2 DEF item
  <1>5. G \in [1 .. N -> [X -> X]]
    <2> HIDE DEF X
    <2> QED BY <1>4
  <1>6. \A n \in 1 .. N : \A x \in X : G[n][x] = Collected(x, tab[n])
    <2> HIDE DEF X
    <2> QED OBVIOUS
  <1> HIDE DEF G, X
  <1>7. \E f : f = R(f)
    <2>1. PICK f \in [0 .. N -> X] : f[0] = start /\ \A n \in 1 .. N : f[n] = G[n][f[n - 1]]
      <3> HIDE DEF start, N, R, k
      <3>1. start \in X /\ N \in Nat /\ G \in [1 .. N -> [X -> X]]
        BY <1>1, <1>2, <1>5
      <3> QED BY ONLY <3>1, LoopExists
    <2>2. \A n \in 1 .. N : f[n] = Collected(f[n - 1], tab[n])
      <3> TAKE n \in 1 .. N
      <3>1. f[n - 1] \in X
        OBVIOUS
      <3> QED BY <1>6, <2>1, <3>1
    <2>3. \A n \in 0 .. N : R(f)[n] = f[n]
      BY <2>1, <2>2
    <2>4. f = [n \in 0 .. N |-> f[n]] /\ R(f) = [n \in 0 .. N |-> R(f)[n]]
      OBVIOUS
    <2>5. f = R(f)
      <3> HIDE DEF R
      <3> QED BY <2>3, <2>4
    <2> HIDE DEF R
    <2> QED BY <2>5
  <1>8. k = R(k)
    <2> HIDE DEF R
    <2> QED BY <1>7
  <1>9. k[0] = start /\ \A n \in 1 .. N : k[n] = Collected(k[n - 1], tab[n])
    <2>1. \A n \in 0 .. N : R(k)[n] = IF n = 0 THEN start ELSE Collected(k[n - 1], tab[n])
      OBVIOUS
    <2> HIDE DEF R, k, start
    <2>2. \A n \in 0 .. N : k[n] = IF n = 0 THEN start ELSE Collected(k[n - 1], tab[n])
      BY <1>8, <2>1
    <2>3. 0 \in 0 .. N /\ \A n \in 1 .. N : n \in 0 .. N /\ n # 0
      BY <1>1
    <2> QED BY <2>2, <2>3
  <1>10. r = k[N]
    BY DEF collect_fd
  <1> HIDE DEF k, start
  <1>11. 0 \in Good
    <2>1. To(0) = {}
      OBVIOUS
    <2> QED BY <1>1, <1>2, <1>9, <2>1
  <1>12. \A n \in 0 .. N - 1 : n \in Good => n + 1 \in Good
    <2> TAKE n \in 0 .. N - 1
    <2> HAVE n \in Good
    <2>1. n + 1 \in 1 .. N /\ (n + 1) - 1 = n /\ n + 1 \in 0 .. N
      BY <1>1
    <2> DEFINE x == k[n]
               y == k[n + 1]
               item == tab[n + 1]
    <2>2. y = Collected(x, item) /\ item \in Item /\ Maps(x) /\ After(x, c) /\ x.set = To(n)
      BY <1>1, <1>9, <2>1
    <2>3. To(n + 1) = To(n) \cup ({fdOf[item]} \ {-1})
      BY <2>1
    <2> HIDE DEF x, y, item, To
    <2>4. Maps(y) /\ After(y, x) /\ y.set = x.set \cup ({fdOf[item]} \ {-1})
      BY <2>2, CollectedIs
    <2>5. After(y, c)
      BY <2>2, <2>4 DEF After
    <2> QED BY <2>1, <2>2, <2>3, <2>4, <2>5 DEF y
  <1>13. N \in Good
    <2> HIDE DEF Good, N
    <2> QED BY <1>1, <1>11, <1>12, SetInduction
  <1> QED BY <1>10, <1>13

-----------------------------------------------------------------------------
\* No two objects that are open share a descriptor: getfd gives what the system gave.
Apart ==
  /\ fdOf \in [Item -> Fds \cup {-1}]
  /\ \A i, j \in Item : i # j /\ fdOf[i] = fdOf[j] => fdOf[i] = -1
Found(s, set) == ToSet(s) = {i \in Item : fdOf[i] \in set} /\ IsInjective(s) /\ s \in Seq(ToSet(s))

LEMMA FoundIs ==
  ASSUME Apart, NEW c, Maps(c), NEW set \in SUBSET (DOMAIN c.itab)
  PROVE  Found(return_fd(set, c.max + 1, c.itab), set)
  <1> DEFINE max == c.max + 1
             t == c.itab
             K == {n \in 1 .. max : n - 1 \in set}
             e == [n \in 1 .. max |-> t[n - 1]]
             s == return_fd(set, max, t)
             T == {e[n] : n \in K}
  <1>1. c.max \in Fds \cup {-1} /\ Fds \subseteq Nat
    BY SelectAssumption DEF Maps, Passes
  <1>2. max \in Nat
    <2> DEFINE b == c.max
    <2>1. b = -1 \/ b \in Nat
      BY <1>1
    <2> HIDE DEF b
    <2>2. b + 1 \in Nat
      BY <2>1
    <2> QED BY <2>2 DEF b
  <1>3. \A d \in DOMAIN t : d \in Fds /\ d \in Nat /\ d + 1 \in 1 .. max /\ t[d] \in Item /\ fdOf[t[d]] = d
    <2> TAKE d \in DOMAIN t
    <2>1. d \in Fds /\ d <= c.max /\ t[d] \in Item /\ fdOf[t[d]] = d
      BY DEF Maps
    <2> DEFINE b == c.max
    <2>2. b = -1 \/ b \in Nat
      BY <1>1
    <2>3. d \in Nat
      BY <1>1, <2>1
    <2> HIDE DEF b
    <2>4. d + 1 \in 1 .. b + 1
      BY <2>1, <2>2, <2>3 DEF b
    <2> QED BY <2>1, <2>3, <2>4 DEF b
  <1>4. Sifted(s, K, e)
    <2> HIDE DEF max, t
    <2> QED BY <1>2, ReturnIs
  <1> HIDE DEF s, max, t
  <1>5. \A d \in set : d + 1 \in K /\ e[d + 1] = t[d] /\ d \in DOMAIN t
    <2> TAKE d \in set
    <2>1. d \in DOMAIN t
      BY DEF t
    <2>2. d + 1 \in 1 .. max /\ (d + 1) - 1 = d
      BY <1>3, <2>1
    <2> QED BY <2>1, <2>2
  <1>6. \A n \in K : n - 1 \in set /\ e[n] = t[n - 1] /\ n \in Nat
    BY <1>2
  <1>7. T = {i \in Item : fdOf[i] \in set}
    <2>1. ASSUME NEW i \in T PROVE i \in Item /\ fdOf[i] \in set
      <3>1. PICK n \in K : i = e[n]
        OBVIOUS
      <3>2. n - 1 \in set /\ i = t[n - 1]
        BY <1>6, <3>1
      <3> QED BY <1>3, <1>5, <3>2
    <2>2. ASSUME NEW i \in Item, fdOf[i] \in set PROVE i \in T
      <3> DEFINE d == fdOf[i]
      <3>1. d \in set /\ d \in DOMAIN t /\ d + 1 \in K /\ e[d + 1] = t[d]
        BY <1>5, <2>2
      <3>2. t[d] \in Item /\ fdOf[t[d]] = fdOf[i] /\ fdOf[i] # -1
        BY <1>3, <3>1
      <3>3. t[d] = i
        BY <3>2 DEF Apart
      <3> HIDE DEF K, e, d
      <3>4. e[d + 1] \in T
        BY <3>1
      <3> QED BY <3>1, <3>3, <3>4
    <2> HIDE DEF T
    <2> QED BY <2>1, <2>2
  <1>8. \A m, n \in K : e[m] = e[n] => m = n
    <2> SUFFICES ASSUME NEW m \in K, NEW n \in K, e[m] = e[n] PROVE m = n
      OBVIOUS
    <2>1. m - 1 \in set /\ n - 1 \in set /\ t[m - 1] = t[n - 1] /\ m \in Nat /\ n \in Nat
      BY <1>6
    <2>2. m - 1 = n - 1
      BY <1>3, <1>5, <2>1
    <2> QED BY <2>1, <2>2
  <1>9. s \in Seq(T) /\ ToSet(s) = T /\ IsInjective(s)
    <2> HIDE DEF K, e
    <2> QED BY <1>4, <1>8 DEF Sifted
  <1>10. Found(s, set)
    <2> HIDE DEF T
    <2> QED BY <1>7, <1>9 DEF Found
  <1> QED BY <1>10 DEF s, max, t

HasBoth(u, s, t) ==
  /\ ToSet(u) = ToSet(s) \cup ToSet(t)
  /\ IsInjective(s) /\ IsInjective(t) /\ ToSet(s) \cap ToSet(t) = {} => IsInjective(u)

LEMMA Joined ==
  ASSUME NEW S, NEW T, NEW s \in Seq(S), NEW t \in Seq(T), NEW u, u = s \o t
  PROVE  HasBoth(u, s, t)
  <1> DEFINE a == Len(s)
             b == Len(t)
  <1>1. /\ a \in Nat /\ b \in Nat /\ DOMAIN s = 1 .. a /\ DOMAIN t = 1 .. b /\ DOMAIN u = 1 .. a + b
        /\ (\A i \in 1 .. a : u[i] = s[i]) /\ \A i \in 1 .. b : u[a + i] = t[i]
    <2>1. s \in Seq(S \cup T) /\ t \in Seq(S \cup T)
      <3>1. s \in [1 .. Len(s) -> S] /\ Len(s) \in Nat /\ t \in [1 .. Len(t) -> T] /\ Len(t) \in Nat
        OBVIOUS
      <3>2. s \in [1 .. Len(s) -> S \cup T] /\ t \in [1 .. Len(t) -> S \cup T]
        BY <3>1
      <3> QED BY <3>1, <3>2, SeqDef
    <2> QED BY <2>1
  <1> HIDE DEF a, b
  <1>2. \A i \in 1 .. a + b : i \in 1 .. a \/ (i - a \in 1 .. b /\ i = a + (i - a) /\ u[i] = t[i - a])
    <2> TAKE i \in 1 .. a + b
    <2>1. i \in 1 .. a \/ (i - a \in 1 .. b /\ i = a + (i - a))
      BY <1>1
    <2> QED BY <1>1, <2>1
  <1>3. ToSet(u) = ToSet(s) \cup ToSet(t)
    <2>1. \A i \in 1 .. a + b : u[i] \in ToSet(s) \cup ToSet(t)
      BY <1>1, <1>2 DEF ToSet
    <2>2. \A i \in 1 .. a : s[i] \in ToSet(u)
      <3> TAKE i \in 1 .. a
      <3>1. i \in DOMAIN u /\ u[i] = s[i]
        BY <1>1
      <3> QED BY <3>1 DEF ToSet
    <2>3. \A i \in 1 .. b : t[i] \in ToSet(u)
      <3> TAKE i \in 1 .. b
      <3>1. a + i \in DOMAIN u /\ u[a + i] = t[i]
        BY <1>1
      <3> QED BY <3>1 DEF ToSet
    <2>4. ASSUME NEW x \in ToSet(u) PROVE x \in ToSet(s) \cup ToSet(t)
      <3>1. PICK i \in 1 .. a + b : x = u[i]
        BY <1>1 DEF ToSet
      <3> QED BY <2>1, <3>1
    <2>5. ASSUME NEW x \in ToSet(s) \cup ToSet(t) PROVE x \in ToSet(u)
      <3>1. (\E i \in 1 .. a : x = s[i]) \/ \E i \in 1 .. b : x = t[i]
        BY <1>1 DEF ToSet
      <3> QED BY <2>2, <2>3, <3>1
    <2> QED BY <2>4, <2>5
  <1>4. ASSUME IsInjective(s), IsInjective(t), ToSet(s) \cap ToSet(t) = {} PROVE IsInjective(u)
    <2> SUFFICES ASSUME NEW i \in 1 .. a + b, NEW j \in 1 .. a + b, u[i] = u[j] PROVE i = j
      BY <1>1 DEF IsInjective
    <2>1. \A x \in 1 .. a, y \in 1 .. b : s[x] # t[y]
      BY <1>1, <1>4 DEF ToSet
    <2>2. CASE i \in 1 .. a /\ j \in 1 .. a
      BY <1>1, <1>4, <2>2 DEF IsInjective
    <2>3. CASE i \notin 1 .. a /\ j \notin 1 .. a
      <3>1. i - a \in 1 .. b /\ j - a \in 1 .. b /\ t[i - a] = t[j - a]
        BY <1>2, <2>3
      <3>2. i - a = j - a
        BY <1>1, <1>4, <3>1 DEF IsInjective
      <3> QED BY <1>1, <3>2
    <2>4. CASE i \in 1 .. a /\ j \notin 1 .. a
      BY <1>1, <1>2, <2>1, <2>4
    <2>5. CASE i \notin 1 .. a /\ j \in 1 .. a
      BY <1>1, <1>2, <2>1, <2>5
    <2> QED BY <2>2, <2>3, <2>4, <2>5
  <1> QED BY <1>3, <1>4 DEF HasBoth

-----------------------------------------------------------------------------
(* select finds what is ready.                                             *)

\* The inductive invariant: who calls, with what, and what came of it.
SelectInv ==
  /\ Apart /\ request.r \in Seq(Item) /\ request.w \in Seq(Item) /\ kernel.fails \in BOOLEAN
  /\ SelectFindsAll

LEMMA NothingFound == ToSet(<<>>) = {} /\ IsInjective(<<>>)
  BY DEF ToSet, IsInjective

LEMMA SelectInitially == SelectInit => SelectInv
  <1> SUFFICES ASSUME SelectInit PROVE SelectInv
    OBVIOUS
  <1>1. Apart
    BY DEF SelectInit, Apart
  <1>2. request.r \in Tables /\ request.w \in Tables /\ kernel.fails \in BOOLEAN
    <2>1. request \in [r: Tables, w: Tables, t: {-1, 5}]
      BY DEF SelectInit
    <2>2. kernel.fails \in BOOLEAN
      BY DEF SelectInit
    <2> QED BY <2>1, <2>2
  <1>3. result.err = "running"
    BY DEF SelectInit, NoResult
  <1>4. SelectFindsAll
    BY <1>3 DEF SelectFindsAll
  <1> QED BY <1>1, <1>2, <1>4, SelectAssumption DEF SelectInv

\* A table's objects that are open, and their descriptors.
LEMMA Wanted ==
  ASSUME Apart, NEW tab \in Seq(Item), NEW set, set = {fdOf[tab[i]] : i \in 1 .. Len(tab)} \ {-1}
  PROVE  /\ Open(tab) \subseteq Item
         /\ \A i \in Item : fdOf[i] \in set <=> i \in Open(tab)
  <1>1. DOMAIN tab = 1 .. Len(tab) /\ \A i \in 1 .. Len(tab) : tab[i] \in Item
    OBVIOUS
  <1>2. Open(tab) = {item \in {tab[i] : i \in 1 .. Len(tab)} : fdOf[item] # -1}
    BY <1>1 DEF Open, ToSet
  <1>3. ASSUME NEW i \in Item, fdOf[i] \in set PROVE i \in Open(tab)
    <2>1. PICK n \in 1 .. Len(tab) : fdOf[i] = fdOf[tab[n]] /\ fdOf[i] # -1
      BY <1>3
    <2>2. i = tab[n]
      BY <1>1, <2>1 DEF Apart
    <2> QED BY <1>2, <2>1, <2>2
  <1>4. ASSUME NEW i \in Open(tab) PROVE i \in Item /\ fdOf[i] \in set
    BY <1>1, <1>2
  <1> QED BY <1>3, <1>4

LEMMA DirtyFound ==
  ASSUME NEW tab \in Seq(Item), NEW s, s = check_dirty(tab)
  PROVE  /\ s \in Seq(ToSet(s)) /\ ToSet(s) = Open(tab) \cap isDirty
         /\ IsInjective(tab) => IsInjective(s)
         /\ s = <<>> <=> ToSet(s) = {}
  <1> DEFINE K == {n \in 1 .. Len(tab) : CanRead(tab[n])}
             T == {tab[n] : n \in K}
  <1>1. Sifted(s, K, tab)
    BY DirtyIs
  <1>2. s \in Seq(T) /\ ToSet(s) = T
    <2> HIDE DEF K
    <2> QED BY <1>1 DEF Sifted
  <1>3. DOMAIN tab = 1 .. Len(tab)
    OBVIOUS
  <1>4. T = Open(tab) \cap isDirty
    BY <1>3 DEF Open, ToSet, CanRead
  <1>5. IsInjective(tab) => IsInjective(s)
    <2> HAVE IsInjective(tab)
    <2>1. \A m, n \in K : tab[m] = tab[n] => m = n
      BY <1>3 DEF IsInjective
    <2> HIDE DEF K
    <2> QED BY <1>1, <2>1 DEF Sifted
  <1> HIDE DEF T, K
  <1>6. s = <<>> <=> ToSet(s) = {}
    <2>1. ASSUME s # <<>> PROVE ToSet(s) # {}
      <3>1. 1 \in DOMAIN s
        BY <1>2, <2>1
      <3> QED BY <3>1 DEF ToSet
    <2> QED BY <2>1, NothingFound
  <1> QED BY <1>2, <1>4, <1>5, <1>6

Right(res, w) ==
  res.err # "running" /\ ~kernel.fails =>
    /\ res.err = "none" => ToSet(res.r) = Readable /\ ToSet(res.w) = Writable
    /\ res.err = "timeout" => Readable = {} /\ Writable = {}
    /\ IsInjective(request.r) => IsInjective(res.r)
    /\ IsInjective(res.w)
    /\ res.err = "none" /\ Open(request.r) \cap isDirty # {} => w = 0

LEMMA SelectIsRight ==
  ASSUME SelectInv, NEW res, NEW t, res = result', t = waits', global_select
  PROVE  Right(res, t)
  <1> DEFINE reading == collect_fd(Collecting, request.r)
             both == collect_fd(reading, request.w)
             dirty == check_dirty(request.r)
             rset == reading.set \ {fdOf[dirty[k]] : k \in DOMAIN dirty}
             rs == IF kernel.fails THEN rset ELSE rset \cap kernel.r
             ws == IF kernel.fails THEN both.set ELSE both.set \cap kernel.w
             max == both.max + 1
             back == return_fd(rs, max, both.itab)
             ready == return_fd(ws, max, both.itab)
             returned == [r |-> dirty \o back, w |-> ready, err |-> "none"]
  <1>1. \/ both.wrong /\ res = [NoResult EXCEPT !.err = "too large"]
        \/ /\ t = IF dirty # <<>> THEN 0 ELSE request.t
           /\ \/ res = returned
              \/ dirty = <<>> /\ kernel.fails
              \/ /\ dirty = <<>> /\ ~kernel.fails /\ rs \cup ws = {}
                 /\ res = [NoResult EXCEPT !.err = "timeout"]
    BY DEF global_select
  <1> SUFFICES ASSUME ~kernel.fails PROVE Right(res, t)
    BY DEF Right
  <1>2. rs = rset \cap kernel.r /\ ws = both.set \cap kernel.w
    OBVIOUS
  <1>3. Apart /\ request.r \in Seq(Item) /\ request.w \in Seq(Item)
    BY DEF SelectInv
  <1>4. Maps(Collecting)
    <2>1. Collecting.itab = <<>> /\ DOMAIN <<>> = {} /\ Collecting.set = {} /\ Collecting.max = -1
      BY DEF Collecting
    <2>2. <<>> \in [{} -> Item]
      OBVIOUS
    <2>3. <<>> \in Tabs
      BY <2>2 DEF Tabs
    <2>4. Collecting \in Passes
      BY <2>3 DEF Collecting, Passes
    <2> QED BY <2>1, <2>4 DEF Maps
  <1> HIDE DEF reading
  <1>5. Maps(reading) /\ reading.set = {fdOf[request.r[i]] : i \in 1 .. Len(request.r)} \ {-1}
    <2> DEFINE tab == request.r
               c == Collecting
    <2>1. fdOf \in [Item -> Fds \cup {-1}] /\ tab \in Seq(Item) /\ Maps(c) /\ reading = collect_fd(c, tab)
      BY <1>3, <1>4 DEF Apart, reading
    <2> HIDE DEF tab, c
    <2>2. Maps(reading) /\ reading.set = {fdOf[tab[i]] : i \in 1 .. Len(tab)} \ {-1}
      BY ONLY <2>1, CollectIs
    <2> QED BY <2>2 DEF tab
  <1> HIDE DEF both
  <1>6. Maps(both) /\ After(both, reading) /\ both.set = {fdOf[request.w[i]] : i \in 1 .. Len(request.w)} \ {-1}
    <2> DEFINE tab == request.w
    <2>1. fdOf \in [Item -> Fds \cup {-1}] /\ tab \in Seq(Item) /\ Maps(reading) /\ both = collect_fd(reading, tab)
      BY <1>3, <1>5 DEF Apart, both
    <2> HIDE DEF tab
    <2>2. Maps(both) /\ After(both, reading) /\ both.set = {fdOf[tab[i]] : i \in 1 .. Len(tab)} \ {-1}
      BY ONLY <2>1, CollectIs
    <2> QED BY <2>2 DEF tab
  <1> HIDE DEF dirty
  <1>7. /\ dirty \in Seq(ToSet(dirty)) /\ ToSet(dirty) = Open(request.r) \cap isDirty
        /\ IsInjective(request.r) => IsInjective(dirty)
        /\ dirty = <<>> <=> ToSet(dirty) = {}
    <2> DEFINE tab == request.r
    <2>1. dirty = check_dirty(tab) /\ tab \in Seq(Item)
      BY <1>3 DEF dirty
    <2> HIDE DEF tab
    <2>2. /\ dirty \in Seq(ToSet(dirty)) /\ ToSet(dirty) = Open(tab) \cap isDirty
          /\ IsInjective(tab) => IsInjective(dirty)
          /\ dirty = <<>> <=> ToSet(dirty) = {}
      BY ONLY <2>1, DirtyFound
    <2> QED BY <2>2 DEF tab
  <1>8. /\ Open(request.r) \subseteq Item /\ \A i \in Item : fdOf[i] \in reading.set <=> i \in Open(request.r)
        /\ Open(request.w) \subseteq Item /\ \A i \in Item : fdOf[i] \in both.set <=> i \in Open(request.w)
    <2> DEFINE a == request.r
               b == request.w
               p == reading.set
               q == both.set
    <2>1. /\ Apart /\ a \in Seq(Item) /\ p = {fdOf[a[i]] : i \in 1 .. Len(a)} \ {-1}
          /\ b \in Seq(Item) /\ q = {fdOf[b[i]] : i \in 1 .. Len(b)} \ {-1}
      BY <1>3, <1>5, <1>6
    <2> HIDE DEF a, b, p, q
    <2>2. Open(a) \subseteq Item /\ \A i \in Item : fdOf[i] \in p <=> i \in Open(a)
      BY ONLY <2>1, Wanted
    <2>3. Open(b) \subseteq Item /\ \A i \in Item : fdOf[i] \in q <=> i \in Open(b)
      BY ONLY <2>1, Wanted
    <2> QED BY <2>2, <2>3 DEF a, b, p, q
  <1>9. {fdOf[dirty[k]] : k \in DOMAIN dirty} = {fdOf[i] : i \in ToSet(dirty)}
    BY DEF ToSet
  <1>10. \A i \in Item : fdOf[i] \in rset <=> i \in Open(request.r) /\ i \notin isDirty
    <2> TAKE i \in Item
    <2>1. ASSUME i \in Open(request.r), i \notin isDirty PROVE fdOf[i] \in rset
      <3>1. fdOf[i] # -1
        BY <2>1 DEF Open
      <3>2. \A j \in ToSet(dirty) : fdOf[j] # fdOf[i]
        BY <1>3, <1>7, <1>8, <2>1, <3>1 DEF Apart
      <3> QED BY <1>8, <1>9, <2>1, <3>2
    <2>2. ASSUME fdOf[i] \in rset PROVE i \in Open(request.r) /\ i \notin isDirty
      BY <1>7, <1>8, <1>9, <2>2
    <2> QED BY <2>1, <2>2
  <1> HIDE DEF rset
  <1>11. rs \subseteq DOMAIN both.itab /\ ws \subseteq DOMAIN both.itab
    <2>1. rset \subseteq reading.set
      BY DEF rset
    <2> QED BY <1>2, <1>5, <1>6, <2>1 DEF Maps, After
  <1> HIDE DEF rs, ws
  <1>12. Found(back, rs) /\ Found(ready, ws)
    <2> HIDE DEF max
    <2>1. Found(return_fd(rs, both.max + 1, both.itab), rs)
      BY ONLY <1>3, <1>6, <1>11, FoundIs
    <2>2. Found(return_fd(ws, both.max + 1, both.itab), ws)
      BY ONLY <1>3, <1>6, <1>11, FoundIs
    <2> QED BY <2>1, <2>2 DEF max
  <1> HIDE DEF back, ready
  <1>13. /\ ToSet(back) = {i \in Item : fdOf[i] \in rs} /\ IsInjective(back) /\ back \in Seq(ToSet(back))
         /\ ToSet(ready) = {i \in Item : fdOf[i] \in ws} /\ IsInjective(ready)
    BY <1>12 DEF Found
  <1>14. /\ ToSet(back) = {i \in Open(request.r) : i \notin isDirty /\ fdOf[i] \in kernel.r}
         /\ ToSet(ready) = Writable
    BY <1>2, <1>8, <1>10, <1>13 DEF Writable
  <1>15. Readable = ToSet(dirty) \cup ToSet(back) /\ ToSet(dirty) \cap ToSet(back) = {}
    BY <1>7, <1>14 DEF Readable
  <1>16. CASE res = [NoResult EXCEPT !.err = "too large"]
    <2>1. res.err = "too large" /\ res.r = <<>> /\ res.w = <<>>
      BY <1>16 DEF NoResult
    <2> QED BY <2>1, NothingFound DEF Right
  <1>17. CASE dirty = <<>> /\ rs \cup ws = {} /\ res = [NoResult EXCEPT !.err = "timeout"]
    <2>1. res.err = "timeout" /\ res.r = <<>> /\ res.w = <<>>
      BY <1>17 DEF NoResult
    <2>2. ToSet(dirty) = {} /\ ToSet(back) = {} /\ ToSet(ready) = {}
      BY <1>7, <1>13, <1>17
    <2> QED BY <1>14, <1>15, <2>1, <2>2, NothingFound DEF Right
  <1>18. CASE res = returned /\ t = IF dirty # <<>> THEN 0 ELSE request.t
    <2> DEFINE u == dirty \o back
    <2>1. res.err = "none" /\ res.r = u /\ res.w = ready
      BY <1>18
    <2>2. /\ ToSet(u) = ToSet(dirty) \cup ToSet(back)
          /\ IsInjective(dirty) /\ IsInjective(back) /\ ToSet(dirty) \cap ToSet(back) = {} => IsInjective(u)
      <3> DEFINE S == ToSet(dirty)
                 T == ToSet(back)
      <3>1. dirty \in Seq(S) /\ back \in Seq(T) /\ u = dirty \o back
        BY <1>7, <1>13
      <3> HIDE DEF S, T, u
      <3>2. HasBoth(u, dirty, back)
        BY ONLY <3>1, Joined
      <3> QED BY <3>2 DEF HasBoth
    <2> HIDE DEF u
    <2>3. Open(request.r) \cap isDirty # {} => t = 0
      BY <1>7, <1>18
    <2> QED BY <1>7, <1>13, <1>14, <1>15, <2>1, <2>2, <2>3 DEF Right
  <1> QED BY <1>1, <1>16, <1>17, <1>18

LEMMA SelectStep == SelectInv /\ [SelectNext]_pollVars => SelectInv'
  <1> SUFFICES ASSUME SelectInv, [SelectNext]_pollVars PROVE SelectInv'
    OBVIOUS
  <1>1. CASE SelectNext
    <2>1. Right(result', waits')
      <3> DEFINE r == result'
                 t == waits'
      <3>1. r = result' /\ t = waits' /\ global_select
        BY <1>1 DEF SelectNext
      <3> HIDE DEF r, t
      <3>2. Right(r, t)
        BY <3>1, SelectIsRight
      <3> QED BY <3>2 DEF r, t
    <2>2. fdOf' = fdOf /\ isDirty' = isDirty /\ request' = request /\ kernel' = kernel
      BY <1>1 DEF SelectNext
    <2>3. SelectFindsAll'
      BY <2>1, <2>2 DEF Right, SelectFindsAll, Readable, Writable, Open
    <2> QED BY <2>2, <2>3 DEF SelectInv, Apart
  <1>2. CASE UNCHANGED pollVars
    BY <1>2 DEF pollVars, SelectInv, Apart, SelectFindsAll, Readable, Writable, Open
  <1> QED BY <1>1, <1>2

(* For any tables of objects, whatever is in their buffers and in the        *)
(* kernel: the tables that select returns hold what can be read or written   *)
(* and nothing else, what was asked for once comes once, and select neither  *)
(* waits nor times out while an object has bytes of its own. The argument    *)
(* goes from loop to loop: check_dirty, collect_fd, return_fd. (select.c)    *)
THEOREM NothingReadyIsMissed == SelectSpec => []SelectFindsAll
  <1>1. SelectInv => SelectFindsAll
    BY DEF SelectInv
  <1> QED BY SelectInitially, SelectStep, <1>1, PTL DEF SelectSpec
=============================================================================
