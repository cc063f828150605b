-------------------------- MODULE StoragePoolProofs ---------------------------
(***************************************************************************)
(* Proofs about StoragePool, for any number of disks and workers: as long  *)
(* as requests are orderly, /nfs serves mounted disks and nothing else.    *)
(***************************************************************************)
EXTENDS StoragePool, TLAPS, SequenceTheorems

Rebuilding == {"umount", "mount", "merge"}

\* The locals belong to the steps that use them: the disks that are looped
\* over are real, and the command line of mergerfs is built by the loop alone.
LocalsOf(w) ==
  /\ pc[w] \notin {"check", "umountnfs", "umount", "mount"} => list[w] = {}
  /\ pc[w] \in {"umountnfs"} \cup Rebuilding => list[w] \subseteq Disk
  /\ pc[w] \in {"umount", "mount"} => list[w] # {}
  /\ pc[w] \notin Rebuilding => mounts[w] = {}

Locals == \A w \in Worker : LocalsOf(w)

\* Orderly: one request at a time. While it rebuilds the pool nothing is served,
\* and what it has mounted so far stays mounted; the table is the one it read.
OneAtATime == \A v, w \in Worker : pc[v] # "idle" /\ pc[w] # "idle" => v = w

RebuiltBy(w) ==
  /\ pc[w] \in Rebuilding => nfs = <<>> /\ mounts[w] \subseteq mounted /\ rows # {}
  /\ pc[w] \in {"check", "umountnfs"} => list[w] = rows
  /\ pc[w] = "appended" => rows # {}
  /\ pc[w] = "reply" /\ rows = {} => nfs = <<>>

Rebuilt ==
  orderly =>
    /\ OneAtATime /\ Len(nfs) <= 1 /\ Serving \subseteq mounted
    /\ \A w \in Worker : RebuiltBy(w)

\* A request that ran alone and undisturbed so far: what it read is still so,
\* each disk is in the list or on the command line, and those of the command line
\* are mounted.
HealedBy(w) ==
  clean[w] /\ pc[w] # "idle" =>
    /\ Alone(w)
    /\ pc[w] \in {"check", "umountnfs"} => list[w] = rows
    /\ pc[w] \in {"umountnfs"} \cup Rebuilding => rows \subseteq fs \cap present
    /\ pc[w] \in Rebuilding => list[w] \cup mounts[w] = rows /\ mounts[w] \subseteq mounted
    /\ pc[w] = "mount" => dev[w] \in list[w] \ mounted
    /\ pc[w] = "reply" /\ rows # {} /\ rows \subseteq fs \cap present
       => Serving = rows /\ rows \subseteq mounted

Healed == \A w \in Worker : HealedBy(w)

Inv == TypeOK /\ Locals /\ Rebuilt /\ Healed

-----------------------------------------------------------------------------
LEMMA AnyDiskIsOne == AnyDisk \in Disk
  BY StoragePoolAssumption DEF AnyDisk

LEMMA InitInv == Init => Inv
  <1> SUFFICES ASSUME Init PROVE Inv
    OBVIOUS
  <1>1. TypeOK
    BY StoragePoolAssumption, AnyDiskIsOne DEF Init, TypeOK, Uuid, AppendSteps, ApplySteps
  <1>2. Locals /\ Rebuilt
    BY DEF Init, Locals, LocalsOf, Rebuilt, OneAtATime, RebuiltBy, Rebuilding, Serving
  <1>3. Healed
    BY DEF Init, Healed, HealedBy
  <1> QED BY <1>1, <1>2, <1>3 DEF Inv

\* What a layer less and a layer more do to /nfs.
LEMMA Layers ==
  ASSUME TypeOK
  PROVE  /\ Len(nfs) \in Nat /\ (nfs = <<>> <=> Len(nfs) = 0)
         /\ nfs # <<>> => /\ Tail(nfs) \in Seq((SUBSET Disk) \ {{}})
                         /\ Len(Tail(nfs)) = Len(nfs) - 1
                         /\ Head(nfs) \in (SUBSET Disk) \ {{}}
         /\ \A m \in (SUBSET Disk) \ {{}} :
              /\ <<m>> \o nfs \in Seq((SUBSET Disk) \ {{}})
              /\ Len(<<m>> \o nfs) = Len(nfs) + 1
              /\ <<m>> \o nfs # <<>> /\ Head(<<m>> \o nfs) = m
  <1> DEFINE S == (SUBSET Disk) \ {{}}
  <1>1. nfs \in Seq(S)
    BY DEF TypeOK
  <1> HIDE DEF S
  <1>2. Len(nfs) \in Nat /\ (nfs = <<>> <=> Len(nfs) = 0)
    BY <1>1, LenProperties, EmptySeq
  <1>3. nfs # <<>> => Tail(nfs) \in Seq(S) /\ Len(Tail(nfs)) = Len(nfs) - 1 /\ Head(nfs) \in S
    BY <1>1, HeadTailProperties
  <1>4. ASSUME NEW m \in S
        PROVE  /\ <<m>> \o nfs \in Seq(S) /\ Len(<<m>> \o nfs) = Len(nfs) + 1
               /\ <<m>> \o nfs # <<>> /\ Head(<<m>> \o nfs) = m
    <2>1. <<m>> \in Seq(S) /\ Len(<<m>>) = 1 /\ <<m>>[1] = m
      OBVIOUS
    <2>2. <<m>> \o nfs \in Seq(S) /\ Len(<<m>> \o nfs) = Len(nfs) + 1
      BY <1>1, <1>2, <2>1, ConcatProperties
    <2>3. (<<m>> \o nfs)[1] = m
      BY <1>1, <1>2, <2>1, ConcatProperties
    <2> QED BY <1>2, <2>2, <2>3, EmptySeq
  <1> QED BY <1>2, <1>3, <1>4 DEF S

Handlers ==
  /\ pc \in [Worker -> {"idle", "delete", "select", "check"} \cup AppendSteps \cup ApplySteps]
  /\ dev \in [Worker -> Disk] /\ uuid \in [Worker -> Uuid]
  /\ list \in [Worker -> SUBSET Uuid] /\ mounts \in [Worker -> SUBSET Disk]
  /\ \A w \in Worker : list[w] \cap mounts[w] = {}

LEMMA ReturnTyped ==
  ASSUME Handlers, NEW w \in Worker, Return(w)
  PROVE  Handlers'
  <1> USE AnyDiskIsOne DEF Handlers, Return, Goto, Uuid
  <1>1. pc' \in [Worker -> {"idle", "delete", "select", "check"} \cup AppendSteps \cup ApplySteps]
    OBVIOUS
  <1>2. dev' \in [Worker -> Disk] /\ uuid' \in [Worker -> Uuid]
    OBVIOUS
  <1>3. list' \in [Worker -> SUBSET Uuid] /\ mounts' \in [Worker -> SUBSET Disk]
    OBVIOUS
  <1>4. \A v \in Worker : list'[v] \cap mounts'[v] = {}
    OBVIOUS
  <1> QED BY <1>1, <1>2, <1>3, <1>4

LEMMA WrittenTyped ==
  ASSUME Handlers, NEW w \in Worker, NEW next \in {"select", "appended"}, Written(w, next)
  PROVE  Handlers'
  <1> USE AnyDiskIsOne DEF Handlers, Written, Goto, Uuid, AppendSteps
  <1>1. pc' \in [Worker -> {"idle", "delete", "select", "check"} \cup AppendSteps \cup ApplySteps]
    OBVIOUS
  <1>2. dev' \in [Worker -> Disk] /\ uuid' \in [Worker -> Uuid]
    OBVIOUS
  <1> QED BY <1>1, <1>2

LEMMA TypeStep == Inv /\ [Next]_vars => TypeOK'
  <1> SUFFICES ASSUME Inv, [Next]_vars PROVE TypeOK'
    OBVIOUS
  <1>0. TypeOK /\ Handlers
    BY DEF Inv, TypeOK, Handlers
  <1> USE <1>0, StoragePoolAssumption, AnyDiskIsOne
      DEF TypeOK, Uuid, Goto, Fine, Wrong, Stuck, Disturbed, AppendSteps, ApplySteps,
          system, locals
  <1>1. ASSUME NEW d \in Disk, Unplug(d) \/ Plug(d) PROVE TypeOK'
    BY <1>1 DEF Unplug, Plug
  <1>2. ASSUME NEW w \in Worker, Crash(w) \/ Reply(w) PROVE TypeOK'
    <2>1. Return(w) /\ UNCHANGED <<present, fs, rows, mounted, nfs>>
      BY <1>2 DEF Crash, Reply
    <2>2. clean' \in [Worker -> BOOLEAN] /\ orderly' \in BOOLEAN
      BY <1>2 DEF Crash, Reply
    <2>3. Handlers'
      BY <2>1, ReturnTyped
    <2> QED BY <2>1, <2>2, <2>3 DEF Handlers
  <1>3. ASSUME NEW w \in Worker, NEW d \in Disk, AppendStart(w, d) PROVE TypeOK'
    BY <1>3 DEF AppendStart, Begin
  <1>4. ASSUME NEW w \in Worker, Probe(w) PROVE TypeOK'
    BY <1>4 DEF Probe
  <1>5. ASSUME NEW w \in Worker, Mkfs(w) PROVE TypeOK'
    BY <1>5 DEF Mkfs
  <1>6. ASSUME NEW w \in Worker, Insert(w) \/ Delete(w) PROVE TypeOK'
    <2>1. Written(w, "select") \/ Written(w, "appended") \/ Return(w)
      BY <1>6 DEF Insert, Delete
    <2>2. /\ clean' \in [Worker -> BOOLEAN] /\ orderly' \in BOOLEAN
          /\ UNCHANGED <<present, fs, mounted, nfs>>
      BY <1>6 DEF Insert, Delete
    <2>3. rows' \subseteq rows \cup {uuid[w]}
      BY <1>6 DEF Insert, Delete
    <2>4. rows' \subseteq Uuid
      BY <2>3
    <2>5. Handlers'
      BY <2>1, ReturnTyped, WrittenTyped
    <2> QED BY <2>2, <2>4, <2>5 DEF Handlers
  <1>7. ASSUME NEW w \in Worker, NEW u \in Uuid, RemoveStart(w, u) PROVE TypeOK'
    BY <1>7 DEF RemoveStart, Begin
  <1>9. ASSUME NEW w \in Worker, Select(w) PROVE TypeOK'
    <2>1. /\ clean' \in [Worker -> BOOLEAN] /\ orderly' \in BOOLEAN
          /\ UNCHANGED <<present, fs, rows, mounted, nfs>>
      BY <1>9 DEF Select
    <2>2. mounts[w] = {}
      BY <1>9 DEF Inv, Locals, LocalsOf, Rebuilding, Select
    <2>3. CASE Return(w)
      BY <2>1, <2>3, ReturnTyped DEF Handlers
    <2>4. CASE /\ list' = [list EXCEPT ![w] = rows]
               /\ Goto(w, "check") \/ Goto(w, "reply")
               /\ UNCHANGED <<dev, uuid, mounts>>
      BY <2>1, <2>2, <2>4
    <2> QED BY <1>9, <2>3, <2>4 DEF Select
  <1>10. ASSUME NEW w \in Worker, Check(w) PROVE TypeOK'
    BY <1>10 DEF Check
  <1>11. ASSUME NEW w \in Worker, UmountNfs(w) PROVE TypeOK'
    <2>0. nfs' = nfs \/ (nfs # <<>> /\ nfs' = Tail(nfs))
      BY <1>11 DEF UmountNfs
    <2>1. nfs' \in Seq((SUBSET Disk) \ {{}}) /\ Len(nfs') <= MaxLayers
      <3>1. /\ nfs \in Seq((SUBSET Disk) \ {{}}) /\ Len(nfs) <= MaxLayers /\ MaxLayers \in Nat
            /\ Len(nfs) \in Nat
        BY <1>0, Layers
      <3>2. nfs # <<>> => /\ Tail(nfs) \in Seq((SUBSET Disk) \ {{}})
                         /\ Len(Tail(nfs)) = Len(nfs) - 1
        BY <1>0, Layers, Zenon
      <3> QED BY ONLY <2>0, <3>1, <3>2
    <2>2. /\ pc' = [pc EXCEPT ![w] = "reply"] \/ pc' = [pc EXCEPT ![w] = "umount"]
          /\ clean' \in [Worker -> BOOLEAN] /\ orderly' \in BOOLEAN
          /\ UNCHANGED <<present, fs, rows, mounted, dev, uuid, list, mounts>>
      BY <1>11 DEF UmountNfs
    <2> QED BY <2>1, <2>2
  <1>12. ASSUME NEW w \in Worker, UmountDisk(w) PROVE TypeOK'
    BY <1>12 DEF UmountDisk, Inv, Locals, LocalsOf, Rebuilding
  <1>13. ASSUME NEW w \in Worker, MountDisk(w) PROVE TypeOK'
    <2>1. /\ mounted' \subseteq mounted \cup {dev[w]}
          /\ \/ mounts' = [mounts EXCEPT ![w] = @ \cup {dev[w]}]
             \/ mounts' = mounts
          /\ list' = [list EXCEPT ![w] = @ \ {dev[w]}]
          /\ dev' = [dev EXCEPT ![w] = AnyDisk]
          /\ pc' = [pc EXCEPT ![w] = "merge"] \/ pc' = [pc EXCEPT ![w] = "umount"]
          /\ UNCHANGED <<present, fs, rows, nfs, uuid>>
      BY <1>13 DEF MountDisk
    <2>2. clean' \in [Worker -> BOOLEAN] /\ orderly' \in BOOLEAN
      BY <1>13 DEF MountDisk
    <2>3. dev[w] \in Disk
      OBVIOUS
    <2>4. mounted' \subseteq Disk
      BY <2>1, <2>3
    <2>5. mounts' \in [Worker -> SUBSET Disk] /\ list' \in [Worker -> SUBSET Uuid]
      BY <2>1, <2>3
    <2>6. \A v \in Worker : list'[v] \cap mounts'[v] = {}
      BY <2>1
    <2>7. /\ pc' \in [Worker -> {"idle", "delete", "select", "check"} \cup AppendSteps
                                 \cup ApplySteps]
          /\ dev' \in [Worker -> Disk]
      BY <2>1
    <2> QED BY <2>1, <2>2, <2>4, <2>5, <2>6, <2>7
  <1>14. ASSUME NEW w \in Worker, Merge(w) PROVE TypeOK'
    <2>0. \/ nfs' = nfs
          \/ mounts[w] # {} /\ Len(nfs) < MaxLayers /\ nfs' = <<mounts[w]>> \o nfs
      BY <1>14 DEF Merge
    <2>1. nfs' \in Seq((SUBSET Disk) \ {{}}) /\ Len(nfs') <= MaxLayers
      <3>1. mounts[w] \in (SUBSET Disk) \ {{}} \/ nfs' = nfs
        BY <1>14, <2>0
      <3>2. /\ nfs \in Seq((SUBSET Disk) \ {{}}) /\ Len(nfs) <= MaxLayers /\ MaxLayers \in Nat
            /\ Len(nfs) \in Nat
        BY <1>0, Layers
      <3>3. \A m \in (SUBSET Disk) \ {{}} :
              <<m>> \o nfs \in Seq((SUBSET Disk) \ {{}}) /\ Len(<<m>> \o nfs) = Len(nfs) + 1
        BY <1>0, Layers, Zenon
      <3>4. CASE nfs' = nfs
        BY ONLY <3>2, <3>4
      <3>5. CASE nfs' # nfs
        <4>1. nfs' = <<mounts[w]>> \o nfs /\ Len(nfs) < MaxLayers
          BY ONLY <2>0, <3>5
        <4>2. nfs' \in Seq((SUBSET Disk) \ {{}}) /\ Len(nfs') = Len(nfs) + 1
          BY ONLY <3>1, <3>3, <3>5, <4>1, Zenon
        <4> QED BY ONLY <3>2, <4>1, <4>2
      <3> QED BY <3>4, <3>5
    <2>2. /\ clean' \in [Worker -> BOOLEAN] /\ orderly' \in BOOLEAN
          /\ pc' = [pc EXCEPT ![w] = "reply"] /\ mounts' = [mounts EXCEPT ![w] = {}]
          /\ UNCHANGED <<present, fs, rows, mounted, dev, uuid, list>>
      BY <1>14 DEF Merge
    <2> QED BY <2>1, <2>2
  <1>15. CASE UNCHANGED vars
    BY <1>15 DEF vars
  <1> QED
    BY <1>1, <1>2, <1>3, <1>4, <1>5, <1>6, <1>7, <1>9, <1>10, <1>11, <1>12, <1>13,
       <1>14, <1>15 DEF Next, Apply

\* Each step is one of a worker, and leaves the locals of the others alone.
LEMMA LocalsStep == Inv /\ [Next]_vars => Locals'
  <1> SUFFICES ASSUME Inv, [Next]_vars, NEW v \in Worker PROVE LocalsOf(v)'
    BY DEF Locals
  <1>0. /\ \A u \in Worker : LocalsOf(u)
        /\ pc \in [Worker -> {"idle", "delete", "select", "check"} \cup AppendSteps \cup ApplySteps]
        /\ list \in [Worker -> SUBSET Uuid] /\ mounts \in [Worker -> SUBSET Disk]
        /\ dev \in [Worker -> Disk]
    BY DEF Inv, Locals, TypeOK
  <1> USE <1>0 DEF LocalsOf, Rebuilding, Goto
  <1>1. ASSUME NEW d \in Disk, Unplug(d) \/ Plug(d) PROVE LocalsOf(v)'
    BY <1>1 DEF Unplug, Plug, locals
  <1>2. ASSUME NEW w \in Worker, Return(w) PROVE LocalsOf(v)'
    BY <1>2 DEF Return
  <1>3. ASSUME NEW w \in Worker, Crash(w) \/ Reply(w) PROVE LocalsOf(v)'
    BY <1>2, <1>3 DEF Crash, Reply
  <1>4. ASSUME NEW w \in Worker, NEW to \in {"probe", "mkfs", "insert", "appended", "delete", "select"},
               pc' = [pc EXCEPT ![w] = to], UNCHANGED <<list, mounts>>,
               pc[w] \notin {"check", "umountnfs"} \cup Rebuilding
        PROVE  LocalsOf(v)'
    BY <1>4
  <1>5. ASSUME NEW w \in Worker, NEW d \in Disk, AppendStart(w, d) PROVE LocalsOf(v)'
    BY <1>4, <1>5 DEF AppendStart, Begin
  <1>6. ASSUME NEW w \in Worker, NEW u \in Uuid, RemoveStart(w, u) PROVE LocalsOf(v)'
    BY <1>4, <1>6 DEF RemoveStart, Begin
  <1>7. ASSUME NEW w \in Worker, Probe(w) \/ Mkfs(w) PROVE LocalsOf(v)'
    BY <1>4, <1>7 DEF Probe, Mkfs
  <1>8. ASSUME NEW w \in Worker, Insert(w) \/ Delete(w) PROVE LocalsOf(v)'
    BY <1>2, <1>4, <1>8 DEF Insert, Delete, Written
  <1>9. ASSUME NEW w \in Worker, Select(w) PROVE LocalsOf(v)'
    <2>1. CASE Return(w)
      BY <1>2, <2>1
    <2>2. CASE /\ list' = [list EXCEPT ![w] = rows] /\ UNCHANGED mounts
               /\ Goto(w, "check") \/ (rows = {} /\ Goto(w, "reply"))
      BY <1>9, <2>2 DEF Select
    <2> QED BY <1>9, <2>1, <2>2 DEF Select
  <1>10. ASSUME NEW w \in Worker, Check(w) PROVE LocalsOf(v)'
    <2>1. list[w] \subseteq fs \cap present => list[w] \subseteq Disk
      BY DEF Inv, TypeOK
    <2> QED BY <1>10, <2>1 DEF Check
  <1>11. ASSUME NEW w \in Worker, UmountNfs(w) PROVE LocalsOf(v)'
    BY <1>11 DEF UmountNfs, locals
  <1>12. ASSUME NEW w \in Worker, UmountDisk(w) PROVE LocalsOf(v)'
    BY <1>12 DEF UmountDisk
  <1>13. ASSUME NEW w \in Worker, MountDisk(w) PROVE LocalsOf(v)'
    <2>1. /\ pc[w] = "mount" /\ list' = [list EXCEPT ![w] = @ \ {dev[w]}]
          /\ \A u \in Worker : u # w => mounts'[u] = mounts[u]
          /\ Goto(w, IF list'[w] = {} THEN "merge" ELSE "umount")
      BY <1>13 DEF MountDisk
    <2> QED BY <2>1
  <1>14. ASSUME NEW w \in Worker, Merge(w) PROVE LocalsOf(v)'
    BY <1>14 DEF Merge
  <1>15. CASE UNCHANGED vars
    BY <1>15 DEF vars, locals
  <1> QED
    BY <1>1, <1>3, <1>5, <1>6, <1>7, <1>8, <1>9, <1>10, <1>11, <1>12, <1>13, <1>14, <1>15
    DEF Next, Apply

-----------------------------------------------------------------------------
\* Orderly, a step of the one busy worker has only that worker's promise to keep.
LEMMA OneWorker ==
  ASSUME OneAtATime, DOMAIN pc = Worker, NEW w \in Worker, pc[w] # "idle", NEW to,
         pc' = [pc EXCEPT ![w] = to], RebuiltBy(w)'
  PROVE  OneAtATime' /\ \A v \in Worker : RebuiltBy(v)'
  <1>1. \A v \in Worker : v # w => pc'[v] = "idle"
    BY DEF OneAtATime
  <1>2. OneAtATime'
    BY <1>1 DEF OneAtATime
  <1>3. \A v \in Worker : RebuiltBy(v)'
    BY <1>1 DEF RebuiltBy, Rebuilding
  <1> QED BY <1>2, <1>3

LEMMA FirstWorker ==
  ASSUME DOMAIN pc = Worker, NEW w \in Worker, pc[w] = "idle", Alone(w),
         NEW to \in {"probe", "delete"}, pc' = [pc EXCEPT ![w] = to]
  PROVE  OneAtATime' /\ \A v \in Worker : RebuiltBy(v)'
  BY DEF Alone, Others, OneAtATime, RebuiltBy, Rebuilding

\* A handler that stops, or has not come to the pool yet, promises nothing.
LEMMA NoPromise ==
  ASSUME DOMAIN pc = Worker, NEW w \in Worker,
         NEW to \in {"idle", "mkfs", "insert", "select"}, pc' = [pc EXCEPT ![w] = to]
  PROVE  RebuiltBy(w)'
  BY DEF RebuiltBy, Rebuilding

LEMMA RebuiltStep == Inv /\ [Next]_vars => Rebuilt'
  <1> SUFFICES ASSUME Inv, [Next]_vars, orderly'
               PROVE  /\ OneAtATime' /\ Len(nfs)' <= 1 /\ Serving' \subseteq mounted'
                      /\ \A v \in Worker : RebuiltBy(v)'
    BY DEF Rebuilt
  <1> DEFINE Goal == /\ OneAtATime' /\ Len(nfs)' <= 1 /\ Serving' \subseteq mounted'
                     /\ \A v \in Worker : RebuiltBy(v)'
  <1>0. /\ \A u \in Worker : LocalsOf(u)
        /\ DOMAIN pc = Worker /\ DOMAIN list = Worker /\ DOMAIN mounts = Worker
        /\ \A u \in Worker : list[u] \cap mounts[u] = {} /\ mounts[u] \subseteq Disk
        /\ orderly => Rebuilt
    BY DEF Inv, Locals, TypeOK
  <1>a. orderly => /\ OneAtATime /\ Len(nfs) <= 1 /\ Serving \subseteq mounted
                   /\ \A v \in Worker : RebuiltBy(v)
    BY <1>0 DEF Rebuilt
  <1>b. ASSUME UNCHANGED nfs, orderly, mounted \subseteq mounted'
        PROVE  Len(nfs)' <= 1 /\ Serving' \subseteq mounted'
    BY <1>a, <1>b DEF Serving
  <1>c. ASSUME nfs' = <<>>
        PROVE  Len(nfs)' <= 1 /\ Serving' = {}
    BY <1>c DEF Serving
  <1>1. ASSUME NEW d \in Disk, Unplug(d) \/ Plug(d) PROVE FALSE
    BY <1>1 DEF Unplug, Plug, Disturbed
  <1>2. ASSUME NEW w \in Worker, Crash(w) \/ Reply(w) PROVE Goal
    <2>1. orderly /\ pc[w] # "idle" /\ pc' = [pc EXCEPT ![w] = "idle"] /\ UNCHANGED <<nfs, mounted>>
      BY <1>2 DEF Crash, Reply, Return, Goto, Wrong, Fine, system
    <2>2. RebuiltBy(w)'
      BY <1>0, <2>1, NoPromise
    <2> QED BY <1>0, <1>a, <1>b, <2>1, <2>2, OneWorker
  <1>3. ASSUME NEW w \in Worker, NEW d \in Disk, AppendStart(w, d) PROVE Goal
    <2>1. /\ orderly /\ Alone(w) /\ pc[w] = "idle" /\ d \notin Serving
          /\ pc' = [pc EXCEPT ![w] = "probe"] /\ UNCHANGED nfs /\ mounted \ {d} \subseteq mounted'
      BY <1>3 DEF AppendStart, Begin, Goto
    <2>2. Len(nfs)' <= 1 /\ Serving' \subseteq mounted'
      BY <1>a, <2>1 DEF Serving
    <2> QED BY <1>0, <2>1, <2>2, FirstWorker
  <1>4. ASSUME NEW w \in Worker, Probe(w) \/ Mkfs(w) PROVE Goal
    <2>1. /\ orderly /\ pc[w] # "idle" /\ UNCHANGED <<nfs, mounted>>
          /\ pc' = [pc EXCEPT ![w] = "mkfs"] \/ pc' = [pc EXCEPT ![w] = "insert"]
      BY <1>4 DEF Probe, Mkfs, Goto, Fine, Wrong, system
    <2>2. RebuiltBy(w)'
      BY <1>0, <2>1, NoPromise
    <2> QED BY <1>0, <1>a, <1>b, <2>1, <2>2, OneWorker
  <1>5. ASSUME NEW w \in Worker, Insert(w) \/ Delete(w) PROVE Goal
    <2>1. /\ orderly /\ pc[w] # "idle" /\ UNCHANGED <<nfs, mounted>>
          /\ \/ pc' = [pc EXCEPT ![w] = "idle"] \/ pc' = [pc EXCEPT ![w] = "select"]
             \/ pc' = [pc EXCEPT ![w] = "appended"] /\ rows' # {}
      BY <1>5 DEF Insert, Delete, Return, Written, Goto, Fine, Wrong
    <2>2. CASE pc' = [pc EXCEPT ![w] = "appended"] /\ rows' # {}
      <3>1. RebuiltBy(w)'
        BY <1>0, <2>2 DEF RebuiltBy, Rebuilding
      <3> QED BY <1>0, <1>a, <1>b, <2>1, <2>2, <3>1, OneWorker
    <2>3. CASE pc' = [pc EXCEPT ![w] = "idle"] \/ pc' = [pc EXCEPT ![w] = "select"]
      <3>1. RebuiltBy(w)'
        BY <1>0, <2>3, NoPromise
      <3> QED BY <1>0, <1>a, <1>b, <2>1, <2>3, <3>1, OneWorker
    <2> QED BY <2>1, <2>2, <2>3
  <1>6. ASSUME NEW w \in Worker, NEW u \in Uuid, RemoveStart(w, u) PROVE Goal
    <2>1. /\ orderly /\ Alone(w) /\ pc[w] = "idle" /\ pc' = [pc EXCEPT ![w] = "delete"]
          /\ UNCHANGED <<nfs, mounted>>
      BY <1>6 DEF RemoveStart, Begin, Goto, system
    <2> QED BY <1>0, <1>b, <2>1, FirstWorker
  <1>7. ASSUME NEW w \in Worker, Select(w) PROVE Goal
    <2>1. /\ orderly /\ pc[w] # "idle" /\ UNCHANGED <<nfs, mounted, rows>>
          /\ \/ pc' = [pc EXCEPT ![w] = "idle"]
             \/ pc' = [pc EXCEPT ![w] = "check"] /\ list' = [list EXCEPT ![w] = rows]
             \/ pc' = [pc EXCEPT ![w] = "reply"] /\ rows = {} /\ pc[w] = "appended"
      BY <1>7 DEF Select, Return, Goto, Fine, Wrong, system
    <2>2. RebuiltBy(w)'
      BY <1>0, <1>a, <2>1 DEF RebuiltBy, Rebuilding
    <2> QED BY <1>0, <1>a, <1>b, <2>1, <2>2, OneWorker
  <1>8. ASSUME NEW w \in Worker, Check(w) PROVE Goal
    <2>1. /\ orderly /\ pc[w] = "check" /\ UNCHANGED <<nfs, mounted, rows>>
          /\ \/ pc' = [pc EXCEPT ![w] = "umountnfs"] /\ UNCHANGED list
             \/ pc' = [pc EXCEPT ![w] = "reply"] /\ list[w] # {}
      BY <1>8 DEF Check, Goto, Fine, system
    <2>2. RebuiltBy(w)'
      BY <1>0, <1>a, <2>1 DEF RebuiltBy, Rebuilding
    <2> QED BY <1>0, <1>a, <1>b, <2>1, <2>2, OneWorker
  <1>9. ASSUME NEW w \in Worker, UmountNfs(w) PROVE Goal
    <2>1. /\ orderly /\ pc[w] = "umountnfs" /\ UNCHANGED <<mounted, rows, list, mounts>>
          /\ nfs' = IF nfs = <<>> THEN nfs ELSE Tail(nfs)
          /\ \/ pc' = [pc EXCEPT ![w] = "reply"]
             \/ pc' = [pc EXCEPT ![w] = "umount"] /\ list[w] # {}
      BY <1>9 DEF UmountNfs, Goto, Fine, Stuck, locals
    <2>2. nfs' = <<>>
      <3>1. nfs \in Seq((SUBSET Disk) \ {{}}) /\ Len(nfs) <= 1 /\ TypeOK
        BY <1>a, <2>1 DEF Inv, TypeOK
      <3>2. CASE nfs # <<>>
        <4>1. Len(Tail(nfs)) = 0 /\ Tail(nfs) \in Seq((SUBSET Disk) \ {{}})
          BY <3>1, <3>2, Layers
        <4> QED BY <2>1, <3>2, <4>1, EmptySeq
      <3> QED BY <2>1, <3>2
    <2>3. RebuiltBy(w)'
      BY <1>0, <1>a, <2>1, <2>2 DEF RebuiltBy, Rebuilding, LocalsOf
    <2> QED BY <1>0, <1>a, <1>c, <2>1, <2>2, <2>3, OneWorker
  <1>10. ASSUME NEW w \in Worker, UmountDisk(w) PROVE Goal
    <2>1. PICK d \in list[w] : mounted' = mounted \ {d} \/ ~ orderly'
      BY <1>10 DEF UmountDisk, Stuck
    <2>2. /\ orderly /\ pc[w] = "umount" /\ UNCHANGED <<nfs, rows, list, mounts>>
          /\ pc' = [pc EXCEPT ![w] = "mount"]
      BY <1>10 DEF UmountDisk, Goto, Fine, Stuck
    <2>3. RebuiltBy(w)' /\ nfs' = <<>>
      BY <1>0, <1>a, <2>1, <2>2 DEF RebuiltBy, Rebuilding
    <2> QED BY <1>0, <1>a, <1>c, <2>2, <2>3, OneWorker
  <1>11. ASSUME NEW w \in Worker, MountDisk(w) PROVE Goal
    <2>1. /\ orderly /\ pc[w] = "mount" /\ UNCHANGED <<nfs, rows>>
          /\ pc' = [pc EXCEPT ![w] = "merge"] \/ pc' = [pc EXCEPT ![w] = "umount"]
          /\ \/ mounted' = mounted \cup {dev[w]} /\ mounts' = [mounts EXCEPT ![w] = @ \cup {dev[w]}]
             \/ UNCHANGED <<mounted, mounts>>
      BY <1>11 DEF MountDisk, Goto, Fine, Stuck
    <2>2. RebuiltBy(w)' /\ nfs' = <<>>
      BY <1>0, <1>a, <2>1 DEF RebuiltBy, Rebuilding
    <2> QED BY <1>0, <1>a, <1>c, <2>1, <2>2, OneWorker
  <1>12. ASSUME NEW w \in Worker, Merge(w) PROVE Goal
    <2>1. /\ orderly /\ pc[w] = "merge" /\ UNCHANGED <<mounted, rows>>
          /\ pc' = [pc EXCEPT ![w] = "reply"]
          /\ mounts[w] # {} /\ nfs' = <<mounts[w]>> \o nfs
      BY <1>12 DEF Merge, Goto, Fine, Stuck
    <2>2. nfs = <<>> /\ mounts[w] \subseteq mounted /\ rows # {}
      BY <1>a, <2>1 DEF RebuiltBy, Rebuilding
    <2>3. Len(nfs)' <= 1 /\ Serving' = mounts[w]
      <3>1. mounts[w] \in (SUBSET Disk) \ {{}} /\ TypeOK
        BY <1>0, <2>1 DEF Inv
      <3>2. Len(nfs') = Len(nfs) + 1 /\ nfs' # <<>> /\ Head(nfs') = mounts[w] /\ Len(nfs) = 0
        BY <2>1, <2>2, <3>1, Layers
      <3> QED BY <3>2 DEF Serving
    <2>4. RebuiltBy(w)'
      BY <1>0, <2>1, <2>2 DEF RebuiltBy, Rebuilding
    <2> QED BY <1>0, <1>a, <2>1, <2>2, <2>3, <2>4, OneWorker
  <1>13. CASE UNCHANGED vars
    BY <1>a, <1>13 DEF vars, system, locals, Serving, OneAtATime, RebuiltBy
  <1> QED
    BY <1>1, <1>2, <1>3, <1>4, <1>5, <1>6, <1>7, <1>8, <1>9, <1>10, <1>11, <1>12, <1>13
    DEF Next, Apply

-----------------------------------------------------------------------------
LEMMA HealedOthers ==
  ASSUME Healed, DOMAIN pc = Worker, NEW w \in Worker, pc[w] # "idle", NEW to,
         pc' = [pc EXCEPT ![w] = to], \A v \in Worker : clean'[v] => clean[v],
         Alone(w)' => HealedBy(w)'
  PROVE  Healed'
  <1>1. ASSUME NEW v \in Worker, v # w PROVE HealedBy(v)'
    BY <1>1 DEF Healed, HealedBy, Alone, Others
  <1>2. clean'[w] => Alone(w)'
    BY DEF Healed, HealedBy, Alone, Others
  <1>3. HealedBy(w)'
    BY <1>2 DEF HealedBy
  <1> QED BY <1>1, <1>3 DEF Healed

LEMMA HealedStep == Inv /\ [Next]_vars => Healed'
  <1> SUFFICES ASSUME Inv, [Next]_vars PROVE Healed'
    OBVIOUS
  <1>0. /\ Healed /\ \A u \in Worker : LocalsOf(u) /\ HealedBy(u)
        /\ DOMAIN pc = Worker /\ DOMAIN list = Worker /\ DOMAIN mounts = Worker
        /\ DOMAIN dev = Worker /\ DOMAIN clean = Worker
        /\ \A u \in Worker : list[u] \cap mounts[u] = {} /\ mounts[u] \subseteq Disk
        /\ \A u \in Worker : pc[u] \in {"idle", "delete", "select", "check"} \cup AppendSteps
                                       \cup ApplySteps
    BY DEF Inv, Locals, TypeOK, Healed
  <1>1. ASSUME NEW d \in Disk, Unplug(d) \/ Plug(d) PROVE Healed'
    BY <1>1 DEF Unplug, Plug, Disturbed, Healed, HealedBy
  <1>2. ASSUME NEW w \in Worker, NEW to \in {"probe", "delete"}, pc[w] = "idle",
               pc' = [pc EXCEPT ![w] = to], clean' = [v \in Worker |-> v = w /\ Alone(w)]
        PROVE  Healed'
    BY <1>0, <1>2 DEF Healed, HealedBy, Alone, Others, Rebuilding
  <1>3. ASSUME NEW w \in Worker, NEW d \in Disk, AppendStart(w, d) PROVE Healed'
    BY <1>2, <1>3 DEF AppendStart, Begin, Goto
  <1>4. ASSUME NEW w \in Worker, NEW u \in Uuid, RemoveStart(w, u) PROVE Healed'
    BY <1>2, <1>4 DEF RemoveStart, Begin, Goto
  <1>5. ASSUME NEW w \in Worker, NEW to \in {"idle", "mkfs", "insert", "appended", "select"},
               pc[w] # "idle", pc' = [pc EXCEPT ![w] = to],
               \A v \in Worker : clean'[v] => clean[v]
        PROVE  Healed'
    <2>1. Alone(w)' => HealedBy(w)'
      BY <1>0, <1>5 DEF HealedBy, Rebuilding
    <2> QED BY <1>0, <1>5, <2>1, HealedOthers
  <1> USE DEF Goto, Fine, Wrong, Stuck
  <1>6. ASSUME NEW w \in Worker, Crash(w) \/ Reply(w) PROVE Healed'
    BY <1>0, <1>5, <1>6 DEF Crash, Reply, Return
  <1>7. ASSUME NEW w \in Worker, Probe(w) \/ Mkfs(w) PROVE Healed'
    BY <1>0, <1>5, <1>7 DEF Probe, Mkfs
  <1>8. ASSUME NEW w \in Worker, Insert(w) \/ Delete(w) PROVE Healed'
    BY <1>0, <1>5, <1>8 DEF Insert, Delete, Return, Written
  <1>9. ASSUME NEW w \in Worker, Select(w) PROVE Healed'
    <2>1. CASE Return(w) /\ Wrong(w)
      BY <1>0, <1>5, <1>9, <2>1 DEF Return, Select
    <2>2. CASE /\ list' = [list EXCEPT ![w] = rows] /\ Fine
               /\ Goto(w, "check") \/ (rows = {} /\ Goto(w, "reply"))
      <3>1. UNCHANGED rows /\ pc[w] # "idle"
        BY <1>9 DEF Select, system
      <3>2. Alone(w)' => HealedBy(w)'
        BY <1>0, <2>2, <3>1 DEF HealedBy, Rebuilding
      <3> QED BY <1>0, <2>2, <3>1, <3>2, HealedOthers
    <2> QED BY <1>9, <2>1, <2>2 DEF Select
  <1>10. ASSUME NEW w \in Worker, Check(w) PROVE Healed'
    <2>1. /\ pc[w] = "check" /\ UNCHANGED <<present, fs, rows, clean>>
          /\ \/ /\ list[w] \subseteq fs \cap present /\ UNCHANGED list
                /\ pc' = [pc EXCEPT ![w] = "umountnfs"]
             \/ ~ (list[w] \subseteq fs \cap present) /\ pc' = [pc EXCEPT ![w] = "reply"]
      BY <1>10 DEF Check, system
    <2>2. Alone(w)' => HealedBy(w)'
      BY <1>0, <2>1 DEF HealedBy, Rebuilding
    <2> QED BY <1>0, <2>1, <2>2, HealedOthers
  <1>11. ASSUME NEW w \in Worker, UmountNfs(w) PROVE Healed'
    <2>1. /\ pc[w] = "umountnfs" /\ UNCHANGED <<present, fs, rows, mounted, list, mounts>>
          /\ \A v \in Worker : clean'[v] => clean[v]
          /\ \/ pc' = [pc EXCEPT ![w] = "reply"] /\ list[w] = {}
             \/ pc' = [pc EXCEPT ![w] = "umount"] /\ list[w] # {}
      BY <1>0, <1>11 DEF UmountNfs, locals
    <2>2. Alone(w)' => HealedBy(w)'
      BY <1>0, <2>1 DEF HealedBy, Rebuilding, LocalsOf
    <2> QED BY <1>0, <2>1, <2>2, HealedOthers
  <1>12. ASSUME NEW w \in Worker, UmountDisk(w) PROVE Healed'
    <2>1. PICK d \in list[w] : /\ dev' = [dev EXCEPT ![w] = d]
                               /\ mounted' = mounted \ {d} \/ ~ clean'[w]
      BY <1>0, <1>12 DEF UmountDisk
    <2>2. /\ pc[w] = "umount" /\ UNCHANGED <<present, fs, rows, list, mounts>>
          /\ pc' = [pc EXCEPT ![w] = "mount"] /\ \A v \in Worker : clean'[v] => clean[v]
      BY <1>0, <1>12 DEF UmountDisk
    <2>3. Alone(w)' => HealedBy(w)'
      BY <1>0, <2>1, <2>2 DEF HealedBy, Rebuilding
    <2> QED BY <1>0, <2>2, <2>3, HealedOthers
  <1>13. ASSUME NEW w \in Worker, MountDisk(w) PROVE Healed'
    <2>1. /\ pc[w] = "mount" /\ UNCHANGED <<present, fs, rows>>
          /\ list' = [list EXCEPT ![w] = @ \ {dev[w]}]
          /\ pc' = [pc EXCEPT ![w] = "merge"] \/ pc' = [pc EXCEPT ![w] = "umount"]
          /\ \A v \in Worker : clean'[v] => clean[v]
          /\ \/ mounted' = mounted \cup {dev[w]} /\ mounts' = [mounts EXCEPT ![w] = @ \cup {dev[w]}]
             \/ dev[w] \in mounted \/ ~ clean'[w]
      BY <1>0, <1>13 DEF MountDisk
    <2>2. Alone(w)' => HealedBy(w)'
      BY <1>0, <2>1 DEF HealedBy, Rebuilding
    <2> QED BY <1>0, <2>1, <2>2, HealedOthers
  <1>14. ASSUME NEW w \in Worker, Merge(w) PROVE Healed'
    <2>1. /\ pc[w] = "merge" /\ UNCHANGED <<present, fs, rows, mounted>>
          /\ pc' = [pc EXCEPT ![w] = "reply"] /\ \A v \in Worker : clean'[v] => clean[v]
          /\ (mounts[w] # {} /\ nfs' = <<mounts[w]>> \o nfs) \/ ~ clean'[w]
      BY <1>0, <1>14 DEF Merge
    <2>2. clean'[w] => Serving' = mounts[w]
      <3>1. mounts[w] # {} => mounts[w] \in (SUBSET Disk) \ {{}}
        BY <1>0
      <3> QED BY <2>1, <3>1, Layers DEF Inv, Serving
    <2>3. Alone(w)' => HealedBy(w)'
      BY <1>0, <2>1, <2>2 DEF HealedBy, Rebuilding, LocalsOf
    <2> QED BY <1>0, <2>1, <2>3, HealedOthers
  <1>15. CASE UNCHANGED vars
    <2>1. /\ pc' = pc /\ list' = list /\ mounts' = mounts /\ dev' = dev /\ clean' = clean
          /\ present' = present /\ fs' = fs /\ rows' = rows /\ mounted' = mounted
          /\ Serving' = Serving
      BY <1>15 DEF vars, system, locals, Serving
    <2>2. ASSUME NEW w \in Worker PROVE HealedBy(w)'
      BY <1>0, <2>1 DEF HealedBy, Alone, Others
    <2> QED BY <2>2 DEF Healed
  <1> QED
    BY <1>1, <1>3, <1>4, <1>6, <1>7, <1>8, <1>9, <1>10, <1>11, <1>12, <1>13, <1>14, <1>15
    DEF Next, Apply

LEMMA Invariant == Spec => []Inv
  <1>1. Inv /\ [Next]_vars => Inv'
    BY TypeStep, LocalsStep, RebuiltStep, HealedStep DEF Inv
  <1> QED BY InitInv, <1>1, PTL DEF Spec

\* The table, the mounts, the layers on /nfs and the locals of the handlers keep
\* their types, and no disk is both waiting for its mount and on the command line.
THEOREM TypeCorrect == Spec => []TypeOK
  <1>1. Inv => TypeOK
    BY DEF Inv
  <1> QED BY Invariant, <1>1, PTL

\* As long as administrators follow one another, append disks that are not in
\* use, and no umount or mount fails, /nfs has one layer of mounted disks, and
\* none when the table is empty: for any number of disks, workers and requests.
THEOREM PoolIsOrderly == Spec => []OrderlyPool
  <1>1. Inv => OrderlyPool
    BY DEF Inv, Rebuilt, RebuiltBy, OrderlyPool, BranchesAreDisks, EmptyPoolStops
  <1> QED BY Invariant, <1>1, PTL

\* A request that runs alone and undisturbed brings the pool back from whatever
\* crashes, failures and overlapping requests had left, for any number of disks
\* and workers: when it replies, /nfs serves the disks of the table, mounted.
THEOREM SoloHealing == Spec => []SoloHeals
  <1>1. Inv => SoloHeals
    BY DEF Inv, Healed, HealedBy, SoloHeals
  <1> QED BY Invariant, <1>1, PTL
=============================================================================
