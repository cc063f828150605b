------------------------------ MODULE StoragePool ------------------------------
(***************************************************************************)
(* storage_manager: poolDiskAppend and poolDiskRemove, executed by worker  *)
(* processes one SQL statement and one command at a time.  disk_list is    *)
(* the pool that is wanted; the disks mounted below /mnt and the mergerfs  *)
(* on /nfs are the pool that is served.                                    *)
(***************************************************************************)
EXTENDS Naturals, Sequences, FiniteSets

CONSTANTS
  Disk,       \* block devices; a formatted one is its own uuid
  Nil,        \* the uuid "nil" of a disk that has none
  Worker,
  Trouble,    \* what may go wrong: db, mkfs, busy, mount, unplug, crash
  MaxLayers   \* bound: mounts piled up on /nfs

ASSUME StoragePoolAssumption ==
  /\ Disk # {} /\ Nil \notin Disk
  /\ Trouble \subseteq {"db", "mkfs", "busy", "mount", "unplug", "crash"}
  /\ MaxLayers \in Nat \ {0}

Uuid == Disk \cup {Nil}

VARIABLES
  present,    \* the disks that are plugged in
  fs,         \* the disks with a file system, which blkid finds by its uuid
  rows,       \* the uuids in disk_list
  mounted,    \* the disks with a live mount on /mnt/<uuid>
  nfs,        \* the mergerfs mounts on /nfs, each a set of branches; the first
              \* one covers the others
  pc, dev, uuid, list, mounts,  \* the handler of each worker, its locals for as
              \* long as it uses them; list shrinks as the loop goes through it
  clean,      \* it ran alone and nothing went wrong so far
  orderly     \* requests followed one another, only disks that were not in use
              \* were appended, and no umount, mount or disk failed

locals == <<dev, uuid, list, mounts>>
system == <<present, fs, rows, mounted, nfs>>
vars == <<system, pc, locals, clean, orderly>>

AppendSteps == {"probe", "mkfs", "insert", "appended"}
ApplySteps == {"umountnfs", "umount", "mount", "merge", "reply"}

TypeOK ==
  /\ present \subseteq Disk /\ fs \subseteq Disk /\ rows \subseteq Uuid
  /\ mounted \subseteq Disk
  /\ nfs \in Seq((SUBSET Disk) \ {{}}) /\ Len(nfs) <= MaxLayers
  /\ pc \in [Worker -> {"idle", "delete", "select", "check"} \cup AppendSteps \cup ApplySteps]
  /\ dev \in [Worker -> Disk] /\ uuid \in [Worker -> Uuid]
  /\ list \in [Worker -> SUBSET Uuid]
  /\ mounts \in [Worker -> SUBSET Disk]
  /\ \A w \in Worker : list[w] \cap mounts[w] = {}
  /\ clean \in [Worker -> BOOLEAN] /\ orderly \in BOOLEAN

AnyDisk == CHOOSE d \in Disk : TRUE

Init ==
  /\ present \in SUBSET Disk /\ fs \in SUBSET Disk
  /\ rows = {} /\ mounted = {} /\ nfs = <<>>
  /\ pc = [w \in Worker |-> "idle"]
  /\ dev = [w \in Worker |-> AnyDisk]
  /\ uuid = [w \in Worker |-> Nil]
  /\ list = [w \in Worker |-> {}] /\ mounts = list
  /\ clean = [w \in Worker |-> FALSE] /\ orderly = TRUE

-----------------------------------------------------------------------------
Serving == IF nfs = <<>> THEN {} ELSE Head(nfs)

Goto(w, label) == pc' = [pc EXCEPT ![w] = label]

\* One command of w that nothing disturbed.
Fine == UNCHANGED <<clean, orderly>>

\* A statement or mkfs failed, or the worker died: another try may follow.
Wrong(w) == clean' = [clean EXCEPT ![w] = FALSE] /\ UNCHANGED orderly

\* umount, mount or mergerfs failed.
Stuck(w) == clean' = [clean EXCEPT ![w] = FALSE] /\ orderly' = FALSE

\* Something went wrong outside of the handlers.
Disturbed == clean' = [w \in Worker |-> FALSE] /\ orderly' = FALSE

Others(w) == Worker \ {w}
Alone(w) == \A v \in Others(w) : pc[v] = "idle"

\* A request starts: it is alone if all others are idle, and no other is from
\* now on.
Begin(w, proper) ==
  /\ pc[w] = "idle"
  /\ clean' = [v \in Worker |-> v = w /\ Alone(w)]
  /\ orderly' = (orderly /\ Alone(w) /\ proper)

\* main_call's reply; the locals die with the handler.
Return(w) ==
  /\ Goto(w, "idle")
  /\ dev' = [dev EXCEPT ![w] = AnyDisk] /\ uuid' = [uuid EXCEPT ![w] = Nil]
  /\ list' = [list EXCEPT ![w] = {}] /\ mounts' = [mounts EXCEPT ![w] = {}]

\* The row is written: dev and uuid have done their duty.
Written(w, next) ==
  /\ Goto(w, next)
  /\ dev' = [dev EXCEPT ![w] = AnyDisk] /\ uuid' = [uuid EXCEPT ![w] = Nil]
  /\ UNCHANGED <<list, mounts>>

Unplug(d) ==
  /\ "unplug" \in Trouble /\ d \in present
  /\ present' = present \ {d} /\ mounted' = mounted \ {d}
  /\ Disturbed /\ UNCHANGED <<fs, rows, nfs, pc, locals>>

Plug(d) ==
  /\ "unplug" \in Trouble /\ d \notin present
  /\ present' = present \cup {d}
  /\ Disturbed /\ UNCHANGED <<fs, rows, mounted, nfs, pc, locals>>

\* The worker process dies between two steps.
Crash(w) ==
  /\ "crash" \in Trouble /\ pc[w] # "idle"
  /\ Return(w) /\ Wrong(w) /\ UNCHANGED system

-----------------------------------------------------------------------------
(* poolDiskAppend *)

\* umount /dev/<dev>, whatever the disk is used for.
AppendStart(w, d) ==
  /\ Begin(w, d \notin rows \cup Serving)
  /\ dev' = [dev EXCEPT ![w] = d]
  /\ \/ mounted' = mounted \ {d}
     \/ "busy" \in Trouble /\ UNCHANGED mounted
  /\ Goto(w, "probe")
  /\ UNCHANGED <<present, fs, rows, nfs, uuid, list, mounts>>

Probe(w) ==
  /\ pc[w] = "probe"
  /\ IF dev[w] \in fs \cap present
     THEN uuid' = [uuid EXCEPT ![w] = dev[w]] /\ Goto(w, "insert")
     ELSE uuid' = [uuid EXCEPT ![w] = Nil] /\ Goto(w, "mkfs")
  /\ Fine /\ UNCHANGED <<system, dev, list, mounts>>

\* The result of mkfs is not looked at: blkid is asked once more.
Mkfs(w) ==
  /\ pc[w] = "mkfs"
  /\ \/ /\ dev[w] \in present
        /\ fs' = fs \cup {dev[w]} /\ uuid' = [uuid EXCEPT ![w] = dev[w]] /\ Fine
     \/ /\ dev[w] \notin present \/ "mkfs" \in Trouble
        /\ Wrong(w) /\ UNCHANGED <<fs, uuid>>
  /\ Goto(w, "insert")
  /\ UNCHANGED <<present, rows, mounted, nfs, dev, list, mounts>>

\* get_one_disk and the INSERT, with the uuid "nil" if there is none.  A
\* statement that fails may have been executed.
Insert(w) ==
  /\ pc[w] = "insert"
  /\ \/ /\ dev[w] \in present
        /\ rows' = rows \cup {uuid[w]} /\ Written(w, "appended") /\ Fine
     \/ /\ dev[w] \notin present \/ "db" \in Trouble
        /\ rows' \in {rows, rows \cup IF dev[w] \in present THEN {uuid[w]} ELSE {}}
        /\ Return(w) /\ Wrong(w)
  /\ UNCHANGED <<present, fs, mounted, nfs>>

-----------------------------------------------------------------------------
(* poolDiskRemove *)

RemoveStart(w, u) ==
  /\ Begin(w, TRUE)
  /\ uuid' = [uuid EXCEPT ![w] = u]
  /\ Goto(w, "delete")
  /\ UNCHANGED <<system, dev, list, mounts>>

Delete(w) ==
  /\ pc[w] = "delete"
  /\ \/ rows' = rows \ {uuid[w]} /\ Written(w, "select") /\ Fine
     \/ /\ "db" \in Trouble /\ rows' \in {rows, rows \ {uuid[w]}}
        /\ Return(w) /\ Wrong(w)
  /\ UNCHANGED <<present, fs, mounted, nfs>>

-----------------------------------------------------------------------------
(* Both: SELECT, then data_pool_apply.                                     *)

\* Only poolDiskAppend looks whether there are rows, #res ~= 0: another request
\* may have removed its own. It leaves the pool alone then.
Select(w) ==
  /\ pc[w] \in {"select", "appended"}
  /\ \/ /\ list' = [list EXCEPT ![w] = rows]
        /\ Goto(w, IF pc[w] = "appended" /\ rows = {} THEN "reply" ELSE "check")
        /\ Fine /\ UNCHANGED <<dev, uuid, mounts>>
     \/ "db" \in Trouble /\ Return(w) /\ Wrong(w)
  /\ UNCHANGED system

\* One disk that is not active: the pool is left as it is, and the request
\* succeeds all the same.
Check(w) ==
  /\ pc[w] = "check"
  /\ \/ list[w] \subseteq fs \cap present /\ Goto(w, "umountnfs") /\ UNCHANGED list
     \/ /\ ~ (list[w] \subseteq fs \cap present)
        /\ Goto(w, "reply") /\ list' = [list EXCEPT ![w] = {}]
  /\ Fine /\ UNCHANGED <<system, dev, uuid, mounts>>

\* Slip for UmountNfs: the disks are taken away below the running pool.
UmountNfsSkipped(w) ==
  /\ pc[w] = "umountnfs"
  /\ Goto(w, IF list[w] = {} THEN "reply" ELSE "umount")
  /\ Fine /\ UNCHANGED <<system, locals>>

\* umount /nfs takes the uppermost layer; its result is not looked at.
UmountNfs(w) ==
  /\ pc[w] = "umountnfs"
  /\ \/ nfs' = (IF nfs = <<>> THEN nfs ELSE Tail(nfs)) /\ Fine
     \/ "busy" \in Trouble /\ UNCHANGED nfs /\ Stuck(w)
  /\ Goto(w, IF list[w] = {} THEN "reply" ELSE "umount")
  /\ UNCHANGED <<present, fs, rows, mounted, locals>>

\* Slip for UmountDisk: disks are mounted without having been unmounted.
UmountDiskSkipped(w) ==
  /\ pc[w] = "umount"
  /\ \E d \in list[w] : dev' = [dev EXCEPT ![w] = d]
  /\ Goto(w, "mount")
  /\ Fine /\ UNCHANGED <<system, uuid, list, mounts>>

\* The next disk of the list; one that is busy stays mounted.
UmountDisk(w) ==
  /\ pc[w] = "umount"
  /\ \E d \in list[w] :
       /\ dev' = [dev EXCEPT ![w] = d]
       /\ \/ mounted' = mounted \ {d} /\ Fine
          \/ "busy" \in Trouble /\ UNCHANGED mounted /\ Stuck(w)
  /\ Goto(w, "mount")
  /\ UNCHANGED <<present, fs, rows, nfs, uuid, list, mounts>>

\* Slip for MountDisk: the command line is built from every disk seen so far.
MountDiskAll(w) ==
  /\ pc[w] = "mount"
  /\ mounted' = mounted \cup {dev[w]} /\ Fine
  /\ mounts' = [mounts EXCEPT ![w] = @ \cup mounted']
  /\ list' = [list EXCEPT ![w] = @ \ {dev[w]}]
  /\ dev' = [dev EXCEPT ![w] = AnyDisk]
  /\ Goto(w, IF list'[w] = {} THEN "merge" ELSE "umount")
  /\ UNCHANGED <<present, fs, rows, nfs, uuid>>

\* mount fails for a disk that is mounted already; a disk that failed is left
\* out of the pool.
MountDisk(w) ==
  /\ pc[w] = "mount"
  /\ \/ /\ dev[w] \in present \ mounted
        /\ mounted' = mounted \cup {dev[w]}
        /\ mounts' = [mounts EXCEPT ![w] = @ \cup {dev[w]}] /\ Fine
     \/ dev[w] \in mounted /\ Fine /\ UNCHANGED <<mounted, mounts>>
     \/ /\ dev[w] \notin present \/ "mount" \in Trouble
        /\ Stuck(w) /\ UNCHANGED <<mounted, mounts>>
  /\ list' = [list EXCEPT ![w] = @ \ {dev[w]}]
  /\ dev' = [dev EXCEPT ![w] = AnyDisk]
  /\ Goto(w, IF list'[w] = {} THEN "merge" ELSE "umount")
  /\ UNCHANGED <<present, fs, rows, nfs, uuid>>

\* mergerfs mounts over whatever is on /nfs; without branches it fails.
Merge(w) ==
  /\ pc[w] = "merge"
  /\ \/ /\ mounts[w] # {} /\ Len(nfs) < MaxLayers
        /\ nfs' = <<mounts[w]>> \o nfs /\ Fine
     \/ /\ mounts[w] = {} \/ "mount" \in Trouble
        /\ Stuck(w) /\ UNCHANGED nfs
  /\ Goto(w, "reply") /\ mounts' = [mounts EXCEPT ![w] = {}]
  /\ UNCHANGED <<present, fs, rows, mounted, dev, uuid, list>>

Reply(w) ==
  /\ pc[w] = "reply"
  /\ Return(w) /\ Fine /\ UNCHANGED system

Apply(w) ==
  Check(w) \/ UmountNfs(w) \/ UmountDisk(w) \/ MountDisk(w) \/ Merge(w) \/ Reply(w)

Next ==
  \/ \E d \in Disk : Unplug(d) \/ Plug(d)
  \/ \E w \in Worker :
       \/ \E d \in Disk : AppendStart(w, d)
       \/ Probe(w) \/ Mkfs(w) \/ Insert(w)
       \/ \E u \in Uuid : RemoveStart(w, u)
       \/ Delete(w) \/ Select(w) \/ Apply(w) \/ Crash(w)

Spec == Init /\ [][Next]_vars

-----------------------------------------------------------------------------
(* Properties.                                                             *)

\* Whatever crashes, failures and overlapping requests left behind, the next
\* request that runs alone and undisturbed brings the pool back: when it
\* replies, /nfs serves exactly the disks of the table, all of them mounted.
\* A table with a disk that is away leaves the pool to a later request.
SoloHeals ==
  \A w \in Worker :
    pc[w] = "reply" /\ clean[w] /\ rows # {} /\ rows \subseteq fs \cap present
    => Serving = rows /\ rows \subseteq mounted

\* While /nfs is served, each of its branches is a mounted disk, and no file
\* goes to the system disk below an empty mount point: through database errors,
\* mkfs failures and crashes, as long as administrators follow one another,
\* append only disks that are not in use, and no umount or mount fails.
BranchesAreDisks == orderly => Serving \subseteq mounted

\* Under the same conditions mounts do not pile up on /nfs: once the table is
\* empty and the request replies, nothing is served any more.
EmptyPoolStops ==
  orderly =>
    /\ Len(nfs) <= 1
    /\ \A w \in Worker : pc[w] = "reply" /\ clean[w] /\ rows = {} => nfs = <<>>

\* Orderly requests never serve the system disk, nor anything from an empty table.
OrderlyPool == BranchesAreDisks /\ EmptyPoolStops
=============================================================================
