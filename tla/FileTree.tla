------------------------------- MODULE FileTree -------------------------------
(***************************************************************************)
(* fsystem_manager: optCreate, optPush, optPull, optDelete, optClear and   *)
(* optRename on the files of one user.  Each worker executes one handler   *)
(* at a time, call by call to the file system; nothing locks a path        *)
(* between the call that looks at it and the call that changes it.         *)
(***************************************************************************)
EXTENDS Naturals, Sequences, FiniteSets, SequencesExt

CONSTANTS
  Path,      \* the paths below /nfs/guest_<user>: sequences of names
  Worker,
  Requests,  \* what clients ask for: <<op, path>>, or <<"rename", from, to>>
  Trouble    \* what may go wrong: full (pool), xdev (branches), crash

Name == UNION {{p[i] : i \in DOMAIN p} : p \in Path}

\* With a path there are the paths of the directories above it.
ASSUME FileTreeAssumption ==
  /\ Path \subseteq Seq(Name) \ {<<>>}
  /\ \A p \in Path : \A n \in 1 .. Len(p) : SubSeq(p, 1, n) \in Path
  /\ Trouble \subseteq {"full", "xdev", "crash"}

File == {"empty", "full"}
Op == {"create", "mkdir", "push", "pull", "range", "delete", "clear", "rename"}

VARIABLES
  node,     \* what is at each path
  file,     \* the path of the file that optPush has open
  pc, op, path, dst,   \* the handler of each worker, its path or paths
  seen,     \* what optPull took the size of: its local file_size
  stack, cur, todo, hasSub, later,   \* the locals of remove_path, clear_path
  aim,      \* what the next call is about: their file_path, the target of mv
  code,     \* what it answers
  clean,    \* no other request was in flight on its paths
  kept      \* where acknowledged content has to be

locals == <<stack, cur, todo, hasSub, later, aim>>
request == <<op, path, dst, seen>>
disk == <<node, file>>
vars == <<disk, pc, request, locals, code, clean, kept>>

NoPath == <<>>

Typing ==
  /\ node \in [Path -> {"absent", "dir"} \cup File]
  /\ pc \in [Worker -> {"idle", "look", "change", "write", "lookdst", "send", "reply",
                        "mv", "mvto", "copy", "drop",
                        "remove", "erase", "open", "entry", "unlink", "rmdirs"}]
  /\ op \in [Worker -> Op \cup {"none"}]
  /\ path \in [Worker -> Path \cup {NoPath}] /\ dst \in [Worker -> Path \cup {NoPath}]
  /\ file \in [Worker -> Path \cup {NoPath}]
  /\ stack \in [Worker -> Seq(Path)] /\ cur \in [Worker -> Path \cup {NoPath}]
  /\ todo \in [Worker -> SUBSET Path] /\ hasSub \in [Worker -> BOOLEAN]
  /\ later \in [Worker -> SUBSET Path] /\ aim \in [Worker -> Path \cup {NoPath}]
  /\ seen \in [Worker -> {"none", "dir"} \cup File]
  /\ code \in [Worker -> {"none", "0", "10001", "20008", "20009",
                          "200", "206", "404", "416", "500", "cut"}]
  /\ clean \in [Worker -> BOOLEAN] /\ kept \subseteq Path

Init ==
  /\ node = [p \in Path |-> "absent"]
  /\ pc = [w \in Worker |-> "idle"] /\ op = [w \in Worker |-> "none"]
  /\ path = [w \in Worker |-> NoPath] /\ dst = path /\ file = path
  /\ stack = [w \in Worker |-> <<>>] /\ cur = path /\ todo = [w \in Worker |-> {}]
  /\ hasSub = [w \in Worker |-> FALSE] /\ later = todo /\ aim = path
  /\ seen = [w \in Worker |-> "none"]
  /\ code = [w \in Worker |-> "none"]
  /\ clean = [w \in Worker |-> FALSE] /\ kept = {}

-----------------------------------------------------------------------------
(* The file system.                                                        *)

Under(p) == {q \in Path : IsPrefix(p, q)}
Children(p) == {q \in Path : Len(q) = Len(p) + 1 /\ IsPrefix(p, q)}
Exists(p) == node[p] # "absent"
HasParent(p) == Len(p) > 1 => node[Front(p)] = "dir"
CanRmdir(p) == node[p] = "dir" /\ \A q \in Children(p) : ~Exists(q)

\* The types, and that what exists is in a directory.
TypeOK == Typing /\ \A p \in Path : Exists(p) => HasParent(p)

Put(p, what) == node' = [node EXCEPT ![p] = what] /\ UNCHANGED file

\* A file that is open loses its path and lives on.
Unlink(p) ==
  /\ node' = [node EXCEPT ![p] = "absent"]
  /\ file' = [v \in Worker |-> IF file[v] = p THEN NoPath ELSE file[v]]

\* os.remove, remove(3): unlink of a file, rmdir of a directory, which has to be empty.
CanOsRemove(p) == node[p] \in File \/ CanRmdir(p)
OsRemove(p) == IF node[p] \in File THEN Unlink(p) ELSE Put(p, "absent")

\* open(2) for writing creates a file or empties it.
CanOpen(p) == HasParent(p) /\ node[p] # "dir"

\* The path that q has when what is at s has moved to d.
Moved(s, d, q) == d \o SubSeq(q, Len(s) + 1, Len(q))

\* What is where when what is at s has replaced what is at d, and some paths are gone.
Replaced(s, d, gone) ==
  [q \in Path |->
     IF IsPrefix(d, q) THEN (IF Moved(d, s, q) \in Path THEN node[Moved(d, s, q)] ELSE "absent")
     ELSE IF q \in gone THEN "absent" ELSE node[q]]

\* Acknowledged content goes along, if no other request is in its way.
KeptAlong(w, s, d) ==
  kept' = (kept \ Under(s)) \cup
          IF clean[w] THEN {Moved(s, d, q) : q \in kept \cap Under(s)} ELSE {}

\* What is at s and below it is at d and below it from now on.
Move(w, s, d) ==
  /\ file' = [v \in Worker |->
                CASE file[v] = NoPath -> NoPath
                  [] IsPrefix(s, file[v]) -> Moved(s, d, file[v])
                  [] IsPrefix(d, file[v]) -> NoPath
                  [] OTHER -> file[v]]
  /\ KeptAlong(w, s, d)
  /\ node' = Replaced(s, d, Under(s))

\* The bound on Path: nothing is moved to where the model has no path for it.
Fits(s, d) == \A q \in Under(s) : Exists(q) => Moved(s, d, q) \in Path

\* rename(2) on one branch of the pool.
CanRename(s, d) ==
  /\ Exists(s) /\ HasParent(d) /\ ~IsPrefix(s, d) /\ ~IsStrictPrefix(d, s)
  /\ \/ ~Exists(d)
     \/ node[s] \in File /\ node[d] \in File
     \/ node[s] = "dir" /\ CanRmdir(d)

-----------------------------------------------------------------------------
(* Requests.                                                               *)

Goto(w, label) == pc' = [pc EXCEPT ![w] = label]

\* What a request refers to, and the file that it has open.
Refers(w) == {path[w], dst[w], file[w]} \ {NoPath}
Overlap(P, Q) == \E p \in P, q \in Q : IsPrefix(p, q) \/ IsPrefix(q, p)

\* Content may go away only at a path that is pushed to, or below one that is
\* deleted or cleared.
Gives(o, p) ==
  IF o \in {"delete", "clear"} THEN Under(p) ELSE IF o = "push" THEN {p} ELSE {}

Start(w, o, p, d) ==
  LET refers == {p, d} \ {NoPath}
      others == {v \in Worker : pc[v] # "idle" /\ Overlap(Refers(v), refers)}
  IN /\ op' = [op EXCEPT ![w] = o] /\ path' = [path EXCEPT ![w] = p]
     /\ dst' = [dst EXCEPT ![w] = d]
     /\ Goto(w, IF o = "push" THEN "change" ELSE "look")
     /\ clean' = [v \in Worker |-> IF v = w THEN others = {} ELSE clean[v] /\ v \notin others]
     /\ kept' = kept \ Gives(o, p)
     /\ UNCHANGED <<disk, seen, locals, code>>

Answer(w, c) == Goto(w, "reply") /\ code' = [code EXCEPT ![w] = c]
Continue(w, label) == Goto(w, label) /\ UNCHANGED code

\* The handler is over; its locals are gone.
Forget(w) ==
  /\ Goto(w, "idle")
  /\ op' = [op EXCEPT ![w] = "none"]
  /\ path' = [path EXCEPT ![w] = NoPath] /\ dst' = [dst EXCEPT ![w] = NoPath]
  /\ seen' = [seen EXCEPT ![w] = "none"]
  /\ stack' = [stack EXCEPT ![w] = <<>>] /\ cur' = [cur EXCEPT ![w] = NoPath]
  /\ todo' = [todo EXCEPT ![w] = {}] /\ hasSub' = [hasSub EXCEPT ![w] = FALSE]
  /\ later' = [later EXCEPT ![w] = {}] /\ aim' = [aim EXCEPT ![w] = NoPath]
  /\ file' = [file EXCEPT ![w] = NoPath]
  /\ code' = [code EXCEPT ![w] = "none"] /\ clean' = [clean EXCEPT ![w] = FALSE]
  /\ UNCHANGED node

\* The client learns of the success: pushed content has to stay.
Reply(w) ==
  /\ pc[w] = "reply"
  /\ kept' = IF op[w] = "push" /\ code[w] = "0" /\ clean[w]
             THEN kept \cup {path[w]} ELSE kept
  /\ Forget(w)

Crash(w) ==
  /\ "crash" \in Trouble /\ pc[w] # "idle"
  /\ Forget(w) /\ UNCHANGED kept

-----------------------------------------------------------------------------
(* lfs.attributes of the path, the first step of all but optPush.          *)

LookCreate(w) ==
  /\ pc[w] = "look" /\ op[w] \in {"create", "mkdir"}
  /\ IF Exists(path[w]) THEN Answer(w, "20008") ELSE Continue(w, "change")
  /\ UNCHANGED <<disk, request, locals, clean, kept>>

LookRemoval(w) ==
  /\ pc[w] = "look" /\ op[w] \in {"delete", "clear"}
  /\ IF Exists(path[w]) THEN Continue(w, "remove") ELSE Answer(w, "0")
  /\ UNCHANGED <<disk, request, locals, clean, kept>>

LookSrc(w) ==
  /\ pc[w] = "look" /\ op[w] = "rename"
  /\ IF Exists(path[w]) THEN Continue(w, "lookdst") ELSE Answer(w, "20009")
  /\ UNCHANGED <<disk, request, locals, clean, kept>>

\* Slip for Mkdir: missing directories above the path are not noticed.
MkdirOrphan(w) ==
  /\ pc[w] = "change" /\ op[w] = "mkdir"
  /\ \/ Exists(path[w]) /\ Answer(w, "20008") /\ UNCHANGED disk
     \/ ~Exists(path[w]) /\ Put(path[w], "dir") /\ Answer(w, "0")
  /\ UNCHANGED <<request, locals, clean, kept>>

Mkdir(w) ==
  /\ pc[w] = "change" /\ op[w] = "mkdir"
  /\ \/ Exists(path[w]) /\ Answer(w, "20008") /\ UNCHANGED disk
     \/ ~Exists(path[w]) /\ HasParent(path[w]) /\ Put(path[w], "dir") /\ Answer(w, "0")
     \/ /\ ~Exists(path[w]) /\ (~HasParent(path[w]) \/ "full" \in Trouble)
        /\ Answer(w, "10001") /\ UNCHANGED disk
  /\ UNCHANGED <<request, locals, clean, kept>>

\* io.open with "w" or "wb": it creates the file or empties it.
OpenFile(w) ==
  /\ pc[w] = "change" /\ op[w] \in {"create", "push"}
  /\ \/ /\ CanOpen(path[w])
        /\ node' = [node EXCEPT ![path[w]] = "empty"]
        /\ file' = IF op[w] = "push" THEN [file EXCEPT ![w] = path[w]] ELSE file
        /\ IF op[w] = "push" THEN Continue(w, "write") ELSE Answer(w, "0")
     \/ /\ ~CanOpen(path[w]) \/ "full" \in Trouble
        /\ Answer(w, "10001") /\ UNCHANGED disk
  /\ UNCHANGED <<request, locals, clean, kept>>

\* The content goes to the file that was opened.  The results of write and
\* close are not looked at: a full pool cuts the content short.
Write(w) ==
  /\ pc[w] = "write"
  /\ \/ file[w] # NoPath /\ Put(file[w], "full") /\ UNCHANGED clean
     \/ file[w] = NoPath /\ UNCHANGED <<disk, clean>>
     \/ "full" \in Trouble /\ clean' = [clean EXCEPT ![w] = FALSE] /\ UNCHANGED disk
  /\ Answer(w, "0")
  /\ UNCHANGED <<request, locals, kept>>

-----------------------------------------------------------------------------
(* optPull of the whole file, or of a range that begins with its first     *)
(* byte. The size comes from one open of the file, the content from        *)
(* another. A directory can be opened and not read.                        *)

\* parse_range_header leaves no range of an empty file.
Satisfiable(p) == node[p] # "empty"

PullSize(w) ==
  /\ pc[w] = "look" /\ op[w] \in {"pull", "range"}
  /\ seen' = [seen EXCEPT ![w] = IF Exists(path[w]) THEN node[path[w]] ELSE "none"]
  /\ CASE ~Exists(path[w]) -> Answer(w, "404")
       [] Exists(path[w]) /\ op[w] = "range" /\ ~Satisfiable(path[w]) -> Answer(w, "416")
       [] OTHER -> Continue(w, "send")
  /\ UNCHANGED <<disk, op, path, dst, locals, clean, kept>>

\* send_file_part: Content-Length is that of what was read.
SendFilePart(p) == CASE ~Exists(p) -> "404" [] node[p] = "full" -> "206" [] OTHER -> "500"

\* The whole file under the Content-Length that was seen; "cut" where the two
\* differ. (A file that is emptied between two reads of its content ends the same way.)
SendWhole(p, size) ==
  CASE ~Exists(p) -> "404" [] node[p] = size /\ size \in File -> "200" [] OTHER -> "cut"

PullSend(w) ==
  /\ pc[w] = "send"
  /\ Answer(w, IF op[w] = "range" THEN SendFilePart(path[w]) ELSE SendWhole(path[w], seen[w]))
  /\ UNCHANGED <<disk, request, locals, clean, kept>>

-----------------------------------------------------------------------------
(* optRename *)

\* Slip for LookDst: an existing destination is not refused.
LookDstSkipped(w) ==
  /\ pc[w] = "lookdst"
  /\ Continue(w, "change")
  /\ UNCHANGED <<disk, request, locals, clean, kept>>

LookDst(w) ==
  /\ pc[w] = "lookdst"
  /\ IF Exists(dst[w]) THEN Answer(w, "20008") ELSE Continue(w, "change")
  /\ UNCHANGED <<disk, request, locals, clean, kept>>

Rename(w) ==
  /\ pc[w] = "change" /\ op[w] = "rename"
  /\ \/ /\ CanRename(path[w], dst[w]) /\ Fits(path[w], dst[w])
        /\ Move(w, path[w], dst[w]) /\ Answer(w, "0")
     \/ /\ ~CanRename(path[w], dst[w]) \/ "xdev" \in Trouble
        /\ Continue(w, "mv") /\ UNCHANGED <<disk, kept>>
  /\ UNCHANGED <<request, locals, clean>>

\* The command mv: it moves into the destination if that has become a directory;
\* it renames, and between branches it copies and then removes the source.
Mv(w) ==
  LET to == IF node[dst[w]] = "dir" THEN Append(dst[w], Last(path[w])) ELSE dst[w]
  IN /\ pc[w] = "mv"
     /\ IF to \in Path THEN Continue(w, "mvto") /\ aim' = [aim EXCEPT ![w] = to]
                       ELSE Answer(w, "10001") /\ UNCHANGED aim
     /\ UNCHANGED <<disk, request, stack, cur, todo, hasSub, later, clean, kept>>

CanMv(w) == CanRename(path[w], aim[w]) /\ Fits(path[w], aim[w])

MvRename(w) ==
  /\ pc[w] = "mvto"
  /\ \/ CanMv(w) /\ Move(w, path[w], aim[w]) /\ Answer(w, "0")
     \/ CanMv(w) /\ "xdev" \in Trouble /\ Continue(w, "copy") /\ UNCHANGED <<disk, kept>>
     \/ ~CanMv(w) /\ Answer(w, "10001") /\ UNCHANGED <<disk, kept>>
  /\ UNCHANGED <<request, locals, clean>>

\* What is open at the target loses its path.
Displaced(d) == [v \in Worker |-> IF IsPrefix(d, file[v]) THEN NoPath ELSE file[v]]

\* One step for all files of a directory. A full pool leaves the beginning.
MvCopy(w) ==
  /\ pc[w] = "copy"
  /\ \/ /\ CanMv(w) /\ Continue(w, "drop")
        /\ node' = Replaced(path[w], aim[w], {}) /\ file' = Displaced(aim[w])
     \/ /\ CanMv(w) /\ "full" \in Trouble /\ Answer(w, "10001")
        /\ node' = [node EXCEPT ![aim[w]] = IF node[path[w]] = "dir" THEN "dir" ELSE "empty"]
        /\ file' = Displaced(aim[w])
     \/ ~CanMv(w) /\ Answer(w, "10001") /\ UNCHANGED disk
  /\ UNCHANGED <<request, locals, clean, kept>>

MvDrop(w) ==
  /\ pc[w] = "drop"
  /\ \/ /\ Exists(path[w]) /\ Answer(w, "0")
        /\ node' = [q \in Path |-> IF IsPrefix(path[w], q) THEN "absent" ELSE node[q]]
        /\ file' = Displaced(path[w])
        /\ KeptAlong(w, path[w], aim[w])
     \/ ~Exists(path[w]) /\ Answer(w, "10001") /\ UNCHANGED <<disk, kept>>
  /\ UNCHANGED <<request, locals, clean>>

-----------------------------------------------------------------------------
(* remove_path and clear_path: lfs.attributes, then one call or a walk.    *)

RemovePath(w) ==
  /\ pc[w] = "remove"
  /\ \/ ~Exists(path[w]) /\ Answer(w, "10001") /\ UNCHANGED stack
     \/ node[path[w]] \in File /\ Continue(w, "erase") /\ UNCHANGED stack
     \/ /\ node[path[w]] = "dir"
        /\ stack' = [stack EXCEPT ![w] = <<path[w]>>]
        /\ Continue(w, "open")
  /\ UNCHANGED <<disk, request, cur, todo, hasSub, later, aim, clean, kept>>

\* What was not a directory: remove_path removes it, clear_path opens it with "w".
EraseFile(w) ==
  /\ pc[w] = "erase"
  /\ \/ op[w] = "delete" /\ CanOsRemove(path[w]) /\ OsRemove(path[w]) /\ Answer(w, "0")
     \/ op[w] = "delete" /\ ~CanOsRemove(path[w]) /\ Answer(w, "10001") /\ UNCHANGED disk
     \/ op[w] = "clear" /\ CanOpen(path[w]) /\ Put(path[w], "empty") /\ Answer(w, "0")
     \/ /\ op[w] = "clear" /\ (~CanOpen(path[w]) \/ (~Exists(path[w]) /\ "full" \in Trouble))
        /\ Answer(w, "10001") /\ UNCHANGED disk
  /\ UNCHANGED <<request, locals, clean, kept>>

\* The directory on top of the stack is read; lfs.dir raises an error if it
\* is gone.
OpenDir(w) ==
  LET top == Last(stack[w])
  IN /\ pc[w] = "open" /\ stack[w] # <<>>
     /\ stack' = [stack EXCEPT ![w] = Front(@)]
     /\ cur' = [cur EXCEPT ![w] = top] /\ hasSub' = [hasSub EXCEPT ![w] = FALSE]
     /\ IF node[top] = "dir"
        THEN /\ todo' = [todo EXCEPT ![w] = {q \in Children(top) : Exists(q)}]
             /\ Continue(w, "entry")
        ELSE Answer(w, "10001") /\ UNCHANGED todo
     /\ UNCHANGED <<disk, request, later, aim, clean, kept>>

\* One entry: a directory is put aside, anything else is to be removed.
Entry(w) ==
  /\ pc[w] = "entry"
  /\ \E q \in todo[w] :
       /\ todo' = [todo EXCEPT ![w] = @ \ {q}]
       /\ \/ ~Exists(q) /\ Answer(w, "10001") /\ UNCHANGED <<stack, hasSub, aim>>
          \/ /\ node[q] = "dir"
             /\ stack' = [stack EXCEPT ![w] = Append(@, q)]
             /\ hasSub' = [hasSub EXCEPT ![w] = TRUE]
             /\ Continue(w, "entry") /\ UNCHANGED aim
          \/ /\ node[q] \in File
             /\ aim' = [aim EXCEPT ![w] = q]
             /\ Continue(w, "unlink") /\ UNCHANGED <<stack, hasSub>>
  /\ UNCHANGED <<disk, request, cur, later, clean, kept>>

RemoveEntry(w) ==
  /\ pc[w] = "unlink"
  /\ IF CanOsRemove(aim[w]) THEN OsRemove(aim[w]) /\ Continue(w, "entry")
                          ELSE Answer(w, "10001") /\ UNCHANGED disk
  /\ aim' = [aim EXCEPT ![w] = NoPath]
  /\ UNCHANGED <<request, stack, cur, todo, hasSub, later, clean, kept>>

\* clear_path leaves the directory that it was called with.
LeftByClear(w) == op[w] = "clear" /\ cur[w] = path[w]

AfterDir(w) == IF stack[w] = <<>> THEN "rmdirs" ELSE "open"

\* The directory has been gone through: it is removed, or put aside if it has
\* subdirectories.
CloseDir(w) ==
  /\ pc[w] = "entry" /\ todo[w] = {}
  /\ ~LeftByClear(w)
  /\ \/ /\ hasSub[w]
        /\ later' = [later EXCEPT ![w] = @ \cup {cur[w]}]
        /\ Continue(w, AfterDir(w)) /\ UNCHANGED disk
     \/ /\ ~hasSub[w] /\ CanRmdir(cur[w])
        /\ Put(cur[w], "absent") /\ Continue(w, AfterDir(w)) /\ UNCHANGED later
     \/ /\ ~hasSub[w] /\ ~CanRmdir(cur[w])
        /\ Answer(w, "10001") /\ UNCHANGED <<disk, later>>
  /\ UNCHANGED <<request, stack, cur, todo, hasSub, aim, clean, kept>>

KeepDir(w) ==
  /\ pc[w] = "entry" /\ todo[w] = {}
  /\ LeftByClear(w) /\ Continue(w, AfterDir(w))
  /\ UNCHANGED <<disk, request, locals, clean, kept>>

\* Slip for Rmdirs: in the order in which they were put aside.
RmdirsUnsorted(w) ==
  /\ pc[w] = "rmdirs"
  /\ \/ later[w] = {} /\ Answer(w, "0") /\ UNCHANGED <<disk, later>>
     \/ \E q \in later[w] :
          /\ \A r \in later[w] : Len(r) >= Len(q)
          /\ later' = [later EXCEPT ![w] = @ \ {q}]
          /\ IF CanRmdir(q) THEN Put(q, "absent") /\ Continue(w, "rmdirs")
                            ELSE Answer(w, "10001") /\ UNCHANGED disk
  /\ UNCHANGED <<request, stack, cur, todo, hasSub, aim, clean, kept>>

\* The directories put aside, the longest path first. How long names are is left
\* open: a path is longer than those above it.
Rmdirs(w) ==
  /\ pc[w] = "rmdirs"
  /\ \/ later[w] = {} /\ Answer(w, "0") /\ UNCHANGED <<disk, later>>
     \/ \E q \in later[w] :
          /\ \A r \in later[w] : ~IsStrictPrefix(q, r)
          /\ later' = [later EXCEPT ![w] = @ \ {q}]
          /\ IF CanRmdir(q) THEN Put(q, "absent") /\ Continue(w, "rmdirs")
                            ELSE Answer(w, "10001") /\ UNCHANGED disk
  /\ UNCHANGED <<request, stack, cur, todo, hasSub, aim, clean, kept>>

-----------------------------------------------------------------------------
Handler(w) ==
  \/ LookCreate(w) \/ Mkdir(w) \/ OpenFile(w) \/ Write(w)
  \/ PullSize(w) \/ PullSend(w) \/ LookSrc(w) \/ LookDst(w) \/ Rename(w)
  \/ Mv(w) \/ MvRename(w) \/ MvCopy(w) \/ MvDrop(w)
  \/ LookRemoval(w) \/ RemovePath(w) \/ EraseFile(w) \/ OpenDir(w) \/ Entry(w)
  \/ RemoveEntry(w) \/ CloseDir(w) \/ KeepDir(w) \/ Rmdirs(w) \/ Reply(w)

Request(w) ==
  /\ pc[w] = "idle"
  /\ \/ \E o \in Op \ {"rename"}, p \in Path : <<o, p>> \in Requests /\ Start(w, o, p, NoPath)
     \/ \E p, d \in Path : p # d /\ <<"rename", p, d>> \in Requests /\ Start(w, "rename", p, d)

Next == \E w \in Worker : Request(w) \/ Handler(w) \/ Crash(w)

Spec == Init /\ [][Next]_vars

-----------------------------------------------------------------------------
(* Properties.                                                             *)

\* Content stays whose push was acknowledged and, like every rename of it since,
\* collided with no other request on its path: until its path is pushed to,
\* deleted or cleared, no request that comes later, and none on other paths, takes
\* it away, however these overlap and whatever dies. (A push during another request
\* on its path has no such promise: optCreate may empty what it acknowledged.)
KeptStays == \A p \in kept : node[p] = "full"

\* A request that no other one collided with does what its success says,
\* whatever crashed and half done requests left behind: above all, delete and
\* clear never fail, and leave nothing, and a pull has the length that it
\* announced, and acknowledged content to show. (What delete and clear answer
\* where there is nothing is the matter of AbsentIsTold.)
UndisturbedDoWhatTheySay ==
  \A w \in Worker : pc[w] = "reply" /\ clean[w] =>
    /\ op[w] \in {"delete", "clear"} =>
         code[w] # "10001" /\ \A q \in Under(path[w]) \ {path[w]} : ~Exists(q)
    /\ code[w] = "0" =>
         CASE op[w] = "delete" -> ~Exists(path[w])
           [] op[w] = "clear" -> node[path[w]] # "full"
           [] op[w] = "create" -> node[path[w]] = "empty"
           [] op[w] = "mkdir" -> node[path[w]] = "dir"
           [] op[w] = "push" -> node[path[w]] = "full"
           [] op[w] = "rename" -> ~Exists(path[w]) /\ Exists(dst[w])
    /\ op[w] \in {"pull", "range"} /\ node[path[w]] # "dir" =>
         /\ code[w] \notin {"cut", "500"}
         /\ path[w] \in kept => code[w] \in {"200", "206"}

\* doc/api_opt_delete.md and doc/api_opt_clear.md (33, 51) have the error 20009,
\* "path is not exists!": a removal that finds nothing at its path answers that.
AbsentIsTold ==
  [][\A w \in Worker : LookRemoval(w) /\ ~Exists(path[w]) => code'[w] = "20009"]_vars
=============================================================================
