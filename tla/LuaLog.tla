-------------------------------- MODULE LuaLog --------------------------------
(***************************************************************************)
(* lualog, the C library behind only.log: log handles are userdata of the  *)
(* worker's Lua state, found again by name in lualog.pool, and the entry   *)
(* "." of that table is the handle that lualog.write uses.  A handle that  *)
(* nothing refers to any more stays until the garbage collector finalizes  *)
(* it, long after its name may have been opened again.                     *)
(*                                                                         *)
(* The caller is any Lua code of the worker that holds handles in its      *)
(* variables; only.makelogs is the sequence Save, Open, Write, Restore.    *)
(* There is one thread: while a line is written only the clock and the     *)
(* collector go on. Levels, additional fields and the layout of a line are *)
(* left out.                                                               *)
(***************************************************************************)
EXTENDS Naturals

CONSTANTS
  Name,      \* base names of log files
  Dir,       \* directories, all of which exist
  StartDir,  \* the log path a worker starts with
  Handle,    \* bound: the userdata that exist at the same time
  Fd,        \* the descriptors left for logs (0, 1 and 2 are in use)
  LastDay,   \* bound: days that pass
  Null       \* nil, or the descriptor -1

ASSUME LuaLogAssumption ==
  /\ StartDir \in Dir /\ Name # {}
  /\ Null \notin Handle \cup Fd \cup Dir
  /\ LastDay \in Nat

\* <logpath>/<day>_<name>.log
File == [dir : Dir, day : 0..LastDay, name : Name]

ASSUME NullAssumption == Null \notin File

VARIABLES
  live,      \* the handles that exist, garbage included
  fd,        \* LogHdl.fd
  path,      \* LogHdl.path
  name,      \* LogHdl.name
  pool,      \* lualog.pool: the handle for each name
  default,   \* lualog.pool["."]
  inHand,    \* handles in Lua variables of the worker
  current,   \* the name that the default was opened, or put back, for
  writing,   \* the line that is being written
  logpath,   \* the default directory
  file,      \* what each descriptor refers to, Null if it is closed
  today,
  outcome    \* the latest call: what it was for and what it did

handles == <<live, fd, path, name>>
tables == <<pool, default, inHand, current>>
vars == <<live, fd, path, name, pool, default, inHand, current, writing, logpath, file,
          today, outcome>>

Quiet == [op |-> "none", want |-> Null, got |-> Null]

(* A line: how far it is, its handle, the place it is for on the day of    *)
(* its time stamp, and the descriptor that it will be printed to, Null for *)
(* the terminal.                                                           *)
Line == [at : {"stamped", "opened"}, hdl : Handle,
         want : File, fd : Fd \cup {Null}]
NoLine == [at |-> "none", hdl |-> Null, want |-> Null, fd |-> Null]

TypeOK ==
  /\ live \subseteq Handle /\ inHand \subseteq live
  /\ fd \in [Handle -> Fd \cup {Null}]
  /\ path \in [Handle -> Dir] /\ name \in [Handle -> Name]
  /\ pool \in [Name -> live \cup {Null}] /\ default \in live \cup {Null}
  /\ logpath \in Dir
  /\ file \in [Fd -> File \cup {Null}]
  /\ today \in 0..LastDay
  /\ current \in Name
  /\ writing \in {NoLine} \cup Line
  /\ outcome.op \in {"none", "open", "write"}

Init ==
  /\ live = {} /\ inHand = {}
  /\ fd = [h \in Handle |-> Null]
  /\ path = [h \in Handle |-> StartDir]
  /\ name = [h \in Handle |-> CHOOSE n \in Name : TRUE]
  /\ pool = [n \in Name |-> Null] /\ default = Null
  /\ logpath = StartDir
  /\ file = [d \in Fd |-> Null]
  /\ today = 0
  /\ current = CHOOSE n \in Name : TRUE
  /\ writing = NoLine
  /\ outcome = Quiet

-----------------------------------------------------------------------------
\* What Lua can still reach is not garbage.
Reachable == inHand \cup {default} \cup {pool[n] : n \in Name}

TodaysFile(p, n) == [dir |-> p, day |-> today, name |-> n]

\* Slip for Reopen: the old file is closed before the new one is open.
\* (A failing open then leaves a number in fd that is not the handle's.)
ReopenClosesFirst(h, p, n, ok) ==
  IF ok
  THEN \E d \in Fd :
         /\ file[d] = Null
         /\ fd' = [fd EXCEPT ![h] = d]
         /\ file' = [e \in Fd |-> IF e = d THEN TodaysFile(p, n)
                                  ELSE IF e = fd[h] THEN Null ELSE file[e]]
  ELSE /\ file' = [e \in Fd |-> IF e = fd[h] THEN Null ELSE file[e]]
       /\ UNCHANGED fd

\* _initlog: open today's file, then close the one the handle had.  A free
\* descriptor is needed even to replace one.
Reopen(h, p, n, ok) ==
  IF ok
  THEN \E d \in Fd :
         /\ file[d] = Null
         /\ fd' = [fd EXCEPT ![h] = d]
         /\ file' = [e \in Fd |-> IF e = d THEN TodaysFile(p, n)
                                  ELSE IF e = fd[h] THEN Null ELSE file[e]]
  ELSE UNCHANGED <<fd, file>>

\* lualog.open(file) for a name that the pool knows: the handle becomes the
\* default.  A name with a path is looked up as a whole, and is never found.
OpenAgain(n) ==
  /\ pool[n] # Null
  /\ default' = pool[n]
  /\ inHand' \in {inHand, inHand \cup {pool[n]}}
  /\ current' = n
  /\ outcome' = [op |-> "open", want |-> [dir |-> logpath, name |-> n],
                 got |-> [dir |-> path[pool[n]], name |-> name[pool[n]]]]
  /\ UNCHANGED <<handles, pool, writing, logpath, file, today>>

\* Slip for OpenNew: the handle is stored before its file is open.
OpenNewStoresFirst(n, dir) ==
  LET p == IF dir = Null THEN logpath ELSE dir IN
  \E h \in Handle \ live, ok \in BOOLEAN :
    /\ dir = Null => pool[n] = Null
    /\ live' = live \cup {h}
    /\ path' = [path EXCEPT ![h] = p] /\ name' = [name EXCEPT ![h] = n]
    /\ Reopen(h, p, n, ok)
    /\ pool' = [pool EXCEPT ![n] = h] /\ default' = h /\ current' = n
    /\ outcome' = Quiet
    /\ UNCHANGED <<inHand, writing, logpath, today>>

\* lualog.open(file) for anything else makes a new handle, and stores it under
\* the base name.  If the file cannot be opened, the handle is garbage at once.
OpenNew(n, dir) ==
  LET p == IF dir = Null THEN logpath ELSE dir IN
  \E h \in Handle \ live, ok \in BOOLEAN :
    /\ dir = Null => pool[n] = Null
    /\ live' = live \cup {h}
    /\ path' = [path EXCEPT ![h] = p] /\ name' = [name EXCEPT ![h] = n]
    /\ Reopen(h, p, n, ok)
    /\ IF ok
       THEN /\ pool' = [pool EXCEPT ![n] = h] /\ default' = h /\ current' = n
            /\ inHand' \in {inHand, inHand \cup {h}}
            /\ outcome' = [op |-> "open", want |-> [dir |-> p, name |-> n],
                           got |-> [dir |-> p, name |-> n]]
       ELSE UNCHANGED tables /\ outcome' = Quiet
    /\ UNCHANGED <<writing, logpath, today>>

-----------------------------------------------------------------------------
(* lualog.write and handle:write, in the steps between which time passes.  *)

\* _writelogbyhdlwrap: the line is stamped. Without a handle it goes to the
\* terminal.
Write(h, n) ==
  /\ IF h = Null THEN UNCHANGED writing
     ELSE writing' = [at |-> "stamped", hdl |-> h,
                      want |-> TodaysFile(path[h], n), fd |-> Null]
  /\ outcome' = Quiet
  /\ UNCHANGED <<handles, tables, logpath, file, today>>

\* Slip for WriteOpens: the file is kept for as long as it is open.
WriteOpensOnce ==
  /\ writing.at = "stamped"
  /\ writing' = [writing EXCEPT !.at = "opened", !.fd = fd[writing.hdl]]
  /\ outcome' = Quiet
  /\ UNCHANGED <<handles, tables, logpath, file, today>>

\* _writelogtofile up to _initlog, which looks at the clock anew.  The test
\* whether the day has changed compares tm_year with twelve times tm_year and
\* always says yes.  If the file cannot be opened, the line goes to the terminal.
WriteOpens ==
  /\ writing.at = "stamped"
  /\ \E ok \in BOOLEAN :
       /\ Reopen(writing.hdl, path[writing.hdl], name[writing.hdl], ok)
       /\ writing' = [writing EXCEPT !.at = "opened",
                                     !.fd = IF ok THEN fd'[writing.hdl] ELSE Null]
  /\ outcome' = Quiet
  /\ UNCHANGED <<live, path, name, tables, logpath, today>>

\* dprintf
WritePrints ==
  /\ writing.at = "opened"
  /\ writing' = NoLine
  /\ outcome' = IF writing.fd = Null THEN Quiet
               ELSE [op |-> "write", want |-> writing.want, got |-> file[writing.fd]]
  /\ UNCHANGED <<handles, tables, logpath, file, today>>

\* handle:flush()
Flush(h) ==
  /\ \E ok \in BOOLEAN : Reopen(h, path[h], name[h], ok)
  /\ outcome' = Quiet
  /\ UNCHANGED <<live, path, name, tables, writing, logpath, today>>

\* lualog.close(): a new pool; the handles are left to the collector.
CloseAll ==
  /\ pool' = [n \in Name |-> Null] /\ default' = Null
  /\ outcome' = Quiet
  /\ UNCHANGED <<handles, inHand, current, writing, logpath, file, today>>

\* lualog.close(name) forgets the name, the default stays what it is.
CloseName(n) ==
  /\ pool' = [pool EXCEPT ![n] = Null]
  /\ outcome' = Quiet
  /\ UNCHANGED <<handles, default, inHand, current, writing, logpath, file, today>>

\* lualog.close(".")
CloseDefault ==
  /\ default' = Null
  /\ outcome' = Quiet
  /\ UNCHANGED <<handles, pool, inHand, current, writing, logpath, file, today>>

SetPath(p) ==
  /\ logpath' = p
  /\ outcome' = Quiet
  /\ UNCHANGED <<handles, tables, writing, file, today>>

\* _closelog, run by the collector: it clears the entry of the handle's name
\* even if another handle has it by now, and closes the file.
Collect(h) ==
  /\ h \in live \ Reachable
  /\ live' = live \ {h}
  /\ pool' = [pool EXCEPT ![name[h]] = Null]
  /\ default' = IF default = h THEN Null ELSE default
  /\ file' = [e \in Fd |-> IF e = fd[h] THEN Null ELSE file[e]]
  /\ fd' = [fd EXCEPT ![h] = Null]
  /\ outcome' = Quiet
  /\ UNCHANGED <<path, name, inHand, current, writing, logpath, today>>

\* only.makelogs keeps the default in a variable while it logs elsewhere ...
Save ==
  /\ default # Null /\ inHand' = inHand \cup {default}
  /\ outcome' = Quiet
  /\ UNCHANGED <<handles, pool, default, current, writing, logpath, file, today>>

\* ... and puts it back into the pool afterwards.
Restore(h) ==
  /\ default' = h /\ current' = name[h]
  /\ outcome' = Quiet
  /\ UNCHANGED <<handles, pool, inHand, writing, logpath, file, today>>

\* A Lua variable goes out of scope.
Drop(h) ==
  /\ inHand' = inHand \ {h}
  /\ outcome' = Quiet
  /\ UNCHANGED <<handles, pool, default, current, writing, logpath, file, today>>

Midnight ==
  /\ today < LastDay /\ today' = today + 1
  /\ outcome' = Quiet
  /\ UNCHANGED <<handles, tables, writing, logpath, file>>

\* Another call of the thread.
LogCall ==
  \/ \E n \in Name :
       \/ OpenAgain(n) \/ CloseName(n)
       \/ \E dir \in Dir \cup {Null} : OpenNew(n, dir)
  \/ Write(default, current)
  \/ Save \/ \E h \in inHand : Restore(h) \/ Write(h, name[h]) \/ Flush(h) \/ Drop(h)
  \/ CloseAll \/ CloseDefault
  \/ \E p \in Dir : SetPath(p)

Next ==
  \/ writing = NoLine /\ LogCall
  \/ WriteOpens \/ WritePrints
  \/ Midnight \/ \E h \in Handle : Collect(h)

Spec == Init /\ [][Next]_vars

-----------------------------------------------------------------------------
(* Properties.                                                             *)

\* Whatever is opened, closed, replaced and collected, and whichever open(2)
\* fails: each descriptor that is open belongs to exactly one handle, each
\* handle's descriptor is open, and refers to a file of the handle's name in
\* its directory.  So no descriptor leaks, and no handle writes through a
\* number that another log has got in the meantime.
DescriptorsOwned ==
  /\ \A h \in live : fd[h] # Null =>
       /\ file[fd[h]] # Null
       /\ file[fd[h]].dir = path[h] /\ file[fd[h]].name = name[h]
  /\ \A g, h \in live : g # h /\ fd[g] # Null => fd[g] # fd[h]
  /\ \A d \in Fd : file[d] # Null => \E h \in live : fd[h] = d

\* What Lua can reach has an open file: the collector never finalizes a handle
\* that a pool entry, the default or a variable still stands for, and no entry
\* stands for a handle whose open failed.
ReachableIsOpen == \A h \in Reachable \ {Null} : fd[h] # Null

\* A line that does not go to the terminal goes to a file of the name that the
\* caller opened last, or put back, whatever was opened, closed, collected and
\* reopened since; it is the file of the day of the line's own time stamp, or of
\* a later one up to today if midnight falls while the line is written.
LineOnItsDay ==
  outcome.op = "write" =>
    /\ outcome.got # Null
    /\ outcome.got.dir = outcome.want.dir /\ outcome.got.name = outcome.want.name
    /\ outcome.got.day \in outcome.want.day .. today

\* lualog.c:98, "the argument is the name of the log file, the default path is
\* used if it contains no path": what open returns logs to the place asked for.
OpensWhatWasAsked == outcome.op = "open" => outcome.got = outcome.want
=============================================================================
