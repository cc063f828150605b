# Verification of ngxapi

ngxapi is the API gateway of a small network-attached storage box: OpenResty with
Lua handlers that register users, serve their files and manage the disk pool, a
central service that activates devices, and the C and Lua libraries under
`src/open/lib` that they are built with. This directory holds TLA+ models of it, the
TLC configurations that check them, and TLAPS proofs about them. `PROJECT.json`
lists the runs, the mutants that every property was tried against, the source lines
behind each definition, the hazards, the findings and the theorems.

    tlc -workers 2 -config MCAccounts.cfg MCAccounts.tla     # a run
    tlapm AccountsProofs.tla                                 # the proofs of a module

## 1. The system

nginx runs 8 worker processes (`client_nginx.conf:3`, `server_nginx.conf:3`). A
worker has one Lua state and runs requests as coroutines. Two things follow, and
every model rests on them:

- `os.execute`, `io.popen`, file operations and the LuaSocket/LuaSQL calls **block**
  the worker. A handler that only makes such calls runs on its worker without
  another request in between, and interleaves, one command or statement at a time,
  with the handlers of **other workers**. Reading a form (`resty.upload`) and
  sockets of `ngx.socket` yield: the coroutines of one worker interleave there.
- nothing is locked. What workers share is outside of them: MariaDB tables, the file
  system, system accounts, mounts, `ngx.shared.cache`. What a worker keeps in Lua
  tables (connections, pools, log handles) is its own.

A worker that dies is started again by nginx with a fresh Lua state; shared state
stays as the last step left it.

### 1.1 Inventory

| Component | State | Operations | Hard behaviour | Module |
|---|---|---|---|---|
| `account_manager`: users | table `user_list`; accounts `guest_<user>`; vsftpd login db and the file it is made from; `vuser_conf`; samba map and password db | enroll, accept, reject, remove | 5-15 commands per handler over six resources without a lock; any of them fails; workers die | `Accounts` |
| `fsystem_manager`: files | the tree below `/nfs/guest_<user>` | optCreate, optPush, optDelete, optClear, optRename (change it); optInfo, optPull (read it) | look first, change later; trees removed entry by entry; a push in flight while its directory is renamed or deleted | `FileTree` |
| `fsystem_manager`: slices | `.UPLOAD_CACHE` with one part per slice; the destination | optSlicePush, optSliceComplete | parts are removed while the destination is still in a buffer; crash and repeat | `SliceUpload` |
| `storage_manager` | table `disk_list`; disks, file systems, mounts below `/mnt`; mergerfs on `/nfs` | poolDiskAppend, poolDiskRemove; two listings | the served pool is torn down and built again by each call; results are ignored; overlapping calls | `StoragePool` |
| `manage_center` | `ngx.shared.cache` with a code per device; users and keys of headscale | getVerificationCode, deviceActive | get and delete are two calls over 8 processes | `ManageCenter` |
| `open/linkup/mysql_pool_api` | one connection per database and worker | cmd (and exec, transactions) | repeats inside repeats; which attempts may be repeated | `MysqlPool` |
| `open/linkup/redis_pool_api`, `lhttp_pool_api` | pools of members, queues of sockets | init, add_to_pool, del_from_pool, only/hash/just_cmd | repeats; pools that change under a command | `RedisPool` |
| `open/lib/queue` | ring buffer with two indices and a counter | push, pull, free | wrap-around; a free that stops half way | `RingQueue` |
| `open/lib/lua-log`, `ngxonly/only` | log handles, `lualog.pool`, the default handle, descriptors | open, write, flush, close, setpath, `__gc`; only.makelogs | late finalizers; files replaced at every line; out of descriptors | `LuaLog` |
| `open/lib/luasql` (7 drivers) | userdata of environments, connections, statements and cursors; counts of children; entries of Lua's registry; handles of the database library; the transaction of a connection | every method that makes, changes or ends one of these, `__gc`, `lua_close` | close and collection in any order; failures half way; counts, registry and handles that have to agree | `SqlObjects`, `SqlMysql`, `SqlPostgres`, `SqlLite3`, `SqlLite`, `SqlOdbc`, `SqlOci8`, `SqlFirebird`, `LuaSql` |
| `open/lib/luasocket` | objects and their descriptors; two limits per object; a buffer per connection; contexts of the mail filters | socket calls, receive, send, select, filters of `mime.c`, `ltn12` | partial results and their continuation; signals; descriptors that change inside of a call; chunk borders | `Timeout`, `BufferedIo`, `SocketObjects`, `Select`, `Mime`, `Ltn12` |
| `open/lib/libconhash` | a red-black tree of virtual nodes, flags of the servers | init, set, add, del, lookup, destory | deletions of the tree; collisions; failing malloc | `RbTree`, `Conhash` |
| administrator login and modify, device activation (client side), user lists, user token | `sys_info`, `am-secret` | | see section 7 | not modelled |
| short APIs, ssdb, zmq, cache, gosay, perf, MSG, scan, cutils, redis.lua, installation | | | | not modelled, reasons in `PROJECT.json` |

### 1.2 Interactions

- Every handler of the three client-side managers reaches MariaDB through
  `mysql_pool_api.cmd`. `MysqlPool` shows what such a call may have done when it
  says no: the statement may have been executed. That is why each failing statement
  in `Accounts` and `StoragePool` has two outcomes.
- `account_manager` reads `disk_list` before it accepts a user (the pool must be
  there and active), and creates the home directories below `/nfs`, which
  `storage_manager` mounts and `fsystem_manager` serves.
- `redis_pool_api` and `lhttp_pool_api` keep their idle sockets in `queue`;
  `RingQueue` and its abstract specification `BoundedFifo` show that it is a queue,
  and `RedisPool` therefore speaks of queues as such.
- `deviceActive` of `account_manager` forwards to `manage_center`, which asks
  headscale for a key.
- Everything logs through `only`, that is through lualog's default handle.
- `mysql_pool_api` drives LuaSQL (`ls_mysql.c`) and the pools of sockets speak
  through LuaSocket's interface; `MysqlPool` and `RedisPool` take the outcomes of
  these libraries, `LuaSql` and `BufferedIo` say when the libraries give them.
- `redis_pool_api` asks `libconhash` which member a key belongs to. `RedisPool`
  leaves the choice open; `Conhash` shows that it moves only the keys of the member
  that came or went.

### 1.3 What makes each part correct

- Accounts: no handler deletes a system account that another one is setting up; an
  accepted user always has his account; vsftpd and samba serve the accepted rows and
  no other, or do again after the next success.
- Files: content whose push no other request collided with stays until somebody asks
  for it to go; a request that nobody disturbs does what its answer says, and an
  undisturbed delete leaves nothing and is never refused.
- Slices: success means the whole file, in order, whatever died.
- Storage: the next undisturbed call heals the pool; nothing is written below an
  empty mount point.
- Codes: one guess per code (and worker); one key per device; a code that was
  requested is there to be used.
- Pools: a statement is executed at most once; success is true; failure needs
  faults, or a member that was added without a queue; every command ends.
- Queue: first in, first out, nothing lost or doubled.
- Logs: no descriptor leaks or is shared; a line is in the file that its caller asked
  for, of the day of its stamp or of a later one if midnight comes in between.
- LuaSQL: counts equal the open children, so that nothing closes under a child and
  nothing is kept open for ever; the registry keeps parents alive; nothing freed is
  used; a handle goes with its object; manual mode and a commit that answered true
  hold. Where a driver breaks one of these, section 2 says which and how.
- LuaSocket: an open descriptor has one object; every byte is handed over once, in
  order, through any number of partial results; no poll reaches beyond a limit and no
  timeout comes early, and a call with a limit ends when its peer falls silent;
  select misses nothing; filters give the same however a text is cut.
- libconhash: the tree stays a red-black tree; an object belongs to the next virtual
  node; only the objects of a server that came or went move.

## 2. Modules

In all modules a handler is a sequence of actions, one per statement, command or
file operation that other processes can see; the variable `pc` says which one comes
next. Constants named `Trouble` or `Fault` are the set of things that may go wrong.
History variables, which no guard of the code reads, are named below. Each action
changes everything that its lines of code change. Actions whose comment begins with
*Slip for* are plausible bugs in the action they name: they are in no next-state
relation, and each of them, put in the place of the real action, makes TLC refute
one of the properties.

### MysqlPool (`mysql_pool_api.lua`)
One command of one worker. `Connect` is one attempt of `new_connect`, whose last
attempt counts as failed even if it got a connection (line 64 and on); `Execute` is
`mysql_api_execute` with its three outcomes: an error is raised (connection gone,
deadlock: nothing was executed), a nil result (any other error; if the connection
broke during the query, the statement may have been executed), a result. `Flush`
drops the connection, `Round` counts and decides. The server goes down and up and
the connection breaks between any two steps. History: `applied` (executions) and
`strikes` (incidents, counted to 2). LuaSQL and the server are external: the model
takes the outcomes `mysql_api_execute` can tell apart.

### BoundedFifo, RingQueue (`queue.lua`)
`BoundedFifo` is what callers may expect: values come out in order, a full queue
refuses, an empty one says so, `free` discards from the oldest on. `RingQueue` is
the code: `_first`, `_last`, `_counter` and the slots, with Lua's table index from
0. `Free` is one action (the loop has no yield) that goes round `k` times, as
`destroycb` may raise an error. The refinement maps `items` to the slots from
`_first` on, `_counter` of them.

### RedisPool (`redis_pool_api.lua`, the same code in `lhttp_pool_api.lua`)
`list`, `pools`, `queues` are `APP_LINK_REDIS_LIST`, `OWN_REDIS_POOLS` and the keys
of `OWN_SKTCT_POOLS`. A pool has the kind that link.lua or add_to_pool gave it:
`single` (no hash), `hash` (customer, consistent) or `appoint` (members under marks,
none under a number, so that `#list` is 0). A request is a coroutine: `RedisCall` is
only_cmd, hash_cmd or just_cmd up to the member that `only_fetch_pool`,
`hash_fetch_pool` or `just_fetch_pool` finds. It ends there with `nopool` if there is
none (an empty pool, no key, an unknown mark), and with `error` where just_fetch_pool
calls the hash of a pool that has none (`redis_pool_api.lua:58-62`). Which member a
key hashes to is left open. `Pull` gets a socket, `RedisExecute` sends the command,
`RedisRound` decides. add_to_pool may come for a configured address and for any
other. History: `effects` (executions), `faults` (rounds that failed because of a
server or the network). The queues stay empty, so each round connects: `init` takes
out again what it puts in, and a socket that served a command goes to nginx's
keepalive pool and not to the queue (lines 137-138).

### Accounts (`account_manager/api`)
`status` and `password` are the rows of `user_list`, `account` the system accounts,
`tmp`, `vsftp`, `conf` the files of vsftpd, `smbmap` and `pdb` those of samba. The
first action of a handler is its first SELECT or DELETE; `Useradd` is `useradd -m &&
chown` (the second may fail and leave the account); `Undo` is the `userdel -r` after
a refused password. `VsftpTmp` .. `VsftpRmTmp` are the four steps of `AM_utils.lua`
that rebuild the login database: `db_load -T` adds to a database, so the `rm` before
it matters. `CarefulAdmin` says that remove is called for accepted users only: the
handler itself does not look. Faults are all possible or none is (`fault`, chosen in
`Init`), so that one run answers both questions.

### SliceUpload (`api_opt_slice_push.lua`, `api_opt_slice_complete.lua`)
A part is absent, empty (opened) or full. `Join` opens the destination with "wb",
which empties it; `Copy` reads a part into the library's buffer and removes the
part; `FlushFile` may happen at any time. `Missing` and `Finish` close, which flushes.
The client (external, read from how the two handlers answer) has one task per path,
repeats what got no answer and starts over on 20009.

### FileTree (`fsystem_manager/api`, `FM_utils.lua`)
`node` is the tree, a path is a sequence of names. `Look*` is the `lfs.attributes`
that a handler begins with; the change is another action and may find another tree.
`remove_path`/`clear_path` (`RemovePath`) ask with `lfs.attributes` and remove, or
open with "w", in a later step (`EraseFile`, `RemoveEntry`); in between the path may
have become something else. They keep their explicit stack (`OpenDir`, `Entry`,
`CloseDir`) and the list of directories with subdirectories, removed by descending
length of the path (`Rmdirs`). How long names are is left open: of two directories
put aside, one of which is not above the other, either may come first. A file that a
push has open follows renames and survives unlinks (`file`). `rename(2)` may fail for
branches of mergerfs on different disks; then mv(1) does it, another process: `Mv`
looks whether the destination is a directory, `MvRename` renames, or finds that it
has to copy; `MvCopy` copies and `MvDrop` removes the source. optPull opens its file twice: `PullSize` takes the length that it
announces, `PullSend` is what it sends, and another worker can change the file in
between. History: `clean` (no request in flight overlapped this one) and `kept`
(content whose push, and every rename of it since, was clean).

### StoragePool (`storage_manager/api`)
`rows` is `disk_list`, `mounted` the mounts below `/mnt`, `nfs` the stack of mounts
on `/nfs` (mergerfs mounts over whatever is there). `data_pool_apply` is `Check`
(one inactive disk ends it, with success), `UmountNfs`, then `UmountDisk` and
`MountDisk` per disk, `Merge`, `Reply`. Results that the code ignores are ignored. poolDiskAppend
leaves the pool alone if the table has no row when it looks (`Select` at `appended`;
another request may have removed it), poolDiskRemove goes on. A
disk that blkid does not find is inserted as "nil". History: `clean`, `orderly`.

### ManageCenter (`manage_center/api`)
`cache` is `ngx.shared.cache`, whose single operations are atomic between processes;
`DeviceActive` ends with `cache:get`, `Delete` is `cache:delete` and the comparison
after it, `CreateUser` and `CreateKey` are the two headscale commands, each of which
may fail with or without effect. History: `tries` (who compared which code), `calm`
(nobody was between get and delete when the latest code was requested).

### LuaLog (`lua-log/lualog.c`, `ngxonly/only.lua`)
Handles are userdata: `live` ones include garbage that `Collect` (`__gc`) finalizes
at any later time. `pool` is `lualog.pool`, `default` its entry ".", `inHand`
the handles in Lua variables. `Reopen` is `_initlog`: open, then close the old file.
A line takes three steps between which the clock and the collector go on: `Write`
stamps it, `WriteOpens` goes through `_initlog`, which looks at the clock anew, and
`WritePrints` prints; `writing` is the line and the descriptor it will go to. Every
line opens its file, because `lualog.c:353` compares `tm_year` with twelve times the
handle's. only.makelogs is `Save`, `OpenNew` or `OpenAgain`, the steps of a line,
`Restore`. History: `current` (the name the default was opened, or put back, for) and
`outcome` (what the last call was to do and did).

### SqlObjects, the seven drivers, LuaSql (`luasql/src/ls_*.c`, `luasql.c`)
`SqlObjects` has the state that all drivers share (userdata with `st`, `up`, `lock`
and `native`; `anchor` for the registry; `tx` for the transaction) and the two
things Lua does by itself: a script lets go of an object, and `lua_close` finalizes
what is left, the youngest first. `Sql<Driver>` has one action per method of that
driver. `LuaSql` chooses a driver in `SqlInit` and states the properties, each with the
drivers it is true of. `slips` records what the last step did that it should not
have. An object's `native` says what became of its handle: null, open, freed, or
lost, where no object knows of it any longer and the library still has it. The database libraries are external: a call of them succeeds or fails, with
what the driver can see of it. Where a driver breaks a promise, the property excepts
it by name:

| Driver | What goes wrong |
|---|---|
| MySQL | counts nothing: a cursor outlives `conn:close`, a connection `env:close`, and both then touch freed handles; a batch statement without a result leaves a cursor with a null result, and one with more columns is read past the first one's; `setautocommit(false)` between two results of a batch answers true and does nothing |
| PostgreSQL | counts nothing: `getcoltypes` of a cursor and methods of a connection that was collected by way of its environment; the results of COMMIT, ROLLBACK and BEGIN are dropped, so that commit answers true for a transaction that an error had rolled back or that went with the connection, where `manual.html:218-219` promises false, and setautocommit(false) answers true over a lost connection that heard no BEGIN |
| SQLite 2 and 3 | an automatic rollback of the database ends the transaction, and later statements are stored at once although manual mode was asked for; in SQLite 3 a parameter that cannot be bound leaves a compiled statement behind, and `sqlite3_close` then refuses: the handle stays |
| ODBC | a statement executed with parameters is not registered, is collected before its cursor, and the cursor uses it; a connection that closes with work under way keeps its handle, and that of its environment |
| Oracle | a failed login keeps the environment for good and loses its error handle; a statement that fails, or whose finalizer raises, loses its handle; a cursor whose columns were set up in part cannot be freed without an error in the collector, and its connection never closes; `setautocommit` changes the flag in a call that fails |
| Firebird | cur:close and the collector end a cursor with DSQL_close, which keeps the statement: its handle is lost, as are those of statements that fail; a connection that fails half way, or is collected open, may leave the database attached; a cursor that was never filled in reaches the collector; a cursor read to its end keeps its connection in the registry; a close that fails half way leaves a connection without a transaction |

### RbTree, Conhash (`libconhash`)
`RbTree` is `util_rbtree.c` on the record of its links, rotation by rotation, with
the sentinel as the node it is: it gets a parent and a colour too. The deletion of a
root that has one child or none (`util_rbtree.c:146` and on) leaves the parent of
the new root pointing at the deleted node, and a later insertion or deletion may read
through that link memory that was freed, or that is another node by then. `wild` says
that it did (`Wild`, whatever the colour read there), and the model says nothing about
the tree from then on. The Lua binding has no del and does not get there. `Conhash` is the
library over it; the hash of a replica is chosen by the run, collisions included,
and malloc may fail for any replica. With `Removes = FALSE` there is only what the
Lua binding offers.

### Timeout, BufferedIo (`timeout.c`, `buffer.c`, `usocket.c`)
`Timeout` is the arithmetic of the two limits, on a clock that is finer than the
milliseconds poll(2) counts. `BufferedIo` is receive and send of one connection: the
peer and the kernel (`Arrive`, `PeerEnds`, `PeerReads`), the script, which continues
after a timeout the way `tcp.html` says, and one action per system call of the loops
of `recvline`, `recvall`, `recvraw` and `sendraw`. A signal interrupts a poll at any
time (`Interrupted`). `Tick` lets time pass all through a call, in a poll and between
the calls of the system: a peer that keeps sending keeps `recvline` and `recvall` from
polling, and with that from looking at their limit, as `tcp.html:573-579` warns. The
clock of a call stops at `LongTime`, which is beyond every limit: what counts is
what is left of a limit, and nothing is.

### SocketObjects, Select (`inet.c`, `usocket.c`, `tcp.c`, `udp.c`, `unix*.c`; `select.c`)
A call is one step, as the script has one thread; inside of it a fold goes through
the addresses that a name resolved to, closing and making sockets as
`inet_tryconnect` and `inet_trybind` do. Numbers of descriptors are used again.
`Select` is `luasocket.select` over tables of objects, with dirty buffers.
`socket.connect` that could not bind any address loses its last descriptor (`tcp.c`:
the userdata has no metatable yet); `SocketsAreOwned` excepts exactly that.

### Mime, Ltn12 (`mime.c`, `mime.lua`, `ltn12.lua`)
`Mime` has each filter as the step it makes for one byte, and the functions that
take a context and a chunk and return both anew. `Ltn12` is `pump.all` over
`source.chain` over `filter.chain`: `Source` cuts the text wherever it likes,
`Filter` is one round of the loop of `filter.chain`. `Joined` and `Stuffed` are
reference definitions of what eol and dot do to a whole text.

`MC*` modules extend their module with symmetry sets and the values that a .cfg
cannot write. `MCRetries` puts `MysqlPool`, `RedisPool` and `SliceUpload` side by side
in one run: whoever repeats what failed. They share nothing, and `side` says which of
them moves in a behaviour. `MCLibs` puts the libraries side by side in one run, in which one of
them moves at a time: it extends `RingQueue`, `SocketObjects`, `BufferedIo` and
`Select`, which state their properties themselves, and adds those of the tree, the
hash ring and the filters.

`*Proofs` modules hold the theorems: one module for each component that nginx runs,
`SqlProofs` for the command layer and the drivers below it (`MysqlPool`, `LuaSql`),
`LibProofs` for the libraries (`RingQueue`, `LuaLog`, `BufferedIo`, `SocketObjects`,
`Select`).

## 3. Runs

| Run | Shows | Instance and why it is enough | States |
|---|---|---|---|
| `retries` | a MySQL statement takes effect at most once (`AtMostOnce`), success is true, one incident that executed nothing is hidden; an "ok" of a Redis pool is explained by executions and lost replies, a failure needs a fault in every round or a member that is not configured; an upload that succeeds is the whole file, acknowledged slices are somewhere; commands end and uploads finish | MySQL: 3 rounds and 3 attempts (`MAX_RECNT` of the code), all five troubles at any step. Redis: a configured pool with a hash, one that is added on a server of the configuration or on another, 2 coroutines, 2 rounds: the last and another one. Upload: 3 slices (first, middle, last), 2 workers, 2 crashes (one in a push or complete, one in its repeat) | 42 k |
| `mysql_failed` | **violation**: a command whose last round succeeds is reported as failed | only broken connections | - |
| `redis_added` | **violation**: a command on a pool that was added for a new server fails although nothing is wrong | one request, no trouble | - |
| `file_absent` | **violation**: a removal that finds nothing answers 0 instead of 20009 | one worker, no trouble | - |
| `storage_heal` | the next undisturbed call heals; branches are mounted disks and mounts do not pile up while calls are orderly | 2 disks, 2 workers, every trouble, 2 layers on /nfs (one call over another) | 601 k |
| `file_tree` | acknowledged content that nobody collided with stays; undisturbed requests do what they say, optPull included | 2 workers, a chain of three levels and a path beside it: directory with subdirectory with file, renames into and out of it | 1.86 M |
| `accounts` | useradd is a lock; accepted users keep their account; services mirror the table without faults, and after each success with faults | 2 users, 3 passwords (one refused), 2 workers of which one serves the administrator | 2.09 M |
| `lualog` | descriptors are owned; the reachable is open; lines are in the file asked for, and of their day | 2 names, 2 directories, 3 handles (an old, a new and a kept one of one name), 3 descriptors (so that open fails for the lack of one), 2 days | 489 k |
| `lualog_path` | **violation**: open("a") after open("y/a") logs in y | as `lualog` | - |
| `manage_center` | one guess per code and worker; one key per device; the latest code is kept | 2 workers, 2 devices, 2 codes each, a life of 1 within 2 ticks: a code in time, a late one, a replaced one | 329 k |
| `luasql` | counts, registry, handles and transactions of all seven drivers agree with the objects, but for the exceptions of section 2 | one environment, 2 connections, a statement, 2 cursors, four objects at a time: two children of one parent, two cursors on two connections, a whole chain | 0.89 M |
| `libs` | the libraries: the ring and `ImplementsFifo`; the tree, lookups and `OnlyItsObjectsMove`; owners of descriptors and `BoundIsKept`; `EveryByteOnce`, `TimeoutInTime`, `CallsEnd`; `SelectFindsAll`; `ChunksDoNotMatter` | ring of 3 slots: wrap-around of both indices, every partial free. Six virtual nodes of three servers in five orders, two with collisions: every rotation. Two objects, two descriptors, two addresses. A buffer of 2 bytes, a stream of 3 and none, limits of 0 and 1 ms (2 steps of the clock: a signal may leave half a millisecond), a clock that stops at 3 steps, a message of 3 in steps of 2. FD_SETSIZE 2. Texts of up to 7 bytes and lines of 6, each cut in every way | 337 k |

Bounds that are in guards: `MaxCrash` (SliceUpload), `MaxLayers` (StoragePool, how
often mergerfs is mounted over itself), `MaxLive` and `MaxLock` (SqlObjects: objects
at a time, children of one), `Place`, `Fd` and `Addresses` (SocketObjects), `Duplex`
(BufferedIo: the peer that sends nothing is sent to, the other one is read from),
`LongTime` (BufferedIo: where the clock of a call stops, an assumption puts it
beyond every limit), `Handle` and `LastDay` (LuaLog), `MaxCode` and `LastTime`
(ManageCenter), `Path` and `Fits` (FileTree: nothing is moved to a path the model
does not have), `Requests` (FileTree: what clients ask for; in the run everything
but renames to a path below or above, which are refused). `MaxRecnt` is a constant
of the code. Symmetry is used in runs without liveness properties only, over
workers, users, devices, handles and descriptors that no action tells apart. The
deadlock check is on where the system goes on for ever: a server can always start
another request, and `SliceUpload!Done` stutters when the upload is complete.
`luasql` and `libs` switch it off, as there an end is an end: a Lua state that was
closed, a ring that was destroyed, a mail that was sent, a connection that was
closed with its limits set.

Type invariants are checked by a run (`file_tree`, and inside of `luasql` and
`libs`) or proved (section 5); a module with a proof does not repeat its in a run.

Conditions in properties, and why they are not empty: `SoloHeals` speaks of calls
that ran alone and undisturbed *after* any disorder; `BranchesAreDisks` and
`EmptyPoolStops` need `orderly` histories, since one `umount` that fails, or two
calls at once, does leave stale branches (hazards at `SM_utils.lua:138-139`).
`UndisturbedDoWhatTheySay` exempts requests that collided with another on
overlapping paths, and pushes that a full pool cut short; `KeptStays` speaks of pushes
and renames that nobody collided with. The code has no defence for the others (an
optCreate that looked before a push was done empties what the push acknowledged,
`api_opt_create.lua:46`): they are in the run, as what later requests start from, and
listed as hazards without a property. `FailureNeedsFaults` speaks of commands that
were sent to a member and excepts members without a queue (finding 3); that a name
has no member, or no hash, is answered at once.
`LineOnItsDay` allows the file of a later day than the stamp's, as the code reads the
clock once for the stamp and once more for the file. `ServicesMirrorTable` is
about the faultless half of the run, `SuccessHeals` about the other as well.

Fairness. `MysqlPool` has WF of the worker's own steps: every call it makes returns
a result or an error, and the worker goes on. `RedisPool` has the same per
coroutine: sockets have timeouts, and the event loop resumes who is ready.
`SliceUpload` has WF of each handler, and of the client, who repeats until the file
is there; crashes are finite (`MaxCrash`), as an upload cannot finish while workers
die in each attempt. `retries` has the three together. Servers, networks, crashes and
new requests are never fair.
`libs` has WF of one action: the call of LuaSocket that is under way goes on (its
process runs, or time passes), and so does the pump, which one thread runs to its end.
The peer, the kernel's room and signals are not fair. `CallsEnd` says that a call with
a limit ends if the peer falls silent, and does not say so of a peer that keeps
sending: a line without an end keeps `receive("*l")`, and `receive("*a")` any peer that
does not close, for as long as bytes are there, since the loops of `buffer.c:205-243`
look at a limit only when they have to wait (`usocket.c:261-271`). It does hold
although signals come as often as they like, since time passes between them. The other
modules state safety only.

## 4. Findings

1. **A command that succeeds in its last round is reported as failed**
   (`mysql_failed`). `mysql_pool_api.lua:229` compares the round with MAX_RECNT
   before it looks at the result; line 230 logs "FAILED". The same loop in
   `redis_pool_api.lua:148` tests the result first. The caller answers 10001 to an
   INSERT, UPDATE or DELETE that was executed.
2. **lualog finds a name without a path in another path** (`lualog_path`).
   `_openlog` looks up its whole argument but stores under the base name, so after
   `open("y/a")` a plain `open("a")` is the log in y and not the one in the default
   path that `lualog.c:98` promises.

3. **A pool that add_to_pool makes for a new server fails every command**
   (`redis_added`). The function is there "to add a new tsdb connection"
   (`redis_pool_api.lua:441-444`), but no queue is made for the address; the first
   command pulls from nil (123, 130), and the caller gets false.
4. **A removal that finds nothing answers 0** (`file_absent`).
   `fsystem_manager/doc/api_opt_delete.md` and `api_opt_clear.md` (33 and 51 of each)
   promise the error 20009, "path is not exists!"; `api_opt_delete.lua:28-31` and
   `api_opt_clear.lua:28-31` answer success.

Weak points that the models show or assume, without a run of their own:

- just_cmd calls the hash of a pool that has none, one of a single member or one that
  add_to_pool made (`redis_pool_api.lua:58-62`).
- optCreate and optRename look and then write: what another worker pushed in between
  is emptied or replaced (`api_opt_create.lua:28,46`).
- PostgreSQL's commit answers true for a transaction that is gone; the other
  exceptions of LuaSQL are in the table of section 2.
- `util_rbtree_delete` leaves the parent of a new root dangling (`RbTree!Wild`).
- An accept that failed after useradd is refused with 20000 from then on
  (`api_user_accept.lua:94`); a device whose user was created and whose key was not
  can never be activated (`manage_center/api/api_device_active.lua:53`); a disk that
  is inactive keeps every later call from applying.
- A token of a removed user stays good until it expires; a name that contains "@"
  makes a token that is split in another place; account_manager signs with "omstar"
  what manage_center verifies with "ownstor", so that device activation ends with
  401.

## 5. Proofs

The theorems hold for every value of the constants that meets the named assumptions
of the modules; TLC evaluates those assumptions in the runs.

- **SqlProofs**, on MysqlPool: `NoStatementTwice`, `SuccessIsTrue`, `TypeCorrect`,
  `OneIncidentIsHidden`. Inductive invariant `Rounds`: before a round executes,
  nothing was applied; after it, `stat` false means nothing was applied. That is the
  reason why repeating is safe, and it is not visible in `AtMostOnce` itself.
  `Counts` bounds rounds and attempts by MAX_RECNT; `Incidents` says how many
  strikes each position in the loop has cost, and needs `MaxRecnt >= 3`, an
  assumption of that theorem: with two rounds one incident can be seen.
- **SqlProofs**, on LuaSql: `CountsAreKept`, `ParentsAreKept`, `NothingFreedIsUsed`,
  `HandlesAreFreed`, `ManualModeHolds`, for every driver and any finite number of
  objects of each class. They follow from two invariants.
  `SqlIInv` (theorem `SqlInvariant`) is about objects. `Shape` says which fields a
  userdata has together, `Handles` that an open object has its handle, `Counters`
  that a counter is the number of open children, or above it with a failure on
  record, `Tree` that an open object stands on one that exists. All are stated of a
  table `f`, not of `obj`, because the drivers change several objects in one method
  and the proofs need what holds in between. What 60 methods do to a table is of
  three kinds (`Making`, `Leaving`, `Still`), and `MakingIsSound`, `LeavingIsSound`
  and `StillIsSound` show each kind harmless once. The registry has two forms:
  children that hold an entry for their parent (`ByChild`, five drivers), and
  parents that hold one for themselves while they have children (`ByParent`, ODBC
  and Firebird). `CollectedIsAlone` is where it matters: what nobody reaches has no
  open child. `Astray` names the one way out, statements of ODBC that were executed
  with parameters.
  `TxInv` (`TxInvariant`) is about transactions: `Mode` says for each driver in which
  states its connection can be, `Heard` what the driver can be caught at, the handles
  that it loses included, from which `HandlesAreFreed` has its second half; Firebird's
  needs `SqlIInv`, since its manual mode rests on which connections are open.
  TLC checked both on the instance of `luasql` before they were proved. The
  assumption is `Places`: places are finitely many and each is for one class.
- **LibProofs**, on RingQueue: `WindowAlwaysAgrees`, and the refinement
  `RingImplementsFifo`. The invariant is RingTypeOK with `WindowAgrees`, for any
  capacity. The lemmas `Wrap`, `SlotValue`, `DistanceValue` and `SlotDistance`
  replace `%` by a case distinction once, since the SMT solver does not reason about
  it; `AppendIs` and `ItemsShift` say what push and free do to the mapped sequence.
- **RedisPoolProofs**: `TypeCorrect`, `SuccessIsExplained`, `OnlyFaultsFail`, for any
  configuration of any kinds and any addresses that are added. `TInv` bounds the
  counters by the position in the loop. `Served` is the second invariant: the
  configured addresses keep their queues, and a round without success has met a
  fault. `OnlyFaultsFail` therefore names the one other way to fail, a member that is
  none of the configuration; what is false without that exception is finding 3.
- **AccountsProofs**: `TypeCorrect`, `UseraddIsALock`, `AcceptedUsersHaveAccounts`,
  `SuccessMeansHealed`, `ServicesAgree`.
  `Control` ties each label to its operation, user and list. `Ownership` strengthens
  the two properties: an owned account exists and is that of a user who is not
  accepted; a user being removed has an account that nobody owns. Assumption
  `SafeAdmin`: remove is called by one administrator at a time, for accepted users.
  Without it remove's `userdel` can take away the account of an accept that is under
  way (`api_user_remove.lua:88`).
  The two theorems about the services assume `SoleAdmin`, one careful administrator
  on one worker, while any number of users enroll; with two the lists they rewrite
  from can be stale (hazard at `api_user_accept.lua:121`). `SuccessMeansHealed`
  holds with faults and crashes: `Healing` says for each step of accept and remove
  which services the running request has already put right, starting from whatever
  an earlier one left behind. `ServicesAgree` is about histories without faults:
  `Faultless` says of every service at which steps of the administrator it may differ
  from the table, and by which user.
- **FileTreeProofs**: `TypesAndParents`, `UndisturbedPushStays`,
  `UndisturbedKeepTheirWord`. `TInv` ties every label
  to its operation and keeps the walk of delete and clear below its path. `Tree`
  turns "the parent is a directory" into "all ancestors are" (`Ancestors`), and says
  that open files are there. The interleavings are in `Keeping`: what an undisturbed
  request refers to overlaps with nobody's paths (`Apart`); no handler is at a step
  at which it could take content from an acknowledged path (`Risks`, which is where
  looking before creating or renaming matters); an undisturbed push has its own file
  open and then full (`Pushed`). Every handler is shown to change nothing outside of
  the paths it refers to (`Framed`), from which the handlers of all others follow at
  once; `SmallDisk` reduces eighteen handlers to six things that are done to a disk. The
  rest move a whole tree: `ReplacedNodes` and `ReplacedAncestors` say what rename and
  the copy of mv leave behind, `CopyDisk` and `DropDisk` what mv does in its two
  steps, between which its source is there twice.
  The lemmas on `Moved`, `IsPrefix` and `Front` say what a rename does to paths: it
  can be undone and keeps their order.
  The third theorem is about the requests themselves (`UInv`). `Covers` says of a
  delete or clear that is under way: what exists below its path is the directory at
  hand, put aside, or below something on the stack or among the entries still to do;
  `Disjoint`, that no part of this work is inside of another one, and that nothing
  ahead is above a directory put aside. The two are why `rmdir` never meets an entry
  (a file or directory below would have to be covered by something that lies apart)
  and why nothing is left when the stack and the list are empty. `StaysTrue` and
  `FrameStays` carry this over the steps of all other handlers.
- **LibProofs**, on LuaLog: `TypeCorrect`, `DescriptorsAreOwned`,
  `ReachableAreOpen`, `LinesReachTheirFile`. The strengthening `DeadOwnNothing` (a
  handle that does not exist has no descriptor) makes the first three inductive,
  with `LineType`: the handle of the line being written is kept by a variable, so that
  the collector cannot take it. `LineInv` adds what the last one is about: `Named`, the
  default and the entries of the pool have the name they were asked for, through all
  opens, closes and collections; `Placed`, the descriptor a line will go to is its
  handle's, and open on a day no earlier than its stamp.
- **LibProofs**, on BufferedIo: `EachByteOnce` and `NeitherLateNorEarly`, for streams
  of any length, any buffer, step, clock and limits. The inductive invariant of the
  first is `IoInv`. `HowFar` says how far a call is: what a receive of a number of
  bytes has gathered and still wants, what a send has put on the wire (the calls
  before, and its own part), and that a receive waits only when the buffer is empty,
  so that what it then gets is the next of the stream. `RoundIs` says what one round
  hands out of the bytes it looks at and which it skips, for each pattern (for a
  line, `Without` its CRs); `Given`, `LeftOver` and `Gets` what that makes of the
  buffer and of the call, so that each way a round can end is proved once. The
  second theorem rests on `InTime`: while a call is in a poll, what has passed and what
  is still to be waited for do not exceed the limit together unless nothing is to be
  waited for at all, and are above the smaller limit less the part of a millisecond
  that poll does not count; that is the arithmetic of `timeout_getretry`, over any
  time that the calls of the system and interrupted polls took before.
- **LibProofs**, on SocketObjects: `EveryDescriptorHasItsOwner` and `NoBindIsUndone`,
  for any number of objects, descriptors and addresses of a name. `SockInv` is
  inductive: to the property it adds which classes have which families (`KindIs`),
  what an object may rely on of its descriptor (`Holds`), and that what `lost` names
  is open and no object's. A call is one step with a loop inside, so the
  argument is about the loop: `Trying` is what holds after each address of
  `inet_tryconnect` and `inet_trybind` (the descriptor of the moment is new, or is
  the one the object had and was not closed; no other was touched), and `Leaves`
  what a call leaves behind. That a bound descriptor never enters the branch which
  closes it is in `Trying` too: its family is known, and the resolver was asked
  for that family.
- **LibProofs**, on Select: `NothingReadyIsMissed`. `Maps` says what the pass of
  `collect_fd` has at each item (set, greatest descriptor and table agree), `Sifts`
  what a loop makes that keeps some of what it goes through, in order (check_dirty,
  return_fd), and `Found` that the result is what is in the set, each once. It rests
  on `Apart`, which is SocketObjects' theorem seen from here: no two open objects
  have one descriptor.
- **LibProofs**, loops. What a recursive function computes after its last round is
  induction over its bound. The induction theorems of the library cannot be
  instantiated by the provers, as they take an operator; `SetInduction` is induction
  over a *set* of numbers up to a bound, which follows from the pigeonhole principle
  for functions between finite intervals, and `LoopExists` says that rounds
  which are functions of a set into itself have a function that goes through them. Both are
  used wherever a model has a fold over addresses, bytes or items.
- **ManageCenterProofs**: `TypeCorrect`, `GuessesAreFew`, `KeysAreSingle`,
  `CodesAreKept`. `CachedIsUntried` and `HeldIsUntried` say that a code in the cache
  was tried by nobody, and one in hand not by its holder; `KeyInv` that `headscale
  user create` is the lock behind `OneKeyPerDevice`.
- **SliceUploadProofs**: `TypeCorrect`, `SuccessLeavesTheFile`,
  `AcknowledgedIsKept`. `Roles` says who is where (a complete works alone, a slice
  being pushed is not acknowledged); `Copied` that destination and buffer together
  are the slices before the next one, whose parts are gone; `NotLost` where an
  acknowledged slice is while nothing dies. `PrefixSeq`, `AppendPrefix`,
  `ConcatAppend` and `PrefixWhole` are the lemmas on sequences.
- **StoragePoolProofs**: `TypeCorrect`, `PoolIsOrderly`, `SoloHealing`. `Locals`
  ties a handler's lists to the steps that use them. `Rebuilt` strengthens
  `OrderlyPool`: one handler at a time, and while it rebuilds, nothing is served and
  what it mounted stays mounted. `Healed` strengthens `SoloHeals`: what an
  undisturbed handler read is still so, and each disk of the table is in its list or
  on the command line, where it is mounted.

The assumptions of the libraries: `IoAssumption` (streams are sequences of bytes, CR
is not LF, sizes and counts are naturals, a limit is a natural or -1),
`SocketAssumption` (descriptors are numbers) and `SelectAssumption` (so are those of
select, and a table is a sequence of objects). The theorems about LuaSocket assume
nothing of how many objects, descriptors, addresses or bytes there are.

Of the 40 properties of the passing runs, 33 are stated by a theorem. Only
model-checked are:

- the liveness properties (`CommandsEnd`, `PoolCommandsEnd`, `UploadFinishes`,
  `CallsEnd`; the proof system does not treat fairness and ENABLED here);
- `ContainersAreSound` and `OnlyItsObjectsMove`: the links of a red-black tree and
  its black heights are recursive over the tree, and `RbTree` uses RECURSIVE
  operators for them, with which no module can have theorems. The part of
  `ContainersAreSound` about the ring of `queue.lua` is `WindowAlwaysAgrees`;
- `ChunksDoNotMatter`: the filters are folds over texts of any length with a
  reference definition that looks ahead, also with RECURSIVE operators.

## 6. What the models leave out

- MysqlPool: transactions (`AFFAIRS`) and `exec`. RedisPool: the hash that picks a
  member; a batch of several commands to one member, of which a later one may fail
  after the earlier ones took effect.
- FileTree: optInfo, which is one read; of optPull's Range header, ranges that begin
  in the middle; the check of a path as a string (`is_normalize_path`), an empty
  path (the home itself); the lengths of names. mv's copy of a directory is one step,
  and so is its removal of the source. A write cut short by a full pool counts as a
  disturbance.
- SliceUpload: a full pool; two uploads to one path.
- LuaLog: levels and additional fields, the layout of a line, `open("")`
  (`lualog.c:180-203` reads a name that was not set).
- ManageCenter: calls whose token does not verify, which change nothing; evictions
  from a full dictionary.
- Accounts: several administrators at once (hazards at `api_user_accept.lua:121,139`
  and `AM_utils.lua:71`).
- LuaSql: values of columns, escape, ping, the id of the last row, the settings of
  sqlite3; how many rows a result has (a fetch finds one or the end).
- LuaSocket: serial.c, `setfd` (`tcp.c:205-210`, which gives an object any descriptor
  a script names: who owns what is up to the script then), the socket options, UDP's datagrams, the protocols in Lua;
  the binary mode of quoted-printable; sinks and sources that fail. Lines are of 76
  bytes in the code and 6 in the run.
- libconhash: names and md5, for which a run chooses positions; two servers of one
  name.
- `io.popen(...):close()` returns the exit status only if LuaJIT was built with Lua
  5.2 compatibility; the models follow the handlers, which rely on it.

## 7. Plan

The order was: accounts and the command layer below them, files, storage, the
central service and logging; then the libraries; then the proofs of every component,
of which the hash ring and the mail filters are left. Next, in this order:

1. *Proofs* of `RbTree`, with the tree as a function and its reachability as a set
   closed under the links instead of RECURSIVE operators; then of `Mime`'s filters
   one byte at a time, from which `ChunksDoNotMatter` follows by `SetInduction`.
2. *SliceUpload* with a full pool and two uploads to one path.
3. *Accounts* with a second administrator (overlapping rewrites of
   /tmp/vuser_passwd.conf and smb_user_map) and its composition with the file
   operations: tokens that outlive their user.
4. *RedisPool* with batches and with the member that `Conhash` chooses; *MysqlPool*
   with `AFFAIRS` over `SqlMysql`'s transactions; an abstract "at most once" command
   specification that MysqlPool refines, and that Accounts and StoragePool use.
5. *Administrator*: login and modify (two first logins inserting a row each, an
   UPDATE that changes no row), the `am-secret` that `init.lua` renews; the client
   side of device activation.
6. *Algorithms* as functions against reference definitions: path normalization
   (`FM_utils.lua:67-98`), the Range header of optPull (8-27), "@" and ".." in user
   names.
7. *http_short_api*'s circuit breaker; `redis.lua`'s pipelines and transactions.
