----------------------------- MODULE SqlObjects -----------------------------
(* What the drivers of LuaSQL have in common: environments, connections,   *)
(* statements and cursors are userdata of one Lua state. A script holds    *)
(* them and lets go of them, the registry of Lua keeps others alive, and   *)
(* the collector runs the __gc method of those that nobody reaches. Behind *)
(* an object stands a handle of the library of the database. The drivers   *)
(* (SqlMysql, SqlPostgres, SqlLite3, SqlLite, SqlOdbc, SqlOci8,            *)
(* SqlFirebird) say what each method does.                                 *)
EXTENDS Integers, FiniteSets, Sequences

CONSTANTS
  Env, Conn, Stmt, Cur,   \* places for the userdata of each class
  None,
  MaxLive,                \* bound: objects that exist at a time
  MaxLock                 \* bound: what a counter reaches before no child is made

VARIABLES
  driver,    \* the driver that was loaded
  obj,       \* place -> the userdata in it
  anchor,    \* <<h, o>>: h has an entry of the registry that refers to o
  held,      \* objects that variables of the script refer to
  closing,   \* lua_close has begun
  tx,        \* connection -> the driver's flag and the server's transaction
  slips       \* what went wrong in the last step
sqlVars == <<driver, obj, anchor, held, closing, tx, slips>>

Obj == Env \cup Conn \cup Stmt \cup Cur
(* Each place is for one class of userdata, and there are finitely many of *)
(* them: the memory of a process.                                          *)
ASSUME Places ==
  /\ IsFiniteSet(Obj) /\ None \notin Obj
  /\ Env \cap (Conn \cup Stmt \cup Cur) = {} /\ Conn \cap (Stmt \cup Cur) = {} /\ Stmt \cap Cur = {}
  /\ MaxLive \in Nat /\ MaxLock \in Nat
Drivers == {"mysql", "postgres", "sqlite3", "sqlite", "odbc", "oci8", "firebird"}

(* One userdata: st, its closed flag; up, the object it was made from (a   *)
(* pointer in C, or what its reference stands for); lock, its count of     *)
(* children (cur_counter, conn_counter, lock); native, its handle of the   *)
(* database library, which is lost when the library keeps it and no object *)
(* will give it back; stuck: a failure cut its __gc or close short; numcols  *)
(* and width, for cursors: the columns when the cursor was made and those  *)
(* of the result it has now; more, for connections: the columns of the     *)
(* result that waits on the wire; info, for cursors: the types of the      *)
(* columns are cached; hidden, for the statements of ODBC that             *)
(* conn:execute made; left: library handles that no object has hang on     *)
(* this one. How many rows a result has is not kept: a fetch finds one or  *)
(* the end.                                                                *)
Vacant == [st |-> "none", up |-> None, lock |-> 0, native |-> "none", stuck |-> FALSE,
           numcols |-> 0, width |-> 0, more |-> <<>>, info |-> FALSE,
           hidden |-> FALSE, left |-> FALSE]
New(p) == [Vacant EXCEPT !.st = "open", !.up = p, !.native = "open"]
NewCursor(p, n) == [New(p) EXCEPT !.numcols = n, !.width = n]
Shut(f, o) == [f EXCEPT ![o].st = "closed", ![o].native = "freed", ![o].numcols = 0,
                        ![o].width = 0, ![o].more = <<>>, ![o].info = FALSE]

\* Columns of a result: none, or a few; bounded by two for a first result, by one for the next.
Width == 0 .. 2
\* What waits on the wire: nothing, or a result.
Waiting == {<<>>} \cup {<<w>> : w \in Width}

(* The transaction of a connection. auto: the flag of the driver, or the   *)
(* mode the server was put in; asked: what the script last asked for and   *)
(* was told to have; in: the server has a transaction open; work: what it  *)
(* would lose; lost: what took the mode away since it was asked for.       *)
AutoTx == [auto |-> TRUE, asked |-> TRUE, in |-> FALSE, work |-> "none", lost |-> "nothing"]
TxType == [auto: BOOLEAN, asked: BOOLEAN, in: BOOLEAN, work: {"none", "some", "aborted"},
           lost: {"nothing", "automatic rollback", "mode not set", "failed call", "failed close",
                  "lost connection"}]

SqlInit ==
  /\ driver \in Drivers
  /\ obj = [o \in Obj |-> Vacant]
  /\ anchor = {} /\ held = {} /\ closing = FALSE
  /\ tx = [c \in Conn |-> AutoTx]
  /\ slips = {}

(* The methods reach what the script holds: getenvironment, getconnection  *)
(* and getcursor raise an error for a closed object, close answers false.  *)
Here(S) == {o \in S \cap held : ~closing /\ obj[o].st # "none"}
Opened(S) == {o \in Here(S) : obj[o].st = "open"}
\* New objects are made while there are fewer than the bound.
Live == {o \in Obj : obj[o].st # "none"}
Fresh(S) ==
  {o \in S \ Live : Cardinality(Live) < MaxLive /\ \A x \in Obj : obj[x].up # o /\ obj[x].lock < MaxLock}
Children(p) == {x \in Obj : obj[x].up = p}
OpenChildren(p) == {x \in Children(p) : obj[x].st = "open"}
Note(set) == slips' = set
Fine == Note({})
May(what) == Fine \/ Note({what})
When(condition, what) == IF condition THEN {what} ELSE {}
Nothing == UNCHANGED <<obj, anchor, held, tx>>
Ref(o) == anchor' = anchor \cup {<<o, obj'[o].up>>}     \* luaL_ref
Unref(o) == anchor' = anchor \ {<<o, obj[o].up>>}        \* luaL_unref

(* The server. What a data-changing statement that succeeded leaves, and a *)
(* commit or rollback that succeeded.                                      *)
Done(t) == IF t.in THEN [t EXCEPT !.work = "some"] ELSE t
Ended(t) == [t EXCEPT !.in = FALSE, !.work = "none"]
Begun(t) == [t EXCEPT !.in = TRUE]

-----------------------------------------------------------------------------
(* Lua. A script lets go of an object; lua_close finalizes everything. The *)
(* collector takes an object that nobody reaches, the youngest first, and  *)
(* a child is younger than its parent.                                     *)
Forget(o) ==
  /\ o \in held /\ ~closing
  /\ held' = held \ {o}
  /\ UNCHANGED <<driver, obj, anchor, closing, tx>> /\ Fine

CloseState ==
  /\ ~closing
  /\ closing' = TRUE /\ held' = {}
  /\ UNCHANGED <<driver, obj, anchor, tx>> /\ Fine

Anchored(o) == \E h \in Obj : <<h, o>> \in anchor
Unreached(o) == obj[o].st # "none" /\ (closing \/ (o \notin held /\ ~Anchored(o)))
Collectable(S) ==
  {o \in S : Unreached(o) /\ \A x \in Children(o) : ~Unreached(x)}

\* The memory of a collected object is free, whatever its finalizer did.
Gone(f, o) ==
  /\ obj' = [f EXCEPT ![o] = Vacant]
  /\ UNCHANGED held

-----------------------------------------------------------------------------
\* What the methods of the drivers can be caught at.
Slips == {"freed connection", "freed statement", "freed statement handle", "uninitialised cursor",
          "connection freed under its cursor", "statement freed under its cursor",
          "library ended", "no result", "row past its columns", "parameter left out",
          "commit of what was rolled back", "error in the collector",
          "statement handle lost", "error handle lost", "database left attached"}
SqlTypeOK ==
  /\ driver \in Drivers
  /\ obj \in [Obj -> [st: {"none", "open", "closed"}, up: Obj \cup {None},
                      lock: 0 .. MaxLock, native: {"none", "open", "freed", "null", "lost"},
                      stuck: BOOLEAN, numcols: Width, width: Width,
                      more: Waiting, info: BOOLEAN,
                      hidden: BOOLEAN, left: BOOLEAN]]
  /\ anchor \subseteq Obj \X Obj
  /\ held \subseteq Obj /\ closing \in BOOLEAN
  /\ tx \in [Conn -> TxType]
  /\ slips \subseteq Slips
=============================================================================
