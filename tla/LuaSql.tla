------------------------------- MODULE LuaSql -------------------------------
(* LuaSQL: one driver is loaded, and a script uses its objects, lets go of *)
(* them and closes its Lua state in any order, while the database refuses  *)
(* what it likes. The properties say what the drivers promise one another  *)
(* and the manual (doc/us/manual.html), each with the drivers it is true   *)
(* of; README.md lists where a driver breaks a promise.                    *)
EXTENDS SqlObjects

Mysql == INSTANCE SqlMysql
Postgres == INSTANCE SqlPostgres
Lite3 == INSTANCE SqlLite3
Lite == INSTANCE SqlLite
Odbc == INSTANCE SqlOdbc
Oci8 == INSTANCE SqlOci8
Firebird == INSTANCE SqlFirebird

Runtime == (\E o \in Obj : Forget(o)) \/ CloseState
Driver ==
  \/ driver = "mysql" /\ Mysql!Next
  \/ driver = "postgres" /\ Postgres!Next
  \/ driver = "sqlite3" /\ Lite3!Next
  \/ driver = "sqlite" /\ Lite!Next
  \/ driver = "odbc" /\ Odbc!Next
  \/ driver = "oci8" /\ Oci8!Next
  \/ driver = "firebird" /\ Firebird!Next
SqlNext == Runtime \/ Driver
SqlSpec == SqlInit /\ [][SqlNext]_sqlVars

-----------------------------------------------------------------------------
SqliteDrivers == {"sqlite", "sqlite3"}
CountingEnv == {"odbc", "oci8", "firebird"}
Counting == SqliteDrivers \cup CountingEnv
\* A cursor of Firebird that was never filled in is in no count.
RealChildren(p) == {x \in OpenChildren(p) : obj[x].native # "null"}

(* Counters. The count of an object is never below the number of its open  *)
(* children, so that no close passes under a child, and equals it unless a *)
(* failure is on record: else a connection could never be closed again.    *)
CountersAgree ==
  driver \in Counting =>
    \A p \in Conn \cup Stmt \cup (IF driver \in CountingEnv THEN Env ELSE {}) :
      obj[p].st # "none" =>
        LET n == Cardinality(RealChildren(p))
        IN  obj[p].lock >= n /\ (~obj[p].stuck => obj[p].lock = n)

(* manual.html: an environment closes only after its connections, a        *)
(* connection after its cursors. True of the drivers that count, in any    *)
(* order of close, fetch, failure and collection.                          *)
OpenUnderOpen ==
  driver \in Counting =>
    \A p \in Obj \ (IF driver \in SqliteDrivers THEN Env ELSE {}) :
      \A x \in RealChildren(p) :
        \/ obj[p].st = "open"
        \/ driver = "odbc" /\ p \in Stmt /\ (obj[p].hidden \/ obj[p].st = "none")

(* An open object's parent is not collected: its C pointer or reference    *)
(* stays good. Only a statement of ODBC that was executed with parameters  *)
(* can go before its cursor.                                               *)
ParentsOutlive ==
  \A p \in Obj : obj[p].st = "none" /\ RealChildren(p) # {} => driver = "odbc" /\ p \in Stmt

(* No method uses what was freed, and no finalizer fails, except as named. *)
Mistakes ==
  [d \in Drivers |->
     CASE d = "mysql" -> {"freed connection", "library ended", "no result", "row past its columns"}
       [] d = "postgres" -> {"freed connection"}
       [] d = "odbc" -> {"freed statement", "freed statement handle", "error in the collector",
                         "statement freed under its cursor"}
       [] d = "oci8" -> {"error in the collector"}
       [] d = "firebird" -> {"uninitialised cursor"}
       [] OTHER -> {}]
StrayUse == (UNION {Mistakes[d] : d \in Drivers}) \cup {"connection freed under its cursor"}
NoStrayUse == slips \cap StrayUse \subseteq Mistakes[driver]

(* The handle of the database library goes with the object it belongs to,  *)
(* unless something was left on it that makes the library refuse: with     *)
(* sqlite3 a connection closes under a statement that was not finalized. A *)
(* cursor of ODBC has the handle of its statement. A handle of which no    *)
(* object knows any longer is lost only in the ways named: Firebird keeps  *)
(* the statement of a cursor that was closed, Firebird and Oracle those of *)
(* calls that failed, and a finalizer that raises lets its handle go.      *)
Losable == {"statement handle lost", "error handle lost", "database left attached", "error in the collector"}
LosesHandles ==
  [d \in Drivers |->
     CASE d = "odbc" -> {"error in the collector"}
       [] d = "oci8" -> {"error in the collector", "statement handle lost", "error handle lost"}
       [] d = "firebird" -> {"statement handle lost", "database left attached"}
       [] OTHER -> {}]
HandlesFreed ==
  /\ slips \cap Losable \subseteq LosesHandles[driver]
  /\ \A o \in Obj \ (IF driver = "odbc" THEN Cur ELSE {}) : 
       obj[o].st = "closed" /\ obj[o].native = "open" => obj[o].left /\ driver \in {"sqlite3", "odbc"}

(* The registry keeps an object for the sake of an open child, so that     *)
(* what a script has let go of is collected some day. A login that Oracle  *)
(* refused, a cursor of Firebird that was read to its end and a lock that  *)
(* was lost keep theirs for good.                                          *)
KeptForAChild ==
  ~closing => \A r \in anchor :
    \/ OpenChildren(r[2]) # {}
    \/ driver = "oci8" /\ r[2] \in Env
    \/ driver = "firebird" /\ r[2] \in Conn
    \/ obj[r[2]].stuck

(* setautocommit(false) that was answered with true holds: the server has  *)
(* a transaction open, and nothing is stored before commit. SQLite loses   *)
(* it with an automatic rollback, MySQL does not set it between results,   *)
(* PostgreSQL answers true for a connection that was lost, Oracle changes  *)
(* it in a call that fails, a close of Firebird that fails halfway leaves  *)
(* a connection that has none.                                             *)
Losses == {<<d, "automatic rollback">> : d \in SqliteDrivers}
            \cup {<<"mysql", "mode not set">>, <<"postgres", "lost connection">>,
                  <<"oci8", "failed call">>, <<"firebird", "failed close">>}
ManualStaysManual ==
  \A c \in Conn : obj[c].st = "open" /\ ~tx[c].asked =>
    tx[c].in \/ <<driver, tx[c].lost>> \in Losses

(* Databases roll a transaction back by themselves: PostgreSQL after any   *)
(* error, SQLite after some. A commit after that does not answer true,     *)
(* except that of PostgreSQL, which does not look at the result.           *)
LostCommit == "commit of what was rolled back" \in slips
CommitMeansStored == LostCommit => driver = "postgres"

\* What a close may rely on: the counts, and what they keep open.
CountsAreTrue == CountersAgree /\ OpenUnderOpen
\* What the collector may rely on: the registry holds the parents of open
\* objects, and not much else.
RegistryKeepsParents == SqlTypeOK /\ ParentsOutlive /\ KeptForAChild
\* What a script may rely on: manual mode, and a commit that answered true.
TransactionsHold == ManualStaysManual /\ CommitMeansStored
=============================================================================
