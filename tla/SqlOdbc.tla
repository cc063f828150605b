------------------------------ MODULE SqlOdbc ------------------------------
(* The driver of LuaSQL for ODBC, ls_odbc.c. Every object counts its open  *)
(* children (lock), and is in the registry under its own address as long   *)
(* as it has any: <<o, o>> in anchor. conn:execute makes a hidden          *)
(* statement that ends with its cursor. stuck marks an object whose lock   *)
(* will not come down, left one with a library handle that stays.          *)
EXTENDS SqlObjects

Add(f, o) == [f EXCEPT ![o].lock = @ + 1]
\* Mutant: a parent is counted and not registered.
lock_obj_unregistered(o) == anchor
lock_obj(o) == anchor \cup {<<o, o>>}
\* The entry goes with the last child.
Sub(f, o) == [f EXCEPT ![o].lock = @ - 1]
\* Mutant: the registry's entry stays after the last child.
unlock_obj_registered(a, f, o) == a
unlock_obj(a, f, o) == IF f[o].lock = 0 THEN a \ {<<o, o>>} ELSE a

create_environment ==
  \E e \in Fresh(Env) :
    /\ obj' = [obj EXCEPT ![e] = New(None)]
    /\ held' = held \cup {e} /\ UNCHANGED <<anchor, tx>> /\ Fine
\* A handle that was connected and whose mode cannot be set is not given back.
create_connection(e) ==
  \/ /\ \E c \in Fresh(Conn) :
          /\ obj' = Add([obj EXCEPT ![c] = New(e)], e)
          /\ held' = held \cup {c} /\ tx' = [tx EXCEPT ![c] = AutoTx]
     /\ anchor' = lock_obj(e)
  \/ obj' = [obj EXCEPT ![e].left = TRUE] /\ UNCHANGED <<anchor, held, tx>>
env_connect(e) == create_connection(e) /\ Fine

\* SQLFreeHandle refuses an environment with a connection handle left in it.
env_shut(e) == [obj EXCEPT ![e].st = "closed", ![e].native = IF obj[e].left THEN @ ELSE "freed"]
env_close(e) ==
  /\ obj' = IF obj[e].lock > 0 THEN obj ELSE env_shut(e)
  /\ UNCHANGED <<anchor, held, tx>> /\ Fine
\* A finalizer that raises leaves the count of the parent as it is.
Strand(o) == IF obj[o].st = "open" THEN [obj EXCEPT ![obj[o].up].stuck = TRUE] ELSE obj
Refuses(o) == When(obj[o].st = "open" /\ obj[o].lock > 0, "error in the collector")
env_gc(e) == Gone(obj, e) /\ Note(Refuses(e)) /\ UNCHANGED <<anchor, tx>>

(* The environment is unlocked first. SQLDisconnect refuses a connection   *)
(* with a transaction under way; then its handle stays, and the            *)
(* environment's with it.                                                  *)
conn_shut(c) ==
  LET e == obj[c].up
      pending == tx[c].in /\ tx[c].work = "some"
      f == Sub([obj EXCEPT ![c].st = "closed", ![c].native = IF pending THEN @ ELSE "freed",
                           ![c].left = pending], e)
  IN  [f EXCEPT ![e].left = @ \/ pending]
conn_close(c) ==
  /\ UNCHANGED held /\ Fine
  /\ IF obj[c].lock > 0 THEN UNCHANGED <<obj, anchor, tx>>    \* raises
     ELSE /\ obj' = conn_shut(c) /\ anchor' = unlock_obj(anchor, conn_shut(c), obj[c].up)
          /\ tx' = [tx EXCEPT ![c] = AutoTx]
conn_gc(c) ==
  /\ Note(Refuses(c))
  /\ IF obj[c].st = "open" /\ obj[c].lock = 0
     THEN Gone(conn_shut(c), c) /\ anchor' = unlock_obj(anchor, conn_shut(c), obj[c].up)
                                /\ tx' = [tx EXCEPT ![c] = AutoTx]
     ELSE Gone(Strand(c), c) /\ UNCHANGED anchor /\ tx' = [tx EXCEPT ![c] = AutoTx]

conn_prepare(c) ==
  \E s \in Fresh(Stmt) :
    /\ obj' = Add([obj EXCEPT ![s] = New(c)], c)
    /\ anchor' = lock_obj(c) /\ held' = held \cup {s} /\ UNCHANGED tx /\ Fine

stmt_shut(f, s) == Sub(Shut(f, s), f[s].up)
stmt_close(s) ==
  /\ UNCHANGED <<held, tx>> /\ Fine
  /\ IF obj[s].lock > 0 THEN UNCHANGED <<obj, anchor>>        \* raises
     ELSE /\ obj' = stmt_shut(obj, s)
          /\ anchor' = unlock_obj(anchor, stmt_shut(obj, s), obj[s].up)
\* With an open cursor, or one that was not closed in order, the finalizer raises:
\* the statement's memory goes, its handle and lock stay.
stmt_gc(s) ==
  /\ UNCHANGED tx
  /\ Note(When(obj[s].lock > 0, "error in the collector") \cup When(OpenChildren(s) # {}, "statement freed under its cursor"))
  /\ IF obj[s].st = "open" /\ obj[s].lock = 0
     THEN Gone(stmt_shut(obj, s), s) /\ anchor' = unlock_obj(anchor, stmt_shut(obj, s), obj[s].up)
     ELSE Gone(Strand(s), s) /\ UNCHANGED anchor

(* lock_obj registers what is on top of the stack, create_cursor having    *)
(* been given the index -1: the statement when nothing else was passed,    *)
(* the last parameter otherwise.                                           *)
create_cursor(s, given) == IF given THEN anchor \ {<<s, s>>} ELSE lock_obj(s)
\* A cursor whose columns cannot be described stays behind, open and unnamed.
create_colinfo == {"described", "refused"}
raw_execute(s, given) ==
  \/ Nothing                                                     \* an error
  \/ /\ tx' = [tx EXCEPT ![obj[s].up] = Done(@)]                 \* a count
     /\ UNCHANGED <<obj, anchor, held>>
  \/ \E q \in Fresh(Cur), info \in create_colinfo :
       /\ obj' = Add([obj EXCEPT ![q] = NewCursor(s, 1)], s)
       /\ anchor' = create_cursor(s, given)
       /\ held' = held \cup When(info = "described", q)
       /\ UNCHANGED tx
\* With a cursor open on it the statement is in no state to be executed.
stmt_execute(s, given) ==
  /\ Fine
  /\ IF \E q \in OpenChildren(s) : obj[q].native = "open" THEN Nothing ELSE raw_execute(s, given)

(* The hidden statement: with parameters that cannot be bound it is left   *)
(* to the collector; with a count or an error it is shut, also when a      *)
(* cursor was made on it.                                                  *)
conn_execute(c) ==
  /\ Fine
  /\ \/ \E s \in Fresh(Stmt) :
          /\ obj' = Add([obj EXCEPT ![s] = [New(c) EXCEPT !.hidden = TRUE]], c)
          /\ anchor' = lock_obj(c) /\ UNCHANGED <<held, tx>>
     \/ tx' = [tx EXCEPT ![c] = Done(@)] /\ UNCHANGED <<obj, anchor, held>>
     \/ \E s \in Fresh(Stmt), q \in Fresh(Cur), info \in create_colinfo :
          LET f == Add(Add([obj EXCEPT ![s] = [New(c) EXCEPT !.hidden = TRUE],
                                       ![q] = NewCursor(s, 1)], c), s)
          IN  /\ obj' = IF info = "described" THEN f ELSE stmt_shut(f, s)
              /\ anchor' = anchor \cup {<<s, s>>} \cup When(info = "described" \/ obj[c].lock > 0, <<c, c>>)
              /\ held' = held \cup When(info = "described", q)
              /\ UNCHANGED tx

\* A server may close the cursors of a connection when its transaction ends.
EndTran(c) ==
  \E keep \in BOOLEAN :
    /\ tx' = [tx EXCEPT ![c].work = "none"]
    /\ obj' = IF keep THEN obj
              ELSE [x \in Obj |-> IF x \in Cur /\ obj[x].st = "open" /\ obj[x].up \in Children(c)
                                  THEN [obj[x] EXCEPT !.native = "freed"] ELSE obj[x]]
    /\ UNCHANGED <<anchor, held>> /\ Fine
conn_commit(c) == EndTran(c)
conn_rollback(c) == EndTran(c)
conn_setautocommit(c, on) ==
  /\ tx' = [tx EXCEPT ![c] = [@ EXCEPT !.auto = on, !.asked = on, !.in = ~on,
                                   !.work = IF on THEN "none" ELSE tx[c].work]]
  /\ UNCHANGED <<obj, anchor, held>> /\ Fine

(* cur_shut marks the cursor closed, then SQLCloseCursor may refuse, and   *)
(* the lock of the statement stays; else the statement is unlocked, and    *)
(* shut when it is hidden.                                                 *)
Stale(q) == obj[q].up \in Stmt /\ obj[obj[q].up].st = "none"
CanClose(q) == obj[q].native = "open" /\ obj[obj[q].up].native = "open"
cur_shut(q) ==
  LET s == obj[q].up
      unlocked == Sub(Shut(obj, q), s)
      last == unlocked[s].lock = 0 /\ obj[s].hidden
      f == IF last THEN stmt_shut(unlocked, s) ELSE unlocked
      a == unlock_obj(anchor, unlocked, s)
  IN  IF CanClose(q)
      THEN [f |-> f, a |-> IF last THEN unlock_obj(a, f, obj[s].up) ELSE a]
      ELSE [f |-> [obj EXCEPT ![q].st = "closed", ![s].stuck = @ \/ ~Stale(q)], a |-> anchor]
StrayUse(q) ==
  When(Stale(q), "freed statement")
    \cup When(~Stale(q) /\ obj[obj[q].up].native # "open", "freed statement handle")
cur_close(q) ==
  /\ obj' = cur_shut(q).f /\ anchor' = cur_shut(q).a
  /\ Note(StrayUse(q)) /\ UNCHANGED <<held, tx>>
cur_gc(q) ==
  /\ UNCHANGED tx
  /\ IF obj[q].st = "open" THEN Gone(cur_shut(q).f, q) /\ anchor' = cur_shut(q).a /\ Note(StrayUse(q))
     ELSE Gone(obj, q) /\ UNCHANGED anchor /\ Fine
\* At the end the cursor closes; a cursor that the server closed answers an error.
cur_fetch(q) ==
  \/ obj[q].native = "open" /\ cur_close(q)
  \/ Note(StrayUse(q)) /\ Nothing

Next ==
  /\ UNCHANGED <<driver, closing>>
  /\ \/ ~closing /\ create_environment
     \/ \E e \in Opened(Env) : env_connect(e) \/ env_close(e)
     \/ \E e \in Collectable(Env) : env_gc(e)
     \/ \E c \in Opened(Conn) :
          \/ conn_close(c) \/ conn_prepare(c) \/ conn_execute(c) \/ conn_commit(c) \/ conn_rollback(c)
          \/ \E on \in BOOLEAN : conn_setautocommit(c, on)
     \/ \E c \in Collectable(Conn) : conn_gc(c)
     \/ \E s \in Opened(Stmt) : stmt_close(s) \/ \E given \in BOOLEAN : stmt_execute(s, given)
     \/ \E s \in Collectable(Stmt) : stmt_gc(s)
     \/ \E q \in Opened(Cur) : cur_fetch(q) \/ cur_close(q)
     \/ \E q \in Collectable(Cur) : cur_gc(q)
=============================================================================
