---------------------------- MODULE SqlFirebird ----------------------------
(* The driver of LuaSQL for Firebird, ls_firebird.c. Counters and registry *)
(* entries as in SqlOdbc, without statement objects; a connection is in a  *)
(* transaction from the start. stuck marks a connection that lost the lock *)
(* of a cursor, and a cursor that was never filled in; hidden, the cursor  *)
(* of a procedure. The handle of a statement that nobody drops stays with  *)
(* the library until the database is detached, and that of a database that *)
(* nobody detaches for good: slips says so when it happens.                *)
EXTENDS SqlObjects

create_environment ==
  \E e \in Fresh(Env) :
    /\ obj' = [obj EXCEPT ![e] = New(None)]
    /\ held' = held \cup {e} /\ UNCHANGED <<anchor, tx>> /\ Fine

Tran == [AutoTx EXCEPT !.auto = FALSE, !.asked = FALSE, !.in = TRUE]
\* A database that was attached, but gave no transaction, stays attached.
env_connect(e) ==
  \/ \E c \in Fresh(Conn) :
       /\ obj' = [obj EXCEPT ![c] = New(e), ![e].lock = @ + 1]
       /\ anchor' = anchor \cup {<<e, e>>} /\ held' = held \cup {c}
       /\ tx' = [tx EXCEPT ![c] = Tran] /\ Fine
  \/ Nothing /\ May("database left attached")

\* Nothing native stands behind an environment; the collector does nothing.
env_close(e) ==
  /\ IF obj[e].lock > 0 THEN UNCHANGED <<obj, anchor>>
     ELSE obj' = Shut(obj, e) /\ anchor' = anchor \ {<<e, e>>}
  /\ UNCHANGED <<held, tx>> /\ Fine
env_gc(e) == Gone(obj, e) /\ UNCHANGED <<anchor, tx>> /\ Fine

Detached(c) == [Shut(obj, c) EXCEPT ![obj[c].up].lock = @ - 1]
EnvFree(c) == IF obj[obj[c].up].lock = 1 THEN anchor \ {<<obj[c].up, obj[c].up>>} ELSE anchor
(* The transaction is ended, then the database detached. When the second   *)
(* fails the first was done, and it cannot be done again.                  *)
conn_close(c) ==
  /\ UNCHANGED held
  /\ \/ UNCHANGED <<obj, anchor, tx>> /\ Fine           \* open cursors, or it cannot be ended
     \/ /\ obj[c].lock = 0 /\ tx[c].in
        /\ \/ /\ obj' = Detached(c) /\ anchor' = EnvFree(c)
              /\ tx' = [tx EXCEPT ![c] = AutoTx] /\ Fine
           \/ /\ tx' = [tx EXCEPT ![c] = [Ended(@) EXCEPT !.lost = "failed close"]]
              /\ Fine /\ UNCHANGED <<obj, anchor>>
\* Whatever fails, whatever is open.
conn_gc(c) ==
  /\ \E attached \in BOOLEAN :
       Note(When(OpenChildren(c) # {}, "connection freed under its cursor")
              \cup When(obj[c].st = "open" /\ attached, "database left attached"))
  /\ IF obj[c].st = "open" THEN Gone(Detached(c), c) /\ anchor' = EnvFree(c) /\ tx' = [tx EXCEPT ![c] = AutoTx]
     ELSE Gone(obj, c) /\ UNCHANGED <<anchor, tx>>

get_statement_type == {"select", "procedure", "other", "unsupported"}
(* Errors between the allocation of the statement and its end give back    *)
(* memory and lose the statement's handle. With autocommit everything but  *)
(* a SELECT is committed at once, or else stays uncommitted. The cursor    *)
(* object is made before its name is set: when that fails its memory, with *)
(* whatever was in it, is left to the collector.                           *)
conn_execute(c) ==
  \/ Nothing /\ May("statement handle lost")
  \/ /\ tx[c].in
     /\ \E type \in get_statement_type \ {"unsupported"} :
          LET commits == tx[c].auto /\ type # "select"
              after == IF type = "select" THEN tx[c]
                       ELSE [tx[c] EXCEPT !.work = IF commits THEN "none" ELSE "some"]
          IN  \/ /\ type # "select" /\ tx' = [tx EXCEPT ![c] = after]
                 /\ UNCHANGED <<obj, anchor, held>> /\ May("statement handle lost")
              \/ /\ commits /\ tx' = [tx EXCEPT ![c].work = "some"]
                 /\ UNCHANGED <<obj, anchor, held>> /\ Note({"statement handle lost"})
              \/ /\ type # "other" /\ tx' = [tx EXCEPT ![c] = after]
                 /\ \E q \in Fresh(Cur) :
                      \/ /\ obj' = [obj EXCEPT ![q] = [NewCursor(c, 1) EXCEPT !.hidden = type = "procedure"],
                                               ![c].lock = @ + 1]
                         /\ anchor' = anchor \cup {<<c, c>>} /\ held' = held \cup {q} /\ Fine
                      \/ /\ obj' = [obj EXCEPT ![q] = [NewCursor(c, 1) EXCEPT !.stuck = TRUE, !.native = "null"]]
                         /\ UNCHANGED <<anchor, held>> /\ Note({"statement handle lost"})

EndTran(c) ==
  \/ tx' = [tx EXCEPT ![c].work = "none"] /\ tx[c].in /\ UNCHANGED <<obj, anchor, held>> /\ Fine
  \/ Nothing /\ Fine
conn_commit(c) == EndTran(c)
conn_rollback(c) == EndTran(c)
conn_setautocommit(c, on) ==
  /\ tx' = [tx EXCEPT ![c].auto = on, ![c].asked = on]
  /\ UNCHANGED <<obj, anchor, held>> /\ Fine

Unlock(f, q) == [Shut(f, q) EXCEPT ![f[q].up].lock = @ - 1]
\* DSQL_close ends the cursor in the database and keeps the statement.
cur_shut(q) ==
  LET c == obj[q].up IN
  [f |-> [Unlock(obj, q) EXCEPT ![q].native = "lost"],
   a |-> IF obj[c].lock = 1 THEN anchor \ {<<c, c>>} ELSE anchor]
Shuts(q) == obj' = cur_shut(q).f /\ anchor' = cur_shut(q).a /\ Note({"statement handle lost"})
cur_close(q) ==
  /\ UNCHANGED <<held, tx>>
  /\ Shuts(q) \/ (UNCHANGED <<obj, anchor>> /\ Fine)
\* A cursor that cannot be shut goes, and its lock stays.
cur_gc(q) ==
  /\ UNCHANGED tx
  /\ Note(When(obj[q].stuck, "uninitialised cursor")
            \cup When(obj[q].st = "open" /\ ~obj[q].stuck, "statement handle lost"))
  /\ \/ obj[q].st # "open" /\ Gone(obj, q) /\ UNCHANGED anchor
     \/ /\ obj[q].st = "open" /\ ~obj[q].stuck
        /\ \/ Gone(cur_shut(q).f, q) /\ anchor' = cur_shut(q).a
           \/ Gone([obj EXCEPT ![obj[q].up].stuck = TRUE], q) /\ UNCHANGED anchor
     \/ obj[q].st = "open" /\ obj[q].stuck /\ Gone(obj, q) /\ UNCHANGED anchor
(* A row, after which the cursor of a procedure closes; or the end: the    *)
(* handle is dropped and the lock given back, not the registry's entry.    *)
cur_fetch(q) ==
  /\ UNCHANGED <<held, tx>>
  /\ \/ UNCHANGED <<obj, anchor>> /\ Fine                 \* a row, or an error
     \/ obj[q].hidden /\ Shuts(q)                         \* the row
     \/ obj' = Unlock(obj, q) /\ UNCHANGED anchor /\ Fine  \* the end

Next ==
  /\ UNCHANGED <<driver, closing>>
  /\ \/ ~closing /\ create_environment
     \/ \E e \in Opened(Env) : env_connect(e) \/ env_close(e)
     \/ \E e \in Collectable(Env) : env_gc(e)
     \/ \E c \in Opened(Conn) :
          \/ conn_close(c) \/ conn_execute(c) \/ conn_commit(c) \/ conn_rollback(c)
          \/ \E on \in BOOLEAN : conn_setautocommit(c, on)
     \/ \E c \in Collectable(Conn) : conn_gc(c)
     \/ \E q \in Opened(Cur) : cur_fetch(q) \/ cur_close(q)
     \/ \E q \in Collectable(Cur) : cur_gc(q)
=============================================================================
