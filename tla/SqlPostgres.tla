---------------------------- MODULE SqlPostgres ----------------------------
(* The driver of LuaSQL for PostgreSQL, ls_postgres.c. It counts nothing,  *)
(* and it throws the results of COMMIT, ROLLBACK and BEGIN away. A         *)
(* connection that was lost is never made again (PQreset is not called).   *)
EXTENDS SqlObjects

Touch(c) == When(obj[c].native # "open", "freed connection")

create_environment ==
  \E e \in Fresh(Env) :
    /\ obj' = [obj EXCEPT ![e] = New(None)]
    /\ held' = held \cup {e} /\ UNCHANGED <<anchor, tx>> /\ Fine
create_connection(e) ==
  \E c \in Fresh(Conn) :
    /\ obj' = [obj EXCEPT ![c] = New(e)] /\ Ref(c)
    /\ held' = held \cup {c}
    /\ tx' = [tx EXCEPT ![c] = AutoTx]
\* PQfinish after a login that fails: nothing is left.
env_connect(e) == create_connection(e) /\ Fine
env_close(e) == obj' = Shut(obj, e) /\ UNCHANGED <<anchor, held, tx>> /\ Fine
env_gc(e) == Gone(obj, e) /\ UNCHANGED <<anchor, tx>> /\ Fine

conn_gc(c) ==
  /\ IF obj[c].st = "open" THEN Unref(c) /\ tx' = [tx EXCEPT ![c] = AutoTx]
     ELSE UNCHANGED <<anchor, tx>>
  /\ Gone(obj, c) /\ Fine
conn_close(c) ==
  /\ obj' = Shut(obj, c) /\ Unref(c)
  /\ tx' = [tx EXCEPT ![c] = AutoTx]
  /\ UNCHANGED held /\ Fine

\* The server, or the way to it, is gone, and what was not committed with it.
Lost(t) == t.lost = "lost connection"
Dropped(t) == [t EXCEPT !.in = FALSE, !.lost = "lost connection",
                        !.work = IF @ = "none" THEN "none" ELSE "aborted"]
lose(c) ==
  /\ tx' = [tx EXCEPT ![c] = Dropped(@)]
  /\ UNCHANGED <<obj, anchor, held>> /\ Fine

create_cursor(c) ==
  \E q \in Fresh(Cur) :
    /\ obj' = [obj EXCEPT ![q] = NewCursor(c, 1)]
    /\ Ref(q) /\ held' = held \cup {q}

(* A statement that fails aborts the transaction it is in: the server      *)
(* refuses everything until it ends, and ends it with a rollback even when *)
(* it is asked to commit.                                                  *)
conn_execute(c) ==
  /\ Fine
  /\ \/ /\ tx[c].work # "aborted" /\ ~Lost(tx[c])
        /\ \/ create_cursor(c) /\ UNCHANGED tx
           \/ tx' = [tx EXCEPT ![c] = Done(@)] /\ UNCHANGED <<obj, anchor, held>>
     \/ /\ tx' = [tx EXCEPT ![c].work = IF tx[c].in THEN "aborted" ELSE @]
        /\ UNCHANGED <<obj, anchor, held>>

sql_commit(t) == Ended(t)
sql_rollback(t) == Ended(t)
\* Mutant: no transaction is begun after the last one.
sql_begin_not(t) == t
sql_begin(t) == IF Lost(t) THEN t ELSE Begun(t)

\* With the flag off a new transaction is begun, and the answer is true, also
\* when nobody was there to hear of either.
conn_commit(c) ==
  /\ tx' = [tx EXCEPT ![c] = IF tx[c].auto THEN sql_commit(@) ELSE sql_begin(sql_commit(@))]
  /\ Note(When(~tx[c].auto /\ tx[c].work = "aborted", "commit of what was rolled back"))
  /\ UNCHANGED <<obj, anchor, held>>
conn_rollback(c) ==
  /\ tx' = [tx EXCEPT ![c] = IF tx[c].auto THEN sql_rollback(@) ELSE sql_begin(sql_rollback(@))]
  /\ UNCHANGED <<obj, anchor, held>> /\ Fine
conn_setautocommit(c, on) ==
  /\ tx' = [tx EXCEPT ![c] =
       LET t == [@ EXCEPT !.auto = on, !.asked = on]
       IN IF on THEN sql_rollback(t) ELSE sql_begin(t)]
  /\ UNCHANGED <<obj, anchor, held>> /\ Fine
\* PQescapeStringConn on the connection, piece by piece.
conn_escape(c) == Note(Touch(c)) /\ Nothing

cur_nullify(q) == obj' = Shut(obj, q) /\ Unref(q) /\ UNCHANGED <<held, tx>>
cur_fetch(q) ==
  /\ Fine
  /\ cur_nullify(q) \/ Nothing
cur_close(q) == cur_nullify(q) /\ Fine
cur_gc(q) ==
  /\ IF obj[q].st = "open" THEN Unref(q) ELSE UNCHANGED anchor
  /\ Gone(obj, q) /\ UNCHANGED tx /\ Fine

\* Each type is asked for with a SELECT on the connection, once per cursor.
getcolumntype(c) == Note(Touch(c))
create_coltypes(q) ==
  /\ getcolumntype(obj[q].up)
  /\ obj' = [obj EXCEPT ![q].info = TRUE]
cur_getcoltypes(q) ==
  /\ IF obj[q].info THEN UNCHANGED obj /\ Fine ELSE create_coltypes(q)
  /\ UNCHANGED <<anchor, held, tx>>

Next ==
  /\ UNCHANGED <<driver, closing>>
  /\ \/ ~closing /\ create_environment
     \/ \E e \in Opened(Env) : env_connect(e) \/ env_close(e)
     \/ \E e \in Collectable(Env) : env_gc(e)
     \/ \E c \in Opened(Conn) :
          \/ lose(c) \/ conn_close(c) \/ conn_escape(c) \/ conn_execute(c) \/ conn_commit(c) \/ conn_rollback(c)
          \/ \E on \in BOOLEAN : conn_setautocommit(c, on)
     \/ \E c \in Collectable(Conn) : conn_gc(c)
     \/ \E q \in Opened(Cur) : cur_fetch(q) \/ cur_getcoltypes(q) \/ cur_close(q)
     \/ \E q \in Collectable(Cur) : cur_gc(q)
=============================================================================
