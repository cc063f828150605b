------------------------------ MODULE SqlLite ------------------------------
(* The driver of LuaSQL for SQLite 2, ls_sqlite.c: function by function    *)
(* that of SQLite 3 (SqlLite3), without parameters for statements.         *)
EXTENDS SqlObjects

L3 == INSTANCE SqlLite3

create_environment == L3!create_environment
create_connection(e) == L3!create_connection(e)
env_connect(e) == create_connection(e) /\ Fine
env_close(e) == L3!env_close(e)
env_gc(e) == L3!env_gc(e)
conn_close(c) == L3!conn_close(c)
conn_gc(c) == L3!conn_gc(c)
create_cursor(c) == L3!create_cursor(c)
conn_execute(c) ==
  \/ /\ Fine
     /\ \/ create_cursor(c)
        \/ tx' = [tx EXCEPT ![c] = Done(@)] /\ UNCHANGED <<obj, anchor, held>>
  \/ tx[c].in /\ L3!Rollback(c)
conn_commit(c) == L3!conn_commit(c)
conn_rollback(c) == L3!conn_rollback(c)
conn_setautocommit(c, on) == L3!conn_setautocommit(c, on)
finalize(q) == L3!finalize(q)
cur_fetch(q) ==
  /\ Fine
  /\ finalize(q) \/ Nothing
cur_close(q) == finalize(q) /\ Fine
cur_gc(q) == L3!cur_gc(q)

Next ==
  /\ UNCHANGED <<driver, closing>>
  /\ \/ ~closing /\ create_environment
     \/ \E e \in Opened(Env) : env_connect(e) \/ env_close(e)
     \/ \E e \in Collectable(Env) : env_gc(e)
     \/ \E c \in Opened(Conn) :
          \/ conn_close(c) \/ conn_execute(c) \/ conn_commit(c) \/ conn_rollback(c)
          \/ \E on \in BOOLEAN : conn_setautocommit(c, on)
     \/ \E c \in Collectable(Conn) : conn_gc(c)
     \/ \E q \in Opened(Cur) : cur_fetch(q) \/ cur_close(q)
     \/ \E q \in Collectable(Cur) : cur_gc(q)
=============================================================================
