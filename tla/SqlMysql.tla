------------------------------ MODULE SqlMysql ------------------------------
(* The driver of LuaSQL for MySQL, ls_mysql.c. It counts nothing: a        *)
(* connection closes with its cursors open, an environment with its        *)
(* connections open. A cursor keeps the MYSQL pointer of its connection.   *)
EXTENDS SqlObjects

\* A call to libmysqlclient on connection c, after mysql_close or mysql_library_end.
Touch(c) ==
  When(obj[c].native # "open", "freed connection")
    \cup When(obj[obj[c].up].native = "freed", "library ended")
\* A call on the result of q, after a statement of a batch left none.
TouchResult(q) == When(obj[q].native = "null", "no result")

TooFewColumns(q) == obj[q].native = "open" /\ obj[q].numcols > obj[q].width

create_environment ==
  \E e \in Fresh(Env) :
    /\ obj' = [obj EXCEPT ![e] = New(None)]
    /\ held' = held \cup {e} /\ UNCHANGED <<anchor, tx>> /\ Fine

\* A login that fails leaves nothing.
env_connect(e) ==
  \E c \in Fresh(Conn) :
    /\ obj' = [obj EXCEPT ![c] = New(e)] /\ Ref(c)
    /\ held' = held \cup {c}
    /\ tx' = [tx EXCEPT ![c] = AutoTx] /\ Fine

\* mysql_library_end, whatever is open; the collector only marks.
env_close(e) == obj' = Shut(obj, e) /\ UNCHANGED <<anchor, held, tx>> /\ Fine
env_gc(e) == Gone(obj, e) /\ UNCHANGED <<anchor, tx>> /\ Fine

\* What the server has not committed is lost with the connection.
conn_gc(c) ==
  /\ IF obj[c].st = "open" THEN Unref(c) /\ tx' = [tx EXCEPT ![c] = AutoTx]
     ELSE UNCHANGED <<anchor, tx>>
  /\ Gone(obj, c) /\ Fine
conn_close(c) ==
  /\ obj' = Shut(obj, c) /\ Unref(c)
  /\ tx' = [tx EXCEPT ![c] = AutoTx]
  /\ UNCHANGED held /\ Fine

\* ping, escape and getlastautoid ask the connection and change nothing.
conn_ask(c) == Note(Touch(c)) /\ Nothing

create_cursor(c, m) ==
  \E q \in Fresh(Cur), n \in Width \ {0} :
    /\ obj' = [obj EXCEPT ![q] = NewCursor(c, n), ![c].more = m]
    /\ Ref(q) /\ held' = held \cup {q} /\ UNCHANGED tx

(* A statement, or with CLIENT_MULTI_STATEMENTS a batch: the first result  *)
(* is read, the next one waits. While one waits every query is refused     *)
(* ("commands out of sync"). A query can also fail at the server.          *)
conn_execute(c) ==
  /\ Note(Touch(c))
  /\ \/ Nothing
     \/ /\ obj[c].more = <<>>
        /\ \E m \in {<<>>} \cup {<<w>> : w \in Width \ {2}} :
             \/ create_cursor(c, m)
             \/ /\ obj' = [obj EXCEPT ![c].more = m]
                /\ tx' = [tx EXCEPT ![c] = Done(@)] /\ UNCHANGED <<anchor, held>>

\* commit and rollback answer what the server says; the mode stays.
EndWork(c) ==
  /\ Note(Touch(c))
  /\ IF obj[c].more = <<>>
     THEN tx' = [tx EXCEPT ![c].work = "none"] /\ UNCHANGED <<obj, anchor, held>>
     ELSE Nothing
conn_commit(c) == EndWork(c)
conn_rollback(c) == EndWork(c)

\* The result of mysql_autocommit is not looked at: true in any case.
conn_setautocommit(c, on) ==
  /\ Note(Touch(c))
  /\ tx' = [tx EXCEPT ![c] =
       IF obj[c].more # <<>> THEN [@ EXCEPT !.asked = on, !.lost = "mode not set"]
       ELSE [auto |-> on, asked |-> on, in |-> ~on, lost |-> "nothing",
             work |-> IF on THEN "none" ELSE @.work]]
  /\ UNCHANGED <<obj, anchor, held>>

cur_nullify(q) == obj' = Shut(obj, q) /\ Unref(q) /\ UNCHANGED <<held, tx>>

\* The columns that are copied are those of the first result.
cur_fetch(q) ==
  \/ Note(TouchResult(q) \cup When(TooFewColumns(q), "row past its columns")) /\ Nothing
  \/ obj[q].native = "open" /\ cur_nullify(q) /\ Fine

\* The old result is freed; the next one may be that of a statement without rows.
cur_next_result(q) ==
  LET c == obj[q].up IN
  /\ Note(Touch(c))
  /\ IF obj[c].native # "open" \/ obj[c].more = <<>> THEN Nothing
     ELSE \/ Nothing
          \/ LET w == Head(obj[c].more) IN
             /\ obj' = [obj EXCEPT ![c].more = <<>>, ![q].width = w,
                                   ![q].native = IF w = 0 THEN "null" ELSE "open"]
             /\ UNCHANGED <<anchor, held, tx>>
cur_has_next_result(q) == Note(Touch(obj[q].up)) /\ Nothing

\* Names and types are made once, for as many columns as the first result had.
create_colinfo(q) ==
  /\ Note(TouchResult(q) \cup When(TooFewColumns(q), "row past its columns"))
  /\ obj' = [obj EXCEPT ![q].info = obj[q].native = "open"]
  /\ UNCHANGED <<anchor, held, tx>>
pushtable(q) == IF obj[q].info THEN Nothing /\ Fine ELSE create_colinfo(q)
cur_numrows(q) == Note(TouchResult(q)) /\ Nothing
cur_seek(q) == Note(TouchResult(q)) /\ Nothing

cur_close(q) == cur_nullify(q) /\ Fine
cur_gc(q) ==
  /\ IF obj[q].st = "open" THEN Unref(q) ELSE UNCHANGED anchor
  /\ Gone(obj, q) /\ UNCHANGED tx /\ Fine

Next ==
  /\ UNCHANGED <<driver, closing>>
  /\ \/ ~closing /\ create_environment
     \/ \E e \in Opened(Env) : env_connect(e) \/ env_close(e)
     \/ \E e \in Collectable(Env) : env_gc(e)
     \/ \E c \in Opened(Conn) :
          \/ conn_close(c) \/ conn_ask(c) \/ conn_execute(c) \/ conn_commit(c) \/ conn_rollback(c)
          \/ \E on \in BOOLEAN : conn_setautocommit(c, on)
     \/ \E c \in Collectable(Conn) : conn_gc(c)
     \/ \E q \in Opened(Cur) :
          \/ cur_fetch(q) \/ cur_next_result(q) \/ cur_has_next_result(q)
          \/ pushtable(q) \/ cur_numrows(q) \/ cur_seek(q) \/ cur_close(q)
     \/ \E q \in Collectable(Cur) : cur_gc(q)
=============================================================================
