------------------------------ MODULE SqlOci8 ------------------------------
(* The driver of LuaSQL for Oracle, ls_oci8.c. Environments count their    *)
(* connections, connections their cursors (conn_counter, cur_counter), and *)
(* neither closes before its children. A cursor ends only when it is       *)
(* closed. stuck marks a cursor whose columns were not all set up, and a   *)
(* connection or environment whose counter will not come down. A handle    *)
(* that an error path loses goes with the environment, and slips says so.  *)
EXTENDS SqlObjects

create_environment ==
  \E e \in Fresh(Env) :
    /\ obj' = [obj EXCEPT ![e] = New(None)]
    /\ held' = held \cup {e} /\ UNCHANGED <<anchor, tx>> /\ Fine

(* The reference to the environment is taken before the login, and kept    *)
(* when it fails. The userdata that is left is marked closed, so that its  *)
(* finalizer does nothing, and nobody has it: it is not given a place. Its *)
(* error handle is lost, if it came to one.                                *)
env_connect(e) ==
  \/ \E c \in Fresh(Conn) :
       /\ obj' = [obj EXCEPT ![c] = New(e), ![e].lock = @ + 1]
       /\ Ref(c) /\ held' = held \cup {c}
       /\ tx' = [tx EXCEPT ![c] = AutoTx] /\ Fine
  \/ /\ anchor' = anchor \cup {<<e, e>>} /\ UNCHANGED <<obj, held, tx>>
     /\ May("error handle lost")

Raises(o) == obj[o].st = "open" /\ obj[o].lock > 0
\* Mutant: connections are not counted.
env_close_uncounted(e) ==
  /\ obj' = Shut(obj, e)
  /\ UNCHANGED <<anchor, held, tx>> /\ Fine
env_close(e) ==
  /\ obj' = IF Raises(e) THEN obj ELSE Shut(obj, e)
  /\ UNCHANGED <<anchor, held, tx>> /\ Fine
env_gc(e) == Gone(obj, e) /\ Note(When(Raises(e), "error in the collector")) /\ UNCHANGED <<anchor, tx>>

conn_shut(c) == [Shut(obj, c) EXCEPT ![obj[c].up].lock = @ - 1]
\* Mutant: cursors are not counted.
conn_close_uncounted(c) ==
  /\ UNCHANGED held /\ Fine
  /\ obj' = conn_shut(c) /\ Unref(c) /\ tx' = [tx EXCEPT ![c] = AutoTx]
conn_close(c) ==
  /\ UNCHANGED held /\ Fine
  /\ IF Raises(c) THEN UNCHANGED <<obj, anchor, tx>>
     ELSE obj' = conn_shut(c) /\ Unref(c) /\ tx' = [tx EXCEPT ![c] = AutoTx]
\* What a finalizer that raises leaves of the parent's count.
Strand(o) == IF Raises(o) THEN [obj EXCEPT ![obj[o].up].stuck = TRUE] ELSE obj
conn_gc(c) ==
  /\ Note(When(Raises(c), "error in the collector"))
  /\ IF obj[c].st = "open" /\ obj[c].lock = 0
     THEN Gone(conn_shut(c), c) /\ Unref(c) /\ tx' = [tx EXCEPT ![c] = AutoTx]
     ELSE Gone(Strand(c), c) /\ UNCHANGED anchor /\ tx' = [tx EXCEPT ![c] = AutoTx]

(* The counter and the reference come first, the columns later. A column   *)
(* that cannot be set up (a DATE has no case) ends the call, and leaves an *)
(* open cursor to the collector; without an error handle it has no column. *)
alloc_column_buffer == {"all", "some", "none"}
create_cursor(c) ==
  \E q \in Fresh(Cur), columns \in alloc_column_buffer :
    /\ obj' = [obj EXCEPT ![q] = [NewCursor(c, 1) EXCEPT !.stuck = columns = "some"],
                          ![c].lock = @ + 1]
    /\ Ref(q) /\ held' = held \cup When(columns = "all", q)
    /\ UNCHANGED tx

\* An error after OCIHandleAlloc, other than that of the statement, loses the handle.
conn_execute(c) ==
  \/ create_cursor(c) /\ Fine
  \/ /\ tx' = [tx EXCEPT ![c] = Done(@)]
     /\ UNCHANGED <<obj, anchor, held>> /\ May("statement handle lost")
  \/ Nothing /\ May("statement handle lost")

\* Oracle begins a transaction by itself; with the flag on, each statement commits.
EndTran(c) ==
  \/ tx' = [tx EXCEPT ![c].work = "none"] /\ UNCHANGED <<obj, anchor, held>> /\ Fine
  \/ Nothing /\ Fine
conn_commit(c) == EndTran(c)
conn_rollback(c) == EndTran(c)
\* The flag is written first: when the rollback fails, it has changed all the same.
conn_setautocommit(c, on) ==
  /\ UNCHANGED <<obj, anchor, held>> /\ Fine
  /\ \E ok \in {TRUE} \cup {~on} :
       tx' = [tx EXCEPT ![c] = [auto |-> on, in |-> ~on, asked |-> IF ok THEN on ELSE @.asked,
                                lost |-> IF ok THEN "nothing" ELSE "failed call",
                                work |-> IF on /\ ok THEN "none" ELSE @.work]]

\* Buffers of columns are freed first; one of an unknown type raises.
free_column_buffers(q) == ~obj[q].stuck
cur_shut(q) == [Shut(obj, q) EXCEPT ![obj[q].up].lock = @ - 1]
cur_close(q) ==
  /\ free_column_buffers(q)
  /\ obj' = cur_shut(q) /\ Unref(q) /\ UNCHANGED <<held, tx>> /\ Fine
\* The count and the reference of a cursor that raises stay for good.
cur_gc(q) ==
  /\ UNCHANGED tx
  /\ IF obj[q].st # "open" THEN Gone(obj, q) /\ UNCHANGED anchor /\ Fine
     ELSE IF free_column_buffers(q) THEN Gone(cur_shut(q), q) /\ Unref(q) /\ Fine
     ELSE LET c == obj[q].up IN
          /\ Gone([obj EXCEPT ![c].stuck = TRUE], q)
          /\ anchor' = (anchor \ {<<q, c>>}) \cup {<<c, c>>}
          /\ Note({"error in the collector", "statement handle lost"})
\* No more rows: nil, and the cursor stays as it is. A CLOB is read through the connection.
cur_fetch(q) ==
  Note(When(obj[obj[q].up].native # "open", "freed connection")) /\ Nothing

Next ==
  /\ UNCHANGED <<driver, closing>>
  /\ \/ ~closing /\ create_environment
     \/ \E e \in Opened(Env) : env_connect(e) \/ env_close(e)
     \/ \E e \in Collectable(Env) : env_gc(e)
     \/ \E c \in Opened(Conn) :
          \/ conn_close(c) \/ conn_execute(c) \/ conn_commit(c) \/ conn_rollback(c)
          \/ \E on \in BOOLEAN : conn_setautocommit(c, on)
     \/ \E c \in Collectable(Conn) : conn_gc(c)
     \/ \E q \in Opened(Cur) : cur_fetch(q) \/ cur_close(q)
     \/ \E q \in Collectable(Cur) : cur_gc(q)
=============================================================================
