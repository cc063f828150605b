------------------------------ MODULE SqlLite3 ------------------------------
(* The driver of LuaSQL for SQLite 3, ls_sqlite3.c. A connection counts    *)
(* its open cursors (lock is cur_counter) and does not close before they   *)
(* are closed; environments count nothing. left marks a connection on      *)
(* which a compiled statement was lost.                                    *)
EXTENDS SqlObjects

create_environment ==
  \E e \in Fresh(Env) :
    /\ obj' = [obj EXCEPT ![e] = New(None)]
    /\ held' = held \cup {e} /\ UNCHANGED <<anchor, tx>> /\ Fine
create_connection(e) ==
  \E c \in Fresh(Conn) :
    /\ obj' = [obj EXCEPT ![c] = New(e)] /\ Ref(c)
    /\ held' = held \cup {c}
    /\ tx' = [tx EXCEPT ![c] = AutoTx]
env_connect(e) == create_connection(e) /\ Fine
env_close(e) == obj' = Shut(obj, e) /\ UNCHANGED <<anchor, held, tx>> /\ Fine
env_gc(e) == Gone(obj, e) /\ UNCHANGED <<anchor, tx>> /\ Fine

\* sqlite3_close refuses a connection with a statement on it, and is not asked.
Closed(c) ==
  [obj EXCEPT ![c].st = "closed", ![c].native = IF obj[c].left THEN "open" ELSE "freed"]
conn_close(c) ==
  /\ UNCHANGED held /\ Fine
  /\ IF obj[c].lock > 0 THEN UNCHANGED <<obj, anchor, tx>>    \* raises "there are open cursors"
     ELSE /\ obj' = Closed(c) /\ Unref(c)
          /\ tx' = [tx EXCEPT ![c] = AutoTx]
\* The same code; an error of the collector would leave everything as it is.
conn_gc(c) ==
  /\ IF obj[c].st = "open" THEN Unref(c) /\ tx' = [tx EXCEPT ![c] = AutoTx]
     ELSE UNCHANGED <<anchor, tx>>
  /\ Note(When(obj[c].st = "open" /\ obj[c].lock > 0, "error in the collector"))
  /\ Gone(obj, c)

create_cursor(c) ==
  \E q \in Fresh(Cur) :
    /\ obj' = [obj EXCEPT ![q] = NewCursor(c, 1), ![c].lock = @ + 1]
    /\ Ref(q) /\ held' = held \cup {q} /\ UNCHANGED tx

(* Parameters. Positional ones are counted, and the first that cannot be   *)
(* bound ends the call; a table raises for an unknown name and for a type  *)
(* without a binding, and looks at no result of set_param.                 *)
raw_readparams_args == {"bound", "refused"}
raw_readparams_table == {"bound", "refused", "left out"}
set_param == raw_readparams_args \cup raw_readparams_table \cup {"none"}

\* A refusal leaves the compiled statement on the connection.
Refused(c) ==
  /\ obj' = [obj EXCEPT ![c].left = TRUE]
  /\ UNCHANGED <<anchor, held, tx>> /\ Fine

(* A step of a statement that fails can take the whole transaction back    *)
(* (disk full, I/O error, out of memory).                                  *)
Rollback(c) ==
  /\ tx' = [tx EXCEPT ![c] = [Ended(@) EXCEPT !.lost = "automatic rollback", !.work = "aborted"]]
  /\ Fine
  /\ UNCHANGED <<obj, anchor, held>>
Step(c) ==
  \/ create_cursor(c)
  \/ tx' = [tx EXCEPT ![c] = Done(@)] /\ UNCHANGED <<obj, anchor, held>>
conn_execute(c) ==
  \/ \E given \in set_param :
       IF given = "refused" THEN Refused(c)
       ELSE Step(c) /\ Note(When(given = "left out", "parameter left out"))
  \/ tx[c].in /\ Rollback(c)

(* "COMMIT;BEGIN" stops at the first statement that fails: without a       *)
(* transaction, none is begun. A commit can find the database locked.      *)
EndWork(c, again) ==
  /\ UNCHANGED <<obj, anchor, held>>
  /\ tx' = [tx EXCEPT ![c] =
       IF ~@.in THEN @ ELSE IF again THEN Begun(Ended(@)) ELSE Ended(@)]
\* Mutant: the result of sqlite3_exec is not looked at.
SucceedsAlways(c) == TRUE
\* Whether sqlite3_exec was happy, so that the answer is true.
Succeeds(c) == tx[c].in
conn_commit(c) ==
  \/ /\ EndWork(c, ~tx[c].auto)
     /\ Note(When(Succeeds(c) /\ tx[c].work = "aborted", "commit of what was rolled back"))
  \/ tx[c].in /\ Nothing /\ Fine
  \/ tx[c].in /\ Rollback(c)
conn_rollback(c) == EndWork(c, ~tx[c].auto) /\ Fine

\* The flag is written first; BEGIN in a transaction fails and raises.
conn_setautocommit(c, on) ==
  /\ tx' = [tx EXCEPT ![c] =
       IF on THEN Ended([@ EXCEPT !.auto = TRUE, !.asked = TRUE, !.lost = "nothing"])
       ELSE IF @.in THEN [@ EXCEPT !.auto = FALSE, !.lost = "nothing"]
       ELSE [AutoTx EXCEPT !.auto = FALSE, !.asked = FALSE, !.in = TRUE]]
  /\ UNCHANGED <<obj, anchor, held>> /\ Fine

\* Mutant: the handle is not given back.
cur_nullify_leaks(f, q) == [f EXCEPT ![q].st = "closed", ![f[q].up].lock = @ - 1]
cur_nullify(f, q) == [Shut(f, q) EXCEPT ![f[q].up].lock = @ - 1]
\* sqlite3_finalize frees the statement whatever it answers.
finalize(q) == obj' = cur_nullify(obj, q) /\ Unref(q) /\ UNCHANGED <<held, tx>>
\* No more rows, or an error: the cursor ends.
cur_fetch(q) ==
  /\ Fine
  /\ finalize(q) \/ Nothing
cur_close(q) == finalize(q) /\ Fine
\* Mutants: the collector takes a cursor that was closed off the count again, or no cursor.
cur_gc_twice(q) ==
  /\ UNCHANGED tx /\ Fine
  /\ Gone(cur_nullify(obj, q), q) /\ Unref(q)
cur_gc_uncounted(q) ==
  /\ UNCHANGED tx /\ Fine
  /\ Gone(obj, q) /\ Unref(q)
cur_gc(q) ==
  /\ UNCHANGED tx /\ Fine
  /\ IF obj[q].st = "open" THEN Gone(cur_nullify(obj, q), q) /\ Unref(q)
     ELSE Gone(obj, q) /\ UNCHANGED anchor

Next ==
  /\ UNCHANGED <<driver, closing>>
  /\ \/ ~closing /\ create_environment
     \/ \E e \in Opened(Env) : env_connect(e) \/ env_close(e)
     \/ \E e \in Collectable(Env) : env_gc(e)
     \/ \E c \in Opened(Conn) :
          \/ conn_close(c) \/ conn_execute(c) \/ conn_commit(c) \/ conn_rollback(c)
          \/ \E on \in BOOLEAN : conn_setautocommit(c, on)
     \/ \E c \in Collectable(Conn) : conn_gc(c)
     \/ \E q \in Opened(Cur) : cur_fetch(q) \/ cur_close(q)
     \/ \E q \in Collectable(Cur) : cur_gc(q)
=============================================================================
