------------------------------- MODULE MysqlPool -------------------------------
(***************************************************************************)
(* mysql_pool_api.cmd: how one worker process executes one statement over  *)
(* the connection it keeps, with up to MaxRecnt rounds and, in each, up to *)
(* MaxRecnt attempts to connect again.  The server goes down and up and    *)
(* connections break at any moment.                                        *)
(***************************************************************************)
EXTENDS Naturals

CONSTANTS
  MaxRecnt,   \* MAX_RECNT: rounds of a command, attempts of a connect
  Trouble     \* what the server and the network may do

ASSUME MysqlPoolAssumption ==
  /\ MaxRecnt \in Nat \ {0}
  /\ Trouble \subseteq {"down", "break", "deadlock", "lost", "sqlerror"}

VARIABLES
  server,   \* the database accepts connections
  pool,     \* OWN_MYSQL_POOLS[sqlname]: no handle, a live or a broken one
  pc,       \* where cmd is
  caller,   \* who called new_connect: fetch_pool or flush_pool
  nb,       \* attempts of new_connect
  conn,     \* the local variable conn of mysql_cmd
  stat,     \* its local variable stat
  ret,      \* its local variable ret: a result, or nil
  index,    \* rounds done
  applied,  \* how often the statement has taken effect on the database
  strikes,  \* what this call met, up to 2: 1 for an incident that executed
            \* nothing, 2 for an error of the statement or a lost reply
  answer    \* what cmd returned

locals == <<pc, caller, nb, conn, stat, ret, index>>
vars == <<server, pool, pc, caller, nb, conn, stat, ret, index, applied,
          strikes, answer>>

TypeOK ==
  /\ server \in BOOLEAN /\ pool \in {"none", "live", "broken"}
  /\ pc \in {"idle", "connect", "execute", "flush", "round"}
  /\ caller \in {"fetch", "flush"}
  /\ nb \in 0 .. MaxRecnt /\ index \in 0 .. MaxRecnt
  /\ conn \in BOOLEAN /\ stat \in BOOLEAN /\ ret \in BOOLEAN
  /\ applied \in 0 .. MaxRecnt
  /\ strikes \in 0 .. 2
  /\ answer \in {"none", "ok", "fail"}

\* init opens the connection when the worker starts, if it can.
Init ==
  /\ server \in BOOLEAN
  /\ pool \in (IF server THEN {"live"} ELSE {"none"})
  /\ pc = "idle" /\ caller = "fetch"
  /\ nb = 0 /\ index = 0
  /\ conn = TRUE /\ stat = FALSE /\ ret = FALSE
  /\ applied = 0 /\ strikes = 0 /\ answer = "none"

-----------------------------------------------------------------------------
(* The server and the network.                                             *)

Down ==
  /\ "down" \in Trouble /\ server
  /\ server' = FALSE
  /\ pool' = IF pool = "live" THEN "broken" ELSE pool
  /\ UNCHANGED <<locals, applied, strikes, answer>>

Up ==
  /\ ~server /\ server' = TRUE
  /\ UNCHANGED <<pool, locals, applied, strikes, answer>>

\* wait_timeout, a killed session, a dropped TCP connection.
Break ==
  /\ "break" \in Trouble /\ pool = "live"
  /\ pool' = "broken"
  /\ UNCHANGED <<server, locals, applied, strikes, answer>>

-----------------------------------------------------------------------------
Strike == strikes' = IF strikes < 2 THEN strikes + 1 ELSE strikes

Return(result) == answer' = result /\ pc' = "idle"

\* One statement at a time; the locals start afresh.
Call ==
  /\ pc = "idle"
  /\ conn' = TRUE /\ stat' = FALSE /\ ret' = FALSE /\ index' = 0
  /\ applied' = 0 /\ strikes' = 0 /\ answer' = "none"
  /\ nb' = 0 /\ caller' = "fetch"
  /\ pc' = IF pool = "none" THEN "connect" ELSE "execute"
  /\ UNCHANGED <<server, pool>>

\* new_connect is over.  Its last attempt counts as failed even if it got a
\* connection, which then stays in the pool.
Connected(ok) ==
  IF caller = "fetch"
  THEN /\ IF ok THEN pc' = "execute" /\ UNCHANGED answer ELSE Return("fail")
       /\ UNCHANGED conn
  ELSE pc' = "round" /\ conn' = ok /\ UNCHANGED answer

Connect ==
  /\ pc = "connect"
  /\ nb' = nb + 1
  /\ pool' = IF server THEN "live" ELSE "none"
  /\ IF server THEN UNCHANGED strikes ELSE Strike
  /\ IF nb + 1 >= MaxRecnt \/ server
       THEN Connected(nb + 1 < MaxRecnt)
       ELSE UNCHANGED <<pc, answer, conn>>
  /\ UNCHANGED <<server, caller, stat, ret, index, applied>>

\* The connection is gone or the transaction was a deadlock victim: nothing
\* was executed, and mysql_api_execute raises an error.
ExecuteRaises ==
  /\ pool = "broken" \/ "deadlock" \in Trouble
  /\ stat' = FALSE /\ ret' = FALSE
  /\ Strike
  /\ pc' = "flush"
  /\ UNCHANGED <<pool, applied>>

\* Any other error is a nil result.  When the connection is lost during the
\* query, the statement may or may not have been executed.
ExecuteNil ==
  /\ pool = "live"
  /\ \/ "sqlerror" \in Trouble /\ UNCHANGED <<pool, applied>>
     \/ "lost" \in Trouble /\ pool' = "broken" /\ applied' \in {applied, applied + 1}
  /\ stat' = TRUE /\ ret' = FALSE
  /\ strikes' = 2
  /\ pc' = "round"

ExecuteOk ==
  /\ pool = "live"
  /\ applied' = applied + 1
  /\ stat' = TRUE /\ ret' = TRUE
  /\ pc' = "round"
  /\ UNCHANGED <<pool, strikes>>

\* Without a connection the round goes straight to another reconnect.
Execute ==
  /\ pc = "execute"
  /\ \/ conn /\ (ExecuteRaises \/ ExecuteNil \/ ExecuteOk)
     \/ ~conn /\ pc' = "flush" /\ UNCHANGED <<pool, applied, stat, ret, strikes>>
  /\ UNCHANGED <<server, caller, nb, conn, index, answer>>

Flush ==
  /\ pc = "flush"
  /\ pool' = "none"
  /\ nb' = 0 /\ caller' = "flush"
  /\ pc' = "connect"
  /\ UNCHANGED <<server, conn, stat, ret, index, applied, strikes, answer>>

\* Slip for Round: one round fewer.
RoundTooFew ==
  /\ pc = "round"
  /\ index' = index + 1
  /\ \/ index + 2 >= MaxRecnt /\ Return("fail")
     \/ /\ index + 2 < MaxRecnt
        /\ IF stat THEN Return(IF ret THEN "ok" ELSE "fail")
                   ELSE pc' = "execute" /\ UNCHANGED answer
  /\ UNCHANGED <<server, pool, caller, nb, conn, stat, ret, applied, strikes>>

\* Slip for Round: a nil result is repeated as well, since it may have been a
\* lost connection.
RoundRepeatsNil ==
  /\ pc = "round"
  /\ index' = index + 1
  /\ \/ index + 1 >= MaxRecnt /\ Return("fail")
     \/ /\ index + 1 < MaxRecnt
        /\ IF stat /\ ret THEN Return("ok")
                          ELSE pc' = "execute" /\ UNCHANGED answer
  /\ UNCHANGED <<server, pool, caller, nb, conn, stat, ret, applied, strikes>>

\* Slip for Round: the result is not looked at.
RoundIgnoresResult ==
  /\ pc = "round"
  /\ index' = index + 1
  /\ \/ index + 1 >= MaxRecnt /\ Return("fail")
     \/ /\ index + 1 < MaxRecnt
        /\ IF stat THEN Return("ok") ELSE pc' = "execute" /\ UNCHANGED answer
  /\ UNCHANGED <<server, pool, caller, nb, conn, stat, ret, applied, strikes>>

\* Slip for Round: rounds are not counted.
RoundUncounted ==
  /\ pc = "round"
  /\ IF stat THEN Return(IF ret THEN "ok" ELSE "fail")
             ELSE pc' = "execute" /\ UNCHANGED answer
  /\ UNCHANGED <<server, pool, caller, nb, conn, stat, ret, index, applied, strikes>>

\* The end of a round.  The bound is looked at before the result is: the last
\* round fails whatever it did.
Round ==
  /\ pc = "round"
  /\ index' = index + 1
  /\ \/ index + 1 >= MaxRecnt /\ Return("fail")
     \/ /\ index + 1 < MaxRecnt
        /\ IF stat THEN Return(IF ret THEN "ok" ELSE "fail")
                   ELSE pc' = "execute" /\ UNCHANGED answer
  /\ UNCHANGED <<server, pool, caller, nb, conn, stat, ret, applied, strikes>>

Working == Connect \/ Execute \/ Flush \/ Round

Next == Down \/ Up \/ Break \/ Call \/ Working

\* A worker that has taken up a request goes on with it: its calls block, but
\* each comes back with a result or an error.
Spec == Init /\ [][Next]_vars /\ WF_vars(Working)

-----------------------------------------------------------------------------
(* Properties.                                                             *)

\* However often a command is repeated, its statement takes effect at most
\* once: only attempts that executed nothing are repeated.  An INSERT is not
\* doubled, and a DELETE does not hit a row that came later.
AtMostOnce == applied <= 1

\* A command that reports success has executed its statement.
OkMeansApplied == answer = "ok" => applied = 1

\* A statement that is in order is executed although one incident comes in
\* between, a broken connection, a deadlock or a failed connect: the caller
\* notices nothing.
OneIncidentIsMasked == answer = "fail" => strikes >= 2

\* Every command comes to an end, whatever the server and the network do.
CommandsEnd == pc # "idle" ~> pc = "idle"

\* The log says "do 3 rounds |--->FAILED! this request failed!"
\* (mysql_pool_api.lua:230), and the caller is told the same: the statement
\* was not executed.
FailedMeansNotApplied == answer = "fail" => applied = 0
=============================================================================
