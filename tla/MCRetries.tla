------------------------------ MODULE MCRetries ------------------------------
(* Who repeats what failed: mysql_cmd, the requests of redis_pool_api, and *)
(* the client of an upload in slices. They share no state, so in a         *)
(* behaviour one of them moves.                                            *)
EXTENDS MysqlPool, RedisPool, SliceUpload

CONSTANTS s, d, a, c,   \* pools; hosts of servers, c not in link.lua
          r1, r2, w1, w2

VARIABLE side

retryVars == <<side, vars, redisVars, sliceVars>>

\* The pool s is configured, with a hash; d is added later.
LinkLua == [n \in Name |-> IF n = s THEN [kind |-> "hash", list |-> <<a>>] ELSE NoPool]

\* What does not move starts in one state.
RetryInit ==
  /\ side \in {"mysql", "redis", "slices"}
  /\ Init /\ RedisInit /\ SliceInit
  /\ side # "mysql" => server
  /\ side # "redis" => up = Addr

Mysql(A) == side = "mysql" /\ A /\ UNCHANGED <<side, redisVars, sliceVars>>
Redis(A) == side = "redis" /\ A /\ UNCHANGED <<side, vars, sliceVars>>
Slices(A) == side = "slices" /\ A /\ UNCHANGED <<side, vars, redisVars>>

RetryNext == Mysql(Next) \/ Redis(RedisNext) \/ Slices(SliceNext)

\* The fairness of the three specifications.
RetrySpec ==
  /\ RetryInit /\ [][RetryNext]_retryVars
  /\ WF_retryVars(Mysql(Working))
  /\ \A r \in Req : WF_retryVars(Redis(RedisWorking(r)))
  /\ \A w \in Worker : WF_retryVars(Slices(Handler(w)))
  /\ WF_retryVars(Slices(Client))
=============================================================================
