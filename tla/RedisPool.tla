------------------------------- MODULE RedisPool -------------------------------
(***************************************************************************)
(* redis_pool_api: one worker process sends commands to the members of its *)
(* named pools, each over a connection of its own and in up to RedisRecnt  *)
(* rounds, while pools are added and deleted and servers go down and up.   *)
(* lhttp_pool_api is the same program for http servers.                    *)
(***************************************************************************)
EXTENDS Naturals, Sequences

CONSTANTS
  Name, Addr,   \* names of pools, host:port of servers
  Req,          \* requests (coroutines) served by the worker at a time
  Config,       \* [Name -> Pool]: link.lua
  NewAddr,      \* the addresses that add_to_pool is called with
  RedisRecnt,   \* MAX_RECNT
  RedisTrouble, \* what servers and network may do: down, lost, refused
  NoMemb, Raised   \* a fetch that returns nil, a fetch that raises an error

\* The ways a name is configured: not at all; as one host and port without a
\* hash; with the hash "customer" or "consistent"; with "appoint", where every
\* member has a mark and none has a number.
Pool == [kind : {"none", "single", "hash", "appoint"}, list : Seq(Addr)]
NoPool == [kind |-> "none", list |-> <<>>]
Single(a) == [kind |-> "single", list |-> <<a>>]
Members(p) == {p.list[i] : i \in DOMAIN p.list}
Configured == UNION {Members(Config[n]) : n \in Name}

ASSUME RedisPoolAssumption ==
  /\ Config \in [Name -> Pool] /\ NewAddr \subseteq Addr
  /\ RedisRecnt \in Nat \ {0}
  /\ RedisTrouble \subseteq {"down", "lost", "refused"}
  /\ NoMemb \notin Addr /\ Raised \notin Addr

VARIABLES
  up,        \* the servers that accept connections
  list,      \* APP_LINK_REDIS_LIST
  pools,     \* OWN_REDIS_POOLS
  queues,    \* OWN_SKTCT_POOLS: the addresses that have a (then empty) queue
  at, memb, rounds, stats,   \* redis_cmd_use_pool of each request
  effects,   \* how often its command has taken effect
  faults,    \* rounds of it that failed because of a server or the network
  answers

request == <<at, memb, rounds, stats, effects, faults, answers>>
redisVars == <<up, list, pools, queues, request>>

RedisTypeOK ==
  /\ up \subseteq Addr /\ queues \subseteq Addr
  /\ list \in [Name -> Pool] /\ pools \in [Name -> Pool]
  /\ at \in [Req -> {"idle", "pull", "execute", "round"}]
  /\ memb \in [Req -> Addr \cup {NoMemb}]
  /\ rounds \in [Req -> 0 .. RedisRecnt] /\ stats \in [Req -> BOOLEAN]
  /\ effects \in [Req -> 0 .. RedisRecnt] /\ faults \in [Req -> 0 .. RedisRecnt]
  /\ answers \in [Req -> {"none", "ok", "fail", "nopool", "error"}]

\* init: every configured member gets a queue, whether it can be reached or not.
RedisInit ==
  /\ up \in (IF "down" \in RedisTrouble THEN SUBSET Addr ELSE {Addr})
  /\ list = Config /\ pools = Config
  /\ queues = Configured
  /\ at = [r \in Req |-> "idle"] /\ memb = [r \in Req |-> NoMemb]
  /\ rounds = [r \in Req |-> 0] /\ stats = [r \in Req |-> FALSE]
  /\ effects = [r \in Req |-> 0] /\ faults = [r \in Req |-> 0]
  /\ answers = [r \in Req |-> "none"]

-----------------------------------------------------------------------------
Toggle(a) ==
  /\ "down" \in RedisTrouble
  /\ up' = IF a \in up THEN up \ {a} ELSE up \cup {a}
  /\ UNCHANGED <<list, pools, queues, request>>

\* A pool that exists is left as it is, whatever its address. A new one has no
\* hash, and its address gets no queue.
AddToPool(n, a) ==
  /\ list' = [list EXCEPT ![n] = IF @ = NoPool THEN Single(a) ELSE @]
  /\ pools' = [pools EXCEPT ![n] =
       IF @ # NoPool THEN @
       ELSE IF list'[n].kind = "single" THEN list'[n]
       ELSE [kind |-> "single", list |-> <<>>]]
  /\ UNCHANGED <<up, queues, request>>

DelFromPool(n) ==
  /\ pools[n] # NoPool
  /\ pools' = [pools EXCEPT ![n] = NoPool]
  /\ list' = [list EXCEPT ![n] = NoPool]
  /\ UNCHANGED <<up, queues, request>>

Answer(r, result) ==
  /\ answers' = [answers EXCEPT ![r] = result]
  /\ at' = [at EXCEPT ![r] = "idle"]

\* What a table of members answers to #list: marks are not counted.
Els(p) == IF p.kind = "appoint" THEN 0 ELSE Len(p.list)

only_fetch_pool(p) == {IF Els(p) = 0 THEN NoMemb ELSE p.list[1]}

\* Without a key there is no member; which one a key has is left open.
hash_fetch_pool(p) ==
  {NoMemb} \cup (IF Els(p) = 0 THEN {} ELSE IF Els(p) = 1 THEN {p.list[1]} ELSE Members(p))

\* Whatever the size of the pool, its hash is called: an error where it has none.
\* No key, or an unknown mark, has no member.
just_fetch_pool(p) ==
  IF p.kind = "single" THEN {Raised} ELSE {NoMemb} \cup Members(p)

Fetched(p) == only_fetch_pool(p) \cup hash_fetch_pool(p) \cup just_fetch_pool(p)

\* only_cmd, hash_cmd, just_cmd: one member of the pool is fetched, and all
\* rounds go to that member.
RedisCall(r, n) ==
  /\ at[r] = "idle"
  /\ rounds' = [rounds EXCEPT ![r] = 0] /\ stats' = [stats EXCEPT ![r] = FALSE]
  /\ effects' = [effects EXCEPT ![r] = 0] /\ faults' = [faults EXCEPT ![r] = 0]
  /\ \E m \in Fetched(pools[n]) :
       \/ m = NoMemb /\ Answer(r, "nopool") /\ UNCHANGED memb
       \/ m = Raised /\ Answer(r, "error") /\ UNCHANGED memb
       \/ /\ m \in Addr
          /\ memb' = [memb EXCEPT ![r] = m]
          /\ at' = [at EXCEPT ![r] = "pull"]
          /\ answers' = [answers EXCEPT ![r] = "none"]
  /\ UNCHANGED <<up, list, pools, queues>>

Fault(r) == faults' = [faults EXCEPT ![r] = @ + 1]

\* The queue gives no socket, so one is connected.  Without a queue, pull is
\* called on nil: an error that ends the command.
Pull(r) ==
  /\ at[r] = "pull"
  /\ \/ memb[r] \notin queues /\ Answer(r, "fail") /\ UNCHANGED faults
     \/ /\ memb[r] \in queues /\ UNCHANGED answers
        /\ IF memb[r] \in up
           THEN at' = [at EXCEPT ![r] = "execute"] /\ UNCHANGED faults
           ELSE at' = [at EXCEPT ![r] = "round"] /\ Fault(r)
  /\ UNCHANGED <<up, list, pools, queues, memb, rounds, stats, effects>>

\* The command gets a reply; or an error reply; or the connection breaks before
\* or after the server executed it.
RedisExecute(r) ==
  /\ at[r] = "execute"
  /\ at' = [at EXCEPT ![r] = "round"]
  /\ \/ /\ memb[r] \in up
        /\ stats' = [stats EXCEPT ![r] = TRUE]
        /\ effects' = [effects EXCEPT ![r] = @ + 1] /\ UNCHANGED faults
     \/ /\ memb[r] \notin up \/ "refused" \in RedisTrouble
        /\ Fault(r) /\ UNCHANGED <<stats, effects>>
     \/ /\ "lost" \in RedisTrouble
        /\ effects' = [effects EXCEPT ![r] = @ + 1]
        /\ Fault(r) /\ UNCHANGED stats
  /\ UNCHANGED <<up, list, pools, queues, memb, rounds, answers>>

\* Slip for Round: the bound is looked at first, as mysql_cmd does.
RedisRoundBoundFirst(r) ==
  /\ at[r] = "round"
  /\ rounds' = [rounds EXCEPT ![r] = @ + 1]
  /\ \/ rounds[r] + 1 >= RedisRecnt /\ Answer(r, "fail")
     \/ /\ rounds[r] + 1 < RedisRecnt
        /\ \/ stats[r] /\ Answer(r, "ok")
           \/ ~stats[r] /\ at' = [at EXCEPT ![r] = "pull"] /\ UNCHANGED answers
  /\ UNCHANGED <<up, list, pools, queues, memb, stats, effects, faults>>

\* Slip for Round: the last round is left as if it had gone well.
RedisRoundFallsThrough(r) ==
  /\ at[r] = "round"
  /\ rounds' = [rounds EXCEPT ![r] = @ + 1]
  /\ \/ stats[r] \/ rounds[r] + 1 >= RedisRecnt
     \/ ~stats[r] /\ rounds[r] + 1 < RedisRecnt
  /\ IF stats[r] \/ rounds[r] + 1 >= RedisRecnt THEN Answer(r, "ok")
     ELSE at' = [at EXCEPT ![r] = "pull"] /\ UNCHANGED answers
  /\ UNCHANGED <<up, list, pools, queues, memb, stats, effects, faults>>

\* Slip for Round: rounds without a connection are not counted.
RedisRoundUncounted(r) ==
  /\ at[r] = "round"
  /\ \/ stats[r] /\ Answer(r, "ok")
     \/ ~stats[r] /\ at' = [at EXCEPT ![r] = "pull"] /\ UNCHANGED answers
  /\ UNCHANGED <<up, list, pools, queues, memb, rounds, stats, effects>>
  /\ faults' = [faults EXCEPT ![r] = IF @ = RedisRecnt THEN 0 ELSE @]

RedisRound(r) ==
  /\ at[r] = "round"
  /\ rounds' = [rounds EXCEPT ![r] = @ + 1]
  /\ \/ stats[r] /\ Answer(r, "ok")
     \/ ~stats[r] /\ rounds[r] + 1 >= RedisRecnt /\ Answer(r, "fail")
     \/ /\ ~stats[r] /\ rounds[r] + 1 < RedisRecnt
        /\ at' = [at EXCEPT ![r] = "pull"] /\ UNCHANGED answers
  /\ UNCHANGED <<up, list, pools, queues, memb, stats, effects, faults>>

RedisWorking(r) == Pull(r) \/ RedisExecute(r) \/ RedisRound(r)

RedisNext ==
  \/ \E a \in Addr : Toggle(a)
  \/ \E n \in Name, a \in NewAddr : AddToPool(n, a)
  \/ \E n \in Name : DelFromPool(n)
  \/ \E r \in Req : RedisWorking(r) \/ \E n \in Name : RedisCall(r, n)

\* The event loop resumes every coroutine whose socket answers or times out.
RedisSpec == RedisInit /\ [][RedisNext]_redisVars /\ \A r \in Req : WF_redisVars(RedisWorking(r))

-----------------------------------------------------------------------------
(* Properties.                                                             *)

\* A command that reports success was executed in its last round, and in
\* earlier ones only where the reply was lost: the number of executions is
\* explained by the failures the caller never hears of.
OkExplains ==
  \A r \in Req : answers[r] = "ok" =>
    effects[r] >= 1 /\ effects[r] <= faults[r] + 1 /\ faults[r] < RedisRecnt

\* A command that was sent to a member fails only if every one of its rounds met
\* a server or network failure, whatever is added to and deleted from the pools
\* meanwhile, or if that member is none of the configuration: such a one has no
\* queue. (A name without a member is answered false without a round.)
FailureNeedsFaults ==
  \A r \in Req : answers[r] = "fail" => faults[r] = RedisRecnt \/ memb[r] \notin Configured

\* add_to_pool is there "to add a new tsdb connection to the redis connection
\* pool" (redis_pool_api.lua:441-444): a command on such a pool as well fails
\* only if every one of its rounds met a failure.
AddedPoolsServe ==
  \A r \in Req : answers[r] = "fail" => faults[r] = RedisRecnt

\* Every command ends, even while its pool is deleted and its server is away.
PoolCommandsEnd == \A r \in Req : at[r] # "idle" ~> at[r] = "idle"
=============================================================================
