--------------------------- MODULE RedisPoolProofs ---------------------------
(***************************************************************************)
(* Proofs about RedisPool, for any pools, members, requests and number of  *)
(* rounds: what the answer of a command says of the servers.               *)
(***************************************************************************)
EXTENDS RedisPool, TLAPS

-----------------------------------------------------------------------------
(* The types.                                                              *)

\* What a round may find: the counters have room for it.
Room(r) ==
  /\ at[r] \in {"pull", "execute"} =>
       rounds[r] < RedisRecnt /\ ~stats[r] /\ faults[r] = rounds[r] /\ effects[r] <= faults[r]
  /\ at[r] = "round" =>
       /\ rounds[r] < RedisRecnt
       /\ stats[r] => faults[r] = rounds[r] /\ 1 <= effects[r] /\ effects[r] <= rounds[r] + 1
       /\ ~stats[r] => faults[r] = rounds[r] + 1 /\ effects[r] <= faults[r]

\* What an answer says.
Says(r) ==
  /\ answers[r] = "ok" =>
       effects[r] >= 1 /\ effects[r] <= faults[r] + 1 /\ faults[r] < RedisRecnt
  /\ at[r] # "idle" => answers[r] = "none"

TInv == RedisTypeOK /\ \A r \in Req : Room(r) /\ Says(r)

\* The queues are those of init: only the servers of the configuration have one,
\* and on these only servers and network make a command fail.
Served ==
  /\ queues = Configured
  /\ FailureNeedsFaults

-----------------------------------------------------------------------------
\* One request of its own: the others keep all that TInv says of them.
Others(r) ==
  \A q \in Req \ {r} :
    /\ at'[q] = at[q] /\ memb'[q] = memb[q] /\ rounds'[q] = rounds[q]
    /\ stats'[q] = stats[q] /\ effects'[q] = effects[q]
    /\ faults'[q] = faults[q] /\ answers'[q] = answers[q]

LEMMA MembersType ==
  ASSUME NEW p \in Pool
  PROVE  Members(p) \subseteq Addr
  <1>1. p.list \in Seq(Addr)
    BY DEF Pool
  <1> QED BY <1>1 DEF Members

LEMMA InitTInv == RedisInit => TInv
  <1>1. Configured \subseteq Addr
    BY MembersType, RedisPoolAssumption DEF Configured
  <1> QED BY <1>1, RedisPoolAssumption DEF RedisInit, TInv, RedisTypeOK, Room, Says

LEMMA OthersKeep ==
  ASSUME TInv, NEW r \in Req, Others(r), RedisTypeOK', Room(r)', Says(r)'
  PROVE  TInv'
  <1>1. ASSUME NEW q \in Req \ {r} PROVE Room(q)' /\ Says(q)'
    <2>1. /\ at'[q] = at[q] /\ rounds'[q] = rounds[q] /\ stats'[q] = stats[q]
          /\ effects'[q] = effects[q] /\ faults'[q] = faults[q] /\ answers'[q] = answers[q]
      BY <1>1 DEF Others
    <2>2. Room(q) /\ Says(q)
      BY <1>1 DEF TInv
    <2>3. Room(q)'
      BY <2>1, <2>2 DEF Room
    <2>4. Says(q)'
      BY <2>1, <2>2 DEF Says
    <2> QED BY <2>3, <2>4
  <1> QED BY <1>1 DEF TInv

LEMMA CallTInv ==
  ASSUME TInv, NEW r \in Req, NEW n \in Name, RedisCall(r, n)
  PROVE  TInv'
  <1>1. Others(r)
    BY DEF RedisCall, Answer, Others, TInv, RedisTypeOK
  <1>2. RedisTypeOK'
    BY RedisPoolAssumption DEF RedisCall, Answer, TInv, RedisTypeOK
  <1>3. Room(r)' /\ Says(r)'
    BY RedisPoolAssumption DEF RedisCall, Answer, TInv, RedisTypeOK, Room, Says
  <1> QED BY <1>1, <1>2, <1>3, OthersKeep

LEMMA PullTInv ==
  ASSUME TInv, NEW r \in Req, Pull(r)
  PROVE  TInv'
  <1> USE RedisPoolAssumption
  <1>0. Room(r) /\ Says(r) /\ RedisTypeOK /\ at[r] = "pull"
    BY DEF TInv, Pull
  <1>1. Others(r)
    BY <1>0 DEF Pull, Answer, Fault, Others, RedisTypeOK
  <1>2. RedisTypeOK'
    <2>1. faults' \in [Req -> 0 .. RedisRecnt]
      BY <1>0 DEF Pull, Answer, Fault, RedisTypeOK, Room
    <2>2. answers' \in [Req -> {"none", "ok", "fail", "nopool", "error"}]
      BY <1>0 DEF Pull, Answer, RedisTypeOK
    <2>3. at' \in [Req -> {"idle", "pull", "execute", "round"}]
      BY <1>0 DEF Pull, Answer, RedisTypeOK
    <2> QED BY <1>0, <2>1, <2>2, <2>3 DEF Pull, RedisTypeOK
  <1>3. Room(r)'
    BY <1>0 DEF Pull, Answer, Fault, RedisTypeOK, Room
  <1>4. Says(r)'
    BY <1>0 DEF Pull, Answer, Fault, RedisTypeOK, Says
  <1> QED BY <1>1, <1>2, <1>3, <1>4, OthersKeep

LEMMA ExecuteTInv ==
  ASSUME TInv, NEW r \in Req, RedisExecute(r)
  PROVE  TInv'
  <1> USE RedisPoolAssumption
  <1>0. Room(r) /\ Says(r) /\ RedisTypeOK /\ at[r] = "execute"
    BY DEF TInv, RedisExecute
  <1>1. Others(r)
    BY <1>0 DEF RedisExecute, Fault, Others, RedisTypeOK
  <1>2. RedisTypeOK'
    <2>1. faults' \in [Req -> 0 .. RedisRecnt]
      BY <1>0 DEF RedisExecute, Fault, RedisTypeOK, Room
    <2>2. effects' \in [Req -> 0 .. RedisRecnt]
      BY <1>0 DEF RedisExecute, RedisTypeOK, Room
    <2>3. at' \in [Req -> {"idle", "pull", "execute", "round"}] /\ stats' \in [Req -> BOOLEAN]
      BY <1>0 DEF RedisExecute, RedisTypeOK
    <2> QED BY <1>0, <2>1, <2>2, <2>3 DEF RedisExecute, RedisTypeOK
  <1>3. Room(r)'
    BY <1>0 DEF RedisExecute, Fault, RedisTypeOK, Room
  <1>4. Says(r)'
    BY <1>0 DEF RedisExecute, Fault, RedisTypeOK, Says
  <1> QED BY <1>1, <1>2, <1>3, <1>4, OthersKeep

LEMMA RoundTInv ==
  ASSUME TInv, NEW r \in Req, RedisRound(r)
  PROVE  TInv'
  <1> USE RedisPoolAssumption
  <1>0. Room(r) /\ Says(r) /\ RedisTypeOK /\ at[r] = "round"
    BY DEF TInv, RedisRound
  <1>1. Others(r)
    BY <1>0 DEF RedisRound, Answer, Others, RedisTypeOK
  <1>2. RedisTypeOK'
    BY <1>0 DEF RedisRound, Answer, RedisTypeOK, Room
  <1>3. Room(r)'
    BY <1>0 DEF RedisRound, Answer, RedisTypeOK, Room
  <1>4. Says(r)'
    BY <1>0 DEF RedisRound, Answer, RedisTypeOK, Room, Says
  <1> QED BY <1>1, <1>2, <1>3, <1>4, OthersKeep

LEMMA StepTInv == TInv /\ [RedisNext]_redisVars => TInv'
  <1> SUFFICES ASSUME TInv, [RedisNext]_redisVars PROVE TInv'
    OBVIOUS
  <1>1. ASSUME UNCHANGED request, RedisTypeOK' PROVE TInv'
    BY <1>1 DEF TInv, request, Room, Says
  <1>2. ASSUME NEW a \in Addr, Toggle(a) PROVE TInv'
    BY <1>1, <1>2 DEF Toggle, TInv, RedisTypeOK, request
  <1>3. ASSUME NEW n \in Name, NEW a \in NewAddr, AddToPool(n, a) PROVE TInv'
    <2>1. Single(a) \in Pool /\ [kind |-> "single", list |-> <<>>] \in Pool
      BY RedisPoolAssumption DEF Single, Pool
    <2>2. list' \in [Name -> Pool]
      BY <1>3, <2>1 DEF AddToPool, TInv, RedisTypeOK
    <2>3. pools' \in [Name -> Pool]
      BY <1>3, <2>1, <2>2 DEF AddToPool, TInv, RedisTypeOK
    <2> QED BY <1>1, <1>3, <2>2, <2>3 DEF AddToPool, TInv, RedisTypeOK, request
  <1>4. ASSUME NEW n \in Name, DelFromPool(n) PROVE TInv'
    <2>1. NoPool \in Pool
      BY DEF NoPool, Pool
    <2> QED BY <1>1, <1>4, <2>1 DEF DelFromPool, TInv, RedisTypeOK, request
  <1>5. CASE UNCHANGED redisVars
    BY <1>1, <1>5 DEF redisVars, request, TInv, RedisTypeOK
  <1> QED
    BY <1>2, <1>3, <1>4, <1>5, CallTInv, PullTInv, ExecuteTInv, RoundTInv DEF RedisNext, RedisWorking

LEMMA Typed == RedisSpec => []TInv
  BY InitTInv, StepTInv, PTL DEF RedisSpec

\* The counters stay within MAX_RECNT rounds, whatever the servers do.
THEOREM TypeCorrect == RedisSpec => []RedisTypeOK
  <1>1. TInv => RedisTypeOK
    BY DEF TInv
  <1> QED BY Typed, <1>1, PTL

\* A command that reports success was executed, and every execution beyond the
\* first is explained by a round whose reply was lost.
THEOREM SuccessIsExplained == RedisSpec => []OkExplains
  <1>1. TInv => OkExplains
    BY DEF TInv, Says, OkExplains
  <1> QED BY Typed, <1>1, PTL

-----------------------------------------------------------------------------
LEMMA InitServed == RedisInit => Served
  BY DEF RedisInit, Served, FailureNeedsFaults

LEMMA StepServed == TInv /\ Served /\ [RedisNext]_redisVars => Served'
  <1> SUFFICES ASSUME TInv, Served, [RedisNext]_redisVars PROVE Served'
    OBVIOUS
  <1> USE RedisPoolAssumption DEF FailureNeedsFaults
  <1>1. ASSUME NEW a \in Addr, Toggle(a) PROVE Served'
    BY <1>1 DEF Toggle, Served, request
  <1>2. ASSUME NEW n \in Name, NEW a \in NewAddr, AddToPool(n, a) PROVE Served'
    BY <1>2 DEF AddToPool, Served, request
  <1>3. ASSUME NEW n \in Name, DelFromPool(n) PROVE Served'
    BY <1>3 DEF DelFromPool, Served, request
  <1>4. ASSUME NEW r \in Req, NEW n \in Name, RedisCall(r, n) PROVE Served'
    BY <1>4 DEF RedisCall, Answer, Served, TInv, RedisTypeOK
  <1>5. ASSUME NEW r \in Req, Pull(r) PROVE Served'
    BY <1>5 DEF Pull, Fault, Answer, Served, TInv, RedisTypeOK, Says
  <1>6. ASSUME NEW r \in Req, RedisExecute(r) PROVE Served'
    <2>1. answers[r] = "none"
      BY <1>6 DEF RedisExecute, TInv, Says
    <2> QED BY <1>6, <2>1 DEF RedisExecute, Fault, Served, TInv, RedisTypeOK
  <1>7. ASSUME NEW r \in Req, RedisRound(r) PROVE Served'
    <2>1. Room(r) /\ rounds[r] \in Nat
      BY DEF TInv, RedisTypeOK
    <2>2. answers'[r] = "fail" => faults[r] = RedisRecnt
      BY <1>7, <2>1 DEF RedisRound, Answer, Room, TInv, RedisTypeOK, Says
    <2> QED BY <1>7, <2>2 DEF RedisRound, Answer, Served, TInv, RedisTypeOK
  <1>8. CASE UNCHANGED redisVars
    BY <1>8 DEF redisVars, request, Served
  <1> QED
    BY <1>1, <1>2, <1>3, <1>4, <1>5, <1>6, <1>7, <1>8 DEF RedisNext, RedisWorking

\* A command that was sent to a server of the configuration fails only if each
\* of its rounds met a server or network failure, however pools are added and
\* deleted meanwhile.
THEOREM OnlyFaultsFail == RedisSpec => []FailureNeedsFaults
  <1>1. Served => FailureNeedsFaults
    BY DEF Served
  <1> QED BY InitServed, StepServed, Typed, <1>1, PTL DEF RedisSpec
=============================================================================
