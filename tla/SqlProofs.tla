------------------------------- MODULE SqlProofs ------------------------------
(* Proofs about what sends SQL. MysqlPool, for any number of rounds and    *)
(* attempts: what the answer of a command says of the database. LuaSql,    *)
(* for every driver and any number of objects: its five invariants.        *)
EXTENDS MysqlPool, LuaSql, FiniteSetTheorems, TLAPS

-----------------------------------------------------------------------------
(* mysql_pool_api                                                          *)

\* Until a round executes the statement nothing has been applied, and only a
\* round that raised an error is followed by another.
Rounds ==
  /\ pc \in {"connect", "execute", "flush"} => applied = 0 /\ ~stat /\ ~ret
  /\ pc = "round" => /\ ~stat => applied = 0
                     /\ ret => stat /\ applied = 1
  /\ pc = "idle" => (answer = "ok" => applied = 1)
  /\ pc # "idle" => answer = "none"
  /\ applied \in {0, 1}

\* The parts of the type invariant that Rounds rests on.
LocalTypes ==
  /\ pc \in {"idle", "connect", "execute", "flush", "round"}
  /\ stat \in BOOLEAN /\ ret \in BOOLEAN /\ conn \in BOOLEAN
  /\ answer \in {"none", "ok", "fail"}

Inv == LocalTypes /\ Rounds

LEMMA InitInv == Init => Inv
  BY DEF Init, Inv, LocalTypes, Rounds

LEMMA StepInv == Inv /\ [Next]_vars => Inv'
  <1> SUFFICES ASSUME Inv, [Next]_vars PROVE Inv'
    OBVIOUS
  <1> USE DEF Inv, LocalTypes, Rounds
  <1>1. CASE Down
    BY <1>1 DEF Down, locals
  <1>2. CASE Up
    BY <1>2 DEF Up, locals
  <1>3. CASE Break
    BY <1>3 DEF Break, locals
  <1>4. CASE Call
    BY <1>4 DEF Call
  <1>5. CASE Connect
    <2>1. UNCHANGED <<stat, ret, applied>> /\ pc = "connect"
      BY <1>5 DEF Connect
    <2>2. ASSUME NEW ok \in BOOLEAN, Connected(ok) PROVE Inv'
      <3>1. /\ pc' \in {"idle", "execute", "round"}
            /\ conn' \in BOOLEAN
            /\ answer' = answer \/ (answer' = "fail" /\ pc' = "idle")
            /\ pc' = "idle" => answer' = "fail"
        BY <2>2 DEF Connected, Return
      <3> QED BY <2>1, <3>1
    <2>3. CASE UNCHANGED <<pc, answer, conn>>
      BY <2>1, <2>3
    <2>4. (nb + 1 < MaxRecnt) \in BOOLEAN
      OBVIOUS
    <2> QED BY <1>5, <2>2, <2>3, <2>4 DEF Connect
  <1>6. CASE Execute
    <2>1. CASE conn /\ ExecuteRaises
      BY <1>6, <2>1 DEF Execute, ExecuteRaises
    <2>2. CASE conn /\ ExecuteNil
      <3>1. stat' = TRUE /\ ret' = FALSE /\ pc' = "round" /\ conn' = conn /\ answer' = answer
        BY <1>6, <2>2 DEF Execute, ExecuteNil
      <3>2. applied' \in {0, 1} /\ answer = "none"
        BY <1>6, <2>2 DEF Execute, ExecuteNil
      <3> QED BY <3>1, <3>2
    <2>3. CASE conn /\ ExecuteOk
      BY <1>6, <2>3 DEF Execute, ExecuteOk
    <2>4. CASE ~conn
      BY <1>6, <2>4 DEF Execute
    <2> QED BY <1>6, <2>1, <2>2, <2>3, <2>4 DEF Execute
  <1>7. CASE Flush
    BY <1>7 DEF Flush
  <1>8. CASE Round
    BY <1>8 DEF Round, Return
  <1>9. CASE UNCHANGED vars
    BY <1>9 DEF vars
  <1> QED
    BY <1>1, <1>2, <1>3, <1>4, <1>5, <1>6, <1>7, <1>8, <1>9 DEF Next, Working

LEMMA Invariant == Spec => []Inv
  BY InitInv, StepInv, PTL DEF Spec

\* Whatever the number of rounds: a statement takes effect at most once.
THEOREM NoStatementTwice == Spec => []AtMostOnce
  <1>1. Inv => AtMostOnce
    BY DEF Inv, Rounds, AtMostOnce
  <1> QED BY Invariant, <1>1, PTL

\* A command that reports success has executed its statement.
THEOREM SuccessIsTrue == Spec => []OkMeansApplied
  <1>1. Inv => OkMeansApplied
    BY DEF Inv, LocalTypes, Rounds, OkMeansApplied
  <1> QED BY Invariant, <1>1, PTL

-----------------------------------------------------------------------------
(* Counting. A round or an attempt that is begun is below the bound; every *)
(* round that is repeated, and every attempt, is the trace of an incident. *)

Counts ==
  /\ server \in BOOLEAN /\ pool \in {"none", "live", "broken"}
  /\ caller \in {"fetch", "flush"}
  /\ nb \in 0 .. MaxRecnt /\ index \in 0 .. MaxRecnt
  /\ pc = "connect" => nb < MaxRecnt /\ (caller = "fetch" => index = 0)
  /\ pc # "idle" => index < MaxRecnt

\* n incidents are on record, as far as the record goes.
Met(n) == strikes = 2 \/ strikes >= n

Incidents ==
  /\ strikes \in 0 .. 2
  /\ ~conn => strikes = 2
  /\ pc = "connect" => Met(nb) /\ (caller = "flush" => Met(index + 1))
  /\ pc = "execute" => Met(index)
  /\ pc = "flush" => Met(index + 1)
  /\ pc = "round" => Met(index) /\ (~stat => Met(index + 1)) /\ (stat /\ ~ret => strikes = 2)
  /\ answer = "fail" => strikes = 2

LEMMA InitCounts == Init => Counts
  BY MysqlPoolAssumption DEF Init, Counts

LEMMA StepCounts == Inv /\ Counts /\ [Next]_vars => Counts'
  <1> SUFFICES ASSUME Inv, Counts, [Next]_vars PROVE Counts'
    OBVIOUS
  <1> USE MysqlPoolAssumption DEF Counts, locals
  <1>1. CASE Down \/ Up \/ Break
    BY <1>1 DEF Down, Up, Break
  <1>2. CASE Call
    BY <1>2 DEF Call
  <1>3. CASE Connect
    <2>1. nb' = nb + 1 /\ nb' <= MaxRecnt /\ pool' \in {"none", "live"}
      BY <1>3 DEF Connect
    <2>2. UNCHANGED <<server, caller, index>> /\ pc = "connect"
      BY <1>3 DEF Connect
    <2>3. pc' = "connect" => nb' < MaxRecnt
      BY <1>3 DEF Connect, Connected, Return
    <2> QED BY <2>1, <2>2, <2>3
  <1>4. CASE Execute
    BY <1>4 DEF Execute, ExecuteRaises, ExecuteNil, ExecuteOk
  <1>5. CASE Flush
    BY <1>5 DEF Flush
  <1>6. CASE Round
    BY <1>6 DEF Round, Return
  <1>7. CASE UNCHANGED vars
    BY <1>7 DEF vars
  <1> QED BY <1>1, <1>2, <1>3, <1>4, <1>5, <1>6, <1>7 DEF Next, Working

LEMMA InitIncidents == Init => Incidents
  BY DEF Init, Incidents, Met

LEMMA StepIncidents ==
  MaxRecnt >= 3 /\ Inv /\ Counts /\ Incidents /\ [Next]_vars => Incidents'
  <1> SUFFICES ASSUME MaxRecnt >= 3, Inv, Counts, Incidents, [Next]_vars PROVE Incidents'
    OBVIOUS
  <1> USE MysqlPoolAssumption DEF Incidents, Met, Inv, LocalTypes, Counts
  <1>1. CASE Down \/ Up \/ Break
    BY <1>1 DEF Down, Up, Break, locals
  <1>2. CASE Call
    BY <1>2 DEF Call
  <1>3. CASE Connect
    <2>1. /\ nb' = nb + 1 /\ UNCHANGED <<caller, stat, ret, index>>
          /\ pc = "connect" /\ answer = "none"
      BY <1>3 DEF Connect, Rounds
    <2>2. strikes' \in 0 .. 2 /\ strikes' >= strikes /\ (~server => Met(nb)')
      BY <1>3, <2>1 DEF Connect, Strike
    <2>3. CASE nb + 1 < MaxRecnt /\ server
      <3>1. Connected(TRUE)
        BY <1>3, <2>3 DEF Connect
      <3> QED BY <2>1, <2>2, <3>1 DEF Connected, Return, Rounds
    <2>4. CASE nb + 1 >= MaxRecnt
      <3>1. strikes' = 2
        BY <2>1, <2>2, <2>4
      <3>2. Connected(nb + 1 < MaxRecnt) /\ ~(nb + 1 < MaxRecnt)
        BY <1>3, <2>4 DEF Connect
      <3>3. pc' \in {"idle", "round"}
        BY <3>2 DEF Connected, Return
      <3> QED BY <2>1, <3>1, <3>3
    <2>5. CASE nb + 1 < MaxRecnt /\ ~server
      BY <1>3, <2>1, <2>2, <2>5 DEF Connect
    <2> QED BY <2>3, <2>4, <2>5
  <1>4. CASE Execute
    BY <1>4 DEF Execute, ExecuteRaises, ExecuteNil, ExecuteOk, Strike, Rounds
  <1>5. CASE Flush
    BY <1>5 DEF Flush
  <1>6. CASE Round
    BY <1>6 DEF Round, Return, Rounds
  <1>7. CASE UNCHANGED vars
    BY <1>7 DEF vars
  <1> QED BY <1>1, <1>2, <1>3, <1>4, <1>5, <1>6, <1>7 DEF Next, Working

\* Every variable has its type: rounds and attempts stay within MAX_RECNT.
\* (The record of incidents is capped by construction.)
THEOREM TypeCorrect == Spec => []TypeOK
  <1>1. Init => strikes \in 0 .. 2
    BY DEF Init
  <1>2. strikes \in 0 .. 2 /\ [Next]_vars => (strikes \in 0 .. 2)'
    BY DEF Next, Working, Down, Up, Break, Call, Connect, Execute, ExecuteRaises, ExecuteNil,
           ExecuteOk, Flush, Round, Strike, vars
  <1>3. Inv /\ Counts /\ strikes \in 0 .. 2 => TypeOK
    BY MysqlPoolAssumption DEF Inv, LocalTypes, Rounds, Counts, TypeOK
  <1> QED BY Invariant, InitCounts, StepCounts, <1>1, <1>2, <1>3, PTL DEF Spec

\* With three rounds or more, as in the code, one incident is never enough for
\* a command to fail.
THEOREM OneIncidentIsHidden == ASSUME MaxRecnt >= 3 PROVE Spec => []OneIncidentIsMasked
  <1>1. Inv /\ Counts /\ Incidents /\ [Next]_vars => Incidents'
    BY StepIncidents
  <1>2. Incidents => OneIncidentIsMasked
    BY DEF Incidents, OneIncidentIsMasked
  <1> QED BY Invariant, InitCounts, StepCounts, InitIncidents, <1>1, <1>2, PTL DEF Spec

-----------------------------------------------------------------------------
(* LuaSQL. The invariant has two parts. SqlIInv is about the objects: what *)
(* the fields of one userdata may be together, that every counter is the   *)
(* number of the open children or is known to be stuck, that open objects  *)
(* stand on objects that exist, and whom the registry holds. It is stated  *)
(* of a table f of userdata, so that it can be asked of a table half       *)
(* changed. TxInv is about transactions. Every change of a table by a      *)
(* driver is one of three kinds, an object made, an object that goes, and  *)
(* a change that counts do not see, and each kind keeps the first part     *)
(* whatever driver it is.                                                  *)

\* One userdata, and a table of them.
Userdata == [st: {"none", "open", "closed"}, up: Obj \cup {None}, lock: Int,
             native: {"none", "open", "freed", "null", "lost"}, stuck: BOOLEAN,
             numcols: Width, width: Width, more: Waiting, info: BOOLEAN,
             hidden: BOOLEAN, left: BOOLEAN]
Tables == [Obj -> Userdata]

\* Where the parent of x is; whether driver d keeps a count of children on p.
Above(d, x) ==
  IF x \in Env THEN {None} ELSE IF x \in Conn THEN Env
  ELSE IF x \in Cur /\ d = "odbc" THEN Stmt ELSE Conn
Tracks(d, p) == d \in Counting /\ (p \in Conn \cup Stmt \/ (p \in Env /\ d \in CountingEnv))

\* An open object that counts, and those that p is the parent of.
Real(d, r) == r.st = "open" /\ (r.native # "null" \/ d = "mysql")
RealOf(d, f, p) == {x \in Obj : f[x].up = p /\ Real(d, f[x])}

\* What the record of an empty place is known by.
Blank(r) == r.st = "none" /\ r.up = None /\ r.lock = 0 /\ r.native = "none" /\ ~r.stuck

\* Every place is empty, or has a parent of the right class.
Shape(d, f) ==
  /\ f \in Tables
  /\ \A x \in Obj : IF f[x].st = "none" THEN Blank(f[x]) ELSE f[x].up \in Above(d, x)

\* The drivers, and the objects, on which library handles can be left.
Leaky == {"sqlite3", "odbc"}
MayLeak(d, x) == d \in Leaky /\ x \in Env \cup Conn
LeftOver(d, r) == r.left /\ d \in Leaky

\* An open object has its handle; a closed one has it only with a handle left
\* on it.
Handles(d, f) ==
  \A x \in Obj :
    /\ x \notin Cur /\ f[x].st = "open" => f[x].native = "open"
    /\ f[x].st = "closed" /\ f[x].native = "open" => LeftOver(d, f[x]) \/ (d = "odbc" /\ x \in Cur)
    /\ f[x].st = "open" /\ f[x].native = "null" => d \in {"mysql", "firebird"}
    /\ f[x].st # "none" /\ f[x].left => MayLeak(d, x)

\* The counter of p is its number of open children, or above it when a failure
\* is on record.
Counted(d, f, p) ==
  LET n == Cardinality(RealOf(d, f, p))
  IN  n <= f[p].lock /\ (~f[p].stuck => f[p].lock = n)
Counters(d, f) ==
  \A p \in Obj : /\ f[p].lock <= MaxLock
                 /\ IF Tracks(d, p) /\ f[p].st # "none" THEN Counted(d, f, p) ELSE f[p].lock = 0

\* The statements of ODBC that can go before their cursor.
Astray(d, f, p) == d = "odbc" /\ p \in Stmt /\ (f[p].hidden \/ f[p].st = "none")

\* The parent of an open object exists, and is open where the driver counts.
Tree(d, f) ==
  \A x \in Obj \ Env : Real(d, f[x]) =>
    /\ f[f[x].up].st # "none" \/ (d = "odbc" /\ f[x].up \in Stmt)
    /\ Tracks(d, f[x].up) => f[f[x].up].st = "open" \/ Astray(d, f, f[x].up)
Sound(d, f) == Shape(d, f) /\ Handles(d, f) /\ Counters(d, f) /\ Tree(d, f)

\* What no step does to an object it is not about.
Leaves(d, y, s, r) == (r.left => s.left) /\ (s.left => r.left \/ MayLeak(d, y))
Keeps(d, y, s, r) ==
  s.st = r.st /\ s.up = r.up /\ s.hidden = r.hidden /\ s.native = r.native /\ Leaves(d, y, s, r)

\* x is made under p, and p counts it.
Making(d, f, g, x, p) ==
  /\ g \in Tables /\ x \in Obj /\ f[x].st = "none" /\ p \in Above(d, x)
  /\ \A y \in Obj : f[y].up # x
  /\ p # None => f[p].st = "open" /\ f[p].lock < MaxLock
  /\ g[x].st = "open" /\ g[x].up = p /\ g[x].lock = 0 /\ ~g[x].left
  /\ g[x].native = "open" \/ (g[x].native = "null" /\ x \in Cur /\ d = "firebird")
  /\ \A y \in Obj \ {x} :
       /\ Keeps(d, y, g[y], f[y]) /\ g[y].stuck = f[y].stuck
       /\ g[y].lock = IF y = p /\ Tracks(d, p) /\ Real(d, g[x]) THEN f[y].lock + 1 ELSE f[y].lock

\* The children of an object are finitely many, so they can be counted.
LEMMA RealFinite ==
  ASSUME NEW d, NEW f, NEW p PROVE IsFiniteSet(RealOf(d, f, p))
<1>1. RealOf(d, f, p) \subseteq Obj
  BY DEF RealOf
<1> QED BY <1>1, FS_Subset, Places

\* Making an object keeps the table sound.
LEMMA MakingIsSound ==
  ASSUME NEW d, NEW f, NEW g, NEW x, NEW p, Sound(d, f), Making(d, f, g, x, p)
  PROVE  Sound(d, g)
<1> f \in Tables /\ g \in Tables /\ x \in Obj
  BY DEF Sound, Shape, Making
<1>0. p # x /\ (p \in Obj => p \in Obj \ {x}) /\ p \in Obj \cup {None}
  BY Places DEF Making, Above, Obj
<1>1. Shape(d, g)
  <2> SUFFICES ASSUME NEW y \in Obj PROVE IF g[y].st = "none" THEN Blank(g[y]) ELSE g[y].up \in Above(d, y)
    BY DEF Shape
  <2>1. CASE y = x
    BY <2>1 DEF Making
  <2>2. CASE y # x
    <3>1. y # p \/ f[y].st = "open"
      BY Places DEF Making
    <3>2. f[y].st = "none" => g[y].lock = f[y].lock
      BY <2>2, <3>1 DEF Making
    <3> QED BY <2>2, <3>1, <3>2 DEF Making, Keeps, Sound, Shape, Blank
  <2> QED BY <2>1, <2>2
<1>2. Handles(d, g)
  BY DEF Making, Keeps, Leaves, Sound, Handles, LeftOver
<1>3. Counters(d, g)
  <2> SUFFICES ASSUME NEW y \in Obj
               PROVE  /\ g[y].lock <= MaxLock
                      /\ IF Tracks(d, y) /\ g[y].st # "none" THEN Counted(d, g, y) ELSE g[y].lock = 0
    BY DEF Counters
  <2>1. \A z \in Obj \ {x} : Real(d, g[z]) = Real(d, f[z]) /\ g[z].up = f[z].up
    BY DEF Making, Keeps, Real
  <2>2. ~Real(d, f[x]) /\ g[x].up = p
    BY DEF Making, Real
  <2>3. CASE y = x
    <3>1. RealOf(d, g, x) = {}
      BY <1>0, <2>1, <2>2 DEF RealOf, Making
    <3>2. g[x].lock = 0
      BY DEF Making
    <3> QED BY <2>3, <3>1, <3>2, FS_EmptySet, Places DEF Counted
  <2>4. CASE y # x /\ (y # p \/ ~Real(d, g[x]))
    <3>1. RealOf(d, g, y) = RealOf(d, f, y)
      BY <2>1, <2>2, <2>4 DEF RealOf
    <3>2. g[y].lock = f[y].lock /\ g[y].stuck = f[y].stuck /\ g[y].st = f[y].st
      BY <2>4 DEF Making, Keeps
    <3>3. Counted(d, f, y) => Counted(d, g, y)
      BY <3>1, <3>2 DEF Counted
    <3> QED BY <3>2, <3>3 DEF Sound, Counters
  <2>5. CASE y # x /\ y = p /\ Real(d, g[x])
    <3>1. RealOf(d, g, p) = RealOf(d, f, p) \cup {x} /\ x \notin RealOf(d, f, p)
      BY <2>1, <2>2, <2>5 DEF RealOf
    <3>2. Cardinality(RealOf(d, g, p)) = Cardinality(RealOf(d, f, p)) + 1
      BY <3>1, RealFinite, FS_AddElement
    <3>3. Cardinality(RealOf(d, f, p)) \in Nat
      BY RealFinite, FS_CardinalityType
    <3>4. /\ g[p].lock = IF Tracks(d, p) THEN f[p].lock + 1 ELSE f[p].lock
          /\ g[p].stuck = f[p].stuck /\ g[p].st = "open" /\ f[p].lock < MaxLock
      BY <1>0, <2>5, Places DEF Making, Keeps
    <3>5. f[p].lock \in Int /\ MaxLock \in Nat
      BY <2>5, Places DEF Tables, Userdata
    <3>6. CASE Tracks(d, p)
      <4>1. Counted(d, f, p)
        BY <1>0, <2>5, <3>6, Places DEF Sound, Counters, Making
      <4>2. Counted(d, g, p)
        BY <3>2, <3>3, <3>4, <3>5, <3>6, <4>1 DEF Counted
      <4>3. g[p].lock <= MaxLock
        BY <3>4, <3>5, <3>6
      <4> QED BY <2>5, <3>4, <3>6, <4>2, <4>3
    <3>7. CASE ~Tracks(d, p)
      <4>1. f[p].lock = 0 /\ f[p].lock <= MaxLock
        BY <2>5, <3>7 DEF Sound, Counters
      <4>2. g[p].lock = 0
        BY <3>4, <3>7, <4>1
      <4> QED BY <2>5, <3>7, <4>1, <4>2
    <3> QED BY <3>6, <3>7
  <2> QED BY <2>3, <2>4, <2>5
<1>4. Tree(d, g)
  <2> SUFFICES ASSUME NEW y \in Obj \ Env, Real(d, g[y])
               PROVE  /\ g[g[y].up].st # "none" \/ (d = "odbc" /\ g[y].up \in Stmt)
                      /\ Tracks(d, g[y].up) => g[g[y].up].st = "open" \/ Astray(d, g, g[y].up)
    BY DEF Tree
  <2>1. CASE y = x
    <3>1. p \in Obj \ {x} /\ f[p].st = "open" /\ g[y].up = p
      BY <1>0, <2>1, Places DEF Making, Above, Obj
    <3> QED BY <3>1 DEF Making, Keeps
  <2>2. CASE y # x
    <3>1. Real(d, f[y]) /\ g[y].up = f[y].up /\ f[y].up # x
      BY <2>2 DEF Making, Keeps, Real
    <3>2. f[y].up \in Obj \ {x}
      BY <3>1, Places DEF Sound, Shape, Above, Obj, Real
    <3>3. g[f[y].up].st = f[f[y].up].st /\ g[f[y].up].hidden = f[f[y].up].hidden
      BY <3>2 DEF Making, Keeps
    <3> QED BY <3>1, <3>3 DEF Sound, Tree, Astray
  <2> QED BY <2>1, <2>2
<1> QED BY <1>1, <1>2, <1>3, <1>4 DEF Sound

\* x is closed or collected; its parent gives the count back, or is stuck with
\* it.
Leaving(d, f, g, x) ==
  LET p == f[x].up
      counted == Real(d, f[x]) /\ Tracks(d, p) /\ f[p].st # "none"
  IN  /\ g \in Tables /\ x \in Obj /\ f[x].st # "none"
      /\ \/ Blank(g[x]) /\ (RealOf(d, f, x) = {} \/ (d = "odbc" /\ x \in Stmt))
         \/ /\ g[x].st = "closed" /\ g[x].up = p /\ g[x].lock = f[x].lock
            /\ g[x].stuck = f[x].stuck /\ g[x].hidden = f[x].hidden /\ (g[x].left => f[x].left \/ MayLeak(d, x))
            /\ g[x].native = "open" => LeftOver(d, g[x]) \/ (d = "odbc" /\ x \in Cur)
            /\ Tracks(d, x) => RealOf(d, f, x) = {} \/ (d = "odbc" /\ x \in Stmt /\ f[x].hidden)
      /\ \A y \in Obj \ {x} :
           Keeps(d, y, g[y], f[y]) /\ (y # p => g[y].lock = f[y].lock /\ g[y].stuck = f[y].stuck)
      /\ p \in Obj =>
           \/ counted /\ g[p].lock = f[p].lock - 1 /\ g[p].stuck = f[p].stuck
           \/ /\ g[p].lock = f[p].lock
              /\ g[p].stuck = f[p].stuck \/ (g[p].stuck /\ f[p].st # "none")
              /\ counted => g[p].stuck

\* Closing or collecting an object keeps the table sound.
LEMMA LeavingIsSound ==
  ASSUME NEW d, NEW f, NEW g, NEW x, Sound(d, f), Leaving(d, f, g, x)
  PROVE  Sound(d, g)
<1> DEFINE p == f[x].up
           counted == Real(d, f[x]) /\ Tracks(d, p) /\ f[p].st # "none"
<1>0. /\ f \in Tables /\ g \in Tables /\ x \in Obj
      /\ p \in Above(d, x) /\ p # x /\ p \in Obj \cup {None}
  BY Places DEF Sound, Shape, Leaving, Above, Obj
<1>1. \/ Blank(g[x]) /\ (RealOf(d, f, x) = {} \/ (d = "odbc" /\ x \in Stmt))
      \/ /\ g[x].st = "closed" /\ g[x].up = p /\ g[x].lock = f[x].lock
         /\ g[x].stuck = f[x].stuck /\ g[x].hidden = f[x].hidden /\ (g[x].left => f[x].left \/ MayLeak(d, x))
         /\ g[x].native = "open" => LeftOver(d, g[x]) \/ (d = "odbc" /\ x \in Cur)
         /\ Tracks(d, x) => RealOf(d, f, x) = {} \/ (d = "odbc" /\ x \in Stmt /\ f[x].hidden)
  BY DEF Leaving
<1>2. \A y \in Obj \ {x} :
         Keeps(d, y, g[y], f[y]) /\ (y # p => g[y].lock = f[y].lock /\ g[y].stuck = f[y].stuck)
  BY DEF Leaving
<1>3. p \in Obj =>
        \/ counted /\ g[p].lock = f[p].lock - 1 /\ g[p].stuck = f[p].stuck
        \/ /\ g[p].lock = f[p].lock
           /\ g[p].stuck = f[p].stuck \/ (g[p].stuck /\ f[p].st # "none")
           /\ counted => g[p].stuck
  BY DEF Leaving
<1> HIDE DEF p
<1>4. \A z \in Obj \ {x} : Real(d, g[z]) = Real(d, f[z]) /\ g[z].up = f[z].up
  BY <1>2 DEF Keeps, Real
<1>5. ~Real(d, g[x])
  BY <1>1 DEF Real, Blank
<1>6. Shape(d, g)
  <2> SUFFICES ASSUME NEW y \in Obj PROVE IF g[y].st = "none" THEN Blank(g[y]) ELSE g[y].up \in Above(d, y)
    BY <1>0 DEF Shape
  <2>1. CASE y = x
    BY <1>0, <1>1, <2>1 DEF Blank
  <2>2. CASE y # x
    <3>1. IF f[y].st = "none" THEN Blank(f[y]) ELSE f[y].up \in Above(d, y)
      BY DEF Sound, Shape
    <3>2. f[y].st = "none" => g[y].lock = f[y].lock /\ g[y].stuck = f[y].stuck
      BY <1>2, <1>3, <2>2
    <3> QED BY <1>2, <2>2, <3>1, <3>2 DEF Keeps, Blank
  <2> QED BY <2>1, <2>2
<1>7. Handles(d, g)
  BY <1>1, <1>2 DEF Keeps, Leaves, Sound, Handles, LeftOver, Blank, Leaving
<1>8. Counters(d, g)
  <2> SUFFICES ASSUME NEW y \in Obj
               PROVE  /\ g[y].lock <= MaxLock
                      /\ IF Tracks(d, y) /\ g[y].st # "none" THEN Counted(d, g, y) ELSE g[y].lock = 0
    BY DEF Counters
  <2>1. /\ f[y].lock <= MaxLock
        /\ IF Tracks(d, y) /\ f[y].st # "none" THEN Counted(d, f, y) ELSE f[y].lock = 0
    BY DEF Sound, Counters
  <2>2. CASE y = x
    <3>1. CASE Blank(g[x])
      BY <2>2, <3>1, Places DEF Blank
    <3>2. CASE g[x].st = "closed"
      <4>1. RealOf(d, g, x) = RealOf(d, f, x)
        BY <1>0, <1>1, <1>4, <3>2, Places DEF RealOf, Blank, p, Real
      <4>2. g[x].lock = f[x].lock /\ g[x].stuck = f[x].stuck /\ f[x].st # "none"
        BY <1>1, <3>2 DEF Blank, Leaving
      <4>3. Counted(d, f, x) => Counted(d, g, x)
        BY <4>1, <4>2 DEF Counted
      <4> QED BY <2>1, <2>2, <3>2, <4>2, <4>3
    <3> QED BY <1>1, <3>1, <3>2
  <2>3. CASE y # x /\ (y # p \/ ~Real(d, f[x]))
    <3>1. RealOf(d, g, y) = RealOf(d, f, y)
      BY <1>4, <1>5, <2>3 DEF RealOf, p
    <3>2. g[y].lock = f[y].lock /\ g[y].st = f[y].st /\ (g[y].stuck = f[y].stuck \/ g[y].stuck)
      BY <1>2, <1>3, <2>3 DEF Keeps
    <3>3. Counted(d, f, y) => Counted(d, g, y)
      BY <3>1, <3>2 DEF Counted
    <3> QED BY <2>1, <3>2, <3>3
  <2>4. CASE y # x /\ y = p /\ Real(d, f[x])
    <3>1. RealOf(d, g, p) = RealOf(d, f, p) \ {x} /\ x \in RealOf(d, f, p)
      BY <1>0, <1>4, <1>5, <2>4 DEF RealOf, p
    <3>2. Cardinality(RealOf(d, g, p)) = Cardinality(RealOf(d, f, p)) - 1
      BY <3>1, RealFinite, FS_RemoveElement
    <3>3. Cardinality(RealOf(d, f, p)) \in Nat
      BY RealFinite, FS_CardinalityType
    <3>4. g[p].st = f[p].st
      BY <1>2, <2>4 DEF Keeps
    <3>5. f[p].lock \in Int
      BY <1>0, <2>4 DEF Tables, Userdata
    <3>6. CASE counted
      <4>1. Counted(d, f, p)
        BY <2>1, <2>4, <3>6
      <4>2. Counted(d, g, p) /\ g[p].lock <= f[p].lock
        <5>1. \/ g[p].lock = f[p].lock - 1 /\ g[p].stuck = f[p].stuck
              \/ g[p].lock = f[p].lock /\ g[p].stuck
          BY <1>3, <2>4, <3>6
        <5> QED BY <3>2, <3>3, <3>5, <4>1, <5>1 DEF Counted
      <4>3. g[p].lock <= MaxLock
        BY <1>0, <2>1, <2>4, <3>5, <4>2, Places DEF Tables, Userdata
      <4> QED BY <2>4, <3>4, <3>6, <4>2, <4>3
    <3>7. CASE ~counted
      <4>1. g[p].lock = f[p].lock
        BY <1>3, <2>4, <3>7
      <4> QED BY <2>1, <2>4, <3>4, <3>7, <4>1
    <3> QED BY <3>6, <3>7
  <2> QED BY <2>2, <2>3, <2>4
<1>9. Tree(d, g)
  <2> SUFFICES ASSUME NEW y \in Obj \ Env, Real(d, g[y])
               PROVE  /\ g[g[y].up].st # "none" \/ (d = "odbc" /\ g[y].up \in Stmt)
                      /\ Tracks(d, g[y].up) => g[g[y].up].st = "open" \/ Astray(d, g, g[y].up)
    BY DEF Tree
  <2>1. y # x /\ Real(d, f[y]) /\ g[y].up = f[y].up /\ f[y].up \in Obj
    <3>1. y # x
      BY <1>5
    <3>2. Real(d, f[y]) /\ g[y].up = f[y].up
      BY <1>4, <3>1
    <3> QED BY <3>1, <3>2, Places DEF Sound, Shape, Above, Obj, Real
  <2>2. /\ f[f[y].up].st # "none" \/ (d = "odbc" /\ f[y].up \in Stmt)
        /\ Tracks(d, f[y].up) => f[f[y].up].st = "open" \/ Astray(d, f, f[y].up)
    BY <2>1 DEF Sound, Tree
  <2>3. CASE f[y].up # x
    BY <1>2, <2>1, <2>2, <2>3 DEF Keeps, Astray
  <2>4. CASE f[y].up = x
    <3>1. RealOf(d, f, x) # {}
      BY <2>1, <2>4 DEF RealOf
    <3> QED BY <1>1, <2>1, <2>4, <3>1 DEF Astray, Blank
  <2> QED BY <2>3, <2>4
<1> QED BY <1>6, <1>7, <1>8, <1>9 DEF Sound

\* A change that no count sees.
Still(d, f, g) ==
  /\ g \in Tables
  /\ \A y \in Obj :
       /\ g[y].st = f[y].st /\ g[y].up = f[y].up /\ g[y].hidden = f[y].hidden /\ Leaves(d, y, g[y], f[y])
       /\ g[y].lock = f[y].lock /\ g[y].stuck = f[y].stuck
       /\ \/ g[y].native = f[y].native
          \/ y \in Cur /\ f[y].st = "open" /\ Real(d, g[y]) = Real(d, f[y])
          \/ f[y].st = "closed" /\ g[y].native = "lost"

\* So does such a change.
LEMMA StillIsSound ==
  ASSUME NEW d, NEW f, NEW g, Sound(d, f), Still(d, f, g)
  PROVE  Sound(d, g)
<1>1. Shape(d, g)
  BY DEF Sound, Shape, Still, Blank
<1>2. Handles(d, g)
  BY DEF Sound, Handles, Still, Leaves, LeftOver, Real
<1>3. \A y \in Obj : Real(d, g[y]) = Real(d, f[y])
  BY DEF Still, Real
<1>4. \A y \in Obj : RealOf(d, g, y) = RealOf(d, f, y)
  BY <1>3 DEF RealOf, Still
<1>5. Counters(d, g)
  <2>1. ASSUME NEW y \in Obj PROVE Counted(d, f, y) => Counted(d, g, y)
    BY <1>4 DEF Counted, Still
  <2> QED BY <2>1 DEF Sound, Counters, Still
<1>6. Tree(d, g)
  <2> SUFFICES ASSUME NEW y \in Obj \ Env, Real(d, g[y])
               PROVE  /\ g[g[y].up].st # "none" \/ (d = "odbc" /\ g[y].up \in Stmt)
                      /\ Tracks(d, g[y].up) => g[g[y].up].st = "open" \/ Astray(d, g, g[y].up)
    BY DEF Tree
  <2>1. Real(d, f[y]) /\ g[y].up = f[y].up
    BY <1>3 DEF Still
  <2>2. f[y].up \in Obj
    BY <2>1, Places DEF Sound, Shape, Above, Obj, Real
  <2> QED BY <2>1, <2>2 DEF Sound, Tree, Still, Astray
<1> QED BY <1>1, <1>2, <1>5, <1>6 DEF Sound

\* The registry when children hold the entries: every open child has one for
\* its parent, and there are no others while the state runs, save Oracle's two.
ByChild(d, f, a, end) ==
  /\ a \subseteq Obj \X Obj
  /\ \A x \in Obj \ Env : f[x].st = "open" => <<x, f[x].up>> \in a
  /\ ~end => \A h, o \in Obj : <<h, o>> \in a =>
               \/ f[h].st = "open" /\ f[h].up = o
               \/ d = "oci8" /\ h = o /\ (o \in Env \/ f[o].stuck)
  /\ d = "oci8" => \A c \in Conn : f[c].stuck => <<c, c>> \in a

\* The registry when parents hold an entry for themselves: those with children
\* do, and nobody else, save a connection of Firebird.
ByParent(d, f, a, end) ==
  /\ a \subseteq Obj \X Obj
  /\ \A x \in Obj \ Env : Real(d, f[x]) /\ f[x].up \notin Stmt => <<f[x].up, f[x].up>> \in a
  /\ ~end => \A h, o \in Obj : <<h, o>> \in a =>
               h = o /\ (f[o].lock > 0 \/ (d = "firebird" /\ o \in Conn))
Registered(d, f, a, end) ==
  IF d \in {"odbc", "firebird"} THEN ByParent(d, f, a, end) ELSE ByChild(d, f, a, end)

\* The first kind of registry through a step that makes an object.
LEMMA ChildMade ==
  ASSUME NEW d, NEW f, NEW g, NEW a, NEW b, NEW end, NEW x, NEW p,
         Sound(d, f), ByChild(d, f, a, end), Making(d, f, g, x, p),
         b = IF p = None THEN a ELSE a \cup {<<x, p>>},
         x \in Conn => ~g[x].stuck
  PROVE  ByChild(d, g, b, end)
<1>0. p \in Obj \cup {None} /\ p # x /\ x \in Obj /\ (x \notin Env => p # None) /\ f[x].st = "none" /\ ~f[x].stuck
  BY Places DEF Making, Above, Obj, Sound, Shape, Blank
<1>1. b \subseteq Obj \X Obj
  BY <1>0 DEF ByChild
<1>2. \A y \in Obj \ Env : g[y].st = "open" => <<y, g[y].up>> \in b
  BY <1>0 DEF ByChild, Making, Keeps
<1>3. ASSUME ~end, NEW h \in Obj, NEW o \in Obj, <<h, o>> \in b
      PROVE  \/ g[h].st = "open" /\ g[h].up = o
             \/ d = "oci8" /\ h = o /\ (o \in Env \/ g[o].stuck)
  <2>1. CASE p # None /\ <<h, o>> = <<x, p>>
    BY <2>1 DEF Making
  <2>2. CASE <<h, o>> \in a
    <3>1. \/ f[h].st = "open" /\ f[h].up = o
          \/ d = "oci8" /\ h = o /\ (o \in Env \/ f[o].stuck)
      BY <1>3, <2>2 DEF ByChild
    <3> QED BY <1>0, <3>1 DEF Making, Keeps
  <2> QED BY <1>3, <2>1, <2>2
<1>4. d = "oci8" => \A c \in Conn : g[c].stuck => <<c, c>> \in b
  BY <1>0 DEF ByChild, Making, Obj
<1> QED BY <1>1, <1>2, <1>3, <1>4 DEF ByChild

\* The first kind of registry through a step that an object leaves in.
LEMMA ChildLeft ==
  ASSUME NEW d, NEW f, NEW g, NEW a, NEW b, NEW end, NEW x,
         Sound(d, f), ByChild(d, f, a, end), Leaving(d, f, g, x),
         b \subseteq a \cup {<<f[x].up, f[x].up>>}, a \ {<<x, f[x].up>>} \subseteq b,
         ~end => <<x, f[x].up>> \notin b,
         <<f[x].up, f[x].up>> \in b \ a => d = "oci8" /\ f[x].up \in Conn /\ g[f[x].up].stuck,
         d = "oci8" /\ f[x].up \in Conn /\ g[f[x].up].stuck => f[f[x].up].stuck \/ <<f[x].up, f[x].up>> \in b,
         g[x].st = "none" /\ ~end => \A h \in Obj : <<h, x>> \notin a
  PROVE  ByChild(d, g, b, end)
<1> DEFINE p == f[x].up
<1>0. p \in Obj \cup {None} /\ p # x /\ x \in Obj /\ f[x].st # "none" /\ g[x].st # "open"
      /\ (g[x].stuck => f[x].stuck /\ g[x].st # "none")
  BY Places DEF Leaving, Above, Obj, Sound, Shape, Blank
<1>1. b \subseteq Obj \X Obj
  <2>1. ASSUME NEW r \in b PROVE r \in Obj \X Obj
    BY <2>1, Places DEF ByChild, Obj
  <2> QED BY <2>1
<1>2. ASSUME NEW y \in Obj \ Env, g[y].st = "open" PROVE <<y, g[y].up>> \in b
  <2>1. y # x /\ f[y].st = "open" /\ g[y].up = f[y].up
    BY <1>0, <1>2 DEF Leaving, Keeps
  <2> QED BY <2>1 DEF ByChild
<1>3. ASSUME ~end, NEW h \in Obj, NEW o \in Obj, <<h, o>> \in b
      PROVE  \/ g[h].st = "open" /\ g[h].up = o
             \/ d = "oci8" /\ h = o /\ (o \in Env \/ g[o].stuck)
  <2>1. CASE <<h, o>> \notin a
    BY <1>3, <2>1
  <2>2. CASE <<h, o>> \in a
    <3>1. \/ f[h].st = "open" /\ f[h].up = o
          \/ d = "oci8" /\ h = o /\ (o \in Env \/ f[o].stuck)
      BY <1>3, <2>2 DEF ByChild
    <3>2. CASE h = x /\ f[h].up = o
      BY <1>3, <3>2
    <3>3. CASE h # x /\ f[h].st = "open" /\ f[h].up = o
      BY <3>3 DEF Leaving, Keeps
    <3>4. CASE d = "oci8" /\ h = o /\ (o \in Env \/ f[o].stuck)
      <4>1. CASE o \in Env
        BY <3>4, <4>1
      <4>2. CASE o = x /\ o \notin Env
        BY <1>3, <2>2, <3>4, <4>2 DEF Leaving, Blank
      <4>3. CASE o # x /\ o \notin Env
        BY <3>4, <4>3 DEF Leaving
      <4> QED BY <4>1, <4>2, <4>3
    <3> QED BY <3>1, <3>2, <3>3, <3>4
  <2> QED BY <2>1, <2>2
<1>4. ASSUME d = "oci8", NEW c \in Conn, g[c].stuck PROVE <<c, c>> \in b
  <2>1. c \in Obj
    BY DEF Obj
  <2>2. CASE c = p
    BY <1>0, <1>4, <2>1, <2>2 DEF ByChild
  <2>3. CASE c # p
    BY <1>0, <1>4, <2>1, <2>3 DEF ByChild, Leaving
  <2> QED BY <2>2, <2>3
<1> QED BY <1>1, <1>2, <1>3, <1>4 DEF ByChild

\* A parent with an open child has a count above zero.
LEMMA HasChildren ==
  ASSUME NEW d \in {"odbc", "firebird"}, NEW f, NEW p \in Obj, NEW y \in Obj,
         Sound(d, f), y \in RealOf(d, f, p), p \notin Stmt
  PROVE  f[p].lock > 0
<1>1. p \in Env \cup Conn /\ y \notin Env /\ Real(d, f[y]) /\ f[y].up = p
  <2>1. Real(d, f[y]) /\ f[y].up = p
    BY DEF RealOf
  <2>2. p \in Above(d, y)
    BY <2>1 DEF Sound, Shape, Real
  <2> QED BY <2>1, <2>2, Places DEF Above, Obj
<1>2. Tracks(d, p) /\ f[p].st # "none"
  BY <1>1, Places DEF Sound, Tree, Tracks, Counting, CountingEnv, Obj
<1>3. Counted(d, f, p)
  BY <1>2 DEF Sound, Counters
<1>4. Cardinality(RealOf(d, f, p)) \in Nat /\ Cardinality(RealOf(d, f, p)) # 0
  BY RealFinite, FS_CardinalityType, FS_EmptySet
<1>5. f[p].lock \in Int
  BY DEF Sound, Shape, Tables, Userdata
<1> QED BY <1>3, <1>4, <1>5 DEF Counted

\* Counters stay within the bound.
LEMMA LockIsNat ==
  ASSUME NEW d, NEW f, NEW p \in Obj, Sound(d, f) PROVE f[p].lock \in 0 .. MaxLock
<1>1. f[p].lock \in Int
  BY DEF Sound, Shape, Tables, Userdata
<1>2. Cardinality(RealOf(d, f, p)) \in Nat
  BY RealFinite, FS_CardinalityType
<1>3. /\ f[p].lock <= MaxLock
      /\ IF Tracks(d, p) /\ f[p].st # "none" THEN Counted(d, f, p) ELSE f[p].lock = 0
  BY DEF Sound, Counters
<1>4. Counted(d, f, p) => Cardinality(RealOf(d, f, p)) <= f[p].lock
  BY DEF Counted
<1> QED BY <1>1, <1>2, <1>3, <1>4, Places

\* The second kind of registry through a step that makes an object.
LEMMA ParentMade ==
  ASSUME NEW d \in {"odbc", "firebird"}, NEW f, NEW g, NEW a, NEW b, NEW end, NEW x, NEW p,
         Sound(d, f), ByParent(d, f, a, end), Making(d, f, g, x, p),
         b \subseteq a \cup {<<p, p>>}, \A r \in a : r \in b \/ (r = <<p, p>> /\ p \in Stmt),
         <<p, p>> \in b \ a => Real(d, g[x]) /\ p # None,
         Real(d, g[x]) /\ p # None /\ p \notin Stmt => <<p, p>> \in b
  PROVE  ByParent(d, g, b, end)
<1>0. p \in Obj \cup {None} /\ p # x /\ x \in Obj /\ (x \notin Env => p # None) /\ f[x].st = "none"
      /\ (p # None => Tracks(d, p))
  BY Places DEF Making, Above, Obj, Tracks, Counting, CountingEnv
<1>1. b \subseteq Obj \X Obj
  BY <1>0 DEF ByParent
<1>2. ASSUME NEW y \in Obj \ Env, Real(d, g[y]), g[y].up \notin Stmt PROVE <<g[y].up, g[y].up>> \in b
  <2>1. CASE y = x
    BY <1>0, <1>2, <2>1 DEF Making
  <2>2. CASE y # x
    <3>1. Real(d, f[y]) /\ g[y].up = f[y].up
      BY <1>2, <2>2 DEF Making, Keeps, Real
    <3> QED BY <1>2, <3>1 DEF ByParent
  <2> QED BY <2>1, <2>2
<1>3. ASSUME ~end, NEW h \in Obj, NEW o \in Obj, <<h, o>> \in b
      PROVE  h = o /\ (g[o].lock > 0 \/ (d = "firebird" /\ o \in Conn))
  <2>1. /\ \A y \in Obj : f[y].lock \in Int /\ f[y].lock >= 0
        /\ f[x].lock = 0
    BY <1>0, LockIsNat, Places DEF Sound, Shape, Blank
  <2>2. CASE <<h, o>> \in a
    <3>1. h = o /\ (f[o].lock > 0 \/ (d = "firebird" /\ o \in Conn))
      BY <1>3, <2>2 DEF ByParent
    <3> QED BY <1>0, <2>1, <3>1 DEF Making
  <2>3. CASE <<h, o>> \notin a
    <3>1. h = p /\ o = p /\ Real(d, g[x]) /\ p # None
      BY <1>3, <2>3
    <3> QED BY <1>0, <2>1, <3>1 DEF Making
  <2> QED BY <2>2, <2>3
<1> QED BY <1>1, <1>2, <1>3 DEF ByParent

\* The second kind of registry through a step that an object leaves in.
LEMMA ParentLeft ==
  ASSUME NEW d \in {"odbc", "firebird"}, NEW f, NEW g, NEW a, NEW b, NEW end, NEW x,
         Sound(d, f), Sound(d, g), ByParent(d, f, a, end), Leaving(d, f, g, x),
         b \subseteq a, a \ {<<f[x].up, f[x].up>>, <<x, x>>} \subseteq b,
         <<x, x>> \in a \ b => RealOf(d, f, x) = {},
         f[x].up \in Obj /\ <<f[x].up, f[x].up>> \in a \ b => g[f[x].up].lock <= 0,
         ~end /\ f[x].up \in Obj /\ <<f[x].up, f[x].up>> \in b =>
           g[f[x].up].lock > 0 \/ (d = "firebird" /\ f[x].up \in Conn),
         g[x].st = "none" /\ ~end => \A h \in Obj : <<h, x>> \notin a
  PROVE  ByParent(d, g, b, end)
<1> DEFINE p == f[x].up
<1>0. p \in Obj \cup {None} /\ p # x /\ x \in Obj /\ g[x].st # "open"
  BY Places DEF Leaving, Above, Obj, Sound, Shape, Blank
<1>1. b \subseteq Obj \X Obj
  BY DEF ByParent
<1>2. ASSUME NEW y \in Obj \ Env, Real(d, g[y]), g[y].up \notin Stmt PROVE <<g[y].up, g[y].up>> \in b
  <2>1. y # x /\ Real(d, f[y]) /\ g[y].up = f[y].up
    BY <1>0, <1>2 DEF Leaving, Keeps, Real
  <2>2. <<g[y].up, g[y].up>> \in a
    BY <1>2, <2>1 DEF ByParent
  <2>3. CASE g[y].up = x
    <3>1. y \in RealOf(d, f, x)
      BY <2>1, <2>3 DEF RealOf
    <3> QED BY <1>0, <2>2, <2>3, <3>1
  <2>4. CASE g[y].up = p /\ p \in Obj
    <3>1. y \in RealOf(d, g, p)
      BY <1>2, <2>4 DEF RealOf
    <3>2. g[p].lock > 0
      BY <1>2, <2>4, <3>1, HasChildren
    <3>3. g[p].lock \in Int
      BY <2>4 DEF Sound, Shape, Tables, Userdata
    <3> QED BY <2>2, <2>4, <3>2, <3>3
  <2>5. CASE g[y].up # x /\ (g[y].up # p \/ p \notin Obj)
    BY <1>1, <2>2, <2>5 DEF ByParent
  <2> QED BY <2>3, <2>4, <2>5
<1>3. ASSUME ~end, NEW h \in Obj, NEW o \in Obj, <<h, o>> \in b
      PROVE  h = o /\ (g[o].lock > 0 \/ (d = "firebird" /\ o \in Conn))
  <2>1. h = o /\ (f[o].lock > 0 \/ (d = "firebird" /\ o \in Conn))
    BY <1>3 DEF ByParent
  <2>2. CASE o = p
    BY <1>3, <2>1, <2>2
  <2>3. CASE o = x
    <3>1. g[x].st # "none"
      BY <1>3, <2>3
    <3>2. g[x].lock = f[x].lock
      BY <3>1 DEF Leaving, Blank
    <3> QED BY <2>1, <2>3, <3>2
  <2>4. CASE o # p /\ o # x
    BY <2>1, <2>4 DEF Leaving
  <2> QED BY <2>2, <2>3, <2>4
<1> QED BY <1>1, <1>2, <1>3 DEF ByParent

\* The registry does not see a change that counts do not see.
LEMMA StillRegistered ==
  ASSUME NEW d, NEW f, NEW g, NEW a, NEW end, Registered(d, f, a, end), Still(d, f, g)
  PROVE  Registered(d, g, a, end)
<1>1. \A y \in Obj : Real(d, g[y]) = Real(d, f[y])
  BY DEF Still, Real
<1>2. CASE d \in {"odbc", "firebird"}
  BY <1>1, <1>2 DEF Registered, ByParent, Still
<1>3. CASE d \notin {"odbc", "firebird"}
  BY <1>3, Places DEF Registered, ByChild, Still, Obj
<1> QED BY <1>2, <1>3

\* An object has no open child, or is a statement of ODBC.
Alone(d, o) == RealOf(d, obj, o) = {} \/ (d = "odbc" /\ o \in Stmt)

\* What the collector takes has no open child: such a child would hold an entry
\* for it, or, through the entry of the parent itself, keep it reached.
LEMMA CollectedIsAlone ==
  ASSUME Sound(driver, obj), Registered(driver, obj, anchor, closing),
         driver = "firebird" => \A q \in held : obj[q].native # "null",
         NEW o \in Obj, Unreached(o), \A x \in Children(o) : ~Unreached(x)
  PROVE  /\ Alone(driver, o)
         /\ ~closing => \A h \in Obj : <<h, o>> \notin anchor
         /\ driver # "odbc" => OpenChildren(o) = {}
         /\ obj[o].st # "none"
<1>1. obj[o].st # "none" /\ (~closing => \A h \in Obj : <<h, o>> \notin anchor)
  BY DEF Unreached, Anchored
<1>2. ASSUME NEW x \in Obj, obj[x].up = o, obj[x].st = "open", Real(driver, obj[x]) \/ driver # "odbc"
      PROVE  driver = "odbc" /\ o \in Stmt
  <2>0. x \in Children(o) /\ x \notin Env
    BY <1>2, Places DEF Children, Sound, Shape, Above
  <2>1. ~closing
    BY <1>2, <2>0 DEF Unreached
  <2>2. CASE driver \notin {"odbc", "firebird"}
    BY <1>1, <1>2, <2>0, <2>1, <2>2 DEF Registered, ByChild
  <2>3. CASE driver = "odbc"
    BY <1>1, <1>2, <2>0, <2>1, <2>3 DEF Registered, ByParent
  <2>4. CASE driver = "firebird"
    <3>1. CASE Real(driver, obj[x])
      <4>1. o \notin Stmt
        BY <1>2, <2>0, <2>4, Places DEF Sound, Shape, Above, Obj
      <4> QED BY <1>1, <1>2, <2>0, <2>1, <2>4, <3>1, <4>1 DEF Registered, ByParent
    <3>2. CASE obj[x].native = "null"
      <4>1. x \in Cur
        BY <1>2, <2>0, <3>2 DEF Sound, Handles, Obj
      <4>2. obj[x].lock = 0 /\ x \notin Conn
        BY <2>4, <4>1, Places DEF Sound, Counters, Tracks, Counting, CountingEnv, Obj
      <4>3. ASSUME NEW h \in Obj PROVE <<h, x>> \notin anchor
        BY <2>1, <2>4, <4>2 DEF Registered, ByParent
      <4>4. Unreached(x)
        BY <1>2, <2>4, <3>2, <4>3 DEF Unreached, Anchored
      <4> QED BY <2>0, <4>4
    <3> QED BY <1>2, <3>1, <3>2 DEF Real
  <2> QED BY <2>2, <2>3, <2>4
<1> QED BY <1>1, <1>2 DEF Alone, RealOf, OpenChildren, Children, Real

\* The empty result is a result.
LEMMA Zeros == 0 \in Width /\ <<>> \in Waiting
  BY DEF Width, Waiting

\* The fields of a new object, of a new cursor, of an empty place.
LEMMA NewIs ==
  ASSUME NEW p \in Obj \cup {None}
  PROVE  /\ New(p) \in Userdata /\ New(p).st = "open" /\ New(p).native = "open"
         /\ New(p).up = p /\ New(p).lock = 0 /\ ~New(p).stuck /\ ~New(p).left
<1>1. Vacant \in Userdata /\ Vacant.lock = 0 /\ ~Vacant.stuck /\ ~Vacant.left
  BY Zeros DEF Userdata, Vacant
<1>2. ASSUME NEW r \in Userdata
      PROVE  LET s == [r EXCEPT !.st = "open", !.up = p, !.native = "open"]
             IN  /\ s \in Userdata /\ s.st = "open" /\ s.native = "open" /\ s.up = p
                 /\ s.lock = r.lock /\ s.stuck = r.stuck /\ s.left = r.left
  BY DEF Userdata
<1> QED BY <1>1, <1>2 DEF New

LEMMA NewCursorIs ==
  ASSUME NEW p \in Obj \cup {None}, NEW n \in Width
  PROVE  /\ NewCursor(p, n) \in Userdata /\ NewCursor(p, n).st = "open" /\ NewCursor(p, n).native = "open"
         /\ NewCursor(p, n).up = p /\ NewCursor(p, n).lock = 0 /\ ~NewCursor(p, n).stuck /\ ~NewCursor(p, n).left
<1>1. ASSUME NEW r \in Userdata
      PROVE  LET s == [r EXCEPT !.numcols = n, !.width = n]
             IN  /\ s \in Userdata /\ s.st = r.st /\ s.native = r.native /\ s.up = r.up
                 /\ s.lock = r.lock /\ s.stuck = r.stuck /\ s.left = r.left
  BY DEF Userdata
<1> QED BY <1>1, NewIs DEF NewCursor

LEMMA VacantIs == Vacant \in Userdata /\ Blank(Vacant)
  BY Zeros DEF Userdata, Vacant, Blank

\* What closing an object leaves alone.
LEMMA ShutIs ==
  ASSUME NEW f \in Tables, NEW o \in Obj
  PROVE  /\ Shut(f, o) \in Tables
         /\ Shut(f, o)[o].st = "closed" /\ Shut(f, o)[o].native = "freed" /\ Shut(f, o)[o].up = f[o].up
         /\ Shut(f, o)[o].lock = f[o].lock /\ Shut(f, o)[o].stuck = f[o].stuck
         /\ Shut(f, o)[o].left = f[o].left /\ Shut(f, o)[o].hidden = f[o].hidden
         /\ \A x \in Obj \ {o} : Shut(f, o)[x] = f[x]
<1> DEFINE s == [f[o] EXCEPT !.st = "closed", !.native = "freed", !.numcols = 0, !.width = 0, !.more = <<>>, !.info = FALSE]
<1>1. Shut(f, o) = [f EXCEPT ![o] = s]
  BY Zenon DEF Shut
<1>2. ASSUME NEW r \in Userdata
      PROVE  LET t == [r EXCEPT !.st = "closed", !.native = "freed", !.numcols = 0, !.width = 0, !.more = <<>>, !.info = FALSE]
             IN  /\ t \in Userdata /\ t.st = "closed" /\ t.native = "freed" /\ t.up = r.up /\ t.lock = r.lock
                 /\ t.stuck = r.stuck /\ t.left = r.left /\ t.hidden = r.hidden
  BY Zeros DEF Userdata
<1>3. /\ s \in Userdata /\ s.st = "closed" /\ s.native = "freed" /\ s.up = f[o].up /\ s.lock = f[o].lock
      /\ s.stuck = f[o].stuck /\ s.left = f[o].left /\ s.hidden = f[o].hidden
  BY <1>2 DEF Tables
<1> HIDE DEF s
<1> QED BY <1>1, <1>3 DEF Tables

\* Setting one field of one object leaves the others as they were.
LEMMA PutLock ==
  ASSUME NEW f \in Tables, NEW p \in Obj, NEW v \in Int
  PROVE  LET g == [f EXCEPT ![p].lock = v]
         IN  /\ g \in Tables /\ g[p].lock = v
             /\ \A x \in Obj : /\ x # p => g[x] = f[x]
                               /\ g[x].st = f[x].st /\ g[x].up = f[x].up /\ g[x].native = f[x].native
                               /\ g[x].stuck = f[x].stuck /\ g[x].left = f[x].left /\ g[x].hidden = f[x].hidden
  BY DEF Tables, Userdata

LEMMA PutStuck ==
  ASSUME NEW f \in Tables, NEW p \in Obj, NEW v \in BOOLEAN
  PROVE  LET g == [f EXCEPT ![p].stuck = v]
         IN  /\ g \in Tables /\ g[p].stuck = v
             /\ \A x \in Obj : /\ x # p => g[x] = f[x]
                               /\ g[x].st = f[x].st /\ g[x].up = f[x].up /\ g[x].native = f[x].native
                               /\ g[x].lock = f[x].lock /\ g[x].left = f[x].left /\ g[x].hidden = f[x].hidden
  BY DEF Tables, Userdata

LEMMA PutLeft ==
  ASSUME NEW f \in Tables, NEW p \in Obj, NEW v \in BOOLEAN
  PROVE  LET g == [f EXCEPT ![p].left = v]
         IN  /\ g \in Tables /\ g[p].left = v
             /\ \A x \in Obj : /\ x # p => g[x] = f[x]
                               /\ g[x].st = f[x].st /\ g[x].up = f[x].up /\ g[x].native = f[x].native
                               /\ g[x].lock = f[x].lock /\ g[x].stuck = f[x].stuck /\ g[x].hidden = f[x].hidden
  BY DEF Tables, Userdata

LEMMA PutSt ==
  ASSUME NEW f \in Tables, NEW p \in Obj, NEW v \in {"none", "open", "closed"}
  PROVE  LET g == [f EXCEPT ![p].st = v]
         IN  /\ g \in Tables /\ g[p].st = v
             /\ \A x \in Obj : /\ x # p => g[x] = f[x]
                               /\ g[x].up = f[x].up /\ g[x].native = f[x].native /\ g[x].lock = f[x].lock
                               /\ g[x].stuck = f[x].stuck /\ g[x].left = f[x].left /\ g[x].hidden = f[x].hidden
  BY DEF Tables, Userdata

\* Records that differ in what no count sees.
Alike(r, s) == /\ r.st = s.st /\ r.up = s.up /\ r.lock = s.lock /\ r.native = s.native
               /\ r.stuck = s.stuck /\ r.left = s.left /\ r.hidden = s.hidden

LEMMA PutColumns ==
  ASSUME NEW f \in Tables, NEW p \in Obj
  PROVE  /\ \A v \in BOOLEAN : LET g == [f EXCEPT ![p].info = v] IN g \in Tables /\ \A x \in Obj : Alike(g[x], f[x])
         /\ \A v \in Width : LET g == [f EXCEPT ![p].width = v] IN g \in Tables /\ \A x \in Obj : Alike(g[x], f[x])
         /\ \A v \in Waiting : LET g == [f EXCEPT ![p].more = v] IN g \in Tables /\ \A x \in Obj : Alike(g[x], f[x])
<1>1. ASSUME NEW v \in BOOLEAN PROVE LET g == [f EXCEPT ![p].info = v] IN g \in Tables /\ \A x \in Obj : Alike(g[x], f[x])
  BY DEF Tables, Userdata, Alike
<1>2. ASSUME NEW v \in Width PROVE LET g == [f EXCEPT ![p].width = v] IN g \in Tables /\ \A x \in Obj : Alike(g[x], f[x])
  BY DEF Tables, Userdata, Alike
<1>3. ASSUME NEW v \in Waiting PROVE LET g == [f EXCEPT ![p].more = v] IN g \in Tables /\ \A x \in Obj : Alike(g[x], f[x])
  BY DEF Tables, Userdata, Alike
<1> QED BY Zenon, <1>1, <1>2, <1>3

-----------------------------------------------------------------------------
(* The first part for the system, and what it says of the objects a method *)
(* gets.                                                                   *)

\* What the script holds exists, and was filled in.
HeldOpen(d, f, h) ==
  h \subseteq Obj /\ \A o \in h : f[o].st # "none" /\ (d = "firebird" => f[o].native # "null")

\* The table, the registry and what the script holds fit together.
World(d, f, a, h) == Sound(d, f) /\ Registered(d, f, a, closing) /\ HeldOpen(d, f, h)

\* With Firebird a cursor is stuck just when it was never filled in.
Unfilled(f) ==
  driver = "firebird" => \A q \in Cur : f[q].st = "open" => (f[q].stuck <=> f[q].native = "null")

\* The first part of the invariant.
SqlIInv ==
  /\ driver \in Drivers /\ closing \in BOOLEAN /\ (closing => held = {})
  /\ World(driver, obj, anchor, held) /\ Unfilled(obj)

\* What Fresh of every driver says of a place.
Unused(S) == {x \in S : x \in Obj => obj[x].st = "none" /\ \A y \in Obj : obj[y].up # x /\ obj[y].lock < MaxLock}

\* The places of new objects, the objects a method gets, the objects of the
\* collector.
LEMMA FreshIs ==
  ASSUME NEW S \in SUBSET Obj, NEW x \in Unused(S)
  PROVE  /\ x \in S /\ x \in Obj /\ obj[x].st = "none"
         /\ \A y \in Obj : obj[y].up # x /\ obj[y].lock < MaxLock
  BY DEF Unused

LEMMA OpenedIs ==
  ASSUME NEW S \in SUBSET Obj, NEW x \in Opened(S)
  PROVE  x \in S /\ x \in Obj /\ obj[x].st = "open" /\ x \in held /\ ~closing
  BY DEF Opened, Here

LEMMA CollectableIs ==
  ASSUME SqlIInv, NEW S \in SUBSET Obj, NEW x \in Collectable(S)
  PROVE  /\ x \in S /\ x \in Obj /\ obj[x].st # "none" /\ x \notin held
         /\ Alone(driver, x)
         /\ ~closing => \A h \in Obj : <<h, x>> \notin anchor
         /\ driver # "odbc" => OpenChildren(x) = {}
<1>1. x \in S /\ x \in Obj /\ Unreached(x) /\ \A y \in Children(x) : ~Unreached(y)
  BY DEF Collectable
<1>2. x \notin held
  BY <1>1 DEF Unreached, SqlIInv
<1> QED BY <1>1, <1>2, CollectedIsAlone DEF SqlIInv, World, HeldOpen

\* Both parts of a world through a step that makes an object, ...
LEMMA MakeChild ==
  ASSUME SqlIInv, driver \notin {"odbc", "firebird"}, NEW f, NEW h, NEW x, NEW p,
         Making(driver, obj, f, x, p), x \in Conn => ~f[x].stuck,
         h \subseteq held \cup {x}
  PROVE  World(driver, f, IF p = None THEN anchor ELSE anchor \cup {<<x, p>>}, h)
<1>1. Sound(driver, f)
  BY MakingIsSound DEF SqlIInv, World
<1>2. ByChild(driver, f, IF p = None THEN anchor ELSE anchor \cup {<<x, p>>}, closing)
  BY ChildMade DEF SqlIInv, World, Registered
<1>3. HeldOpen(driver, f, h)
  BY DEF SqlIInv, World, HeldOpen, Making, Keeps
<1> QED BY <1>1, <1>2, <1>3 DEF World, Registered

\* ... through one that an object leaves in, ...
LEMMA LeaveChild ==
  ASSUME SqlIInv, driver \notin {"odbc", "firebird"}, NEW f, NEW b, NEW x, Leaving(driver, obj, f, x),
         b = anchor \ {<<x, obj[x].up>>} \/ (b = anchor /\ obj[x].st # "open"),
         driver # "oci8" \/ obj[x].up \notin Conn \/ f[obj[x].up].stuck = obj[obj[x].up].stuck,
         f[x].st = "none" => x \notin held /\ (~closing => \A y \in Obj : <<y, x>> \notin anchor)
  PROVE  World(driver, f, b, held)
<1>1. Sound(driver, f)
  BY LeavingIsSound DEF SqlIInv, World
<1>2. ByChild(driver, f, b, closing)
  <2>1. Sound(driver, obj) /\ ByChild(driver, obj, anchor, closing)
    BY DEF SqlIInv, World, Registered
  <2>2. x \in Obj /\ obj[x].up \in Obj \cup {None} /\ obj[x].up # x
    BY <2>1, Places DEF Leaving, Sound, Shape, Above, Obj
  <2>3. ~closing => <<x, obj[x].up>> \notin b
    <3>1. CASE b = anchor /\ obj[x].st # "open"
      <4>1. CASE obj[x].up \in Obj
        BY <2>1, <2>2, <3>1, <4>1 DEF ByChild
      <4>2. CASE obj[x].up = None
        BY <2>1, <3>1, <4>2, Places DEF ByChild
      <4> QED BY <2>2, <4>1, <4>2
    <3> QED BY <3>1
  <2>4. b \subseteq anchor /\ anchor \ {<<x, obj[x].up>>} \subseteq b
    OBVIOUS
  <2> HIDE DEF Leaving
  <2>5. driver = "oci8" /\ obj[x].up \in Conn /\ f[obj[x].up].stuck => obj[obj[x].up].stuck
    OBVIOUS
  <2> QED BY <2>1, <2>3, <2>4, <2>5, ChildLeft
<1>3. HeldOpen(driver, f, held)
  BY DEF SqlIInv, World, HeldOpen, Leaving, Keeps
<1> QED BY <1>1, <1>2, <1>3 DEF World, Registered

\* ... and through one that counts do not see.
LEMMA StillWorld ==
  ASSUME SqlIInv, NEW f, Still(driver, obj, f)
  PROVE  World(driver, f, anchor, held)
<1>1. Sound(driver, f) /\ Registered(driver, f, anchor, closing)
  BY StillIsSound, StillRegistered DEF SqlIInv, World
<1>2. HeldOpen(driver, f, held)
  BY DEF SqlIInv, World, HeldOpen, Still, Real
<1> QED BY <1>1, <1>2 DEF World

\* The tables that the drivers make: an object put and counted, one closed and
\* counted down.
Grown(d, f, x, r, p) ==
  IF Tracks(d, p) THEN [f EXCEPT ![x] = r, ![p].lock = @ + 1] ELSE [f EXCEPT ![x] = r]
Shrunk(d, f, x) ==
  IF Tracks(d, f[x].up) THEN [Shut(f, x) EXCEPT ![f[x].up].lock = @ - 1] ELSE Shut(f, x)

\* These tables are steps of the three kinds.
LEMMA PutNew ==
  ASSUME NEW d, NEW f, NEW x \in Obj, NEW p \in Above(d, x), NEW r \in Userdata, Sound(d, f),
         f[x].st = "none", \A y \in Obj : f[y].up # x,
         p # None => f[p].st = "open" /\ f[p].lock < MaxLock,
         r.st = "open", r.up = p, r.lock = 0, ~r.left, r.native = "open" \/ (r.native = "null" /\ x \in Cur /\ d = "firebird")
  PROVE  /\ ~(Tracks(d, p) /\ Real(d, r)) => Making(d, f, [f EXCEPT ![x] = r], x, p)
         /\ Real(d, r) => Making(d, f, Grown(d, f, x, r, p), x, p)
<1>0. f \in Tables /\ x # p /\ x # None /\ (p # None => p \in Obj)
  BY Places DEF Sound, Shape, Above, Obj
<1> DEFINE g == [f EXCEPT ![x] = r]
           k == [g EXCEPT ![p].lock = f[p].lock + 1]
<1>1. g \in Tables /\ g[x] = r /\ \A y \in Obj \ {x} : g[y] = f[y]
  BY <1>0 DEF Tables
<1>2. ~(Tracks(d, p) /\ Real(d, r)) => Making(d, f, g, x, p)
  BY <1>0, <1>1 DEF Making, Keeps, Leaves
<1>3. Grown(d, f, x, r, p) = IF Tracks(d, p) THEN k ELSE g
  BY Zenon DEF Grown
<1>4. ASSUME Tracks(d, p), Real(d, r) PROVE Making(d, f, k, x, p)
  <2>1. p \in Obj
    BY <1>4, Places DEF Tracks, Obj
  <2> HIDE DEF g
  <2>2. f[p].lock + 1 \in Int /\ g[p] = f[p]
    BY <1>0, <1>1, <2>1 DEF Tables, Userdata
  <2>3. /\ k \in Tables /\ k[p].lock = f[p].lock + 1
        /\ \A y \in Obj : /\ y # p => k[y] = g[y]
                          /\ k[y].st = g[y].st /\ k[y].up = g[y].up /\ k[y].native = g[y].native
                          /\ k[y].stuck = g[y].stuck /\ k[y].left = g[y].left /\ k[y].hidden = g[y].hidden
    BY <1>1, <2>1, <2>2, PutLock
  <2> HIDE DEF k
  <2> QED BY <1>0, <1>1, <1>4, <2>1, <2>2, <2>3 DEF Making, Keeps, Leaves
<1> HIDE DEF g, k
<1>5. Grown(d, f, x, r, p) = IF Tracks(d, p) THEN k ELSE g
  BY <1>3
<1> QED BY <1>2, <1>4, <1>5 DEF g

LEMMA PutVacant ==
  ASSUME NEW d, NEW f, NEW x \in Obj, Sound(d, f), f[x].st # "none",
         RealOf(d, f, x) = {} \/ (d = "odbc" /\ x \in Stmt),
         Real(d, f[x]) => ~Tracks(d, f[x].up)
  PROVE  Leaving(d, f, [f EXCEPT ![x] = Vacant], x)
<1>0. f \in Tables /\ f[x].up # x
  BY Places DEF Sound, Shape, Above, Obj
<1>1. LET g == [f EXCEPT ![x] = Vacant]
      IN  g \in Tables /\ Blank(g[x]) /\ \A y \in Obj \ {x} : g[y] = f[y]
  BY <1>0, VacantIs DEF Tables
<1> QED BY <1>0, <1>1 DEF Leaving, Keeps, Leaves

LEMMA ThenVacant ==
  ASSUME NEW d, NEW f, NEW g, NEW x, Sound(d, f), Leaving(d, f, g, x),
         RealOf(d, f, x) = {} \/ (d = "odbc" /\ x \in Stmt)
  PROVE  Leaving(d, f, [g EXCEPT ![x] = Vacant], x)
<1>0. f \in Tables /\ g \in Tables /\ x \in Obj /\ f[x].up # x
  BY Places DEF Sound, Shape, Above, Obj, Leaving
<1>1. LET k == [g EXCEPT ![x] = Vacant]
      IN  k \in Tables /\ Blank(k[x]) /\ \A y \in Obj \ {x} : k[y] = g[y]
  BY <1>0, VacantIs DEF Tables
<1> QED BY <1>0, <1>1 DEF Leaving, Keeps, Leaves

LEMMA ShutLeaves ==
  ASSUME NEW d, NEW f, NEW x \in Obj, Sound(d, f), f[x].st # "none",
         Tracks(d, x) => RealOf(d, f, x) = {} \/ (d = "odbc" /\ x \in Stmt /\ f[x].hidden)
  PROVE  /\ ~(Tracks(d, f[x].up) /\ Real(d, f[x])) => Leaving(d, f, Shut(f, x), x)
         /\ Real(d, f[x]) /\ (Tracks(d, f[x].up) => f[f[x].up].st # "none") => Leaving(d, f, Shrunk(d, f, x), x)
<1> DEFINE g == Shut(f, x)
           p == f[x].up
           k == [g EXCEPT ![p].lock = g[p].lock - 1]
<1>0. f \in Tables /\ p # x
  BY Places DEF Sound, Shape, Above, Obj
<1>1. /\ g \in Tables
      /\ g[x].st = "closed" /\ g[x].native = "freed" /\ g[x].up = f[x].up
      /\ g[x].lock = f[x].lock /\ g[x].stuck = f[x].stuck
      /\ g[x].left = f[x].left /\ g[x].hidden = f[x].hidden
      /\ \A y \in Obj \ {x} : g[y] = f[y]
  BY <1>0, ShutIs
<1> HIDE DEF g
<1>2. ~(Tracks(d, p) /\ Real(d, f[x])) => Leaving(d, f, g, x)
  BY <1>0, <1>1 DEF Leaving, Keeps, Leaves
<1>3. ASSUME Tracks(d, p), Real(d, f[x]), f[p].st # "none" PROVE Leaving(d, f, k, x)
  <2>1. p \in Obj
    BY <1>3, Places DEF Tracks, Obj
  <2>2. g[p].lock - 1 \in Int /\ g[p] = f[p]
    BY <1>0, <1>1, <2>1 DEF Tables, Userdata
  <2>3. /\ k \in Tables /\ k[p].lock = g[p].lock - 1
        /\ \A y \in Obj : /\ y # p => k[y] = g[y]
                          /\ k[y].st = g[y].st /\ k[y].up = g[y].up /\ k[y].native = g[y].native
                          /\ k[y].stuck = g[y].stuck /\ k[y].left = g[y].left /\ k[y].hidden = g[y].hidden
    BY <1>1, <2>1, <2>2, PutLock
  <2> HIDE DEF k
  <2> QED BY <1>0, <1>1, <1>3, <2>1, <2>2, <2>3 DEF Leaving, Keeps, Leaves
<1>4. Shrunk(d, f, x) = IF Tracks(d, p) THEN k ELSE g
  BY Zenon DEF Shrunk, g
<1> HIDE DEF k, p
<1> QED BY <1>2, <1>3, <1>4 DEF g, p

LEMMA AlikeMaking ==
  ASSUME NEW d, NEW f, NEW g, NEW k \in Tables, NEW x, NEW p, Making(d, f, g, x, p), \A y \in Obj : Alike(k[y], g[y])
  PROVE  Making(d, f, k, x, p)
<1>1. Real(d, k[x]) = Real(d, g[x])
  BY DEF Making, Alike, Real
<1> QED BY <1>1 DEF Making, Alike, Keeps, Leaves

LEMMA AlikeStill ==
  ASSUME NEW d, NEW f, NEW g \in Tables, \A y \in Obj : Alike(g[y], f[y])
  PROVE  Still(d, f, g)
  BY DEF Still, Alike, Leaves

-----------------------------------------------------------------------------
(* The five drivers whose children hold an entry of the registry for their *)
(* parent.                                                                 *)

\* No count, no open child.
LEMMA NoneLocked ==
  ASSUME NEW d, NEW f, NEW p \in Obj, Sound(d, f), Tracks(d, p), f[p].st # "none", ~(f[p].lock > 0)
  PROVE  RealOf(d, f, p) = {}
<1>1. Counted(d, f, p)
  BY DEF Sound, Counters
<1>2. f[p].lock \in Int
  BY DEF Sound, Shape, Tables, Userdata
<1>3. Cardinality(RealOf(d, f, p)) \in Nat
  BY RealFinite, FS_CardinalityType
<1>4. Cardinality(RealOf(d, f, p)) = 0
  BY <1>1, <1>2, <1>3 DEF Counted
<1> QED BY <1>4, RealFinite, FS_EmptySet

\* A new environment.
LEMMA EnvPut ==
  ASSUME SqlIInv, NEW e \in Unused(Env)
  PROVE  World(driver, [obj EXCEPT ![e] = New(None)], anchor, held \cup {e})
<1> DEFINE f == [obj EXCEPT ![e] = New(None)]
<1>1. e \in Env /\ e \in Obj /\ obj[e].st = "none" /\ \A y \in Obj : obj[y].up # e
  BY FreshIs DEF Obj
<1>2. None \in Above(driver, e) /\ New(None) \in Userdata /\ New(None).st = "open" /\ New(None).native = "open"
      /\ New(None).up = None /\ ~New(None).left /\ New(None).lock = 0 /\ ~New(None).stuck /\ ~Tracks(driver, None)
  BY <1>1, NewIs, Places DEF Above, Tracks, Obj
<1>3. Sound(driver, obj) /\ Registered(driver, obj, anchor, closing) /\ obj \in Tables
  BY DEF SqlIInv, World, Sound, Shape
<1>4. Making(driver, obj, f, e, None)
  BY <1>1, <1>2, <1>3, PutNew
<1>5. f[e] = New(None) /\ \A y \in Obj \ {e} : f[y] = obj[y]
  BY <1>1, <1>3 DEF Tables
<1> HIDE DEF f
<1>6. Sound(driver, f)
  BY <1>3, <1>4, MakingIsSound
<1>7. Registered(driver, f, anchor, closing)
  <2>1. CASE driver \in {"odbc", "firebird"}
    BY ZenonT(60), <1>1, <1>3, <1>4, <2>1, ParentMade, Places DEF Registered, ByParent
  <2>2. CASE driver \notin {"odbc", "firebird"}
    BY <1>1, <1>2, <1>3, <1>4, <1>5, <2>2, ChildMade DEF Registered
  <2> QED BY <2>1, <2>2
<1>8. HeldOpen(driver, f, held \cup {e})
  BY <1>1, <1>2, <1>5 DEF SqlIInv, World, HeldOpen
<1> QED BY <1>6, <1>7, <1>8 DEF World, f

\* A new object under a parent, and a closed one.
LEMMA GrownIs ==
  ASSUME NEW d, NEW f, NEW x \in Obj, NEW p \in Above(d, x), NEW r \in Userdata, Sound(d, f),
         f[x].st = "none", \A y \in Obj : f[y].up # x,
         p # None => f[p].st = "open" /\ f[p].lock < MaxLock,
         r.st = "open", r.up = p, r.lock = 0, ~r.left, r.native = "open"
  PROVE  /\ Making(d, f, Grown(d, f, x, r, p), x, p)
         /\ Grown(d, f, x, r, p)[x].up = p
         /\ (r.stuck <=> Grown(d, f, x, r, p)[x].stuck)
<1>1. f \in Tables /\ Real(d, r) /\ p # x
  BY Places DEF Sound, Shape, Real, Above, Obj
<1>2. Making(d, f, Grown(d, f, x, r, p), x, p)
  BY <1>1, PutNew
<1>3. Grown(d, f, x, r, p)[x].up = p
  BY <1>2 DEF Making
<1>4. Grown(d, f, x, r, p)[x] = r
  <2>1. CASE Tracks(d, p)
    <3>1. Grown(d, f, x, r, p) = [[f EXCEPT ![x] = r] EXCEPT ![p].lock = f[p].lock + 1]
      BY Zenon, <2>1 DEF Grown
    <3>2. [f EXCEPT ![x] = r] \in Tables /\ [f EXCEPT ![x] = r][x] = r
      BY <1>1 DEF Tables
    <3>3. f[p].lock + 1 \in Int /\ p \in Obj
      BY <1>1, <2>1, Places DEF Tables, Userdata, Tracks, Obj
    <3> QED BY <1>1, <3>1, <3>2, <3>3, PutLock
  <2>2. CASE ~Tracks(d, p)
    BY <1>1, <2>2 DEF Tables, Grown
  <2> QED BY <2>1, <2>2
<1> QED BY <1>2, <1>3, <1>4

LEMMA ShrunkIs ==
  ASSUME NEW d, NEW f, NEW x \in Obj, Sound(d, f), f[x].st = "open", f[x].native # "null" \/ d # "firebird",
         Tracks(d, x) => RealOf(d, f, x) = {} \/ (d = "odbc" /\ x \in Stmt /\ f[x].hidden),
         d = "odbc" /\ Tracks(d, f[x].up) => f[f[x].up].st # "none"
  PROVE  /\ Leaving(d, f, Shrunk(d, f, x), x)
         /\ Shrunk(d, f, x)[x].st = "closed"
         /\ f[x].up \in Obj => /\ Shrunk(d, f, x)[f[x].up].stuck = f[f[x].up].stuck
                               /\ Shrunk(d, f, x)[f[x].up].lock = IF Tracks(d, f[x].up) THEN f[f[x].up].lock - 1 ELSE f[f[x].up].lock
<1> DEFINE p == f[x].up
<1>1. f \in Tables /\ p \in Above(d, x) /\ p # x
  BY Places DEF Sound, Shape, Above, Obj
<1>2. Real(d, f[x])
  BY <1>1 DEF Sound, Handles, Real
<1>3. Tracks(d, p) => f[p].st # "none" /\ p \in Obj
  BY <1>1, <1>2, Places DEF Sound, Tree, Tracks, Above, Obj
<1>4. Leaving(d, f, Shrunk(d, f, x), x)
  BY <1>1, <1>2, <1>3, ShutLeaves
<1>5. Shut(f, x) \in Tables /\ Shut(f, x)[x].st = "closed" /\ \A y \in Obj \ {x} : Shut(f, x)[y] = f[y]
  BY <1>1, ShutIs
<1>6. CASE ~Tracks(d, p)
  <2>1. Shrunk(d, f, x) = Shut(f, x)
    BY Zenon, <1>6 DEF Shrunk
  <2> QED BY <1>1, <1>4, <1>5, <1>6, <2>1
<1>7. CASE Tracks(d, p)
  <2> DEFINE s == Shut(f, x)
             v == s[p].lock - 1
             k == [s EXCEPT ![p].lock = v]
  <2>1. Shrunk(d, f, x) = k
    BY Zenon, <1>7 DEF Shrunk
  <2>2. v \in Int /\ s \in Tables /\ v = s[p].lock - 1
    BY <1>1, <1>3, <1>5, <1>7 DEF Tables, Userdata
  <2>4. s[p] = f[p] /\ s[x].st = "closed"
    BY <1>1, <1>3, <1>5, <1>7
  <2>5. p \in Obj
    BY <1>3, <1>7
  <2> HIDE DEF v, s, p
  <2>3. k[x].st = s[x].st /\ k[p].stuck = s[p].stuck /\ k[p].lock = v
    BY <2>2, <2>5 DEF Tables, Userdata
  <2> HIDE DEF k
  <2> QED BY <1>4, <1>7, <2>1, <2>2, <2>3, <2>4 DEF p
<1> QED BY <1>6, <1>7

\* A new connection or cursor with its entry of the registry.
LEMMA ChildPut ==
  ASSUME SqlIInv, driver \notin {"odbc", "firebird"}, NEW S \in SUBSET Obj, NEW T \in SUBSET Obj,
         NEW p \in Opened(S), NEW x \in Unused(T), p \in Above(driver, x),
         NEW r \in Userdata, r.st = "open", r.up = p, r.lock = 0, ~r.left, r.native = "open", x \in Conn => ~r.stuck,
         NEW h \in SUBSET (held \cup {x})
  PROVE  /\ Making(driver, obj, Grown(driver, obj, x, r, p), x, p)
         /\ Grown(driver, obj, x, r, p)[x].up = p
         /\ World(driver, Grown(driver, obj, x, r, p), anchor \cup {<<x, p>>}, h)
<1> DEFINE f == Grown(driver, obj, x, r, p)
<1>1. /\ x \in Obj /\ obj[x].st = "none" /\ \A y \in Obj : obj[y].up # x /\ obj[y].lock < MaxLock
      /\ p \in Obj /\ obj[p].st = "open" /\ p # None
  BY FreshIs, OpenedIs, Places
<1>2. Making(driver, obj, f, x, p) /\ f[x].up = p /\ (r.stuck <=> f[x].stuck)
  BY <1>1, GrownIs DEF SqlIInv, World
<1> HIDE DEF f
<1>3. World(driver, f, IF p = None THEN anchor ELSE anchor \cup {<<x, p>>}, h)
  BY <1>2, MakeChild
<1> QED BY <1>1, <1>2, <1>3 DEF f

LEMMA ConnPut ==
  ASSUME SqlIInv, driver \notin {"odbc", "firebird"}, NEW e \in Opened(Env), NEW c \in Unused(Conn)
  PROVE  /\ Grown(driver, obj, c, New(e), e)[c].up = e
         /\ World(driver, Grown(driver, obj, c, New(e), e), anchor \cup {<<c, e>>}, held \cup {c})
<1>1. Env \subseteq Obj /\ Conn \subseteq Obj /\ e \in Obj /\ c \in Conn /\ e \in Above(driver, c)
  BY OpenedIs, FreshIs, Places DEF Above, Obj
<1>2. New(e) \in Userdata /\ New(e).st = "open" /\ New(e).native = "open"
      /\ New(e).up = e /\ ~New(e).left /\ New(e).lock = 0 /\ ~New(e).stuck
  BY <1>1, NewIs
<1> QED BY <1>1, <1>2, ChildPut

LEMMA CurPut ==
  ASSUME SqlIInv, driver \notin {"odbc", "firebird"}, NEW c \in Opened(Conn), NEW q \in Unused(Cur), NEW n \in Width
  PROVE  /\ c \in Obj /\ q \in Obj /\ c # None /\ q \notin Conn
         /\ Making(driver, obj, Grown(driver, obj, q, NewCursor(c, n), c), q, c)
         /\ Grown(driver, obj, q, NewCursor(c, n), c)[q].up = c
         /\ World(driver, Grown(driver, obj, q, NewCursor(c, n), c), anchor \cup {<<q, c>>}, held \cup {q})
<1>1. Cur \subseteq Obj /\ Conn \subseteq Obj /\ c \in Obj /\ q \in Cur /\ q \notin Conn /\ c \in Above(driver, q) /\ c # None
  BY OpenedIs, FreshIs, Places DEF Above, Obj
<1>2. NewCursor(c, n) \in Userdata /\ NewCursor(c, n).st = "open" /\ NewCursor(c, n).native = "open"
      /\ NewCursor(c, n).up = c /\ ~NewCursor(c, n).left /\ NewCursor(c, n).lock = 0
  BY <1>1, NewCursorIs
<1> QED BY <1>1, <1>2, ChildPut

\* A close that gives its entry back, and a collection.
LEMMA ChildShut ==
  ASSUME SqlIInv, driver \notin {"odbc", "firebird"}, NEW x \in Obj, obj[x].st = "open",
         Tracks(driver, x) => RealOf(driver, obj, x) = {}
  PROVE  /\ Leaving(driver, obj, Shrunk(driver, obj, x), x)
         /\ World(driver, Shrunk(driver, obj, x), anchor \ {<<x, obj[x].up>>}, held)
         /\ x \in Env => World(driver, Shrunk(driver, obj, x), anchor, held)
<1> DEFINE f == Shrunk(driver, obj, x)
<1>1. Sound(driver, obj) /\ obj[x].up \in Above(driver, x) /\ ByChild(driver, obj, anchor, closing)
  BY DEF SqlIInv, World, Sound, Shape, Registered
<1>2. /\ Leaving(driver, obj, f, x) /\ f[x].st = "closed"
      /\ obj[x].up \in Obj => f[obj[x].up].stuck = obj[obj[x].up].stuck
  BY <1>1, ShrunkIs
<1> HIDE DEF f
<1>3. World(driver, f, anchor \ {<<x, obj[x].up>>}, held)
  BY <1>2, LeaveChild DEF Obj
<1>4. x \in Env => anchor \ {<<x, obj[x].up>>} = anchor
  BY <1>1, Places DEF ByChild, Above
<1> QED BY <1>2, <1>3, <1>4 DEF f

LEMMA ChildGone ==
  ASSUME SqlIInv, driver \notin {"odbc", "firebird"}, NEW S \in SUBSET Obj, NEW x \in Collectable(S), NEW f, NEW a,
         \/ f = obj /\ (obj[x].st = "open" => ~Tracks(driver, obj[x].up))
         \/ f = Shrunk(driver, obj, x) /\ obj[x].st = "open",
         \/ a = anchor \ {<<x, obj[x].up>>}
         \/ a = anchor /\ (obj[x].st # "open" \/ x \in Env)
  PROVE  World(driver, [f EXCEPT ![x] = Vacant], a, held)
<1> DEFINE g == [f EXCEPT ![x] = Vacant]
           p == obj[x].up
<1>1. /\ x \in Obj /\ obj[x].st # "none" /\ x \notin held /\ RealOf(driver, obj, x) = {}
      /\ ~closing => \A h \in Obj : <<h, x>> \notin anchor
  BY CollectableIs DEF Alone
<1>2. Sound(driver, obj) /\ obj \in Tables /\ p \in Above(driver, x) /\ p # x
      /\ ByChild(driver, obj, anchor, closing)
  BY <1>1, Places DEF SqlIInv, World, Sound, Shape, Registered, Above, Obj
<1>3. Leaving(driver, obj, g, x) /\ (p \in Obj => g[p].stuck = obj[p].stuck) /\ g[x].st = "none"
  <2>1. CASE f = obj /\ (obj[x].st = "open" => ~Tracks(driver, obj[x].up))
    <3>1. Real(driver, obj[x]) => ~Tracks(driver, obj[x].up)
      BY <2>1 DEF Real
    <3>2. Leaving(driver, obj, [obj EXCEPT ![x] = Vacant], x)
      BY <1>1, <1>2, <3>1, PutVacant
    <3>3. [obj EXCEPT ![x] = Vacant][x] = Vacant /\ (p \in Obj => [obj EXCEPT ![x] = Vacant][p] = obj[p])
      BY <1>1, <1>2 DEF Tables
    <3> QED BY <2>1, <3>2, <3>3, VacantIs DEF Blank
  <2>2. CASE f = Shrunk(driver, obj, x) /\ obj[x].st = "open"
    <3>1. Leaving(driver, obj, f, x) /\ (p \in Obj => f[p].stuck = obj[p].stuck)
      BY <1>1, <1>2, <2>2, ShrunkIs
    <3>2. Leaving(driver, obj, g, x)
      BY <1>1, <1>2, <3>1, ThenVacant
    <3>3. f \in Tables
      BY <3>1 DEF Leaving
    <3>4. g[x] = Vacant /\ (p \in Obj => g[p] = f[p])
      BY <1>1, <1>2, <3>3 DEF Tables
    <3> QED BY <3>1, <3>2, <3>4, VacantIs DEF Blank
  <2> QED BY <2>1, <2>2
<1> HIDE DEF g
<1>4. a = anchor \ {<<x, obj[x].up>>} \/ (a = anchor /\ obj[x].st # "open")
  BY <1>2, Places DEF ByChild, Above
<1>5. World(driver, g, a, held)
  <2>1. driver # "oci8" \/ obj[x].up \notin Conn \/ g[obj[x].up].stuck = obj[obj[x].up].stuck
    BY <1>3 DEF Obj
  <2>2. g[x].st = "none" => x \notin held /\ (~closing => \A y \in Obj : <<y, x>> \notin anchor)
    BY <1>1
  <2> QED BY <1>3, <1>4, <2>1, <2>2, LeaveChild
<1> QED BY <1>5 DEF g

\* The moves of these drivers, and that each keeps the world.
EnvMove == \E e \in Unused(Env) : obj' = [obj EXCEPT ![e] = New(None)] /\ anchor' = anchor /\ held' = held \cup {e}
ConnMove(e) ==
  \E c \in Unused(Conn) : /\ obj' = Grown(driver, obj, c, New(e), e) /\ held' = held \cup {c}
                          /\ anchor' = anchor \cup {<<c, obj'[c].up>>}
CurMove(c) ==
  \E q \in Unused(Cur), n \in Width : /\ obj' = Grown(driver, obj, q, NewCursor(c, n), c) /\ held' = held \cup {q}
                                      /\ anchor' = anchor \cup {<<q, obj'[q].up>>}
ShutMove(x) ==
  /\ Tracks(driver, x) => ~(obj[x].lock > 0)
  /\ obj' = Shrunk(driver, obj, x) /\ held' = held
  /\ anchor' = anchor \ {<<x, obj[x].up>>} \/ (x \in Env /\ anchor' = anchor)
GoneMove(x) ==
  /\ \/ obj' = [obj EXCEPT ![x] = Vacant] /\ (obj[x].st = "open" => ~Tracks(driver, obj[x].up))
     \/ obj' = [Shrunk(driver, obj, x) EXCEPT ![x] = Vacant] /\ obj[x].st = "open"
  /\ anchor' = anchor \ {<<x, obj[x].up>>} \/ (anchor' = anchor /\ (obj[x].st # "open" \/ x \in Env))
  /\ held' = held

LEMMA MovesKeepWorld ==
  ASSUME SqlIInv, driver \notin {"odbc", "firebird"}
  PROVE  /\ UNCHANGED <<obj, anchor, held>> => World(driver, obj', anchor', held')
         /\ EnvMove => World(driver, obj', anchor', held')
         /\ \A e \in Opened(Env) : ConnMove(e) => World(driver, obj', anchor', held')
         /\ \A c \in Opened(Conn) : CurMove(c) => World(driver, obj', anchor', held')
         /\ \A x \in Opened(Env) \cup Opened(Conn) \cup Opened(Cur) : ShutMove(x) => World(driver, obj', anchor', held')
         /\ \A x \in Collectable(Env) \cup Collectable(Conn) \cup Collectable(Cur) :
              GoneMove(x) => World(driver, obj', anchor', held')
<1>0. Env \subseteq Obj /\ Conn \subseteq Obj /\ Cur \subseteq Obj
  BY DEF Obj
<1>1. ASSUME UNCHANGED <<obj, anchor, held>> PROVE World(driver, obj', anchor', held')
  BY <1>1 DEF SqlIInv
<1>2. ASSUME EnvMove PROVE World(driver, obj', anchor', held')
  BY <1>2, EnvPut DEF EnvMove
<1>3. ASSUME NEW e \in Opened(Env), ConnMove(e) PROVE World(driver, obj', anchor', held')
  <2>1. PICK c \in Unused(Conn) : /\ obj' = Grown(driver, obj, c, New(e), e) /\ held' = held \cup {c}
                                  /\ anchor' = anchor \cup {<<c, obj'[c].up>>}
    BY <1>3 DEF ConnMove
  <2>2. /\ Grown(driver, obj, c, New(e), e)[c].up = e
        /\ World(driver, Grown(driver, obj, c, New(e), e), anchor \cup {<<c, e>>}, held \cup {c})
    BY <2>1, ConnPut
  <2> QED BY <2>1, <2>2
<1>4. ASSUME NEW c \in Opened(Conn), CurMove(c) PROVE World(driver, obj', anchor', held')
  <2>1. PICK q \in Unused(Cur), n \in Width :
          /\ obj' = Grown(driver, obj, q, NewCursor(c, n), c) /\ held' = held \cup {q}
          /\ anchor' = anchor \cup {<<q, obj'[q].up>>}
    BY <1>4 DEF CurMove
  <2>2. /\ Grown(driver, obj, q, NewCursor(c, n), c)[q].up = c
        /\ World(driver, Grown(driver, obj, q, NewCursor(c, n), c), anchor \cup {<<q, c>>}, held \cup {q})
    BY <2>1, CurPut
  <2> QED BY <2>1, <2>2
<1>5. ASSUME NEW x \in Opened(Env) \cup Opened(Conn) \cup Opened(Cur), ShutMove(x)
      PROVE  World(driver, obj', anchor', held')
  <2>1. x \in Obj /\ obj[x].st = "open" /\ Sound(driver, obj)
    BY <1>0, OpenedIs DEF SqlIInv, World
  <2>2. Tracks(driver, x) => RealOf(driver, obj, x) = {}
    BY <1>5, <2>1, NoneLocked DEF ShutMove
  <2> QED BY <1>5, <2>1, <2>2, ChildShut DEF ShutMove
<1>6. ASSUME NEW x \in Collectable(Env) \cup Collectable(Conn) \cup Collectable(Cur), GoneMove(x)
      PROVE  World(driver, obj', anchor', held')
  BY <1>0, <1>6, ChildGone DEF GoneMove
<1> QED BY <1>1, <1>2, <1>3, <1>4, <1>5, <1>6

\* None of these moves marks an object as stuck.
Steady(f) == (\A x \in Obj : ~obj[x].stuck) => (\A x \in Obj : ~f[x].stuck)

LEMMA ShrunkStuck ==
  ASSUME NEW d, NEW f \in Tables, NEW x \in Obj, Tracks(d, f[x].up) => f[x].up \in Obj
  PROVE  Shrunk(d, f, x) \in Tables /\ \A y \in Obj : Shrunk(d, f, x)[y].stuck = f[y].stuck
<1> DEFINE s == Shut(f, x)
           p == f[x].up
           v == s[p].lock - 1
           k == [s EXCEPT ![p].lock = v]
<1>1. s \in Tables /\ \A y \in Obj : s[y].stuck = f[y].stuck
  BY ShutIs
<1>2. Shrunk(d, f, x) = IF Tracks(d, p) THEN k ELSE s
  BY Zenon DEF Shrunk
<1>3. p \in Obj => v \in Int
  BY <1>1 DEF Tables, Userdata
<1> HIDE DEF s, v
<1>4. p \in Obj => k \in Tables /\ \A y \in Obj : k[y].stuck = s[y].stuck
  BY <1>1, <1>3, PutLock
<1> HIDE DEF k
<1> QED BY <1>1, <1>2, <1>4

LEMMA SteadyMoves ==
  ASSUME SqlIInv, driver \in {"sqlite", "sqlite3"}
  PROVE  /\ UNCHANGED <<obj, anchor, held>> => Steady(obj')
         /\ EnvMove => Steady(obj')
         /\ \A e \in Opened(Env) : ConnMove(e) => Steady(obj')
         /\ \A c \in Opened(Conn) : CurMove(c) => Steady(obj')
         /\ \A x \in Opened(Env) \cup Opened(Conn) \cup Opened(Cur) : ShutMove(x) => Steady(obj')
         /\ \A x \in Collectable(Env) \cup Collectable(Conn) \cup Collectable(Cur) : GoneMove(x) => Steady(obj')
<1>0. Env \subseteq Obj /\ Conn \subseteq Obj /\ Cur \subseteq Obj /\ obj \in Tables /\ Sound(driver, obj)
      /\ \A p : Tracks(driver, p) => p \in Obj
  BY DEF Obj, SqlIInv, World, Sound, Shape, Tracks
<1>1. ASSUME UNCHANGED <<obj, anchor, held>> PROVE Steady(obj')
  BY <1>1 DEF Steady
<1>2. ASSUME EnvMove PROVE Steady(obj')
  <2>1. PICK e \in Unused(Env) : obj' = [obj EXCEPT ![e] = New(None)]
    BY <1>2 DEF EnvMove
  <2>2. e \in Obj /\ ~New(None).stuck
    BY <1>0, <2>1, FreshIs, NewIs
  <2> QED BY <1>0, <2>1, <2>2 DEF Steady, Tables
<1>3. ASSUME NEW x, NEW p, NEW r \in Userdata, x \in Obj, obj[x].st = "none", \A y \in Obj : obj[y].up # x /\ obj[y].lock < MaxLock,
             p \in Obj, p \in Above(driver, x), obj[p].st = "open",
             r.st = "open", r.up = p, r.lock = 0, ~r.left, r.native = "open", ~r.stuck,
             obj' = Grown(driver, obj, x, r, p)
      PROVE  Steady(obj')
  <2>1. Making(driver, obj, Grown(driver, obj, x, r, p), x, p) /\ ~Grown(driver, obj, x, r, p)[x].stuck
    BY <1>0, <1>3, GrownIs
  <2> QED BY <1>3, <2>1 DEF Steady, Making
<1>4. ASSUME NEW e \in Opened(Env), ConnMove(e) PROVE Steady(obj')
  <2>1. PICK c \in Unused(Conn) : obj' = Grown(driver, obj, c, New(e), e)
    BY <1>4 DEF ConnMove
  <2>2. e \in Env /\ e \in Obj /\ obj[e].st = "open" /\ c \in Conn /\ c \in Obj /\ obj[c].st = "none"
        /\ (\A y \in Obj : obj[y].up # c /\ obj[y].lock < MaxLock) /\ e \in Above(driver, c)
    BY <1>0, <2>1, OpenedIs, FreshIs, Places DEF Above
  <2> QED BY <1>3, <2>1, <2>2, NewIs
<1>5. ASSUME NEW c \in Opened(Conn), CurMove(c) PROVE Steady(obj')
  <2>1. PICK q \in Unused(Cur), n \in Width : obj' = Grown(driver, obj, q, NewCursor(c, n), c)
    BY <1>5 DEF CurMove
  <2>2. c \in Conn /\ c \in Obj /\ obj[c].st = "open" /\ q \in Cur /\ q \in Obj /\ obj[q].st = "none"
        /\ (\A y \in Obj : obj[y].up # q /\ obj[y].lock < MaxLock) /\ c \in Above(driver, q)
    BY <1>0, <2>1, OpenedIs, FreshIs, Places DEF Above, Obj
  <2> QED BY <1>3, <2>1, <2>2, NewCursorIs
<1>6. ASSUME NEW x \in Opened(Env) \cup Opened(Conn) \cup Opened(Cur), ShutMove(x) PROVE Steady(obj')
  <2>1. x \in Obj
    BY <1>0, OpenedIs
  <2> QED BY <1>0, <1>6, <2>1, ShrunkStuck DEF ShutMove, Steady
<1>7. ASSUME NEW x \in Collectable(Env) \cup Collectable(Conn) \cup Collectable(Cur), GoneMove(x) PROVE Steady(obj')
  <2>1. x \in Obj
    BY <1>0, CollectableIs
  <2>2. PICK f \in Tables : obj' = [f EXCEPT ![x] = Vacant] /\ \A y \in Obj : f[y].stuck = obj[y].stuck
    BY <1>0, <1>7, <2>1, ShrunkStuck DEF GoneMove
  <2> QED BY <2>1, <2>2, VacantIs DEF Steady, Tables, Blank
<1> QED BY <1>1, <1>2, <1>4, <1>5, <1>6, <1>7

\* A connection of SQLite that is closed with statements left in the library.
LEMMA ConnClosed ==
  ASSUME SqlIInv, driver \in {"sqlite3", "sqlite"}, NEW c \in Opened(Conn), ~(obj[c].lock > 0),
         NEW v, v = "freed" \/ (v = "open" /\ obj[c].left), NEW f,
         f = [[obj EXCEPT ![c].st = "closed"] EXCEPT ![c].native = v]
  PROVE  World(driver, f, anchor \ {<<c, obj[c].up>>}, held) /\ Steady(f)
<1> DEFINE g == [obj EXCEPT ![c].st = "closed"]
           h == [g EXCEPT ![c].native = v]
<1>0. Conn \subseteq Obj /\ c \in Obj /\ c \in Conn /\ obj[c].st = "open" /\ obj \in Tables /\ Sound(driver, obj)
      /\ obj[c].up \in Above(driver, c)
  BY OpenedIs DEF Obj, SqlIInv, World, Sound, Shape
<1>1. Tracks(driver, c) /\ ~Tracks(driver, obj[c].up) /\ obj[c].up # c /\ obj[c].up \notin Conn
  BY <1>0, Places DEF Tracks, Counting, SqliteDrivers, CountingEnv, Above, Obj
<1>2. g \in Tables /\ v \in {"none", "open", "freed", "null", "lost"}
  BY <1>0 DEF Tables, Userdata
<1>3. /\ g[c].st = "closed"
      /\ \A y \in Obj : /\ y # c => g[y] = obj[y]
                        /\ g[y].up = obj[y].up /\ g[y].lock = obj[y].lock
                        /\ g[y].stuck = obj[y].stuck /\ g[y].left = obj[y].left /\ g[y].hidden = obj[y].hidden
  BY <1>0 DEF Tables, Userdata
<1> HIDE DEF g
<1>4. /\ h \in Tables /\ h[c].native = v
      /\ \A y \in Obj : /\ y # c => h[y] = g[y]
                        /\ h[y].st = g[y].st /\ h[y].up = g[y].up /\ h[y].lock = g[y].lock
                        /\ h[y].stuck = g[y].stuck /\ h[y].left = g[y].left /\ h[y].hidden = g[y].hidden
  BY <1>0, <1>2 DEF Tables, Userdata
<1> HIDE DEF h
<1>5. RealOf(driver, obj, c) = {}
  BY <1>0, <1>1, NoneLocked
<1>6. v = "open" => LeftOver(driver, h[c])
  BY <1>0, <1>3, <1>4 DEF Sound, Handles, LeftOver, MayLeak
<1>7. Leaving(driver, obj, h, c)
  BY <1>0, <1>1, <1>3, <1>4, <1>5, <1>6 DEF Leaving, Keeps, Leaves
<1>8. h[c].st # "none"
  BY <1>0, <1>3, <1>4
<1>9. f = h
  BY Zenon DEF g, h
<1>10. World(driver, h, anchor \ {<<c, obj[c].up>>}, held)
  BY <1>0, <1>1, <1>7, <1>8, LeaveChild
<1>11. Steady(h)
  BY <1>3, <1>4 DEF Steady
<1> QED BY <1>9, <1>10, <1>11

\* A handle left on a connection changes no count.
LEMMA LeftStill ==
  ASSUME SqlIInv, NEW c \in Obj, MayLeak(driver, c), NEW f, f = [obj EXCEPT ![c].left = TRUE]
  PROVE  Still(driver, obj, f) /\ World(driver, f, anchor, held)
<1>0. obj \in Tables
  BY DEF SqlIInv, World, Sound, Shape
<1>1. PICK v \in BOOLEAN : v = TRUE
  OBVIOUS
<1> DEFINE g == [obj EXCEPT ![c].left = v]
<1>2. /\ g \in Tables /\ g[c].left = v
      /\ \A x \in Obj : /\ x # c => g[x] = obj[x]
                        /\ g[x].st = obj[x].st /\ g[x].up = obj[x].up /\ g[x].native = obj[x].native
                        /\ g[x].lock = obj[x].lock /\ g[x].stuck = obj[x].stuck /\ g[x].hidden = obj[x].hidden
  BY <1>0 DEF Tables, Userdata
<1>3. f = g
  BY Zenon, <1>1
<1> HIDE DEF g
<1>4. Still(driver, obj, g)
  BY <1>1, <1>2 DEF Still, Leaves
<1> QED BY <1>3, <1>4, StillWorld

\* An object that is collected without giving its count back.
Adrift(f, x) == [[f EXCEPT ![f[x].up].stuck = TRUE] EXCEPT ![x] = Vacant]

LEMMA StrandLeaves ==
  ASSUME NEW d, NEW f, NEW x \in Obj, Sound(d, f), f[x].st = "open",
         RealOf(d, f, x) = {} \/ (d = "odbc" /\ x \in Stmt), f[x].up \in Obj, f[f[x].up].st # "none",
         NEW k, k = Adrift(f, x)
  PROVE  /\ Leaving(d, f, k, x) /\ k[x].st = "none"
         /\ k[f[x].up].stuck /\ k[f[x].up].lock = f[f[x].up].lock
<1> DEFINE p == f[x].up
<1>0. f \in Tables /\ p # x
  BY Places DEF Sound, Shape, Above, Obj
<1>1. PICK v \in BOOLEAN : v = TRUE
  OBVIOUS
<1> DEFINE g == [f EXCEPT ![p].stuck = v]
           h == [g EXCEPT ![x] = Vacant]
<1>4. k = h
  BY Zenon, <1>1 DEF Adrift
<1>5. p \in Obj /\ f[p].st # "none"
  OBVIOUS
<1> HIDE DEF p
<1>2. /\ g \in Tables /\ g[p].stuck = v
      /\ \A y \in Obj : /\ y # p => g[y] = f[y]
                        /\ g[y].st = f[y].st /\ g[y].up = f[y].up /\ g[y].native = f[y].native
                        /\ g[y].lock = f[y].lock /\ g[y].left = f[y].left /\ g[y].hidden = f[y].hidden
  BY <1>0, <1>5 DEF Tables, Userdata
<1> HIDE DEF g
<1>3. h \in Tables /\ h[x] = Vacant /\ \A y \in Obj \ {x} : h[y] = g[y]
  BY <1>2, VacantIs DEF Tables
<1> HIDE DEF h
<1>6. h[p].stuck /\ h[p].lock = f[p].lock /\ h[x].st = "none" /\ Blank(h[x])
  BY <1>0, <1>1, <1>2, <1>3, <1>5, VacantIs DEF Blank
<1>7. \A y \in Obj \ {x} :
         Keeps(d, y, h[y], f[y]) /\ (y # p => h[y].lock = f[y].lock /\ h[y].stuck = f[y].stuck)
  BY <1>2, <1>3 DEF Keeps, Leaves
<1>8. f[x].up = p
  BY DEF p
<1>9. Leaving(d, f, h, x)
  BY <1>3, <1>5, <1>6, <1>7, <1>8 DEF Leaving
<1> QED BY <1>4, <1>6, <1>8, <1>9

-----------------------------------------------------------------------------
(* Each driver: its methods are moves of those kinds.                      *)

\* The helpers of each driver are those of SqlObjects.
LEMMA MysqlNames ==
  ASSUME NEW S
  PROVE  /\ Mysql!Width = Width
         /\ Mysql!Fresh(S) \subseteq Unused(S) /\ Mysql!Opened(S) = Opened(S) /\ Mysql!Collectable(S) = Collectable(S)
         /\ Mysql!Vacant = Vacant
         /\ \A f, o : Mysql!Shut(f, o) = Shut(f, o)
         /\ \A p : Mysql!New(p) = New(p)
         /\ \A p, n : Mysql!NewCursor(p, n) = NewCursor(p, n)
<1>1. Mysql!Opened(S) = Opened(S)
  BY DEF Mysql!Opened, Opened, Mysql!Here, Here
<1>0. Mysql!Obj = Obj
  BY DEF Mysql!Obj, Obj
<1>2. Mysql!Fresh(S) \subseteq Unused(S)
  BY <1>0 DEF Mysql!Fresh, Mysql!Live, Unused
<1>3. Mysql!Collectable(S) = Collectable(S)
  <2>2. \A o : Mysql!Unreached(o) <=> Unreached(o)
    BY <1>0 DEF Mysql!Unreached, Unreached, Mysql!Anchored, Anchored
  <2>3. \A o : Mysql!Children(o) = Children(o)
    BY <1>0 DEF Mysql!Children, Children
  <2> QED BY <2>2, <2>3 DEF Mysql!Collectable, Collectable
<1>4. Mysql!Vacant = Vacant
  BY DEF Mysql!Vacant, Vacant
<1>5. ASSUME NEW f, NEW o PROVE Mysql!Shut(f, o) = Shut(f, o)
  BY Zenon DEF Mysql!Shut, Shut
<1>6. \A p : Mysql!New(p) = New(p)
  BY Zenon, <1>4 DEF Mysql!New, New
<1>7. \A p, n : Mysql!NewCursor(p, n) = NewCursor(p, n)
  BY <1>6 DEF Mysql!NewCursor, NewCursor
<1>8. Mysql!Width = Width
  BY DEF Mysql!Width, Width
<1> QED BY <1>1, <1>2, <1>3, <1>4, <1>5, <1>6, <1>7, <1>8

\* The methods of MySQL.
LEMMA MysqlWorld ==
  ASSUME SqlIInv, driver = "mysql", Mysql!Next
  PROVE  World(driver, obj', anchor', held')
<1> DEFINE Goal == World(driver, obj', anchor', held')
<1>0. /\ Sound(driver, obj) /\ obj \in Tables /\ Env \subseteq Obj /\ Conn \subseteq Obj /\ Cur \subseteq Obj
      /\ driver \notin {"odbc", "firebird"}
  BY DEF SqlIInv, World, Sound, Shape, Obj
<1>t. \A p : ~Tracks(driver, p)
  BY Places DEF Tracks, Counting, CountingEnv, SqliteDrivers
<1>1. ASSUME Nothing \/ UNCHANGED <<obj, anchor, held>> PROVE Goal
  BY <1>0, <1>1, MovesKeepWorld DEF Nothing
<1>2. ASSUME Mysql!create_environment PROVE Goal
  <2>1. EnvMove
    BY Zenon, <1>2, MysqlNames DEF Mysql!create_environment, EnvMove
  <2> QED BY <1>0, <2>1, MovesKeepWorld
<1>3. ASSUME NEW e \in Opened(Env), Mysql!env_connect(e) PROVE Goal
  <2>1. ConnMove(e)
    BY Zenon, <1>t, <1>3, MysqlNames DEF Mysql!env_connect, Mysql!Ref, ConnMove, Grown
  <2> QED BY <1>0, <2>1, MovesKeepWorld
<1>4. ASSUME NEW x \in Opened(Env) \cup Opened(Conn) \cup Opened(Cur),
             (x \in Env /\ Mysql!env_close(x)) \/ Mysql!conn_close(x) \/ Mysql!cur_nullify(x)
      PROVE  Goal
  <2>1. ShutMove(x)
    BY Zenon, <1>t, <1>4, MysqlNames
       DEF Mysql!env_close, Mysql!conn_close, Mysql!cur_nullify, Mysql!Unref, ShutMove, Shrunk
  <2> QED BY <1>0, <2>1, MovesKeepWorld
<1>5. ASSUME NEW x \in Collectable(Env) \cup Collectable(Conn) \cup Collectable(Cur),
             (x \in Env /\ Mysql!env_gc(x)) \/ Mysql!conn_gc(x) \/ Mysql!cur_gc(x)
      PROVE  Goal
  <2>1. GoneMove(x)
    BY Zenon, <1>t, <1>5, MysqlNames DEF Mysql!env_gc, Mysql!conn_gc, Mysql!cur_gc, Mysql!Unref, Mysql!Gone, GoneMove
  <2> QED BY <1>0, <2>1, MovesKeepWorld
<1>8. ASSUME NEW c \in Opened(Conn), NEW m \in Waiting, Mysql!create_cursor(c, m) PROVE Goal
  <2>1. PICK q \in Unused(Cur), n \in Width :
          /\ obj' = [obj EXCEPT ![q] = NewCursor(c, n), ![c].more = m]
          /\ held' = held \cup {q} /\ anchor' = anchor \cup {<<q, obj'[q].up>>}
    BY Zenon, <1>8, MysqlNames DEF Mysql!create_cursor, Mysql!Ref
  <2> DEFINE k == Grown(driver, obj, q, NewCursor(c, n), c)
  <2>4. Making(driver, obj, k, q, c) /\ c \in Obj /\ c # None /\ q \notin Conn
    BY <1>0, <2>1, CurPut
  <2>6. obj' = [k EXCEPT ![c].more = m]
    BY Zenon, <1>t, <2>1 DEF Grown
  <2> HIDE DEF k
  <2>5. k \in Tables
    BY <2>4 DEF Making
  <2>7. obj' \in Tables /\ \A y \in Obj : Alike(obj'[y], k[y])
    BY <2>4, <2>5, <2>6, PutColumns
  <2>8. Making(driver, obj, obj', q, c)
    BY <2>4, <2>7, AlikeMaking
  <2>9. obj'[q].up = c /\ c # None
    BY <2>4, <2>8 DEF Making
  <2>10. World(driver, obj', IF c = None THEN anchor ELSE anchor \cup {<<q, c>>}, held')
    <3>1. held' \subseteq held \cup {q} /\ (q \in Conn => ~obj'[q].stuck)
      BY <2>1, <2>4
    <3> QED BY <1>0, <2>8, <3>1, MakeChild
  <2> QED BY <2>1, <2>9, <2>10
<1>9. ASSUME NEW c \in Obj, NEW m \in Waiting, obj' = [obj EXCEPT ![c].more = m], UNCHANGED <<anchor, held>> PROVE Goal
  BY <1>0, <1>9, PutColumns, AlikeStill, StillWorld
<1>10. ASSUME NEW c \in Opened(Conn), Mysql!conn_execute(c) PROVE Goal
  <2>1. {<<>>} \cup {<<w>> : w \in Width \ {2}} \subseteq Waiting /\ c \in Obj
    BY <1>0, OpenedIs DEF Waiting
  <2>2. CASE Mysql!Nothing
    BY <1>1, <2>2 DEF Mysql!Nothing, Nothing
  <2>3. CASE ~Mysql!Nothing
    <3>1. PICK m \in Waiting :
            \/ Mysql!create_cursor(c, m)
            \/ obj' = [obj EXCEPT ![c].more = m] /\ UNCHANGED <<anchor, held>>
      BY Zenon, <1>10, <2>1, <2>3, MysqlNames DEF Mysql!conn_execute
    <3> QED BY <1>8, <1>9, <2>1, <3>1
  <2> QED BY <2>2, <2>3
<1>11. ASSUME NEW q \in Opened(Cur), Mysql!cur_next_result(q) PROVE Goal
  <2> DEFINE c == obj[q].up
             w == Head(obj[c].more)
             k == [[obj EXCEPT ![c].more = <<>>] EXCEPT ![q].width = w]
             v == IF w = 0 THEN "null" ELSE "open"
  <2>1. CASE Mysql!Nothing
    BY <1>1, <2>1 DEF Mysql!Nothing, Nothing
  <2>2. CASE ~Mysql!Nothing
    <3>1. /\ obj[c].more # <<>>
          /\ obj' = [obj EXCEPT ![c].more = <<>>, ![q].width = w, ![q].native = IF w = 0 THEN "null" ELSE "open"]
          /\ UNCHANGED <<anchor, held>>
      BY <1>11, <2>2 DEF Mysql!cur_next_result
    <3>2. q \in Cur /\ q \in Obj /\ obj[q].st = "open" /\ c \in Obj
      BY <1>0, OpenedIs, Places DEF Sound, Shape, Above, Obj
    <3>3. w \in Width
      BY <1>0, <3>1, <3>2 DEF Tables, Userdata, Waiting
    <3>4. k \in Tables /\ \A y \in Obj : Alike(k[y], obj[y])
      <4>1. [obj EXCEPT ![c].more = <<>>] \in Tables /\ \A y \in Obj : Alike([obj EXCEPT ![c].more = <<>>][y], obj[y])
        BY <1>0, <3>2, Zeros, PutColumns
      <4>2. k \in Tables /\ \A y \in Obj : Alike(k[y], [obj EXCEPT ![c].more = <<>>][y])
        BY <3>2, <3>3, <4>1, PutColumns
      <4> QED BY ZenonT(60), <4>1, <4>2 DEF Alike
    <3>5. obj' = [k EXCEPT ![q].native = v] /\ v \in {"none", "open", "freed", "null", "lost"}
      BY Zenon, <3>1
    <3> HIDE DEF k, v
    <3>6. /\ obj' \in Tables
          /\ \A y \in Obj : /\ y # q => obj'[y] = k[y]
                            /\ obj'[y].st = k[y].st /\ obj'[y].up = k[y].up /\ obj'[y].lock = k[y].lock
                            /\ obj'[y].stuck = k[y].stuck /\ obj'[y].left = k[y].left /\ obj'[y].hidden = k[y].hidden
      BY <3>2, <3>4, <3>5 DEF Tables, Userdata
    <3>7. Still(driver, obj, obj')
      BY <3>2, <3>4, <3>6 DEF Still, Alike, Leaves, Real
    <3> QED BY <3>1, <3>7, StillWorld
  <2> QED BY <2>1, <2>2
<1>12. ASSUME NEW q \in Opened(Cur), Mysql!create_colinfo(q) PROVE Goal
  <2>1. obj' = [obj EXCEPT ![q].info = (obj[q].native = "open")] /\ UNCHANGED <<anchor, held>> /\ q \in Obj
    BY <1>0, <1>12, OpenedIs DEF Mysql!create_colinfo
  <2> QED BY <1>0, <2>1, PutColumns, AlikeStill, StillWorld
<1> HIDE DEF Goal
<1>13. Goal
  <2>1. ASSUME NEW c \in Opened(Conn),
               \/ Mysql!conn_close(c) \/ Mysql!conn_ask(c) \/ Mysql!conn_execute(c) \/ Mysql!conn_commit(c) \/ Mysql!conn_rollback(c)
               \/ \E on \in BOOLEAN : Mysql!conn_setautocommit(c, on)
        PROVE  Goal
    BY <1>1, <1>4, <1>10, <2>1
       DEF Mysql!conn_ask, Mysql!conn_commit, Mysql!conn_rollback, Mysql!EndWork, Mysql!conn_setautocommit, Mysql!Nothing, Nothing
  <2>2. ASSUME NEW q \in Opened(Cur),
               \/ Mysql!cur_fetch(q) \/ Mysql!cur_next_result(q) \/ Mysql!cur_has_next_result(q)
               \/ Mysql!pushtable(q) \/ Mysql!cur_numrows(q) \/ Mysql!cur_seek(q) \/ Mysql!cur_close(q)
        PROVE  Goal
    BY <1>1, <1>4, <1>11, <1>12, <2>2
       DEF Mysql!cur_fetch, Mysql!cur_has_next_result, Mysql!pushtable, Mysql!cur_numrows, Mysql!cur_seek,
           Mysql!cur_close, Mysql!Nothing, Nothing
  <2>3. ASSUME NEW e \in Opened(Env), Mysql!env_connect(e) \/ Mysql!env_close(e) PROVE Goal
    <3>1. e \in Env
      BY <1>0, OpenedIs
    <3> QED BY <1>3, <1>4, <2>3, <3>1
  <2>4. ASSUME NEW e \in Collectable(Env), Mysql!env_gc(e) PROVE Goal
    <3>1. e \in Env
      BY DEF Collectable
    <3> QED BY <1>5, <2>4, <3>1
  <2> QED BY <1>2, <1>5, <2>1, <2>2, <2>3, <2>4, MysqlNames DEF Mysql!Next
<1> QED BY <1>13 DEF Goal

LEMMA PostgresNames ==
  ASSUME NEW S
  PROVE  /\ Postgres!Width = Width
         /\ Postgres!Fresh(S) \subseteq Unused(S) /\ Postgres!Opened(S) = Opened(S) /\ Postgres!Collectable(S) = Collectable(S)
         /\ Postgres!Vacant = Vacant
         /\ \A f, o : Postgres!Shut(f, o) = Shut(f, o)
         /\ \A p : Postgres!New(p) = New(p)
         /\ \A p, n : Postgres!NewCursor(p, n) = NewCursor(p, n)
<1>1. Postgres!Opened(S) = Opened(S)
  BY DEF Postgres!Opened, Opened, Postgres!Here, Here
<1>0. Postgres!Obj = Obj
  BY DEF Postgres!Obj, Obj
<1>2. Postgres!Fresh(S) \subseteq Unused(S)
  BY <1>0 DEF Postgres!Fresh, Postgres!Live, Unused
<1>3. Postgres!Collectable(S) = Collectable(S)
  <2>2. \A o : Postgres!Unreached(o) <=> Unreached(o)
    BY <1>0 DEF Postgres!Unreached, Unreached, Postgres!Anchored, Anchored
  <2>3. \A o : Postgres!Children(o) = Children(o)
    BY <1>0 DEF Postgres!Children, Children
  <2> QED BY <2>2, <2>3 DEF Postgres!Collectable, Collectable
<1>4. Postgres!Vacant = Vacant
  BY DEF Postgres!Vacant, Vacant
<1>5. ASSUME NEW f, NEW o PROVE Postgres!Shut(f, o) = Shut(f, o)
  BY Zenon DEF Postgres!Shut, Shut
<1>6. \A p : Postgres!New(p) = New(p)
  BY Zenon, <1>4 DEF Postgres!New, New
<1>7. \A p, n : Postgres!NewCursor(p, n) = NewCursor(p, n)
  BY <1>6 DEF Postgres!NewCursor, NewCursor
<1>8. Postgres!Width = Width
  BY DEF Postgres!Width, Width
<1> QED BY <1>1, <1>2, <1>3, <1>4, <1>5, <1>6, <1>7, <1>8

\* The methods of PostgreSQL.
LEMMA PostgresWorld ==
  ASSUME SqlIInv, driver = "postgres", Postgres!Next
  PROVE  World(driver, obj', anchor', held')
<1> DEFINE Goal == World(driver, obj', anchor', held')
<1>0. /\ Sound(driver, obj) /\ obj \in Tables /\ Env \subseteq Obj /\ Conn \subseteq Obj /\ Cur \subseteq Obj
      /\ driver \notin {"odbc", "firebird"}
  BY DEF SqlIInv, World, Sound, Shape, Obj
<1>t. \A p : ~Tracks(driver, p)
  BY Places DEF Tracks, Counting, CountingEnv, SqliteDrivers
<1>1. ASSUME Nothing \/ UNCHANGED <<obj, anchor, held>> PROVE Goal
  BY <1>0, <1>1, MovesKeepWorld DEF Nothing
<1>2. ASSUME Postgres!create_environment PROVE Goal
  <2>1. EnvMove
    BY Zenon, <1>2, PostgresNames DEF Postgres!create_environment, EnvMove
  <2> QED BY <1>0, <2>1, MovesKeepWorld
<1>3. ASSUME NEW e \in Opened(Env), Postgres!create_connection(e) PROVE Goal
  <2>1. ConnMove(e)
    BY Zenon, <1>t, <1>3, PostgresNames DEF Postgres!create_connection, Postgres!Ref, ConnMove, Grown
  <2> QED BY <1>0, <2>1, MovesKeepWorld
<1>4. ASSUME NEW x \in Opened(Env) \cup Opened(Conn) \cup Opened(Cur),
             (x \in Env /\ Postgres!env_close(x)) \/ Postgres!conn_close(x) \/ Postgres!cur_nullify(x)
      PROVE  Goal
  <2>1. ShutMove(x)
    BY Zenon, <1>t, <1>4, PostgresNames
       DEF Postgres!env_close, Postgres!conn_close, Postgres!cur_nullify, Postgres!Unref, ShutMove, Shrunk
  <2> QED BY <1>0, <2>1, MovesKeepWorld
<1>5. ASSUME NEW x \in Collectable(Env) \cup Collectable(Conn) \cup Collectable(Cur),
             (x \in Env /\ Postgres!env_gc(x)) \/ Postgres!conn_gc(x) \/ Postgres!cur_gc(x)
      PROVE  Goal
  <2>1. GoneMove(x)
    BY Zenon, <1>t, <1>5, PostgresNames
       DEF Postgres!env_gc, Postgres!conn_gc, Postgres!cur_gc, Postgres!Unref, Postgres!Gone, GoneMove
  <2> QED BY <1>0, <2>1, MovesKeepWorld
<1>6. ASSUME NEW c \in Opened(Conn), Postgres!create_cursor(c) PROVE Goal
  <2>1. CurMove(c)
    <3>1. 1 \in Width
      BY DEF Width
    <3> QED BY Zenon, <1>t, <1>6, <3>1, PostgresNames DEF Postgres!create_cursor, Postgres!Ref, CurMove, Grown
  <2> QED BY <1>0, <2>1, MovesKeepWorld
<1>7. ASSUME NEW q \in Opened(Cur), Postgres!cur_getcoltypes(q) PROVE Goal
  <2>1. CASE UNCHANGED <<obj, anchor, held>>
    BY <1>1, <2>1
  <2>2. CASE ~UNCHANGED <<obj, anchor, held>>
    <3>1. obj' = [obj EXCEPT ![q].info = TRUE] /\ UNCHANGED <<anchor, held>> /\ q \in Obj
      BY <1>0, <1>7, <2>2, OpenedIs DEF Postgres!cur_getcoltypes, Postgres!create_coltypes
    <3> QED BY <1>0, <3>1, PutColumns, AlikeStill, StillWorld
  <2> QED BY <2>1, <2>2
<1> HIDE DEF Goal
<1>8. Goal
  <2>1. ASSUME NEW c \in Opened(Conn),
               \/ Postgres!lose(c) \/ Postgres!conn_close(c) \/ Postgres!conn_escape(c) \/ Postgres!conn_execute(c)
               \/ Postgres!conn_commit(c) \/ Postgres!conn_rollback(c)
               \/ \E on \in BOOLEAN : Postgres!conn_setautocommit(c, on)
        PROVE  Goal
    BY <1>1, <1>4, <1>6, <2>1
       DEF Postgres!lose, Postgres!conn_escape, Postgres!conn_execute, Postgres!conn_commit, Postgres!conn_rollback,
           Postgres!conn_setautocommit, Postgres!Nothing, Nothing
  <2>2. ASSUME NEW q \in Opened(Cur), Postgres!cur_fetch(q) \/ Postgres!cur_getcoltypes(q) \/ Postgres!cur_close(q)
        PROVE  Goal
    BY <1>1, <1>4, <1>7, <2>2 DEF Postgres!cur_fetch, Postgres!cur_close, Postgres!Nothing, Nothing
  <2>3. ASSUME NEW e \in Opened(Env), Postgres!env_connect(e) \/ Postgres!env_close(e) PROVE Goal
    <3>1. e \in Env
      BY <1>0, OpenedIs
    <3> QED BY <1>3, <1>4, <2>3, <3>1 DEF Postgres!env_connect
  <2>4. ASSUME NEW e \in Collectable(Env), Postgres!env_gc(e) PROVE Goal
    <3>1. e \in Env
      BY DEF Collectable
    <3> QED BY <1>5, <2>4, <3>1
  <2> QED BY <1>2, <1>5, <2>1, <2>2, <2>3, <2>4, PostgresNames DEF Postgres!Next
<1> QED BY <1>8 DEF Goal

LEMMA Lite3Names ==
  ASSUME NEW S
  PROVE  /\ Lite3!Width = Width
         /\ Lite3!Fresh(S) \subseteq Unused(S) /\ Lite3!Opened(S) = Opened(S) /\ Lite3!Collectable(S) = Collectable(S)
         /\ Lite3!Vacant = Vacant
         /\ \A f, o : Lite3!Shut(f, o) = Shut(f, o)
         /\ \A p : Lite3!New(p) = New(p)
         /\ \A p, n : Lite3!NewCursor(p, n) = NewCursor(p, n)
<1>1. Lite3!Opened(S) = Opened(S)
  BY DEF Lite3!Opened, Opened, Lite3!Here, Here
<1>0. Lite3!Obj = Obj
  BY DEF Lite3!Obj, Obj
<1>2. Lite3!Fresh(S) \subseteq Unused(S)
  BY <1>0 DEF Lite3!Fresh, Lite3!Live, Unused
<1>3. Lite3!Collectable(S) = Collectable(S)
  <2>2. \A o : Lite3!Unreached(o) <=> Unreached(o)
    BY <1>0 DEF Lite3!Unreached, Unreached, Lite3!Anchored, Anchored
  <2>3. \A o : Lite3!Children(o) = Children(o)
    BY <1>0 DEF Lite3!Children, Children
  <2> QED BY <2>2, <2>3 DEF Lite3!Collectable, Collectable
<1>4. Lite3!Vacant = Vacant
  BY DEF Lite3!Vacant, Vacant
<1>5. ASSUME NEW f, NEW o PROVE Lite3!Shut(f, o) = Shut(f, o)
  BY Zenon DEF Lite3!Shut, Shut
<1>6. \A p : Lite3!New(p) = New(p)
  BY Zenon, <1>4 DEF Lite3!New, New
<1>7. \A p, n : Lite3!NewCursor(p, n) = NewCursor(p, n)
  BY <1>6 DEF Lite3!NewCursor, NewCursor
<1>8. Lite3!Width = Width
  BY DEF Lite3!Width, Width
<1> QED BY <1>1, <1>2, <1>3, <1>4, <1>5, <1>6, <1>7, <1>8

\* The methods of SQLite 3.
LEMMA Lite3World ==
  ASSUME SqlIInv, driver = "sqlite3", Lite3!Next
  PROVE  World(driver, obj', anchor', held') /\ Steady(obj')
<1> DEFINE Goal == World(driver, obj', anchor', held') /\ Steady(obj')
<1>0. /\ Sound(driver, obj) /\ obj \in Tables /\ Env \subseteq Obj /\ Conn \subseteq Obj /\ Cur \subseteq Obj
      /\ driver \notin {"odbc", "firebird"}
  BY DEF SqlIInv, World, Sound, Shape, Obj
<1>t. \A p : Tracks(driver, p) <=> p \in Conn \cup Stmt
  BY Places DEF Tracks, Counting, CountingEnv, SqliteDrivers
<1>d. driver \in Leaky
  BY DEF Leaky
<1>1. ASSUME Nothing \/ UNCHANGED <<obj, anchor, held>> PROVE Goal
  BY <1>0, <1>1, MovesKeepWorld, SteadyMoves DEF Nothing
<1>2. ASSUME Lite3!create_environment PROVE Goal
  <2>1. EnvMove
    BY Zenon, <1>2, Lite3Names DEF Lite3!create_environment, EnvMove
  <2> QED BY <1>0, <2>1, MovesKeepWorld, SteadyMoves
<1>3. ASSUME NEW e \in Opened(Env), Lite3!create_connection(e) PROVE Goal
  <2>0. ~Tracks(driver, e)
    BY <1>0, <1>t, OpenedIs, Places
  <2>1. ConnMove(e)
    BY Zenon, <1>t, <2>0, <1>3, Lite3Names DEF Lite3!create_connection, Lite3!Ref, ConnMove, Grown
  <2> QED BY <1>0, <2>1, MovesKeepWorld, SteadyMoves
<1>4. ASSUME NEW x \in Opened(Env) \cup Opened(Cur), (x \in Env /\ Lite3!env_close(x)) \/ (x \in Cur /\ Lite3!finalize(x)) PROVE Goal
  <2>0. obj[x].up \in Above(driver, x) /\ obj[x].st = "open"
    BY <1>0, OpenedIs DEF Sound, Shape
  <2>1. ShutMove(x)
    <3>1. CASE x \in Env /\ Lite3!env_close(x)
      <4>1. ~Tracks(driver, x) /\ ~Tracks(driver, obj[x].up)
        BY <1>t, <2>0, <3>1, Places DEF Above, Obj
      <4> QED BY Zenon, <3>1, <4>1, Lite3Names DEF Lite3!env_close, ShutMove, Shrunk
    <3>2. CASE x \in Cur /\ Lite3!finalize(x)
      <4>1. ~Tracks(driver, x) /\ Tracks(driver, obj[x].up)
        BY <1>t, <2>0, <3>2, Places DEF Above, Obj
      <4> QED BY Zenon, <3>2, <4>1, Lite3Names DEF Lite3!finalize, Lite3!cur_nullify, Lite3!Unref, ShutMove, Shrunk
    <3> QED BY <1>4, <3>1, <3>2
  <2> QED BY <1>0, <2>1, MovesKeepWorld, SteadyMoves
<1>5. ASSUME NEW x \in Collectable(Env) \cup Collectable(Conn) \cup Collectable(Cur),
             (x \in Env /\ Lite3!env_gc(x)) \/ (x \in Conn /\ Lite3!conn_gc(x)) \/ (x \in Cur /\ Lite3!cur_gc(x))
      PROVE  Goal
  <2>0. obj[x].up \in Above(driver, x)
    BY <1>0, CollectableIs DEF Sound, Shape
  <2>1. GoneMove(x)
    <3>1. CASE x \in Env \cup Conn /\ (Lite3!env_gc(x) \/ Lite3!conn_gc(x)) /\ (x \notin Env => Lite3!conn_gc(x))
      <4>1. ~Tracks(driver, obj[x].up)
        BY <1>t, <2>0, <3>1, Places DEF Above, Obj
      <4> QED BY Zenon, <3>1, <4>1, Lite3Names DEF Lite3!env_gc, Lite3!conn_gc, Lite3!Unref, Lite3!Gone, GoneMove
    <3>2. CASE x \in Cur /\ Lite3!cur_gc(x)
      <4>1. Tracks(driver, obj[x].up)
        BY <1>t, <2>0, <3>2, Places DEF Above, Obj
      <4> QED BY Zenon, <3>2, <4>1, Lite3Names DEF Lite3!cur_gc, Lite3!cur_nullify, Lite3!Unref, Lite3!Gone, GoneMove, Shrunk
    <3> QED BY <1>5, <3>1, <3>2
  <2> QED BY <1>0, <2>1, MovesKeepWorld, SteadyMoves
<1>6. ASSUME NEW c \in Opened(Conn), Lite3!create_cursor(c) PROVE Goal
  <2>1. CurMove(c)
    <3>1. 1 \in Width /\ Tracks(driver, c)
      BY <1>0, <1>t, OpenedIs DEF Width
    <3> QED BY Zenon, <1>6, <3>1, Lite3Names DEF Lite3!create_cursor, Lite3!Ref, CurMove, Grown
  <2> QED BY <1>0, <2>1, MovesKeepWorld, SteadyMoves
<1>7. ASSUME NEW c \in Opened(Conn), Lite3!conn_close(c) PROVE Goal
  <2>1. CASE UNCHANGED <<obj, anchor, held>>
    BY <1>1, <2>1
  <2>2. CASE ~UNCHANGED <<obj, anchor, held>>
    <3> DEFINE v == IF obj[c].left THEN "open" ELSE "freed"
    <3>1. /\ obj' = [[obj EXCEPT ![c].st = "closed"] EXCEPT ![c].native = v]
          /\ anchor' = anchor \ {<<c, obj[c].up>>} /\ held' = held /\ ~(obj[c].lock > 0)
      BY Zenon, <1>7, <2>2 DEF Lite3!conn_close, Lite3!Closed, Lite3!Unref
    <3>2. v = "freed" \/ (v = "open" /\ obj[c].left)
      OBVIOUS
    <3> HIDE DEF v
    <3> QED BY <1>0, <1>t, <3>1, <3>2, ConnClosed
  <2> QED BY <2>1, <2>2
<1>8. ASSUME NEW c \in Opened(Conn), Lite3!Refused(c) PROVE Goal
  <2>1. obj' = [obj EXCEPT ![c].left = TRUE] /\ UNCHANGED <<anchor, held>> /\ c \in Obj
    BY <1>0, <1>8, OpenedIs DEF Lite3!Refused
  <2>2. MayLeak(driver, c)
    BY <1>0, <1>d, <1>8, OpenedIs DEF MayLeak
  <2>3. Still(driver, obj, obj') /\ World(driver, obj', anchor, held)
    BY <2>1, <2>2, LeftStill
  <2> QED BY <2>1, <2>3 DEF Still, Steady
<1> HIDE DEF Goal
<1>9. Goal
  <2>1. ASSUME NEW c \in Opened(Conn),
               \/ Lite3!conn_close(c) \/ Lite3!conn_execute(c) \/ Lite3!conn_commit(c) \/ Lite3!conn_rollback(c)
               \/ \E on \in BOOLEAN : Lite3!conn_setautocommit(c, on)
        PROVE  Goal
    BY <1>1, <1>6, <1>7, <1>8, <2>1
       DEF Lite3!conn_execute, Lite3!conn_commit, Lite3!conn_rollback, Lite3!conn_setautocommit, Lite3!Nothing, Lite3!Nothing, Nothing,
           Lite3!EndWork, Lite3!Rollback, Lite3!Step
  <2>2. ASSUME NEW q \in Opened(Cur), Lite3!cur_fetch(q) \/ Lite3!cur_close(q) PROVE Goal
    <3>1. q \in Cur
      BY <1>0, OpenedIs
    <3> QED BY <1>1, <1>4, <2>2, <3>1 DEF Lite3!cur_fetch, Lite3!cur_close, Lite3!Nothing, Nothing
  <2>3. ASSUME NEW e \in Opened(Env), Lite3!env_connect(e) \/ Lite3!env_close(e) PROVE Goal
    <3>1. e \in Env
      BY <1>0, OpenedIs
    <3> QED BY <1>3, <1>4, <2>3, <3>1 DEF Lite3!env_connect
  <2>4. ASSUME NEW x \in Collectable(Env) \cup Collectable(Conn) \cup Collectable(Cur),
               \/ x \in Collectable(Env) /\ Lite3!env_gc(x)
               \/ x \in Collectable(Conn) /\ Lite3!conn_gc(x)
               \/ x \in Collectable(Cur) /\ Lite3!cur_gc(x)
        PROVE  Goal
    <3>1. \A S : Collectable(S) \subseteq S
      BY DEF Collectable
    <3> QED BY <1>5, <2>4, <3>1
  <2> QED BY <1>2, <2>1, <2>2, <2>3, <2>4, Lite3Names DEF Lite3!Next
<1> QED BY <1>9 DEF Goal

LEMMA LiteNames ==
  ASSUME NEW S
  PROVE  /\ Lite!Opened(S) = Opened(S) /\ Lite!Collectable(S) = Collectable(S)
         /\ Lite!L3!Width = Width
         /\ Lite!L3!Fresh(S) \subseteq Unused(S) /\ Lite!L3!Opened(S) = Opened(S) /\ Lite!L3!Collectable(S) = Collectable(S)
         /\ Lite!L3!Vacant = Vacant
         /\ \A f, o : Lite!L3!Shut(f, o) = Shut(f, o)
         /\ \A p : Lite!L3!New(p) = New(p)
         /\ \A p, n : Lite!L3!NewCursor(p, n) = NewCursor(p, n)
<1>1. Lite!L3!Opened(S) = Opened(S)
  BY DEF Lite!L3!Opened, Opened, Lite!L3!Here, Here
<1>0. Lite!L3!Obj = Obj
  BY DEF Lite!L3!Obj, Obj
<1>2. Lite!L3!Fresh(S) \subseteq Unused(S)
  BY <1>0 DEF Lite!L3!Fresh, Lite!L3!Live, Unused
<1>3. Lite!L3!Collectable(S) = Collectable(S)
  <2>2. \A o : Lite!L3!Unreached(o) <=> Unreached(o)
    BY <1>0 DEF Lite!L3!Unreached, Unreached, Lite!L3!Anchored, Anchored
  <2>3. \A o : Lite!L3!Children(o) = Children(o)
    BY <1>0 DEF Lite!L3!Children, Children
  <2> QED BY <2>2, <2>3 DEF Lite!L3!Collectable, Collectable
<1>4. Lite!L3!Vacant = Vacant
  BY DEF Lite!L3!Vacant, Vacant
<1>5. ASSUME NEW f, NEW o PROVE Lite!L3!Shut(f, o) = Shut(f, o)
  BY Zenon DEF Lite!L3!Shut, Shut
<1>6. \A p : Lite!L3!New(p) = New(p)
  BY Zenon, <1>4 DEF Lite!L3!New, New
<1>7. \A p, n : Lite!L3!NewCursor(p, n) = NewCursor(p, n)
  BY <1>6 DEF Lite!L3!NewCursor, NewCursor
<1>8. Lite!L3!Width = Width
  BY DEF Lite!L3!Width, Width
<1>9. Lite!Opened(S) = Opened(S)
  BY DEF Lite!Opened, Opened, Lite!Here, Here
<1>10. Lite!Collectable(S) = Collectable(S)
  <2>1. Lite!Obj = Obj
    BY DEF Lite!Obj, Obj
  <2>2. \A o : Lite!Unreached(o) <=> Unreached(o)
    BY <2>1 DEF Lite!Unreached, Unreached, Lite!Anchored, Anchored
  <2>3. \A o : Lite!Children(o) = Children(o)
    BY <2>1 DEF Lite!Children, Children
  <2> QED BY <2>2, <2>3 DEF Lite!Collectable, Collectable
<1> QED BY <1>1, <1>2, <1>3, <1>4, <1>5, <1>6, <1>7, <1>8, <1>9, <1>10

\* The methods of SQLite 2.
LEMMA LiteWorld ==
  ASSUME SqlIInv, driver = "sqlite", Lite!Next
  PROVE  World(driver, obj', anchor', held') /\ Steady(obj')
<1> DEFINE Goal == World(driver, obj', anchor', held') /\ Steady(obj')
<1>0. /\ Sound(driver, obj) /\ obj \in Tables /\ Env \subseteq Obj /\ Conn \subseteq Obj /\ Cur \subseteq Obj
      /\ driver \notin {"odbc", "firebird"}
  BY DEF SqlIInv, World, Sound, Shape, Obj
<1>t. \A p : Tracks(driver, p) <=> p \in Conn \cup Stmt
  BY Places DEF Tracks, Counting, CountingEnv, SqliteDrivers
<1>1. ASSUME Nothing \/ UNCHANGED <<obj, anchor, held>> PROVE Goal
  BY <1>0, <1>1, MovesKeepWorld, SteadyMoves DEF Nothing
<1>2. ASSUME Lite!L3!create_environment PROVE Goal
  <2>1. EnvMove
    BY Zenon, <1>2, LiteNames DEF Lite!L3!create_environment, EnvMove
  <2> QED BY <1>0, <2>1, MovesKeepWorld, SteadyMoves
<1>3. ASSUME NEW e \in Opened(Env), Lite!L3!create_connection(e) PROVE Goal
  <2>0. ~Tracks(driver, e)
    BY <1>0, <1>t, OpenedIs, Places
  <2>1. ConnMove(e)
    BY Zenon, <1>t, <2>0, <1>3, LiteNames DEF Lite!L3!create_connection, Lite!L3!Ref, ConnMove, Grown
  <2> QED BY <1>0, <2>1, MovesKeepWorld, SteadyMoves
<1>4. ASSUME NEW x \in Opened(Env) \cup Opened(Cur), (x \in Env /\ Lite!L3!env_close(x)) \/ (x \in Cur /\ Lite!L3!finalize(x)) PROVE Goal
  <2>0. obj[x].up \in Above(driver, x) /\ obj[x].st = "open"
    BY <1>0, OpenedIs DEF Sound, Shape
  <2>1. ShutMove(x)
    <3>1. CASE x \in Env /\ Lite!L3!env_close(x)
      <4>1. ~Tracks(driver, x) /\ ~Tracks(driver, obj[x].up)
        BY <1>t, <2>0, <3>1, Places DEF Above, Obj
      <4> QED BY Zenon, <3>1, <4>1, LiteNames DEF Lite!L3!env_close, ShutMove, Shrunk
    <3>2. CASE x \in Cur /\ Lite!L3!finalize(x)
      <4>1. ~Tracks(driver, x) /\ Tracks(driver, obj[x].up)
        BY <1>t, <2>0, <3>2, Places DEF Above, Obj
      <4> QED BY Zenon, <3>2, <4>1, LiteNames DEF Lite!L3!finalize, Lite!L3!cur_nullify, Lite!L3!Unref, ShutMove, Shrunk
    <3> QED BY <1>4, <3>1, <3>2
  <2> QED BY <1>0, <2>1, MovesKeepWorld, SteadyMoves
<1>5. ASSUME NEW x \in Collectable(Env) \cup Collectable(Conn) \cup Collectable(Cur),
             (x \in Env /\ Lite!L3!env_gc(x)) \/ (x \in Conn /\ Lite!L3!conn_gc(x)) \/ (x \in Cur /\ Lite!L3!cur_gc(x))
      PROVE  Goal
  <2>0. obj[x].up \in Above(driver, x)
    BY <1>0, CollectableIs DEF Sound, Shape
  <2>1. GoneMove(x)
    <3>1. CASE x \in Env \cup Conn /\ (Lite!L3!env_gc(x) \/ Lite!L3!conn_gc(x)) /\ (x \notin Env => Lite!L3!conn_gc(x))
      <4>1. ~Tracks(driver, obj[x].up)
        BY <1>t, <2>0, <3>1, Places DEF Above, Obj
      <4> QED BY Zenon, <3>1, <4>1, LiteNames DEF Lite!L3!env_gc, Lite!L3!conn_gc, Lite!L3!Unref, Lite!L3!Gone, GoneMove
    <3>2. CASE x \in Cur /\ Lite!L3!cur_gc(x)
      <4>1. Tracks(driver, obj[x].up)
        BY <1>t, <2>0, <3>2, Places DEF Above, Obj
      <4> QED BY Zenon, <3>2, <4>1, LiteNames DEF Lite!L3!cur_gc, Lite!L3!cur_nullify, Lite!L3!Unref, Lite!L3!Gone, GoneMove, Shrunk
    <3> QED BY <1>5, <3>1, <3>2
  <2> QED BY <1>0, <2>1, MovesKeepWorld, SteadyMoves
<1>6. ASSUME NEW c \in Opened(Conn), Lite!L3!create_cursor(c) PROVE Goal
  <2>1. CurMove(c)
    <3>1. 1 \in Width /\ Tracks(driver, c)
      BY <1>0, <1>t, OpenedIs DEF Width
    <3> QED BY Zenon, <1>6, <3>1, LiteNames DEF Lite!L3!create_cursor, Lite!L3!Ref, CurMove, Grown
  <2> QED BY <1>0, <2>1, MovesKeepWorld, SteadyMoves
<1>7. ASSUME NEW c \in Opened(Conn), Lite!L3!conn_close(c) PROVE Goal
  <2>1. CASE UNCHANGED <<obj, anchor, held>>
    BY <1>1, <2>1
  <2>2. CASE ~UNCHANGED <<obj, anchor, held>>
    <3> DEFINE v == IF obj[c].left THEN "open" ELSE "freed"
    <3>1. /\ obj' = [[obj EXCEPT ![c].st = "closed"] EXCEPT ![c].native = v]
          /\ anchor' = anchor \ {<<c, obj[c].up>>} /\ held' = held /\ ~(obj[c].lock > 0)
      BY Zenon, <1>7, <2>2 DEF Lite!L3!conn_close, Lite!L3!Closed, Lite!L3!Unref
    <3>2. v = "freed" \/ (v = "open" /\ obj[c].left)
      OBVIOUS
    <3> HIDE DEF v
    <3> QED BY <1>0, <1>t, <3>1, <3>2, ConnClosed
  <2> QED BY <2>1, <2>2
<1> HIDE DEF Goal
<1>9. Goal
  <2>1. ASSUME NEW c \in Opened(Conn),
               \/ Lite!conn_close(c) \/ Lite!conn_execute(c) \/ Lite!conn_commit(c) \/ Lite!conn_rollback(c)
               \/ \E on \in BOOLEAN : Lite!conn_setautocommit(c, on)
        PROVE  Goal
    BY <1>1, <1>6, <1>7, <2>1
       DEF Lite!conn_execute, Lite!conn_commit, Lite!conn_rollback, Lite!conn_setautocommit, Lite!Nothing, Lite!L3!Nothing, Nothing,
           Lite!L3!EndWork, Lite!L3!Rollback, Lite!create_cursor, Lite!conn_close, Lite!L3!conn_commit, Lite!L3!conn_rollback, Lite!L3!conn_setautocommit
  <2>2. ASSUME NEW q \in Opened(Cur), Lite!cur_fetch(q) \/ Lite!cur_close(q) PROVE Goal
    <3>1. q \in Cur
      BY <1>0, OpenedIs
    <3> QED BY <1>1, <1>4, <2>2, <3>1 DEF Lite!cur_fetch, Lite!cur_close, Lite!Nothing, Nothing, Lite!finalize
  <2>3. ASSUME NEW e \in Opened(Env), Lite!env_connect(e) \/ Lite!env_close(e) PROVE Goal
    <3>1. e \in Env
      BY <1>0, OpenedIs
    <3> QED BY <1>3, <1>4, <2>3, <3>1 DEF Lite!env_connect, Lite!create_connection, Lite!env_close
  <2>4. ASSUME NEW x \in Collectable(Env) \cup Collectable(Conn) \cup Collectable(Cur),
               \/ x \in Collectable(Env) /\ Lite!env_gc(x)
               \/ x \in Collectable(Conn) /\ Lite!conn_gc(x)
               \/ x \in Collectable(Cur) /\ Lite!cur_gc(x)
        PROVE  Goal
    <3>1. \A S : Collectable(S) \subseteq S
      BY DEF Collectable
    <3> QED BY <1>5, <2>4, <3>1 DEF Lite!env_gc, Lite!conn_gc, Lite!cur_gc
  <2> QED BY <1>2, <2>1, <2>2, <2>3, <2>4, LiteNames DEF Lite!Next, Lite!create_environment
<1> QED BY <1>9 DEF Goal

\* Oracle: a collection at the end, and a cursor collected in a state that
\* runs, whose connection keeps an entry for itself.
LEMMA EndLeave ==
  ASSUME SqlIInv, driver \notin {"odbc", "firebird"}, closing, NEW f, NEW x, Leaving(driver, obj, f, x),
         obj[x].up \notin Conn, x \notin held
  PROVE  World(driver, f, anchor, held)
<1>1. Sound(driver, obj) /\ ByChild(driver, obj, anchor, closing)
  BY DEF SqlIInv, World, Registered
<1>2. Sound(driver, f)
  BY <1>1, LeavingIsSound
<1>3. ByChild(driver, f, anchor, closing)
  BY <1>1, ChildLeft
<1>4. HeldOpen(driver, f, held)
  BY DEF SqlIInv, World, HeldOpen, Leaving, Keeps
<1> QED BY <1>2, <1>3, <1>4 DEF World, Registered

LEMMA StrayLeave ==
  ASSUME SqlIInv, driver = "oci8", NEW f, NEW x, Leaving(driver, obj, f, x), x \notin held,
         ~closing => \A h \in Obj : <<h, x>> \notin anchor,
         obj[x].up \in Conn, f[obj[x].up].stuck
  PROVE  World(driver, f, (anchor \ {<<x, obj[x].up>>}) \cup {<<obj[x].up, obj[x].up>>}, held)
<1> DEFINE p == obj[x].up
           b == (anchor \ {<<x, p>>}) \cup {<<p, p>>}
<1>1. Sound(driver, obj) /\ ByChild(driver, obj, anchor, closing)
  BY DEF SqlIInv, World, Registered
<1>2. Sound(driver, f)
  BY <1>1, LeavingIsSound
<1>3. ByChild(driver, f, b, closing)
  <2>1. x # p
    BY <1>1, Places DEF Sound, Shape, Above, Obj, Leaving
  <2>2. /\ b \subseteq anchor \cup {<<p, p>>} /\ anchor \ {<<x, p>>} \subseteq b
        /\ <<x, p>> \notin b /\ <<p, p>> \in b /\ b \ anchor \subseteq {<<p, p>>}
    BY <2>1
  <2> HIDE DEF b
  <2> QED BY <1>1, <2>2, ChildLeft
<1>4. HeldOpen(driver, f, held)
  BY DEF SqlIInv, World, HeldOpen, Leaving, Keeps
<1> QED BY <1>2, <1>3, <1>4 DEF World, Registered

LEMMA Oci8Names ==
  ASSUME NEW S
  PROVE  /\ Oci8!Width = Width
         /\ Oci8!Fresh(S) \subseteq Unused(S) /\ Oci8!Opened(S) = Opened(S) /\ Oci8!Collectable(S) = Collectable(S)
         /\ Oci8!Vacant = Vacant
         /\ \A f, o : Oci8!Shut(f, o) = Shut(f, o)
         /\ \A p : Oci8!New(p) = New(p)
         /\ \A p, n : Oci8!NewCursor(p, n) = NewCursor(p, n)
<1>1. Oci8!Opened(S) = Opened(S)
  BY DEF Oci8!Opened, Opened, Oci8!Here, Here
<1>0. Oci8!Obj = Obj
  BY DEF Oci8!Obj, Obj
<1>2. Oci8!Fresh(S) \subseteq Unused(S)
  BY <1>0 DEF Oci8!Fresh, Oci8!Live, Unused
<1>3. Oci8!Collectable(S) = Collectable(S)
  <2>2. \A o : Oci8!Unreached(o) <=> Unreached(o)
    BY <1>0 DEF Oci8!Unreached, Unreached, Oci8!Anchored, Anchored
  <2>3. \A o : Oci8!Children(o) = Children(o)
    BY <1>0 DEF Oci8!Children, Children
  <2> QED BY <2>2, <2>3 DEF Oci8!Collectable, Collectable
<1>4. Oci8!Vacant = Vacant
  BY DEF Oci8!Vacant, Vacant
<1>5. ASSUME NEW f, NEW o PROVE Oci8!Shut(f, o) = Shut(f, o)
  BY Zenon DEF Oci8!Shut, Shut
<1>6. \A p : Oci8!New(p) = New(p)
  BY Zenon, <1>4 DEF Oci8!New, New
<1>7. \A p, n : Oci8!NewCursor(p, n) = NewCursor(p, n)
  BY <1>6 DEF Oci8!NewCursor, NewCursor
<1>8. Oci8!Width = Width
  BY DEF Oci8!Width, Width
<1> QED BY <1>1, <1>2, <1>3, <1>4, <1>5, <1>6, <1>7, <1>8

\* The methods of Oracle.
LEMMA Oci8World ==
  ASSUME SqlIInv, driver = "oci8", Oci8!Next
  PROVE  World(driver, obj', anchor', held')
<1> DEFINE Goal == World(driver, obj', anchor', held')
<1>0. /\ Sound(driver, obj) /\ obj \in Tables /\ Env \subseteq Obj /\ Conn \subseteq Obj /\ Cur \subseteq Obj
      /\ driver \notin {"odbc", "firebird"}
  BY DEF SqlIInv, World, Sound, Shape, Obj
<1>t. \A p : Tracks(driver, p) <=> p \in Env \cup Conn \cup Stmt
  BY Places DEF Tracks, Counting, CountingEnv, SqliteDrivers
<1>1. ASSUME Nothing \/ UNCHANGED <<obj, anchor, held>> PROVE Goal
  BY <1>0, <1>1, MovesKeepWorld DEF Nothing
<1>2. ASSUME Oci8!create_environment PROVE Goal
  <2>1. EnvMove
    BY Zenon, <1>2, Oci8Names DEF Oci8!create_environment, EnvMove
  <2> QED BY <1>0, <2>1, MovesKeepWorld
<1>3. ASSUME NEW e \in Opened(Env), Oci8!env_connect(e) PROVE Goal
  <2>1. e \in Env /\ e \in Obj /\ Tracks(driver, e)
    BY <1>0, <1>t, OpenedIs
  <2>2. CASE anchor' = anchor \cup {<<e, e>>} /\ UNCHANGED <<obj, held>>
    BY <1>0, <2>1, <2>2 DEF SqlIInv, World, Registered, ByChild
  <2>3. CASE ~(anchor' = anchor \cup {<<e, e>>} /\ UNCHANGED <<obj, held>>)
    <3>1. ConnMove(e)
      BY Zenon, <1>3, <2>1, <2>3, Oci8Names DEF Oci8!env_connect, Oci8!Ref, ConnMove, Grown
    <3> QED BY <1>0, <3>1, MovesKeepWorld
  <2> QED BY <2>2, <2>3
<1>4. ASSUME NEW x \in Opened(Env) \cup Opened(Conn) \cup Opened(Cur),
             \/ x \in Env /\ Oci8!env_close(x) /\ ~Oci8!Raises(x)
             \/ x \in Conn /\ Oci8!conn_close(x) /\ ~Oci8!Raises(x)
             \/ x \in Cur /\ Oci8!cur_close(x)
      PROVE  Goal
  <2>0. obj[x].up \in Above(driver, x) /\ obj[x].st = "open"
    BY <1>0, OpenedIs DEF Sound, Shape
  <2>1. ShutMove(x)
    <3>1. CASE x \in Env /\ Oci8!env_close(x) /\ ~Oci8!Raises(x)
      <4>1. ~Tracks(driver, obj[x].up) /\ ~(obj[x].lock > 0)
        BY <1>t, <2>0, <3>1, Places DEF Above, Obj, Oci8!Raises
      <4> QED BY Zenon, <3>1, <4>1, Oci8Names DEF Oci8!env_close, ShutMove, Shrunk
    <3>2. CASE x \in Conn /\ Oci8!conn_close(x) /\ ~Oci8!Raises(x)
      <4>1. Tracks(driver, obj[x].up) /\ ~(obj[x].lock > 0)
        BY <1>t, <2>0, <3>2, Places DEF Above, Obj, Oci8!Raises
      <4> QED BY Zenon, <3>2, <4>1, Oci8Names DEF Oci8!conn_close, Oci8!conn_shut, Oci8!Unref, ShutMove, Shrunk
    <3>3. CASE x \in Cur /\ Oci8!cur_close(x)
      <4>1. Tracks(driver, obj[x].up) /\ ~Tracks(driver, x)
        BY <1>t, <2>0, <3>3, Places DEF Above, Obj
      <4> QED BY Zenon, <3>3, <4>1, Oci8Names DEF Oci8!cur_close, Oci8!cur_shut, Oci8!Unref, ShutMove, Shrunk
    <3> QED BY <1>4, <3>1, <3>2, <3>3
  <2> QED BY <1>0, <2>1, MovesKeepWorld
<1>5. ASSUME NEW c \in Opened(Conn), Oci8!create_cursor(c) PROVE Goal
  <2>1. PICK q \in Unused(Cur), columns \in Oci8!alloc_column_buffer :
          /\ obj' = [obj EXCEPT ![q] = [NewCursor(c, 1) EXCEPT !.stuck = columns = "some"], ![c].lock = @ + 1]
          /\ anchor' = anchor \cup {<<q, obj'[q].up>>} /\ held' = held \cup Oci8!When(columns = "all", q)
    <3>1. PICK q \in Oci8!Fresh(Cur), columns \in Oci8!alloc_column_buffer :
            /\ obj' = [obj EXCEPT ![q] = [Oci8!NewCursor(c, 1) EXCEPT !.stuck = columns = "some"], ![c].lock = @ + 1]
            /\ anchor' = anchor \cup {<<q, obj'[q].up>>} /\ held' = held \cup Oci8!When(columns = "all", q)
      BY Zenon, <1>5 DEF Oci8!create_cursor, Oci8!Ref
    <3>2. q \in Unused(Cur) /\ Oci8!NewCursor(c, 1) = NewCursor(c, 1)
      BY Oci8Names
    <3> QED BY Zenon, <3>1, <3>2
  <2>2. /\ c \in Obj /\ q \in Cur /\ q \notin Conn /\ c \in Conn /\ c \in Above(driver, q)
        /\ Tracks(driver, c) /\ 1 \in Width
    BY <1>0, <1>t, <2>1, OpenedIs, FreshIs, Places DEF Above, Width, Obj
  <2> DEFINE v == columns = "some"
             r == [NewCursor(c, 1) EXCEPT !.stuck = v]
  <2>3. r \in Userdata /\ r.st = "open" /\ r.native = "open" /\ r.up = c /\ ~r.left /\ r.lock = 0
    <3>1. ASSUME NEW s \in Userdata, NEW w \in BOOLEAN
          PROVE  LET t == [s EXCEPT !.stuck = w]
                 IN  /\ t \in Userdata /\ t.st = s.st /\ t.native = s.native /\ t.up = s.up
                     /\ t.left = s.left /\ t.lock = s.lock
      BY DEF Userdata
    <3>2. v \in BOOLEAN
      OBVIOUS
    <3> HIDE DEF v
    <3> QED BY <2>2, <3>1, <3>2, NewCursorIs
  <2>4. obj' = Grown(driver, obj, q, r, c)
    BY Zenon, <2>1, <2>2 DEF Grown
  <2>5. held' \subseteq held \cup {q}
    BY <2>1 DEF Oci8!When
  <2> HIDE DEF r
  <2>6. /\ Grown(driver, obj, q, r, c)[q].up = c
        /\ World(driver, Grown(driver, obj, q, r, c), anchor \cup {<<q, c>>}, held')
    BY SMTT(30), <1>0, <2>1, <2>2, <2>3, <2>5, ChildPut
  <2> QED BY <2>1, <2>4, <2>6
<1>6. ASSUME NEW x \in Collectable(Env) \cup Collectable(Conn) \cup Collectable(Cur),
             \/ x \in Env /\ Oci8!env_gc(x)
             \/ x \in Conn /\ Oci8!conn_gc(x)
             \/ x \in Cur /\ Oci8!cur_gc(x)
      PROVE  Goal
  <2>0. /\ x \in Obj /\ obj[x].up \in Above(driver, x) /\ obj[x].st # "none" /\ RealOf(driver, obj, x) = {} /\ x \notin held
        /\ ~closing => \A h \in Obj : <<h, x>> \notin anchor
    BY <1>0, CollectableIs DEF Sound, Shape, Alone
  <2>1. CASE x \in Env /\ Oci8!env_gc(x)
    <3>1. ~Tracks(driver, obj[x].up)
      BY <1>t, <2>0, <2>1, Places DEF Above, Obj
    <3>2. GoneMove(x)
      BY Zenon, <2>1, <3>1, Oci8Names DEF Oci8!env_gc, Oci8!Gone, GoneMove
    <3> QED BY <1>0, <3>2, MovesKeepWorld
  <2>2. CASE x \in Conn /\ obj[x].st = "open" /\ obj[x].lock = 0 /\ Oci8!conn_gc(x)
    <3>1. Tracks(driver, obj[x].up)
      BY <1>t, <2>0, <2>2, Places DEF Above, Obj
    <3>2. GoneMove(x)
      BY Zenon, <2>2, <3>1, Oci8Names DEF Oci8!conn_gc, Oci8!Gone, Oci8!conn_shut, Oci8!Unref, GoneMove, Shrunk
    <3> QED BY <1>0, <3>2, MovesKeepWorld
  <2>3. CASE x \in Conn /\ obj[x].st # "open" /\ Oci8!conn_gc(x)
    <3>2. GoneMove(x)
      BY Zenon, <2>3, Oci8Names DEF Oci8!conn_gc, Oci8!Gone, Oci8!Strand, Oci8!Raises, GoneMove
    <3> QED BY <1>0, <3>2, MovesKeepWorld
  <2>4. CASE x \in Conn /\ obj[x].st = "open" /\ obj[x].lock # 0 /\ Oci8!conn_gc(x)
    <3>1. obj[x].up \in Env /\ obj[x].up \in Obj /\ Tracks(driver, x) /\ Real(driver, obj[x])
      BY <1>0, <1>t, <2>0, <2>4, Places DEF Above, Obj, Sound, Handles, Real
    <3>2. Counted(driver, obj, x) /\ obj[x].lock \in 0 .. MaxLock
      BY <1>0, <2>0, <3>1, LockIsNat DEF Sound, Counters
    <3>3. obj[x].stuck /\ obj[x].lock > 0
      BY <2>0, <2>4, <3>2, FS_EmptySet, Places DEF Counted
    <3>4. closing
      BY <1>0, <2>0, <2>4, <3>3 DEF SqlIInv, World, Registered, ByChild
    <3>5. obj[obj[x].up].st # "none"
      BY <1>0, <2>0, <2>4, <3>1, Places DEF Sound, Tree, Obj
    <3>6. obj' = Adrift(obj, x) /\ UNCHANGED <<anchor, held>>
      BY Zenon, <2>4, <3>3, Oci8Names DEF Oci8!conn_gc, Oci8!Gone, Oci8!Strand, Oci8!Raises, Adrift
    <3>7. Leaving(driver, obj, obj', x)
      BY <1>0, <2>0, <2>4, <3>1, <3>5, <3>6, StrandLeaves
    <3> QED BY <1>0, <2>0, <3>1, <3>4, <3>6, <3>7, EndLeave, Places
  <2>5. CASE x \in Cur /\ obj[x].st # "open" /\ Oci8!cur_gc(x)
    <3>2. GoneMove(x)
      BY Zenon, <2>5, Oci8Names DEF Oci8!cur_gc, Oci8!Gone, GoneMove
    <3> QED BY <1>0, <3>2, MovesKeepWorld
  <2>6. CASE x \in Cur /\ obj[x].st = "open" /\ ~obj[x].stuck /\ Oci8!cur_gc(x)
    <3>1. Tracks(driver, obj[x].up)
      BY <1>t, <2>0, <2>6, Places DEF Above, Obj
    <3>2. GoneMove(x)
      BY Zenon, <2>6, <3>1, Oci8Names
         DEF Oci8!cur_gc, Oci8!Gone, Oci8!free_column_buffers, Oci8!cur_shut, Oci8!Unref, GoneMove, Shrunk
    <3> QED BY <1>0, <3>2, MovesKeepWorld
  <2>7. CASE x \in Cur /\ obj[x].st = "open" /\ obj[x].stuck /\ Oci8!cur_gc(x)
    <3>1. obj[x].up \in Conn /\ obj[x].up \in Obj /\ Tracks(driver, obj[x].up) /\ Real(driver, obj[x])
      BY <1>0, <1>t, <2>0, <2>7, Places DEF Above, Obj, Sound, Handles, Real
    <3>2. obj[obj[x].up].st # "none"
      BY <1>0, <2>0, <2>7, <3>1, Places DEF Sound, Tree, Obj
    <3>3. /\ obj' = Adrift(obj, x) /\ UNCHANGED held
          /\ anchor' = (anchor \ {<<x, obj[x].up>>}) \cup {<<obj[x].up, obj[x].up>>}
      BY Zenon, <2>7, <3>2, Oci8Names DEF Oci8!cur_gc, Oci8!Gone, Oci8!free_column_buffers, Adrift
    <3>4. Leaving(driver, obj, obj', x) /\ obj'[obj[x].up].stuck
      BY <1>0, <2>0, <2>7, <3>1, <3>2, <3>3, StrandLeaves
    <3> QED BY <1>0, <2>0, <3>1, <3>3, <3>4, StrayLeave
  <2> QED BY <1>6, <2>1, <2>2, <2>3, <2>4, <2>5, <2>6, <2>7
<1> HIDE DEF Goal
<1>7. Goal
  <2>1. ASSUME NEW c \in Opened(Conn),
               \/ Oci8!conn_close(c) \/ Oci8!conn_execute(c) \/ Oci8!conn_commit(c) \/ Oci8!conn_rollback(c)
               \/ \E on \in BOOLEAN : Oci8!conn_setautocommit(c, on)
        PROVE  Goal
    <3>1. c \in Conn
      BY <1>0, OpenedIs
    <3>2. Oci8!conn_close(c) /\ Oci8!Raises(c) => UNCHANGED <<obj, anchor, held>>
      BY DEF Oci8!conn_close
    <3> QED BY <1>1, <1>4, <1>5, <2>1, <3>1, <3>2
            DEF Oci8!conn_execute, Oci8!conn_commit, Oci8!conn_rollback, Oci8!EndTran, Oci8!conn_setautocommit,
                Oci8!Nothing, Nothing
  <2>2. ASSUME NEW q \in Opened(Cur), Oci8!cur_fetch(q) \/ Oci8!cur_close(q) PROVE Goal
    <3>1. q \in Cur
      BY <1>0, OpenedIs
    <3> QED BY <1>1, <1>4, <2>2, <3>1 DEF Oci8!cur_fetch, Oci8!Nothing, Nothing
  <2>3. ASSUME NEW e \in Opened(Env), Oci8!env_connect(e) \/ Oci8!env_close(e) PROVE Goal
    <3>1. e \in Env
      BY <1>0, OpenedIs
    <3>2. Oci8!env_close(e) /\ Oci8!Raises(e) => UNCHANGED <<obj, anchor, held>>
      BY DEF Oci8!env_close
    <3> QED BY <1>1, <1>3, <1>4, <2>3, <3>1, <3>2
  <2>4. ASSUME NEW x \in Collectable(Env) \cup Collectable(Conn) \cup Collectable(Cur),
               \/ x \in Collectable(Env) /\ Oci8!env_gc(x)
               \/ x \in Collectable(Conn) /\ Oci8!conn_gc(x)
               \/ x \in Collectable(Cur) /\ Oci8!cur_gc(x)
        PROVE  Goal
    <3>1. \A S : Collectable(S) \subseteq S
      BY DEF Collectable
    <3> QED BY <1>6, <2>4, <3>1
  <2> QED BY <1>2, <2>1, <2>2, <2>3, <2>4, Oci8Names DEF Oci8!Next
<1> QED BY <1>7 DEF Goal

-----------------------------------------------------------------------------
(* The drivers whose parents hold an entry for themselves: Firebird, then  *)
(* ODBC.                                                                   *)

\* A world through the steps of these drivers, as above.
LEMMA MakeParent ==
  ASSUME driver \in {"odbc", "firebird"}, NEW f, NEW a, NEW h, World(driver, f, a, h),
         NEW g, NEW b, NEW k, NEW x, NEW p, Making(driver, f, g, x, p),
         b \subseteq a \cup {<<p, p>>}, \A r \in a : r \in b \/ (r = <<p, p>> /\ p \in Stmt),
         <<p, p>> \in b \ a => Real(driver, g[x]) /\ p # None,
         Real(driver, g[x]) /\ p # None /\ p \notin Stmt => <<p, p>> \in b,
         k \subseteq h \cup {x}, x \in k => g[x].native # "null"
  PROVE  World(driver, g, b, k)
<1>1. Sound(driver, g)
  BY MakingIsSound DEF World
<1>2. ByParent(driver, g, b, closing)
  <2>1. Sound(driver, f) /\ ByParent(driver, f, a, closing)
    BY DEF World, Registered
  <2> HIDE DEF Making
  <2> QED BY <2>1, ParentMade
<1>3. HeldOpen(driver, g, k)
  <2>1. x \in Obj /\ g[x].st = "open"
    BY DEF Making
  <2>2. \A o \in Obj \ {x} : g[o].st = f[o].st /\ g[o].native = f[o].native
    BY DEF Making, Keeps
  <2> HIDE DEF Making
  <2> QED BY <2>1, <2>2 DEF World, HeldOpen
<1> QED BY <1>1, <1>2, <1>3 DEF World, Registered

LEMMA LeaveParent ==
  ASSUME driver \in {"odbc", "firebird"}, NEW f, NEW a, NEW h, World(driver, f, a, h),
         NEW g, NEW b, NEW x, Leaving(driver, f, g, x),
         b \subseteq a, a \ {<<f[x].up, f[x].up>>, <<x, x>>} \subseteq b,
         <<x, x>> \in a \ b => RealOf(driver, f, x) = {},
         f[x].up \in Obj /\ <<f[x].up, f[x].up>> \in a \ b => g[f[x].up].lock <= 0,
         ~closing /\ f[x].up \in Obj /\ <<f[x].up, f[x].up>> \in b =>
           g[f[x].up].lock > 0 \/ (driver = "firebird" /\ f[x].up \in Conn),
         g[x].st = "none" => x \notin h /\ (~closing => \A y \in Obj : <<y, x>> \notin a),
         x \in h => driver = "odbc" \/ g[x].native # "null"
  PROVE  World(driver, g, b, h)
<1>1. Sound(driver, g)
  BY LeavingIsSound DEF World
<1>2. ByParent(driver, g, b, closing)
  <2>1. Sound(driver, f) /\ ByParent(driver, f, a, closing)
    BY DEF World, Registered
  <2> HIDE DEF Leaving
  <2> QED BY <1>1, <2>1, ParentLeft
<1>3. HeldOpen(driver, g, h)
  <2>1. \A o \in Obj \ {x} : g[o].st = f[o].st /\ g[o].native = f[o].native
    BY DEF Leaving, Keeps
  <2> HIDE DEF Leaving
  <2> QED BY <2>1 DEF World, HeldOpen
<1> QED BY <1>1, <1>2, <1>3 DEF World, Registered

\* A new object and the entry of its parent.
LEMMA ParentPut ==
  ASSUME driver \in {"odbc", "firebird"}, NEW f, NEW a, NEW h, World(driver, f, a, h),
         NEW x \in Obj, f[x].st = "none", \A y \in Obj : f[y].up # x,
         NEW p \in Obj, p \in Above(driver, x), f[p].st = "open", f[p].lock < MaxLock,
         NEW r \in Userdata, r.st = "open", r.up = p, r.lock = 0, ~r.left, r.native = "open",
         NEW b, b = a \cup {<<p, p>>} \/ (b = a \ {<<p, p>>} /\ p \in Stmt),
         NEW k, k \subseteq h \cup {x}
  PROVE  /\ Making(driver, f, Grown(driver, f, x, r, p), x, p)
         /\ Grown(driver, f, x, r, p)[x] = r
         /\ World(driver, Grown(driver, f, x, r, p), b, k)
<1> DEFINE g == Grown(driver, f, x, r, p)
<1>0. f \in Tables /\ x # p /\ Real(driver, r) /\ p # None
  BY Places DEF Above, Obj, World, Sound, Shape, Real
<1>1. Making(driver, f, g, x, p)
  BY GrownIs DEF World
<1>2. g[x] = r
  <2>1. CASE Tracks(driver, p)
    <3>1. g = [[f EXCEPT ![x] = r] EXCEPT ![p].lock = f[p].lock + 1]
      BY Zenon, <1>0, <2>1 DEF Grown
    <3>2. [f EXCEPT ![x] = r] \in Tables /\ [f EXCEPT ![x] = r][x] = r
      BY <1>0 DEF Tables
    <3>3. f[p].lock + 1 \in Int
      BY <1>0 DEF Tables, Userdata
    <3> QED BY <1>0, <3>1, <3>2, <3>3, PutLock
  <2>2. CASE ~Tracks(driver, p)
    BY <1>0, <2>2 DEF Grown, Tables
  <2> QED BY <2>1, <2>2
<1> HIDE DEF g
<1>3. World(driver, g, b, k)
  <2>1. Real(driver, g[x]) /\ g[x].native # "null"
    BY <1>0, <1>2
  <2>2. /\ b \subseteq a \cup {<<p, p>>} /\ (p \notin Stmt => <<p, p>> \in b)
        /\ \A y \in a : y \in b \/ (y = <<p, p>> /\ p \in Stmt)
    OBVIOUS
  <2> HIDE DEF Making
  <2> QED BY <1>0, <1>1, <2>1, <2>2, MakeParent
<1> QED BY <1>1, <1>2, <1>3 DEF g

\* A close: the entry of the parent goes with its last child.
LEMMA Unlocks ==
  ASSUME driver \in {"odbc", "firebird"}, NEW f, NEW a, NEW h, World(driver, f, a, h),
         NEW x \in Obj \ Env, Real(driver, f[x]), f[x].up \notin Stmt \/ f[f[x].up].st # "none",
         Tracks(driver, x) => RealOf(driver, f, x) = {},
         NEW b, b = IF f[f[x].up].lock = 1 THEN a \ {<<f[x].up, f[x].up>>} ELSE a
  PROVE  /\ Leaving(driver, f, Shrunk(driver, f, x), x)
         /\ World(driver, Shrunk(driver, f, x), b, h)
         /\ Shrunk(driver, f, x)[x].st = "closed"
         /\ driver = "odbc" \/ Shrunk(driver, f, x)[x].native # "null"
         /\ f[x].up \in Obj /\ Shrunk(driver, f, x)[f[x].up].lock = f[f[x].up].lock - 1
<1> DEFINE g == Shrunk(driver, f, x)
           p == f[x].up
<1>1. /\ Sound(driver, f) /\ f \in Tables /\ p \in Above(driver, x)
      /\ p \in Obj \ {x} /\ Tracks(driver, p) /\ f[x].st = "open" /\ f[x].native # "null" /\ p \notin Cur
  BY Places DEF World, Sound, Shape, Above, Obj, Real, Tracks, Counting, CountingEnv, Handles
<1>2. f[p].st # "none"
  BY <1>1, Places DEF Sound, Tree, Obj
<1>3. Leaving(driver, f, g, x) /\ g[x].st = "closed" /\ g[p].lock = f[p].lock - 1
  BY <1>1, <1>2, ShrunkIs
<1>4. f[p].lock \in Int /\ f[p].lock > 0
  <2>1. Counted(driver, f, p)
    BY <1>1, <1>2 DEF Sound, Counters
  <2>2. x \in RealOf(driver, f, p)
    BY DEF RealOf
  <2>3. Cardinality(RealOf(driver, f, p)) \in Nat /\ Cardinality(RealOf(driver, f, p)) # 0
    BY <2>2, RealFinite, FS_CardinalityType, FS_EmptySet
  <2> QED BY <1>1, <2>1, <2>3 DEF Counted, Tables, Userdata
<1>5. driver = "odbc" \/ g[x].native # "null"
  <2> DEFINE s == Shut(f, x)
             v == s[p].lock - 1
  <2>1. g = [s EXCEPT ![p].lock = v]
    BY Zenon, <1>1 DEF Shrunk
  <2>2. s \in Tables /\ v \in Int /\ s[x].native = "freed"
    BY <1>1, ShutIs DEF Tables, Userdata
  <2> HIDE DEF s, v
  <2>3. [s EXCEPT ![p].lock = v][x] = s[x]
    BY <1>1, <2>2, PutLock
  <2> QED BY <2>1, <2>2, <2>3
<1> HIDE DEF g
<1>6. /\ b \subseteq a /\ a \ {<<p, p>>, <<x, x>>} \subseteq b
      /\ (<<x, x>> \in a \ b => RealOf(driver, f, x) = {})
      /\ (<<p, p>> \in a \ b => g[p].lock <= 0)
      /\ (<<p, p>> \in b => g[p].lock > 0)
  BY <1>1, <1>3, <1>4
<1> HIDE DEF p
<1>7. World(driver, g, b, h)
  <2> HIDE DEF Leaving
  <2>1. f[x].up = p
    BY DEF p
  <2> QED BY <1>1, <1>3, <1>5, <1>6, <2>1, LeaveParent
<1> QED BY <1>1, <1>3, <1>5, <1>7 DEF g, p

\* A collection of what counts no more.
LEMMA Vacated ==
  ASSUME driver \in {"odbc", "firebird"}, NEW f, NEW a, NEW h, World(driver, f, a, h),
         NEW x \in Obj, f[x].st # "none", RealOf(driver, f, x) = {} \/ (driver = "odbc" /\ x \in Stmt),
         ~Real(driver, f[x]) \/ x \in Env,
         x \notin h, ~closing => \A y \in Obj : <<y, x>> \notin a
  PROVE  /\ Leaving(driver, f, [f EXCEPT ![x] = Vacant], x)
         /\ World(driver, [f EXCEPT ![x] = Vacant], a, h)
<1> DEFINE g == [f EXCEPT ![x] = Vacant]
           p == f[x].up
<1>1. /\ Sound(driver, f) /\ f \in Tables /\ p # x /\ (x \in Env => ~Tracks(driver, p))
      /\ ~closing /\ p \in Obj /\ <<p, p>> \in a => f[p].lock > 0 \/ (driver = "firebird" /\ p \in Conn)
  BY Places DEF World, Sound, Shape, Above, Obj, Registered, ByParent, Tracks
<1>2. Leaving(driver, f, g, x)
  BY <1>1, PutVacant
<1>3. p \in Obj => g[p] = f[p]
  BY <1>1 DEF Tables
<1>6. g[x].st = "none"
  BY <1>1 DEF Vacant, Tables
<1> HIDE DEF g, p
<1>4. f[x].up = p
  BY DEF p
<1>5. World(driver, g, a, h)
  <2> HIDE DEF Leaving
  <2> QED BY <1>1, <1>2, <1>3, <1>4, LeaveParent
<1> QED BY <1>2, <1>5 DEF g

\* A collection that leaves the count of the parent as it was.
LEMMA Stranded ==
  ASSUME driver \in {"odbc", "firebird"}, NEW f, NEW a, NEW h, World(driver, f, a, h),
         NEW x \in Obj \ Env, f[x].st = "open", RealOf(driver, f, x) = {} \/ (driver = "odbc" /\ x \in Stmt),
         f[x].up \notin Stmt, Real(driver, f[x]),
         x \notin h, ~closing => \A y \in Obj : <<y, x>> \notin a,
         NEW g, g = Adrift(f, x)
  PROVE  Leaving(driver, f, g, x) /\ World(driver, g, a, h)
<1> DEFINE p == f[x].up
<1>1. /\ Sound(driver, f) /\ p \in Obj
      /\ ~closing /\ p \in Obj /\ <<p, p>> \in a => f[p].lock > 0 \/ (driver = "firebird" /\ p \in Conn)
  BY Places DEF World, Sound, Shape, Above, Obj, Registered, ByParent
<1>2. f[p].st # "none"
  BY <1>1, Places DEF Sound, Tree, Obj
<1>3. Leaving(driver, f, g, x) /\ g[p].lock = f[p].lock
  BY <1>1, <1>2, StrandLeaves
<1>4. World(driver, g, a, h)
  <2> HIDE DEF Leaving
  <2> QED BY <1>1, <1>3, LeaveParent
<1> QED BY <1>3, <1>4

LEMMA FirebirdNames ==
  ASSUME NEW S
  PROVE  /\ Firebird!Width = Width
         /\ Firebird!Fresh(S) \subseteq Unused(S) /\ Firebird!Opened(S) = Opened(S) /\ Firebird!Collectable(S) = Collectable(S)
         /\ Firebird!Vacant = Vacant
         /\ \A f, o : Firebird!Shut(f, o) = Shut(f, o)
         /\ \A p : Firebird!New(p) = New(p)
         /\ \A p, n : Firebird!NewCursor(p, n) = NewCursor(p, n)
<1>1. Firebird!Opened(S) = Opened(S)
  BY DEF Firebird!Opened, Opened, Firebird!Here, Here
<1>0. Firebird!Obj = Obj
  BY DEF Firebird!Obj, Obj
<1>2. Firebird!Fresh(S) \subseteq Unused(S)
  BY <1>0 DEF Firebird!Fresh, Firebird!Live, Unused
<1>3. Firebird!Collectable(S) = Collectable(S)
  <2>2. \A o : Firebird!Unreached(o) <=> Unreached(o)
    BY <1>0 DEF Firebird!Unreached, Unreached, Firebird!Anchored, Anchored
  <2>3. \A o : Firebird!Children(o) = Children(o)
    BY <1>0 DEF Firebird!Children, Children
  <2> QED BY <2>2, <2>3 DEF Firebird!Collectable, Collectable
<1>4. Firebird!Vacant = Vacant
  BY DEF Firebird!Vacant, Vacant
<1>5. ASSUME NEW f, NEW o PROVE Firebird!Shut(f, o) = Shut(f, o)
  BY Zenon DEF Firebird!Shut, Shut
<1>6. \A p : Firebird!New(p) = New(p)
  BY Zenon, <1>4 DEF Firebird!New, New
<1>7. \A p, n : Firebird!NewCursor(p, n) = NewCursor(p, n)
  BY <1>6 DEF Firebird!NewCursor, NewCursor
<1>8. Firebird!Width = Width
  BY DEF Firebird!Width, Width
<1> QED BY <1>1, <1>2, <1>3, <1>4, <1>5, <1>6, <1>7, <1>8

\* The mark of a cursor that was never filled in through both kinds of step.
LEMMA FilledMade ==
  ASSUME SqlIInv, driver = "firebird", NEW g, NEW x, NEW p, Making(driver, obj, g, x, p),
         x \in Cur => (g[x].stuck <=> g[x].native = "null")
  PROVE  Unfilled(g)
<1>1. \A y \in Cur \ {x} : g[y].st = obj[y].st /\ g[y].native = obj[y].native /\ g[y].stuck = obj[y].stuck
  BY DEF Making, Keeps, Obj
<1> HIDE DEF Making
<1> QED BY <1>1 DEF SqlIInv, Unfilled

LEMMA FilledLeft ==
  ASSUME driver = "firebird", NEW f, Sound(driver, f), Unfilled(f), NEW g, NEW x, Leaving(driver, f, g, x)
  PROVE  Unfilled(g)
<1>1. f[x].up \in Above(driver, x) /\ g[x].st # "open"
  BY DEF Sound, Shape, Leaving, Blank
<1>2. f[x].up \notin Cur
  BY <1>1, Places DEF Above, Obj
<1>3. \A y \in Cur \ {x} : g[y].st = f[y].st /\ g[y].native = f[y].native /\ g[y].stuck = f[y].stuck
  BY <1>2 DEF Leaving, Keeps, Obj
<1> HIDE DEF Leaving
<1> QED BY <1>1, <1>3 DEF Unfilled

\* A cursor that was closed loses its handle, and no count sees it.
LEMMA LostIs ==
  ASSUME NEW f \in Tables, NEW x \in Obj
  PROVE  LET g == [f EXCEPT ![x].native = "lost"]
         IN  /\ g \in Tables /\ \A y \in Obj : g[y].st = f[y].st /\ g[y].stuck = f[y].stuck
             /\ f[x].st = "closed" => Still(driver, f, g)
             /\ [g EXCEPT ![x] = Vacant] = [f EXCEPT ![x] = Vacant]
<1> DEFINE r == [f[x] EXCEPT !.native = "lost"]
           g == [f EXCEPT ![x] = r]
<1>1. ASSUME NEW s \in Userdata
      PROVE  LET t == [s EXCEPT !.native = "lost"]
             IN  /\ t \in Userdata /\ t.st = s.st /\ t.up = s.up /\ t.hidden = s.hidden /\ t.left = s.left
                 /\ t.lock = s.lock /\ t.stuck = s.stuck /\ t.native = "lost"
  BY DEF Userdata
<1>2. /\ r \in Userdata /\ r.st = f[x].st /\ r.up = f[x].up /\ r.hidden = f[x].hidden /\ r.left = f[x].left
      /\ r.lock = f[x].lock /\ r.stuck = f[x].stuck /\ r.native = "lost"
  BY <1>1 DEF Tables
<1>3. [f EXCEPT ![x].native = "lost"] = g
  BY Zenon
<1> HIDE DEF r
<1>4. g \in Tables /\ g[x] = r /\ \A y \in Obj \ {x} : g[y] = f[y]
  BY <1>2 DEF Tables
<1>5. [g EXCEPT ![x] = Vacant] = [f EXCEPT ![x] = Vacant]
  BY DEF Tables
<1> HIDE DEF g
<1>6. f[x].st = "closed" => Still(driver, f, g)
  BY <1>2, <1>4 DEF Still, Leaves
<1>7. \A y \in Obj : g[y].st = f[y].st /\ g[y].stuck = f[y].stuck
  BY <1>2, <1>4
<1> QED BY <1>3, <1>4, <1>5, <1>6, <1>7

LEMMA LostWorld ==
  ASSUME NEW f, NEW a, NEW h, World(driver, f, a, h), Unfilled(f), NEW x \in Cur, f[x].st = "closed"
  PROVE  World(driver, [f EXCEPT ![x].native = "lost"], a, h) /\ Unfilled([f EXCEPT ![x].native = "lost"])
<1> DEFINE g == [f EXCEPT ![x].native = "lost"]
<1>1. f \in Tables /\ x \in Obj
  BY DEF World, Sound, Shape, Obj
<1>2. Still(driver, f, g)
  BY <1>1, LostIs
<1>3. \A y \in Obj : y # x => g[y] = f[y]
  BY <1>1 DEF Tables
<1> HIDE DEF g
<1>4. Sound(driver, g) /\ Registered(driver, g, a, closing)
  BY <1>2, StillIsSound, StillRegistered DEF World
<1>5. HeldOpen(driver, g, h)
  BY <1>2 DEF World, HeldOpen, Still, Real
<1>6. Unfilled(g)
  <2>1. \A q \in Cur : g[q].st = "open" => g[q] = f[q]
    <3>1. g[x].st = "closed" /\ Cur \subseteq Obj
      BY <1>1, <1>2 DEF Still, Obj
    <3> QED BY <1>3, <3>1
  <2> QED BY <2>1 DEF Unfilled
<1> QED BY <1>4, <1>5, <1>6 DEF World, g

\* What conn_execute does to the objects.
LEMMA FirebirdExecutes ==
  ASSUME NEW c, Firebird!conn_execute(c)
  PROVE  \/ UNCHANGED <<obj, anchor, held>>
         \/ \E q \in Unused(Cur), v \in BOOLEAN :
              /\ obj' = [obj EXCEPT ![q] = [NewCursor(c, 1) EXCEPT !.hidden = v], ![c].lock = @ + 1]
              /\ anchor' = anchor \cup {<<c, c>>} /\ held' = held \cup {q}
         \/ \E q \in Unused(Cur) :
              /\ obj' = [obj EXCEPT ![q] = [NewCursor(c, 1) EXCEPT !.stuck = TRUE, !.native = "null"]]
              /\ anchor' = anchor /\ held' = held
<1>1. \/ UNCHANGED <<obj, anchor, held>>
      \/ \E q \in Firebird!Fresh(Cur), type \in Firebird!get_statement_type :
           /\ obj' = [obj EXCEPT ![q] = [Firebird!NewCursor(c, 1) EXCEPT !.hidden = type = "procedure"], ![c].lock = @ + 1]
           /\ anchor' = anchor \cup {<<c, c>>} /\ held' = held \cup {q}
      \/ \E q \in Firebird!Fresh(Cur) :
           /\ obj' = [obj EXCEPT ![q] = [Firebird!NewCursor(c, 1) EXCEPT !.stuck = TRUE, !.native = "null"]]
           /\ anchor' = anchor /\ held' = held
  BY Zenon DEF Firebird!conn_execute, Firebird!Nothing
<1>2. Firebird!NewCursor(c, 1) = NewCursor(c, 1) /\ Firebird!Fresh(Cur) \subseteq Unused(Cur)
  BY FirebirdNames
<1>3. CASE UNCHANGED <<obj, anchor, held>>
  BY Zenon, <1>3
<1>4. ASSUME NEW q \in Firebird!Fresh(Cur), NEW type \in Firebird!get_statement_type,
             /\ obj' = [obj EXCEPT ![q] = [Firebird!NewCursor(c, 1) EXCEPT !.hidden = type = "procedure"], ![c].lock = @ + 1]
             /\ anchor' = anchor \cup {<<c, c>>} /\ held' = held \cup {q}
      PROVE  \E k \in Unused(Cur), v \in BOOLEAN :
               /\ obj' = [obj EXCEPT ![k] = [NewCursor(c, 1) EXCEPT !.hidden = v], ![c].lock = @ + 1]
               /\ anchor' = anchor \cup {<<c, c>>} /\ held' = held \cup {k}
  <2>1. (type = "procedure") \in BOOLEAN /\ q \in Unused(Cur)
    BY <1>2
  <2> QED BY Zenon, <1>2, <1>4, <2>1
<1>5. ASSUME NEW q \in Firebird!Fresh(Cur),
             /\ obj' = [obj EXCEPT ![q] = [Firebird!NewCursor(c, 1) EXCEPT !.stuck = TRUE, !.native = "null"]]
             /\ anchor' = anchor /\ held' = held
      PROVE  \E k \in Unused(Cur) :
               /\ obj' = [obj EXCEPT ![k] = [NewCursor(c, 1) EXCEPT !.stuck = TRUE, !.native = "null"]]
               /\ anchor' = anchor /\ held' = held
  <2>1. q \in Unused(Cur)
    BY <1>2
  <2> QED BY Zenon, <1>2, <1>5, <2>1
<1> QED BY Zenon, <1>1, <1>3, <1>4, <1>5

\* The methods of Firebird.
LEMMA FirebirdWorld ==
  ASSUME SqlIInv, driver = "firebird", Firebird!Next
  PROVE  World(driver, obj', anchor', held') /\ Unfilled(obj')
<1> DEFINE Goal == World(driver, obj', anchor', held') /\ Unfilled(obj')
<1>0. /\ Sound(driver, obj) /\ obj \in Tables /\ Env \subseteq Obj /\ Conn \subseteq Obj /\ Cur \subseteq Obj
      /\ driver \in {"odbc", "firebird"} /\ World(driver, obj, anchor, held) /\ Unfilled(obj)
  BY DEF SqlIInv, World, Sound, Shape, Obj
<1>t. \A p : Tracks(driver, p) <=> p \in Env \cup Conn \cup Stmt
  BY Places DEF Tracks, Counting, CountingEnv, SqliteDrivers
<1>u. \A x \in Obj : obj[x].st # "none" => obj[x].up \in Above(driver, x) /\ obj[x].up # x
  BY <1>0, Places DEF Sound, Shape, Above, Obj
<1>r. \A x \in Obj : Real(driver, obj[x]) <=> obj[x].st = "open" /\ obj[x].native # "null"
  BY DEF Real
<1>1. ASSUME Nothing \/ UNCHANGED <<obj, anchor, held>> PROVE Goal
  BY <1>0, <1>1 DEF Nothing, SqlIInv
<1>2. ASSUME Firebird!create_environment PROVE Goal
  <2>1. PICK e \in Unused(Env) : obj' = [obj EXCEPT ![e] = New(None)] /\ anchor' = anchor /\ held' = held \cup {e}
    BY Zenon, <1>2, FirebirdNames DEF Firebird!create_environment
  <2>2. World(driver, obj', anchor', held')
    BY <2>1, EnvPut
  <2>3. Unfilled(obj')
    <3>1. e \notin Cur
      BY FreshIs, Places DEF Obj
    <3>2. \A q \in Cur : obj'[q] = obj[q]
      BY <1>0, <2>1, <3>1 DEF Tables
    <3> QED BY <1>0, <3>2 DEF Unfilled
  <2> QED BY <2>2, <2>3
<1>3. ASSUME NEW e \in Opened(Env), Firebird!env_connect(e) PROVE Goal
  <2>1. CASE Firebird!Nothing
    BY <1>1, <2>1 DEF Firebird!Nothing
  <2>2. CASE ~Firebird!Nothing
    <3>1. PICK c \in Unused(Conn) :
            /\ obj' = [obj EXCEPT ![c] = New(e), ![e].lock = @ + 1]
            /\ anchor' = anchor \cup {<<e, e>>} /\ held' = held \cup {c}
      BY Zenon, <1>3, <2>2, FirebirdNames DEF Firebird!env_connect
    <3>2. e \in Env /\ e \in Obj /\ c \in Conn /\ e \in Above(driver, c) /\ e \notin Stmt /\ c \notin Cur /\ Tracks(driver, e)
      BY <1>0, <1>t, OpenedIs, FreshIs, Places DEF Above, Obj
    <3>3. obj' = Grown(driver, obj, c, New(e), e)
      BY Zenon, <3>1, <3>2 DEF Grown
    <3>4. /\ New(e) \in Userdata /\ New(e).st = "open" /\ New(e).native = "open"
          /\ New(e).up = e /\ ~New(e).left /\ New(e).lock = 0
      BY <3>2, NewIs
    <3>6. /\ Making(driver, obj, Grown(driver, obj, c, New(e), e), c, e)
          /\ World(driver, Grown(driver, obj, c, New(e), e), anchor \cup {<<e, e>>}, held \cup {c})
      <4>1. c \in Obj /\ obj[c].st = "none" /\ (\A y \in Obj : obj[y].up # c /\ obj[y].lock < MaxLock) /\ obj[e].st = "open"
        BY <1>0, FreshIs, OpenedIs
      <4> QED BY SMTT(30), <1>0, <3>2, <3>4, <4>1, ParentPut
    <3>5. Making(driver, obj, obj', c, e) /\ World(driver, obj', anchor', held')
      BY <3>1, <3>3, <3>6
    <3> QED BY <3>2, <3>5, FilledMade
  <2> QED BY <2>1, <2>2
<1>4. ASSUME NEW e \in Opened(Env), Firebird!env_close(e) PROVE Goal
  <2>1. CASE obj[e].lock > 0
    BY <1>1, <1>4, <2>1 DEF Firebird!env_close
  <2>2. CASE ~(obj[e].lock > 0)
    <3>1. obj' = Shut(obj, e) /\ anchor' = anchor \ {<<e, e>>} /\ held' = held
      BY Zenon, <1>4, <2>2, FirebirdNames DEF Firebird!env_close
    <3>2. e \in Env /\ e \in Obj /\ obj[e].st = "open" /\ obj[e].up = None
      BY <1>0, <1>u, OpenedIs DEF Above
    <3>3. Tracks(driver, e) /\ ~Tracks(driver, obj[e].up) /\ None \notin Obj
      BY <1>t, <3>2, Places DEF Obj
    <3>4. RealOf(driver, obj, e) = {}
      BY <1>0, <2>2, <3>2, <3>3, NoneLocked
    <3>5. Leaving(driver, obj, obj', e)
      BY <1>0, <3>1, <3>2, <3>3, <3>4, ShutLeaves
    <3>6. obj'[e].st = "closed" /\ obj'[e].native = "freed"
      BY <1>0, <3>1, <3>2, ShutIs
    <3>7. World(driver, obj', anchor', held')
      <4> HIDE DEF Leaving
      <4> QED BY <1>0, <3>1, <3>2, <3>3, <3>4, <3>5, <3>6, LeaveParent
    <3> QED BY <1>0, <3>5, <3>7, FilledLeft
  <2> QED BY <2>1, <2>2
<1>5. ASSUME NEW x \in Obj \ Env, Real(driver, obj[x]), obj[x].st = "open", Tracks(driver, x) => RealOf(driver, obj, x) = {},
             \/ obj' = Firebird!Detached(x) /\ anchor' = Firebird!EnvFree(x)
             \/ x \in Cur /\ obj' = Firebird!cur_shut(x).f /\ anchor' = Firebird!cur_shut(x).a,
             held' = held
      PROVE  Goal
  <2>1. obj[x].up \notin Stmt /\ Tracks(driver, obj[x].up)
    BY <1>t, <1>u, <1>5, Places DEF Above, Obj
  <2> DEFINE f == Shrunk(driver, obj, x)
  <2>2. /\ \/ obj' = [Shut(obj, x) EXCEPT ![obj[x].up].lock = @ - 1]
           \/ x \in Cur /\ obj' = [[Shut(obj, x) EXCEPT ![obj[x].up].lock = @ - 1] EXCEPT ![x].native = "lost"]
        /\ anchor' = IF obj[obj[x].up].lock = 1 THEN anchor \ {<<obj[x].up, obj[x].up>>} ELSE anchor
    BY Zenon, <1>5, FirebirdNames DEF Firebird!Detached, Firebird!EnvFree, Firebird!cur_shut, Firebird!Unlock
  <2>3. obj' = f \/ (x \in Cur /\ obj' = [f EXCEPT ![x].native = "lost"])
    BY Zenon, <2>1, <2>2 DEF Shrunk
  <2>4. Leaving(driver, obj, f, x) /\ World(driver, f, anchor', held) /\ f[x].st = "closed"
    BY <1>0, <1>5, <2>1, <2>2, Unlocks
  <2> HIDE DEF f
  <2>5. Unfilled(f)
    BY <1>0, <2>4, FilledLeft
  <2>6. x \in Cur => /\ World(driver, [f EXCEPT ![x].native = "lost"], anchor', held)
                     /\ Unfilled([f EXCEPT ![x].native = "lost"])
    BY <2>4, <2>5, LostWorld
  <2> QED BY <1>5, <2>3, <2>4, <2>5, <2>6
<1>6. ASSUME NEW c \in Opened(Conn), Firebird!conn_close(c) PROVE Goal
  <2>1. CASE UNCHANGED <<obj, anchor>>
    BY <1>1, <1>6, <2>1 DEF Firebird!conn_close
  <2>2. CASE ~UNCHANGED <<obj, anchor>>
    <3>1. obj[c].lock = 0 /\ obj' = Firebird!Detached(c) /\ anchor' = Firebird!EnvFree(c) /\ held' = held
      BY <1>6, <2>2 DEF Firebird!conn_close
    <3>2. c \in Conn /\ c \in Obj \ Env /\ obj[c].st = "open" /\ Tracks(driver, c)
      BY <1>0, <1>t, OpenedIs, Places DEF Obj
    <3>3. Real(driver, obj[c]) /\ RealOf(driver, obj, c) = {}
      <4>1. obj[c].native = "open"
        BY <1>0, <3>2, Places DEF Sound, Handles, Obj
      <4> QED BY <1>0, <1>r, <3>1, <3>2, <4>1, NoneLocked
    <3> QED BY <1>5, <3>1, <3>2, <3>3
  <2> QED BY <2>1, <2>2
<1>7. ASSUME NEW x \in Obj \ Env, obj[x].st # "none", x \notin held, RealOf(driver, obj, x) = {},
             ~closing => \A h \in Obj : <<h, x>> \notin anchor
      PROVE  /\ /\ \/ obj' = [Firebird!Detached(x) EXCEPT ![x] = Vacant] /\ anchor' = Firebird!EnvFree(x)
                   \/ obj' = [Firebird!cur_shut(x).f EXCEPT ![x] = Vacant] /\ anchor' = Firebird!cur_shut(x).a
                /\ Real(driver, obj[x]) /\ held' = held
                => Goal
             /\ ~Real(driver, obj[x]) /\ obj' = [obj EXCEPT ![x] = Vacant] /\ UNCHANGED <<anchor, held>> => Goal
             /\ /\ obj' = Adrift(obj, x) /\ UNCHANGED <<anchor, held>>
                /\ Real(driver, obj[x]) /\ x \in Cur
                => Goal
  <2>1. ASSUME \/ obj' = [Firebird!Detached(x) EXCEPT ![x] = Vacant] /\ anchor' = Firebird!EnvFree(x)
               \/ obj' = [Firebird!cur_shut(x).f EXCEPT ![x] = Vacant] /\ anchor' = Firebird!cur_shut(x).a,
               Real(driver, obj[x]), held' = held
        PROVE  Goal
    <3>1. obj[x].up \notin Stmt /\ Tracks(driver, obj[x].up)
      BY <1>t, <1>u, <1>7, Places DEF Above, Obj
    <3> DEFINE f == Shrunk(driver, obj, x)
    <3>2. /\ \/ obj' = [[Shut(obj, x) EXCEPT ![obj[x].up].lock = @ - 1] EXCEPT ![x] = Vacant]
             \/ obj' = [[[Shut(obj, x) EXCEPT ![obj[x].up].lock = @ - 1] EXCEPT ![x].native = "lost"] EXCEPT ![x] = Vacant]
          /\ anchor' = IF obj[obj[x].up].lock = 1 THEN anchor \ {<<obj[x].up, obj[x].up>>} ELSE anchor
      <4>1. CASE obj' = [Firebird!Detached(x) EXCEPT ![x] = Vacant] /\ anchor' = Firebird!EnvFree(x)
        BY Zenon, <4>1, FirebirdNames DEF Firebird!Detached, Firebird!EnvFree
      <4>2. CASE obj' = [Firebird!cur_shut(x).f EXCEPT ![x] = Vacant] /\ anchor' = Firebird!cur_shut(x).a
        BY Zenon, <4>2, FirebirdNames DEF Firebird!cur_shut, Firebird!Unlock
      <4> QED BY <2>1, <4>1, <4>2
    <3>4. obj' = [f EXCEPT ![x] = Vacant] \/ obj' = [[f EXCEPT ![x].native = "lost"] EXCEPT ![x] = Vacant]
      BY Zenon, <3>1, <3>2 DEF Shrunk
    <3>5. Tracks(driver, x) => RealOf(driver, obj, x) = {}
      BY <1>7
    <3>6. Leaving(driver, obj, f, x) /\ World(driver, f, anchor', held) /\ f[x].st = "closed"
      BY <1>0, <1>7, <2>1, <3>1, <3>2, <3>5, Unlocks
    <3>3. obj' = [f EXCEPT ![x] = Vacant]
      <4>1. f \in Tables
        BY <3>6 DEF World, Sound, Shape
      <4> HIDE DEF f
      <4> QED BY <1>7, <3>4, <4>1, LostIs
    <3>7. Unfilled(f) /\ Sound(driver, f)
      BY <1>0, <3>6, FilledLeft DEF World
    <3>8. ~Real(driver, f[x]) /\ RealOf(driver, f, x) = {} /\ (~closing => \A y \in Obj : <<y, x>> \notin anchor')
      <4>1. \A y \in Obj \ {x} : f[y].up = obj[y].up /\ Real(driver, f[y]) = Real(driver, obj[y])
        BY <3>6 DEF Leaving, Keeps, Real
      <4>2. ~Real(driver, f[x])
        BY <3>6 DEF Real
      <4>3. RealOf(driver, f, x) = {}
        BY <1>7, <4>1, <4>2 DEF RealOf
      <4> QED BY <1>7, <3>2, <4>2, <4>3
    <3> HIDE DEF f
    <3>9. Leaving(driver, f, [f EXCEPT ![x] = Vacant], x) /\ World(driver, [f EXCEPT ![x] = Vacant], anchor', held)
      BY <1>0, <1>7, <3>6, <3>8, Vacated
    <3>10. Unfilled([f EXCEPT ![x] = Vacant])
      BY <1>0, <3>7, <3>9, FilledLeft
    <3> QED BY <2>1, <3>3, <3>9, <3>10 DEF f
  <2>2. ASSUME ~Real(driver, obj[x]), obj' = [obj EXCEPT ![x] = Vacant], UNCHANGED <<anchor, held>>
        PROVE  Goal
    <3>1. Leaving(driver, obj, obj', x) /\ World(driver, obj', anchor', held')
      BY <1>0, <1>7, <2>2, Vacated
    <3> QED BY <1>0, <3>1, FilledLeft
  <2>3. ASSUME obj' = Adrift(obj, x), UNCHANGED <<anchor, held>>,
               Real(driver, obj[x]), x \in Cur
        PROVE  Goal
    <3>1. obj[x].up \in Conn /\ obj[x].up \in Obj /\ obj[x].st = "open"
      BY <1>0, <1>r, <1>u, <1>7, <2>3, Places DEF Above, Obj
    <3>2. obj[x].up \notin Stmt
      BY <3>1, Places
    <3>3. Leaving(driver, obj, obj', x) /\ World(driver, obj', anchor', held')
      BY <1>0, <1>7, <2>3, <3>1, <3>2, Stranded
    <3> QED BY <1>0, <3>3, FilledLeft
  <2> QED BY <2>1, <2>2, <2>3
<1>8. ASSUME NEW x \in Collectable(Env) \cup Collectable(Conn) \cup Collectable(Cur),
             \/ x \in Env /\ Firebird!env_gc(x)
             \/ x \in Conn /\ Firebird!conn_gc(x)
             \/ x \in Cur /\ Firebird!cur_gc(x)
      PROVE  Goal
  <2>0. /\ x \in Obj /\ obj[x].st # "none" /\ RealOf(driver, obj, x) = {} /\ x \notin held
        /\ ~closing => \A h \in Obj : <<h, x>> \notin anchor
    BY <1>0, CollectableIs DEF Alone
  <2>1. CASE x \in Env /\ Firebird!env_gc(x)
    <3>1. obj' = [obj EXCEPT ![x] = Vacant] /\ anchor' = anchor /\ held' = held
      BY Zenon, <2>1, FirebirdNames DEF Firebird!env_gc, Firebird!Gone
    <3>2. Leaving(driver, obj, obj', x) /\ World(driver, obj', anchor', held')
      BY <1>0, <2>0, <2>1, <3>1, Vacated
    <3> QED BY <1>0, <3>2, FilledLeft
  <2>2. CASE x \in Conn /\ Firebird!conn_gc(x)
    <3>1. x \notin Env /\ (obj[x].st = "open" => Real(driver, obj[x]))
      BY <1>0, <1>r, <2>0, <2>2, Places DEF Sound, Handles, Obj
    <3>2. \/ Real(driver, obj[x]) /\ obj' = [Firebird!Detached(x) EXCEPT ![x] = Vacant] /\ anchor' = Firebird!EnvFree(x) /\ held' = held
          \/ ~Real(driver, obj[x]) /\ obj' = [obj EXCEPT ![x] = Vacant] /\ anchor' = anchor /\ held' = held
      BY Zenon, <1>r, <2>0, <2>2, <3>1, FirebirdNames DEF Firebird!conn_gc, Firebird!Gone
    <3> QED BY <1>7, <2>0, <3>1, <3>2
  <2>3. CASE x \in Cur /\ Firebird!cur_gc(x)
    <3>1. x \notin Env /\ (obj[x].st = "open" /\ ~obj[x].stuck => Real(driver, obj[x]))
          /\ (obj[x].st = "open" /\ obj[x].stuck => ~Real(driver, obj[x])) /\ (obj[x].st # "open" => ~Real(driver, obj[x]))
      BY <1>0, <1>r, <2>3, Places DEF Unfilled, Obj
    <3>2. \/ Real(driver, obj[x]) /\ obj' = [Firebird!cur_shut(x).f EXCEPT ![x] = Vacant] /\ anchor' = Firebird!cur_shut(x).a /\ held' = held
          \/ ~Real(driver, obj[x]) /\ obj' = [obj EXCEPT ![x] = Vacant] /\ anchor' = anchor /\ held' = held
          \/ Real(driver, obj[x]) /\ obj' = Adrift(obj, x) /\ anchor' = anchor /\ held' = held
      BY Zenon, <2>3, <3>1, FirebirdNames DEF Firebird!cur_gc, Firebird!Gone, Adrift
    <3> QED BY <1>7, <2>0, <2>3, <3>1, <3>2
  <2> QED BY <1>8, <2>1, <2>2, <2>3
<1>9. ASSUME NEW c \in Opened(Conn), Firebird!conn_execute(c) PROVE Goal
  <2>0. c \in Conn /\ c \in Obj /\ obj[c].st = "open" /\ c \notin Stmt /\ c # None /\ Tracks(driver, c) /\ 1 \in Width
    BY <1>0, <1>t, OpenedIs, Places DEF Obj, Width
  <2>1. \/ UNCHANGED <<obj, anchor, held>>
        \/ \E q \in Unused(Cur), v \in BOOLEAN :
             /\ obj' = [obj EXCEPT ![q] = [NewCursor(c, 1) EXCEPT !.hidden = v], ![c].lock = @ + 1]
             /\ anchor' = anchor \cup {<<c, c>>} /\ held' = held \cup {q}
        \/ \E q \in Unused(Cur) :
             /\ obj' = [obj EXCEPT ![q] = [NewCursor(c, 1) EXCEPT !.stuck = TRUE, !.native = "null"]]
             /\ anchor' = anchor /\ held' = held
    BY <1>9, FirebirdExecutes
  <2>2. ASSUME NEW q \in Unused(Cur), NEW v \in BOOLEAN,
               /\ obj' = [obj EXCEPT ![q] = [NewCursor(c, 1) EXCEPT !.hidden = v], ![c].lock = @ + 1]
               /\ anchor' = anchor \cup {<<c, c>>} /\ held' = held \cup {q}
        PROVE  Goal
    <3> DEFINE r == [NewCursor(c, 1) EXCEPT !.hidden = v]
    <3>1. q \in Cur /\ c \in Above(driver, q)
      BY <1>0, <2>0, FreshIs, Places DEF Above, Obj
    <3>2. r \in Userdata /\ r.st = "open" /\ r.native = "open" /\ r.up = c /\ ~r.left /\ r.lock = 0 /\ ~r.stuck
      <4>1. ASSUME NEW s \in Userdata, NEW w \in BOOLEAN
            PROVE  LET t == [s EXCEPT !.hidden = w]
                   IN  /\ t \in Userdata /\ t.st = s.st /\ t.native = s.native /\ t.up = s.up
                       /\ t.left = s.left /\ t.lock = s.lock /\ t.stuck = s.stuck
        BY DEF Userdata
      <4> QED BY <2>0, <4>1, NewCursorIs
    <3>3. obj' = Grown(driver, obj, q, r, c)
      BY Zenon, <2>0, <2>2 DEF Grown
    <3> HIDE DEF r
    <3>4. /\ Making(driver, obj, Grown(driver, obj, q, r, c), q, c)
          /\ Grown(driver, obj, q, r, c)[q] = r
          /\ World(driver, Grown(driver, obj, q, r, c), anchor \cup {<<c, c>>}, held \cup {q})
      <4>1. q \in Obj /\ obj[q].st = "none" /\ (\A y \in Obj : obj[y].up # q /\ obj[y].lock < MaxLock)
        BY <1>0, FreshIs
      <4> QED BY <1>0, <2>0, <3>1, <3>2, <4>1, ParentPut
    <3>5. /\ Making(driver, obj, obj', q, c) /\ ~obj'[q].stuck /\ obj'[q].native = "open"
          /\ World(driver, obj', anchor', held')
      BY <2>2, <3>2, <3>3, <3>4
    <3> QED BY <3>5, FilledMade
  <2>3. ASSUME NEW q \in Unused(Cur),
               /\ obj' = [obj EXCEPT ![q] = [NewCursor(c, 1) EXCEPT !.stuck = TRUE, !.native = "null"]]
               /\ anchor' = anchor /\ held' = held
        PROVE  Goal
    <3> DEFINE r == [NewCursor(c, 1) EXCEPT !.stuck = TRUE, !.native = "null"]
    <3>1. q \in Cur /\ q \in Obj /\ c \in Above(driver, q) /\ obj[q].st = "none" /\ (\A y \in Obj : obj[y].up # q /\ obj[y].lock < MaxLock) /\ q \notin held
      BY <1>0, <2>0, FreshIs, Places DEF Above, Obj, World, HeldOpen
    <3>2. r \in Userdata /\ r.st = "open" /\ r.native = "null" /\ r.up = c /\ ~r.left /\ r.lock = 0 /\ r.stuck
      <4>1. ASSUME NEW s \in Userdata
            PROVE  LET t == [s EXCEPT !.stuck = TRUE, !.native = "null"]
                   IN  /\ t \in Userdata /\ t.st = s.st /\ t.native = "null" /\ t.up = s.up
                       /\ t.left = s.left /\ t.lock = s.lock /\ t.stuck
        BY DEF Userdata
      <4>2. PICK n \in Userdata : n = NewCursor(c, 1)
        BY <2>0, NewCursorIs
      <4>3. n.st = "open" /\ n.up = c /\ ~n.left /\ n.lock = 0
        BY <2>0, <4>2, NewCursorIs
      <4>4. r = [n EXCEPT !.stuck = TRUE, !.native = "null"]
        BY Zenon, <4>2
      <4> HIDE DEF r
      <4> QED BY <4>1, <4>3, <4>4
    <3>3. obj' = [obj EXCEPT ![q] = r]
      BY Zenon, <2>3
    <3> HIDE DEF r
    <3>4. ~Real(driver, r)
      BY <3>2 DEF Real
    <3>5. Making(driver, obj, obj', q, c) /\ obj'[q] = r
      <4>1. Making(driver, obj, [obj EXCEPT ![q] = r], q, c)
        BY <1>0, <2>0, <3>1, <3>2, <3>4, PutNew
      <4> QED BY <1>0, <3>1, <3>3, <4>1 DEF Tables
    <3>6. World(driver, obj', anchor', held')
      <4>1. ~Real(driver, obj'[q])
        BY <3>4, <3>5
      <4>2. World(driver, obj', anchor, held)
        <5> HIDE DEF Making
        <5> QED BY <1>0, <3>1, <3>5, <4>1, MakeParent
      <4> QED BY <2>3, <4>2
    <3> QED BY <3>2, <3>5, <3>6, FilledMade
  <2> QED BY <1>1, <2>1, <2>2, <2>3
<1>10. ASSUME NEW q \in Opened(Cur), Firebird!cur_fetch(q) \/ Firebird!cur_close(q) PROVE Goal
  <2>0. q \in Obj \ Env /\ q \in Cur /\ obj[q].st = "open" /\ q \in held /\ ~Tracks(driver, q)
    BY <1>0, <1>t, OpenedIs, Places DEF Obj
  <2>1. Real(driver, obj[q])
    BY <1>0, <1>r, <2>0 DEF World, HeldOpen
  <2>2. CASE UNCHANGED <<obj, anchor, held>>
    BY <1>1, <2>2
  <2>3. CASE obj' = Firebird!cur_shut(q).f /\ anchor' = Firebird!cur_shut(q).a /\ held' = held
    BY <1>5, <2>0, <2>1, <2>3
  <2>4. CASE obj' = Firebird!Unlock(obj, q) /\ anchor' = anchor /\ held' = held
    <3>1. obj[q].up \in Conn /\ obj[q].up \in Obj /\ Tracks(driver, obj[q].up)
      BY <1>t, <1>u, <2>0, Places DEF Above, Obj
    <3>2. obj' = Shrunk(driver, obj, q)
      BY Zenon, <2>4, <3>1, FirebirdNames DEF Firebird!Unlock, Shrunk
    <3>3. Leaving(driver, obj, Shrunk(driver, obj, q), q) /\ Shrunk(driver, obj, q)[q].st = "closed"
      BY <1>0, <2>0, <2>1, <3>1, ShrunkIs DEF Real
    <3>4. Shrunk(driver, obj, q)[q].native # "null"
      <4>1. obj[q].up \notin Stmt
        BY <3>1, Places
      <4> QED BY <1>0, <2>0, <2>1, <4>1, Unlocks
    <3>5. World(driver, obj', anchor', held')
      <4> HIDE DEF Leaving
      <4> QED BY <1>0, <2>0, <2>4, <3>1, <3>2, <3>3, <3>4, LeaveParent
    <3> QED BY <1>0, <3>2, <3>3, <3>5, FilledLeft
  <2> QED BY <1>10, <2>2, <2>3, <2>4 DEF Firebird!cur_fetch, Firebird!cur_close, Firebird!Shuts
<1> HIDE DEF Goal
<1>11. Goal
  <2>1. ASSUME NEW c \in Opened(Conn),
               \/ Firebird!conn_close(c) \/ Firebird!conn_execute(c) \/ Firebird!conn_commit(c) \/ Firebird!conn_rollback(c)
               \/ \E on \in BOOLEAN : Firebird!conn_setautocommit(c, on)
        PROVE  Goal
    BY <1>1, <1>6, <1>9, <2>1
       DEF Firebird!conn_commit, Firebird!conn_rollback, Firebird!EndTran, Firebird!conn_setautocommit,
           Firebird!Nothing, Nothing
  <2>4. ASSUME NEW x \in Collectable(Env) \cup Collectable(Conn) \cup Collectable(Cur),
               \/ x \in Collectable(Env) /\ Firebird!env_gc(x)
               \/ x \in Collectable(Conn) /\ Firebird!conn_gc(x)
               \/ x \in Collectable(Cur) /\ Firebird!cur_gc(x)
        PROVE  Goal
    <3>1. \A S : Collectable(S) \subseteq S
      BY DEF Collectable
    <3> QED BY <1>8, <2>4, <3>1
  <2> QED BY <1>2, <1>3, <1>4, <1>10, <2>1, <2>4, FirebirdNames DEF Firebird!Next
<1> QED BY <1>11 DEF Goal

-----------------------------------------------------------------------------
(* ODBC.                                                                   *)

LEMMA OdbcNames ==
  ASSUME NEW S
  PROVE  /\ Odbc!Width = Width
         /\ Odbc!Fresh(S) \subseteq Unused(S) /\ Odbc!Opened(S) = Opened(S) /\ Odbc!Collectable(S) = Collectable(S)
         /\ Odbc!Vacant = Vacant
         /\ \A f, o : Odbc!Shut(f, o) = Shut(f, o)
         /\ \A p : Odbc!New(p) = New(p)
         /\ \A p, n : Odbc!NewCursor(p, n) = NewCursor(p, n)
<1>1. Odbc!Opened(S) = Opened(S)
  BY DEF Odbc!Opened, Opened, Odbc!Here, Here
<1>0. Odbc!Obj = Obj
  BY DEF Odbc!Obj, Obj
<1>2. Odbc!Fresh(S) \subseteq Unused(S)
  BY <1>0 DEF Odbc!Fresh, Odbc!Live, Unused
<1>3. Odbc!Collectable(S) = Collectable(S)
  <2>2. \A o : Odbc!Unreached(o) <=> Unreached(o)
    BY <1>0 DEF Odbc!Unreached, Unreached, Odbc!Anchored, Anchored
  <2>3. \A o : Odbc!Children(o) = Children(o)
    BY <1>0 DEF Odbc!Children, Children
  <2> QED BY <2>2, <2>3 DEF Odbc!Collectable, Collectable
<1>4. Odbc!Vacant = Vacant
  BY DEF Odbc!Vacant, Vacant
<1>5. ASSUME NEW f, NEW o PROVE Odbc!Shut(f, o) = Shut(f, o)
  BY Zenon DEF Odbc!Shut, Shut
<1>6. \A p : Odbc!New(p) = New(p)
  BY Zenon, <1>4 DEF Odbc!New, New
<1>7. \A p, n : Odbc!NewCursor(p, n) = NewCursor(p, n)
  BY <1>6 DEF Odbc!NewCursor, NewCursor
<1>8. Odbc!Width = Width
  BY DEF Odbc!Width, Width
<1> QED BY <1>1, <1>2, <1>3, <1>4, <1>5, <1>6, <1>7, <1>8

\* With ODBC everything open counts, on parents of every class.
LEMMA OdbcBasics ==
  ASSUME driver = "odbc", NEW f, Sound(driver, f)
  PROVE  /\ f \in Tables /\ \A p : Tracks(driver, p) <=> p \in Env \cup Conn \cup Stmt
         /\ \A x \in Obj : /\ Real(driver, f[x]) <=> f[x].st = "open"
                           /\ f[x].st # "none" => f[x].up \in Above(driver, x) /\ f[x].up # x
                           /\ x \in Stmt /\ f[x].native = "open" => f[x].st = "open"
<1>1. f \in Tables
  BY DEF Sound, Shape
<1>2. \A p : Tracks(driver, p) <=> p \in Env \cup Conn \cup Stmt
  BY Places DEF Tracks, Counting, CountingEnv, SqliteDrivers
<1>3. ASSUME NEW x \in Obj
      PROVE  /\ Real(driver, f[x]) <=> f[x].st = "open"
             /\ f[x].st # "none" => f[x].up \in Above(driver, x) /\ f[x].up # x
  BY Places DEF Real, Sound, Handles, Shape, Above, Obj
<1>4. ASSUME NEW x \in Obj, x \in Stmt, f[x].native = "open" PROVE f[x].st = "open"
  <2>1. f[x].st # "none"
    BY <1>4 DEF Sound, Shape, Blank
  <2>2. ~LeftOver(driver, f[x])
    BY <1>4, <2>1, Places DEF Sound, Handles, LeftOver, MayLeak
  <2>3. f[x].st # "closed"
    BY <1>4, <2>2, Places DEF Sound, Handles
  <2> QED BY <1>1, <2>1, <2>3 DEF Tables, Userdata
<1> QED BY <1>1, <1>2, <1>3, <1>4

\* The three closes.
LEMMA OdbcEnvShut ==
  ASSUME SqlIInv, driver = "odbc", NEW e \in Opened(Env), ~(obj[e].lock > 0)
  PROVE  World(driver, Odbc!env_shut(e), anchor, held)
<1> DEFINE v == IF obj[e].left THEN obj[e].native ELSE "freed"
           f == [obj EXCEPT ![e].st = "closed"]
           g == [f EXCEPT ![e].native = v]
<1>0. World(driver, obj, anchor, held) /\ Sound(driver, obj) /\ obj \in Tables
  BY DEF SqlIInv, World, Sound, Shape
<1>1. /\ e \in Env /\ e \in Obj /\ obj[e].st = "open" /\ Tracks(driver, e) /\ obj[e].up = None /\ None \notin Obj
      /\ driver \in {"odbc", "firebird"}
  BY <1>0, OpenedIs, OdbcBasics, Places DEF Above, Obj
<1>2. RealOf(driver, obj, e) = {}
  BY <1>0, <1>1, NoneLocked
<1>3. /\ f \in Tables /\ f[e].st = "closed"
      /\ \A x \in Obj : /\ x # e => f[x] = obj[x]
                        /\ f[x].up = obj[x].up /\ f[x].native = obj[x].native /\ f[x].lock = obj[x].lock
                        /\ f[x].stuck = obj[x].stuck /\ f[x].left = obj[x].left /\ f[x].hidden = obj[x].hidden
  BY <1>0, <1>1, PutSt
<1>4. v \in {"none", "open", "freed", "null", "lost"}
  BY <1>0, <1>1 DEF Tables, Userdata
<1>5. Odbc!env_shut(e) = g
  <2>1. Odbc!env_shut(e) = [f EXCEPT ![e].native = IF obj[e].left THEN f[e].native ELSE "freed"]
    BY Zenon DEF Odbc!env_shut
  <2>2. f[e].native = obj[e].native
    BY <1>1, <1>3
  <2> QED BY Zenon, <2>1, <2>2
<1>6. v = "open" => obj[e].left
  OBVIOUS
<1> HIDE DEF f, v
<1>7. /\ g \in Tables /\ g[e].native = v
      /\ \A x \in Obj : /\ x # e => g[x] = f[x]
                        /\ g[x].st = f[x].st /\ g[x].up = f[x].up /\ g[x].lock = f[x].lock
                        /\ g[x].stuck = f[x].stuck /\ g[x].left = f[x].left /\ g[x].hidden = f[x].hidden
  BY <1>1, <1>3, <1>4 DEF Tables, Userdata
<1> HIDE DEF g
<1>8. Leaving(driver, obj, g, e)
  <2>1. /\ g[e].st = "closed" /\ g[e].up = None /\ g[e].lock = obj[e].lock /\ g[e].left = obj[e].left
        /\ g[e].stuck = obj[e].stuck /\ g[e].hidden = obj[e].hidden
        /\ (g[e].native = "open" => LeftOver(driver, g[e]))
        /\ \A x \in Obj \ {e} : g[x] = obj[x]
    BY <1>1, <1>3, <1>6, <1>7 DEF LeftOver, Leaky
  <2> QED BY <1>1, <1>2, <1>7, <2>1 DEF Leaving, Keeps, Leaves
<1>9. World(driver, g, anchor, held)
  <2>1. g[e].st # "none"
    BY <1>1, <1>3, <1>7
  <2> HIDE DEF Leaving
  <2> QED BY <1>0, <1>1, <1>8, <2>1, LeaveParent
<1> QED BY <1>5, <1>9

LEMMA OdbcConnShut ==
  ASSUME SqlIInv, driver = "odbc", NEW c \in Conn, c \in Obj, obj[c].st = "open", ~(obj[c].lock > 0)
  PROVE  /\ Leaving(driver, obj, Odbc!conn_shut(c), c) /\ Odbc!conn_shut(c)[c].st = "closed"
         /\ World(driver, Odbc!conn_shut(c), Odbc!unlock_obj(anchor, Odbc!conn_shut(c), obj[c].up), held)
<1> DEFINE e == obj[c].up
           w == tx[c].in /\ tx[c].work = "some"
           v == IF w THEN obj[c].native ELSE "freed"
           f1 == [obj EXCEPT ![c].st = "closed"]
           f2 == [f1 EXCEPT ![c].native = v]
           f3 == [f2 EXCEPT ![c].left = w]
           n == f3[e].lock - 1
           f4 == [f3 EXCEPT ![e].lock = n]
           z == f4[e].left \/ w
           f5 == [f4 EXCEPT ![e].left = z]
<1>0. World(driver, obj, anchor, held) /\ Sound(driver, obj) /\ obj \in Tables /\ ByParent(driver, obj, anchor, closing)
  BY DEF SqlIInv, World, Sound, Shape, Registered
<1>1. /\ e \in Env /\ e \in Obj /\ e # c /\ Tracks(driver, c) /\ Tracks(driver, e) /\ Real(driver, obj[c])
      /\ obj[e].st # "none" /\ driver \in {"odbc", "firebird"}
  <2>1. e \in Env /\ e \in Obj /\ e # c /\ Tracks(driver, c) /\ Tracks(driver, e) /\ Real(driver, obj[c])
    BY <1>0, OdbcBasics, Places DEF Above, Obj
  <2> QED BY <1>0, <2>1, Places DEF Sound, Tree
<1>2. RealOf(driver, obj, c) = {}
  BY <1>0, <1>1, NoneLocked
<1>3. Odbc!conn_shut(c) = f5
  <2>1. Odbc!conn_shut(c) =
          [Odbc!Sub([[f1 EXCEPT ![c].native = IF w THEN f1[c].native ELSE "freed"] EXCEPT ![c].left = w], e)
             EXCEPT ![e].left = @ \/ w]
    <3>1. Odbc!conn_shut(c) =
            [Odbc!Sub([obj EXCEPT ![c].st = "closed", ![c].native = IF w THEN @ ELSE "freed", ![c].left = w], e)
               EXCEPT ![e].left = @ \/ w]
      BY Zenon DEF Odbc!conn_shut
    <3>2. [obj EXCEPT ![c].st = "closed", ![c].native = IF w THEN @ ELSE "freed", ![c].left = w]
            = [[f1 EXCEPT ![c].native = IF w THEN f1[c].native ELSE "freed"] EXCEPT ![c].left = w]
      BY Zenon
    <3> QED BY Zenon, <3>1, <3>2
  <2>2. f1[c].native = obj[c].native
    BY <1>0, PutSt
  <2>3. Odbc!conn_shut(c) = [Odbc!Sub(f3, e) EXCEPT ![e].left = @ \/ w]
    BY Zenon, <2>1, <2>2
  <2>4. Odbc!Sub(f3, e) = f4
    BY Zenon DEF Odbc!Sub
  <2> QED BY Zenon, <2>3, <2>4
<1>4. /\ f1 \in Tables /\ f1[c].st = "closed"
      /\ \A x \in Obj : /\ x # c => f1[x] = obj[x]
                        /\ f1[x].up = obj[x].up /\ f1[x].native = obj[x].native /\ f1[x].lock = obj[x].lock
                        /\ f1[x].stuck = obj[x].stuck /\ f1[x].left = obj[x].left /\ f1[x].hidden = obj[x].hidden
  BY <1>0, PutSt
<1>5. w \in BOOLEAN /\ v \in {"none", "open", "freed", "null", "lost"} /\ (v = "open" => w)
  BY <1>0 DEF Tables, Userdata
<1> HIDE DEF f1, w, v
<1>6. /\ f2 \in Tables /\ f2[c].native = v
      /\ \A x \in Obj : /\ x # c => f2[x] = f1[x]
                        /\ f2[x].st = f1[x].st /\ f2[x].up = f1[x].up /\ f2[x].lock = f1[x].lock
                        /\ f2[x].stuck = f1[x].stuck /\ f2[x].left = f1[x].left /\ f2[x].hidden = f1[x].hidden
  BY <1>4, <1>5 DEF Tables, Userdata
<1> HIDE DEF f2
<1>7. /\ f3 \in Tables /\ f3[c].left = w
      /\ \A x \in Obj : /\ x # c => f3[x] = f2[x]
                        /\ f3[x].st = f2[x].st /\ f3[x].up = f2[x].up /\ f3[x].lock = f2[x].lock
                        /\ f3[x].stuck = f2[x].stuck /\ f3[x].native = f2[x].native /\ f3[x].hidden = f2[x].hidden
  BY <1>5, <1>6, PutLeft
<1>8. n \in Int /\ n = obj[e].lock - 1
  BY <1>0, <1>1, <1>4, <1>6, <1>7 DEF Tables, Userdata
<1> HIDE DEF f3, n
<1>9. /\ f4 \in Tables /\ f4[e].lock = n
      /\ \A x \in Obj : /\ x # e => f4[x] = f3[x]
                        /\ f4[x].st = f3[x].st /\ f4[x].up = f3[x].up /\ f4[x].left = f3[x].left
                        /\ f4[x].stuck = f3[x].stuck /\ f4[x].native = f3[x].native /\ f4[x].hidden = f3[x].hidden
  BY <1>1, <1>7, <1>8, PutLock
<1>10. z \in BOOLEAN /\ (f4[e].left => z)
  OBVIOUS
<1> HIDE DEF f4, z
<1>11. /\ f5 \in Tables /\ f5[e].left = z
       /\ \A x \in Obj : /\ x # e => f5[x] = f4[x]
                         /\ f5[x].st = f4[x].st /\ f5[x].up = f4[x].up /\ f5[x].lock = f4[x].lock
                         /\ f5[x].stuck = f4[x].stuck /\ f5[x].native = f4[x].native /\ f5[x].hidden = f4[x].hidden
  BY <1>1, <1>9, <1>10, PutLeft
<1> HIDE DEF f5
<1>12. /\ f5[c].st = "closed" /\ f5[c].native = v /\ f5[c].left = w /\ f5[c].up = e
       /\ f5[c].lock = obj[c].lock /\ f5[c].stuck = obj[c].stuck /\ f5[c].hidden = obj[c].hidden
       /\ f5[e].st = obj[e].st /\ f5[e].up = obj[e].up /\ f5[e].native = obj[e].native /\ f5[e].hidden = obj[e].hidden
       /\ f5[e].lock = obj[e].lock - 1 /\ f5[e].stuck = obj[e].stuck /\ (obj[e].left => f5[e].left)
       /\ \A x \in Obj : x # c /\ x # e => f5[x] = obj[x]
  BY <1>1, <1>4, <1>6, <1>7, <1>8, <1>9, <1>10, <1>11
<1> HIDE DEF e
<1>13. obj[c].up = e
  BY DEF e
<1>14. Leaving(driver, obj, f5, c)
  <2>1. MayLeak(driver, c) /\ MayLeak(driver, e)
    BY <1>1 DEF MayLeak, Leaky
  <2>2. f5[c].native = "open" => LeftOver(driver, f5[c])
    BY <1>5, <1>12 DEF LeftOver, Leaky
  <2>3. \A y \in Obj \ {c} :
          Keeps(driver, y, f5[y], obj[y]) /\ (y # e => f5[y].lock = obj[y].lock /\ f5[y].stuck = obj[y].stuck)
    BY <1>12, <2>1 DEF Keeps, Leaves
  <2> QED BY <1>1, <1>2, <1>11, <1>12, <1>13, <2>1, <2>2, <2>3 DEF Leaving
<1>15. World(driver, f5, Odbc!unlock_obj(anchor, f5, e), held)
  <2> DEFINE b == Odbc!unlock_obj(anchor, f5, e)
  <2>1. b = IF f5[e].lock = 0 THEN anchor \ {<<e, e>>} ELSE anchor
    BY Zenon DEF Odbc!unlock_obj
  <2> HIDE DEF b
  <2>2. f5[e].lock \in 0 .. MaxLock
    <3>1. Sound(driver, f5)
      BY <1>0, <1>14, LeavingIsSound
    <3> QED BY <1>1, <3>1, LockIsNat
  <2>3. /\ b \subseteq anchor /\ anchor \ {<<e, e>>, <<c, c>>} \subseteq b /\ <<c, c>> \notin anchor \ b
        /\ (<<e, e>> \in anchor \ b => f5[e].lock <= 0) /\ (<<e, e>> \in b => f5[e].lock > 0)
    BY <1>1, <2>1, <2>2, Places
  <2>4. World(driver, f5, b, held)
    <3> HIDE DEF Leaving
    <3> QED BY <1>0, <1>1, <1>12, <1>13, <1>14, <2>3, LeaveParent
  <2> QED BY <2>4 DEF b
<1> QED BY <1>3, <1>12, <1>13, <1>14, <1>15

LEMMA OdbcCurShut ==
  ASSUME SqlIInv, driver = "odbc", NEW q \in Cur, q \in Obj, obj[q].st = "open"
  PROVE  /\ World(driver, Odbc!cur_shut(q).f, Odbc!cur_shut(q).a, held)
         /\ Odbc!cur_shut(q).a \subseteq anchor /\ Odbc!cur_shut(q).f[q].st = "closed"
<1> DEFINE s == obj[q].up
           c == obj[s].up
           f1 == Shrunk(driver, obj, q)
           a1 == Odbc!unlock_obj(anchor, f1, s)
           f2 == Shrunk(driver, f1, s)
           a2 == Odbc!unlock_obj(a1, f2, c)
<1>0. /\ World(driver, obj, anchor, held) /\ Sound(driver, obj) /\ obj \in Tables /\ ByParent(driver, obj, anchor, closing)
      /\ driver \in {"odbc", "firebird"}
  BY DEF SqlIInv, World, Sound, Shape, Registered
<1>1. /\ s \in Stmt /\ s \in Obj /\ s # q /\ Tracks(driver, s) /\ ~Tracks(driver, q) /\ Real(driver, obj[q]) /\ q \notin Env
  BY <1>0, OdbcBasics, Places DEF Above, Obj
<1>2. CASE ~Odbc!CanClose(q)
  <2> DEFINE v == obj[s].stuck \/ ~Odbc!Stale(q)
             g1 == [obj EXCEPT ![q].st = "closed"]
             g2 == [g1 EXCEPT ![s].stuck = v]
  <2>1. Odbc!cur_shut(q) = [f |-> g2, a |-> anchor]
    <3>1. Odbc!cur_shut(q) = [f |-> [g1 EXCEPT ![s].stuck = g1[s].stuck \/ ~Odbc!Stale(q)], a |-> anchor]
      BY Zenon, <1>2 DEF Odbc!cur_shut
    <3>2. g1[s] = obj[s]
      BY <1>0, <1>1, PutSt
    <3> QED BY Zenon, <3>1, <3>2
  <2>2. /\ g1 \in Tables /\ g1[q].st = "closed"
        /\ \A x \in Obj : /\ x # q => g1[x] = obj[x]
                          /\ g1[x].up = obj[x].up /\ g1[x].native = obj[x].native /\ g1[x].lock = obj[x].lock
                          /\ g1[x].stuck = obj[x].stuck /\ g1[x].left = obj[x].left /\ g1[x].hidden = obj[x].hidden
    BY <1>0, PutSt
  <2>3. v \in BOOLEAN /\ (v = obj[s].stuck \/ v) /\ (obj[s].st = "none" => v = obj[s].stuck) /\ (obj[s].st # "none" => v)
    BY <1>0, <1>1 DEF Odbc!Stale, Tables, Userdata
  <2> HIDE DEF v, g1
  <2>4. /\ g2 \in Tables /\ g2[s].stuck = v
        /\ \A x \in Obj : /\ x # s => g2[x] = g1[x]
                          /\ g2[x].st = g1[x].st /\ g2[x].up = g1[x].up /\ g2[x].native = g1[x].native
                          /\ g2[x].lock = g1[x].lock /\ g2[x].left = g1[x].left /\ g2[x].hidden = g1[x].hidden
    BY <1>1, <2>2, <2>3, PutStuck
  <2> HIDE DEF g2
  <2>5. /\ g2[q].st = "closed" /\ g2[q].up = s /\ g2[q].lock = obj[q].lock /\ g2[q].stuck = obj[q].stuck
        /\ g2[q].left = obj[q].left /\ g2[q].hidden = obj[q].hidden /\ g2[s].lock = obj[s].lock
        /\ \A x \in Obj \ {q} : Keeps(driver, x, g2[x], obj[x]) /\ g2[x].lock = obj[x].lock /\ (x # s => g2[x].stuck = obj[x].stuck)
    BY <1>1, <2>2, <2>4 DEF Keeps, Leaves
  <2>6. Leaving(driver, obj, g2, q)
    BY <1>0, <1>1, <2>3, <2>4, <2>5 DEF Leaving
  <2>7. ~closing /\ <<s, s>> \in anchor => obj[s].lock > 0
    BY <1>0, <1>1, Places DEF ByParent
  <2>8. World(driver, g2, anchor, held)
    <3> HIDE DEF Leaving
    <3> QED BY <1>0, <1>1, <2>5, <2>6, <2>7, LeaveParent
  <2> QED BY <2>1, <2>5, <2>8
<1>3. CASE Odbc!CanClose(q)
  <2>1. /\ obj[s].st = "open" /\ c \in Conn /\ c \in Obj /\ c # s /\ c # q /\ Tracks(driver, c)
    BY <1>0, <1>1, <1>3, OdbcBasics, Places DEF Odbc!CanClose, Above, Obj
  <2>2. /\ Leaving(driver, obj, f1, q) /\ f1[q].st = "closed" /\ f1[s].lock = obj[s].lock - 1
        /\ World(driver, f1, IF obj[s].lock = 1 THEN anchor \ {<<s, s>>} ELSE anchor, held)
    BY <1>0, <1>1, <2>1, Unlocks
  <2>3. a1 = IF obj[s].lock = 1 THEN anchor \ {<<s, s>>} ELSE anchor
    <3>1. obj[s].lock \in Int
      BY <1>0, <1>1 DEF Tables, Userdata
    <3>2. a1 = IF f1[s].lock = 0 THEN anchor \ {<<s, s>>} ELSE anchor
      BY Zenon DEF Odbc!unlock_obj
    <3> QED BY <2>2, <3>1, <3>2
  <2>4. World(driver, f1, a1, held) /\ a1 \subseteq anchor
    BY <2>2, <2>3
  <2>5. f1[s].up = c /\ f1[s].st = "open" /\ f1[s].hidden = obj[s].hidden /\ f1[c].lock = obj[c].lock
    BY <1>1, <2>1, <2>2 DEF Leaving, Keeps
  <2>6. f1 = Odbc!Sub(Shut(obj, q), s)
    BY Zenon, <1>1 DEF Shrunk, Odbc!Sub
  <2>7. CASE ~(f1[s].lock = 0 /\ obj[s].hidden)
    <3>1. Odbc!cur_shut(q).f = f1 /\ Odbc!cur_shut(q).a = a1
      <4>1. Odbc!cur_shut(q) = [f |-> f1, a |-> a1]
        BY Zenon, <1>3, <2>6, <2>7, OdbcNames DEF Odbc!cur_shut
      <4> QED BY <4>1
    <3> QED BY <2>2, <2>4, <3>1
  <2>8. CASE f1[s].lock = 0 /\ obj[s].hidden
    <3>1. f2 = Odbc!stmt_shut(f1, s)
      BY Zenon, <2>1, <2>5, OdbcNames DEF Shrunk, Odbc!stmt_shut, Odbc!Sub
    <3>2. Odbc!cur_shut(q).f = f2 /\ Odbc!cur_shut(q).a = a2
      <4>1. Odbc!cur_shut(q) = [f |-> f2, a |-> a2]
        BY Zenon, <1>3, <2>6, <2>8, <3>1, OdbcNames DEF Odbc!cur_shut
      <4> QED BY <4>1
    <3>3. Sound(driver, f1)
      BY <2>4 DEF World
    <3>4. Real(driver, f1[s]) /\ RealOf(driver, f1, s) = {} /\ c \notin Stmt /\ s \notin Env
      BY <1>1, <2>1, <2>5, <2>8, <3>3, NoneLocked, OdbcBasics, Places
    <3>5. f1[c].lock \in Int
      BY <2>1, <3>3 DEF Sound, Shape, Tables, Userdata
    <3> DEFINE b == IF f1[c].lock = 1 THEN a1 \ {<<c, c>>} ELSE a1
    <3> HIDE DEF f1, a1
    <3>6. /\ Leaving(driver, f1, f2, s) /\ World(driver, f2, b, held) /\ f2[c].lock = f1[c].lock - 1
      <4>1. s \in Obj \ Env /\ f1[s].up = c /\ (f1[s].up \notin Stmt \/ f1[f1[s].up].st # "none")
        BY <1>1, <2>5, <3>4
      <4>2. b = IF f1[f1[s].up].lock = 1 THEN a1 \ {<<f1[s].up, f1[s].up>>} ELSE a1
        BY <4>1
      <4> HIDE DEF b
      <4>3. /\ Leaving(driver, f1, Shrunk(driver, f1, s), s) /\ World(driver, Shrunk(driver, f1, s), b, held)
            /\ Shrunk(driver, f1, s)[f1[s].up].lock = f1[f1[s].up].lock - 1
        BY ZenonT(60), <1>0, <2>4, <3>4, <4>1, <4>2, Unlocks
      <4> QED BY <4>1, <4>3
    <3>7. a2 = b
      <4>1. a2 = IF f2[c].lock = 0 THEN a1 \ {<<c, c>>} ELSE a1
        BY Zenon DEF Odbc!unlock_obj
      <4>2. f2[c].lock = 0 <=> f1[c].lock = 1
        <5> HIDE DEF f2, a2, b
        <5> QED BY <3>5, <3>6
      <4> QED BY Zenon, <4>1, <4>2
    <3>8. f2[q].st = "closed"
      BY <1>1, <2>2, <3>6 DEF Leaving, Keeps
    <3>9. b \subseteq anchor
      BY <2>4
    <3> HIDE DEF f2, a2, b
    <3> QED BY <3>2, <3>6, <3>7, <3>8, <3>9
  <2> QED BY <2>7, <2>8
<1> QED BY <1>2, <1>3

\* A transaction that ends frees the handles of cursors, not their counts.
LEMMA OdbcEndTran ==
  ASSUME SqlIInv, driver = "odbc", NEW c, Odbc!EndTran(c)
  PROVE  World(driver, obj', anchor', held')
<1>0. World(driver, obj, anchor, held) /\ Sound(driver, obj) /\ obj \in Tables
  BY DEF SqlIInv, World, Sound, Shape
<1>1. Odbc!Obj = Obj
  BY DEF Odbc!Obj, Obj
<1>2. PICK keep \in BOOLEAN :
        /\ obj' = IF keep THEN obj
                  ELSE [x \in Obj |-> IF x \in Cur /\ obj[x].st = "open" /\ obj[x].up \in Odbc!Children(c)
                                      THEN [obj[x] EXCEPT !.native = "freed"] ELSE obj[x]]
        /\ UNCHANGED <<anchor, held>>
  BY <1>1 DEF Odbc!EndTran
<1>3. ASSUME NEW r \in Userdata
      PROVE  LET t == [r EXCEPT !.native = "freed"]
             IN  /\ t \in Userdata /\ t.native = "freed" /\ t.st = r.st /\ t.up = r.up /\ t.lock = r.lock
                 /\ t.stuck = r.stuck /\ t.left = r.left /\ t.hidden = r.hidden
  BY DEF Userdata
<1>4. CASE keep
  BY <1>0, <1>2, <1>4
<1>5. CASE ~keep
  <2>1. ASSUME NEW y \in Obj
        PROVE  /\ obj'[y] \in Userdata
               /\ obj'[y].st = obj[y].st /\ obj'[y].up = obj[y].up /\ obj'[y].hidden = obj[y].hidden
               /\ obj'[y].left = obj[y].left /\ obj'[y].lock = obj[y].lock /\ obj'[y].stuck = obj[y].stuck
               /\ obj'[y].native = obj[y].native \/ (y \in Cur /\ obj[y].st = "open" /\ obj'[y].native = "freed")
    <3>1. obj[y] \in Userdata
      BY <1>0 DEF Tables
    <3>2. \/ obj'[y] = obj[y]
          \/ y \in Cur /\ obj[y].st = "open" /\ obj'[y] = [obj[y] EXCEPT !.native = "freed"]
      BY <1>2, <1>5
    <3> QED BY <1>3, <3>1, <3>2
  <2>2. obj' \in Tables
    <3>1. obj' = [x \in Obj |-> obj'[x]]
      BY <1>2, <1>5
    <3> QED BY <2>1, <3>1 DEF Tables
  <2>3. \A y \in Obj : obj[y].st = "open" => obj[y].native # "null"
    BY <1>0 DEF Sound, Handles
  <2>4. Still(driver, obj, obj')
    BY <2>1, <2>2, <2>3 DEF Still, Leaves, Real
  <2> QED BY <1>2, <2>4, StillWorld
<1> QED BY <1>4, <1>5

\* The statement that conn_execute makes by itself, alone and with its cursor.
Hidden(c) == [New(c) EXCEPT !.hidden = TRUE]

LEMMA HiddenIs ==
  ASSUME NEW c \in Obj
  PROVE  /\ Hidden(c) \in Userdata /\ Hidden(c).st = "open" /\ Hidden(c).native = "open" /\ Hidden(c).up = c
         /\ Hidden(c).lock = 0 /\ ~Hidden(c).left /\ Hidden(c).hidden
<1>1. PICK n \in Userdata : n = New(c)
  BY NewIs
<1>2. n.st = "open" /\ n.native = "open" /\ n.up = c /\ n.lock = 0 /\ ~n.left
  BY <1>1, NewIs
<1>3. Hidden(c) = [n EXCEPT !.hidden = TRUE]
  BY Zenon, <1>1 DEF Hidden
<1> QED BY <1>2, <1>3 DEF Userdata

Refused(s, c) == anchor \cup {<<s, s>>} \cup Odbc!When(obj[c].lock > 0, <<c, c>>)
ExecOne(s, c) == Grown(driver, obj, s, Hidden(c), c)
ExecTwo(s, q, c) == Grown(driver, ExecOne(s, c), q, NewCursor(s, 1), s)

\* conn_execute keeps the world in its three outcomes.
LEMMA OdbcExecutes ==
  ASSUME SqlIInv, driver = "odbc", NEW c \in Opened(Conn), NEW s \in Unused(Stmt), NEW q \in Unused(Cur)
  PROVE  /\ World(driver, ExecTwo(s, q, c), anchor \cup {<<s, s>>, <<c, c>>}, held \cup {q})
         /\ World(driver, Shrunk(driver, ExecTwo(s, q, c), s), Refused(s, c), held)
         /\ ExecOne(s, c) \in Tables /\ ExecTwo(s, q, c)[s].up = c
<1>f. PICK f1 : f1 = Grown(driver, obj, s, Hidden(c), c)
  OBVIOUS
<1>g. PICK f2 : f2 = Grown(driver, f1, q, NewCursor(s, 1), s)
  OBVIOUS
<1>0. /\ World(driver, obj, anchor, held) /\ Sound(driver, obj) /\ obj \in Tables /\ ByParent(driver, obj, anchor, closing)
      /\ driver \in {"odbc", "firebird"} /\ Conn \subseteq Obj /\ Stmt \subseteq Obj /\ Cur \subseteq Obj
  BY DEF SqlIInv, World, Sound, Shape, Registered, Obj
<1>1. /\ c \in Conn /\ c \in Obj /\ s \in Stmt /\ s \in Obj /\ q \in Cur /\ q \in Obj /\ obj[c].st = "open" /\ ~closing
      /\ obj[s].st = "none" /\ obj[q].st = "none"
      /\ \A y \in Obj : obj[y].up # s /\ obj[y].up # q /\ obj[y].lock < MaxLock
  BY <1>0, OpenedIs, FreshIs
<1>2. /\ c \in Above(driver, s) /\ s \in Above(driver, q) /\ c \notin Stmt /\ c # q /\ s # q /\ s # c /\ 1 \in Width
      /\ Tracks(driver, c) /\ Tracks(driver, s) /\ 0 < MaxLock
  <2>1. obj[c].lock \in 0 .. MaxLock
    BY <1>0, <1>1, LockIsNat
  <2> QED BY <1>0, <1>1, <2>1, OdbcBasics, Places DEF Above, Obj, Width
<1>3. /\ Hidden(c) \in Userdata /\ Hidden(c).st = "open" /\ Hidden(c).native = "open" /\ Hidden(c).up = c
      /\ Hidden(c).lock = 0 /\ ~Hidden(c).left /\ Hidden(c).hidden
  BY <1>1, HiddenIs
<1>4. /\ Making(driver, obj, f1, s, c) /\ f1[s] = Hidden(c)
      /\ World(driver, f1, anchor \cup {<<c, c>>}, held)
  <2>1. held \subseteq held \cup {s}
    OBVIOUS
  <2> QED BY SMTT(30), <1>f, <1>0, <1>1, <1>2, <1>3, <2>1, ParentPut
<1>5. /\ f1 \in Tables /\ f1[s].st = "open" /\ f1[s].lock < MaxLock /\ f1[q].st = "none"
      /\ (\A y \in Obj : f1[y].up # q)
  BY <1>1, <1>2, <1>3, <1>4 DEF Making, Keeps
<1>6. f1[c].lock = obj[c].lock + 1
  <2>1. Real(driver, f1[s])
    BY <1>3, <1>4 DEF Real
  <2> QED BY <1>1, <1>2, <1>4, <2>1 DEF Making
<1>7. /\ NewCursor(s, 1) \in Userdata /\ NewCursor(s, 1).st = "open" /\ NewCursor(s, 1).native = "open"
      /\ NewCursor(s, 1).up = s /\ ~NewCursor(s, 1).left /\ NewCursor(s, 1).lock = 0
  BY <1>1, <1>2, NewCursorIs
<1> DEFINE a2 == (anchor \cup {<<c, c>>}) \cup {<<s, s>>}
<1>8. /\ Making(driver, f1, f2, q, s)
      /\ \A k \in SUBSET (held \cup {q}) : World(driver, f2, a2, k)
  <2> DEFINE a1 == anchor \cup {<<c, c>>}
  <2>1. a2 = a1 \cup {<<s, s>>} /\ World(driver, f1, a1, held)
    BY <1>4
  <2> HIDE DEF a1, a2, Making
  <2>2. ASSUME NEW k, k \subseteq held \cup {q} PROVE Making(driver, f1, f2, q, s) /\ World(driver, f2, a2, k)
    <3>1. driver \in {"odbc", "firebird"} /\ q \in Obj /\ f1[q].st = "none" /\ (\A y \in Obj : f1[y].up # q)
      BY <1>1, <1>5
    <3>2. s \in Obj /\ s \in Above(driver, q) /\ f1[s].st = "open" /\ f1[s].lock < MaxLock
      BY <1>1, <1>2, <1>5
    <3> DEFINE r == NewCursor(s, 1)
    <3>3. /\ r \in Userdata /\ r.st = "open" /\ r.up = s /\ r.lock = 0 /\ ~r.left /\ r.native = "open"
          /\ f2 = Grown(driver, f1, q, r, s)
      BY <1>g, <1>7
    <3> HIDE DEF r
    <3>4. Making(driver, f1, Grown(driver, f1, q, r, s), q, s) /\ World(driver, Grown(driver, f1, q, r, s), a2, k)
      <4> HIDE DEF Making
      <4>0. /\ driver \in {"odbc", "firebird"} /\ World(driver, f1, a1, held) /\ (a2 = a1 \cup {<<s, s>>} \/ (a2 = a1 \ {<<s, s>>} /\ s \in Stmt))
        BY <2>1, <3>1
      <4>1. Making(driver, f1, Grown(driver, f1, q, r, s), q, s)
        BY <4>0, <2>2, <3>1, <3>2, <3>3, ParentPut
      <4>2. World(driver, Grown(driver, f1, q, r, s), a2, k)
        BY <4>0, <2>2, <3>1, <3>2, <3>3, ParentPut
      <4> QED BY <4>1, <4>2
    <3> QED BY <3>3, <3>4
  <2>3. held \subseteq held \cup {q}
    OBVIOUS
  <2> QED BY <2>2, <2>3
<1>9. /\ f2[s].up = c /\ f2[s].st = "open" /\ f2[s].hidden /\ f2[c].lock = obj[c].lock + 1 /\ f2 \in Tables
  BY <1>1, <1>2, <1>3, <1>4, <1>5, <1>6, <1>8 DEF Making, Keeps
<1>10. Sound(driver, f2) /\ World(driver, f2, a2, held) /\ World(driver, f2, a2, held \cup {q})
  BY <1>8 DEF World
<1> DEFINE f3 == Shrunk(driver, f2, s)
<1>11. Leaving(driver, f2, f3, s) /\ f3[c].lock = obj[c].lock /\ f3[s].st = "closed"
  <2>1. f2[f2[s].up].st # "none"
    BY <1>1, <1>2, <1>4, <1>8, <1>9 DEF Making, Keeps
  <2>2. obj[c].lock \in Int
    BY <1>0, <1>1 DEF Tables, Userdata
  <2>3. Leaving(driver, f2, f3, s) /\ f3[s].st = "closed" /\ f3[c].lock = f2[c].lock - 1
    BY <1>0, <1>1, <1>2, <1>9, <1>10, <2>1, ShrunkIs
  <2> QED BY <1>9, <2>2, <2>3
<1> HIDE DEF f3
<1>12. World(driver, f3, Refused(s, c), held)
  <2> DEFINE b == anchor \cup {<<s, s>>} \cup Odbc!When(obj[c].lock > 0, <<c, c>>)
  <2>1. b = IF obj[c].lock > 0 THEN anchor \cup {<<s, s>>} \cup {<<c, c>>} ELSE anchor \cup {<<s, s>>}
    BY DEF Odbc!When
  <2> HIDE DEF b
  <2>2. obj[c].lock \in Int /\ (<<c, c>> \in anchor => obj[c].lock > 0)
    BY <1>0, <1>1 DEF ByParent, Tables, Userdata
  <2>3. /\ b \subseteq a2 /\ a2 \ {<<c, c>>, <<s, s>>} \subseteq b /\ <<s, s>> \notin a2 \ b
        /\ (<<c, c>> \in a2 \ b => f3[c].lock <= 0) /\ (<<c, c>> \in b => f3[c].lock > 0)
    BY <1>2, <1>11, <2>1, <2>2
  <2> HIDE DEF a2
  <2>4. World(driver, f3, b, held)
    <3> HIDE DEF Leaving
    <3> QED BY <1>0, <1>9, <1>10, <1>11, <2>3, LeaveParent
  <2> QED BY <2>4 DEF b, Refused
<1>13. a2 = anchor \cup {<<s, s>>, <<c, c>>}
  OBVIOUS
<1>14. f1 = ExecOne(s, c) /\ f2 = ExecTwo(s, q, c)
  BY Zenon, <1>f, <1>g DEF ExecOne, ExecTwo
<1>15. /\ World(driver, f2, anchor \cup {<<s, s>>, <<c, c>>}, held \cup {q})
       /\ World(driver, Shrunk(driver, f2, s), Refused(s, c), held)
       /\ f1 \in Tables /\ f2[s].up = c
  BY <1>5, <1>9, <1>10, <1>12, <1>13 DEF f3
<1> QED BY Zenon, <1>14, <1>15

\* Two children counted in one step, in either order.
LEMMA Added ==
  ASSUME NEW d, NEW f \in Tables, NEW x \in Obj, NEW p \in Obj, x # p, Tracks(d, p), NEW r
  PROVE  Odbc!Add([f EXCEPT ![x] = r], p) = Grown(d, f, x, r, p)
<1>1. [f EXCEPT ![x] = r][p] = f[p]
  BY DEF Tables
<1>2. Odbc!Add([f EXCEPT ![x] = r], p) = [[f EXCEPT ![x] = r] EXCEPT ![p].lock = [f EXCEPT ![x] = r][p].lock + 1]
  BY Zenon DEF Odbc!Add
<1>3. Odbc!Add([f EXCEPT ![x] = r], p) = [[f EXCEPT ![x] = r] EXCEPT ![p].lock = f[p].lock + 1]
  BY Zenon, <1>1, <1>2
<1>4. Grown(d, f, x, r, p) = [[f EXCEPT ![x] = r] EXCEPT ![p].lock = f[p].lock + 1]
  BY Zenon DEF Grown
<1> QED BY Zenon, <1>3, <1>4

Put(f, x, r) == [f EXCEPT ![x] = r]
Locked(f, p, v) == [f EXCEPT ![p].lock = v]

LEMMA SwappedPut ==
  ASSUME NEW f \in Tables, NEW q \in Obj, NEW c \in Obj, q # c, NEW r, NEW v \in Int
  PROVE  Locked(Put(f, q, r), c, v) = Put(Locked(f, c, v), q, r)
  BY DEF Tables, Locked, Put

\* The methods of ODBC.
LEMMA OdbcWorld ==
  ASSUME SqlIInv, driver = "odbc", Odbc!Next
  PROVE  World(driver, obj', anchor', held')
<1> DEFINE Goal == World(driver, obj', anchor', held')
<1>0. /\ World(driver, obj, anchor, held) /\ Sound(driver, obj) /\ obj \in Tables /\ ByParent(driver, obj, anchor, closing)
      /\ driver \in {"odbc", "firebird"}
      /\ Env \subseteq Obj /\ Conn \subseteq Obj /\ Stmt \subseteq Obj /\ Cur \subseteq Obj
  BY DEF SqlIInv, World, Sound, Shape, Registered, Obj
<1>t. \A p : Tracks(driver, p) <=> p \in Env \cup Conn \cup Stmt
  BY <1>0, OdbcBasics
<1>u. \A x \in Obj : /\ Real(driver, obj[x]) <=> obj[x].st = "open"
                     /\ obj[x].st # "none" => obj[x].up \in Above(driver, x) /\ obj[x].up # x
                     /\ obj[x].lock \in 0 .. MaxLock
  BY <1>0, OdbcBasics, LockIsNat
<1>1. ASSUME UNCHANGED <<obj, anchor, held>> PROVE Goal
  BY <1>0, <1>1, Zenon DEF SqlIInv
<1>2. ASSUME Odbc!create_environment PROVE Goal
  <2>1. PICK e \in Unused(Env) : obj' = [obj EXCEPT ![e] = New(None)] /\ anchor' = anchor /\ held' = held \cup {e}
    BY Zenon, <1>2, OdbcNames DEF Odbc!create_environment
  <2> QED BY <2>1, EnvPut
<1>3. ASSUME NEW e \in Opened(Env), Odbc!create_connection(e) PROVE Goal
  <2>0. e \in Env /\ e \in Obj /\ obj[e].st = "open" /\ MayLeak(driver, e)
    BY <1>0, OpenedIs DEF MayLeak, Leaky
  <2>1. CASE obj' = [obj EXCEPT ![e].left = TRUE] /\ UNCHANGED <<anchor, held>>
    BY <2>0, <2>1, LeftStill
  <2>2. CASE ~(obj' = [obj EXCEPT ![e].left = TRUE] /\ UNCHANGED <<anchor, held>>)
    <3>1. PICK c \in Unused(Conn) :
            /\ obj' = Odbc!Add([obj EXCEPT ![c] = New(e)], e)
            /\ anchor' = anchor \cup {<<e, e>>} /\ held' = held \cup {c}
      BY Zenon, <1>3, <2>2, OdbcNames DEF Odbc!create_connection, Odbc!lock_obj
    <3>2. c \in Conn /\ c \in Obj /\ e \in Above(driver, c) /\ Tracks(driver, e) /\ obj[c].st = "none"
          /\ \A y \in Obj : obj[y].up # c /\ obj[y].lock < MaxLock
      BY <1>0, <1>t, <2>0, FreshIs, Places DEF Above, Obj
    <3>3. obj' = Grown(driver, obj, c, New(e), e)
      BY <1>0, <1>u, <2>0, <3>1, <3>2, Added, Places DEF Above, Obj
    <3>4. /\ New(e) \in Userdata /\ New(e).st = "open" /\ New(e).native = "open"
          /\ New(e).up = e /\ ~New(e).left /\ New(e).lock = 0
      BY <2>0, NewIs
    <3>5. World(driver, Grown(driver, obj, c, New(e), e), anchor \cup {<<e, e>>}, held \cup {c})
      BY <1>0, <2>0, <3>2, <3>4, ParentPut
    <3> QED BY <3>1, <3>3, <3>5
  <2> QED BY <2>1, <2>2
<1>4. ASSUME NEW e \in Opened(Env), Odbc!env_close(e) PROVE Goal
  <2>1. CASE obj[e].lock > 0
    BY <1>1, <1>4, <2>1 DEF Odbc!env_close
  <2>2. CASE ~(obj[e].lock > 0)
    BY <1>4, <2>2, OdbcEnvShut DEF Odbc!env_close
  <2> QED BY <2>1, <2>2
<1>5. ASSUME NEW c \in Opened(Conn), Odbc!conn_close(c) PROVE Goal
  <2>1. CASE obj[c].lock > 0
    BY <1>1, <1>5, <2>1 DEF Odbc!conn_close
  <2>2. CASE ~(obj[c].lock > 0)
    <3>1. c \in Conn /\ c \in Obj /\ obj[c].st = "open"
      BY <1>0, OpenedIs
    <3>2. obj' = Odbc!conn_shut(c) /\ anchor' = Odbc!unlock_obj(anchor, Odbc!conn_shut(c), obj[c].up) /\ held' = held
      BY Zenon, <1>5, <2>2 DEF Odbc!conn_close
    <3> QED BY <2>2, <3>1, <3>2, OdbcConnShut
  <2> QED BY <2>1, <2>2
<1>6. ASSUME NEW c \in Opened(Conn), Odbc!conn_prepare(c) PROVE Goal
  <2>0. c \in Conn /\ c \in Obj /\ obj[c].st = "open"
    BY <1>0, OpenedIs
  <2>1. PICK s \in Unused(Stmt) :
          /\ obj' = Odbc!Add([obj EXCEPT ![s] = New(c)], c)
          /\ anchor' = anchor \cup {<<c, c>>} /\ held' = held \cup {s}
    BY Zenon, <1>6, OdbcNames DEF Odbc!conn_prepare, Odbc!lock_obj
  <2>2. s \in Stmt /\ s \in Obj /\ c \in Above(driver, s) /\ Tracks(driver, c) /\ obj[s].st = "none"
        /\ \A y \in Obj : obj[y].up # s /\ obj[y].lock < MaxLock
    BY <1>0, <1>t, <2>0, FreshIs, Places DEF Above, Obj
  <2>3. obj' = Grown(driver, obj, s, New(c), c)
    BY <1>0, <2>0, <2>1, <2>2, Added, Places DEF Above, Obj
  <2>4. /\ New(c) \in Userdata /\ New(c).st = "open" /\ New(c).native = "open"
        /\ New(c).up = c /\ ~New(c).left /\ New(c).lock = 0
    BY <2>0, NewIs
  <2>5. World(driver, Grown(driver, obj, s, New(c), c), anchor \cup {<<c, c>>}, held \cup {s})
    BY <1>0, <2>0, <2>2, <2>4, ParentPut
  <2> QED BY <2>1, <2>3, <2>5
<1>7. ASSUME NEW s \in Stmt, s \in Obj, obj[s].st = "open", RealOf(driver, obj, s) = {}
      PROVE  /\ Odbc!stmt_shut(obj, s) = Shrunk(driver, obj, s)
             /\ World(driver, Shrunk(driver, obj, s), Odbc!unlock_obj(anchor, Shrunk(driver, obj, s), obj[s].up), held)
             /\ Leaving(driver, obj, Shrunk(driver, obj, s), s) /\ Shrunk(driver, obj, s)[s].st = "closed"
  <2> DEFINE c == obj[s].up
             f == Shrunk(driver, obj, s)
  <2>1. c \in Conn /\ c \in Obj /\ Tracks(driver, c) /\ c \notin Stmt /\ s \notin Env /\ obj[c].lock \in Int
    BY <1>0, <1>t, <1>u, <1>7, Places DEF Above, Obj, Tables, Userdata
  <2>2. Odbc!stmt_shut(obj, s) = f
    BY Zenon, <2>1, OdbcNames DEF Odbc!stmt_shut, Odbc!Sub, Shrunk
  <2>3. /\ Leaving(driver, obj, f, s) /\ f[c].lock = obj[c].lock - 1 /\ f[s].st = "closed"
        /\ World(driver, f, IF obj[c].lock = 1 THEN anchor \ {<<c, c>>} ELSE anchor, held)
    <3>1. Real(driver, obj[s]) /\ s \in Obj \ Env
      BY <1>7, <1>u, <2>1
    <3> QED BY <1>0, <1>7, <2>1, <3>1, Unlocks
  <2>4. Odbc!unlock_obj(anchor, f, c) = IF obj[c].lock = 1 THEN anchor \ {<<c, c>>} ELSE anchor
    <3>1. Odbc!unlock_obj(anchor, f, c) = IF f[c].lock = 0 THEN anchor \ {<<c, c>>} ELSE anchor
      BY Zenon DEF Odbc!unlock_obj
    <3> QED BY <2>1, <2>3, <3>1
  <2> HIDE DEF f
  <2>5. World(driver, f, Odbc!unlock_obj(anchor, f, c), held)
    BY <2>3, <2>4
  <2> QED BY <2>2, <2>3, <2>5 DEF f
<1>8. ASSUME NEW s \in Opened(Stmt), Odbc!stmt_close(s) PROVE Goal
  <2>1. CASE obj[s].lock > 0
    BY <1>1, <1>8, <2>1 DEF Odbc!stmt_close
  <2>2. CASE ~(obj[s].lock > 0)
    <3>1. s \in Stmt /\ s \in Obj /\ obj[s].st = "open" /\ Tracks(driver, s)
      BY <1>0, <1>t, OpenedIs
    <3>2. RealOf(driver, obj, s) = {}
      BY <1>0, <2>2, <3>1, NoneLocked
    <3>3. obj' = Odbc!stmt_shut(obj, s) /\ anchor' = Odbc!unlock_obj(anchor, Odbc!stmt_shut(obj, s), obj[s].up) /\ held' = held
      BY Zenon, <1>8, <2>2 DEF Odbc!stmt_close
    <3> QED BY <1>7, <3>1, <3>2, <3>3
  <2> QED BY <2>1, <2>2
<1>9. ASSUME NEW s \in Opened(Stmt), NEW given \in BOOLEAN, Odbc!raw_execute(s, given) PROVE Goal
  <2>1. CASE UNCHANGED <<obj, anchor, held>>
    BY <1>1, <2>1
  <2>2. CASE ~UNCHANGED <<obj, anchor, held>>
    <3>0. s \in Stmt /\ s \in Obj /\ obj[s].st = "open" /\ 1 \in Width /\ Tracks(driver, s)
      BY <1>0, <1>t, OpenedIs DEF Width
    <3>1. PICK q \in Unused(Cur), info \in Odbc!create_colinfo :
            /\ obj' = Odbc!Add([obj EXCEPT ![q] = NewCursor(s, 1)], s)
            /\ anchor' = Odbc!create_cursor(s, given) /\ held' = held \cup Odbc!When(info = "described", q)
      <4>1. PICK q \in Odbc!Fresh(Cur), info \in Odbc!create_colinfo :
              /\ obj' = Odbc!Add([obj EXCEPT ![q] = Odbc!NewCursor(s, 1)], s)
              /\ anchor' = Odbc!create_cursor(s, given) /\ held' = held \cup Odbc!When(info = "described", q)
        BY Zenon, <1>9, <2>2 DEF Odbc!raw_execute, Odbc!Nothing
      <4>2. q \in Unused(Cur) /\ Odbc!NewCursor(s, 1) = NewCursor(s, 1)
        BY OdbcNames
      <4> QED BY Zenon, <4>1, <4>2
    <3>2. q \in Cur /\ q \in Obj /\ s \in Above(driver, q) /\ obj[q].st = "none"
          /\ \A y \in Obj : obj[y].up # q /\ obj[y].lock < MaxLock
      BY <1>0, <3>0, FreshIs, Places DEF Above, Obj
    <3>3. obj' = Grown(driver, obj, q, NewCursor(s, 1), s)
      BY <1>0, <3>0, <3>1, <3>2, Added, Places DEF Above, Obj
    <3>4. /\ NewCursor(s, 1) \in Userdata /\ NewCursor(s, 1).st = "open" /\ NewCursor(s, 1).native = "open"
          /\ NewCursor(s, 1).up = s /\ ~NewCursor(s, 1).left /\ NewCursor(s, 1).lock = 0
      BY <3>0, NewCursorIs
    <3>5. anchor' = anchor \cup {<<s, s>>} \/ (anchor' = anchor \ {<<s, s>>} /\ s \in Stmt)
      BY <3>0, <3>1 DEF Odbc!create_cursor, Odbc!lock_obj
    <3>6. held' \subseteq held \cup {q}
      BY <3>1 DEF Odbc!When
    <3>7. World(driver, Grown(driver, obj, q, NewCursor(s, 1), s), anchor', held')
      BY <1>0, <3>0, <3>2, <3>4, <3>5, <3>6, ParentPut
    <3> QED BY <3>3, <3>7
  <2> QED BY <2>1, <2>2
<1>10. ASSUME NEW c \in Opened(Conn), Odbc!conn_execute(c) PROVE Goal
  <2>0. /\ c \in Conn /\ c \in Obj /\ obj[c].st = "open" /\ Tracks(driver, c)
        /\ Odbc!New(c) = New(c) /\ Odbc!Fresh(Stmt) \subseteq Unused(Stmt) /\ Odbc!Fresh(Cur) \subseteq Unused(Cur)
        /\ \A s : Odbc!NewCursor(s, 1) = NewCursor(s, 1)
    BY <1>0, <1>t, OpenedIs, OdbcNames
  <2>1. [Odbc!New(c) EXCEPT !.hidden = TRUE] = Hidden(c)
    BY Zenon, <2>0 DEF Hidden
  <2> DEFINE H == [Odbc!New(c) EXCEPT !.hidden = TRUE]
             F(s, q) == Odbc!Add(Odbc!Add([obj EXCEPT ![s] = H, ![q] = Odbc!NewCursor(s, 1)], c), s)
  <2>3. ASSUME NEW s \in Odbc!Fresh(Stmt),
               obj' = Odbc!Add([obj EXCEPT ![s] = H], c), anchor' = anchor \cup {<<c, c>>}, held' = held
        PROVE  Goal
    <3>1. s \in Stmt /\ s \in Obj /\ c \in Above(driver, s) /\ obj[s].st = "none" /\ s # c
          /\ \A y \in Obj : obj[y].up # s /\ obj[y].lock < MaxLock
      BY <1>0, <2>0, FreshIs, Places DEF Above, Obj
    <3>2. obj' = Grown(driver, obj, s, Hidden(c), c)
      <4>1. obj' = Odbc!Add([obj EXCEPT ![s] = Hidden(c)], c)
        BY Zenon, <2>1, <2>3
      <4> HIDE DEF H
      <4> QED BY <1>0, <2>0, <3>1, <4>1, Added
    <3>3. held \subseteq held \cup {s}
      OBVIOUS
    <3>4. World(driver, Grown(driver, obj, s, Hidden(c), c), anchor \cup {<<c, c>>}, held)
      BY <1>0, <2>0, <3>1, <3>3, HiddenIs, ParentPut
    <3> QED BY <2>3, <3>2, <3>4
  <2>4. ASSUME NEW s \in Odbc!Fresh(Stmt), NEW q \in Odbc!Fresh(Cur), NEW info \in Odbc!create_colinfo,
               obj' = IF info = "described" THEN F(s, q) ELSE Odbc!stmt_shut(F(s, q), s),
               anchor' = anchor \cup {<<s, s>>} \cup Odbc!When(info = "described" \/ obj[c].lock > 0, <<c, c>>),
               held' = held \cup Odbc!When(info = "described", q)
        PROVE  Goal
    <3> DEFINE m == [obj EXCEPT ![s] = Hidden(c)]
               n == NewCursor(s, 1)
               f1 == ExecOne(s, c)
               f2 == ExecTwo(s, q, c)
    <3>1. /\ s \in Unused(Stmt) /\ q \in Unused(Cur) /\ s \in Stmt /\ s \in Obj /\ q \in Cur /\ q \in Obj
          /\ s # c /\ q # c /\ s # q /\ Tracks(driver, s)
      BY <1>0, <1>t, <2>0, FreshIs, Places DEF Obj
    <3>2. /\ World(driver, f2, anchor \cup {<<s, s>>, <<c, c>>}, held \cup {q})
          /\ World(driver, Shrunk(driver, f2, s), anchor \cup {<<s, s>>} \cup Odbc!When(obj[c].lock > 0, <<c, c>>), held)
          /\ f1 \in Tables /\ f2[s].up = c
      <4>1. /\ World(driver, f2, anchor \cup {<<s, s>>, <<c, c>>}, held \cup {q})
            /\ World(driver, Shrunk(driver, f2, s), Refused(s, c), held)
            /\ f1 \in Tables /\ f2[s].up = c
        BY Zenon, <3>1, OdbcExecutes
      <4> QED BY Zenon, <4>1 DEF Refused
    <3>3. F(s, q) = f2
      <4>1. m \in Tables
        BY <1>0, <2>0, <3>1, HiddenIs DEF Tables
      <4>2. Odbc!Add([m EXCEPT ![q] = n], c) = [Odbc!Add(m, c) EXCEPT ![q] = n]
        <5>1. [m EXCEPT ![q] = n][c] = m[c]
          BY <2>0, <3>1, <4>1 DEF Tables
        <5>2. Odbc!Add([m EXCEPT ![q] = n], c) = [[m EXCEPT ![q] = n] EXCEPT ![c].lock = [m EXCEPT ![q] = n][c].lock + 1]
          BY Zenon DEF Odbc!Add
        <5>3. Odbc!Add([m EXCEPT ![q] = n], c) = [[m EXCEPT ![q] = n] EXCEPT ![c].lock = m[c].lock + 1]
          BY Zenon, <5>1, <5>2
        <5>4. PICK v \in Int : v = m[c].lock + 1
          BY <2>0, <4>1 DEF Tables, Userdata
        <5>7. [[m EXCEPT ![q] = n] EXCEPT ![c].lock = v] = [[m EXCEPT ![c].lock = v] EXCEPT ![q] = n]
          <6>1. Locked(Put(m, q, n), c, v) = Put(Locked(m, c, v), q, n)
            <7> HIDE DEF m, n, H, F
            <7> QED BY <2>0, <3>1, <4>1, SwappedPut
          <6> QED BY Zenon, <6>1 DEF Locked, Put
        <5>5. [[m EXCEPT ![q] = n] EXCEPT ![c].lock = m[c].lock + 1] = [[m EXCEPT ![c].lock = m[c].lock + 1] EXCEPT ![q] = n]
          BY Zenon, <5>4, <5>7
        <5>6. Odbc!Add(m, c) = [m EXCEPT ![c].lock = m[c].lock + 1]
          BY Zenon DEF Odbc!Add
        <5> QED BY Zenon, <5>3, <5>5, <5>6
      <4>3. Odbc!Add(m, c) = f1
        <5>1. Odbc!Add(m, c) = Grown(driver, obj, s, Hidden(c), c)
          BY <1>0, <2>0, <3>1, Added
        <5> QED BY Zenon, <5>1 DEF ExecOne
      <4>4. Odbc!Add([f1 EXCEPT ![q] = n], s) = f2
        <5>1. Odbc!Add([f1 EXCEPT ![q] = n], s) = Grown(driver, f1, q, n, s)
          <6> HIDE DEF f1, n
          <6> QED BY <3>1, <3>2, Added
        <5> QED BY Zenon, <5>1 DEF ExecTwo
      <4>5. [obj EXCEPT ![s] = H, ![q] = Odbc!NewCursor(s, 1)] = [m EXCEPT ![q] = n]
        BY Zenon, <2>0, <2>1
      <4> QED BY Zenon, <4>2, <4>3, <4>4, <4>5
    <3>4. CASE info = "described"
      <4>1. obj' = f2 /\ anchor' = anchor \cup {<<s, s>>} \cup Odbc!When(TRUE, <<c, c>>) /\ held' = held \cup Odbc!When(TRUE, q)
        BY Zenon, <2>4, <3>3, <3>4
      <4>2. anchor' = anchor \cup {<<s, s>>, <<c, c>>} /\ held' = held \cup {q}
        BY <4>1 DEF Odbc!When
      <4> HIDE DEF f2
      <4> QED BY <3>2, <4>1, <4>2
    <3>5. CASE info # "described"
      <4>1. /\ obj' = Odbc!stmt_shut(f2, s)
            /\ anchor' = anchor \cup {<<s, s>>} \cup Odbc!When(obj[c].lock > 0, <<c, c>>)
            /\ held' = held \cup Odbc!When(FALSE, q)
        <5>1. obj' = Odbc!stmt_shut(f2, s)
          BY Zenon, <2>4, <3>3, <3>5
        <5> HIDE DEF f2, F, H
        <5>2. /\ Odbc!When(info = "described" \/ obj[c].lock > 0, <<c, c>>) = Odbc!When(obj[c].lock > 0, <<c, c>>)
              /\ Odbc!When(info = "described", q) = Odbc!When(FALSE, q)
          BY <3>5 DEF Odbc!When
        <5> QED BY Zenon, <2>4, <5>1, <5>2
      <4> HIDE DEF f2, F, H
      <4>2. Odbc!stmt_shut(f2, s) = Shrunk(driver, f2, s)
        BY Zenon, <2>0, <3>2, OdbcNames DEF Odbc!stmt_shut, Odbc!Sub, Shrunk
      <4>3. held' = held
        BY <4>1 DEF Odbc!When
      <4> QED BY <3>2, <4>1, <4>2, <4>3
    <3> QED BY <3>4, <3>5
  <2>5. \/ \E s \in Odbc!Fresh(Stmt) :
              /\ obj' = Odbc!Add([obj EXCEPT ![s] = H], c)
              /\ anchor' = Odbc!lock_obj(c) /\ UNCHANGED <<held, tx>>
        \/ tx' = [tx EXCEPT ![c] = Odbc!Done(@)] /\ UNCHANGED <<obj, anchor, held>>
        \/ \E s \in Odbc!Fresh(Stmt), q \in Odbc!Fresh(Cur), info \in Odbc!create_colinfo :
             /\ obj' = IF info = "described" THEN F(s, q) ELSE Odbc!stmt_shut(F(s, q), s)
             /\ anchor' = anchor \cup {<<s, s>>} \cup Odbc!When(info = "described" \/ obj[c].lock > 0, <<c, c>>)
             /\ held' = held \cup Odbc!When(info = "described", q)
             /\ UNCHANGED tx
    BY Zenon, <1>10 DEF Odbc!conn_execute
  <2>6. CASE \E s \in Odbc!Fresh(Stmt) :
               /\ obj' = Odbc!Add([obj EXCEPT ![s] = H], c)
               /\ anchor' = Odbc!lock_obj(c) /\ UNCHANGED <<held, tx>>
    BY Zenon, <2>3, <2>6 DEF Odbc!lock_obj
  <2> QED BY Zenon, <1>1, <2>4, <2>5, <2>6
<1>11. ASSUME NEW x \in Collectable(Env) \cup Collectable(Conn) \cup Collectable(Stmt) \cup Collectable(Cur),
              \/ x \in Env /\ Odbc!env_gc(x)
              \/ x \in Conn /\ Odbc!conn_gc(x)
              \/ x \in Stmt /\ Odbc!stmt_gc(x)
              \/ x \in Cur /\ Odbc!cur_gc(x)
       PROVE  Goal
  <2>0. /\ x \in Obj /\ obj[x].st # "none" /\ x \notin held /\ (x \notin Stmt => RealOf(driver, obj, x) = {})
        /\ ~closing => \A h \in Obj : <<h, x>> \notin anchor
    BY <1>0, CollectableIs DEF Alone
  <2>1. ASSUME obj[x].st # "open" \/ x \in Env, obj' = [obj EXCEPT ![x] = Vacant], UNCHANGED <<anchor, held>> PROVE Goal
    <3>1. ~Real(driver, obj[x]) \/ x \in Env
      BY <1>u, <2>0, <2>1
    <3>2. RealOf(driver, obj, x) = {} \/ (driver = "odbc" /\ x \in Stmt)
      BY <2>0
    <3>3. World(driver, [obj EXCEPT ![x] = Vacant], anchor, held)
      BY <1>0, <2>0, <3>1, <3>2, Vacated
    <3> QED BY <2>1, <3>3
  <2>2. ASSUME obj[x].st = "open", x \in Conn \cup Stmt, obj' = Adrift(obj, x), UNCHANGED <<anchor, held>> PROVE Goal
    <3>1. obj[x].up \notin Stmt /\ Real(driver, obj[x]) /\ x \in Obj \ Env
      BY <1>u, <2>0, <2>2, Places DEF Above, Obj
    <3>2. RealOf(driver, obj, x) = {} \/ (driver = "odbc" /\ x \in Stmt)
      BY <2>0
    <3> QED BY <1>0, <2>0, <2>2, <3>1, <3>2, Stranded
  <2>3. ASSUME NEW f, NEW a, World(driver, f, a, held), f[x].st = "closed", a \subseteq anchor,
               x \in Stmt \/ RealOf(driver, f, x) = {},
               obj' = [f EXCEPT ![x] = Vacant], anchor' = a, held' = held
        PROVE  Goal
    <3>1. ~Real(driver, f[x]) /\ f[x].st # "none" /\ (~closing => \A h \in Obj : <<h, x>> \notin a)
      BY <2>0, <2>3 DEF Real
    <3>2. World(driver, [f EXCEPT ![x] = Vacant], a, held)
      BY <1>0, <2>0, <2>3, <3>1, Vacated
    <3> QED BY <2>3, <3>2
  <2>4. CASE x \in Env /\ Odbc!env_gc(x)
    <3>1. obj' = [obj EXCEPT ![x] = Vacant] /\ anchor' = anchor /\ held' = held
      BY Zenon, <2>4, OdbcNames DEF Odbc!env_gc, Odbc!Gone
    <3> QED BY <2>1, <2>4, <3>1
  <2>5. CASE x \in Conn /\ Odbc!conn_gc(x)
    <3>1. CASE obj[x].st = "open" /\ obj[x].lock = 0
      <4>1. /\ Leaving(driver, obj, Odbc!conn_shut(x), x) /\ Odbc!conn_shut(x)[x].st = "closed"
            /\ World(driver, Odbc!conn_shut(x), Odbc!unlock_obj(anchor, Odbc!conn_shut(x), obj[x].up), held)
        BY <2>0, <2>5, <3>1, OdbcConnShut
      <4>2. /\ obj' = [Odbc!conn_shut(x) EXCEPT ![x] = Vacant] /\ held' = held
            /\ anchor' = Odbc!unlock_obj(anchor, Odbc!conn_shut(x), obj[x].up)
        BY Zenon, <2>5, <3>1, OdbcNames DEF Odbc!conn_gc, Odbc!Gone
      <4>3. Odbc!unlock_obj(anchor, Odbc!conn_shut(x), obj[x].up) \subseteq anchor
        BY DEF Odbc!unlock_obj
      <4>4. RealOf(driver, Odbc!conn_shut(x), x) = {}
        <5> DEFINE f == Odbc!conn_shut(x)
        <5>1. \A y \in Obj \ {x} : f[y].up = obj[y].up /\ Real(driver, f[y]) = Real(driver, obj[y])
          BY <4>1 DEF Leaving, Keeps, Real
        <5>2. ~Real(driver, f[x]) /\ RealOf(driver, obj, x) = {}
          BY <2>0, <2>5, <4>1, Places DEF Real
        <5> QED BY <5>1, <5>2 DEF RealOf
      <4> QED BY <2>3, <4>1, <4>2, <4>3, <4>4
    <3>2. CASE obj[x].st = "open" /\ obj[x].lock # 0
      <4>1. obj' = Adrift(obj, x) /\ anchor' = anchor /\ held' = held
        BY Zenon, <2>5, <3>2, OdbcNames DEF Odbc!conn_gc, Odbc!Gone, Odbc!Strand, Adrift
      <4> QED BY <2>2, <2>5, <3>2, <4>1
    <3>3. CASE obj[x].st # "open"
      <4>1. obj' = [obj EXCEPT ![x] = Vacant] /\ anchor' = anchor /\ held' = held
        BY Zenon, <2>5, <3>3, OdbcNames DEF Odbc!conn_gc, Odbc!Gone, Odbc!Strand
      <4> QED BY <2>1, <3>3, <4>1
    <3> QED BY <3>1, <3>2, <3>3
  <2>6. CASE x \in Stmt /\ Odbc!stmt_gc(x)
    <3>1. CASE obj[x].st = "open" /\ obj[x].lock = 0
      <4>1. RealOf(driver, obj, x) = {}
        BY <1>0, <1>t, <2>0, <2>6, <3>1, NoneLocked
      <4> DEFINE f == Shrunk(driver, obj, x)
                 a == Odbc!unlock_obj(anchor, f, obj[x].up)
      <4>2. Odbc!stmt_shut(obj, x) = f /\ World(driver, f, a, held) /\ f[x].st = "closed"
        BY <1>7, <2>0, <2>6, <3>1, <4>1
      <4>3. obj' = [f EXCEPT ![x] = Vacant] /\ held' = held /\ anchor' = a
        BY Zenon, <2>6, <3>1, <4>2, OdbcNames DEF Odbc!stmt_gc, Odbc!Gone
      <4>4. a \subseteq anchor
        BY DEF Odbc!unlock_obj
      <4> HIDE DEF f, a
      <4> QED BY <2>3, <2>6, <4>2, <4>3, <4>4
    <3>2. CASE obj[x].st = "open" /\ obj[x].lock # 0
      <4>1. obj' = Adrift(obj, x) /\ anchor' = anchor /\ held' = held
        BY Zenon, <2>6, <3>2, OdbcNames DEF Odbc!stmt_gc, Odbc!Gone, Odbc!Strand, Adrift
      <4> QED BY <2>2, <2>6, <3>2, <4>1
    <3>3. CASE obj[x].st # "open"
      <4>1. obj' = [obj EXCEPT ![x] = Vacant] /\ anchor' = anchor /\ held' = held
        BY Zenon, <2>6, <3>3, OdbcNames DEF Odbc!stmt_gc, Odbc!Gone, Odbc!Strand
      <4> QED BY <2>1, <3>3, <4>1
    <3> QED BY <3>1, <3>2, <3>3
  <2>7. CASE x \in Cur /\ Odbc!cur_gc(x)
    <3>1. CASE obj[x].st = "open"
      <4> DEFINE f == Odbc!cur_shut(x).f
                 a == Odbc!cur_shut(x).a
      <4>1. World(driver, f, a, held) /\ a \subseteq anchor /\ f[x].st = "closed"
        BY <2>0, <2>7, <3>1, OdbcCurShut
      <4>2. obj' = [f EXCEPT ![x] = Vacant] /\ held' = held /\ anchor' = a
        BY Zenon, <2>7, <3>1, OdbcNames DEF Odbc!cur_gc, Odbc!Gone
      <4> HIDE DEF f, a
      <4>3. RealOf(driver, f, x) = {}
        <5>1. Sound(driver, f)
          BY <4>1 DEF World
        <5> QED BY <2>7, <5>1, OdbcBasics, Places DEF RealOf, Above, Obj
      <4> QED BY <2>3, <4>1, <4>2, <4>3
    <3>2. CASE obj[x].st # "open"
      <4>1. obj' = [obj EXCEPT ![x] = Vacant] /\ anchor' = anchor /\ held' = held
        BY Zenon, <2>7, <3>2, OdbcNames DEF Odbc!cur_gc, Odbc!Gone
      <4> QED BY <2>1, <3>2, <4>1
    <3> QED BY <3>1, <3>2
  <2> QED BY <1>11, <2>4, <2>5, <2>6, <2>7
<1>12. ASSUME NEW q \in Opened(Cur), Odbc!cur_close(q) PROVE Goal
  <2>1. q \in Cur /\ q \in Obj /\ obj[q].st = "open"
    BY <1>0, OpenedIs
  <2>2. obj' = Odbc!cur_shut(q).f /\ anchor' = Odbc!cur_shut(q).a /\ held' = held
    BY Zenon, <1>12 DEF Odbc!cur_close
  <2> QED BY <2>1, <2>2, OdbcCurShut
<1> HIDE DEF Goal
<1>13. Goal
  <2>1. ASSUME NEW c \in Opened(Conn),
               \/ Odbc!conn_close(c) \/ Odbc!conn_prepare(c) \/ Odbc!conn_execute(c) \/ Odbc!conn_commit(c)
               \/ Odbc!conn_rollback(c) \/ \E on \in BOOLEAN : Odbc!conn_setautocommit(c, on)
        PROVE  Goal
    <3>1. Odbc!EndTran(c) => Goal
      BY OdbcEndTran DEF Goal
    <3> QED BY <1>1, <1>5, <1>6, <1>10, <2>1, <3>1 DEF Odbc!conn_commit, Odbc!conn_rollback, Odbc!conn_setautocommit
  <2>2. ASSUME NEW s \in Opened(Stmt), NEW given \in BOOLEAN, Odbc!stmt_execute(s, given) PROVE Goal
    BY <1>1, <1>9, <2>2 DEF Odbc!stmt_execute, Odbc!Nothing
  <2>3. ASSUME NEW q \in Opened(Cur), Odbc!cur_fetch(q) PROVE Goal
    BY <1>1, <1>12, <2>3 DEF Odbc!cur_fetch, Odbc!Nothing
  <2>4. ASSUME NEW x \in Collectable(Env) \cup Collectable(Conn) \cup Collectable(Stmt) \cup Collectable(Cur),
               \/ x \in Collectable(Env) /\ Odbc!env_gc(x)
               \/ x \in Collectable(Conn) /\ Odbc!conn_gc(x)
               \/ x \in Collectable(Stmt) /\ Odbc!stmt_gc(x)
               \/ x \in Collectable(Cur) /\ Odbc!cur_gc(x)
        PROVE  Goal
    <3>1. \A S : Collectable(S) \subseteq S
      BY DEF Collectable
    <3> QED BY <1>11, <2>4, <3>1
  <2>5. ASSUME NEW e \in Opened(Env), Odbc!env_connect(e) PROVE Goal
    BY <1>3, <2>5 DEF Odbc!env_connect
  <2> QED BY <1>2, <1>4, <1>8, <1>12, <2>1, <2>2, <2>3, <2>4, <2>5, OdbcNames DEF Odbc!Next
<1> QED BY <1>13 DEF Goal

-----------------------------------------------------------------------------
(* The first part is inductive.                                            *)

\* An empty Lua state is sound, ...
LEMMA StartsSound ==
  ASSUME SqlInit
  PROVE  SqlIInv
<1> DEFINE f == [o \in Obj |-> Vacant]
<1>0. /\ driver \in Drivers /\ obj = f /\ anchor = {} /\ held = {} /\ closing = FALSE
  BY DEF SqlInit
<1>1. f \in Tables /\ \A x \in Obj : f[x] = Vacant
  BY VacantIs DEF Tables
<1> HIDE DEF f
<1>2. \A x \in Obj : Blank(f[x])
  BY <1>1, VacantIs
<1>3. \A x \in Obj : ~f[x].left
  BY <1>1, Zeros DEF Vacant
<1>4. Shape(driver, f) /\ Handles(driver, f) /\ Tree(driver, f)
  BY <1>1, <1>2, <1>3 DEF Shape, Handles, Tree, Real, Blank
<1>5. Counters(driver, f)
  BY <1>2, Places DEF Counters, Blank
<1>6. Registered(driver, f, anchor, closing)
  BY <1>0, <1>2 DEF Registered, ByChild, ByParent, Blank, Real, Obj
<1>7. Unfilled(f) /\ HeldOpen(driver, f, held)
  BY <1>0, <1>2 DEF Unfilled, HeldOpen, Blank, Obj
<1> QED BY <1>0, <1>4, <1>5, <1>6, <1>7 DEF SqlIInv, World, Sound

\* ... the runtime keeps it so, ...
LEMMA ForgetKeeps ==
  ASSUME SqlIInv, NEW o \in Obj, Forget(o)
  PROVE  SqlIInv'
<1>1. held' = held \ {o} /\ UNCHANGED <<driver, obj, anchor, closing>> /\ ~closing
  BY DEF Forget
<1>2. World(driver, obj, anchor, held')
  BY <1>1 DEF SqlIInv, World, HeldOpen
<1> QED BY <1>1, <1>2 DEF SqlIInv, World, Unfilled, Sound, Registered, HeldOpen, ByChild, ByParent

LEMMA CloseKeeps ==
  ASSUME SqlIInv, CloseState
  PROVE  SqlIInv'
<1>1. held' = {} /\ closing' = TRUE /\ UNCHANGED <<driver, obj, anchor>> /\ ~closing
  BY DEF CloseState
<1>2. Sound(driver, obj)' /\ Unfilled(obj)' /\ Registered(driver, obj, anchor, TRUE)
  BY <1>1 DEF SqlIInv, World, Registered, ByChild, ByParent, Unfilled
<1>3. HeldOpen(driver, obj, held)'
  BY <1>1 DEF HeldOpen
<1> QED BY <1>1, <1>2, <1>3 DEF SqlIInv, World

\* ... and so does every method of every driver.
LEMMA DriverKeeps ==
  ASSUME SqlIInv, Driver
  PROVE  SqlIInv'
<1>1. UNCHANGED <<driver, closing>>
  BY Zenon DEF Driver, Mysql!Next, Postgres!Next, Lite3!Next, Lite!Next, Odbc!Next, Oci8!Next, Firebird!Next
<1>2. World(driver, obj', anchor', held') /\ Unfilled(obj')
  <2>1. driver # "firebird" => Unfilled(obj')
    BY DEF Unfilled
  <2> HIDE DEF Unfilled
  <2> QED BY <2>1, MysqlWorld, PostgresWorld, Lite3World, LiteWorld, OdbcWorld, Oci8World, FirebirdWorld DEF Driver
<1>3. ASSUME closing PROVE held' = {}
  <2>1. \A S : Opened(S) = {}
    BY <1>3 DEF Opened, Here
  <2>2. held = {}
    BY <1>3 DEF SqlIInv
  <2>3. CASE driver = "mysql" /\ Mysql!Next
    <3>1. PICK x : Mysql!env_gc(x) \/ Mysql!conn_gc(x) \/ Mysql!cur_gc(x)
      BY Zenon, <1>3, <2>1, <2>3, MysqlNames DEF Mysql!Next
    <3> QED BY Zenon, <2>2, <3>1 DEF Mysql!env_gc, Mysql!conn_gc, Mysql!cur_gc, Mysql!Gone
  <2>4. CASE driver = "postgres" /\ Postgres!Next
    <3>1. PICK x : Postgres!env_gc(x) \/ Postgres!conn_gc(x) \/ Postgres!cur_gc(x)
      BY Zenon, <1>3, <2>1, <2>4, PostgresNames DEF Postgres!Next
    <3> QED BY Zenon, <2>2, <3>1 DEF Postgres!env_gc, Postgres!conn_gc, Postgres!cur_gc, Postgres!Gone
  <2>5. CASE driver = "sqlite3" /\ Lite3!Next
    <3>1. PICK x : Lite3!env_gc(x) \/ Lite3!conn_gc(x) \/ Lite3!cur_gc(x)
      BY Zenon, <1>3, <2>1, <2>5, Lite3Names DEF Lite3!Next
    <3> QED BY Zenon, <2>2, <3>1 DEF Lite3!env_gc, Lite3!conn_gc, Lite3!cur_gc, Lite3!Gone
  <2>6. CASE driver = "sqlite" /\ Lite!Next
    <3>1. PICK x : Lite!env_gc(x) \/ Lite!conn_gc(x) \/ Lite!cur_gc(x)
      BY Zenon, <1>3, <2>1, <2>6, LiteNames DEF Lite!Next
    <3> QED BY Zenon, <2>2, <3>1 DEF Lite!env_gc, Lite!conn_gc, Lite!cur_gc, Lite!L3!env_gc, Lite!L3!conn_gc, Lite!L3!cur_gc, Lite!L3!Gone
  <2>7. CASE driver = "odbc" /\ Odbc!Next
    <3>1. PICK x : Odbc!env_gc(x) \/ Odbc!conn_gc(x) \/ Odbc!stmt_gc(x) \/ Odbc!cur_gc(x)
      BY Zenon, <1>3, <2>1, <2>7, OdbcNames DEF Odbc!Next
    <3> QED BY Zenon, <2>2, <3>1 DEF Odbc!env_gc, Odbc!conn_gc, Odbc!stmt_gc, Odbc!cur_gc, Odbc!Gone
  <2>8. CASE driver = "oci8" /\ Oci8!Next
    <3>1. PICK x : Oci8!env_gc(x) \/ Oci8!conn_gc(x) \/ Oci8!cur_gc(x)
      BY Zenon, <1>3, <2>1, <2>8, Oci8Names DEF Oci8!Next
    <3> QED BY Zenon, <2>2, <3>1 DEF Oci8!env_gc, Oci8!conn_gc, Oci8!cur_gc, Oci8!Gone
  <2>9. CASE driver = "firebird" /\ Firebird!Next
    <3>1. PICK x : Firebird!env_gc(x) \/ Firebird!conn_gc(x) \/ Firebird!cur_gc(x)
      BY Zenon, <1>3, <2>1, <2>9, FirebirdNames DEF Firebird!Next
    <3> QED BY Zenon, <2>2, <3>1 DEF Firebird!env_gc, Firebird!conn_gc, Firebird!cur_gc, Firebird!Gone
  <2> QED BY <2>3, <2>4, <2>5, <2>6, <2>7, <2>8, <2>9 DEF Driver
<1>4. World(driver, obj, anchor, held)'
  BY <1>1, <1>2 DEF World
<1>5. Unfilled(obj)'
  BY <1>1, <1>2 DEF Unfilled
<1> QED BY <1>1, <1>3, <1>4, <1>5 DEF SqlIInv

LEMMA SqlInductive == SqlIInv /\ [SqlNext]_sqlVars => SqlIInv'
<1> SUFFICES ASSUME SqlIInv, [SqlNext]_sqlVars PROVE SqlIInv'
  OBVIOUS
<1>1. CASE UNCHANGED sqlVars
  BY <1>1 DEF sqlVars, SqlIInv, World, Unfilled, Sound, Registered, HeldOpen, ByChild, ByParent
<1>2. CASE Runtime
  BY <1>2, ForgetKeeps, CloseKeeps DEF Runtime
<1>3. CASE Driver
  BY <1>3, DriverKeeps
<1> QED BY <1>1, <1>2, <1>3 DEF SqlNext

\* The objects, the counters and the registry of LuaSQL fit together whatever a
\* script, the collector and the database do, with every driver and any number
\* of objects.
THEOREM SqlInvariant == SqlSpec => []SqlIInv
<1> QED BY StartsSound, SqlInductive, PTL DEF SqlSpec

\* Each property is a consequence.
LEMMA CountsFollow == SqlIInv => CountsAreTrue
<1> SUFFICES ASSUME SqlIInv, driver \in Counting PROVE CountsAreTrue
  BY DEF CountsAreTrue, CountersAgree, OpenUnderOpen
<1>0. Sound(driver, obj) /\ obj \in Tables
  BY DEF SqlIInv, World, Sound, Shape
<1>1. \A p : RealChildren(p) = RealOf(driver, obj, p)
  BY DEF RealChildren, OpenChildren, Children, RealOf, Real, Counting, SqliteDrivers, CountingEnv
<1>2. CountersAgree
  <2> SUFFICES ASSUME NEW p \in Conn \cup Stmt \cup (IF driver \in CountingEnv THEN Env ELSE {}), obj[p].st # "none"
               PROVE  LET n == Cardinality(RealChildren(p))
                      IN  obj[p].lock >= n /\ (~obj[p].stuck => obj[p].lock = n)
    BY DEF CountersAgree
  <2>1. p \in Obj /\ Tracks(driver, p)
    BY DEF Obj, Tracks
  <2>2. Counted(driver, obj, p) /\ obj[p].lock \in Int
    BY <1>0, <2>1 DEF Sound, Counters, Tables, Userdata
  <2>3. Cardinality(RealOf(driver, obj, p)) \in Nat
    BY RealFinite, FS_CardinalityType
  <2> QED BY <1>1, <2>2, <2>3 DEF Counted
<1>3. OpenUnderOpen
  <2> SUFFICES ASSUME NEW p \in Obj \ (IF driver \in SqliteDrivers THEN Env ELSE {}), NEW x \in RealOf(driver, obj, p)
               PROVE  obj[p].st = "open" \/ (driver = "odbc" /\ p \in Stmt /\ (obj[p].hidden \/ obj[p].st = "none"))
    BY <1>1 DEF OpenUnderOpen
  <2>1. x \in Obj \ Env /\ Real(driver, obj[x]) /\ obj[x].up = p /\ p \in Above(driver, x)
    BY <1>0, Places DEF RealOf, Sound, Shape, Above, Real
  <2>2. Tracks(driver, p)
    BY <2>1 DEF Above, Obj, Tracks, Counting, CountingEnv, SqliteDrivers
  <2> QED BY <1>0, <2>1, <2>2 DEF Sound, Tree, Astray
<1> QED BY <1>2, <1>3 DEF CountsAreTrue

LEMMA ParentsFollow == SqlIInv => ParentsOutlive
<1> SUFFICES ASSUME SqlIInv, NEW p \in Obj, obj[p].st = "none", NEW x \in RealChildren(p)
             PROVE  driver = "odbc" /\ p \in Stmt
  BY DEF ParentsOutlive
<1>1. Sound(driver, obj) /\ x \in Obj /\ obj[x].up = p /\ Real(driver, obj[x])
  BY DEF SqlIInv, World, RealChildren, OpenChildren, Children, Real
<1>2. x \notin Env
  BY <1>1, Places DEF Sound, Shape, Above, Real
<1> QED BY <1>1, <1>2 DEF Sound, Tree

LEMMA RegistryFollows == SqlIInv => KeptForAChild
<1> SUFFICES ASSUME SqlIInv, ~closing, NEW r \in anchor
             PROVE  \/ OpenChildren(r[2]) # {}
                    \/ driver = "oci8" /\ r[2] \in Env
                    \/ driver = "firebird" /\ r[2] \in Conn
                    \/ obj[r[2]].stuck
  BY DEF KeptForAChild
<1>0. Sound(driver, obj) /\ obj \in Tables /\ Registered(driver, obj, anchor, closing)
  BY DEF SqlIInv, World, Sound, Shape
<1>1. PICK h \in Obj, o \in Obj : r = <<h, o>> /\ <<h, o>> \in anchor
  BY <1>0 DEF Registered, ByChild, ByParent
<1>2. CASE driver \notin {"odbc", "firebird"}
  <2>1. \/ obj[h].st = "open" /\ obj[h].up = o
        \/ driver = "oci8" /\ h = o /\ (o \in Env \/ obj[o].stuck)
    BY <1>0, <1>1, <1>2 DEF Registered, ByChild
  <2> QED BY <1>1, <2>1 DEF OpenChildren, Children
<1>3. CASE driver \in {"odbc", "firebird"}
  <2>1. h = o /\ (obj[o].lock > 0 \/ (driver = "firebird" /\ o \in Conn))
    BY <1>0, <1>1, <1>3 DEF Registered, ByParent
  <2>2. ASSUME obj[o].lock > 0, ~obj[o].stuck PROVE OpenChildren(o) # {}
    <3>1. Counted(driver, obj, o) /\ obj[o].lock \in Int
      BY <1>0, <2>2 DEF Sound, Counters, Tables, Userdata
    <3>2. RealOf(driver, obj, o) # {}
      BY <2>2, <3>1, FS_EmptySet DEF Counted
    <3> QED BY <3>2 DEF RealOf, Real, OpenChildren, Children
  <2> QED BY <1>1, <2>1, <2>2
<1> QED BY <1>2, <1>3

LEMMA ObjectsFollow ==
  ASSUME SqlIInv
  PROVE  /\ driver \in Drivers /\ closing \in BOOLEAN /\ anchor \subseteq Obj \X Obj /\ held \subseteq Obj
         /\ obj \in [Obj -> [st: {"none", "open", "closed"}, up: Obj \cup {None},
                             lock: 0 .. MaxLock, native: {"none", "open", "freed", "null", "lost"},
                             stuck: BOOLEAN, numcols: Width, width: Width,
                             more: Waiting, info: BOOLEAN,
                             hidden: BOOLEAN, left: BOOLEAN]]
<1>0. Sound(driver, obj) /\ obj \in Tables /\ Registered(driver, obj, anchor, closing) /\ HeldOpen(driver, obj, held)
  BY DEF SqlIInv, World, Sound, Shape
<1>1. anchor \subseteq Obj \X Obj /\ held \subseteq Obj /\ driver \in Drivers /\ closing \in BOOLEAN
  BY <1>0 DEF Registered, ByChild, ByParent, HeldOpen, SqlIInv
<1>2. ASSUME NEW x \in Obj
      PROVE  obj[x] \in [st: {"none", "open", "closed"}, up: Obj \cup {None},
                         lock: 0 .. MaxLock, native: {"none", "open", "freed", "null", "lost"},
                         stuck: BOOLEAN, numcols: Width, width: Width,
                         more: Waiting, info: BOOLEAN,
                         hidden: BOOLEAN, left: BOOLEAN]
  <2>1. obj[x] \in Userdata /\ obj[x].lock \in 0 .. MaxLock
    BY <1>0, LockIsNat DEF Tables
  <2>2. PICK r \in Userdata : r = obj[x]
    BY <2>1
  <2> QED BY <2>1, <2>2 DEF Userdata
<1> QED BY <1>0, <1>1, <1>2 DEF Tables

-----------------------------------------------------------------------------
(* Transactions: what each driver does to the transaction of a connection, *)
(* and what it can be caught at.                                           *)

\* What a driver can be caught at, and how a step writes it and a transaction.
Heard(d) ==
  CASE d = "postgres" -> {"freed connection", "commit of what was rolled back"}
    [] d = "sqlite3" -> {"parameter left out"}
    [] OTHER -> Mistakes[d] \cup LosesHandles[d]
TxMove(c, t) == tx' = [tx EXCEPT ![c] = t]
TxKept == UNCHANGED tx
HeardOnly(d) == slips' \subseteq Heard(d)

LEMMA HeardIs ==
  /\ Heard("mysql") = {"freed connection", "library ended", "no result", "row past its columns"}
  /\ Heard("postgres") = {"freed connection", "commit of what was rolled back"}
  /\ Heard("sqlite3") = {"parameter left out"}
  /\ Heard("sqlite") = {}
  /\ Heard("odbc") = {"freed statement", "freed statement handle", "error in the collector",
                      "statement freed under its cursor"}
  /\ Heard("oci8") = {"error in the collector", "statement handle lost", "error handle lost"}
  /\ Heard("firebird") = {"uninitialised cursor", "statement handle lost", "database left attached"}
  BY DEF Heard, Mistakes, LosesHandles, Drivers

\* What the methods of MySQL do to a transaction, and what they are caught at.
MysqlMoves(c) ==
  \/ TxMove(c, AutoTx)
  \/ TxMove(c, Done(tx[c]))
  \/ TxMove(c, [tx[c] EXCEPT !.work = "none"])
  \/ \E on \in BOOLEAN : TxMove(c, [tx[c] EXCEPT !.asked = on, !.lost = "mode not set"])
  \/ \E on \in BOOLEAN :
       TxMove(c, [auto |-> on, asked |-> on, in |-> ~on, lost |-> "nothing",
                  work |-> IF on THEN "none" ELSE tx[c].work])

LEMMA MysqlTx ==
  ASSUME Mysql!Next
  PROVE  /\ TxKept \/ \E c \in Conn : MysqlMoves(c)
         /\ HeardOnly("mysql")
<1> USE DEF TxMove, TxKept, MysqlMoves, HeardOnly, Mysql!Note, Mysql!Fine, Mysql!When, Mysql!Nothing
<1> USE HeardIs
<1>1. CASE Mysql!create_environment
  BY <1>1 DEF Mysql!create_environment
<1>2. CASE \E e \in Mysql!Opened(Env) : Mysql!env_connect(e) \/ Mysql!env_close(e)
  BY <1>2 DEF Mysql!env_connect, Mysql!env_close, Mysql!Fresh, Mysql!AutoTx, AutoTx
<1>3. CASE \E e \in Mysql!Collectable(Env) : Mysql!env_gc(e)
  BY <1>3 DEF Mysql!env_gc
<1>4. ASSUME NEW c \in Mysql!Opened(Conn),
             \/ Mysql!conn_close(c) \/ Mysql!conn_ask(c) \/ Mysql!conn_execute(c) \/ Mysql!conn_commit(c) \/ Mysql!conn_rollback(c)
             \/ \E on \in BOOLEAN : Mysql!conn_setautocommit(c, on)
      PROVE /\ TxKept \/ MysqlMoves(c)
            /\ HeardOnly("mysql")
  BY <1>4 DEF Mysql!conn_close, Mysql!conn_ask, Mysql!conn_execute, Mysql!conn_commit, Mysql!conn_rollback,
     Mysql!conn_setautocommit, Mysql!EndWork, Mysql!create_cursor, Mysql!Touch, Mysql!AutoTx, AutoTx, Mysql!Done, Done
<1>5. CASE \E c \in Mysql!Collectable(Conn) : Mysql!conn_gc(c)
  BY <1>5 DEF Mysql!conn_gc, Mysql!Collectable, Mysql!AutoTx, AutoTx
<1>6. CASE \E q \in Mysql!Opened(Cur) :
          \/ Mysql!cur_fetch(q) \/ Mysql!cur_next_result(q) \/ Mysql!cur_has_next_result(q)
          \/ Mysql!pushtable(q) \/ Mysql!cur_numrows(q) \/ Mysql!cur_seek(q) \/ Mysql!cur_close(q)
  BY <1>6 DEF Mysql!cur_fetch, Mysql!cur_next_result, Mysql!cur_has_next_result, Mysql!pushtable, Mysql!cur_numrows,
     Mysql!cur_seek, Mysql!cur_close, Mysql!cur_nullify, Mysql!create_colinfo, Mysql!Touch, Mysql!TouchResult
<1>7. CASE \E q \in Mysql!Collectable(Cur) : Mysql!cur_gc(q)
  BY <1>7 DEF Mysql!cur_gc
<1> QED BY <1>1, <1>2, <1>3, <1>4, <1>5, <1>6, <1>7 DEF Mysql!Next, Mysql!Opened, Mysql!Here

\* The same of PostgreSQL.
PostgresMoves(c) ==
  \/ TxMove(c, AutoTx)
  \/ TxMove(c, Done(tx[c]))
  \/ TxMove(c, [tx[c] EXCEPT !.work = IF tx[c].in THEN "aborted" ELSE @])
  \/ TxMove(c, IF tx[c].auto THEN Ended(tx[c]) ELSE Postgres!sql_begin(Ended(tx[c])))
  \/ TxMove(c, Ended([tx[c] EXCEPT !.auto = TRUE, !.asked = TRUE]))
  \/ TxMove(c, Postgres!sql_begin([tx[c] EXCEPT !.auto = FALSE, !.asked = FALSE]))
  \/ TxMove(c, Postgres!Dropped(tx[c]))

LEMMA PostgresTx ==
  ASSUME Postgres!Next
  PROVE  /\ TxKept \/ \E c \in Conn : PostgresMoves(c)
         /\ HeardOnly("postgres")
<1> USE DEF TxMove, TxKept, PostgresMoves, Postgres!Nothing, HeardOnly, Postgres!Note, Postgres!Fine, Postgres!When
<1> USE HeardIs
<1>1. CASE Postgres!create_environment
  BY <1>1 DEF Postgres!create_environment
<1>2. CASE \E e \in Postgres!Opened(Env) : Postgres!env_connect(e) \/ Postgres!env_close(e)
  BY <1>2 DEF Postgres!env_connect, Postgres!create_connection, Postgres!env_close, Postgres!Fresh, Postgres!AutoTx, AutoTx
<1>3. CASE \E e \in Postgres!Collectable(Env) : Postgres!env_gc(e)
  BY <1>3 DEF Postgres!env_gc
<1>4. ASSUME NEW c \in Postgres!Opened(Conn),
             \/ Postgres!conn_close(c) \/ Postgres!conn_escape(c) \/ Postgres!conn_execute(c) \/ Postgres!conn_commit(c) \/ Postgres!conn_rollback(c)
      PROVE (TxKept \/ PostgresMoves(c)) /\ HeardOnly("postgres")
  BY <1>4 DEF Postgres!conn_close, Postgres!conn_escape, Postgres!conn_execute, Postgres!conn_commit, Postgres!conn_rollback,
     Postgres!create_cursor, Postgres!AutoTx, AutoTx, Postgres!Done, Done, Postgres!Touch,
     Postgres!sql_commit, Postgres!sql_rollback, Postgres!Ended, Ended
<1>9. ASSUME NEW c \in Postgres!Opened(Conn), Postgres!lose(c)
      PROVE PostgresMoves(c) /\ HeardOnly("postgres")
  <2>1. TxMove(c, Postgres!Dropped(tx[c])) /\ slips' = {}
    BY ONLY <1>9 DEF Postgres!lose, TxMove, Postgres!Fine, Postgres!Note
  <2> QED BY <2>1
<1>8. ASSUME NEW c \in Postgres!Opened(Conn), NEW on \in BOOLEAN, Postgres!conn_setautocommit(c, on)
      PROVE PostgresMoves(c) /\ HeardOnly("postgres")
  BY <1>8 DEF Postgres!conn_setautocommit,
     Postgres!sql_rollback, Postgres!Ended, Ended
<1>5. CASE \E c \in Postgres!Collectable(Conn) : Postgres!conn_gc(c)
  BY <1>5 DEF Postgres!conn_gc, Postgres!Collectable, Postgres!AutoTx, AutoTx
<1>6. CASE \E q \in Postgres!Opened(Cur) : Postgres!cur_fetch(q) \/ Postgres!cur_getcoltypes(q) \/ Postgres!cur_close(q)
  BY <1>6 DEF Postgres!cur_fetch, Postgres!cur_getcoltypes, Postgres!cur_close, Postgres!cur_nullify,
     Postgres!create_coltypes, Postgres!getcolumntype, Postgres!Touch
<1>7. CASE \E q \in Postgres!Collectable(Cur) : Postgres!cur_gc(q)
  BY <1>7 DEF Postgres!cur_gc
<1> DEFINE Goal == (TxKept \/ \E c \in Conn : PostgresMoves(c)) /\ HeardOnly("postgres")
<1>10. ASSUME NEW c \in Postgres!Opened(Conn) PROVE c \in Conn
  BY DEF Postgres!Opened, Postgres!Here
<1>11. ASSUME NEW c \in Postgres!Opened(Conn),
              \/ Postgres!lose(c) \/ Postgres!conn_close(c) \/ Postgres!conn_escape(c) \/ Postgres!conn_execute(c)
              \/ Postgres!conn_commit(c) \/ Postgres!conn_rollback(c)
              \/ \E on \in BOOLEAN : Postgres!conn_setautocommit(c, on)
       PROVE  Goal
  <2> HIDE DEF TxKept, PostgresMoves, HeardOnly
  <2>1. (TxKept \/ PostgresMoves(c)) /\ HeardOnly("postgres")
    BY ONLY <1>4, <1>8, <1>9, <1>11
  <2> QED BY <1>10, <2>1
<1> HIDE DEF TxKept, PostgresMoves, HeardOnly
<1>12. \/ Postgres!create_environment
       \/ \E e \in Postgres!Opened(Env) : Postgres!env_connect(e) \/ Postgres!env_close(e)
       \/ \E q \in Postgres!Opened(Cur) : Postgres!cur_fetch(q) \/ Postgres!cur_getcoltypes(q) \/ Postgres!cur_close(q)
       \/ \E e \in Postgres!Collectable(Env) : Postgres!env_gc(e)
       \/ \E c \in Postgres!Collectable(Conn) : Postgres!conn_gc(c)
       \/ \E q \in Postgres!Collectable(Cur) : Postgres!cur_gc(q)
       \/ \E c \in Postgres!Opened(Conn) :
              \/ Postgres!lose(c) \/ Postgres!conn_close(c) \/ Postgres!conn_escape(c) \/ Postgres!conn_execute(c)
              \/ Postgres!conn_commit(c) \/ Postgres!conn_rollback(c)
              \/ \E on \in BOOLEAN : Postgres!conn_setautocommit(c, on)
  BY ONLY Zenon, Postgres!Next DEF Postgres!Next
<1> QED BY ONLY Zenon, <1>1, <1>2, <1>3, <1>5, <1>6, <1>7, <1>11, <1>12

\* The same of both SQLites, where it rests on two facts: nothing was stored in
\* a transaction that was rolled back, and no object is stuck.
Lite3Moves(c) ==
  \/ TxMove(c, tx[c])
  \/ TxMove(c, AutoTx)
  \/ TxMove(c, Done(tx[c]))
  \/ TxMove(c, [Ended(tx[c]) EXCEPT !.lost = "automatic rollback", !.work = "aborted"])
  \/ tx[c].in /\ TxMove(c, IF tx[c].auto THEN Ended(tx[c]) ELSE Begun(Ended(tx[c])))
  \/ TxMove(c, Ended([tx[c] EXCEPT !.auto = TRUE, !.asked = TRUE, !.lost = "nothing"]))
  \/ tx[c].in /\ TxMove(c, [tx[c] EXCEPT !.auto = FALSE, !.lost = "nothing"])
  \/ TxMove(c, [AutoTx EXCEPT !.auto = FALSE, !.asked = FALSE, !.in = TRUE])
AbortedNotIn == \A c \in Conn : tx[c].in => tx[c].work # "aborted"

Unstuck == driver \in {"sqlite", "sqlite3"} => \A x \in Obj : ~obj[x].stuck

LEMMA UnstuckStays == SqlIInv /\ Unstuck /\ [SqlNext]_sqlVars => Unstuck'
<1> SUFFICES ASSUME SqlIInv, Unstuck, [SqlNext]_sqlVars PROVE Unstuck'
  OBVIOUS
<1>1. CASE UNCHANGED <<driver, obj>>
  BY <1>1 DEF Unstuck
<1>2. CASE Driver
  <2>1. UNCHANGED driver
    BY Zenon, <1>2 DEF Driver, Mysql!Next, Postgres!Next, Lite3!Next, Lite!Next, Odbc!Next, Oci8!Next, Firebird!Next
  <2>2. driver \in {"sqlite", "sqlite3"} => Steady(obj')
    BY <1>2, Lite3World, LiteWorld DEF Driver
  <2> QED BY <2>1, <2>2 DEF Unstuck, Steady
<1>3. Runtime => UNCHANGED <<driver, obj>>
  BY DEF Runtime, Forget, CloseState
<1> QED BY <1>1, <1>2, <1>3 DEF SqlNext, sqlVars

LEMMA NotLocked ==
  ASSUME SqlIInv, Unstuck, driver \in {"sqlite", "sqlite3"}, NEW c \in Collectable(Conn)
  PROVE  ~(obj[c].lock > 0)
<1>1. c \in Conn /\ c \in Obj /\ obj[c].st # "none" /\ OpenChildren(c) = {}
  BY CollectableIs DEF Obj
<1>2. RealOf(driver, obj, c) = {}
  BY <1>1 DEF RealOf, OpenChildren, Children, Real
<1>3. Sound(driver, obj) /\ Tracks(driver, c)
  BY <1>1 DEF SqlIInv, World, Tracks, Counting, SqliteDrivers
<1>4. Counted(driver, obj, c) /\ ~obj[c].stuck
  BY <1>1, <1>3 DEF Sound, Counters, Unstuck
<1>5. obj[c].lock = 0
  BY <1>2, <1>4, FS_EmptySet DEF Counted
<1> QED BY <1>5

LEMMA Lite3Tx ==
  ASSUME SqlIInv, Unstuck, driver = "sqlite3", Lite3!Next, AbortedNotIn
  PROVE  /\ TxKept \/ \E c \in Conn : Lite3Moves(c)
         /\ HeardOnly("sqlite3")
<1> DEFINE Goal == (TxKept \/ \E c \in Conn : Lite3Moves(c)) /\ HeardOnly("sqlite3")
<1> USE HeardIs
<1>1. ASSUME Lite3!create_environment PROVE Goal
  BY <1>1 DEF Lite3!create_environment, TxKept, HeardOnly, Lite3!Fine, Lite3!Note
<1>2. ASSUME NEW e \in Lite3!Opened(Env), Lite3!env_connect(e) \/ Lite3!env_close(e) PROVE Goal
  BY <1>2 DEF Lite3!env_connect, Lite3!create_connection, Lite3!env_close, Lite3!Fresh, Lite3!AutoTx, AutoTx,
     TxKept, HeardOnly, Lite3!Fine, Lite3!Note, Lite3Moves, TxMove
<1>3. ASSUME NEW e \in Lite3!Collectable(Env), Lite3!env_gc(e) PROVE Goal
  BY <1>3 DEF Lite3!env_gc, TxKept, HeardOnly, Lite3!Fine, Lite3!Note
<1>4. ASSUME NEW c \in Lite3!Opened(Conn),
             \/ Lite3!conn_close(c) \/ Lite3!conn_execute(c) \/ Lite3!conn_commit(c) \/ Lite3!conn_rollback(c)
             \/ \E on \in BOOLEAN : Lite3!conn_setautocommit(c, on)
      PROVE  Goal
  <2> c \in Conn
    BY DEF Lite3!Opened, Lite3!Here
  <2> USE DEF TxKept, HeardOnly, Lite3!Fine, Lite3!Note, Lite3!When, Lite3Moves, TxMove, Lite3!Nothing
  <2>1. CASE Lite3!conn_close(c)
    BY <2>1 DEF Lite3!conn_close, Lite3!AutoTx, AutoTx
  <2>2. CASE Lite3!Refused(c)
    BY <2>2 DEF Lite3!Refused
  <2>3. CASE Lite3!Rollback(c)
    BY <2>3 DEF Lite3!Rollback, Lite3!Ended, Ended
  <2>4. ASSUME Lite3!Step(c), NEW given, Lite3!Note(Lite3!When(given = "left out", "parameter left out")) PROVE Goal
    BY <2>4 DEF Lite3!Step, Lite3!create_cursor, Lite3!Done, Done
  <2>5. CASE Lite3!EndWork(c, ~tx[c].auto) /\ (Lite3!Fine \/ Lite3!Note(Lite3!When(Lite3!Succeeds(c) /\ tx[c].work = "aborted", "commit of what was rolled back")))
    BY <2>5 DEF Lite3!EndWork, Lite3!Succeeds, AbortedNotIn, Lite3!Ended, Lite3!Begun, Ended, Begun
  <2>6. ASSUME NEW on \in BOOLEAN, Lite3!conn_setautocommit(c, on) PROVE Goal
    BY <2>6 DEF Lite3!conn_setautocommit, Lite3!Ended, Ended, Lite3!AutoTx, AutoTx
  <2> QED
    BY <1>4, <2>1, <2>2, <2>3, <2>4, <2>5, <2>6 DEF Lite3!conn_execute, Lite3!conn_commit, Lite3!conn_rollback
<1>5. ASSUME NEW c \in Lite3!Collectable(Conn), Lite3!conn_gc(c) PROVE Goal
  <2>1. ~(obj[c].lock > 0) /\ c \in Conn
    BY Lite3Names, NotLocked DEF Lite3!Collectable
  <2> QED BY <1>5, <2>1 DEF Lite3!conn_gc, Lite3!AutoTx, AutoTx, TxKept, HeardOnly, Lite3!Note, Lite3!When, Lite3Moves, TxMove
<1>6. ASSUME NEW q \in Lite3!Opened(Cur), Lite3!cur_fetch(q) \/ Lite3!cur_close(q) PROVE Goal
  BY <1>6 DEF Lite3!cur_fetch, Lite3!cur_close, Lite3!finalize, TxKept, HeardOnly, Lite3!Fine, Lite3!Note, Lite3!Nothing
<1>7. ASSUME NEW q \in Lite3!Collectable(Cur), Lite3!cur_gc(q) PROVE Goal
  BY <1>7 DEF Lite3!cur_gc, TxKept, HeardOnly, Lite3!Fine, Lite3!Note
<1> HIDE DEF Goal
<1>8. Goal
  BY <1>1, <1>2, <1>3, <1>4, <1>5, <1>6, <1>7 DEF Lite3!Next
<1> QED BY <1>8 DEF Goal

LEMMA LiteTx ==
  ASSUME SqlIInv, Unstuck, driver = "sqlite", Lite!Next, AbortedNotIn
  PROVE  /\ TxKept \/ \E c \in Conn : Lite3Moves(c)
         /\ HeardOnly("sqlite")
<1> DEFINE Goal == (TxKept \/ \E c \in Conn : Lite3Moves(c)) /\ HeardOnly("sqlite")
<1> USE HeardIs
<1>1. ASSUME Lite!create_environment PROVE Goal
  BY <1>1 DEF Lite!create_environment, Lite!L3!create_environment, TxKept, HeardOnly, Lite!L3!Fine, Lite!L3!Note, Lite!Fine, Lite!Note
<1>2. ASSUME NEW e \in Lite!Opened(Env), Lite!env_connect(e) \/ Lite!env_close(e) PROVE Goal
  BY <1>2 DEF Lite!env_connect, Lite!create_connection, Lite!L3!create_connection, Lite!env_close, Lite!L3!env_close, Lite!L3!Fresh, Lite!L3!AutoTx, AutoTx,
     TxKept, HeardOnly, Lite!L3!Fine, Lite!L3!Note, Lite!Fine, Lite!Note, Lite3Moves, TxMove
<1>3. ASSUME NEW e \in Lite!Collectable(Env), Lite!env_gc(e) PROVE Goal
  BY <1>3 DEF Lite!env_gc, Lite!L3!env_gc, TxKept, HeardOnly, Lite!L3!Fine, Lite!L3!Note, Lite!Fine, Lite!Note
<1>4. ASSUME NEW c \in Lite!Opened(Conn),
             \/ Lite!conn_close(c) \/ Lite!conn_execute(c) \/ Lite!conn_commit(c) \/ Lite!conn_rollback(c)
             \/ \E on \in BOOLEAN : Lite!conn_setautocommit(c, on)
      PROVE  Goal
  <2> c \in Conn
    BY DEF Lite!Opened, Lite!Here
  <2> USE DEF TxKept, HeardOnly, Lite!L3!Fine, Lite!L3!Note, Lite!Fine, Lite!Note, Lite!L3!When, Lite3Moves, TxMove, Lite!L3!Nothing
  <2>1. CASE Lite!conn_close(c)
    BY <2>1 DEF Lite!conn_close, Lite!L3!conn_close, Lite!L3!AutoTx, AutoTx
  <2>3. CASE Lite!L3!Rollback(c)
    BY <2>3 DEF Lite!L3!Rollback, Lite!L3!Ended, Ended
  <2>4. CASE Lite!Fine /\ (Lite!create_cursor(c) \/ (tx' = [tx EXCEPT ![c] = Lite!Done(@)] /\ UNCHANGED <<obj, anchor, held>>))
    BY <2>4 DEF Lite!create_cursor, Lite!L3!create_cursor, Lite!Done, Done
  <2>5. CASE Lite!L3!EndWork(c, ~tx[c].auto) /\ (Lite!L3!Fine \/ Lite!L3!Note(Lite!L3!When(Lite!L3!Succeeds(c) /\ tx[c].work = "aborted", "commit of what was rolled back")))
    BY <2>5 DEF Lite!L3!EndWork, Lite!L3!Succeeds, AbortedNotIn, Lite!L3!Ended, Lite!L3!Begun, Ended, Begun
  <2>6. ASSUME NEW on \in BOOLEAN, Lite!conn_setautocommit(c, on) PROVE Goal
    BY <2>6 DEF Lite!conn_setautocommit, Lite!L3!conn_setautocommit, Lite!L3!Ended, Ended, Lite!L3!AutoTx, AutoTx
  <2> QED
    BY <1>4, <2>1, <2>3, <2>4, <2>5, <2>6 DEF Lite!conn_execute, Lite!conn_commit, Lite!L3!conn_commit, Lite!conn_rollback, Lite!L3!conn_rollback
<1>5. ASSUME NEW c \in Lite!Collectable(Conn), Lite!conn_gc(c) PROVE Goal
  <2>1. ~(obj[c].lock > 0) /\ c \in Conn
    BY LiteNames, NotLocked DEF Lite!Collectable
  <2> QED BY <1>5, <2>1 DEF Lite!conn_gc, Lite!L3!conn_gc, Lite!L3!AutoTx, AutoTx, TxKept, HeardOnly, Lite!L3!Note, Lite!L3!When, Lite3Moves, TxMove
<1>6. ASSUME NEW q \in Lite!Opened(Cur), Lite!cur_fetch(q) \/ Lite!cur_close(q) PROVE Goal
  BY <1>6 DEF Lite!cur_fetch, Lite!cur_close, Lite!finalize, Lite!L3!finalize, TxKept, HeardOnly, Lite!L3!Fine, Lite!L3!Note, Lite!Fine, Lite!Note, Lite!Nothing
<1>7. ASSUME NEW q \in Lite!Collectable(Cur), Lite!cur_gc(q) PROVE Goal
  BY <1>7 DEF Lite!cur_gc, Lite!L3!cur_gc, TxKept, HeardOnly, Lite!L3!Fine, Lite!L3!Note, Lite!Fine, Lite!Note
<1> HIDE DEF Goal
<1>8. Goal
  BY <1>1, <1>2, <1>3, <1>4, <1>5, <1>6, <1>7 DEF Lite!Next
<1> QED BY <1>8 DEF Goal

\* The same of ODBC and of Oracle.
OdbcMoves(c) ==
  \/ TxMove(c, AutoTx)
  \/ TxMove(c, Done(tx[c]))
  \/ TxMove(c, [tx[c] EXCEPT !.work = "none"])
  \/ \E on \in BOOLEAN :
       TxMove(c, [tx[c] EXCEPT !.auto = on, !.asked = on, !.in = ~on, !.work = IF on THEN "none" ELSE tx[c].work])

LEMMA OdbcTx ==
  ASSUME SqlIInv, driver = "odbc", Odbc!Next
  PROVE  /\ TxKept \/ \E c \in Conn : OdbcMoves(c)
         /\ HeardOnly("odbc")
<1> DEFINE Goal == (TxKept \/ \E c \in Conn : OdbcMoves(c)) /\ HeardOnly("odbc")
<1> USE HeardIs DEF TxKept, HeardOnly, Odbc!Fine, Odbc!Note, Odbc!When, OdbcMoves, TxMove, Odbc!Nothing
<1>1. ASSUME Odbc!create_environment PROVE Goal
  BY <1>1 DEF Odbc!create_environment
<1>2. ASSUME NEW e \in Odbc!Opened(Env), Odbc!env_connect(e) \/ Odbc!env_close(e) PROVE Goal
  BY <1>2 DEF Odbc!env_connect, Odbc!create_connection, Odbc!env_close, Odbc!Fresh, Odbc!AutoTx, AutoTx
<1>3. ASSUME NEW e \in Odbc!Collectable(Env), Odbc!env_gc(e) PROVE Goal
  BY <1>3 DEF Odbc!env_gc, Odbc!Refuses
<1>4. ASSUME NEW c \in Odbc!Opened(Conn),
             \/ Odbc!conn_close(c) \/ Odbc!conn_prepare(c) \/ Odbc!conn_execute(c)
             \/ Odbc!conn_commit(c) \/ Odbc!conn_rollback(c)
             \/ \E on \in BOOLEAN : Odbc!conn_setautocommit(c, on)
      PROVE  Goal
  <2> c \in Conn
    BY DEF Odbc!Opened, Odbc!Here
  <2>1. CASE Odbc!conn_close(c) \/ Odbc!conn_prepare(c)
    BY <2>1 DEF Odbc!conn_close, Odbc!conn_prepare, Odbc!AutoTx, AutoTx
  <2>2. CASE Odbc!conn_execute(c)
    BY <2>2 DEF Odbc!conn_execute, Odbc!Done, Done
  <2>3. CASE Odbc!conn_commit(c) \/ Odbc!conn_rollback(c)
    BY <2>3 DEF Odbc!conn_commit, Odbc!conn_rollback, Odbc!EndTran
  <2>4. ASSUME NEW on \in BOOLEAN, Odbc!conn_setautocommit(c, on) PROVE Goal
    <3>1. TxMove(c, [tx[c] EXCEPT !.auto = on, !.asked = on, !.in = ~on, !.work = IF on THEN "none" ELSE tx[c].work])
      BY Zenon, <2>4 DEF Odbc!conn_setautocommit, TxMove
    <3>2. HeardOnly("odbc")
      BY <2>4 DEF Odbc!conn_setautocommit
    <3> QED BY Zenon, <3>1, <3>2 DEF OdbcMoves
  <2> QED BY <1>4, <2>1, <2>2, <2>3, <2>4
<1>5. ASSUME NEW c \in Odbc!Collectable(Conn), Odbc!conn_gc(c) PROVE Goal
  BY <1>5 DEF Odbc!conn_gc, Odbc!Refuses, Odbc!Collectable, Odbc!AutoTx, AutoTx
<1>6. ASSUME NEW s \in Odbc!Opened(Stmt), Odbc!stmt_close(s) \/ \E given \in BOOLEAN : Odbc!stmt_execute(s, given) PROVE Goal
  <2>1. obj[s].up \in Conn
    <3>1. s \in Stmt /\ s \in Obj /\ obj[s].st # "none"
      BY OdbcNames, OpenedIs DEF Odbc!Opened, Odbc!Here, Obj
    <3> QED BY <3>1, Places DEF SqlIInv, World, Sound, Shape, Above
  <2> QED BY <1>6, <2>1 DEF Odbc!stmt_close, Odbc!stmt_execute, Odbc!raw_execute, Odbc!Done, Done
<1>7. ASSUME NEW s \in Odbc!Collectable(Stmt), Odbc!stmt_gc(s) PROVE Goal
  BY <1>7 DEF Odbc!stmt_gc, Odbc!Refuses
<1>8. ASSUME NEW q \in Odbc!Opened(Cur), Odbc!cur_fetch(q) \/ Odbc!cur_close(q) PROVE Goal
  BY <1>8 DEF Odbc!cur_fetch, Odbc!cur_close, Odbc!StrayUse
<1>9. ASSUME NEW q \in Odbc!Collectable(Cur), Odbc!cur_gc(q) PROVE Goal
  BY <1>9 DEF Odbc!cur_gc, Odbc!StrayUse
<1> HIDE DEF Goal
<1>10. Goal
  BY <1>1, <1>2, <1>3, <1>4, <1>5, <1>6, <1>7, <1>8, <1>9 DEF Odbc!Next
<1> QED BY <1>10 DEF Goal

Oci8Moves(c) ==
  \/ TxMove(c, AutoTx)
  \/ TxMove(c, Done(tx[c]))
  \/ TxMove(c, [tx[c] EXCEPT !.work = "none"])
  \/ \E on, ok \in BOOLEAN :
       TxMove(c, [auto |-> on, in |-> ~on, asked |-> IF ok THEN on ELSE tx[c].asked,
                  lost |-> IF ok THEN "nothing" ELSE "failed call",
                  work |-> IF on /\ ok THEN "none" ELSE tx[c].work])

LEMMA Oci8Tx ==
  ASSUME SqlIInv, driver = "oci8", Oci8!Next
  PROVE  /\ TxKept \/ \E c \in Conn : Oci8Moves(c)
         /\ HeardOnly("oci8")
<1> DEFINE Goal == (TxKept \/ \E c \in Conn : Oci8Moves(c)) /\ HeardOnly("oci8")
<1> USE HeardIs DEF TxKept, HeardOnly, Oci8!Fine, Oci8!Note, Oci8!When, Oci8Moves, TxMove, Oci8!Nothing
<1>1. ASSUME Oci8!create_environment PROVE Goal
  BY <1>1 DEF Oci8!create_environment
<1>2. ASSUME NEW e \in Oci8!Opened(Env), Oci8!env_connect(e) \/ Oci8!env_close(e) PROVE Goal
  BY <1>2 DEF Oci8!env_connect, Oci8!env_close, Oci8!Fresh, Oci8!AutoTx, AutoTx, Oci8!May
<1>3. ASSUME NEW e \in Oci8!Collectable(Env), Oci8!env_gc(e) PROVE Goal
  BY <1>3 DEF Oci8!env_gc
<1>4. ASSUME NEW c \in Oci8!Opened(Conn),
             \/ Oci8!conn_close(c) \/ Oci8!conn_execute(c) \/ Oci8!conn_commit(c) \/ Oci8!conn_rollback(c)
             \/ \E on \in BOOLEAN : Oci8!conn_setautocommit(c, on)
      PROVE  Goal
  <2> c \in Conn
    BY DEF Oci8!Opened, Oci8!Here
  <2>1. CASE Oci8!conn_close(c)
    BY <2>1 DEF Oci8!conn_close, Oci8!AutoTx, AutoTx
  <2>2. CASE Oci8!conn_execute(c)
    BY <2>2 DEF Oci8!conn_execute, Oci8!create_cursor, Oci8!Done, Done, Oci8!May
  <2>3. CASE Oci8!conn_commit(c) \/ Oci8!conn_rollback(c)
    BY <2>3 DEF Oci8!conn_commit, Oci8!conn_rollback, Oci8!EndTran
  <2>4. ASSUME NEW on \in BOOLEAN, Oci8!conn_setautocommit(c, on) PROVE Goal
    BY <2>4 DEF Oci8!conn_setautocommit
  <2> QED BY <1>4, <2>1, <2>2, <2>3, <2>4
<1>5. ASSUME NEW c \in Oci8!Collectable(Conn), Oci8!conn_gc(c) PROVE Goal
  BY <1>5 DEF Oci8!conn_gc, Oci8!Raises, Oci8!Collectable, Oci8!AutoTx, AutoTx
<1>6. ASSUME NEW q \in Oci8!Opened(Cur), Oci8!cur_fetch(q) \/ Oci8!cur_close(q) PROVE Goal
  <2>1. obj[obj[q].up].native = "open"
    <3>1. q \in Cur /\ q \in Obj /\ obj[q].st = "open" /\ Sound(driver, obj)
      BY Oci8Names, OpenedIs DEF Obj, SqlIInv, World, Oci8!Opened, Oci8!Here
    <3>2. obj[q].up \in Conn /\ obj[q].native # "null"
      BY <3>1, Places DEF Sound, Shape, Above, Handles
    <3>3. obj[q].up \in Obj /\ obj[q].up \notin Cur /\ Tracks(driver, obj[q].up) /\ q \notin Env
      BY <3>1, <3>2, Places DEF Obj, Tracks, Counting, CountingEnv
    <3>4. obj[obj[q].up].st = "open"
      BY <3>1, <3>2, <3>3 DEF Sound, Tree, Real, Astray
    <3> QED BY <3>1, <3>3, <3>4 DEF Sound, Handles
  <2> QED BY <1>6, <2>1 DEF Oci8!cur_fetch, Oci8!cur_close
<1>7. ASSUME NEW q \in Oci8!Collectable(Cur), Oci8!cur_gc(q) PROVE Goal
  BY <1>7 DEF Oci8!cur_gc
<1> HIDE DEF Goal
<1>8. Goal
  BY <1>1, <1>2, <1>3, <1>4, <1>5, <1>6, <1>7 DEF Oci8!Next
<1> QED BY <1>8 DEF Goal

-----------------------------------------------------------------------------
(* Firebird's manual mode rests on which connections are open.             *)

\* The open connections of a table.
OpenIn(g) == {c \in Conn : g[c].st = "open"}

LEMMA OpenLock ==
  ASSUME NEW f \in Tables, NEW p \in Obj, NEW v \in Int
  PROVE  [f EXCEPT ![p].lock = v] \in Tables /\ OpenIn([f EXCEPT ![p].lock = v]) = OpenIn(f)
<1> DEFINE g == [f EXCEPT ![p].lock = v]
<1>1. Conn \subseteq Obj
  BY DEF Obj
<1>2. g \in Tables /\ \A x \in Obj : g[x].st = f[x].st
  BY DEF Tables, Userdata
<1> HIDE DEF g
<1>3. g \in Tables /\ OpenIn(g) = OpenIn(f)
  BY <1>1, <1>2 DEF OpenIn
<1> QED BY <1>3 DEF g

LEMMA OpenPut ==
  ASSUME NEW f \in Tables, NEW x \in Obj, NEW r \in Userdata
  PROVE  /\ [f EXCEPT ![x] = r] \in Tables
         /\ x \notin Conn => OpenIn([f EXCEPT ![x] = r]) = OpenIn(f)
         /\ r.st # "open" => OpenIn([f EXCEPT ![x] = r]) = OpenIn(f) \ {x}
         /\ OpenIn([f EXCEPT ![x] = r]) \subseteq OpenIn(f) \cup {x}
<1>1. Conn \subseteq Obj
  BY DEF Obj
<1> QED BY <1>1 DEF OpenIn, Tables

LEMMA OpenShut ==
  ASSUME NEW f \in Tables, NEW x \in Obj
  PROVE  Shut(f, x) \in Tables /\ OpenIn(Shut(f, x)) = OpenIn(f) \ {x}
<1>1. Conn \subseteq Obj
  BY DEF Obj
<1> QED BY <1>1, ShutIs DEF OpenIn

LEMMA OpenVacant ==
  ASSUME NEW f \in Tables, NEW x \in Obj
  PROVE  OpenIn([f EXCEPT ![x] = Vacant]) = OpenIn(f) \ {x}
<1>1. Vacant \in Userdata /\ Vacant.st # "open"
  BY VacantIs DEF Blank
<1> QED BY <1>1, OpenPut

Detached(f, x) == [Shut(f, x) EXCEPT ![f[x].up].lock = @ - 1]

LEMMA OpenUnlocked ==
  ASSUME NEW f \in Tables, NEW x \in Obj, f[x].up \in Obj
  PROVE  Detached(f, x) \in Tables /\ OpenIn(Detached(f, x)) = OpenIn(f) \ {x}
<1> DEFINE s == Shut(f, x)
           p == f[x].up
           v == s[p].lock - 1
           k == [s EXCEPT ![p].lock = v]
<1>1. s \in Tables /\ OpenIn(s) = OpenIn(f) \ {x} /\ p \in Obj
  BY OpenShut
<1>2. Detached(f, x) = k
  BY Zenon DEF Detached
<1> HIDE DEF s, p
<1>3. v \in Int
  BY <1>1 DEF Tables, Userdata
<1> HIDE DEF v
<1>4. k \in Tables /\ OpenIn(k) = OpenIn(s)
  BY <1>1, <1>3, OpenLock
<1> HIDE DEF k
<1> QED BY <1>1, <1>2, <1>4

\* A step that leaves the open connections with a transaction or a failed
\* close.
FirebirdKeeps(c, t) ==
  /\ c \in Conn /\ TxMove(c, t) /\ t \in TxType
  /\ OpenIn(obj') \subseteq OpenIn(obj) \cup {c}
  /\ c \in OpenIn(obj') => t.in \/ t.lost = "failed close"
Manual(f) == \A c \in OpenIn(f) : tx[c].in \/ tx[c].lost = "failed close"

LEMMA ManualStays ==
  ASSUME tx \in [Conn -> TxType], Manual(obj)
  PROVE  /\ TxKept /\ OpenIn(obj') \subseteq OpenIn(obj) => tx' \in [Conn -> TxType] /\ Manual(obj)'
         /\ \A c, t : FirebirdKeeps(c, t) => tx' \in [Conn -> TxType] /\ Manual(obj)'
<1>1. OpenIn(obj)' = OpenIn(obj') /\ OpenIn(obj') \subseteq Conn
  BY DEF OpenIn
<1>2. ASSUME TxKept, OpenIn(obj') \subseteq OpenIn(obj) PROVE tx' \in [Conn -> TxType] /\ Manual(obj)'
  BY <1>1, <1>2 DEF TxKept, Manual
<1>3. ASSUME NEW c, NEW t, FirebirdKeeps(c, t) PROVE tx' \in [Conn -> TxType] /\ Manual(obj)'
  <2>1. tx' = [tx EXCEPT ![c] = t] /\ c \in Conn /\ t \in TxType
    BY <1>3 DEF FirebirdKeeps, TxMove
  <2>2. tx'[c] = t /\ \A d \in Conn \ {c} : tx'[d] = tx[d]
    BY <2>1
  <2> HIDE DEF TxType
  <2> QED BY <1>1, <1>3, <2>1, <2>2 DEF FirebirdKeeps, Manual
<1> QED BY <1>2, <1>3

\* The methods of Firebird.
LEMMA FirebirdTx ==
  ASSUME SqlIInv, driver = "firebird", Firebird!Next, tx \in [Conn -> TxType], Manual(obj)
  PROVE  /\ tx' \in [Conn -> TxType] /\ Manual(obj)'
         /\ HeardOnly("firebird")
<1> DEFINE Goal == tx' \in [Conn -> TxType] /\ Manual(obj)' /\ HeardOnly("firebird")
           Same == TxKept /\ OpenIn(obj') \subseteq OpenIn(obj)
<1>0. /\ obj \in Tables /\ Env \subseteq Obj /\ Conn \subseteq Obj /\ Cur \subseteq Obj
      /\ OpenIn(obj) \subseteq Conn /\ AutoTx \in TxType /\ Vacant \in Userdata /\ Vacant.st # "open"
  BY VacantIs DEF SqlIInv, World, Sound, Shape, Obj, OpenIn, AutoTx, TxType, Blank
<1>u. \A x \in Obj : obj[x].st # "none" => obj[x].up \in Above(driver, x)
  BY DEF SqlIInv, World, Sound, Shape
<1>q. Firebird!Fine => HeardOnly("firebird")
  BY DEF HeardOnly, Firebird!Fine, Firebird!Note
<1>s. Same /\ HeardOnly("firebird") => Goal
  BY ManualStays
<1>k. ASSUME NEW c, NEW t, FirebirdKeeps(c, t), HeardOnly("firebird") PROVE Goal
  BY <1>k, ManualStays
<1>v. ASSUME NEW f \in Tables, NEW x \in Obj, obj' = [f EXCEPT ![x] = Vacant]
      PROVE  OpenIn(obj') = OpenIn(f) \ {x}
  BY <1>v, OpenVacant
<1>1. ASSUME Firebird!create_environment PROVE Goal
  <2>1. PICK e \in Unused(Env) : obj' = [obj EXCEPT ![e] = New(None)]
    BY Zenon, <1>1, FirebirdNames DEF Firebird!create_environment
  <2>2. e \in Obj /\ e \notin Conn /\ New(None) \in Userdata
    BY <1>0, <2>1, FreshIs, NewIs, Places DEF Obj
  <2>3. Same
    BY <1>0, <1>1, <2>1, <2>2, OpenPut DEF Firebird!create_environment, TxKept
  <2> QED BY <1>1, <1>q, <1>s, <2>3 DEF Firebird!create_environment
<1>m. ASSUME NEW what \in {"statement handle lost", "database left attached"}, Firebird!May(what) \/ Firebird!Note({what})
      PROVE  HeardOnly("firebird")
  BY <1>m, HeardIs DEF HeardOnly, Firebird!May, Firebird!Fine, Firebird!Note
<1>2. ASSUME NEW e \in Opened(Env), Firebird!env_connect(e) PROVE Goal
  <2>1. HeardOnly("firebird") /\ e \in Env
    BY <1>0, <1>2, <1>m, <1>q, OpenedIs DEF Firebird!env_connect
  <2>2. CASE Firebird!Nothing
    BY <1>s, <2>1, <2>2 DEF Firebird!Nothing, TxKept
  <2>3. CASE ~Firebird!Nothing
    <3>1. PICK c \in Unused(Conn) :
            obj' = [obj EXCEPT ![c] = New(e), ![e].lock = @ + 1] /\ tx' = [tx EXCEPT ![c] = Firebird!Tran]
      BY Zenon, <1>2, <2>3, FirebirdNames DEF Firebird!env_connect
    <3> DEFINE g == [obj EXCEPT ![c] = New(e)]
               v == g[e].lock + 1
               k == [g EXCEPT ![e].lock = v]
    <3>2. c \in Conn /\ c \in Obj /\ e \in Obj /\ e # c /\ New(e) \in Userdata
      BY <1>0, <2>1, FreshIs, NewIs, Places DEF Obj
    <3>3. g \in Tables /\ OpenIn(g) \subseteq OpenIn(obj) \cup {c} /\ g[e] = obj[e]
      <4>1. g[e] = obj[e]
        BY <1>0, <3>2 DEF Tables
      <4> HIDE DEF Tables
      <4> QED BY <1>0, <3>2, <4>1, OpenPut
    <3>4. obj' = k
      BY Zenon, <3>1, <3>3
    <3> HIDE DEF g
    <3>5. v \in Int
      BY <3>2, <3>3 DEF Tables, Userdata
    <3> HIDE DEF v
    <3>6. OpenIn(k) = OpenIn(g)
      BY <3>2, <3>3, <3>5, OpenLock
    <3>7. Firebird!Tran \in TxType /\ Firebird!Tran.in
      BY DEF Firebird!Tran, Firebird!AutoTx, TxType
    <3> HIDE DEF k
    <3>8. FirebirdKeeps(c, Firebird!Tran)
      BY <3>1, <3>2, <3>3, <3>4, <3>6, <3>7 DEF FirebirdKeeps, TxMove
    <3> QED BY <1>k, <2>1, <3>8
  <2> QED BY <2>2, <2>3
<1>3. ASSUME NEW e \in Opened(Env), Firebird!env_close(e) PROVE Goal
  <2>1. e \in Obj /\ e \in Env
    BY <1>0, OpenedIs
  <2>2. obj' = obj \/ obj' = Shut(obj, e)
    BY <1>3, FirebirdNames DEF Firebird!env_close
  <2>3. Same
    BY <1>0, <1>3, <2>1, <2>2, OpenShut DEF Firebird!env_close, TxKept
  <2> QED BY <1>3, <1>q, <1>s, <2>3 DEF Firebird!env_close
<1>4. ASSUME NEW x \in Obj, obj[x].st # "none", obj[x].up \in Obj
      PROVE  /\ OpenIn(Firebird!Detached(x)) = OpenIn(obj) \ {x} /\ OpenIn(Firebird!Unlock(obj, x)) = OpenIn(obj) \ {x}
             /\ Firebird!Detached(x) \in Tables /\ Firebird!Unlock(obj, x) \in Tables
  <2>1. Firebird!Detached(x) = Detached(obj, x)
    BY Zenon, FirebirdNames DEF Firebird!Detached, Detached
  <2>2. Firebird!Unlock(obj, x) = Firebird!Detached(x)
    BY Zenon DEF Firebird!Detached, Firebird!Unlock
  <2> QED BY <1>0, <1>4, <2>1, <2>2, OpenUnlocked
<1>5. ASSUME NEW c \in Opened(Conn), Firebird!conn_close(c) PROVE Goal
  <2>1. c \in Conn /\ c \in Obj /\ obj[c].st = "open" /\ obj[c].up \in Obj /\ c \in OpenIn(obj)
    BY <1>0, <1>u, OpenedIs, Places DEF Above, OpenIn
  <2>2. HeardOnly("firebird")
    BY <1>5, <1>q DEF Firebird!conn_close
  <2>3. CASE UNCHANGED <<obj, tx>>
    BY <1>s, <2>2, <2>3 DEF TxKept
  <2>4. CASE obj' = Firebird!Detached(c) /\ tx' = [tx EXCEPT ![c] = AutoTx]
    <3>1. FirebirdKeeps(c, AutoTx)
      BY <1>0, <1>4, <2>1, <2>4 DEF FirebirdKeeps, TxMove
    <3> QED BY <1>k, <2>2, <3>1
  <2>5. CASE tx' = [tx EXCEPT ![c] = [Firebird!Ended(tx[c]) EXCEPT !.lost = "failed close"]] /\ obj' = obj
    <3> DEFINE t == [Firebird!Ended(tx[c]) EXCEPT !.lost = "failed close"]
    <3>1. t \in TxType /\ t.lost = "failed close"
      BY <2>1 DEF Firebird!Ended, TxType
    <3> HIDE DEF t
    <3>2. FirebirdKeeps(c, t)
      BY <2>1, <2>5, <3>1 DEF FirebirdKeeps, TxMove, t
    <3> QED BY <1>k, <2>2, <3>2
  <2> QED BY <1>5, <2>3, <2>4, <2>5 DEF Firebird!conn_close, Firebird!AutoTx, AutoTx
<1>6. ASSUME NEW c \in Collectable(Conn), Firebird!conn_gc(c) PROVE Goal
  <2>1. /\ c \in Conn /\ c \in Obj /\ obj[c].st # "none" /\ obj[c].up \in Obj
        /\ OpenChildren(c) = {}
    BY <1>0, <1>u, CollectableIs, Places DEF Above
  <2>2. HeardOnly("firebird")
    <3>1. Firebird!OpenChildren(c) = {}
      BY <2>1 DEF Firebird!OpenChildren, Firebird!Children, Firebird!Obj, OpenChildren, Children, Obj
    <3> QED BY <1>6, <3>1, HeardIs DEF Firebird!conn_gc, Firebird!Note, Firebird!When, HeardOnly
  <2>3. \/ obj' = [Firebird!Detached(c) EXCEPT ![c] = Vacant] /\ tx' = [tx EXCEPT ![c] = AutoTx]
        \/ obj' = [obj EXCEPT ![c] = Vacant] /\ tx' = tx
    BY Zenon, <1>6, FirebirdNames DEF Firebird!conn_gc, Firebird!Gone, Firebird!AutoTx, AutoTx
  <2>4. CASE obj' = [Firebird!Detached(c) EXCEPT ![c] = Vacant] /\ tx' = [tx EXCEPT ![c] = AutoTx]
    <3>1. OpenIn(obj') = OpenIn(obj) \ {c}
      <4>1. PICK f \in Tables : f = Firebird!Detached(c)
        BY <1>4, <2>1
      <4>2. OpenIn(f) = OpenIn(obj) \ {c}
        BY <1>4, <2>1, <4>1
      <4> QED BY <1>v, <2>1, <2>4, <4>1, <4>2
    <3>2. FirebirdKeeps(c, AutoTx)
      BY <1>0, <2>1, <2>4, <3>1 DEF FirebirdKeeps, TxMove
    <3> QED BY <1>k, <2>2, <3>2
  <2>5. CASE obj' = [obj EXCEPT ![c] = Vacant] /\ tx' = tx
    BY <1>0, <1>s, <2>1, <2>2, <2>5, OpenVacant DEF TxKept
  <2> QED BY <2>3, <2>4, <2>5
<1>7. ASSUME NEW x \in Obj \ Conn, obj' = [obj EXCEPT ![x] = Vacant], TxKept PROVE Same
  BY <1>0, <1>7, OpenPut
<1>8. ASSUME NEW e \in Collectable(Env), Firebird!env_gc(e) PROVE Goal
  <2>1. e \in Obj /\ e \notin Conn
    BY <1>0, CollectableIs, Places DEF Obj
  <2>2. obj' = [obj EXCEPT ![e] = Vacant] /\ TxKept
    BY Zenon, <1>8, FirebirdNames DEF Firebird!env_gc, Firebird!Gone, TxKept
  <2>3. HeardOnly("firebird")
    BY <1>8, <1>q DEF Firebird!env_gc
  <2> QED BY <1>7, <1>s, <2>1, <2>2, <2>3
<1>9. ASSUME NEW q \in Collectable(Cur), Firebird!cur_gc(q) PROVE Goal
  <2>1. q \in Obj /\ q \notin Conn /\ obj[q].up \in Obj /\ obj[q].st # "none"
    BY <1>0, <1>u, CollectableIs, Places DEF Above, Obj
  <2>2. HeardOnly("firebird") /\ TxKept
    BY <1>9, HeardIs DEF Firebird!cur_gc, Firebird!Note, Firebird!When, HeardOnly, TxKept
  <2>3. \/ obj' = [obj EXCEPT ![q] = Vacant]
        \/ obj' = [Firebird!Unlock(obj, q) EXCEPT ![q] = Vacant]
        \/ obj' = [[obj EXCEPT ![obj[q].up].stuck = TRUE] EXCEPT ![q] = Vacant]
    <3>1. \/ obj' = [obj EXCEPT ![q] = Vacant]
          \/ obj' = [[Firebird!Unlock(obj, q) EXCEPT ![q].native = "lost"] EXCEPT ![q] = Vacant]
          \/ obj' = [[obj EXCEPT ![obj[q].up].stuck = TRUE] EXCEPT ![q] = Vacant]
      BY Zenon, <1>9, FirebirdNames DEF Firebird!cur_gc, Firebird!Gone, Firebird!cur_shut
    <3>2. Firebird!Unlock(obj, q) \in Tables
      BY <1>4, <2>1
    <3> QED BY <2>1, <3>1, <3>2, LostIs
  <2>4. CASE obj' = [obj EXCEPT ![q] = Vacant]
    BY <1>7, <1>s, <2>1, <2>2, <2>4
  <2>5. CASE obj' = [Firebird!Unlock(obj, q) EXCEPT ![q] = Vacant]
    <3>1. OpenIn(obj') \subseteq OpenIn(obj)
      <4>1. PICK f \in Tables : f = Firebird!Unlock(obj, q)
        BY <1>4, <2>1
      <4>2. OpenIn(f) = OpenIn(obj) \ {q}
        BY <1>4, <2>1, <4>1
      <4> QED BY <1>v, <2>1, <2>5, <4>1, <4>2
    <3> QED BY <1>s, <2>2, <3>1
  <2>6. CASE obj' = [[obj EXCEPT ![obj[q].up].stuck = TRUE] EXCEPT ![q] = Vacant]
    <3>1. PICK v \in BOOLEAN : v = TRUE
      OBVIOUS
    <3> DEFINE g == [obj EXCEPT ![obj[q].up].stuck = v]
    <3>2. obj' = [g EXCEPT ![q] = Vacant]
      BY Zenon, <2>6, <3>1
    <3>3. g \in Tables /\ \A y \in Obj : g[y].st = obj[y].st
      BY <1>0, <2>1 DEF Tables, Userdata
    <3> HIDE DEF g
    <3>4. OpenIn(g) = OpenIn(obj)
      BY <1>0, <3>3 DEF OpenIn
    <3>5. OpenIn(obj') \subseteq OpenIn(obj)
      BY <1>v, <2>1, <3>2, <3>3, <3>4
    <3> QED BY <1>s, <2>2, <3>5
  <2> QED BY <2>3, <2>4, <2>5, <2>6
<1>10. ASSUME NEW q \in Opened(Cur), Firebird!cur_fetch(q) \/ Firebird!cur_close(q) PROVE Goal
  <2>1. q \in Obj /\ obj[q].up \in Obj /\ obj[q].st # "none"
    BY <1>0, <1>u, OpenedIs, Places DEF Above, Obj
  <2>2. HeardOnly("firebird") /\ TxKept
    BY <1>10, <1>m, <1>q DEF Firebird!cur_fetch, Firebird!cur_close, Firebird!Shuts, TxKept
  <2> DEFINE f == Firebird!Unlock(obj, q)
  <2>3. obj' = obj \/ obj' = f \/ obj' = [f EXCEPT ![q].native = "lost"]
    BY Zenon, <1>10 DEF Firebird!cur_fetch, Firebird!cur_close, Firebird!Shuts, Firebird!cur_shut
  <2>4. OpenIn(obj') \subseteq OpenIn(obj)
    <3>1. f \in Tables /\ OpenIn(f) = OpenIn(obj) \ {q}
      BY <1>4, <2>1
    <3> HIDE DEF f
    <3>2. OpenIn([f EXCEPT ![q].native = "lost"]) = OpenIn(f)
      BY <1>0, <2>1, <3>1, LostIs DEF OpenIn
    <3> QED BY <2>3, <3>1, <3>2
  <2> QED BY <1>s, <2>2, <2>4
<1>11. ASSUME NEW c \in Opened(Conn), Firebird!conn_commit(c) \/ Firebird!conn_rollback(c) PROVE Goal
  <2>1. c \in Conn /\ c \in OpenIn(obj) /\ tx[c] \in TxType
    BY <1>0, OpenedIs DEF OpenIn
  <2>2. HeardOnly("firebird")
    BY <1>11, <1>q DEF Firebird!conn_commit, Firebird!conn_rollback, Firebird!EndTran
  <2>3. CASE Firebird!Nothing
    BY <1>s, <2>2, <2>3 DEF Firebird!Nothing, TxKept
  <2>4. CASE tx' = [tx EXCEPT ![c].work = "none"] /\ tx[c].in /\ obj' = obj
    <3> DEFINE t == [tx[c] EXCEPT !.work = "none"]
    <3>1. t \in TxType /\ t.in
      BY <2>1, <2>4 DEF TxType
    <3>2. tx' = [tx EXCEPT ![c] = t]
      BY Zenon, <2>4
    <3> HIDE DEF t
    <3>3. FirebirdKeeps(c, t)
      BY <2>1, <2>4, <3>1, <3>2 DEF FirebirdKeeps, TxMove
    <3> QED BY <1>k, <2>2, <3>3
  <2> QED BY <1>11, <2>3, <2>4 DEF Firebird!conn_commit, Firebird!conn_rollback, Firebird!EndTran
<1>12. ASSUME NEW c \in Opened(Conn), NEW on \in BOOLEAN, Firebird!conn_setautocommit(c, on) PROVE Goal
  <2>1. c \in Conn /\ c \in OpenIn(obj) /\ tx[c] \in TxType /\ (tx[c].in \/ tx[c].lost = "failed close")
    BY <1>0, OpenedIs DEF OpenIn, Manual
  <2>2. HeardOnly("firebird") /\ obj' = obj
    BY <1>12, <1>q DEF Firebird!conn_setautocommit
  <2> DEFINE t == [tx[c] EXCEPT !.auto = on, !.asked = on]
  <2>3. tx' = [tx EXCEPT ![c] = t]
    BY Zenon, <1>12 DEF Firebird!conn_setautocommit
  <2>4. t \in TxType /\ t.in = tx[c].in /\ t.lost = tx[c].lost
    BY <2>1 DEF TxType
  <2> HIDE DEF t
  <2>5. FirebirdKeeps(c, t)
    BY <2>1, <2>2, <2>3, <2>4 DEF FirebirdKeeps, TxMove
  <2> QED BY <1>k, <2>2, <2>5
<1>13. ASSUME NEW c \in Opened(Conn), Firebird!conn_execute(c) PROVE Goal
  <2>1. c \in Conn /\ c \in Obj /\ c \in OpenIn(obj) /\ tx[c] \in TxType /\ 1 \in Width
    BY <1>0, OpenedIs DEF OpenIn, Width
  <2>2. HeardOnly("firebird")
    BY <1>13, <1>m, <1>q DEF Firebird!conn_execute
  <2>3. CASE Firebird!Nothing
    BY <1>s, <2>2, <2>3 DEF Firebird!Nothing, TxKept
  <2>4. CASE tx[c].in /\ ~Firebird!Nothing
    <3>1. PICK t : t \in {tx[c], [tx[c] EXCEPT !.work = "none"], [tx[c] EXCEPT !.work = "some"]} /\ tx' = [tx EXCEPT ![c] = t]
      <4>1. tx' \in {tx, [tx EXCEPT ![c] = tx[c]], [tx EXCEPT ![c] = [tx[c] EXCEPT !.work = "none"]],
                     [tx EXCEPT ![c] = [tx[c] EXCEPT !.work = "some"]]}
        BY <1>13, <2>4 DEF Firebird!conn_execute
      <4>2. tx = [tx EXCEPT ![c] = tx[c]]
        BY <2>1
      <4> QED BY Zenon, <4>1, <4>2
    <3>2. \/ obj' = obj
          \/ \E q \in Unused(Cur), v \in BOOLEAN :
               obj' = [obj EXCEPT ![q] = [NewCursor(c, 1) EXCEPT !.hidden = v], ![c].lock = @ + 1]
          \/ \E q \in Unused(Cur) :
               obj' = [obj EXCEPT ![q] = [NewCursor(c, 1) EXCEPT !.stuck = TRUE, !.native = "null"]]
      BY Zenon, <1>13, FirebirdExecutes
    <3>3. t \in TxType /\ t.in
      BY <2>1, <2>4, <3>1 DEF TxType
    <3>4. ASSUME NEW q \in Unused(Cur), NEW r \in Userdata,
                 \/ obj' = [obj EXCEPT ![q] = r, ![c].lock = @ + 1]
                 \/ obj' = [obj EXCEPT ![q] = r]
          PROVE  OpenIn(obj') = OpenIn(obj)
      <4> DEFINE g == [obj EXCEPT ![q] = r]
                 v == g[c].lock + 1
                 k == [g EXCEPT ![c].lock = v]
      <4>1. q \in Obj /\ q \in Cur /\ q # c /\ q \notin Conn
        BY <1>0, <2>1, FreshIs, Places
      <4>2. g[c] = obj[c] /\ g \in Tables /\ OpenIn(g) = OpenIn(obj)
        <5>1. g[c] = obj[c]
          BY <1>0, <2>1, <4>1 DEF Tables
        <5> HIDE DEF Tables
        <5> QED BY <1>0, <4>1, <5>1, OpenPut
      <4>3. obj' = k \/ obj' = g
        BY Zenon, <3>4, <4>2
      <4> HIDE DEF g
      <4>4. v \in Int
        BY <2>1, <4>2 DEF Tables, Userdata
      <4> HIDE DEF v
      <4>5. OpenIn(k) = OpenIn(g)
        BY <2>1, <4>2, <4>4, OpenLock
      <4> HIDE DEF k
      <4> QED BY <4>2, <4>3, <4>5
    <3>6. NewCursor(c, 1) \in Userdata
      BY <2>1, NewCursorIs
    <3>7. ASSUME NEW r \in Userdata
          PROVE  /\ [r EXCEPT !.stuck = TRUE, !.native = "null"] \in Userdata
                 /\ \A v \in BOOLEAN : [r EXCEPT !.hidden = v] \in Userdata
      BY DEF Userdata
    <3>8. OpenIn(obj') = OpenIn(obj)
      BY Zenon, <3>2, <3>4, <3>6, <3>7
    <3>5. FirebirdKeeps(c, t)
      BY <2>1, <3>1, <3>3, <3>8 DEF FirebirdKeeps, TxMove
    <3> QED BY <1>k, <2>2, <3>5
  <2> QED BY <1>13, <2>3, <2>4 DEF Firebird!conn_execute
<1> HIDE DEF Goal
<1>14. Goal
  <2>1. ASSUME NEW c \in Opened(Conn),
               \/ Firebird!conn_close(c) \/ Firebird!conn_execute(c) \/ Firebird!conn_commit(c) \/ Firebird!conn_rollback(c)
               \/ \E on \in BOOLEAN : Firebird!conn_setautocommit(c, on)
        PROVE  Goal
    BY <1>5, <1>11, <1>12, <1>13, <2>1
  <2> QED BY <1>1, <1>2, <1>3, <1>6, <1>8, <1>9, <1>10, <2>1, FirebirdNames DEF Firebird!Next
<1> QED BY <1>14 DEF Goal

-----------------------------------------------------------------------------
(* The second part, and the theorems.                                      *)

\* Why manual mode holds, by driver: a connection whose script asked for it has
\* a transaction, or lost it in the one way that the driver has.
Mode(d, t) ==
  /\ d = "mysql" => t.in \/ t.asked \/ t.lost = "mode not set"
  /\ d = "postgres" => t.asked = t.auto /\ (t.in \/ t.asked \/ t.lost = "lost connection")
  /\ d \in SqliteDrivers => /\ t.in \/ t.asked \/ t.lost = "automatic rollback"
                            /\ t.in => t.work # "aborted"
                            /\ t.auto => t.asked
  /\ d = "odbc" => t.in \/ t.asked
  /\ d = "oci8" => t.in \/ t.asked \/ t.lost = "failed call"
TxInv ==
  /\ tx \in [Conn -> TxType]
  /\ \A c \in Conn : Mode(driver, tx[c])
  /\ driver = "firebird" => Manual(obj)
  /\ Unstuck /\ slips \subseteq Heard(driver)

\* The moves of every driver keep it.
LEMMA ModeSet ==
  ASSUME tx \in [Conn -> TxType], NEW c \in Conn, NEW d, Mode(d, tx[c]),
         \/ d = "mysql" /\ MysqlMoves(c)
         \/ d = "postgres" /\ PostgresMoves(c)
         \/ d \in SqliteDrivers /\ Lite3Moves(c)
         \/ d = "odbc" /\ OdbcMoves(c)
         \/ d = "oci8" /\ Oci8Moves(c)
  PROVE  \E t \in TxType : TxMove(c, t) /\ Mode(d, t)
<1>1. tx[c] \in TxType /\ AutoTx \in TxType /\ Mode(d, AutoTx)
  BY DEF AutoTx, TxType, Mode
<1>2. Done(tx[c]) \in TxType /\ Mode(d, Done(tx[c]))
  BY <1>1 DEF Done, TxType, Mode
<1>3. [tx[c] EXCEPT !.work = "none"] \in TxType /\ Mode(d, [tx[c] EXCEPT !.work = "none"])
  BY <1>1 DEF TxType, Mode
<1>4. CASE d = "mysql" /\ MysqlMoves(c)
  <2>1. ASSUME NEW on \in BOOLEAN
        PROVE  /\ [tx[c] EXCEPT !.asked = on, !.lost = "mode not set"] \in TxType
               /\ Mode("mysql", [tx[c] EXCEPT !.asked = on, !.lost = "mode not set"])
    BY <1>1 DEF TxType, Mode, SqliteDrivers
  <2>2. ASSUME NEW on \in BOOLEAN
        PROVE  LET t == [auto |-> on, asked |-> on, in |-> ~on, lost |-> "nothing", work |-> IF on THEN "none" ELSE tx[c].work]
               IN  t \in TxType /\ Mode("mysql", t)
    BY <1>1 DEF TxType, Mode, SqliteDrivers
  <2> QED BY Zenon, <1>1, <1>2, <1>3, <1>4, <2>1, <2>2 DEF MysqlMoves
<1>5. CASE d = "postgres" /\ PostgresMoves(c)
  <2>1. LET t == [tx[c] EXCEPT !.work = IF tx[c].in THEN "aborted" ELSE @] IN t \in TxType /\ Mode("postgres", t)
    BY <1>1, <1>5 DEF TxType, Mode, SqliteDrivers
  <2>2. LET t == IF tx[c].auto THEN Ended(tx[c]) ELSE Postgres!sql_begin(Ended(tx[c])) IN t \in TxType /\ Mode("postgres", t)
    BY <1>1, <1>5 DEF TxType, Mode, SqliteDrivers, Ended, Postgres!sql_begin, Postgres!Lost, Postgres!Begun
  <2>3. LET t == Ended([tx[c] EXCEPT !.auto = TRUE, !.asked = TRUE]) IN t \in TxType /\ Mode("postgres", t)
    BY <1>1, <1>5 DEF TxType, Mode, SqliteDrivers, Ended
  <2>4. LET t == Postgres!sql_begin([tx[c] EXCEPT !.auto = FALSE, !.asked = FALSE]) IN t \in TxType /\ Mode("postgres", t)
    BY <1>1, <1>5 DEF TxType, Mode, SqliteDrivers, Postgres!sql_begin, Postgres!Lost, Postgres!Begun
  <2>5. Postgres!Dropped(tx[c]) \in TxType /\ Mode("postgres", Postgres!Dropped(tx[c]))
    BY <1>1, <1>5 DEF TxType, Mode, SqliteDrivers, Postgres!Dropped
  <2> QED BY Zenon, <1>1, <1>2, <1>5, <2>1, <2>2, <2>3, <2>4, <2>5 DEF PostgresMoves
<1>6. CASE d \in SqliteDrivers /\ Lite3Moves(c)
  <2>1. LET t == [Ended(tx[c]) EXCEPT !.lost = "automatic rollback", !.work = "aborted"] IN t \in TxType /\ Mode(d, t)
    BY <1>1, <1>6 DEF TxType, Mode, SqliteDrivers, Ended
  <2>2. LET t == IF tx[c].auto THEN Ended(tx[c]) ELSE Begun(Ended(tx[c])) IN t \in TxType /\ Mode(d, t)
    BY <1>1, <1>6 DEF TxType, Mode, SqliteDrivers, Ended, Begun
  <2>3. LET t == Ended([tx[c] EXCEPT !.auto = TRUE, !.asked = TRUE, !.lost = "nothing"]) IN t \in TxType /\ Mode(d, t)
    BY <1>1, <1>6 DEF TxType, Mode, SqliteDrivers, Ended
  <2>4. LET t == [tx[c] EXCEPT !.auto = FALSE, !.lost = "nothing"] IN t \in TxType /\ (tx[c].in => Mode(d, t))
    BY <1>1, <1>6 DEF TxType, Mode, SqliteDrivers
  <2>5. LET t == [AutoTx EXCEPT !.auto = FALSE, !.asked = FALSE, !.in = TRUE] IN t \in TxType /\ Mode(d, t)
    BY <1>6 DEF TxType, Mode, SqliteDrivers, AutoTx
  <2> QED BY Zenon, <1>1, <1>2, <1>6, <2>1, <2>2, <2>3, <2>4, <2>5 DEF Lite3Moves
<1>7. CASE d = "odbc" /\ OdbcMoves(c)
  <2>1. ASSUME NEW on \in BOOLEAN
        PROVE  LET t == [tx[c] EXCEPT !.auto = on, !.asked = on, !.in = ~on, !.work = IF on THEN "none" ELSE tx[c].work]
               IN  t \in TxType /\ Mode("odbc", t)
    BY <1>1 DEF TxType, Mode, SqliteDrivers
  <2> QED BY Zenon, <1>1, <1>2, <1>3, <1>7, <2>1 DEF OdbcMoves
<1>8. CASE d = "oci8" /\ Oci8Moves(c)
  <2>1. ASSUME NEW on \in BOOLEAN, NEW ok \in BOOLEAN
        PROVE  LET t == [auto |-> on, in |-> ~on, asked |-> IF ok THEN on ELSE tx[c].asked,
                         lost |-> IF ok THEN "nothing" ELSE "failed call",
                         work |-> IF on /\ ok THEN "none" ELSE tx[c].work]
               IN  t \in TxType /\ Mode("oci8", t)
    BY <1>1 DEF TxType, Mode, SqliteDrivers
  <2> QED BY Zenon, <1>1, <1>2, <1>3, <1>8, <2>1 DEF Oci8Moves
<1> QED BY <1>4, <1>5, <1>6, <1>7, <1>8

LEMMA ModeStays ==
  ASSUME TxInv, driver # "firebird",
         \/ TxKept
         \/ \E c \in Conn : \/ driver = "mysql" /\ MysqlMoves(c)
                            \/ driver = "postgres" /\ PostgresMoves(c)
                            \/ driver \in SqliteDrivers /\ Lite3Moves(c)
                            \/ driver = "odbc" /\ OdbcMoves(c)
                            \/ driver = "oci8" /\ Oci8Moves(c)
  PROVE  tx' \in [Conn -> TxType] /\ \A c \in Conn : Mode(driver, tx'[c])
<1>1. CASE TxKept
  BY <1>1 DEF TxKept, TxInv
<1>2. CASE ~TxKept
  <2>1. PICK c \in Conn, t \in TxType : TxMove(c, t) /\ Mode(driver, t)
    BY <1>2, ModeSet DEF TxInv
  <2>2. tx \in [Conn -> TxType] /\ tx' = [tx EXCEPT ![c] = t] /\ \A x \in Conn : Mode(driver, tx[x])
    BY <2>1 DEF TxMove, TxInv
  <2> HIDE DEF TxType, Mode
  <2> QED BY <2>1, <2>2
<1> QED BY <1>1, <1>2

\* The second part is inductive, given the first.
LEMMA TxStarts == SqlInit => TxInv
<1> SUFFICES ASSUME SqlInit PROVE TxInv
  OBVIOUS
<1>1. tx \in [Conn -> TxType] /\ \A c \in Conn : Mode(driver, tx[c])
  BY DEF SqlInit, AutoTx, TxType, Mode
<1>2. \A x \in Obj : obj[x] = Vacant
  BY DEF SqlInit
<1>3. Conn \subseteq Obj
  BY DEF Obj
<1>4. Manual(obj) /\ Unstuck /\ slips = {}
  BY <1>2, <1>3, VacantIs DEF Manual, OpenIn, Unstuck, Blank, SqlInit
<1> QED BY <1>1, <1>4 DEF TxInv

LEMMA TxStep == SqlIInv /\ TxInv /\ [SqlNext]_sqlVars => TxInv'
<1> SUFFICES ASSUME SqlIInv, TxInv, [SqlNext]_sqlVars PROVE TxInv'
  OBVIOUS
<1>0. Unstuck'
  BY UnstuckStays DEF TxInv
<1>1. CASE UNCHANGED sqlVars
  BY <1>0, <1>1 DEF sqlVars, TxInv, Manual, OpenIn
<1>2. CASE Runtime
  <2>1. UNCHANGED <<driver, obj, tx>> /\ slips' = {}
    BY <1>2 DEF Runtime, Forget, CloseState, Fine, Note
  <2> QED BY <1>0, <2>1 DEF TxInv, Manual, OpenIn
<1>3. CASE Driver
  <2>1. UNCHANGED driver /\ driver \in Drivers
    BY Zenon, <1>3 DEF SqlIInv, Driver, Mysql!Next, Postgres!Next, Lite3!Next, Lite!Next, Odbc!Next, Oci8!Next, Firebird!Next
  <2>2. AbortedNotIn \/ driver \notin SqliteDrivers
    BY DEF TxInv, Mode, AbortedNotIn
  <2>3. CASE driver = "firebird"
    <3>1. tx' \in [Conn -> TxType] /\ Manual(obj)' /\ HeardOnly("firebird")
      BY <1>3, <2>3, FirebirdTx DEF Driver, TxInv
    <3> QED BY <1>0, <2>1, <2>3, <3>1 DEF TxInv, Mode, HeardOnly, SqliteDrivers
  <2>4. CASE driver # "firebird"
    <3>1. /\ \/ TxKept
             \/ \E c \in Conn : \/ driver = "mysql" /\ MysqlMoves(c)
                                \/ driver = "postgres" /\ PostgresMoves(c)
                                \/ driver \in SqliteDrivers /\ Lite3Moves(c)
                                \/ driver = "odbc" /\ OdbcMoves(c)
                                \/ driver = "oci8" /\ Oci8Moves(c)
          /\ HeardOnly(driver)
      <4>1. CASE driver = "mysql" /\ Mysql!Next
        BY <4>1, MysqlTx
      <4>2. CASE driver = "postgres" /\ Postgres!Next
        BY <4>2, PostgresTx
      <4>3. CASE driver = "sqlite3" /\ Lite3!Next
        BY <2>2, <4>3, Lite3Tx DEF SqliteDrivers, TxInv
      <4>4. CASE driver = "sqlite" /\ Lite!Next
        BY <2>2, <4>4, LiteTx DEF SqliteDrivers, TxInv
      <4>5. CASE driver = "odbc" /\ Odbc!Next
        BY <4>5, OdbcTx
      <4>6. CASE driver = "oci8" /\ Oci8!Next
        BY <4>6, Oci8Tx
      <4> QED BY <1>3, <2>4, <4>1, <4>2, <4>3, <4>4, <4>5, <4>6 DEF Driver
    <3>2. tx' \in [Conn -> TxType] /\ \A c \in Conn : Mode(driver, tx'[c])
      BY <2>4, <3>1, ModeStays
    <3> QED BY <1>0, <2>1, <2>4, <3>1, <3>2 DEF TxInv, HeardOnly
  <2> QED BY <2>3, <2>4
<1> QED BY <1>1, <1>2, <1>3 DEF SqlNext

\* The modes of all connections are as the invariant says, in every driver.
THEOREM TxInvariant == SqlSpec => []TxInv
BY SqlInvariant, TxStarts, TxStep, PTL DEF SqlSpec

\* setautocommit(false) holds, save for the losses named, and only PostgreSQL
\* answers true to a commit of what was rolled back (conn_commit and
\* conn_setautocommit of the seven drivers).
THEOREM ManualModeHolds == SqlSpec => []TransactionsHold
<1>1. SqlIInv /\ TxInv => TransactionsHold
  <2> SUFFICES ASSUME SqlIInv, TxInv PROVE TransactionsHold
    OBVIOUS
  <2>1. driver \in Drivers
    BY DEF SqlIInv
  <2>2. ManualStaysManual
    BY <2>1 DEF ManualStaysManual, Losses, SqliteDrivers, TxInv, Mode, Manual, OpenIn, Drivers
  <2>3. CommitMeansStored
    BY <2>1, HeardIs DEF CommitMeansStored, LostCommit, TxInv, Drivers
  <2> QED BY <2>2, <2>3 DEF TransactionsHold
<1> QED BY <1>1, SqlInvariant, TxInvariant, PTL

\* No method uses what was freed and no finalizer fails, save for the mistakes
\* named by driver (the _gc, close and fetch methods).
THEOREM NothingFreedIsUsed == SqlSpec => []NoStrayUse
<1>1. SqlIInv /\ TxInv => NoStrayUse
  <2> SUFFICES ASSUME SqlIInv, TxInv PROVE NoStrayUse
    OBVIOUS
  <2>1. driver \in Drivers /\ slips \subseteq Heard(driver)
    BY DEF SqlIInv, TxInv
  <2>2. Heard(driver) \cap StrayUse \subseteq Mistakes[driver]
    <3> DEFINE Elsewhere == {"commit of what was rolled back", "parameter left out", "statement handle lost",
                             "error handle lost", "database left attached"}
    <3>1. \A d \in Drivers : Mistakes[d] \cap Elsewhere = {}
      BY DEF Mistakes, Drivers
    <3>2. StrayUse \cap Elsewhere = {}
      <4>1. ASSUME NEW x \in StrayUse PROVE x = "connection freed under its cursor" \/ \E d \in Drivers : x \in Mistakes[d]
        BY <4>1 DEF StrayUse
      <4> QED BY <3>1, <4>1
    <3>3. Heard(driver) \subseteq Mistakes[driver] \cup Elsewhere
      BY <2>1, HeardIs DEF Mistakes, Drivers
    <3> QED BY <3>2, <3>3
  <2> QED BY <2>1, <2>2 DEF NoStrayUse
<1> QED BY <1>1, SqlInvariant, TxInvariant, PTL

\* A counter is the number of open children unless a failure is on record, so
\* no parent closes under its child and none stays locked for nothing
\* (cur_counter, conn_counter and lock).
THEOREM CountsAreKept == SqlSpec => []CountsAreTrue
BY SqlInvariant, CountsFollow, PTL

\* The handle of the database library goes with its object, save where a handle
\* left on it makes the library refuse, and the ways to lose one altogether are
\* those named for the driver (the _close, _gc and execute methods).
THEOREM HandlesAreFreed == SqlSpec => []HandlesFreed
<1>1. SqlIInv /\ TxInv => HandlesFreed
  <2> SUFFICES ASSUME SqlIInv, TxInv PROVE HandlesFreed
    OBVIOUS
  <2>1. driver \in Drivers /\ slips \subseteq Heard(driver)
    BY DEF SqlIInv, TxInv
  <2>2. Heard(driver) \cap Losable \subseteq LosesHandles[driver]
    BY <2>1, HeardIs DEF Losable, LosesHandles, Drivers
  <2>3. \A o \in Obj \ (IF driver = "odbc" THEN Cur ELSE {}) :
          obj[o].st = "closed" /\ obj[o].native = "open" => obj[o].left /\ driver \in {"sqlite3", "odbc"}
    BY DEF SqlIInv, World, Sound, Handles, LeftOver, Leaky
  <2> QED BY <2>1, <2>2, <2>3 DEF HandlesFreed
<1> QED BY <1>1, SqlInvariant, TxInvariant, PTL

\* The registry keeps the parents of open objects and lets the rest be
\* collected (luaL_ref and luaL_unref in the drivers).
THEOREM ParentsAreKept == SqlSpec => []RegistryKeepsParents
<1>1. SqlIInv /\ TxInv => RegistryKeepsParents
  <2> SUFFICES ASSUME SqlIInv, TxInv PROVE RegistryKeepsParents
    OBVIOUS
  <2>1. ParentsOutlive /\ KeptForAChild
    BY ParentsFollow, RegistryFollows
  <2>2. SqlTypeOK
    <3>1. slips \subseteq Slips
      <4>1. Heard(driver) \subseteq Slips
        BY HeardIs DEF SqlIInv, Drivers, Slips
      <4> QED BY <4>1 DEF TxInv
    <3> QED BY <3>1, ObjectsFollow DEF SqlTypeOK, TxInv
  <2> QED BY <2>1, <2>2 DEF RegistryKeepsParents
<1> QED BY <1>1, SqlInvariant, TxInvariant, PTL
=============================================================================
