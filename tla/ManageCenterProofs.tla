------------------------- MODULE ManageCenterProofs -------------------------
(***************************************************************************)
(* Any number of worker processes and devices: what get_with_expire and    *)
(* headscale promise together.                                             *)
(***************************************************************************)
EXTENDS ManageCenter, TLAPS

\* A code that is there, or not requested yet, was never taken out, and only
\* the latest one is there.
CachedIsUntried ==
  \A d \in Device :
    /\ cache[d].id \in {0, codes[d]}
    /\ \A w \in Worker, i \in 1..MaxCode :
         i > codes[d] \/ i = cache[d].id => tries[w][d][i] = 0

\* A worker between get and delete has not compared its code yet, which is the
\* latest one if it was requested in a calm moment.
HeldIsUntried ==
  \A w \in Worker : At(w, "delete") =>
    /\ tries[w][call[w].dev][call[w].id] = 0
    /\ call[w].id <= codes[call[w].dev]
    /\ calm[call[w].dev] => call[w].id = codes[call[w].dev]

GuessInv == OneGuessPerWorker /\ CachedIsUntried /\ HeldIsUntried /\ LatestCodeIsKept

\* Whoever may create a key has created the user, and a key shows that
\* somebody has.
KeyInv ==
  /\ \A w \in Worker : At(w, "key") => call[w].dev \in users /\ keys[call[w].dev] = 0
  /\ \A v, w \in Worker :
       v # w /\ At(v, "key") /\ At(w, "key") => call[v].dev # call[w].dev
  /\ \A d \in Device : keys[d] <= 1 /\ (keys[d] > 0 => d \in users)

IInv == TypeOK /\ GuessInv /\ KeyInv

-----------------------------------------------------------------------------
\* The type of a call that goes on.
LEMMA CallFacts ==
  ASSUME TypeOK, NEW w \in Worker, call[w] # Idle
  PROVE  /\ call[w] \in Call
         /\ call[w].dev \in Device /\ call[w].id \in 1..MaxCode
  BY DEF TypeOK, Call

LEMMA NotIdle ==
  ASSUME NEW w, NEW s \in {"delete", "create", "key"}, At(w, s)
  PROVE  call[w] # Idle
  BY DEF At, Idle

LEMMA InitIInv == Init => IInv
  <1> SUFFICES ASSUME Init PROVE IInv
    OBVIOUS
  <1>1. TypeOK
    BY ManageCenterAssumption DEF Init, TypeOK, NoCode
  <1>2. GuessInv
    BY DEF Init, GuessInv, OneGuessPerWorker, CachedIsUntried, HeldIsUntried,
           LatestCodeIsKept, At, Idle, NoCode
  <1>3. KeyInv
    BY DEF Init, KeyInv, At, Idle
  <1> QED BY <1>1, <1>2, <1>3 DEF IInv

-----------------------------------------------------------------------------
\* Steps of one worker's call that leave codes, cache and history alone.
LEMMA CallStep ==
  ASSUME IInv, NEW w \in Worker, NEW c \in Call \cup {Idle}, c.step # "delete",
         call' = [call EXCEPT ![w] = c],
         UNCHANGED <<now, codes, cache, tries, calm>>,
         users' \subseteq Device, keys' \in [Device -> Nat]
  PROVE  TypeOK' /\ GuessInv'
  <1>1. TypeOK'
    BY DEF IInv, TypeOK
  <1>2. \A v \in Worker : At(v, "delete")' => call'[v] = call[v] /\ At(v, "delete")
    BY DEF At, IInv, TypeOK
  <1>3. HeldIsUntried'
    BY <1>2 DEF HeldIsUntried, IInv, GuessInv
  <1>4. OneGuessPerWorker' /\ CachedIsUntried' /\ LatestCodeIsKept'
    BY DEF OneGuessPerWorker, CachedIsUntried, LatestCodeIsKept, IInv, GuessInv
  <1> QED BY <1>1, <1>3, <1>4 DEF GuessInv

\* A step that takes one worker away from, or keeps it out of, the last step.
LEMMA KeyQuiet ==
  ASSUME IInv, UNCHANGED keys, users \subseteq users',
         \A v \in Worker : At(v, "key")' => call'[v] = call[v]
  PROVE  KeyInv'
  BY DEF KeyInv, IInv, At

LEMMA RequestStep ==
  ASSUME IInv, NEW w \in Worker, NEW d \in Device, GetVerificationCode(w, d)
  PROVE  IInv'
  <1> DEFINE n == codes[d] + 1
  <1>1. /\ n \in 1..MaxCode /\ n > codes[d]
        /\ codes' = [codes EXCEPT ![d] = n]
        /\ cache' = [cache EXCEPT ![d] = [id |-> n, expire |-> now + Life]]
        /\ calm' = [calm EXCEPT ![d] = Deleting(d) = {}]
        /\ UNCHANGED <<now, users, keys, call, tries>>
    BY ManageCenterAssumption DEF GetVerificationCode, Store, IInv, TypeOK
  <1> HIDE DEF n
  <1>2. TypeOK'
    <2>1. codes' \in [Device -> 0..MaxCode] /\ calm' \in [Device -> BOOLEAN]
      BY <1>1 DEF IInv, TypeOK
    <2>2. cache' \in [Device -> [id : 0..MaxCode, expire : 0..LastTime + Life]]
      <3>1. now + Life \in 0..LastTime + Life /\ n \in 0..MaxCode
        BY <1>1, ManageCenterAssumption DEF IInv, TypeOK
      <3> QED BY <1>1, <3>1 DEF IInv, TypeOK
    <2>3. \A e \in Device : cache'[e].id <= codes'[e] /\ cache'[e].expire <= now' + Life
      <3>1. n <= n /\ now + Life <= now' + Life
        BY <1>1, ManageCenterAssumption DEF IInv, TypeOK
      <3> QED BY <1>1, <3>1 DEF IInv, TypeOK
    <2> QED BY <1>1, <2>1, <2>2, <2>3 DEF IInv, TypeOK
  <1>3. OneGuessPerWorker'
    BY <1>1 DEF IInv, GuessInv, OneGuessPerWorker
  <1>4. \A e \in Device : e # d =>
          codes'[e] = codes[e] /\ cache'[e] = cache[e] /\ calm'[e] = calm[e]
    BY <1>1 DEF IInv, TypeOK
  <1>5. /\ codes'[d] = n /\ cache'[d].id = n
        /\ calm'[d] <=> Deleting(d) = {}
    BY <1>1 DEF IInv, TypeOK
  <1>6. CachedIsUntried'
    <2> SUFFICES ASSUME NEW e \in Device
                 PROVE  /\ cache'[e].id \in {0, codes'[e]}
                        /\ \A v \in Worker, i \in 1..MaxCode :
                             i > codes'[e] \/ i = cache'[e].id => tries'[v][e][i] = 0
      BY DEF CachedIsUntried
    <2>1. CASE e = d
      <3>1. \A v \in Worker, i \in 1..MaxCode : i > codes[d] => tries[v][d][i] = 0
        BY DEF IInv, GuessInv, CachedIsUntried
      <3>2. \A i \in 1..MaxCode : i > n \/ i = n => i > codes[d]
        BY <1>1 DEF IInv, TypeOK
      <3> QED BY <1>1, <1>5, <2>1, <3>1, <3>2
    <2>2. CASE e # d
      BY <1>1, <1>4, <2>2 DEF IInv, GuessInv, CachedIsUntried
    <2> QED BY <2>1, <2>2
  <1>7. HeldIsUntried'
    <2> SUFFICES ASSUME NEW v \in Worker, At(v, "delete")
                 PROVE  /\ tries[v][call[v].dev][call[v].id] = 0
                        /\ call[v].id <= codes'[call[v].dev]
                        /\ calm'[call[v].dev] => call[v].id = codes'[call[v].dev]
      BY <1>1 DEF HeldIsUntried, At
    <2>1. call[v].dev \in Device /\ call[v].id \in 1..MaxCode
      BY CallFacts, NotIdle DEF IInv
    <2>2. /\ tries[v][call[v].dev][call[v].id] = 0
          /\ call[v].id <= codes[call[v].dev]
          /\ calm[call[v].dev] => call[v].id = codes[call[v].dev]
      BY DEF IInv, GuessInv, HeldIsUntried
    <2>3. CASE call[v].dev = d
      <3>1. v \in Deleting(d)
        BY <2>3 DEF Deleting
      <3>2. ~calm'[d] /\ codes[d] < codes'[d]
        BY <1>1, <1>5, <3>1
      <3>3. call[v].id <= codes'[d]
        BY <1>1, <1>5, <2>1, <2>2, <2>3, <3>2 DEF IInv, TypeOK
      <3> QED BY <2>2, <2>3, <3>2, <3>3
    <2>4. CASE call[v].dev # d
      BY <1>4, <2>1, <2>2, <2>4
    <2> QED BY <2>3, <2>4
  <1>8. LatestCodeIsKept'
    BY <1>1, <1>4, <1>5 DEF IInv, GuessInv, LatestCodeIsKept
  <1>9. KeyInv'
    BY <1>1, KeyQuiet DEF IInv, TypeOK
  <1> QED BY <1>2, <1>3, <1>6, <1>7, <1>8, <1>9 DEF IInv, GuessInv

LEMMA ActiveStep ==
  ASSUME IInv, NEW w \in Worker, NEW d \in Device, NEW right \in BOOLEAN,
         DeviceActive(w, d, right), cache[d].id # 0
  PROVE  IInv'
  <1> DEFINE c == [step |-> "delete", dev |-> d, id |-> cache[d].id,
                   late |-> now > cache[d].expire, right |-> right]
  <1>1. cache[d].id = codes[d] /\ cache[d].id \in 1..MaxCode
    BY DEF IInv, GuessInv, CachedIsUntried, TypeOK
  <1>2. c \in Call /\ call' = [call EXCEPT ![w] = c]
        /\ UNCHANGED <<now, codes, cache, users, keys, tries, calm>>
    BY <1>1 DEF DeviceActive, Call
  <1>3. TypeOK'
    BY <1>2 DEF IInv, TypeOK
  <1>4. HeldIsUntried'
    <2> SUFFICES ASSUME NEW v \in Worker, At(v, "delete")'
                 PROVE  /\ tries[v][call'[v].dev][call'[v].id] = 0
                        /\ call'[v].id <= codes[call'[v].dev]
                        /\ calm[call'[v].dev] => call'[v].id = codes[call'[v].dev]
      BY <1>2 DEF HeldIsUntried
    <2>1. CASE v = w
      <3>1. call'[v] = c
        BY <1>2, <2>1 DEF IInv, TypeOK
      <3>2. tries[v][d][codes[d]] = 0 /\ codes[d] <= codes[d]
        BY <1>1 DEF IInv, GuessInv, CachedIsUntried, TypeOK
      <3> QED BY <1>1, <3>1, <3>2
    <2>2. CASE v # w
      <3>1. call'[v] = call[v] /\ At(v, "delete")
        BY <1>2, <2>2 DEF IInv, TypeOK, At
      <3> QED BY <3>1 DEF IInv, GuessInv, HeldIsUntried
    <2> QED BY <2>1, <2>2
  <1>5. OneGuessPerWorker' /\ CachedIsUntried' /\ LatestCodeIsKept'
    BY <1>2 DEF IInv, GuessInv, OneGuessPerWorker, CachedIsUntried, LatestCodeIsKept
  <1>6. KeyInv'
    <2>1. \A v \in Worker : At(v, "key")' => call'[v] = call[v]
      BY <1>2 DEF At, IInv, TypeOK
    <2> QED BY <1>2, <2>1, KeyQuiet
  <1> QED BY <1>3, <1>4, <1>5, <1>6 DEF IInv, GuessInv

LEMMA DeleteStep ==
  ASSUME IInv, NEW w \in Worker, Delete(w)
  PROVE  IInv'
  <1> DEFINE d == call[w].dev
             i == call[w].id
  <1>1. d \in Device /\ i \in 1..MaxCode /\ call[w] \in Call
    BY CallFacts, NotIdle DEF Delete, IInv
  <1>2. /\ cache' = [cache EXCEPT ![d] = NoCode]
        /\ tries' = [tries EXCEPT ![w] = [tries[w] EXCEPT ![d] =
                       [tries[w][d] EXCEPT ![i] = tries[w][d][i] + 1]]]
        /\ UNCHANGED <<now, codes, users, keys, calm>>
    BY DEF Delete
  <1>3. PICK c \in Call \cup {Idle} :
          call' = [call EXCEPT ![w] = c] /\ c.step \in {"idle", "create"}
    <2>1. CASE call[w].late \/ ~call[w].right
      <3>1. End(w) /\ Idle.step = "idle"
        BY <2>1 DEF Delete, Idle
      <3> QED BY <3>1 DEF End
    <2>2. CASE ~(call[w].late \/ ~call[w].right)
      <3> DEFINE c == [call[w] EXCEPT !.step = "create"]
      <3>1. c \in Call /\ c.step = "create"
        BY <1>1 DEF Call
      <3>2. call' = [call EXCEPT ![w] = c]
        BY <2>2 DEF Delete
      <3> QED BY <3>1, <3>2
    <2> QED BY <2>1, <2>2
  <1>4. tries[w][d][i] = 0 /\ i <= codes[d] /\ (calm[d] => i = codes[d])
    BY DEF Delete, IInv, GuessInv, HeldIsUntried
  <1> HIDE DEF d, i
  <1>5. /\ tries'[w][d][i] = 1
        /\ \A v \in Worker, e \in Device, j \in 1..MaxCode :
             v # w \/ e # d \/ j # i => tries'[v][e][j] = tries[v][e][j]
    <2>1. /\ tries[w] \in [Device -> [1..MaxCode -> Nat]]
          /\ tries[w][d] \in [1..MaxCode -> Nat]
      BY <1>1 DEF IInv, TypeOK
    <2>2. /\ tries'[w] = [tries[w] EXCEPT ![d] =
                            [tries[w][d] EXCEPT ![i] = tries[w][d][i] + 1]]
          /\ \A v \in Worker : v # w => tries'[v] = tries[v]
      BY <1>2 DEF IInv, TypeOK
    <2>3. /\ tries'[w][d] = [tries[w][d] EXCEPT ![i] = tries[w][d][i] + 1]
          /\ \A e \in Device : e # d => tries'[w][e] = tries[w][e]
      BY <1>1, <2>1, <2>2
    <2>4. /\ tries'[w][d][i] = 1
          /\ \A j \in 1..MaxCode : j # i => tries'[w][d][j] = tries[w][d][j]
      <3>1. tries[w][d][i] + 1 = 1
        BY <1>4
      <3>2. tries'[w][d] = [tries[w][d] EXCEPT ![i] = 1]
        BY <2>3, <3>1
      <3> QED BY <1>1, <2>1, <3>2
    <2> QED BY <2>2, <2>3, <2>4
  <1>6. cache'[d].id = 0 /\ \A e \in Device : e # d => cache'[e] = cache[e]
    BY <1>1, <1>2 DEF IInv, TypeOK, NoCode
  <1>7. TypeOK'
    <2>1. tries' \in [Worker -> [Device -> [1..MaxCode -> Nat]]]
      <3>1. [tries[w][d] EXCEPT ![i] = tries[w][d][i] + 1] \in [1..MaxCode -> Nat]
        <4>1. tries[w][d] \in [1..MaxCode -> Nat]
          BY <1>1 DEF IInv, TypeOK
        <4>2. tries[w][d][i] + 1 \in Nat
          BY <1>4
        <4> QED BY <1>1, <4>1, <4>2
      <3>2. [tries[w] EXCEPT ![d] = [tries[w][d] EXCEPT ![i] = tries[w][d][i] + 1]]
              \in [Device -> [1..MaxCode -> Nat]]
        BY <1>1, <3>1 DEF IInv, TypeOK
      <3> QED BY <1>2, <3>2 DEF IInv, TypeOK
    <2>2. NoCode \in [id : 0..MaxCode, expire : 0..LastTime + Life]
      BY ManageCenterAssumption DEF NoCode
    <2>3. cache' \in [Device -> [id : 0..MaxCode, expire : 0..LastTime + Life]]
      BY <1>2, <2>2 DEF IInv, TypeOK
    <2>4. \A e \in Device : cache'[e].id <= codes'[e] /\ cache'[e].expire <= now' + Life
      <3>1. 0 <= codes[d] /\ 0 <= now + Life
        BY <1>1, ManageCenterAssumption DEF IInv, TypeOK
      <3> QED BY <1>1, <1>2, <3>1 DEF IInv, TypeOK, NoCode
    <2>5. call' \in [Worker -> Call \cup {Idle}]
      BY <1>3 DEF IInv, TypeOK
    <2> QED BY <1>2, <2>1, <2>3, <2>4, <2>5 DEF IInv, TypeOK
  <1>8. OneGuessPerWorker'
    BY <1>5 DEF IInv, GuessInv, OneGuessPerWorker
  <1>9. CachedIsUntried'
    <2> SUFFICES ASSUME NEW e \in Device
                 PROVE  /\ cache'[e].id \in {0, codes[e]}
                        /\ \A v \in Worker, j \in 1..MaxCode :
                             j > codes[e] \/ j = cache'[e].id => tries'[v][e][j] = 0
      BY <1>2 DEF CachedIsUntried
    <2>1. CASE e = d
      <3>1. \A j \in 1..MaxCode : j > codes[d] \/ j = 0 => j > codes[d] /\ j # i
        BY <1>1, <1>4 DEF IInv, TypeOK
      <3> QED BY <1>5, <1>6, <2>1, <3>1 DEF IInv, GuessInv, CachedIsUntried
    <2>2. CASE e # d
      BY <1>5, <1>6, <2>2 DEF IInv, GuessInv, CachedIsUntried
    <2> QED BY <2>1, <2>2
  <1>10. HeldIsUntried'
    <2> SUFFICES ASSUME NEW v \in Worker, At(v, "delete")'
                 PROVE  /\ tries'[v][call'[v].dev][call'[v].id] = 0
                        /\ call'[v].id <= codes[call'[v].dev]
                        /\ calm[call'[v].dev] => call'[v].id = codes[call'[v].dev]
      BY <1>2 DEF HeldIsUntried
    <2>1. v # w /\ call'[v] = call[v] /\ At(v, "delete")
      BY <1>3 DEF At, IInv, TypeOK
    <2>2. call[v].dev \in Device /\ call[v].id \in 1..MaxCode
      BY <2>1, CallFacts, NotIdle DEF IInv
    <2> QED BY <1>5, <2>1, <2>2 DEF IInv, GuessInv, HeldIsUntried
  <1>11. LatestCodeIsKept'
    <2> SUFFICES ASSUME NEW e \in Device, codes[e] > 0, calm[e],
                        \A v \in Worker : tries'[v][e][codes[e]] = 0
                 PROVE  cache'[e].id = codes[e]
      BY <1>2 DEF LatestCodeIsKept
    <2>1. e # d
      BY <1>4, <1>5
    <2>2. codes[e] \in 1..MaxCode
      BY DEF IInv, TypeOK
    <2>3. \A v \in Worker : tries[v][e][codes[e]] = 0
      BY <1>5, <2>1, <2>2
    <2> QED BY <1>6, <2>1, <2>3 DEF IInv, GuessInv, LatestCodeIsKept
  <1>12. KeyInv'
    <2>1. \A v \in Worker : At(v, "key")' => call'[v] = call[v]
      BY <1>3 DEF At, IInv, TypeOK
    <2> QED BY <1>2, <2>1, KeyQuiet
  <1> QED BY <1>7, <1>8, <1>9, <1>10, <1>11, <1>12 DEF IInv, GuessInv

LEMMA CreateUserStep ==
  ASSUME IInv, NEW w \in Worker, CreateUser(w)
  PROVE  IInv'
  <1> DEFINE d == call[w].dev
  <1>1. d \in Device /\ call[w] \in Call
    BY CallFacts, NotIdle DEF CreateUser, IInv
  <1>2. CASE /\ d \notin users /\ users' = users \cup {d}
             /\ call' = [call EXCEPT ![w].step = "key"]
    <2> DEFINE c == [call[w] EXCEPT !.step = "key"]
    <2>1. c \in Call /\ c.step = "key" /\ c.dev = d
      BY <1>1 DEF Call
    <2>2. call' = [call EXCEPT ![w] = c] /\ UNCHANGED <<now, codes, cache, keys, tries, calm>>
      BY <1>2 DEF CreateUser
    <2> HIDE DEF c
    <2>3. TypeOK' /\ GuessInv'
      BY <1>1, <1>2, <2>1, <2>2, CallStep DEF IInv, TypeOK
    <2>4. call'[w] = c /\ \A v \in Worker : v # w => call'[v] = call[v]
      BY <2>2 DEF IInv, TypeOK
    <2>5. keys[d] = 0
      BY <1>1, <1>2 DEF IInv, KeyInv, TypeOK
    <2>6. \A v \in Worker : v # w /\ At(v, "key") => call[v].dev # d
      BY <1>2 DEF IInv, KeyInv
    <2>7. KeyInv'
      BY <1>2, <2>1, <2>2, <2>4, <2>5, <2>6 DEF IInv, KeyInv, At
    <2> QED BY <2>3, <2>7 DEF IInv
  <1>3. CASE End(w) /\ users' \in {users, users \cup {d}}
    <2>1. UNCHANGED <<now, codes, cache, keys, tries, calm>> /\ call' = [call EXCEPT ![w] = Idle]
      BY <1>3 DEF CreateUser, End
    <2>2. TypeOK' /\ GuessInv'
      <3>1. Idle.step # "delete" /\ users' \subseteq Device /\ keys' \in [Device -> Nat]
        BY <1>1, <1>3, <2>1 DEF Idle, IInv, TypeOK
      <3> QED BY <2>1, <3>1, CallStep
    <2>3. \A v \in Worker : At(v, "key")' => call'[v] = call[v]
      BY <2>1 DEF At, Idle, IInv, TypeOK
    <2>4. KeyInv'
      BY <1>3, <2>1, <2>3, KeyQuiet
    <2> QED BY <2>2, <2>4 DEF IInv
  <1> QED BY <1>2, <1>3 DEF CreateUser

LEMMA CreateKeyStep ==
  ASSUME IInv, NEW w \in Worker, CreateKey(w)
  PROVE  IInv'
  <1> DEFINE d == call[w].dev
  <1>1. d \in Device
    BY CallFacts, NotIdle DEF CreateKey, IInv
  <1>2. /\ call' = [call EXCEPT ![w] = Idle]
        /\ keys' = [keys EXCEPT ![d] = keys[d] + 1] \/ UNCHANGED keys
        /\ UNCHANGED <<now, codes, cache, users, tries, calm>>
    BY DEF CreateKey, End
  <1>3. At(w, "key") /\ keys[d] = 0 /\ d \in users
    BY DEF CreateKey, IInv, KeyInv
  <1>4. TypeOK' /\ GuessInv'
    <2>1. Idle.step # "delete" /\ users' \subseteq Device /\ keys' \in [Device -> Nat]
      BY <1>1, <1>2 DEF Idle, IInv, TypeOK
    <2> QED BY <1>2, <2>1, CallStep
  <1>5. /\ ~At(w, "key")'
        /\ \A v \in Worker : v # w => call'[v] = call[v]
    BY <1>2 DEF At, Idle, IInv, TypeOK
  <1>6. \A v \in Worker : v # w /\ At(v, "key") => call[v].dev # d /\ call[v].dev \in Device
    BY <1>3, CallFacts, NotIdle DEF IInv, KeyInv
  <1>7. \A e \in Device : keys'[e] = keys[e] \/ (e = d /\ keys'[e] = 1)
    BY <1>1, <1>2, <1>3 DEF IInv, TypeOK
  <1>8. KeyInv'
    BY <1>2, <1>3, <1>5, <1>6, <1>7 DEF IInv, KeyInv, At
  <1> QED BY <1>4, <1>8 DEF IInv

LEMMA CrashStep ==
  ASSUME IInv, NEW w \in Worker, Crash(w)
  PROVE  IInv'
  <1>1. call' = [call EXCEPT ![w] = Idle] /\ UNCHANGED <<now, codes, cache, users, keys, tries, calm>>
    BY DEF Crash, End
  <1>2. TypeOK' /\ GuessInv'
    <2>1. Idle.step # "delete" /\ users' \subseteq Device /\ keys' \in [Device -> Nat]
      BY <1>1 DEF Idle, IInv, TypeOK
    <2> QED BY <1>1, <2>1, CallStep
  <1>3. \A v \in Worker : At(v, "key")' => call'[v] = call[v]
    BY <1>1 DEF At, Idle, IInv, TypeOK
  <1>4. KeyInv'
    BY <1>1, <1>3, KeyQuiet
  <1> QED BY <1>2, <1>4 DEF IInv

\* The clock goes on, or nothing happens.
LEMMA TimeStep ==
  ASSUME IInv, Tick \/ UNCHANGED vars
  PROVE  IInv'
  <1>1. /\ now' \in 0..LastTime /\ now <= now'
        /\ UNCHANGED <<codes, cache, users, keys, call, tries, calm>>
    BY ManageCenterAssumption DEF Tick, vars, IInv, TypeOK
  <1>2. TypeOK'
    BY <1>1, ManageCenterAssumption DEF IInv, TypeOK
  <1>3. GuessInv'
    BY <1>1 DEF IInv, GuessInv, OneGuessPerWorker, CachedIsUntried, HeldIsUntried,
                LatestCodeIsKept, At
  <1>4. KeyInv'
    BY <1>1 DEF IInv, KeyInv, At
  <1> QED BY <1>2, <1>3, <1>4 DEF IInv

LEMMA NextIInv ==
  ASSUME IInv, [Next]_vars
  PROVE  IInv'
  <1>1. ASSUME NEW w \in Worker, NEW d \in Device, NEW right \in BOOLEAN,
               DeviceActive(w, d, right)
        PROVE  IInv'
    <2>1. CASE cache[d].id = 0
      <3>1. UNCHANGED vars
        BY <1>1, <2>1 DEF DeviceActive, vars
      <3> QED BY <3>1, TimeStep
    <2>2. CASE cache[d].id # 0
      BY <1>1, <2>2, ActiveStep
    <2> QED BY <2>1, <2>2
  <1> QED
    BY <1>1, RequestStep, DeleteStep, CreateUserStep, CreateKeyStep, CrashStep,
       TimeStep DEF Next

LEMMA Inductive == Spec => []IInv
  BY InitIInv, NextIInv, PTL DEF Spec

-----------------------------------------------------------------------------
\* Variables keep their types: no code expires later than Life from now, and
\* none is there that nobody requested.
THEOREM TypeCorrect == Spec => []TypeOK
  <1>1. IInv => TypeOK
    BY DEF IInv
  <1> QED BY Inductive, <1>1, PTL

\* Between get and delete, and across crashes: one guess per code and worker.
THEOREM GuessesAreFew == Spec => []OneGuessPerWorker
  <1>1. IInv => OneGuessPerWorker
    BY DEF IInv, GuessInv
  <1> QED BY Inductive, <1>1, PTL

\* However many activations of a device run at once, it gets one authkey.
THEOREM KeysAreSingle == Spec => []OneKeyPerDevice
  <1>1. IInv => OneKeyPerDevice
    BY DEF IInv, KeyInv, OneKeyPerDevice
  <1> QED BY Inductive, <1>1, PTL

\* A code requested in a calm moment stays until an activation takes it out.
THEOREM CodesAreKept == Spec => []LatestCodeIsKept
  <1>1. IInv => LatestCodeIsKept
    BY DEF IInv, GuessInv
  <1> QED BY Inductive, <1>1, PTL
=============================================================================
