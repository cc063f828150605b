---------------------------- MODULE ManageCenter ----------------------------
(***************************************************************************)
(* manage_center: verification codes and the activation of devices.  The   *)
(* worker processes of nginx share the dictionary ngx.shared.cache; each   *)
(* call on it is atomic, but get_with_expire is two of them.  The users    *)
(* and the keys are headscale's.                                           *)
(*                                                                         *)
(* A device here is a pair identity and nas_uuid, the key of the           *)
(* dictionary.  Calls whose token does not verify end in token_check and   *)
(* change nothing: they are left out.                                      *)
(***************************************************************************)
EXTENDS Naturals

CONSTANTS
  Worker,
  Device,
  Life,      \* expire_seconds
  LastTime,  \* bound: how far the clock goes
  MaxCode    \* bound: the codes requested for a device

ASSUME ManageCenterAssumption ==
  Life \in Nat /\ LastTime \in Nat /\ MaxCode \in Nat

VARIABLES
  now,
  codes,     \* how many codes were requested for each device
  cache,     \* ngx.shared.cache: the code of a device and its expire_at
  users,     \* headscale users
  keys,      \* how many authkeys were created for each device
  call,      \* what each worker is doing
  tries,     \* history: how often a worker took a code out to compare it
  calm       \* history: nobody was between get and delete of the device when
             \* its latest code was requested

vars == <<now, codes, cache, users, keys, call, tries, calm>>

NoCode == [id |-> 0, expire |-> 0]
Idle == [step |-> "idle"]
Call == [step : {"delete", "create", "key"}, dev : Device, id : 1..MaxCode,
         late : BOOLEAN, right : BOOLEAN]

TypeOK ==
  /\ now \in 0..LastTime
  /\ codes \in [Device -> 0..MaxCode]
  /\ cache \in [Device -> [id : 0..MaxCode, expire : 0..LastTime + Life]]
  /\ \A d \in Device : cache[d].id <= codes[d] /\ cache[d].expire <= now + Life
  /\ users \subseteq Device
  /\ keys \in [Device -> Nat]
  /\ call \in [Worker -> Call \cup {Idle}]
  /\ tries \in [Worker -> [Device -> [1..MaxCode -> Nat]]]
  /\ calm \in [Device -> BOOLEAN]

Init ==
  /\ now = 0
  /\ codes = [d \in Device |-> 0]
  /\ cache = [d \in Device |-> NoCode]
  /\ users = {}
  /\ keys = [d \in Device |-> 0]
  /\ call = [w \in Worker |-> Idle]
  /\ tries = [w \in Worker |-> [d \in Device |-> [i \in 1..MaxCode |-> 0]]]
  /\ calm = [d \in Device |-> TRUE]

-----------------------------------------------------------------------------
At(w, step) == call[w].step = step
Deleting(d) == {w \in Worker : At(w, "delete") /\ call[w].dev = d}
End(w) == call' = [call EXCEPT ![w] = Idle]

\* set_with_expire
Store(d, i) == cache' = [cache EXCEPT ![d] = [id |-> i, expire |-> now + Life]]

\* Slip for GetVerificationCode: a code that is there already is kept.
GetVerificationCodeAdds(w, d) ==
  /\ At(w, "idle") /\ codes[d] < MaxCode
  /\ codes' = [codes EXCEPT ![d] = @ + 1]
  /\ IF cache[d].id = 0 THEN Store(d, codes[d] + 1) ELSE UNCHANGED cache
  /\ calm' = [calm EXCEPT ![d] = Deleting(d) = {}]
  /\ UNCHANGED <<now, users, keys, call, tries>>

\* api_get_verification_code: a new code replaces the one of the device.
GetVerificationCode(w, d) ==
  /\ At(w, "idle") /\ codes[d] < MaxCode
  /\ codes' = [codes EXCEPT ![d] = @ + 1]
  /\ Store(d, codes[d] + 1)
  /\ calm' = [calm EXCEPT ![d] = Deleting(d) = {}]
  /\ UNCHANGED <<now, users, keys, call, tries>>

\* api_device_active as far as cache:get.  Without a code: 20004.
DeviceActive(w, d, right) ==
  /\ At(w, "idle")
  /\ IF cache[d].id = 0 THEN UNCHANGED call
     ELSE call' = [call EXCEPT ![w] =
                     [step |-> "delete", dev |-> d, id |-> cache[d].id,
                      late |-> now > cache[d].expire, right |-> right]]
  /\ UNCHANGED <<now, codes, cache, users, keys, tries, calm>>

\* Slip for Delete: the code stays for the next one who asks.
DeleteForgotten(w) ==
  /\ At(w, "delete")
  /\ tries' = [tries EXCEPT ![w][call[w].dev][call[w].id] = @ + 1]
  /\ IF call[w].late \/ ~call[w].right THEN End(w)
     ELSE call' = [call EXCEPT ![w].step = "create"]
  /\ UNCHANGED <<now, codes, cache, users, keys, calm>>

\* cache:delete takes away whatever code the device has by now.  Then the code
\* that was read is compared: 20004 if it is too old, 20005 if it is another.
Delete(w) ==
  /\ At(w, "delete")
  /\ cache' = [cache EXCEPT ![call[w].dev] = NoCode]
  /\ tries' = [tries EXCEPT ![w][call[w].dev][call[w].id] = @ + 1]
  /\ IF call[w].late \/ ~call[w].right THEN End(w)
     ELSE call' = [call EXCEPT ![w].step = "create"]
  /\ UNCHANGED <<now, codes, users, keys, calm>>

\* Slip for CreateUser: that the user exists is taken for success.
CreateUserAnyway(w) ==
  /\ At(w, "create")
  /\ users' = users \cup {call[w].dev}
  /\ call' = [call EXCEPT ![w].step = "key"]
  /\ UNCHANGED <<now, codes, cache, keys, tries, calm>>

\* headscale user create fails for a user that exists, and may fail, with the
\* user created or not: 10001.
CreateUser(w) ==
  /\ At(w, "create")
  /\ \/ /\ call[w].dev \notin users
        /\ users' = users \cup {call[w].dev}
        /\ call' = [call EXCEPT ![w].step = "key"]
     \/ End(w) /\ users' \in {users, users \cup {call[w].dev}}
  /\ UNCHANGED <<now, codes, cache, keys, tries, calm>>

\* headscale preauthkeys create, and the answer.
CreateKey(w) ==
  /\ At(w, "key")
  /\ End(w)
  /\ \/ keys' = [keys EXCEPT ![call[w].dev] = @ + 1]
     \/ UNCHANGED keys
  /\ UNCHANGED <<now, codes, cache, users, tries, calm>>

\* A worker dies; the dictionary survives in the other processes.
Crash(w) ==
  /\ ~At(w, "idle") /\ End(w)
  /\ UNCHANGED <<now, codes, cache, users, keys, tries, calm>>

Tick ==
  /\ now < LastTime /\ now' = now + 1
  /\ UNCHANGED <<codes, cache, users, keys, call, tries, calm>>

Next ==
  \/ Tick
  \/ \E w \in Worker :
       \/ \E d \in Device :
            \/ GetVerificationCode(w, d)
            \/ \E right \in BOOLEAN : DeviceActive(w, d, right)
       \/ Delete(w) \/ CreateUser(w) \/ CreateKey(w) \/ Crash(w)

Spec == Init /\ [][Next]_vars

-----------------------------------------------------------------------------
(* Properties.                                                             *)

\* However requests overlap between get and delete, and whoever dies there, a
\* worker compares a code at most once: who guesses gets one guess per code
\* from each worker process.
OneGuessPerWorker ==
  \A w \in Worker, d \in Device, i \in 1..MaxCode : tries[w][d][i] <= 1

\* Two activations that both took out the right code, or two with one code
\* each, never both get an authkey for the device.
OneKeyPerDevice == \A d \in Device : keys[d] <= 1

\* A code is not lost: if no activation of the device was between get and
\* delete when it was requested, the latest code is there until an activation
\* has taken it out.  (Without the condition a late delete takes it away.)
LatestCodeIsKept ==
  \A d \in Device :
    codes[d] > 0 /\ calm[d] /\ (\A w \in Worker : tries[w][d][codes[d]] = 0)
      => cache[d].id = codes[d]
=============================================================================
