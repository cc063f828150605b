---------------------------- MODULE AccountsProofs ----------------------------
(***************************************************************************)
(* Proofs about Accounts, for any number of users, passwords and workers   *)
(* and any combination of operations and faults.                           *)
(*                                                                         *)
(* Control says where in its handler a worker can be, and with which       *)
(* locals; it makes type correctness inductive.  Ownership is the argument *)
(* that useradd works as a lock, Healing follows one administrator while   *)
(* he rewrites the services, and Faultless says where the services stand   *)
(* meanwhile when nothing fails.                                           *)
(***************************************************************************)
EXTENDS Accounts, TLAPS

\* The labels at which the local variable list has been filled in.
Configuring == {"tmp", "rmdb", "load", "rmtmp", "conf", "smbmap"}

\* What a worker's position in a handler says of its local variables.
Control ==
  \A w \in Worker :
    /\ pc[w] # "idle" => user[w] \in User
    /\ op[w] = "enroll" => pass[w] \in Password
    /\ op[w] \in {"accept", "remove"} => w \in AdminWorker
    /\ op[w] = "remove" => "remove" \in Op
    /\ pc[w] \in {"unprobe", "insert"} => op[w] = "enroll"
    /\ pc[w] \in {"useradd", "chpasswd", "undo"} => op[w] \in {"enroll", "accept"}
    /\ pc[w] \in {"pool", "list", "pdbadd", "update"} => op[w] = "accept"
    /\ pc[w] \in Configuring => op[w] \in {"accept", "remove"}
    /\ pc[w] \in {"pdbdel", "delete", "userdel"} => op[w] = "remove"
    /\ pc[w] \in Configuring \cup {"pdbadd"} => list[w] \in LoginTable

TInv == TypeOK /\ Control

\* A worker that is removing a user and has not deleted the account yet.
Removing(w) ==
  op[w] = "remove" /\ pc[w] \in Configuring \cup {"pdbdel", "delete", "userdel"}

\* Owned accounts exist and belong to users who are not accepted; accepted
\* users and users being removed have accounts that nobody owns.
Ownership ==
  /\ OneOwner
  /\ AcceptedHasAccount
  /\ \A w \in Worker : Owns(w) =>
       user[w] \in account /\ status[user[w]] # "accepted"
  /\ \A w \in Worker : Removing(w) =>
       /\ user[w] \in account
       /\ \A v \in Worker : Owns(v) => user[v] # user[w]
  /\ \A w \in Worker : pc[w] = "userdel" => status[user[w]] # "accepted"

\* If users are removed at all, one careful administrator does it.
SafeAdmin ==
  "remove" \in Op => CarefulAdmin /\ \A v, w \in AdminWorker : v = w

-----------------------------------------------------------------------------
LEMMA LoginTables ==
  ASSUME TypeOK
  PROVE  /\ NoLogins \in LoginTable
         /\ AcceptedLogins \in LoginTable
         /\ \A l \in LoginTable : Logins(l) \subseteq User
         /\ \A u \in User : [AcceptedLogins EXCEPT ![u] = NoPassword] \in LoginTable
  BY DEF TypeOK, NoLogins, AcceptedLogins, LoginTable, MaybePassword, Logins

LEMMA InitTInv == Init => TInv
  BY ConstantsAssumption
     DEF Init, TInv, TypeOK, Control, NoLogins, LoginTable, MaybePassword,
         Configuring, Label

LEMMA StartTInv ==
  ASSUME TInv, NEW w \in Worker, Start(w), UNCHANGED fault
  PROVE  TInv'
  <1> PICK u \in User :
        \/ \E p \in Password : EnrollSelect(w, u, p)
        \/ /\ w \in AdminWorker
           /\ AcceptSelect(w, u) \/ RejectDelete(w, u) \/ RemoveSelect(w, u)
    BY DEF Start
  <1> USE LoginTables, ConstantsAssumption
      DEF TInv, TypeOK, Control, Configuring, Receive, Answer, Continue, tables,
          Label, Code, MaybePassword
  <1>1. CASE \E p \in Password : EnrollSelect(w, u, p)
    BY <1>1 DEF EnrollSelect
  <1>2. CASE w \in AdminWorker /\ AcceptSelect(w, u)
    BY <1>2 DEF AcceptSelect, LoginTable
  <1>3. CASE RejectDelete(w, u)
    <2>1. \/ UNCHANGED <<status, password>>
          \/ /\ status' = [status EXCEPT ![u] = "none"]
             /\ password' = [password EXCEPT ![u] = NoPassword]
      BY <1>3 DEF RejectDelete, db
    <2>2. TypeOK'
      <3>1. password' \in LoginTable
        BY <2>1 DEF LoginTable
      <3>2. status' \in [User -> {"none", "pending", "accepted"}]
        BY <2>1
      <3> QED BY <1>3, <3>1, <3>2 DEF RejectDelete, ftp, samba
    <2>3. Control'
      BY <1>3 DEF RejectDelete, ftp, samba
    <2> QED BY <2>2, <2>3
  <1>4. CASE w \in AdminWorker /\ RemoveSelect(w, u)
    <2>1. CASE Answer(w, "SYSTEM") /\ UNCHANGED list
      BY <1>4, <2>1 DEF RemoveSelect
    <2>2. CASE /\ Continue(w, "tmp")
               /\ list' = [list EXCEPT ![w] = [AcceptedLogins EXCEPT ![u] = NoPassword]]
      <3>1. [AcceptedLogins EXCEPT ![u] = NoPassword] \in LoginTable
        BY DEF TInv
      <3>2. list' \in [Worker -> LoginTable \cup {NoList}]
        BY <2>2, <3>1 DEF TInv, TypeOK
      <3>3. TypeOK'
        BY <1>4, <2>2, <3>2 DEF RemoveSelect
      <3>4. Control'
        BY <1>4, <2>2, <3>1 DEF RemoveSelect
      <3> QED BY <3>3, <3>4
    <2> QED BY <1>4, <2>1, <2>2 DEF RemoveSelect
  <1> QED BY <1>1, <1>2, <1>3, <1>4

LEMMA ForgetTInv ==
  ASSUME TInv, NEW w \in Worker, Forget(w), UNCHANGED fault
  PROVE  TInv'
  BY ConstantsAssumption
     DEF Forget, TInv, TypeOK, Control, Configuring, tables, Label, MaybePassword

LEMMA StepTInv ==
  ASSUME TInv, NEW w \in Worker, Step(w), UNCHANGED fault
  PROVE  TInv'
  <1> USE LoginTables, ConstantsAssumption
      DEF TInv, TypeOK, Control, Configuring, Answer, Continue, tables,
          db, ftp, samba, request, Label, Code
  <1>1. CASE AcceptPool(w)     BY <1>1 DEF AcceptPool
  <1>2. CASE Useradd(w)        BY <1>2 DEF Useradd
  <1>3. CASE Chpasswd(w)       BY <1>3 DEF Chpasswd
  <1>4. CASE Undo(w)           BY <1>4 DEF Undo
  <1>5. CASE EnrollUnprobe(w)  BY <1>5 DEF EnrollUnprobe
  <1>6. CASE EnrollInsert(w)
    <2>1. password' \in LoginTable /\ status' \in [User -> {"none", "pending", "accepted"}]
      BY <1>6 DEF EnrollInsert, LoginTable
    <2> QED BY <1>6, <2>1 DEF EnrollInsert
  <1>7. CASE AcceptList(w)
    <2>1. [u \in User |-> IF u = user[w] /\ status[u] # "accepted"
                          THEN pass[w] ELSE AcceptedLogins[u]] \in LoginTable
      BY DEF LoginTable
    <2> QED BY <1>7, <2>1 DEF AcceptList
  <1>8. CASE VsftpTmp(w)       BY <1>8 DEF VsftpTmp
  <1>9. CASE VsftpRmDb(w)      BY <1>9 DEF VsftpRmDb
  <1>10. CASE VsftpLoad(w)
    <2>1. tmp # NoFile => [u \in User |-> IF tmp[u] # NoPassword THEN tmp[u]
                                          ELSE vsftp[u]] \in LoginTable
      BY DEF LoginTable
    <2> QED BY <1>10, <2>1 DEF VsftpLoad
  <1>11. CASE VsftpRmTmp(w)    BY <1>11 DEF VsftpRmTmp
  <1>12. CASE VsftpConf(w)     BY <1>12 DEF VsftpConf
  <1>13. CASE AcceptPdbAdd(w)  BY <1>13 DEF AcceptPdbAdd
  <1>14. CASE SambaMap(w)      BY <1>14 DEF SambaMap
  <1>15. CASE AcceptUpdate(w)  BY <1>15 DEF AcceptUpdate
  <1>16. CASE RemovePdbDel(w)  BY <1>16 DEF RemovePdbDel
  <1>17. CASE RemoveDelete(w)
    <2>1. password' \in LoginTable /\ status' \in [User -> {"none", "pending", "accepted"}]
      BY <1>17 DEF RemoveDelete, LoginTable, MaybePassword
    <2> QED BY <1>17, <2>1 DEF RemoveDelete
  <1>18. CASE RemoveUserdel(w) BY <1>18 DEF RemoveUserdel
  <1>19. CASE Finish(w)        BY <1>19, ForgetTInv DEF Finish
  <1> QED
    BY Step(w), UNCHANGED fault, <1>1, <1>2, <1>3, <1>4, <1>5, <1>6, <1>7, <1>8, <1>9, <1>10,
       <1>11, <1>12, <1>13, <1>14, <1>15, <1>16, <1>17, <1>18, <1>19 DEF Step

LEMMA Typed == Spec => []TInv
  <1>1. TInv /\ [Next]_vars => TInv'
    <2> SUFFICES ASSUME TInv, [Next]_vars PROVE TInv'
      OBVIOUS
    <2>1. CASE UNCHANGED vars
      BY <2>1 DEF vars, TInv, TypeOK, Control
    <2>2. ASSUME NEW w \in Worker, Start(w) \/ Step(w) \/ Crash(w), UNCHANGED fault
          PROVE  TInv'
      BY <2>2, StartTInv, StepTInv, ForgetTInv DEF Crash
    <2> QED BY <2>1, <2>2 DEF Next
  <1> QED BY InitTInv, <1>1, PTL DEF Spec

\* Every variable keeps its type: in particular no handler writes the vsftpd
\* file or the samba map from a user list it has not built.
THEOREM TypeCorrect == Spec => []TypeOK
  BY Typed, PTL DEF TInv

-----------------------------------------------------------------------------
LEMMA InitOwnership == Init => Ownership
  BY DEF Init, Ownership, OneOwner, AcceptedHasAccount, Accepted, Owns, Removing,
         Configuring

LEMMA StartOwnership ==
  ASSUME SafeAdmin, TInv, Ownership, NEW w \in Worker, Start(w)
  PROVE  Ownership'
  <1> PICK u \in User :
        \/ \E p \in Password : EnrollSelect(w, u, p)
        \/ /\ w \in AdminWorker
           /\ AcceptSelect(w, u) \/ RejectDelete(w, u) \/ RemoveSelect(w, u)
    BY DEF Start
  <1> USE DEF Ownership, OneOwner, AcceptedHasAccount, Accepted, Owns, Removing,
          Configuring, TInv, TypeOK, Control, Receive, Answer, Continue, tables
  <1>1. CASE \E p \in Password : EnrollSelect(w, u, p)
    BY <1>1 DEF EnrollSelect
  <1>2. CASE AcceptSelect(w, u)
    BY <1>2 DEF AcceptSelect
  <1>3. CASE RejectDelete(w, u)
    BY <1>3 DEF RejectDelete, db
  <1>4. CASE RemoveSelect(w, u)
    BY <1>4 DEF RemoveSelect, SafeAdmin
  <1> QED BY <1>1, <1>2, <1>3, <1>4

LEMMA ForgetOwnership ==
  ASSUME TInv, Ownership, NEW w \in Worker, Forget(w)
  PROVE  Ownership'
  BY DEF Forget, Ownership, OneOwner, AcceptedHasAccount, Accepted, Owns, Removing,
         Configuring, TInv, TypeOK, Control, tables

\* The steps that touch neither an account nor the status of a user, and move
\* neither into nor out of ownership.
LEMMA QuietStep ==
  ASSUME TInv, Ownership, NEW w \in Worker,
         UNCHANGED <<status, account, op, user>>,
         \A v \in Worker : Owns(v)' => Owns(v),
         \A v \in Worker : Removing(v)' => Removing(v),
         \A v \in Worker : pc'[v] = "userdel" => pc[v] = "userdel"
  PROVE  Ownership'
  BY DEF Ownership, OneOwner, AcceptedHasAccount, Accepted

LEMMA StepOwnership ==
  ASSUME SafeAdmin, TInv, Ownership, NEW w \in Worker, Step(w)
  PROVE  Ownership'
  <1> USE DEF TInv, TypeOK, Control, Answer, Continue, tables, db, ftp, samba,
          request
  <1>1. CASE AcceptPool(w)
    BY <1>1, QuietStep DEF AcceptPool, Owns, Removing, Configuring
  <1>2. CASE Useradd(w)
    BY <1>2 DEF Useradd, Ownership, OneOwner, AcceptedHasAccount, Accepted, Owns,
                Removing, Configuring
  <1>3. CASE Chpasswd(w)
    BY <1>3, QuietStep DEF Chpasswd, Owns, Removing, Configuring
  <1>4. CASE Undo(w)
    BY <1>4 DEF Undo, Ownership, OneOwner, AcceptedHasAccount, Accepted, Owns,
                Removing, Configuring
  <1>5. CASE EnrollUnprobe(w)
    BY <1>5 DEF EnrollUnprobe, Ownership, OneOwner, AcceptedHasAccount, Accepted,
                Owns, Removing, Configuring
  <1>6. CASE EnrollInsert(w)
    BY <1>6 DEF EnrollInsert, Ownership, OneOwner, AcceptedHasAccount, Accepted,
                Owns, Removing, Configuring
  <1>7. CASE AcceptList(w)
    BY <1>7, QuietStep DEF AcceptList, Owns, Removing, Configuring
  <1>8. CASE VsftpTmp(w)
    BY <1>8, QuietStep DEF VsftpTmp, Owns, Removing, Configuring
  <1>9. CASE VsftpRmDb(w)
    BY <1>9, QuietStep DEF VsftpRmDb, Owns, Removing, Configuring
  <1>10. CASE VsftpLoad(w)
    BY <1>10, QuietStep DEF VsftpLoad, Owns, Removing, Configuring
  <1>11. CASE VsftpRmTmp(w)
    BY <1>11, QuietStep DEF VsftpRmTmp, Owns, Removing, Configuring
  <1>12. CASE VsftpConf(w)
    BY <1>12, QuietStep DEF VsftpConf, Owns, Removing, Configuring
  <1>13. CASE AcceptPdbAdd(w)
    BY <1>13, QuietStep DEF AcceptPdbAdd, Owns, Removing, Configuring
  <1>14. CASE SambaMap(w)
    BY <1>14, QuietStep DEF SambaMap, Owns, Removing, Configuring
  <1>15. CASE AcceptUpdate(w)
    BY <1>15 DEF AcceptUpdate, Ownership, OneOwner, AcceptedHasAccount, Accepted,
                 Owns, Removing, Configuring
  <1>16. CASE RemovePdbDel(w)
    BY <1>16, QuietStep DEF RemovePdbDel, Owns, Removing, Configuring
  <1>17. CASE RemoveDelete(w)
    BY <1>17 DEF RemoveDelete, Ownership, OneOwner, AcceptedHasAccount, Accepted,
                 Owns, Removing, Configuring
  <1>18. CASE RemoveUserdel(w)
    <2>1. \A v \in Worker : Removing(v) => v = w
      BY <1>18 DEF RemoveUserdel, Removing, SafeAdmin
    <2> QED
      BY <1>18, <2>1 DEF RemoveUserdel, Ownership, OneOwner, AcceptedHasAccount,
                         Accepted, Owns, Removing, Configuring
  <1>19. CASE Finish(w)
    BY <1>19, ForgetOwnership DEF Finish
  <1> QED
    BY Step(w), <1>1, <1>2, <1>3, <1>4, <1>5, <1>6, <1>7, <1>8, <1>9, <1>10,
       <1>11, <1>12, <1>13, <1>14, <1>15, <1>16, <1>17, <1>18, <1>19 DEF Step

LEMMA Owned ==
  ASSUME SafeAdmin
  PROVE  Spec => []Ownership
  <1>1. TInv /\ Ownership /\ [Next]_vars => Ownership'
    <2> SUFFICES ASSUME TInv, Ownership, [Next]_vars PROVE Ownership'
      OBVIOUS
    <2>1. CASE UNCHANGED vars
      BY <2>1 DEF vars, Ownership, OneOwner, AcceptedHasAccount, Accepted, Owns,
                  Removing
    <2>2. ASSUME NEW w \in Worker, Start(w) \/ Step(w) \/ Crash(w)
          PROVE  Ownership'
      BY <2>2, StartOwnership, StepOwnership, ForgetOwnership DEF Crash
    <2> QED BY <2>1, <2>2 DEF Next
  <1> QED BY InitOwnership, Typed, <1>1, PTL DEF Spec

\* As long as users are removed by one careful administrator only, no two
\* handlers ever have the same account in hand, whatever the number of workers
\* and whatever fails: no userdel -r removes what another is setting up.
THEOREM UseraddIsALock ==
  ASSUME SafeAdmin
  PROVE  Spec => []OneOwner
  <1>1. Ownership => OneOwner
    BY DEF Ownership
  <1> QED BY Owned, <1>1, PTL

\* Under the same condition no accepted user is ever without the system account
\* that serves his files.
THEOREM AcceptedUsersHaveAccounts ==
  ASSUME SafeAdmin
  PROVE  Spec => []AcceptedHasAccount
  <1>1. Ownership => AcceptedHasAccount
    BY DEF Ownership
  <1> QED BY Owned, <1>1, PTL

-----------------------------------------------------------------------------
(* The services.  One careful administrator rewrites them from the list    *)
(* that he has read; what is said here of a worker is meant for his.       *)

SoleAdmin == CarefulAdmin /\ \A v, w \in AdminWorker : v = w

\* The labels between the list and the statement that records the result.
Listed == Configuring \cup {"pdbadd", "update", "pdbdel", "delete"}

\* The handler of the administrator has still to change the user's row.
Ahead(w) == \/ op[w] = "accept" /\ pc[w] \notin {"idle", "reply"}
            \/ op[w] = "remove" /\ pc[w] \in Listed

RowStays(w) ==
  Ahead(w) => IF op[w] = "accept"
              THEN status[user[w]] = "pending" /\ password[user[w]] = pass[w]
              ELSE status[user[w]] = "accepted"

\* The logins that are to be, once the handler has succeeded.
Target(w) ==
  [u \in User |-> IF u # user[w] THEN AcceptedLogins[u]
                  ELSE IF op[w] = "accept" THEN pass[w] ELSE NoPassword]

ListStays(w) ==
  /\ list[w] # NoList => /\ op[w] \in {"accept", "remove"}
                         /\ pc[w] \in Listed \cup {"userdel", "reply"}
  /\ pc[w] \in Listed => list[w] = Target(w)

\* What the handler has written by now, and nobody else has changed.
Written(w) ==
  /\ pc[w] \in {"rmdb", "load", "rmtmp"} => tmp = list[w]
  /\ pc[w] = "load" => vsftp = NoLogins
  /\ pc[w] \in {"rmtmp", "conf", "pdbadd", "smbmap", "update", "pdbdel", "delete"} =>
       vsftp = list[w]
  /\ pc[w] \in {"pdbadd", "smbmap", "update"} => Logins(list[w]) \subseteq conf
  /\ op[w] = "accept" /\ pc[w] \in {"smbmap", "update"} => user[w] \in pdb
  /\ pc[w] \in {"update", "pdbdel", "delete"} => smbmap = Logins(list[w])
  /\ pc[w] \in {"delete", "userdel"} => user[w] \notin pdb
  /\ pc[w] = "userdel" => Mirrored

\* A success that rewrote the services, its account apart.
Served(w) ==
  /\ reply[w] # "none" => pc[w] = "reply"
  /\ reply[w] = "SUCCESS" /\ list[w] # NoList =>
       /\ Mirrored
       /\ op[w] = "accept" => user[w] \in Accepted \cap pdb \cap conf
       /\ op[w] = "remove" => user[w] \notin pdb

RowsHavePasswords == \A u \in User : status[u] # "none" => password[u] \in Password

Progress(w) == RowStays(w) /\ ListStays(w) /\ Written(w) /\ Served(w)
Healing == RowsHavePasswords /\ \A w \in AdminWorker : Progress(w)

-----------------------------------------------------------------------------
\* Rows that are not accepted are of no concern to the services.
LEMMA SameAccepted ==
  ASSUME TypeOK, TypeOK',
         \A u \in User : (status'[u] = "accepted") <=> (status[u] = "accepted"),
         \A u \in User : status[u] = "accepted" => password'[u] = password[u]
  PROVE  Accepted' = Accepted /\ AcceptedLogins' = AcceptedLogins
  BY DEF Accepted, AcceptedLogins

\* Steps that leave the services and the accepted rows alone, and do not go
\* on with the rewriting: of other workers, before the list, and failures.
LEMMA Elsewhere ==
  ASSUME TInv, TInv', Healing, NEW w \in Worker,
         Accepted' = Accepted, AcceptedLogins' = AcceptedLogins,
         UNCHANGED <<ftp, samba>>, RowsHavePasswords',
         \A v \in Worker \ {w} :
           /\ pc'[v] = pc[v] /\ op'[v] = op[v] /\ user'[v] = user[v]
           /\ pass'[v] = pass[v] /\ list'[v] = list[v] /\ reply'[v] = reply[v],
         \A v \in AdminWorker : RowStays(v)',
         w \in AdminWorker =>
           /\ pc'[w] \notin Listed \cup {"userdel"}
           /\ reply'[w] # "none" => pc'[w] = "reply"
           /\ list'[w] # NoList => /\ op'[w] \in {"accept", "remove"}
                                   /\ pc'[w] = "reply" /\ reply'[w] # "SUCCESS"
  PROVE  Healing'
  <1> SUFFICES ASSUME NEW v \in AdminWorker PROVE Progress(v)'
    BY DEF Healing
  <1>1. v \in Worker
    BY ConstantsAssumption
  <1>2. CASE v = w
    BY <1>2 DEF Progress, ListStays, Written, Served, Listed, Configuring
  <1>3. CASE v # w
    <2>1. Progress(v)
      BY DEF Healing
    <2>2. pc'[v] = pc[v] /\ op'[v] = op[v] /\ user'[v] = user[v]
          /\ pass'[v] = pass[v] /\ list'[v] = list[v] /\ reply'[v] = reply[v]
      BY <1>1, <1>3
    <2>3. Mirrored' = Mirrored
      BY DEF Mirrored, samba, ftp
    <2>4. Target(v)' = Target(v)
      BY <2>2 DEF Target
    <2>5. ListStays(v)'
      BY <2>1, <2>2, <2>4 DEF Progress, ListStays
    <2>6. Written(v)'
      BY <2>1, <2>2, <2>3 DEF Progress, Written, ftp, samba, Logins
    <2>7. Served(v)'
      BY <2>1, <2>2, <2>3 DEF Progress, Served, ftp, samba
    <2> QED BY <2>5, <2>6, <2>7 DEF Progress
  <1> QED BY <1>2, <1>3

-----------------------------------------------------------------------------
LEMMA InitHealing == Init => Healing
  BY ConstantsAssumption
     DEF Init, Healing, RowsHavePasswords, Progress, RowStays, Ahead, ListStays,
         Written, Served, Listed, Configuring

\* Enrollments, rejections and requests that are answered at once.
LEMMA StartHealing ==
  ASSUME SoleAdmin, TInv, TInv', Ownership', Healing, NEW w \in Worker, Start(w)
  PROVE  Healing'
  <1> PICK u \in User :
        \/ \E p \in Password : EnrollSelect(w, u, p)
        \/ /\ w \in AdminWorker
           /\ AcceptSelect(w, u) \/ RejectDelete(w, u) \/ RemoveSelect(w, u)
    BY DEF Start
  <1> USE ConstantsAssumption
  <1>0. /\ \A v \in AdminWorker : Progress(v)
        /\ w \in AdminWorker => \A v \in AdminWorker : v = w
        /\ RowsHavePasswords
    BY DEF Healing, SoleAdmin
  <1>1. CASE \E p \in Password : EnrollSelect(w, u, p)
    <2>1. UNCHANGED tables /\ UNCHANGED list /\ pc[w] = "idle" /\ op' = [op EXCEPT ![w] = "enroll"]
      BY <1>1 DEF EnrollSelect, Receive
    <2>2. /\ \A v \in Worker \ {w} :
               /\ pc'[v] = pc[v] /\ op'[v] = op[v] /\ user'[v] = user[v]
               /\ pass'[v] = pass[v] /\ list'[v] = list[v] /\ reply'[v] = reply[v]
          /\ op'[w] = "enroll" /\ pc'[w] \in {"reply", "useradd"}
      BY <1>1 DEF EnrollSelect, Receive, Answer, Continue, TInv, TypeOK
    <2>3. w \in AdminWorker => /\ list'[w] = NoList
                               /\ reply'[w] # "none" => pc'[w] = "reply"
      BY <1>0, <1>1, <2>1
         DEF Progress, ListStays, Served, Listed, Configuring, EnrollSelect, Receive,
             Answer, Continue, TInv, TypeOK
    <2>4. \A v \in AdminWorker : RowStays(v)'
      BY <1>0, <2>1, <2>2 DEF Progress, RowStays, Ahead, tables
    <2> QED
      BY <1>0, <2>1, <2>2, <2>3, <2>4, Elsewhere
         DEF tables, ftp, samba, Accepted, AcceptedLogins, RowsHavePasswords, Listed,
             Configuring
  <1>2. CASE w \in AdminWorker /\ AcceptSelect(w, u)
    <2>1. UNCHANGED tables /\ UNCHANGED list /\ pc[w] = "idle" /\ op'[w] = "accept"
          /\ user'[w] = u /\ pass'[w] = password[u]
      BY <1>2 DEF AcceptSelect, Receive, TInv, TypeOK
    <2>2. /\ \A v \in Worker \ {w} :
               /\ pc'[v] = pc[v] /\ op'[v] = op[v] /\ user'[v] = user[v]
               /\ pass'[v] = pass[v] /\ list'[v] = list[v] /\ reply'[v] = reply[v]
          /\ pc'[w] = "reply" \/ (pc'[w] = "pool" /\ status[u] = "pending")
      BY <1>2 DEF AcceptSelect, Receive, Answer, Continue, TInv, TypeOK
    <2>3. list'[w] = NoList /\ (reply'[w] # "none" => pc'[w] = "reply")
      BY <1>0, <1>2, <2>1
         DEF Progress, ListStays, Served, Listed, Configuring, AcceptSelect, Receive,
             Answer, Continue, TInv, TypeOK
    <2>4. \A v \in AdminWorker : RowStays(v)'
      BY <1>0, <1>2, <2>1, <2>2 DEF RowStays, Ahead, tables, Listed, Configuring
    <2> QED
      BY <1>0, <2>1, <2>2, <2>3, <2>4, Elsewhere
         DEF tables, ftp, samba, Accepted, AcceptedLogins, RowsHavePasswords, Listed,
             Configuring
  <1>3. CASE w \in AdminWorker /\ RejectDelete(w, u)
    <2>1. UNCHANGED <<ftp, samba>> /\ UNCHANGED list /\ pc[w] = "idle"
          /\ op'[w] = "reject" /\ pc'[w] = "reply"
      BY <1>3 DEF RejectDelete, Receive, Answer, TInv, TypeOK
    <2>2. \A v \in Worker \ {w} :
            /\ pc'[v] = pc[v] /\ op'[v] = op[v] /\ user'[v] = user[v]
            /\ pass'[v] = pass[v] /\ list'[v] = list[v] /\ reply'[v] = reply[v]
      BY <1>3 DEF RejectDelete, Receive, Answer, TInv, TypeOK
    <2>3. list'[w] = NoList
      BY <1>0, <1>3, <2>1 DEF Progress, ListStays, Listed, Configuring
    <2>4. \A x \in User :
            \/ status'[x] = status[x] /\ password'[x] = password[x]
            \/ status[x] = "pending" /\ status'[x] = "none"
      BY <1>3 DEF RejectDelete, TInv, TypeOK, db, LoginTable
    <2>5. Accepted' = Accepted /\ AcceptedLogins' = AcceptedLogins /\ RowsHavePasswords'
      BY <1>0, <2>4, SameAccepted DEF TInv, RowsHavePasswords
    <2>6. \A v \in AdminWorker : RowStays(v)'
      BY <1>0, <1>3, <2>1 DEF RowStays, Ahead, Listed, Configuring
    <2> QED
      BY <1>0, <2>1, <2>2, <2>3, <2>5, <2>6, Elsewhere DEF Listed, Configuring
  <1>4. CASE w \in AdminWorker /\ RemoveSelect(w, u)
    <2>1. UNCHANGED tables /\ pc[w] = "idle" /\ op'[w] = "remove" /\ user'[w] = u
          /\ status[u] = "accepted"
      BY <1>4 DEF RemoveSelect, Receive, TInv, TypeOK, SoleAdmin
    <2>2. CASE Answer(w, "SYSTEM") /\ UNCHANGED list
      <3>1. pc'[w] = "reply" /\ list'[w] = NoList
        BY <1>0, <1>4, <2>1, <2>2 DEF Answer, TInv, TypeOK, Progress, ListStays, Listed,
                                      Configuring
      <3>2. \A v \in Worker \ {w} :
              /\ pc'[v] = pc[v] /\ op'[v] = op[v] /\ user'[v] = user[v]
              /\ pass'[v] = pass[v] /\ list'[v] = list[v] /\ reply'[v] = reply[v]
        BY <1>4, <2>2 DEF RemoveSelect, Receive, Answer, TInv, TypeOK
      <3>3. \A v \in AdminWorker : RowStays(v)'
        BY <1>0, <1>4, <3>1, <2>1 DEF RowStays, Ahead, Listed, Configuring
      <3> QED
        BY <1>0, <2>1, <3>1, <3>2, <3>3, Elsewhere
           DEF tables, ftp, samba, Accepted, AcceptedLogins, RowsHavePasswords, Listed,
               Configuring
    <2>3. CASE /\ Continue(w, "tmp")
               /\ list' = [list EXCEPT ![w] = [AcceptedLogins EXCEPT ![u] = NoPassword]]
      <3>1. pc'[w] = "tmp" /\ reply'[w] = "none"
        BY <1>0, <1>4, <2>1, <2>3 DEF Continue, TInv, TypeOK, Progress, Served
      <3>2. list'[w] = Target(w)'
        BY <2>1, <2>3 DEF Target, TInv, TypeOK, AcceptedLogins, tables
      <3>3. Progress(w)'
        BY <1>4, <2>1, <3>1, <3>2
           DEF Progress, RowStays, Ahead, ListStays, Written, Served, Listed,
               Configuring, tables, RemoveSelect, Receive
      <3> QED BY <1>0, <1>4, <2>1, <3>3 DEF Healing, RowsHavePasswords, tables
    <2> QED BY <1>4, <2>2, <2>3 DEF RemoveSelect
  <1> QED BY <1>1, <1>2, <1>3, <1>4

LEMMA ForgetHealing ==
  ASSUME TInv, TInv', Healing, NEW w \in Worker, Forget(w)
  PROVE  Healing'
  <1>1. /\ pc'[w] = "idle" /\ op'[w] = "none" /\ list'[w] = NoList /\ reply'[w] = "none"
        /\ \A v \in Worker \ {w} :
             /\ pc'[v] = pc[v] /\ op'[v] = op[v] /\ user'[v] = user[v]
             /\ pass'[v] = pass[v] /\ list'[v] = list[v] /\ reply'[v] = reply[v]
    BY DEF Forget, TInv, TypeOK
  <1>2. \A v \in AdminWorker : RowStays(v)'
    BY <1>1, ConstantsAssumption
       DEF RowStays, Ahead, Listed, Configuring, Forget, tables, Healing, Progress
  <1> QED
    BY <1>1, <1>2, Elsewhere
       DEF Forget, tables, ftp, samba, Accepted, AcceptedLogins, Healing,
           RowsHavePasswords, Listed, Configuring

\* The steps of the handlers that build and take down an account.
LEMMA AccountHealing ==
  ASSUME TInv, TInv', Ownership, Healing, NEW w \in Worker,
         \/ AcceptPool(w) \/ Useradd(w) \/ Chpasswd(w) \/ Undo(w)
         \/ EnrollUnprobe(w) \/ RemoveUserdel(w)
  PROVE  Healing'
  <1> USE ConstantsAssumption
  <1>1. /\ UNCHANGED <<db, ftp, samba, request, list>>
        /\ \A v \in Worker \ {w} : pc'[v] = pc[v] /\ reply'[v] = reply[v]
    BY DEF AcceptPool, Useradd, Chpasswd, Undo, EnrollUnprobe, RemoveUserdel, tables,
           db, ftp, samba, Answer, Continue, TInv, TypeOK
  <1>2. Accepted' = Accepted /\ AcceptedLogins' = AcceptedLogins /\ RowsHavePasswords'
    BY <1>1 DEF db, Accepted, AcceptedLogins, RowsHavePasswords, Healing
  <1>3. CASE ~ RemoveUserdel(w)
    <2>1. w \in AdminWorker =>
            /\ list'[w] = NoList /\ pc'[w] \notin Listed \cup {"userdel"}
            /\ reply'[w] # "none" => pc'[w] = "reply"
      BY <1>1, <1>3
         DEF Healing, Progress, ListStays, Served, AcceptPool, Useradd, Chpasswd, Undo,
             EnrollUnprobe, Answer, Continue, TInv, TypeOK, Listed, Configuring
    <2>2. \A v \in AdminWorker : Ahead(v)' => Ahead(v)
      BY <1>1, <1>3
         DEF Ahead, AcceptPool, Useradd, Chpasswd, Undo, EnrollUnprobe, request,
             Answer, Continue, TInv, TypeOK, Listed, Configuring
    <2>3. \A v \in AdminWorker : RowStays(v)'
      BY <1>1, <2>2 DEF Healing, Progress, RowStays, request, db
    <2> QED BY <1>1, <1>2, <2>1, <2>3, Elsewhere DEF request
  <1>4. CASE RemoveUserdel(w)
    <2>1. /\ pc[w] = "userdel" /\ op[w] = "remove" /\ w \in AdminWorker
          /\ pc'[w] = "reply" /\ reply'[w] = "SUCCESS"
      BY <1>4 DEF RemoveUserdel, Answer, TInv, TypeOK, Control
    <2> SUFFICES ASSUME NEW v \in AdminWorker PROVE Progress(v)'
      BY <1>2 DEF Healing
    <2>2. Mirrored' = Mirrored
      BY <1>1, <1>2 DEF Mirrored, ftp, samba
    <2>3. Target(v)' = Target(v)
      BY <1>1, <1>2 DEF Target, request
    <2>4. CASE v = w
      BY <1>1, <2>1, <2>2, <2>4
         DEF Healing, Progress, RowStays, Ahead, ListStays, Written, Served, Listed,
             Configuring, request, samba
    <2>5. CASE v # w
      BY <1>1, <1>2, <2>2, <2>3, <2>5
         DEF Healing, Progress, RowStays, Ahead, ListStays, Written, Served, Listed,
             Configuring, request, samba, ftp, db, Logins
    <2> QED BY <2>4, <2>5
  <1> QED BY <1>3, <1>4

\* A new row is pending, and nobody is at work on it.
LEMMA InsertHealing ==
  ASSUME TInv, TInv', Healing, NEW w \in Worker, EnrollInsert(w)
  PROVE  Healing'
  <1> USE ConstantsAssumption
  <1>1. /\ pc[w] = "insert" /\ op[w] = "enroll" /\ user[w] \in User
        /\ pc'[w] = "reply" /\ UNCHANGED <<ftp, samba, request, list>>
        /\ \A v \in Worker \ {w} : pc'[v] = pc[v] /\ reply'[v] = reply[v]
    BY DEF EnrollInsert, Answer, TInv, TypeOK, Control
  <1>2. \/ UNCHANGED db
        \/ /\ status[user[w]] = "none" /\ pass[w] \in Password
           /\ status' = [status EXCEPT ![user[w]] = "pending"]
           /\ password' = [password EXCEPT ![user[w]] = pass[w]]
    BY <1>1 DEF EnrollInsert, TInv, Control
  <1>3. Accepted' = Accepted /\ AcceptedLogins' = AcceptedLogins
    BY <1>1, <1>2, SameAccepted DEF TInv, TypeOK, db, LoginTable
  <1>4. RowsHavePasswords'
    BY <1>1, <1>2 DEF TInv, TypeOK, db, RowsHavePasswords, Healing, LoginTable
  <1>5. \A v \in AdminWorker : RowStays(v)'
    <2> SUFFICES ASSUME NEW v \in AdminWorker, Ahead(v)' PROVE RowStays(v)'
      BY DEF RowStays
    <2>1. v # w /\ Ahead(v)
      BY <1>1 DEF Ahead, request, Listed, Configuring
    <2>2. RowStays(v) /\ user'[v] = user[v] /\ pass'[v] = pass[v] /\ op'[v] = op[v]
      BY <1>1 DEF Healing, Progress, request
    <2>3. user[v] \in User
      BY <2>1 DEF Ahead, TInv, Control, Listed, Configuring
    <2> QED BY <1>1, <1>2, <2>1, <2>2, <2>3 DEF RowStays, TInv, TypeOK, db, LoginTable
  <1>6. w \in AdminWorker => list'[w] = NoList
    BY <1>1 DEF Healing, Progress, ListStays
  <1> QED
    BY <1>1, <1>3, <1>4, <1>5, <1>6, Elsewhere DEF request, Listed, Configuring

\* The rewriting itself, up to the statement that records the result.
LEMMA RewriteHealing ==
  ASSUME SoleAdmin, TInv, TInv', Ownership, Healing, NEW w \in Worker,
         \/ AcceptList(w) \/ VsftpTmp(w) \/ VsftpRmDb(w) \/ VsftpLoad(w)
         \/ VsftpRmTmp(w) \/ VsftpConf(w) \/ AcceptPdbAdd(w) \/ SambaMap(w)
         \/ RemovePdbDel(w)
  PROVE  Healing'
  <1> USE ConstantsAssumption
  <1>1. /\ w \in AdminWorker /\ \A v \in AdminWorker : v = w
        /\ op[w] \in {"accept", "remove"} /\ user[w] \in User
        /\ pc[w] \in Listed \cup {"list"}
    BY DEF AcceptList, VsftpTmp, VsftpRmDb, VsftpLoad, VsftpRmTmp, VsftpConf,
           AcceptPdbAdd, SambaMap, RemovePdbDel, TInv, Control, SoleAdmin, Listed,
           Configuring
  <1>2. UNCHANGED <<db, account, request>>
    BY DEF AcceptList, VsftpTmp, VsftpRmDb, VsftpLoad, VsftpRmTmp, VsftpConf,
           AcceptPdbAdd, SambaMap, RemovePdbDel, tables, db
  <1>3. RowsHavePasswords' /\ Target(w)' = Target(w)
    BY <1>2 DEF db, request, Healing, RowsHavePasswords, Target, AcceptedLogins
  <1>4. Progress(w) /\ reply[w] = "none"
    BY <1>1 DEF Healing, Progress, Served, Listed, Configuring
  <1> SUFFICES Progress(w)'
    BY <1>1, <1>3 DEF Healing
  <1>5. RowStays(w)'
    <2>1. Ahead(w)
      BY <1>1 DEF Ahead, Listed, Configuring, TInv, Control
    <2> QED BY <1>2, <1>4, <2>1 DEF Progress, RowStays, db, request
  <1>6. ASSUME Answer(w, "SYSTEM"), UNCHANGED list, list[w] \in LoginTable \cup {NoList},
               op[w] \in {"accept", "remove"}
        PROVE  Progress(w)'
    BY <1>2, <1>5, <1>6
       DEF Progress, ListStays, Written, Served, Answer, TInv, TypeOK, Listed,
           Configuring, request
  <1>7. ASSUME NEW label \in Label \ {"reply"}, Continue(w, label)
        PROVE  Served(w)' /\ pc'[w] = label
    BY <1>4, <1>7 DEF Served, Continue, TInv, TypeOK
  <1> USE <1>1, <1>2, <1>3, <1>4, <1>5
      DEF Progress, ListStays, Written, request, TInv, TypeOK, Listed, Configuring,
          Label, samba, ftp
  <1>8. CASE AcceptList(w)
    <2>1. CASE /\ Continue(w, "tmp")
               /\ list' = [list EXCEPT ![w] =
                    [u \in User |-> IF u = user[w] /\ status[u] # "accepted"
                                    THEN pass[w] ELSE AcceptedLogins[u]]]
      <3>1. list'[w] = Target(w)
        BY <1>8, <2>1 DEF AcceptList, Target, RowStays, Ahead, Control
      <3> QED BY <2>1, <3>1, <1>7
    <2> QED BY <1>6, <1>8, <2>1 DEF AcceptList, Control
  <1>9. CASE VsftpTmp(w)
    BY <1>6, <1>7, <1>9 DEF VsftpTmp, Control
  <1>10. CASE VsftpRmDb(w)
    BY <1>7, <1>10 DEF VsftpRmDb
  <1>11. CASE VsftpLoad(w)
    <2>1. list[w] \in LoginTable /\ tmp = list[w] /\ vsftp = NoLogins
      BY <1>11 DEF VsftpLoad, Control
    <2>2. vsftp' = list[w]
      BY <1>11, <2>1, MarkersAssumption DEF VsftpLoad, NoLogins, LoginTable
    <2> QED BY <1>7, <1>11, <2>2 DEF VsftpLoad
  <1>12. CASE VsftpRmTmp(w)
    BY <1>7, <1>12 DEF VsftpRmTmp
  <1>13. CASE VsftpConf(w)
    BY <1>7, <1>13 DEF VsftpConf, Logins
  <1>14. CASE AcceptPdbAdd(w)
    <2>1. user[w] \in account
      BY <1>14 DEF AcceptPdbAdd, Ownership, Owns, Control
    <2> QED BY <1>7, <1>14, <2>1 DEF AcceptPdbAdd, Logins
  <1>15. CASE SambaMap(w)
    BY <1>6, <1>7, <1>15 DEF SambaMap, Logins, Control
  <1>16. CASE RemovePdbDel(w)
    BY <1>7, <1>16 DEF RemovePdbDel, Logins, Control
  <1> QED
    BY <1>8, <1>9, <1>10, <1>11, <1>12, <1>13, <1>14, <1>15, <1>16

\* The row of the user is changed: what has been written becomes the truth.
LEMMA RecordHealing ==
  ASSUME SoleAdmin, TInv, TInv', Healing, NEW w \in Worker,
         AcceptUpdate(w) \/ RemoveDelete(w)
  PROVE  Healing'
  <1> USE ConstantsAssumption
  <1>1. /\ w \in AdminWorker /\ \A v \in AdminWorker : v = w
        /\ user[w] \in User /\ list[w] = Target(w) /\ reply[w] = "none"
        /\ vsftp = list[w] /\ smbmap = Logins(list[w])
        /\ RowStays(w) /\ Ahead(w)
    BY DEF AcceptUpdate, RemoveDelete, TInv, Control, SoleAdmin, Healing, Progress,
           ListStays, Written, Served, Ahead, Listed, Configuring
  <1>2. /\ UNCHANGED <<ftp, samba, request, list>>
        /\ \A u \in User \ {user[w]} : status'[u] = status[u] /\ password'[u] = password[u]
        /\ \/ UNCHANGED db /\ Answer(w, "SYSTEM")
           \/ op[w] = "accept" /\ status'[user[w]] = "accepted" /\ password' = password
           \/ op[w] = "remove" /\ status'[user[w]] = "none"
    BY <1>1
       DEF AcceptUpdate, RemoveDelete, RowStays, Ahead, TInv, Control, TypeOK, db,
           LoginTable, Listed, Configuring
  <1>3. RowsHavePasswords'
    BY <1>1, <1>2 DEF Healing, RowsHavePasswords, RowStays, db
  <1> SUFFICES Progress(w)'
    BY <1>1, <1>3 DEF Healing
  <1>4. CASE Answer(w, "SYSTEM")
    BY <1>1, <1>2, <1>4
       DEF Healing, Progress, RowStays, Ahead, ListStays, Written, Served, Answer,
           TInv, TypeOK, Control, Listed, Configuring, request
  <1>5. CASE ~ Answer(w, "SYSTEM")
    <2>1. AcceptedLogins' = Target(w)
      BY <1>1, <1>2, <1>5 DEF AcceptedLogins, Target, RowStays
    <2>2. Mirrored'
      <3>1. Accepted' = Logins(AcceptedLogins')
        BY <1>3 DEF RowsHavePasswords, Accepted, Logins, AcceptedLogins
      <3> QED BY <1>1, <1>2, <2>1, <3>1 DEF Mirrored, ftp, samba
    <2>3. CASE AcceptUpdate(w)
      <3>1. /\ op[w] = "accept" /\ user[w] \in pdb /\ Logins(list[w]) \subseteq conf
            /\ pc'[w] = "reply"
        BY <1>5, <2>3
           DEF AcceptUpdate, Answer, TInv, TypeOK, Control, Healing, Progress, Written
      <3>2. user[w] \in Accepted'
        BY <1>1, <1>2, <1>5, <3>1 DEF Accepted, request
      <3>3. user[w] \in Logins(list[w])
        BY <1>1, <3>1 DEF Logins, Target, RowStays, Healing, RowsHavePasswords
      <3> QED
        BY <1>1, <1>2, <2>2, <3>1, <3>2, <3>3
           DEF Progress, RowStays, Ahead, ListStays, Written, Served, request, ftp,
               samba, TInv, Control, Listed, Configuring
    <2>4. CASE RemoveDelete(w)
      <3>1. op[w] = "remove" /\ user[w] \notin pdb /\ pc'[w] = "userdel" /\ reply' = reply
        BY <1>5, <2>4
           DEF RemoveDelete, Continue, TInv, TypeOK, Control, Healing, Progress, Written
      <3> QED
        BY <1>1, <1>2, <2>2, <3>1
           DEF Progress, RowStays, Ahead, ListStays, Written, Served, request, ftp,
               samba, Listed, Configuring
    <2> QED BY <2>3, <2>4
  <1> QED BY <1>4, <1>5

LEMMA Healed ==
  ASSUME SoleAdmin
  PROVE  Spec => []Healing
  <1>1. SafeAdmin
    BY DEF SoleAdmin, SafeAdmin
  <1>2. TInv /\ TInv' /\ Ownership /\ Ownership' /\ Healing /\ [Next]_vars => Healing'
    <2> SUFFICES ASSUME TInv, TInv', Ownership, Ownership', Healing, [Next]_vars
                 PROVE  Healing'
      OBVIOUS
    <2>1. CASE UNCHANGED vars
      BY <2>1
         DEF vars, Healing, RowsHavePasswords, Progress, RowStays, Ahead, ListStays,
             Target, Written, Served, Mirrored, Accepted, AcceptedLogins, Logins
    <2>2. ASSUME NEW w \in Worker, Start(w) \/ Step(w) \/ Crash(w)
          PROVE  Healing'
      <3>1. CASE Start(w)
        BY <3>1, StartHealing
      <3>2. CASE Crash(w) \/ Finish(w)
        BY <3>2, ForgetHealing DEF Crash, Finish
      <3>3. CASE Step(w) /\ ~ Finish(w)
        BY <3>3, AccountHealing, InsertHealing, RewriteHealing, RecordHealing DEF Step
      <3> QED BY <2>2, <3>1, <3>2, <3>3
    <2> QED BY <2>1, <2>2 DEF Next
  <1> QED BY <1>1, <1>2, Typed, Owned, InitHealing, PTL DEF Spec

\* With one careful administrator, an accept or a remove that rewrote the
\* services and reports success leaves vsftpd and samba in agreement with
\* user_list, whatever enrollments ran meanwhile, and whatever an earlier
\* request that failed or crashed half way had left behind.
THEOREM SuccessMeansHealed ==
  ASSUME SoleAdmin
  PROVE  Spec => []SuccessHeals
  <1>1. SafeAdmin
    BY DEF SoleAdmin, SafeAdmin
  <1>2. Ownership /\ Healing => SuccessHeals
    BY DEF Ownership, AcceptedHasAccount, Healing, Progress, Served, SuccessHeals
  <1> QED BY <1>1, <1>2, Owned, Healed, PTL

-----------------------------------------------------------------------------
(* Without faults the services differ from user_list only while the        *)
(* administrator's handler is between two statements that change them.     *)

Rewriting == {"rmdb", "load", "rmtmp", "conf", "pdbadd", "smbmap", "update",
              "pdbdel", "delete"}

Away(labels) == \A w \in AdminWorker : pc[w] \notin labels

\* pdbedit -a runs before the row is accepted, and pdbedit -x before it goes.
PdbAhead(w)  == op[w] = "accept" /\ pc[w] \in {"smbmap", "update"}
PdbBehind(w) == pc[w] = "delete"

Faultless ==
  fault = {} =>
    /\ Away({"rmdb", "load", "rmtmp"}) => tmp = NoFile
    /\ Away(Rewriting \ {"rmdb"}) => vsftp = AcceptedLogins
    /\ Away({"update", "pdbdel", "delete"}) => smbmap = Accepted
    /\ (\A w \in AdminWorker : ~ PdbAhead(w) /\ ~ PdbBehind(w)) => pdb = Accepted
    /\ \A w \in AdminWorker :
         /\ PdbAhead(w) => pdb = Accepted \cup {user[w]}
         /\ PdbBehind(w) => pdb = Accepted \ {user[w]}
    /\ Accepted \subseteq conf

LEMMA FaultlessElsewhere ==
  ASSUME TInv, Faultless, NEW w \in Worker,
         Accepted' = Accepted, AcceptedLogins' = AcceptedLogins,
         UNCHANGED <<ftp, samba, fault>>,
         \A v \in Worker \ {w} : pc'[v] = pc[v] /\ op'[v] = op[v] /\ user'[v] = user[v],
         w \in AdminWorker => pc[w] \notin Rewriting /\ pc'[w] \notin Rewriting
  PROVE  Faultless'
  BY ConstantsAssumption
     DEF Faultless, Away, Rewriting, PdbAhead, PdbBehind, ftp, samba

LEMMA StartFaultless ==
  ASSUME TInv, TInv', Faultless, NEW w \in Worker, Start(w), UNCHANGED fault
  PROVE  Faultless'
  <1> PICK u \in User :
        \/ \E p \in Password : EnrollSelect(w, u, p)
        \/ /\ w \in AdminWorker
           /\ AcceptSelect(w, u) \/ RejectDelete(w, u) \/ RemoveSelect(w, u)
    BY DEF Start
  <1>1. /\ UNCHANGED <<ftp, samba>>
        /\ pc[w] = "idle" /\ pc'[w] \in {"reply", "useradd", "pool", "tmp"}
        /\ \A v \in Worker \ {w} : pc'[v] = pc[v] /\ op'[v] = op[v] /\ user'[v] = user[v]
    BY DEF EnrollSelect, AcceptSelect, RejectDelete, RemoveSelect, Receive, Answer,
           Continue, TInv, TypeOK, tables, ftp, samba
  <1>2. \A x \in User :
          \/ status'[x] = status[x] /\ password'[x] = password[x]
          \/ status[x] = "pending" /\ status'[x] = "none"
    BY DEF EnrollSelect, AcceptSelect, RejectDelete, RemoveSelect, TInv, TypeOK, db,
           tables, LoginTable
  <1>3. Accepted' = Accepted /\ AcceptedLogins' = AcceptedLogins
    BY <1>2, SameAccepted DEF TInv
  <1> QED BY <1>1, <1>3, FaultlessElsewhere DEF Rewriting

\* The steps outside the rewriting, which change no accepted row.
LEMMA QuietFaultless ==
  ASSUME TInv, TInv', Faultless, NEW w \in Worker, UNCHANGED fault,
         \/ AcceptPool(w) \/ Useradd(w) \/ Chpasswd(w) \/ Undo(w)
         \/ EnrollUnprobe(w) \/ EnrollInsert(w) \/ AcceptList(w)
         \/ RemoveUserdel(w) \/ Finish(w)
  PROVE  Faultless'
  <1>1. /\ UNCHANGED <<ftp, samba>>
        /\ pc[w] \notin Rewriting /\ pc'[w] \notin Rewriting
        /\ \A v \in Worker \ {w} : pc'[v] = pc[v] /\ op'[v] = op[v] /\ user'[v] = user[v]
    BY DEF AcceptPool, Useradd, Chpasswd, Undo, EnrollUnprobe, EnrollInsert,
           AcceptList, RemoveUserdel, Finish, Forget, Answer, Continue, TInv, TypeOK,
           tables, ftp, samba, request, Rewriting
  <1>2. \A x \in User :
          \/ status'[x] = status[x] /\ password'[x] = password[x]
          \/ status[x] = "none" /\ status'[x] = "pending"
    BY DEF AcceptPool, Useradd, Chpasswd, Undo, EnrollUnprobe, EnrollInsert,
           AcceptList, RemoveUserdel, Finish, Forget, TInv, TypeOK, Control, tables,
           db, LoginTable
  <1>3. Accepted' = Accepted /\ AcceptedLogins' = AcceptedLogins
    BY <1>2, SameAccepted DEF TInv
  <1> QED BY <1>1, <1>3, FaultlessElsewhere

LEMMA RewriteFaultless ==
  ASSUME SoleAdmin, TInv, TInv', Ownership, Healing, Healing', Faultless,
         NEW w \in Worker, UNCHANGED fault,
         \/ VsftpTmp(w) \/ VsftpRmDb(w) \/ VsftpLoad(w) \/ VsftpRmTmp(w)
         \/ VsftpConf(w) \/ AcceptPdbAdd(w) \/ SambaMap(w) \/ AcceptUpdate(w)
         \/ RemovePdbDel(w) \/ RemoveDelete(w)
  PROVE  Faultless'
  <1> SUFFICES ASSUME fault = {} PROVE Faultless'
    BY DEF Faultless
  <1> USE ConstantsAssumption
  <1>1. /\ w \in AdminWorker /\ \A v \in AdminWorker : v = w
        /\ op[w] \in {"accept", "remove"} /\ user[w] \in User
        /\ UNCHANGED request
    BY DEF VsftpTmp, VsftpRmDb, VsftpLoad, VsftpRmTmp, VsftpConf, AcceptPdbAdd,
           SambaMap, AcceptUpdate, RemovePdbDel, RemoveDelete, TInv, Control,
           SoleAdmin, Configuring
  <1>2. CASE ~ AcceptUpdate(w) /\ ~ RemoveDelete(w)
    <2>1. Accepted' = Accepted /\ AcceptedLogins' = AcceptedLogins
      BY <1>2
         DEF VsftpTmp, VsftpRmDb, VsftpLoad, VsftpRmTmp, VsftpConf, AcceptPdbAdd,
             SambaMap, RemovePdbDel, db, Accepted, AcceptedLogins
    <2> USE <1>1, <2>1
        DEF Faultless, Away, Rewriting, PdbAhead, PdbBehind, Continue, Answer, TInv,
            TypeOK, request, samba, ftp
    <2>2. CASE VsftpTmp(w)
      BY <2>2 DEF VsftpTmp
    <2>3. CASE VsftpRmDb(w)
      BY <2>3 DEF VsftpRmDb
    <2>4. CASE VsftpLoad(w)
      BY <2>4 DEF VsftpLoad
    <2>5. CASE VsftpRmTmp(w)
      BY <2>5 DEF VsftpRmTmp
    <2>6. CASE VsftpConf(w)
      BY <2>6 DEF VsftpConf, Control
    <2>7. CASE AcceptPdbAdd(w)
      <3>1. user[w] \in account
        BY <2>7 DEF AcceptPdbAdd, Ownership, Owns, Control
      <3> QED BY <2>7, <3>1 DEF AcceptPdbAdd, Control
    <2>8. CASE SambaMap(w)
      BY <2>8 DEF SambaMap
    <2>9. CASE RemovePdbDel(w)
      BY <2>9 DEF RemovePdbDel
    <2> QED BY <1>2, <2>2, <2>3, <2>4, <2>5, <2>6, <2>7, <2>8, <2>9
  <1>3. Progress(w) /\ Progress(w)'
    BY <1>1 DEF Healing
  <1>4. CASE AcceptUpdate(w)
    <2>1. /\ pc[w] = "update" /\ op[w] = "accept" /\ op'[w] = "accept"
          /\ pc'[w] = "reply" /\ reply'[w] = "SUCCESS" /\ list'[w] = Target(w)
          /\ user'[w] = user[w] /\ UNCHANGED <<ftp, samba>>
      BY <1>1, <1>3, <1>4
         DEF AcceptUpdate, Answer, TInv, TypeOK, Control, Progress, ListStays, Listed,
             request
    <2>2. Target(w) # NoList
      BY <1>1, MarkersAssumption
         DEF Target, LoginTable, AcceptedLogins, TInv, TypeOK, MaybePassword
    <2>3. Mirrored' /\ user[w] \in conf
      BY <1>3, <2>1, <2>2 DEF Progress, Served, ftp
    <2>4. Accepted' = Accepted \cup {user[w]}
      BY <1>1, <1>3, <1>4, <2>1
         DEF AcceptUpdate, Progress, RowStays, Ahead, Accepted, TInv, TypeOK
    <2> QED
      BY <1>1, <2>1, <2>3, <2>4
         DEF Faultless, Away, Rewriting, PdbAhead, PdbBehind, Mirrored, ftp, samba
  <1>5. CASE RemoveDelete(w)
    <2>1. /\ pc[w] = "delete" /\ op[w] = "remove" /\ op'[w] = "remove"
          /\ pc'[w] = "userdel" /\ UNCHANGED <<ftp, samba>>
      BY <1>1, <1>5
         DEF RemoveDelete, Continue, TInv, TypeOK, Control, request
    <2>2. Mirrored'
      BY <1>3, <2>1 DEF Progress, Written
    <2>3. Accepted' = Accepted \ {user[w]}
      BY <1>1, <1>3, <1>5, <2>1
         DEF RemoveDelete, Progress, RowStays, Ahead, Listed, Accepted, TInv, TypeOK
    <2> QED
      BY <1>1, <2>1, <2>2, <2>3
         DEF Faultless, Away, Rewriting, PdbAhead, PdbBehind, Mirrored, ftp, samba
  <1> QED BY <1>2, <1>4, <1>5

LEMMA NoFaultsKept ==
  ASSUME SoleAdmin
  PROVE  Spec => []Faultless
  <1>1. SafeAdmin
    BY DEF SoleAdmin, SafeAdmin
  <1>2. Init => Faultless
    BY ConstantsAssumption
       DEF Init, Faultless, Away, PdbAhead, PdbBehind, Accepted, AcceptedLogins,
           NoLogins
  <1>3. /\ TInv /\ TInv' /\ Ownership /\ Healing /\ Healing' /\ Faultless /\ [Next]_vars
        => Faultless'
    <2> SUFFICES ASSUME TInv, TInv', Ownership, Healing, Healing', Faultless, [Next]_vars
                 PROVE  Faultless'
      OBVIOUS
    <2>1. CASE UNCHANGED vars
      BY <2>1
         DEF vars, Faultless, Away, PdbAhead, PdbBehind, Accepted, AcceptedLogins
    <2>2. ASSUME NEW w \in Worker, Start(w) \/ Step(w) \/ Crash(w), UNCHANGED fault
          PROVE  Faultless'
      <3>1. CASE Start(w)
        BY <2>2, <3>1, StartFaultless
      <3>2. CASE Crash(w)
        BY <2>2, <3>2 DEF Crash, Faultless
      <3>3. CASE Step(w)
        BY <2>2, <3>3, QuietFaultless, RewriteFaultless DEF Step
      <3> QED BY <2>2, <3>1, <3>2, <3>3
    <2> QED BY <2>1, <2>2 DEF Next
  <1> QED BY <1>1, <1>2, <1>3, Typed, Owned, Healed, PTL DEF Spec

\* With one careful administrator and no faults, whenever he has no request
\* running the logins of vsftpd, the user map and the passwords of samba and
\* the system accounts are those that user_list asks for, for any number of
\* users and of enrollments under way.
THEOREM ServicesAgree ==
  ASSUME SoleAdmin
  PROVE  Spec => []ServicesMirrorTable
  <1>1. SafeAdmin
    BY DEF SoleAdmin, SafeAdmin
  <1>2. Ownership /\ Faultless => ServicesMirrorTable
    BY DEF Ownership, AcceptedHasAccount, Faultless, Away, Rewriting, PdbAhead,
           PdbBehind, Mirrored, ServicesMirrorTable
  <1> QED BY <1>1, <1>2, Owned, NoFaultsKept, PTL
=============================================================================
