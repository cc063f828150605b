------------------------------- MODULE Accounts -------------------------------
(***************************************************************************)
(* The user life cycle of account_manager: userEnroll, userAccept,         *)
(* userReject and userRemove, served by several nginx worker processes.    *)
(*                                                                         *)
(* A worker runs one handler at a time, and its SQL statements and shell   *)
(* commands block it, so the steps that interleave are the statements,     *)
(* commands and file rewrites of different workers.  They meet in          *)
(* resources that nothing locks together: the table user_list, the system  *)
(* accounts guest_<user>, the vsftpd login database with the temporary     *)
(* file it is loaded from, the samba user map and the samba password db.   *)
(***************************************************************************)

CONSTANTS
  User,          \* user names, as stored ("@" already turned into "..")
  Password,      \* passwords a client may enroll with
  BadPassword,   \* the ones chpasswd refuses
  NoPassword,    \* stands for "no password here"
  NoUser,        \* the user of an idle worker
  NoFile,        \* the temporary vsftpd file does not exist
  NoList,        \* the handler has not built its user list
  Worker,        \* nginx worker processes
  AdminWorker,   \* the workers that may be serving an administrator
  Op,            \* the operations that are called
  Fault,         \* what may go wrong around the handlers
  CarefulAdmin   \* TRUE: userRemove is called for accepted users only

ASSUME ConstantsAssumption ==
  /\ BadPassword \subseteq Password
  /\ NoPassword \notin Password
  /\ NoUser \notin User
  /\ AdminWorker \subseteq Worker
  /\ Op \subseteq {"enroll", "accept", "reject", "remove"}
  /\ Fault \subseteq {"mysql", "chown", "file", "pool", "crash"}
  /\ CarefulAdmin \in BOOLEAN

MaybePassword == Password \cup {NoPassword}
LoginTable    == [User -> MaybePassword]

ASSUME MarkersAssumption == NoFile \notin LoginTable /\ NoList \notin LoginTable

VARIABLES
  status,    \* user_list: no row ("none"), accepted=0 ("pending"), accepted=1
  password,  \* user_list: the row's password
  account,   \* the users whose system account guest_<user> exists
  tmp,       \* /tmp/vuser_passwd.conf
  vsftp,     \* vuser_passwd.db: the logins vsftpd accepts
  conf,      \* users with a file in vuser_conf (their local_root)
  smbmap,    \* users in smb_user_map
  pdb,       \* users in the samba password database
  pc,        \* where each worker is in its handler
  op,        \* the handler it runs
  user,      \* its local variable username
  pass,      \* its local variable password
  list,      \* its local variable list
  reply,     \* the ERRORCODE it is sending
  fault      \* never changes: the faults of Fault occur, or none does

db      == <<status, password>>
ftp     == <<tmp, vsftp, conf>>
samba   == <<smbmap, pdb>>
tables  == <<status, password, account, tmp, vsftp, conf, smbmap, pdb>>
request == <<op, user, pass>>
vars == <<status, password, account, tmp, vsftp, conf, smbmap, pdb,
          pc, op, user, pass, list, reply, fault>>

NoLogins == [u \in User |-> NoPassword]
Accepted == {u \in User : status[u] = "accepted"}

\* The logins that the accepted rows ask for.
AcceptedLogins ==
  [u \in User |-> IF status[u] = "accepted" THEN password[u] ELSE NoPassword]

Logins(l) == {u \in User : l[u] # NoPassword}

Code == {"SUCCESS", "REQ_ARGS", "SYSTEM", "USER_EXIST", "USER_NOT_EXIST",
         "POOL_EMPTY", "POOL_INACTIVE"}

Label == {"idle", "pool", "useradd", "chpasswd", "undo", "unprobe", "insert",
          "list", "tmp", "rmdb", "load", "rmtmp", "conf", "pdbadd", "smbmap",
          "update", "pdbdel", "delete", "userdel", "reply"}

TypeOK ==
  /\ status \in [User -> {"none", "pending", "accepted"}]
  /\ password \in LoginTable
  /\ account \subseteq User
  /\ tmp \in LoginTable \cup {NoFile}
  /\ vsftp \in LoginTable
  /\ conf \subseteq User /\ smbmap \subseteq User /\ pdb \subseteq User
  /\ pc \in [Worker -> Label]
  /\ op \in [Worker -> {"none", "enroll", "accept", "reject", "remove"}]
  /\ user \in [Worker -> User \cup {NoUser}]
  /\ pass \in [Worker -> MaybePassword]
  /\ list \in [Worker -> LoginTable \cup {NoList}]
  /\ reply \in [Worker -> Code \cup {"none"}]
  /\ fault \subseteq Fault

Init ==
  /\ status = [u \in User |-> "none"]
  /\ password = NoLogins
  /\ account = {}
  /\ tmp = NoFile /\ vsftp = NoLogins
  /\ conf = {} /\ smbmap = {} /\ pdb = {}
  /\ pc = [w \in Worker |-> "idle"]
  /\ op = [w \in Worker |-> "none"]
  /\ user = [w \in Worker |-> NoUser]
  /\ pass = [w \in Worker |-> NoPassword]
  /\ list = [w \in Worker |-> NoList]
  /\ reply = [w \in Worker |-> "none"]
  /\ fault \in {{}, Fault}

-----------------------------------------------------------------------------
(* Control of a handler.                                                   *)

Continue(w, label) ==
  pc' = [pc EXCEPT ![w] = label] /\ UNCHANGED reply

\* gosay.out_message: send the code, and the request is over.
Answer(w, code) ==
  pc' = [pc EXCEPT ![w] = "reply"] /\ reply' = [reply EXCEPT ![w] = code]

Receive(w, o, u, p) ==
  /\ pc[w] = "idle" /\ o \in Op
  /\ op' = [op EXCEPT ![w] = o]
  /\ user' = [user EXCEPT ![w] = u]
  /\ pass' = [pass EXCEPT ![w] = p]

Forget(w) ==
  /\ pc' = [pc EXCEPT ![w] = "idle"]
  /\ op' = [op EXCEPT ![w] = "none"]
  /\ user' = [user EXCEPT ![w] = NoUser]
  /\ pass' = [pass EXCEPT ![w] = NoPassword]
  /\ list' = [list EXCEPT ![w] = NoList]
  /\ reply' = [reply EXCEPT ![w] = "none"]
  /\ UNCHANGED tables

Finish(w) == pc[w] = "reply" /\ Forget(w)

\* The worker process dies in the middle of a handler and is started again.
Crash(w) == "crash" \in fault /\ pc[w] \notin {"idle", "reply"} /\ Forget(w)

-----------------------------------------------------------------------------
(* Slips that a change of the code could introduce; each is caught by a    *)
(* property below when it takes the place of the action it is named after. *)

\* Useradd: an account that exists already is cleaned up like a bad password.
UseraddCleansUp(w) ==
  /\ pc[w] = "useradd"
  /\ \/ user[w] \in account /\ Continue(w, "undo") /\ UNCHANGED account
     \/ /\ user[w] \notin account
        /\ account' = account \cup {user[w]}
        /\ Continue(w, "chpasswd")
  /\ UNCHANGED <<db, ftp, samba, request, list>>

\* AcceptList: the list of accepted users is never filled in.
AcceptListForgotten(w) ==
  /\ pc[w] = "list" /\ Continue(w, "tmp")
  /\ UNCHANGED <<tables, request, list>>

\* RemoveSelect: the removed user stays in the list.
RemoveSelectKeepsUser(w, u) ==
  /\ CarefulAdmin => status[u] = "accepted"
  /\ Receive(w, "remove", u, NoPassword)
  /\ Continue(w, "tmp")
  /\ list' = [list EXCEPT ![w] = AcceptedLogins]
  /\ UNCHANGED tables

\* VsftpRmDb: the old database is not removed before db_load.
VsftpRmDbSkipped(w) ==
  pc[w] = "rmdb" /\ Continue(w, "load") /\ UNCHANGED <<tables, request, list>>

-----------------------------------------------------------------------------
(* The first statement of each handler.                                    *)

EnrollSelect(w, u, p) ==
  /\ Receive(w, "enroll", u, p)
  /\ \/ "mysql" \in fault /\ Answer(w, "SYSTEM")
     \/ status[u] # "none" /\ Answer(w, "USER_EXIST")
     \/ status[u] = "none" /\ Continue(w, "useradd")
  /\ UNCHANGED <<tables, list>>

AcceptSelect(w, u) ==
  /\ Receive(w, "accept", u, password[u])
  /\ \/ "mysql" \in fault /\ Answer(w, "SYSTEM")
     \/ status[u] = "none" /\ Answer(w, "USER_NOT_EXIST")
     \/ status[u] = "accepted" /\ Answer(w, "SUCCESS")
     \/ status[u] = "pending" /\ Continue(w, "pool")
  /\ UNCHANGED <<tables, list>>

\* SELECT on disk_list, then blkid for every disk of the pool.
AcceptPool(w) ==
  /\ pc[w] = "pool"
  /\ \/ "mysql" \in fault /\ Answer(w, "SYSTEM")
     \/ "pool" \in fault /\ \E c \in {"POOL_EMPTY", "POOL_INACTIVE"} : Answer(w, c)
     \/ Continue(w, "useradd")
  /\ UNCHANGED <<tables, request, list>>

\* A failed DELETE may all the same have been executed: see MysqlPool.
RejectDelete(w, u) ==
  /\ Receive(w, "reject", u, NoPassword)
  /\ \/ "mysql" \in fault /\ Answer(w, "SYSTEM") /\ UNCHANGED db
     \/ /\ Answer(w, "SUCCESS") \/ ("mysql" \in fault /\ Answer(w, "SYSTEM"))
        /\ IF status[u] = "pending"
             THEN /\ status' = [status EXCEPT ![u] = "none"]
                  /\ password' = [password EXCEPT ![u] = NoPassword]
             ELSE UNCHANGED db
  /\ UNCHANGED <<account, ftp, samba, list>>

RemoveSelect(w, u) ==
  /\ CarefulAdmin => status[u] = "accepted"
  /\ Receive(w, "remove", u, NoPassword)
  /\ \/ "mysql" \in fault /\ Answer(w, "SYSTEM") /\ UNCHANGED list
     \/ /\ Continue(w, "tmp")
        /\ list' = [list EXCEPT ![w] = [AcceptedLogins EXCEPT ![u] = NoPassword]]
  /\ UNCHANGED tables

-----------------------------------------------------------------------------
(* The system account, shared by enroll (a probe) and accept.              *)

\* useradd -m && chown -R: a chown that fails leaves the account behind.
Useradd(w) ==
  /\ pc[w] = "useradd"
  /\ \/ user[w] \in account /\ Answer(w, "USER_EXIST") /\ UNCHANGED account
     \/ /\ user[w] \notin account
        /\ account' = account \cup {user[w]}
        /\ \/ Continue(w, "chpasswd")
           \/ "chown" \in fault /\ Answer(w, "USER_EXIST")
  /\ UNCHANGED <<db, ftp, samba, request, list>>

Chpasswd(w) ==
  /\ pc[w] = "chpasswd"
  /\ IF user[w] \in account /\ pass[w] \notin BadPassword
       THEN Continue(w, IF op[w] = "enroll" THEN "unprobe" ELSE "list")
       ELSE Continue(w, "undo")
  /\ UNCHANGED <<tables, request, list>>

\* chpasswd failed: userdel -r, and the password is refused.
Undo(w) ==
  /\ pc[w] = "undo"
  /\ account' = account \ {user[w]}
  /\ Answer(w, "REQ_ARGS")
  /\ UNCHANGED <<db, ftp, samba, request, list>>

\* Enroll only wanted to know that the name and the password are usable.
EnrollUnprobe(w) ==
  /\ pc[w] = "unprobe"
  /\ account' = account \ {user[w]}
  /\ Continue(w, "insert")
  /\ UNCHANGED <<db, ftp, samba, request, list>>

\* The column username is UNIQUE: a second row for the name is refused.
EnrollInsert(w) ==
  LET u == user[w] IN
  /\ pc[w] = "insert"
  /\ \/ /\ "mysql" \in fault \/ status[u] # "none"
        /\ Answer(w, "SYSTEM") /\ UNCHANGED db
     \/ /\ status[u] = "none"
        /\ status' = [status EXCEPT ![u] = "pending"]
        /\ password' = [password EXCEPT ![u] = pass[w]]
        /\ Answer(w, "SUCCESS") \/ ("mysql" \in fault /\ Answer(w, "SYSTEM"))
  /\ UNCHANGED <<account, ftp, samba, request, list>>

-----------------------------------------------------------------------------
(* The configuration of vsftpd and samba, shared by accept and remove.     *)

\* The list is the accepted rows, with the user being accepted put in first.
AcceptList(w) ==
  /\ pc[w] = "list"
  /\ \/ "mysql" \in fault /\ Answer(w, "SYSTEM") /\ UNCHANGED list
     \/ /\ Continue(w, "tmp")
        /\ list' = [list EXCEPT ![w] =
             [u \in User |-> IF u = user[w] /\ status[u] # "accepted"
                             THEN pass[w] ELSE AcceptedLogins[u]]]
  /\ UNCHANGED <<tables, request>>

VsftpTmp(w) ==
  /\ pc[w] = "tmp"
  /\ \/ "file" \in fault /\ Answer(w, "SYSTEM") /\ UNCHANGED tmp
     \/ tmp' = list[w] /\ Continue(w, "rmdb")
  /\ UNCHANGED <<db, account, vsftp, conf, samba, request, list>>

VsftpRmDb(w) ==
  /\ pc[w] = "rmdb"
  /\ vsftp' = NoLogins
  /\ Continue(w, "load")
  /\ UNCHANGED <<db, account, tmp, conf, samba, request, list>>

\* db_load -T adds the pairs of the file to whatever database is there.
VsftpLoad(w) ==
  /\ pc[w] = "load"
  /\ vsftp' = IF tmp = NoFile THEN vsftp
              ELSE [u \in User |-> IF tmp[u] # NoPassword THEN tmp[u] ELSE vsftp[u]]
  /\ Continue(w, "rmtmp")
  /\ UNCHANGED <<db, account, tmp, conf, samba, request, list>>

VsftpRmTmp(w) ==
  /\ pc[w] = "rmtmp"
  /\ tmp' = NoFile
  /\ Continue(w, "conf")
  /\ UNCHANGED <<db, account, vsftp, conf, samba, request, list>>

VsftpConf(w) ==
  /\ pc[w] = "conf"
  /\ conf' = conf \cup Logins(list[w])
  /\ Continue(w, IF op[w] = "accept" THEN "pdbadd" ELSE "smbmap")
  /\ UNCHANGED <<db, account, tmp, vsftp, samba, request, list>>

\* pdbedit -a needs the system account; its exit code is not looked at.
AcceptPdbAdd(w) ==
  /\ pc[w] = "pdbadd"
  /\ pdb' = pdb \cup ({user[w]} \cap account)
  /\ Continue(w, "smbmap")
  /\ UNCHANGED <<db, account, ftp, smbmap, request, list>>

SambaMap(w) ==
  /\ pc[w] = "smbmap"
  /\ \/ "file" \in fault /\ Answer(w, "SYSTEM") /\ UNCHANGED smbmap
     \/ /\ smbmap' = Logins(list[w])
        /\ Continue(w, IF op[w] = "accept" THEN "update" ELSE "pdbdel")
  /\ UNCHANGED <<db, account, ftp, pdb, request, list>>

\* An UPDATE that matches no row is a success too.
AcceptUpdate(w) ==
  /\ pc[w] = "update"
  /\ \/ "mysql" \in fault /\ Answer(w, "SYSTEM") /\ UNCHANGED status
     \/ /\ Answer(w, "SUCCESS") \/ ("mysql" \in fault /\ Answer(w, "SYSTEM"))
        /\ IF status[user[w]] = "none" THEN UNCHANGED status
           ELSE status' = [status EXCEPT ![user[w]] = "accepted"]
  /\ UNCHANGED <<password, account, ftp, samba, request, list>>

RemovePdbDel(w) ==
  /\ pc[w] = "pdbdel"
  /\ pdb' = pdb \ {user[w]}
  /\ Continue(w, "delete")
  /\ UNCHANGED <<db, account, ftp, smbmap, request, list>>

RemoveDelete(w) ==
  LET u == user[w] IN
  /\ pc[w] = "delete"
  /\ \/ "mysql" \in fault /\ Answer(w, "SYSTEM") /\ UNCHANGED db
     \/ /\ Continue(w, "userdel") \/ ("mysql" \in fault /\ Answer(w, "SYSTEM"))
        /\ IF status[u] = "accepted"
             THEN /\ status' = [status EXCEPT ![u] = "none"]
                  /\ password' = [password EXCEPT ![u] = NoPassword]
             ELSE UNCHANGED db
  /\ UNCHANGED <<account, ftp, samba, request, list>>

RemoveUserdel(w) ==
  /\ pc[w] = "userdel"
  /\ account' = account \ {user[w]}
  /\ Answer(w, "SUCCESS")
  /\ UNCHANGED <<db, ftp, samba, request, list>>

-----------------------------------------------------------------------------
\* Only userEnroll takes no administrator token.
Start(w) ==
  \E u \in User :
    \/ \E p \in Password : EnrollSelect(w, u, p)
    \/ /\ w \in AdminWorker
       /\ AcceptSelect(w, u) \/ RejectDelete(w, u) \/ RemoveSelect(w, u)

Step(w) ==
  \/ AcceptPool(w) \/ Useradd(w) \/ Chpasswd(w) \/ Undo(w)
  \/ EnrollUnprobe(w) \/ EnrollInsert(w)
  \/ AcceptList(w) \/ VsftpTmp(w) \/ VsftpRmDb(w) \/ VsftpLoad(w)
  \/ VsftpRmTmp(w) \/ VsftpConf(w) \/ AcceptPdbAdd(w) \/ SambaMap(w)
  \/ AcceptUpdate(w) \/ RemovePdbDel(w) \/ RemoveDelete(w) \/ RemoveUserdel(w)
  \/ Finish(w)

Next == /\ \E w \in Worker : Start(w) \/ Step(w) \/ Crash(w)
        /\ UNCHANGED fault

Spec == Init /\ [][Next]_vars

-----------------------------------------------------------------------------
(* Properties.                                                             *)

\* A worker owns an account from its own successful useradd until it deletes
\* the account again or records the user as accepted.
Owns(w) ==
  \/ pc[w] \in {"chpasswd", "undo", "unprobe"}
  \/ /\ op[w] = "accept"
     /\ pc[w] \in {"list", "tmp", "rmdb", "load", "rmtmp", "conf", "pdbadd",
                   "smbmap", "update"}

\* useradd works as a lock: of all the handlers that probe, create and delete
\* guest_<user> with no other coordination, one at a time has it in hand, so
\* nobody's userdel -r removes an account that another handler is setting up.
OneOwner ==
  \A v, w \in Worker : v # w /\ Owns(v) /\ Owns(w) => user[v] # user[w]

\* An accepted user always has the system account that serves his files,
\* whatever enrollments probe the same name and whatever fails meanwhile.
AcceptedHasAccount == Accepted \subseteq account

\* vsftpd and samba serve exactly the accepted users, with their passwords.
Mirrored == vsftp = AcceptedLogins /\ smbmap = Accepted

\* One administrator and no faults: between his requests the services agree
\* with user_list, whatever enrollments are under way.
ServicesMirrorTable ==
  fault = {} /\ (\A w \in AdminWorker : pc[w] = "idle") =>
    /\ Mirrored
    /\ pdb = Accepted
    /\ Accepted \subseteq account \cap conf
    /\ tmp = NoFile

\* The list is rebuilt from user_list each time: when an accept or a remove
\* that rewrote the services reports success, they agree with user_list again,
\* whatever failed or crashed half way before it.
SuccessHeals ==
  \A w \in AdminWorker :
    reply[w] = "SUCCESS" /\ list[w] # NoList =>
      /\ Mirrored
      /\ op[w] = "accept" => user[w] \in Accepted \cap account \cap pdb \cap conf
      /\ op[w] = "remove" => user[w] \notin pdb
=============================================================================
