---------------------------- MODULE SocketObjects ----------------------------
(* The objects of LuaSocket (tcp.c, udp.c, unixstream.c, unixdgram.c) over *)
(* inet.c and usocket.c: which descriptor an object has, of which family   *)
(* and in which mode, through create, bind, connect, listen, accept, close *)
(* and the collector. A call is one step: the script has one thread. What  *)
(* the kernel and the resolver answer is left open.                        *)
EXTENDS Integers, FiniteSets, Sequences

CONSTANTS
  Place,      \* bound: userdata at a time
  Socket,     \* bound: descriptors, numbers
  Addresses   \* bound: the most addresses that a name resolves to

ASSUME SocketAssumption == Socket \subseteq Nat /\ Addresses \in Nat

VARIABLES
  obj,     \* place -> the userdata in it
  socks,   \* the kernel's descriptors
  lost     \* descriptors of userdata without a metatable, which nobody closes
socketVars == <<obj, socks, lost>>

Invalid == -1
Inet == {"inet", "inet6"}
Families == Inet \cup {"unspec", "unix"}
Classes == {<<"tcp", "master">>, <<"tcp", "client">>, <<"tcp", "server">>,
            <<"udp", "unconnected">>, <<"udp", "connected">>,
            <<"unixstream", "master">>, <<"unixstream", "client">>, <<"unixstream", "server">>,
            <<"unixdgram", "unconnected">>, <<"unixdgram", "connected">>}

\* One userdata: its class, descriptor and family.
Nothing == [class |-> <<"none", "none">>, sock |-> Invalid, family |-> "unspec"]
New(kind, role, sock, family) == [class |-> <<kind, role>>, sock |-> sock, family |-> family]

(* One descriptor: its family; nb: O_NONBLOCK; bound; link: what connect   *)
(* and listen made of it.                                                  *)
Unused == [family |-> "unspec", nb |-> FALSE, bound |-> FALSE, link |-> "none"]
IsOpen(t, d) == d # Invalid /\ t[d].family # "unspec"
Unopened(t) == {d \in Socket : t[d].family = "unspec"}
Lowest(t) == CHOOSE d \in Unopened(t) : \A e \in Unopened(t) : d <= e

SocketInit ==
  /\ obj = [o \in Place |-> Nothing]
  /\ socks = [d \in Socket |-> Unused]
  /\ lost = {}

Vacant == {o \in Place : obj[o].class = <<"none", "none">>}
Fresh == CHOOSE o \in Vacant : TRUE   \* where a new userdata goes does not matter
Of(kind, roles) == {o \in Place : obj[o].class[1] = kind /\ obj[o].class[2] \in roles}
Made == Place \ Vacant

-----------------------------------------------------------------------------
(* usocket.c. The work of a call is a record: sock and family, which the   *)
(* object gets, cur, the family of sock, the descriptors, what went wrong, *)
(* and whether the loop is over.                                           *)
Work(o) == [sock |-> obj[o].sock, family |-> obj[o].family, cur |-> obj[o].family,
            fd |-> socks, err |-> "none", over |-> FALSE]

\* The descriptor of the work becomes s.
Becomes(w, s) == [w EXCEPT !.fd = [w.fd EXCEPT ![w.sock] = s]]

socket_destroy(w) == IF w.sock = Invalid THEN w ELSE [Becomes(w, Unused) EXCEPT !.sock = Invalid]
socket_setnonblocking(w) == Becomes(w, [w.fd[w.sock] EXCEPT !.nb = TRUE])
socket_create(w, family, made) ==
  IF made /\ Unopened(w.fd) # {}
  THEN LET d == Lowest(w.fd)
       IN Becomes([w EXCEPT !.sock = d, !.err = "none"], [Unused EXCEPT !.family = family])
  ELSE [w EXCEPT !.sock = Invalid, !.err = "failed"]

\* Blocking while bind(2) runs, as the comment there says, and never after it.
socket_bind(w, res) ==
  IF ~IsOpen(w.fd, w.sock) THEN [w EXCEPT !.err = "failed"]
  ELSE LET old == w.fd[w.sock]
           good == res = "done" /\ ~old.bound
       IN Becomes([w EXCEPT !.err = IF good THEN "none" ELSE "failed"],
                  [old EXCEPT !.nb = TRUE, !.bound = old.bound \/ good])

(* A stream socket connects once. Nothing waits for a connection that is   *)
(* pending when the limit has passed: it may still come about.             *)
socket_connect(w, stream, res) ==
  IF w.sock = Invalid THEN [w EXCEPT !.err = "closed"]
  ELSE LET old == w.fd[w.sock]
       IN IF stream /\ old.link \in {"linked", "listen"} THEN [w EXCEPT !.err = "failed"]
          ELSE Becomes([w EXCEPT !.err = IF res = "done" THEN "none" ELSE res],
                       [old EXCEPT !.link = IF res = "done" THEN "linked"
                                            ELSE IF res = "timeout" /\ stream THEN "pending"
                                            ELSE old.link])

-----------------------------------------------------------------------------
\* inet.c: the loops over the addresses that a name resolves to.
inet_trycreate(w, family, made) == socket_create(w, family, made)

(* One address: its family, whether a socket can be made for it, and what  *)
(* connect answers there (bind: done, or an error). A name resolves to     *)
(* some, of the family that is asked for.                                  *)
Attempts == [family: Inet, made: {TRUE}, res: {"done", "timeout", "failed"}]
            \cup [family: Inet, made: {FALSE}, res: {"failed"}]
Resolved(hint) == {a \in Attempts : hint \in {"unspec", a.family}}

\* Slip for Fitting: a socket of another family is taken for the address.
FittingReuses(w, a) ==
  IF w.sock = Invalid THEN LET c == inet_trycreate(w, a.family, a.made)
                           IN IF c.err = "none" THEN [c EXCEPT !.cur = a.family] ELSE c
  ELSE [w EXCEPT !.err = "none", !.cur = a.family]

\* The socket that the object has, if it fits the address, or a new one.
Fitting(w, a) ==
  IF w.cur # a.family \/ w.sock = Invalid
  THEN LET c == inet_trycreate(socket_destroy(w), a.family, a.made)
       IN IF c.err = "none" THEN [c EXCEPT !.cur = a.family] ELSE c
  ELSE [w EXCEPT !.err = "none"]

TryConnect(w, a, stream, zero) ==
  IF w.over THEN w
  ELSE LET new == w.cur # a.family \/ w.sock = Invalid
           f == Fitting(w, a)
           c == socket_connect(IF new THEN socket_setnonblocking(f) ELSE f, stream, a.res)
       IN IF f.err # "none" THEN f
          ELSE IF c.err = "none" \/ zero THEN [c EXCEPT !.family = c.cur, !.over = TRUE] ELSE c
\* The works that the loop may end with; zero: the block timeout is 0, as
\* settimeout may have made it at any time before.
inet_tryconnect(w, hint, stream, zero) ==
  LET After[n \in 0 .. Addresses] ==
        IF n = 0 THEN {w}
        ELSE {TryConnect(x, a, stream, zero) : x \in After[n - 1], a \in Resolved(hint)}
  IN UNION {After[n] : n \in 1 .. Addresses}

\* Slip for TryBind: the family of the socket is not kept for later calls.
TryBindForgets(w, a) ==
  IF w.over THEN w
  ELSE LET f == Fitting(w, a)
           b == socket_bind(f, a.res)
       IN IF f.err # "none" THEN f
          ELSE IF b.err = "none" THEN [b EXCEPT !.over = TRUE] ELSE b

TryBind(w, a) ==
  IF w.over THEN w
  ELSE LET f == Fitting(w, a)
           b == socket_bind(f, a.res)
       IN IF f.err # "none" THEN f
          ELSE IF b.err = "none" THEN [b EXCEPT !.family = b.cur, !.over = TRUE] ELSE b
inet_trybind(w, hint) ==
  LET After[n \in 0 .. Addresses] ==
        IF n = 0 THEN {w} ELSE {TryBind(x, a) : x \in After[n - 1], a \in Resolved(hint)}
  IN UNION {After[n] : n \in 1 .. Addresses}

-----------------------------------------------------------------------------
\* What a call leaves: the object with the descriptor and family of the work.
Store(o, w, class) ==
  /\ obj' = [obj EXCEPT ![o] = [class |-> class, sock |-> w.sock, family |-> w.family]]
  /\ socks' = w.fd
  /\ UNCHANGED lost
Put(o, new, table) == obj' = [obj EXCEPT ![o] = new] /\ socks' = table /\ UNCHANGED lost

\* close: for every class. socket_destroy, and the object stays.
meth_close(o) ==
  /\ o \in Made /\ obj[o].sock # Invalid
  /\ LET w == socket_destroy(Work(o))
     IN Store(o, w, obj[o].class)

\* __gc is meth_close too, and then the place is free.
gc(o) ==
  /\ o \in Made
  /\ socks' = socket_destroy(Work(o)).fd
  /\ obj' = [obj EXCEPT ![o] = Nothing]
  /\ UNCHANGED lost

\* tcp, tcp4, tcp6 and udp, udp4, udp6: without a family the socket is made later.
create(kind, role, family) ==
  /\ Vacant # {}
  /\ \/ family = "unspec" /\ Put(Fresh, New(kind, role, Invalid, family), socks)
     \/ /\ family \in Inet /\ Unopened(socks) # {}
        /\ LET w == socket_setnonblocking(inet_trycreate(Work(Fresh), family, TRUE))
           IN Put(Fresh, New(kind, role, w.sock, family), w.fd)
tcp_create(family) == create("tcp", "master", family)
udp_create(family) == create("udp", "unconnected", family)

\* bind of a tcp master, setsockname of an unconnected udp object.
inet_bind(o) ==
  /\ o \in Of("tcp", {"master"}) \cup Of("udp", {"unconnected"})
  /\ \E w \in inet_trybind(Work(o), obj[o].family) : Store(o, w, obj[o].class)

\* The class changes even if it failed, for the sake of connects that do not wait.
tcp_connect(o) ==
  /\ o \in Of("tcp", {"master", "client", "server"})
  /\ \E zero \in BOOLEAN : \E w \in inet_tryconnect(Work(o), obj[o].family, TRUE, zero) :
       Store(o, w, <<"tcp", "client">>)

(* socket.connect. The userdata gets its metatable, and with it __gc, when *)
(* all has gone well: after a bind that failed for every address nothing   *)
(* closes the socket that was made for the last one.                       *)
global_connect ==
  /\ Vacant # {}
  /\ \E family \in Inet \cup {"unspec"} :
     \E b \in {Work(Fresh)} \cup inet_trybind(Work(Fresh), family) :
      \/ /\ b.err # "none"
         /\ lost' = lost \cup ({b.sock} \ {Invalid})
         /\ socks' = b.fd /\ UNCHANGED obj
      \/ /\ b.err = "none"
         /\ \E w \in inet_tryconnect([b EXCEPT !.over = FALSE], b.family, TRUE, FALSE) :
              \/ w.err # "none" /\ socks' = socket_destroy(w).fd /\ UNCHANGED <<obj, lost>>
              \/ /\ w.err = "none"
                 /\ Put(Fresh, New("tcp", "client", w.sock, w.family), w.fd)

listen(o) ==
  /\ o \in Of("tcp", {"master"}) \cup Of("unixstream", {"master"})
  /\ IsOpen(socks, obj[o].sock) /\ socks[obj[o].sock].link = "none"
  /\ Store(o, Becomes(Work(o), [socks[obj[o].sock] EXCEPT !.link = "listen"]),
           <<obj[o].class[1], "server">>)

\* The new descriptor has the family of the server, and is made non-blocking.
accept(o) ==
  /\ o \in Of("tcp", {"server"}) \cup Of("unixstream", {"server"})
  /\ IsOpen(socks, obj[o].sock) /\ socks[obj[o].sock].link = "listen" /\ Unopened(socks) # {}
  /\ Vacant # {}
  /\ LET w == socket_setnonblocking(socket_create(Work(o), socks[obj[o].sock].family, TRUE))
     IN Put(Fresh, New(obj[o].class[1], "client", w.sock, obj[o].family),
            Becomes(w, [w.fd[w.sock] EXCEPT !.link = "linked"]).fd)

\* The connection that was pending comes about, or does not.
Settles(d) ==
  /\ socks[d].link = "pending"
  /\ \E link \in {"linked", "none"} : socks' = [socks EXCEPT ![d] = [socks[d] EXCEPT !.link = link]]
  /\ UNCHANGED <<obj, lost>>

-----------------------------------------------------------------------------
\* udp: setpeername, with "*" for no peer; the first sendto makes the socket.
udp_setpeername(o) ==
  /\ o \in Of("udp", {"connected", "unconnected"})
  /\ \/ \E zero \in BOOLEAN : \E w \in inet_tryconnect(Work(o), obj[o].family, FALSE, zero) :
          Store(o, w, IF w.err = "none" THEN <<"udp", "connected">> ELSE obj[o].class)
     \/ LET w == IF obj[o].family \in Inet /\ IsOpen(socks, obj[o].sock)
                 THEN Becomes(Work(o), [socks[obj[o].sock] EXCEPT !.link = "none"]) ELSE Work(o)
        IN Store(o, w, <<"udp", "unconnected">>)

udp_sendto(o) ==
  /\ o \in Of("udp", {"unconnected"})
  /\ obj[o].family = "unspec" /\ obj[o].sock = Invalid /\ Unopened(socks) # {}
  /\ \E family \in Inet :
       LET w == socket_setnonblocking(inet_trycreate(Work(o), family, TRUE))
       IN Store(o, [w EXCEPT !.family = family], obj[o].class)

-----------------------------------------------------------------------------
\* unixstream, unixdgram: the socket is made with the object, and destroyed
\* when bind or connect fails, but for a path that is too long.
unix_create(kind) ==
  /\ Unopened(socks) # {} /\ Vacant # {}
  /\ LET w == socket_setnonblocking(socket_create(Work(Fresh), "unix", TRUE))
     IN Put(Fresh, New(kind, IF kind = "unixstream" THEN "master" ELSE "unconnected", w.sock, "unix"),
            w.fd)

unix_bind(o) ==
  /\ o \in Of("unixstream", {"master"}) \cup Of("unixdgram", {"unconnected"})
  /\ \E res \in {"done", "failed"} :
       LET w == socket_bind(Work(o), res)
       IN Store(o, IF w.err = "none" THEN w ELSE socket_destroy(w), obj[o].class)

unix_connect(o) ==
  /\ o \in Of("unixstream", {"master"}) \cup Of("unixdgram", {"unconnected", "connected"})
  /\ \E res \in {"done", "timeout", "failed"} :
       LET stream == obj[o].class[1] = "unixstream"
           w == socket_connect(Work(o), stream, res)
           role == IF stream THEN "client" ELSE "connected"
       IN \/ w.err = "none" /\ Store(o, w, <<obj[o].class[1], role>>)
          \/ w.err # "none" /\ Store(o, socket_destroy(w), obj[o].class)

-----------------------------------------------------------------------------
tcp == \/ \E family \in Inet \cup {"unspec"} : tcp_create(family)
       \/ \E o \in Place : tcp_connect(o)
       \/ global_connect
udp == \/ \E family \in Inet \cup {"unspec"} : udp_create(family)
       \/ \E o \in Place : udp_setpeername(o) \/ udp_sendto(o)
unix == \/ \E kind \in {"unixstream", "unixdgram"} : unix_create(kind)
        \/ \E o \in Place : unix_bind(o) \/ unix_connect(o)
\* setfd, which gives an object any number the caller chooses, is left out:
\* nothing can be said of the owners of descriptors any more.
every == \E o \in Place : meth_close(o) \/ gc(o) \/ inet_bind(o) \/ listen(o)
                          \/ accept(o)
SocketNext == tcp \/ udp \/ unix \/ every \/ \E d \in Socket : Settles(d)

SocketSpec == SocketInit /\ [][SocketNext]_socketVars

-----------------------------------------------------------------------------
SocketTypeOK ==
  /\ DOMAIN obj = Place /\ DOMAIN socks = Socket /\ lost \subseteq Socket
  /\ \A o \in Place :
       /\ obj[o].class \in Classes \cup {<<"none", "none">>}
       /\ obj[o].sock \in Socket \cup {Invalid} /\ obj[o].family \in Families
  /\ \A d \in Socket : socks[d].family \in Families
                   /\ socks[d].link \in {"none", "pending", "linked", "listen"}

(* Whatever descriptor an object has is open and its own, so that no close *)
(* and no finalizer reaches the connection of another object that got the  *)
(* same number since; and every descriptor that is open is one that some   *)
(* finalizer will close, but for those that socket.connect lost when it    *)
(* could not bind. (socket_destroy, and who calls it)                      *)
DescriptorsHaveOneOwner ==
  /\ \A o \in Made : obj[o].sock # Invalid => IsOpen(socks, obj[o].sock) /\ obj[o].sock \notin lost
  /\ \A o, p \in Made : o # p /\ obj[o].sock # Invalid => obj[o].sock # obj[p].sock
  /\ \A d \in Socket : IsOpen(socks, d) => d \in lost \/ \E o \in Made : obj[o].sock = d

(* No descriptor is left in blocking mode, by whichever way it came about  *)
(* and whatever failed after that: the limits of an object hold only for   *)
(* descriptors that answer EAGAIN.                                         *)
NeverBlocks == \A o \in Made : obj[o].sock # Invalid => socks[obj[o].sock].nb

(* The family that an object remembers is that of its descriptor, or it    *)
(* remembers none: a hint of the wrong family would throw the socket away. *)
FamilyIsTrue ==
  \A o \in Made : obj[o].sock # Invalid => obj[o].family \in {socks[obj[o].sock].family, "unspec"}

(* "if there was a bind, all families will be the same and we will not     *)
(* enter this branch" (inet.c): no call but close and the collector takes  *)
(* the descriptor that was bound from its object, unless a unix socket     *)
(* could not connect or be bound again.                                    *)
Bound(o) == obj[o].sock # Invalid /\ socks[obj[o].sock].bound
BoundIsKept ==
  [][\A o \in Made : Bound(o) /\ obj[o].class[1] \in {"tcp", "udp"} =>
       \/ obj'[o].sock = obj[o].sock /\ socks'[obj[o].sock].bound
       \/ obj'[o].sock = Invalid /\ obj'[o].class = obj[o].class
       \/ obj'[o] = Nothing]_socketVars

\* All of it: an open descriptor has one object, which is open, has its family
\* right and is not in blocking mode.
SocketsAreOwned == SocketTypeOK /\ DescriptorsHaveOneOwner /\ NeverBlocks /\ FamilyIsTrue
=============================================================================
