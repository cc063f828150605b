-------------------------------- MODULE MCLibs --------------------------------
(* The libraries under src/open/lib that have no part in each other: the   *)
(* ring of queue.lua, the hash ring of libconhash, and of LuaSocket the    *)
(* objects, the calls of one connection, select, and the filters of mail.  *)
(* They share no state, so in a behaviour one of them moves.               *)
EXTENDS RingQueue, SocketObjects, BufferedIo, Select, TLC

CONSTANTS srv1, srv2, srv3, Null,   \* servers; the null pointer
          sock1, sock2              \* objects of the script

VARIABLES part,
  hash, tree, ivnodes, owner, flag, ring,
  plan, rest, contexts, top, index, retry, chunk, state, lastIn, pc, passed

hashVars == <<hash, tree, ivnodes, owner, flag, ring>>
mailVars == <<plan, rest, contexts, top, index, retry, chunk, state, lastIn, pc, passed>>
libVars == <<part, ringVars, hashVars, socketVars, ioVars, pollVars, mailVars>>

\* Six replicas of three servers on six positions: every one with a place of
\* its own, in three different orders, and two with a collision.
Places == <<<<srv1, 0>>, <<srv1, 1>>, <<srv1, 2>>, <<srv2, 0>>, <<srv2, 1>>, <<srv3, 0>>>>
PlaceAt(i) == CHOOSE k \in DOMAIN Places : Places[k] = i
Falling(keys) == [i \in {Places[k] : k \in DOMAIN Places} |-> keys[PlaceAt(i)]]
Hash == INSTANCE Conhash WITH
        Key <- 1 .. 6, Nil <- 0, Server <- {srv1, srv2, srv3},
        Replicas <- (srv1 :> 3) @@ (srv2 :> 2) @@ (srv3 :> 1), Removes <- TRUE,
        Hashes <- {Falling(<<1, 2, 3, 4, 5, 6>>), Falling(<<2, 4, 6, 1, 3, 5>>),
                   Falling(<<6, 4, 1, 2, 5, 3>>),
                   Falling(<<5, 1, 3, 2, 5, 4>>), Falling(<<2, 6, 4, 4, 1, 2>>)}

Format == INSTANCE Mime WITH LineLength <- 6

\* Streams: a line with more behind it and a CR to drop, and a peer that only reads.
LineAndMore == {<<65, LFByte, CRByte>>, <<>>}

\* Tables: none, two objects, one of them twice.
TablesOfTwo == {<<>>, <<sock2, sock1>>, <<sock1, sock1>>}

\* What is sent by mail: all short texts of bytes that a filter tells apart, and
\* some that fill a line of six.
Words(S, most) == UNION {[1 .. k -> S] : k \in 0 .. most}
Letters == {Format!CR, Format!LF, 32, Format!EQ, 65}
Lines == Words({<<>>, <<Format!Dot>>, <<65>>}, 3)
Plans ==
  {[pipe |-> <<"b64", "wrp", "unb64">>, text |-> t, want |-> t] : t \in Words({0, 255}, 4)}
  \cup {[pipe |-> <<"qp", "qpwrp", "unqp">>, text |-> t, want |-> t] :
          t \in Words(Letters, 3) \cup {<<65, 65, 65, 65>> \o t : t \in Words(Letters, 2)}}
  \cup {[pipe |-> <<"eol", "dot">>, text |-> Format!Joined(l, mark),
          want |-> Format!Stuffed(Format!Joined(l, Format!CRLF))] :
          l \in Lines, mark \in {<<13>>, <<10>>, <<13, 10>>, <<10, 13>>}}
  \cup {[pipe |-> <<"dot">>, text |-> t, want |-> Format!Stuffed(t)] : t \in Words({13, 10, Format!Dot}, 4)}
Mail == INSTANCE Ltn12 WITH LineLength <- 6
Empty == [pipe |-> <<"dot">>, text |-> <<>>, want |-> <<>>]

-----------------------------------------------------------------------------
\* What does not move starts in one state.
LibInit ==
  /\ part \in {"ring", "hash", "objects", "io", "select", "mail"}
  /\ RingInit /\ SocketInit /\ Hash!Init /\ IoInit
  /\ part # "hash" => hash = Falling(<<1, 2, 3, 4, 5, 6>>)
  /\ part # "io" => stream = <<>>
  /\ Mail!Init /\ (part # "mail" => plan = Empty)
  /\ \/ part = "select" /\ SelectInit
     \/ /\ part # "select"
        /\ fdOf = [i \in {sock1, sock2} |-> -1] /\ isDirty = {} /\ waits = 0
        /\ request = [r |-> <<>>, w |-> <<>>, t |-> 5]
        /\ kernel = [r |-> {}, w |-> {}, fails |-> FALSE] /\ result = NoResult

Ring(A) == part = "ring" /\ A /\ UNCHANGED <<part, hashVars, socketVars, ioVars, pollVars, mailVars>>
Hashing(A) == part = "hash" /\ A /\ UNCHANGED <<part, ringVars, socketVars, ioVars, pollVars, mailVars>>
Object(A) == part = "objects" /\ A /\ UNCHANGED <<part, ringVars, hashVars, ioVars, pollVars, mailVars>>
Talk(A) == part = "io" /\ A /\ UNCHANGED <<part, ringVars, hashVars, socketVars, pollVars, mailVars>>
Asks(A) == part = "select" /\ A /\ UNCHANGED <<part, ringVars, hashVars, socketVars, ioVars, mailVars>>
Mails(A) == part = "mail" /\ A /\ UNCHANGED <<part, ringVars, hashVars, socketVars, ioVars, pollVars>>

LibNext == \/ Ring(RingNext) \/ Hashing(Hash!Next) \/ Object(SocketNext)
           \/ Talk(IoNext) \/ Asks(SelectNext) \/ Mails(Mail!Next)

(* The thread that is in a call of LuaSocket runs, the pump goes on, and   *)
(* time passes; that is all that is asked of the system. (Spec of          *)
(* BufferedIo and of Ltn12)                                                *)
LibSpec == LibInit /\ [][LibNext]_libVars
           /\ WF_libVars(Talk(Tick \/ Call) \/ Mails(Mail!Next))

-----------------------------------------------------------------------------
(* The properties of the parts, as their modules state them.               *)

\* queue.lua and libconhash: the window of the queue agrees with its counters;
\* the hash ring is a red-black tree of the virtual nodes that are in it, and an
\* object belongs to the first virtual node at or after its position.
ContainersAreSound ==
  /\ RingTypeOK /\ WindowAgrees
  /\ part = "hash" => Hash!TypeOK /\ Hash!RingIsSound /\ Hash!LookupIsSuccessor

\* libconhash: only objects of the server that came or went move.
OnlyItsObjectsMove == [][part = "hash" => Hash!OnlyItsObjects]_libVars

\* mime.c and ltn12.lua: the filters give the same for every cutting into chunks,
\* what was encoded decodes, and no line is too long.
ChunksDoNotMatter == part = "mail" => Mail!ChunksDoNotMatter

\* A call that has a limit ends, however often signals interrupt its polls and
\* whatever else the peer does, as soon as no byte arrives and no room is made
\* any more (a stream here is finite: while bytes go on arriving, the loops of
\* buffer.c never look at the limit); and so does a pump that was fed.
Pumping == part = "mail" /\ pc # "done"
CallsEnd == (Limited \/ Pumping) ~> (op = Idle /\ ~Pumping)
=============================================================================
