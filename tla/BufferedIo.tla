----------------------------- MODULE BufferedIo -----------------------------
(* buffer.c of LuaSocket on usocket.c: receive and send of one connection, *)
(* call by call of the system, with what the kernel holds and the peer     *)
(* does. A script repeats what a timeout cut short the way the manual says *)
(* (tcp.html): a receive with the partial result as its prefix, a send     *)
(* from the index after the one it was told.                               *)
EXTENDS Timeout, Sequences

CONSTANTS
  CRByte, LFByte,  \* the two bytes that a line treats apart
  Streams,     \* what a peer may send before it closes
  BufSize,     \* BUF_SIZE
  StepSize,    \* STEPSIZE
  Room,        \* bytes that the kernel takes before the peer has to read
  Limits,      \* what settimeout is called with: naturals, or -1
  LongTime,    \* where the clock of a call stops: longer than every limit
  Counts,      \* what receive(n) is called with: naturals
  Duplex,      \* bound: FALSE when the peer that sends nothing is sent to, the others read from
  Size         \* the length of the message to send: <<1, ..., Size>>

Byte == 0 .. 255
ASSUME IoAssumption ==
  /\ \A s \in Streams : s \in Seq(Byte)
  /\ CRByte # LFByte
  /\ BufSize \in Nat /\ StepSize \in Nat /\ Room \in Nat /\ Size \in Nat
  /\ Limits \subseteq Nat \cup {-1} /\ Counts \subseteq Nat
  /\ LongTime \in Nat /\ \A t \in Limits : t < LongTime

VARIABLES
  stream,    \* what this peer sends
  arrived,   \* bytes of it that reached the kernel
  end,       \* "open"; "closed": FIN came; "reset": RST came; "broken": and was reported
  taken,     \* bytes that recv has taken from the kernel
  data, bufFirst,    \* buf->data up to last, and buf->first
  received,  \* buf->received; buf->sent is the length of wire
  wire,      \* what send has given to the kernel
  room,      \* bytes that it takes now
  sock,      \* the object has its descriptor
  tm,
  elapsed,   \* since the call in progress began
  op,        \* the call in progress
  from,      \* position where what the script asks for begins
  told,      \* index that the last send returned
  ioAnswer   \* what the last call returned
ioVars == <<stream, arrived, end, taken, data, bufFirst, received, wire, room, sock,
           tm, elapsed, op, from, told, ioAnswer>>

Kinds == {"line", "all", "count"}
Errors == {"none", "closed", "timeout", "reset"}
Idle == [kind |-> "idle", asked |-> 0, wanted |-> 0, out |-> <<>>, total |-> 0, pc |-> "ready", left |-> -1]
NoAnswer == [kind |-> "idle", asked |-> 0, err |-> "none", out |-> <<>>]

peerVars == <<stream, arrived, end>>
bufVars == <<taken, data, bufFirst, received>>
sendVars == <<wire, room>>
calling == <<sock, tm, from, told>>

IoInit ==
  /\ stream \in Streams /\ arrived = 0 /\ end = "open"
  /\ taken = 0 /\ data = <<>> /\ bufFirst = 0 /\ received = 0
  /\ wire = <<>> /\ room = Room
  /\ sock = TRUE /\ tm = timeout_init /\ elapsed = 0
  /\ op = Idle /\ from = 0 /\ told = 0 /\ ioAnswer = NoAnswer

-----------------------------------------------------------------------------
\* The peer and the network.
Arrive ==
  /\ end = "open" /\ arrived < Len(stream)
  /\ arrived' = arrived + 1
  /\ UNCHANGED <<stream, end, bufVars, sendVars, calling, elapsed, op, ioAnswer>>

\* The peer closes when it has sent everything; its connection breaks whenever.
PeerEnds ==
  /\ \/ end = "open" /\ arrived = Len(stream) /\ end' = "closed"
     \/ end = "open" /\ end' = "reset"
     \/ end = "closed" /\ end' = "broken"
  /\ UNCHANGED <<stream, arrived, bufVars, sendVars, calling, elapsed, op, ioAnswer>>

PeerReads ==
  /\ room < Room /\ room' = room + 1
  /\ UNCHANGED <<peerVars, bufVars, wire, calling, elapsed, op, ioAnswer>>

-----------------------------------------------------------------------------
\* Calls. The script makes one at a time.
SetTimeout(mode, t) ==
  /\ op = Idle
  /\ tm' = timeout_settimeout(tm, mode, t)
  /\ UNCHANGED <<peerVars, bufVars, sendVars, sock, from, told, elapsed, op, ioAnswer>>

Close ==
  /\ op = Idle /\ sock /\ sock' = FALSE
  /\ UNCHANGED <<peerVars, bufVars, sendVars, tm, from, told, elapsed, op, ioAnswer>>

Finish(kind, asked, err, out) ==
  /\ op' = Idle
  /\ ioAnswer' = [kind |-> kind, asked |-> asked, err |-> err, out |-> out]

\* A receive that ended with a partial result is continued with it.
Continues(kind, n) ==
  ioAnswer.kind = kind /\ ioAnswer.asked = n /\ ioAnswer.err # "none" /\ ioAnswer.out # <<>>

buffer_meth_receive(kind, n) ==
  /\ op = Idle /\ (Duplex \/ stream # <<>>)
  /\ \E part \in {<<>>, ioAnswer.out} :
       /\ \/ part = <<>> /\ from' = received
          \/ part # <<>> /\ Continues(kind, n) /\ UNCHANGED from
       /\ \/ /\ kind # "count" \/ part = <<>> \/ n > Len(part)
             /\ op' = [kind |-> kind, asked |-> n, wanted |-> n - Len(part), out |-> part,
                       total |-> 0, pc |-> "ready", left |-> -1]
             /\ UNCHANGED ioAnswer
          \/ /\ kind = "count" /\ part # <<>> /\ n <= Len(part)
             /\ Finish(kind, n, "none", part)
  /\ elapsed' = 0
  /\ UNCHANGED <<peerVars, bufVars, sendVars, sock, tm, told>>

\* The bytes that send(data, i, j) stands for: an index may count from the end.
Absolute(i) == IF i < 0 THEN Size + i + 1 ELSE i
SendFirst(i) == IF Absolute(i) < 1 THEN 1 ELSE Absolute(i)
SendLast(j) == Lesser(Absolute(j), Size)

Told(err, index) == Finish("send", index, err, <<>>) /\ told' = index

\* The script goes on after the last byte that it was told of.
buffer_meth_send(i, j) ==
  /\ op = Idle
  /\ SendFirst(i) = told + 1 /\ (Duplex \/ stream = <<>>)
  /\ \/ /\ SendFirst(i) <= SendLast(j)
        /\ op' = [kind |-> "send", asked |-> SendFirst(i), wanted |-> SendLast(j) - SendFirst(i) + 1,
                  out |-> <<>>, total |-> 0, pc |-> "ready", left |-> -1]
        /\ UNCHANGED <<ioAnswer, told>>
     \/ /\ SendFirst(i) > SendLast(j)
        /\ Told("none", SendFirst(i) - 1)
  /\ elapsed' = 0
  /\ UNCHANGED <<peerVars, bufVars, sendVars, sock, tm, from>>

-----------------------------------------------------------------------------
\* receive: one call of recv, or the bytes that are buffered, for a round of
\* the loops of recvline, recvall and recvraw.
Receiving == op.kind \in Kinds
Kernel == SubSeq(stream, taken + 1, arrived)
Unread == SubSeq(data, bufFirst + 1, Len(data))
buffer_isempty == bufFirst >= Len(data)

\* The bytes of s but for those to drop, as a loop over s gathers them.
Without(s, drop) ==
  LET Upto[n \in 0 .. Len(s)] ==
        IF n = 0 THEN <<>>
        ELSE IF s[n] \in drop THEN Upto[n - 1] ELSE Append(Upto[n - 1], s[n])
  IN Upto[Len(s)]

\* What a round takes of the bytes it is given, hands out, and whether the loop ends.
recvraw(bytes) ==
  LET count == Lesser(Len(bytes), op.wanted - op.total)
  IN [skip |-> count, out |-> SubSeq(bytes, 1, count), done |-> op.total + count >= op.wanted]
recvall(bytes) == [skip |-> Len(bytes), out |-> bytes, done |-> FALSE]
recvline(bytes) ==
  LET ends == {i \in 1 .. Len(bytes) : bytes[i] = LFByte}
      pos == IF ends = {} THEN Len(bytes) ELSE (CHOOSE i \in ends : \A j \in ends : i <= j) - 1
  IN [skip |-> IF ends = {} THEN pos ELSE pos + 1,
      out |-> Without(SubSeq(bytes, 1, pos), {CRByte}), done |-> ends # {}]
Round(bytes) == CASE op.kind = "count" -> recvraw(bytes)
                  [] op.kind = "all" -> recvall(bytes)
                  [] op.kind = "line" -> recvline(bytes)

\* recvall answers the end of the stream with success if it got anything.
Outcome(err, total) == IF op.kind = "all" /\ err = "closed" /\ total > 0 THEN "none" ELSE err

\* Slip for buffer_skip: the buffer is reset one byte too early.
SkipTooMuch(bytes, at, count) ==
  /\ received' = received + count
  /\ IF at + count >= Len(bytes) - 1 THEN data' = <<>> /\ bufFirst' = 0
                                     ELSE data' = bytes /\ bufFirst' = at + count

\* What was handed out leaves the buffer, which starts over when it is empty.
buffer_skip(bytes, at, count) ==
  /\ received' = received + count
  /\ IF at + count >= Len(bytes) THEN data' = <<>> /\ bufFirst' = 0
                                 ELSE data' = bytes /\ bufFirst' = at + count

\* The buffer now holds bytes from position at on, and the round goes on with them.
GoOn(bytes, at, err) ==
  LET r == Round(SubSeq(bytes, at + 1, Len(bytes)))
      out == op.out \o r.out
      total == op.total + r.skip
  IN /\ buffer_skip(bytes, at, r.skip)
     /\ IF r.done \/ err # "none"
        THEN Finish(op.kind, op.asked, Outcome(err, total), out)
        ELSE op' = [op EXCEPT !.out = out, !.total = total] /\ UNCHANGED ioAnswer

still == <<wire, room, sock, tm, elapsed, from, told, stream, arrived>>

FromBuffer ==
  /\ Receiving /\ op.pc = "ready" /\ ~buffer_isempty
  /\ GoOn(data, bufFirst, "none")
  /\ UNCHANGED <<still, end, taken>>

\* socket_recv, for its outcomes: bytes, the end, an error, nothing yet.
Asking == Receiving /\ op.pc = "ready" /\ buffer_isempty
RecvBytes ==
  /\ Asking /\ sock /\ Kernel # <<>>
  /\ LET got == Lesser(BufSize, Len(Kernel))
     IN GoOn(SubSeq(Kernel, 1, got), 0, "none") /\ taken' = taken + got
  /\ UNCHANGED <<still, end>>
RecvEnds ==
  /\ Asking
  /\ \/ ~sock /\ GoOn(<<>>, 0, "closed") /\ UNCHANGED end
     \/ /\ sock /\ Kernel = <<>> /\ end \in {"closed", "broken"}
        /\ GoOn(<<>>, 0, "closed") /\ UNCHANGED end
     \/ sock /\ Kernel = <<>> /\ end = "reset" /\ GoOn(<<>>, 0, "reset") /\ end' = "broken"
  /\ UNCHANGED <<still, taken>>

\* socket_waitfd begins: no time at all, or a poll.
Wait == op' = [op EXCEPT !.pc = "wait", !.left = PollTime(timeout_getretry(tm, elapsed))]
RecvWaits ==
  /\ Asking /\ sock /\ Kernel = <<>> /\ end = "open"
  /\ \/ timeout_iszero(tm) /\ GoOn(<<>>, 0, "timeout")
     \/ ~timeout_iszero(tm) /\ Wait /\ UNCHANGED <<bufVars, ioAnswer>>
  /\ UNCHANGED <<still, end, taken>>

-----------------------------------------------------------------------------
\* send: the loop of sendraw, STEPSIZE bytes at most for one call of the system.
Sending == op.kind = "send" /\ op.pc = "ready"
Sent == op.asked - 1 + op.total
Step == Lesser(op.wanted - op.total, StepSize)
Takes == end \in {"open", "closed"}
Bytes(a, b) == [i \in 1 .. b - a + 1 |-> a + i - 1]

SendBytes ==
  /\ Sending /\ sock /\ Takes /\ room > 0
  /\ \E put \in 1 .. Lesser(Step, room) :
       /\ wire' = wire \o Bytes(Sent + 1, Sent + put)
       /\ room' = room - put
       /\ IF op.total + put < op.wanted
          THEN op' = [op EXCEPT !.total = op.total + put] /\ UNCHANGED <<ioAnswer, told>>
          ELSE Told("none", Sent + put)
  /\ UNCHANGED <<peerVars, bufVars, sock, tm, elapsed, from>>

\* The error of a broken connection, reported once; then EPIPE, and the closed socket.
SendEnds ==
  /\ Sending
  /\ \/ sock /\ end = "reset" /\ Told("reset", Sent) /\ end' = "broken"
     \/ (~sock \/ end = "broken") /\ Told("closed", Sent) /\ UNCHANGED end
  /\ UNCHANGED <<stream, arrived, bufVars, sendVars, sock, tm, elapsed, from>>

SendWaits ==
  /\ Sending /\ sock /\ Takes /\ room = 0
  /\ \/ timeout_iszero(tm) /\ Told("timeout", Sent)
     \/ ~timeout_iszero(tm) /\ Wait /\ UNCHANGED <<ioAnswer, told>>
  /\ UNCHANGED <<peerVars, bufVars, sendVars, sock, tm, elapsed, from>>

-----------------------------------------------------------------------------
\* The loop of socket_waitfd round poll.
Waiting == op.pc = "wait"
Ready == IF Receiving THEN Kernel # <<>> \/ end # "open" ELSE room > 0 \/ ~Takes

Wakes ==
  /\ Waiting /\ Ready
  /\ op' = [op EXCEPT !.pc = "ready", !.left = -1]
  /\ UNCHANGED <<peerVars, bufVars, sendVars, calling, elapsed, ioAnswer>>

\* A signal interrupts the poll, which begins again with what is left.
Interrupted ==
  /\ Waiting /\ ~Ready /\ Wait
  /\ UNCHANGED <<peerVars, bufVars, sendVars, calling, elapsed, ioAnswer>>

\* Time passes in a poll, and just as well between the calls of the system of a
\* loop that never polls, and in a poll that is over before its process runs.
\* Only what is left of a limit counts, so LongTime stands for all that is longer.
Tick ==
  /\ op # Idle
  /\ elapsed' = Lesser(elapsed + 1, LongTime)
  /\ op' = IF Waiting /\ op.left > 0 THEN [op EXCEPT !.left = op.left - 1] ELSE op
  /\ UNCHANGED <<peerVars, bufVars, sendVars, calling, ioAnswer>>

TimesOut ==
  /\ Waiting /\ ~Ready /\ op.left = 0
  /\ \/ Receiving /\ GoOn(<<>>, 0, "timeout") /\ UNCHANGED <<still, taken>>
     \/ ~Receiving /\ Told("timeout", Sent)
        /\ UNCHANGED <<stream, arrived, bufVars, sendVars, sock, tm, elapsed, from>>
  /\ UNCHANGED end

-----------------------------------------------------------------------------
Peer == Arrive \/ PeerEnds \/ PeerReads
Script ==
  \/ \E mode \in {"b", "t"}, t \in Limits : SetTimeout(mode, t)
  \/ Close
  \/ \E n \in Counts : buffer_meth_receive("count", n)
  \/ buffer_meth_receive("line", 0) \/ buffer_meth_receive("all", 0)
  \/ \E i, j \in -Size .. Size : buffer_meth_send(i, j)
Call == FromBuffer \/ RecvBytes \/ RecvEnds \/ RecvWaits \/ SendBytes \/ SendEnds
        \/ SendWaits \/ Wakes \/ TimesOut
IoNext == Peer \/ Script \/ Call \/ Interrupted \/ Tick

(* The process runs, and time passes; the clock, which stops, cannot keep  *)
(* the process from running for ever. Nothing is asked of the peer, the    *)
(* signals or the script.                                                  *)
IoSpec == IoInit /\ [][IoNext]_ioVars /\ WF_ioVars(Call \/ Tick)

-----------------------------------------------------------------------------
IoTypeOK ==
  /\ stream \in Streams /\ arrived \in 0 .. Len(stream)
  /\ end \in {"open", "closed", "reset", "broken"}
  /\ taken \in 0 .. arrived /\ received \in 0 .. taken
  /\ Len(data) <= BufSize /\ bufFirst \in 0 .. Len(data)
  /\ Len(wire) <= Size /\ room \in 0 .. Room /\ sock \in BOOLEAN
  /\ tm \in [block: Limits \cup {-1}, total: Limits \cup {-1}]
  /\ elapsed \in Nat /\ from \in 0 .. received /\ told \in 0 .. Size
  /\ op.kind \in Kinds \cup {"send", "idle"} /\ op.pc \in {"ready", "wait"}
  /\ ioAnswer.err \in Errors

(* What the buffer holds is what follows the bytes that were handed out,   *)
(* up to what was taken from the kernel: between two calls, whatever their *)
(* patterns and however they ended, no byte is lost or comes twice.        *)
(* (buffer_get, buffer_skip)                                               *)
BufferIsNext == Unread = SubSeq(stream, received + 1, taken)

Piece == SubSeq(stream, from + 1, received)
LFs == {i \in from + 1 .. received : stream[i] = LFByte}

\* What the calls of one receive have gathered of the stream.
Gathered(kind, out) == out = IF kind = "line" THEN Without(Piece, {CRByte, LFByte}) ELSE Piece

(* A receive and its repetitions with the partial result give exactly the  *)
(* next piece of the stream: a line without its CRs up to the first LF, n  *)
(* bytes, or everything until the peer closes; success says that the piece *)
(* is whole, and what comes with an error is the beginning of the piece.   *)
ReceiveIsStream ==
  /\ Receiving => Gathered(op.kind, op.out) /\ (op.kind = "line" => LFs = {})
  /\ op = Idle /\ ioAnswer.kind \in Kinds =>
       /\ Gathered(ioAnswer.kind, ioAnswer.out)
       /\ ioAnswer.kind = "line" => LFs = IF ioAnswer.err = "none" THEN {received} ELSE {}
       /\ ioAnswer.kind = "count" /\ ioAnswer.err = "none" => Len(ioAnswer.out) = ioAnswer.asked
       /\ ioAnswer.kind = "count" => Len(ioAnswer.out) <= ioAnswer.asked
       /\ ioAnswer.kind = "all" /\ ioAnswer.err = "none" /\ sock => end # "open" /\ received = arrived

(* What the kernel was given is the beginning of the message, each byte    *)
(* once and in order, whatever steps, limits and errors came in between,   *)
(* and the index that send returns is that of the last byte of it.         *)
SendExact ==
  /\ wire = Bytes(1, Len(wire))
  /\ op.kind # "send" => told = Len(wire)

\* All of it: the patterns and the partial results give the stream once and in
\* order, the buffer holds what follows, and the kernel gets the message once, up
\* to the index that is returned.
EveryByteOnce == IoTypeOK /\ BufferIsNext /\ ReceiveIsStream /\ SendExact

(* The limits of an object bound what it waits, not what it does: however  *)
(* long its calls of the system took and however often a signal broke a    *)
(* poll off, no poll reaches beyond the limit that is to be met (the total *)
(* one, or the block limit alone), and a call that has used it up does not *)
(* wait at all any more. An answer of timeout came no earlier than the     *)
(* smaller limit allows, less the fraction of a millisecond that poll      *)
(* cannot count. (timeout_getretry, socket_waitfd)                         *)
Deadline ==
  IF tm.total >= 0 THEN tm.total ELSE tm.block
Smallest == CHOOSE t \in {tm.block, tm.total} \ {-1} :
              \A u \in {tm.block, tm.total} \ {-1} : t <= u
TimesOutNow == op # Idle /\ op' = Idle /\ ioAnswer'.err = "timeout"
TimeoutInTime ==
  /\ [](Waiting /\ Deadline >= 0 => op.left = 0 \/ (op.left > 0 /\ elapsed + op.left <= Deadline))
  /\ [][TimesOutNow => Deadline >= 0 /\ elapsed > Smallest - Milli]_ioVars

\* A call with a limit is under way. It has to end when the peer falls silent.
Limited == op # Idle /\ Deadline >= 0
=============================================================================
