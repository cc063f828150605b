-------------------------------- MODULE Mime --------------------------------
(* mime.c of LuaSocket: the filters of mail, each of which takes a chunk   *)
(* and the context that its last call left, and gives a chunk and the next *)
(* context. Null stands for nil: a chunk that is nil is the end of input.  *)
EXTENDS Integers, Sequences, SequencesExt

CONSTANTS Null, LineLength

CR == 13
LF == 10
CRLF == <<CR, LF>>
EQ == 61           \* "="
EQCRLF == <<EQ, CR, LF>>
Dot == 46
\* Empty: no bytes held back, nothing written.
Start == [atom |-> <<>>, out |-> <<>>]
Keep(acc, atom) == [acc EXCEPT !.atom = atom]
Write(acc, bytes) == [atom |-> <<>>, out |-> acc.out \o bytes]

-----------------------------------------------------------------------------
(* Base64 *)

b64base == [v \in 0 .. 63 |-> CASE v < 26 -> 65 + v [] v \in 26 .. 51 -> 71 + v
                                [] v \in 52 .. 61 -> v - 4 [] v = 62 -> 43 [] v = 63 -> 47]
b64unbase(c) ==
  CASE c = EQ -> 0
    [] \E v \in 0 .. 63 : b64base[v] = c -> CHOOSE v \in 0 .. 63 : b64base[v] = c
    [] OTHER -> 255

\* The n low digits of value, the highest first.
Digits(value, n) == [k \in 1 .. n |-> b64base[(value \div 64 ^ (n - k)) % 64]]

b64encode(acc, c) ==
  LET a == Append(acc.atom, c)
  IN  IF Len(a) = 3 THEN Write(acc, Digits((a[1] * 256 + a[2]) * 256 + a[3], 4)) ELSE Keep(acc, a)

b64pad(a) ==
  CASE Len(a) = 1 -> Digits(a[1] * 16, 2) \o <<EQ, EQ>>
    [] Len(a) = 2 -> Digits((a[1] * 256 + a[2]) * 4, 3) \o <<EQ>>
    [] OTHER -> <<>>

b64decode(acc, c) ==
  LET a == Append(acc.atom, c)
      value == ((b64unbase(a[1]) * 64 + b64unbase(a[2])) * 64 + b64unbase(a[3])) * 64 + b64unbase(a[4])
      valid == IF a[3] = EQ THEN 1 ELSE IF a[4] = EQ THEN 2 ELSE 3
  IN  CASE b64unbase(c) > 64 -> acc
        [] b64unbase(c) <= 64 /\ Len(a) < 4 -> Keep(acc, a)
        [] OTHER -> Write(acc, SubSeq(<<value \div 65536, (value \div 256) % 256, value % 256>>, 1, valid))

-----------------------------------------------------------------------------
(* Quoted-printable *)

qpclass(c) ==
  CASE c \in (33 .. 126) \ {EQ} -> "plain"
    [] c \in {9, 32} -> "if last"
    [] c = CR -> "cr"
    [] OTHER -> "quoted"
qpbase(v) == IF v < 10 THEN 48 + v ELSE 55 + v
qpunbase(c) == CASE c \in 48 .. 57 -> c - 48 [] c \in 65 .. 70 -> c - 55 [] c \in 97 .. 102 -> c - 87
                 [] OTHER -> 255
qpquote(c) == <<EQ, qpbase(c \div 16), qpbase(c % 16)>>

\* The loop of qpencode: goes on until the first byte waits for the ones after it.
RECURSIVE Settle(_, _)
Settle(a, out) ==
  CASE a = <<>> -> [atom |-> a, out |-> out]
    [] a # <<>> /\ qpclass(a[1]) = "cr" ->
         IF Len(a) < 2 THEN [atom |-> a, out |-> out]
         ELSE IF a[2] = LF THEN [atom |-> <<>>, out |-> out \o CRLF]
         ELSE Settle(Tail(a), out \o qpquote(CR))
    [] a # <<>> /\ qpclass(a[1]) = "if last" ->
         IF Len(a) < 3 THEN [atom |-> a, out |-> out]
         ELSE IF Tail(a) = CRLF THEN [atom |-> <<>>, out |-> out \o qpquote(a[1]) \o CRLF]
         ELSE Settle(Tail(a), Append(out, a[1]))
    [] OTHER -> Settle(Tail(a), out \o IF qpclass(a[1]) = "quoted" THEN qpquote(a[1]) ELSE <<a[1]>>)

qpencode(acc, c) == Settle(Append(acc.atom, c), acc.out)

qppad(a) ==
  IF a = <<>> THEN <<>>
  ELSE FlattenSeq([i \in DOMAIN a |-> IF qpclass(a[i]) = "plain" THEN <<a[i]>> ELSE qpquote(a[i])])
         \o EQCRLF

qpdecode(acc, b) ==
  LET a == Append(acc.atom, b)
      c == qpunbase(a[2])
      d == qpunbase(a[3])
  IN  CASE a[1] = EQ -> IF Len(a) < 3 THEN Keep(acc, a)
                        ELSE IF Tail(a) = CRLF THEN Write(acc, <<>>)
                        ELSE Write(acc, IF c > 15 \/ d > 15 THEN a ELSE <<c * 16 + d>>)
        [] a[1] = CR -> IF Len(a) < 2 THEN Keep(acc, a)
                        ELSE Write(acc, IF a[2] = LF THEN a ELSE <<>>)
        [] OTHER -> Write(acc, IF a[1] = 9 \/ a[1] \in 32 .. 126 THEN a ELSE <<>>)

-----------------------------------------------------------------------------
(* Lines *)

\* acc.ctx is what is left of the line, or what the last byte was; acc.out the output.
Broken(acc, room, mark) == IF acc.ctx <= room THEN [ctx |-> LineLength, out |-> acc.out \o mark] ELSE acc
Put(acc, c) == [ctx |-> acc.ctx - 1, out |-> Append(acc.out, c)]
NewLine(acc) == [ctx |-> LineLength, out |-> acc.out \o CRLF]

wrp(acc, c) == CASE c = CR -> acc [] c = LF -> NewLine(acc) [] OTHER -> Put(Broken(acc, 0, CRLF), c)

\* Slip for qpwrp: a line is broken inside of =XX.
QpwrpAnywhere(acc, c) ==
  CASE c = CR -> acc [] c = LF -> NewLine(acc) [] OTHER -> Put(Broken(acc, 1, EQCRLF), c)

qpwrp(acc, c) == CASE c = CR -> acc [] c = LF -> NewLine(acc)
                   [] c = EQ -> Put(Broken(acc, 3, EQCRLF), c)
                   [] OTHER -> Put(Broken(acc, 1, EQCRLF), c)

eolcandidate(c) == c \in {CR, LF}
eolprocess(acc, c) ==
  CASE ~eolcandidate(c) -> [ctx |-> 0, out |-> Append(acc.out, c)]
    [] eolcandidate(c) /\ eolcandidate(acc.ctx) ->
         [ctx |-> 0, out |-> IF c = acc.ctx THEN acc.out \o CRLF ELSE acc.out]
    [] OTHER -> [ctx |-> c, out |-> acc.out \o CRLF]

dot(acc, c) ==
  [ctx |-> CASE c = CR -> 1 [] c = LF /\ acc.ctx = 1 -> 2 [] OTHER -> 0,
   out |-> acc.out \o IF c = Dot /\ acc.ctx = 2 THEN <<Dot, Dot>> ELSE <<c>>]

-----------------------------------------------------------------------------
(* The functions of the module, mime_global_<name>(context, chunk): the    *)
(* bytes one after another through the step of the filter. b64, unb64, qp  *)
(* and unqp begin with the bytes that they held back; qp and unqp take an  *)
(* output that begins with a zero for an empty one.                        *)

step(name, acc, c) ==
  CASE name = "b64" -> b64encode(acc, c) [] name = "unb64" -> b64decode(acc, c)
    [] name = "qp" -> qpencode(acc, c) [] name = "unqp" -> qpdecode(acc, c)
    [] name = "wrp" -> wrp(acc, c) [] name = "qpwrp" -> qpwrp(acc, c)
    [] name = "eol" -> eolprocess(acc, c) [] name = "dot" -> dot(acc, c)

\* (acc is bound, so that TLC evaluates each step once.)
Through(name, first, bytes) ==
  LET after[i \in 0 .. Len(bytes)] ==
        IF i = 0 THEN first
        ELSE CHOOSE r \in {step(name, acc, bytes[i]) : acc \in {after[i - 1]}} : TRUE
  IN  after[Len(bytes)]

pad(name, a) == CASE name = "b64" -> b64pad(a) [] name = "qp" -> qppad(a) [] OTHER -> <<>>

nothing(name, out) == out = <<>> \/ (name \in {"qp", "unqp"} /\ out[1] = 0)

Holding(name, context, chunk) ==
  LET held == Through(name, Start, context)
      all == Through(name, held, chunk)
      last == held.out \o pad(name, held.atom)
  IN  CASE context = Null -> [ret |-> Null, ctx |-> Null]
        [] context # Null /\ chunk = Null -> [ret |-> IF nothing(name, last) THEN Null ELSE last, ctx |-> Null]
        [] OTHER -> [ret |-> all.out, ctx |-> all.atom]

\* The first context, from mime.lua.
FirstContext(name) ==
  CASE name \in {"b64", "unb64", "qp", "unqp"} -> <<>>
    [] name \in {"wrp", "qpwrp"} -> LineLength
    [] name = "eol" -> 0
    [] name = "dot" -> 2

\* A line that was begun is ended.
ending(name, left) ==
  CASE name = "wrp" /\ left < LineLength -> CRLF
    [] name = "qpwrp" /\ left < LineLength -> EQCRLF
    [] OTHER -> Null

Counting(name, context, chunk) ==
  LET all == Through(name, [ctx |-> context, out |-> <<>>], chunk)
  IN  IF chunk = Null THEN [ret |-> ending(name, context), ctx |-> FirstContext(name)]
                      ELSE [ret |-> all.out, ctx |-> all.ctx]

filter(name, context, chunk) ==
  IF name \in {"b64", "unb64", "qp", "unqp"} THEN Holding(name, context, chunk)
                                              ELSE Counting(name, context, chunk)

-----------------------------------------------------------------------------
(* What the filters are to do with a whole text, for the properties.       *)

\* One line end for another, in a text of lines.
Joined(lines, mark) ==
  FlattenSeq([i \in DOMAIN lines |-> IF i = 1 THEN lines[i] ELSE mark \o lines[i]])

\* Each line that begins with a dot begins with two.
Stuffed(text) ==
  FlattenSeq([i \in DOMAIN text |->
    IF text[i] = Dot /\ (i = 1 \/ (i > 2 /\ SubSeq(text, i - 2, i - 1) = CRLF))
    THEN <<Dot, Dot>> ELSE <<text[i]>>])
=============================================================================
