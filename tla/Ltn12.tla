-------------------------------- MODULE Ltn12 --------------------------------
(* ltn12.lua of LuaSocket: pump.all over source.chain over filter.chain,   *)
(* with filters of mime.lua. A chunk is a sequence of bytes; the empty one *)
(* asks for more, Null is the end.                                         *)
EXTENDS Mime

CONSTANTS Plans   \* what is sent: [pipe: the filters, text: the bytes, want: what has to arrive]

VARIABLES
  plan, rest,                          \* what is sent, and the part the source still has
  contexts, top, index, retry, chunk,  \* of filter.chain and its filters
  state, lastIn,                       \* of source.chain
  pc,         \* "source", "filter", or how it ended: "done", "error"
  passed      \* what came out of each filter, for the properties
vars == <<plan, rest, contexts, top, index, retry, chunk, state, lastIn, pc, passed>>

pipe == plan.pipe
n == Len(pipe)

Init ==
  /\ plan \in Plans /\ rest = plan.text
  /\ contexts = [i \in 1 .. n |-> FirstContext(pipe[i])]
  /\ top = 1 /\ index = 1 /\ retry = <<>> /\ chunk = <<>>
  /\ state = "feeding" /\ lastIn = <<>> /\ pc = "source"
  /\ passed = [i \in 1 .. n |-> <<>>]

\* filter.chain is called with in.
Enter(in) ==
  /\ retry' = (IF in = Null THEN Null ELSE retry)
  /\ chunk' = in /\ pc' = "filter"

\* It returns; what it had in hand is the caller's.
Leave == chunk' = <<>> /\ UNCHANGED retry

\* The next chunk of the source, as long as it pleases, or its end.
Source ==
  /\ pc = "source" /\ state = "feeding"
  /\ \/ /\ rest # <<>>
        /\ \E k \in 1 .. Len(rest) : lastIn' = SubSeq(rest, 1, k) /\ rest' = SubSeq(rest, k + 1, Len(rest))
     \/ rest = <<>> /\ lastIn' = Null /\ UNCHANGED rest
  /\ Enter(lastIn')
  /\ UNCHANGED <<plan, contexts, top, index, state, passed>>

\* source.chain with what filter.chain returned; a chunk goes to the sink, and
\* the pump asks for the next one.
Fed(ret) ==
  \/ /\ ret # Null /\ ret # <<>>
     /\ state' = "eating" /\ lastIn' = (IF lastIn = Null THEN Null ELSE <<>>)
     /\ Enter(lastIn')
  \/ ret = <<>> /\ pc' = "source" /\ UNCHANGED <<state, lastIn>> /\ Leave
Eaten(ret) ==
  \/ ret # Null /\ ret # <<>> /\ Enter(lastIn) /\ UNCHANGED <<state, lastIn>>
  \/ /\ ret = <<>> /\ UNCHANGED lastIn /\ Leave
     /\ IF lastIn = <<>> THEN state' = "feeding" /\ pc' = "source"
                         ELSE pc' = "error" /\ UNCHANGED state
Return(ret) ==
  \/ state = "feeding" /\ Fed(ret)
  \/ state = "eating" /\ Eaten(ret)
  \/ /\ ret = Null /\ pc' = (IF lastIn = Null THEN "done" ELSE "error")
     /\ UNCHANGED <<state, lastIn>> /\ Leave

Goto(i, in) ==
  /\ index' = i /\ chunk' = in
  /\ UNCHANGED <<retry, state, lastIn, pc>>

\* One round of the loop of filter.chain.
TopFilter(ret) ==
  \/ (ret = <<>> \/ top = n) /\ Return(ret) /\ UNCHANGED <<top, index>>
  \/ ret # <<>> /\ ret # Null /\ top # n /\ Goto(index + 1, ret) /\ UNCHANGED top
  \/ ret = Null /\ top # n /\ top' = top + 1 /\ Goto(top + 1, Null)
LaterFilter(ret) ==
  /\ UNCHANGED top
  /\ \/ ret = <<>> /\ Goto(index - 1, retry)
     \/ ret # <<>> /\ ret # Null /\ index = n /\ Return(ret) /\ UNCHANGED index
     \/ ret # <<>> /\ ret # Null /\ index # n /\ Goto(index + 1, ret)
     \/ ret = Null /\ pc' = "error" /\ UNCHANGED <<index, chunk, retry, state, lastIn>>

Filter ==
  /\ pc = "filter"
  /\ \E r \in {filter(pipe[index], contexts[index], IF index # top /\ chunk = Null THEN <<>> ELSE chunk)} :
         /\ contexts' = [contexts EXCEPT ![index] = r.ctx]
         /\ passed' = [passed EXCEPT ![index] = IF r.ret = Null THEN @ ELSE @ \o r.ret]
         /\ IF index = top THEN TopFilter(r.ret) ELSE LaterFilter(r.ret)
  /\ UNCHANGED <<plan, rest>>

Next == Source \/ Filter

\* The pump goes on until its source ends, and the script waits for it.
Spec == Init /\ [][Next]_vars /\ WF_vars(Next)

-----------------------------------------------------------------------------
Arrived == passed[n]
Wraps(name) == name \in {"wrp", "qpwrp"}

\* mime.c:438: 9 and 32 can be plain, unless in the end of a line.
NoBareSpaceEnds(text) == \A k \in 1 .. Len(text) - 1 : text[k + 1] = CR => text[k] \notin {9, 32}

(* However the source cuts its chunks, no filter ends the chain too early, *)
(* nothing is lost or changed at their borders, and lines that were broken *)
(* stay within their length and end as they should.                       *)
ChunksDoNotMatter ==
  /\ pc # "error" /\ IsPrefix(Arrived, plan.want) /\ (pc = "done" => Arrived = plan.want)
  /\ \A i \in 1 .. n : Wraps(pipe[i]) =>
       \A k \in 1 .. Len(passed[i]) - LineLength : \E j \in k .. k + LineLength : passed[i][j] \in {CR, LF}
  /\ \A i \in 1 .. n : pipe[i] = "qp" => NoBareSpaceEnds(passed[i])
=============================================================================
