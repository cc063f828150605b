------------------------------ MODULE Timeout ------------------------------
(* timeout.c of LuaSocket: the two limits of an object, -1 for none. The   *)
(* clock counts halves of a millisecond from markstart on, so that what    *)
(* poll(2), which counts whole milliseconds, cuts off can be seen.         *)
EXTENDS Integers

Milli == 2   \* steps of the clock in a millisecond

Lesser(a, b) == IF a < b THEN a ELSE b
NotNegative(t) == IF t < 0 THEN 0 ELSE t

timeout_init == [block |-> -1, total |-> -1]
timeout_iszero(tm) == tm.block = 0
timeout_settimeout(tm, mode, t) == IF mode = "b" THEN [tm EXCEPT !.block = t]
                                                 ELSE [tm EXCEPT !.total = t]

(* What is left for the next call of the system, -1 for no limit. Between  *)
(* the two functions there is one difference: with a block limit alone,    *)
(* getretry deducts what has elapsed and get does not.                     *)
Both(tm, elapsed) == Lesser(tm.block, NotNegative(tm.total - elapsed))

timeout_get(tm, elapsed) ==
  CASE tm.block < 0 /\ tm.total < 0 -> -1
    [] tm.block < 0 /\ tm.total >= 0 -> NotNegative(tm.total - elapsed)
    [] tm.block >= 0 /\ tm.total < 0 -> tm.block
    [] tm.block >= 0 /\ tm.total >= 0 -> Both(tm, elapsed)

\* Slip for timeout_getretry: a block limit alone begins anew.
GetRetryAnew(tm, elapsed) == timeout_get(tm, elapsed)

timeout_getretry(tm, elapsed) ==
  CASE tm.block < 0 /\ tm.total < 0 -> -1
    [] tm.block < 0 /\ tm.total >= 0 -> NotNegative(tm.total - elapsed)
    [] tm.block >= 0 /\ tm.total < 0 -> NotNegative(tm.block - elapsed)
    [] tm.block >= 0 /\ tm.total >= 0 -> Both(tm, elapsed)

\* Slip for PollTime: no time left is taken for no limit.
PollForever(left) == IF left < Milli THEN -1 ELSE (left \div Milli) * Milli

\* The argument of poll: what is left in whole milliseconds, or no limit.
PollTime(left) == IF left < 0 THEN -1 ELSE (left \div Milli) * Milli
=============================================================================
