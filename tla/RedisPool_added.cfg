\* A pool on a server that link.lua does not name; nothing fails.
CONSTANTS
  MaxRecnt = 1
  Trouble = {}
  s = s
  d = d
  a = a
  c = c
  r1 = r1
  r2 = r2
  NoMemb = NoMemb
  Raised = Raised
  Name = {s, d}
  Addr = {a, c}
  Req = {r1}
  Config <- LinkLua
  NewAddr = {c}
  RedisRecnt = 2
  RedisTrouble = {}
  w1 = w1
  w2 = w2
  N = 1
  Worker = {w1}
  MaxCrash = 0
SPECIFICATION RetrySpec
INVARIANT AddedPoolsServe
