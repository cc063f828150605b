\* Every kind of trouble; a pool on an address that is configured or not; three
\* slices, two workers, two crashes.
CONSTANTS
  MaxRecnt = 3
  Trouble = {"down", "break", "deadlock", "lost", "sqlerror"}
  s = s
  d = d
  a = a
  c = c
  r1 = r1
  r2 = r2
  NoMemb = NoMemb
  Raised = Raised
  Name = {s, d}
  Addr = {a, c}
  Req = {r1, r2}
  Config <- LinkLua
  NewAddr = {a, c}
  RedisRecnt = 2
  RedisTrouble = {"down", "lost", "refused"}
  w1 = w1
  w2 = w2
  N = 3
  Worker = {w1, w2}
  MaxCrash = 2
SPECIFICATION RetrySpec
INVARIANTS
  AtMostOnce
  OkMeansApplied
  OneIncidentIsMasked
  OkExplains
  FailureNeedsFaults
  SuccessIsClean
  AckedIsSomewhere
PROPERTIES
  CommandsEnd
  PoolCommandsEnd
  UploadFinishes
