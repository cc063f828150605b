\* Every driver; one environment, two connections, a statement, two cursors, four objects at a time.
CONSTANTS
  Env = {e}
  Conn = {c1, c2}
  Stmt = {s1}
  Cur = {q1, q2}
  None = None
  MaxLive = 4
  MaxLock = 3
SPECIFICATION SqlSpec
SYMMETRY Interchangeable
CHECK_DEADLOCK FALSE
INVARIANTS CountsAreTrue RegistryKeepsParents NoStrayUse HandlesFreed TransactionsHold
