\* One worker.
CONSTANTS
  a = a
  b = b
  w1 = w1
  w2 = w2
  Path <- MCPath
  Requests <- MCRequests
  Worker = {w1}
  Trouble = {}
SPECIFICATION Spec
PROPERTY AbsentIsTold
