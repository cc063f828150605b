\* Two workers, requests that collide and requests that do not.
CONSTANTS
  a = a
  b = b
  w1 = w1
  w2 = w2
  Path <- MCPath
  Requests <- MCRequests
  Worker = {w1, w2}
  Trouble = {"full", "xdev", "crash"}
SPECIFICATION Spec
SYMMETRY WorkerSymmetry
INVARIANTS TypeOK KeptStays UndisturbedDoWhatTheySay
