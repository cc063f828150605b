\* One careful administrator, enrollments at any time, with every fault and with none.
CONSTANTS
  User = {u1, u2}
  Password = {p1, p2, p3}
  BadPassword = {p3}
  NoPassword = NoPassword
  NoUser = NoUser
  NoFile = NoFile
  NoList = NoList
  Worker = {w1, w2}
  AdminWorker = {w1}
  Op = {"enroll", "accept", "reject", "remove"}
  Fault = {"mysql", "chown", "file", "pool", "crash"}
  CarefulAdmin = TRUE
SPECIFICATION Spec
SYMMETRY UserSymmetry
INVARIANTS OneOwner AcceptedHasAccount ServicesMirrorTable SuccessHeals
