\* Overlapping requests and every kind of trouble.
CONSTANTS
  d1 = d1
  d2 = d2
  w1 = w1
  w2 = w2
  Nil = Nil
  Disk = {d1, d2}
  Worker = {w1, w2}
  Trouble = {"db", "mkfs", "busy", "mount", "unplug", "crash"}
  MaxLayers = 2
SPECIFICATION Spec
INVARIANTS SoloHeals OrderlyPool
SYMMETRY WorkerSymmetry
