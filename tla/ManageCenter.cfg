\* Two workers, two devices with two codes each, a code lives for one tick.
CONSTANTS
  Worker = {w1, w2}
  Device = {d1, d2}
  Life = 1
  LastTime = 2
  MaxCode = 2
SPECIFICATION Spec
SYMMETRY Interchangeable
INVARIANTS OneGuessPerWorker OneKeyPerDevice LatestCodeIsKept
