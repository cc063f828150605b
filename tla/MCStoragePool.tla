---------------------------- MODULE MCStoragePool ----------------------------
(* Instances of StoragePool. *)
EXTENDS StoragePool, TLC
CONSTANTS d1, d2, w1, w2
WorkerSymmetry == Permutations(Worker)
=============================================================================
