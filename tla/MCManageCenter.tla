--------------------------- MODULE MCManageCenter ---------------------------
(* Instances of ManageCenter. *)
EXTENDS ManageCenter, TLC

\* Workers are interchangeable, and so are devices.
Interchangeable == Permutations(Worker) \cup Permutations(Device)
=============================================================================
