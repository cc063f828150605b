------------------------------ MODULE MCLuaSql ------------------------------
(* Instances of LuaSql. *)
EXTENDS LuaSql, TLC

Interchangeable == Permutations(Conn) \cup Permutations(Stmt) \cup Permutations(Cur)
=============================================================================
