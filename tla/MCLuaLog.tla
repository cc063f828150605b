------------------------------- MODULE MCLuaLog -------------------------------
(* Instances of LuaLog. *)
EXTENDS LuaLog, TLC

\* Userdata and descriptors are interchangeable.
Interchangeable == Permutations(Handle) \cup Permutations(Fd)
=============================================================================
