---------------------------- MODULE MCFileTree ----------------------------
(* Instances of FileTree: a directory chain of three levels and a path     *)
(* beside it.                                                              *)
EXTENDS FileTree, TLC
CONSTANTS a, b, w1, w2
MCPath == {<<a>>, <<a, a>>, <<a, a, a>>, <<b>>}

\* A directory is not renamed to a path below or above it, which the code refuses.
MCRequests ==
  ((Op \ {"rename"}) \X MCPath)
    \cup {<<"rename", p, <<b>> >> : p \in MCPath \ {<<b>>}}
    \cup {<<"rename", <<b>>, p>> : p \in MCPath \ {<<b>>}}

WorkerSymmetry == Permutations(Worker)
=============================================================================
