--------------------------- MODULE MCMySQLService ---------------------------
(***************************************************************************)
(* TLC instances of MySQLService.                                          *)
(***************************************************************************)
EXTENDS MySQLServiceRefinement, TLC

Symmetry == Permutations(Connectors) \cup Permutations(Ops)
                \cup Permutations(Threads)

(* The work thread is not about to call the library with a handle that is  *)
(* not initialised, of which anything could come.                          *)
LibraryGetsHandle ==
    \A t \in Threads : pc[t] \in {"next", "lib"} => mysql[conn(t)].st # "raw"
=============================================================================
