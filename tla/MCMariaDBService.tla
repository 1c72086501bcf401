-------------------------- MODULE MCMariaDBService --------------------------
(* Instances of MariaDBService for TLC.                                    *)
EXTENDS MariaDBServiceRefinement, TLC

Symmetry == Permutations(Ops) \cup Permutations(Fds)

(* Masks with an event that async_wait_mysql() waits for.                  *)
MCWaits == {{"read"}, {"write", "except"}, {"timeout"}}

(* One wait for the socket and one for the timer.                          *)
MCCloseWaits == {{"read"}, {"timeout"}}

(* A call with a timeout: the library waits for the socket until then.     *)
MCTimeoutWaits == {{"read", "timeout"}}
=============================================================================
