----------------------------- MODULE MariaDBOps -----------------------------
(***************************************************************************)
(* The wrappers of detail/mariadb_ops.hpp around MariaDB's non-blocking    *)
(* calls.  A call is started once and continued until it finishes; each    *)
(* start or continuation that does not finish returns the mask of events   *)
(* the library waits for.  The effect of the finished call is that of the  *)
(* blocking one.                                                           *)
(***************************************************************************)
EXTENDS MySQLOps

CONSTANT Waits              \* masks of events the library may wait for

Events == {"read", "write", "except", "timeout"}

ASSUME WaitsAssumption == Waits \subseteq (SUBSET Events) \ {{}}

Calls == {"connect", "query", "next", "store"}

finish == {}

(* The call goes to the server: otherwise the library answers at once.     *)
Blocks(call, h) ==
    CASE call = "connect" -> h.st = "init"
      [] call = "query"   -> h.st = "up" /\ ~h.unread /\ h.more = 0
      [] call = "next"    -> h.st = "up" /\ ~h.unread /\ h.more > 0
      [] call = "store"   -> h.st = "up" /\ h.unread

LibOutcomes(call, h, multi) ==
    CASE call = "connect" -> LibConnect(h, multi)
      [] call = "query"   -> LibQuery(h)
      [] call = "next"    -> LibNext(h)
      [] call = "store"   -> LibStore(h)

(* A finished call is judged by error_wrapper().                           *)
Finished(outcomes) ==
    {[h |-> r.h, ec |-> error_wrapper(r.failed, r.h), res |-> r.res,
      status |-> finish] : r \in outcomes}

(* Mutant: the unknown error, set on every mask, is not replaced.          *)
Suspended_unknown(call, h) ==
    {[h |-> [h EXCEPT !.errno = FALSE], ec |-> "client", res |-> FALSE,
      status |-> w] : w \in Waits}

(* What mysql_errno() says while the call waits: sending a command clears  *)
(* it, mysql_store_result() does not, mysql_real_connect() may or may not. *)
ErrnoOf(call, h) ==
    CASE call \in {"query", "next"} -> {FALSE}
      [] call = "store" -> {h.errno}
      [] call = "connect" -> {FALSE, h.errno}

(* A call that waits is judged by error_wrapper() as well, with the -1 or  *)
(* NULL that its result was initialised with: the unknown error set before *)
(* is replaced by what mysql_errno() says, be it of an earlier call.       *)
Suspended(call, h) ==
    UNION {LET s == [h EXCEPT !.errno = e]
           IN  {[h |-> s, ec |-> error_wrapper(TRUE, s), res |-> FALSE,
                 status |-> w] : w \in Waits} : e \in ErrnoOf(call, h)}

mysql_start(call, h, multi, wait) ==
    Finished(LibOutcomes(call, h, multi))
    \cup (IF wait /\ Blocks(call, h) THEN Suspended(call, h) ELSE {})

mysql_continue(call, h, multi, wait) ==
    Finished(LibOutcomes(call, h, multi))
    \cup (IF wait THEN Suspended(call, h) ELSE {})

(* Starting a call while another one is suspended is undefined.            *)
mysql_start_busy(h) == Finished(LibUndefined(h))
=============================================================================
