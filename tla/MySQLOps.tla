------------------------------ MODULE MySQLOps ------------------------------
(***************************************************************************)
(* The wrappers of detail/mysql_ops.hpp around the blocking C API, and the *)
(* C library behind them.  The library is external: each Lib operator is   *)
(* the set of outcomes the service has to cope with.  An outcome is a      *)
(* record: h is the handle after the call, failed says that the call       *)
(* returned nonzero (or NULL), res that a MYSQL_RES was returned.          *)
(***************************************************************************)
EXTENDS Naturals

CONSTANT MaxMore            \* result sets a query can have after the first

ASSUME MaxMoreAssumption == MaxMore \in Nat

(***************************************************************************)
(* A MYSQL handle.  st: "raw" is memory mysql_init() never saw or          *)
(* mysql_close() already released, "init" an initialised handle without a  *)
(* connection, "up" a connected one.  errno: mysql_errno() is nonzero.     *)
(* unread: a result set waits to be stored.  columns: mysql_field_count()  *)
(* is nonzero.  more: result sets still to come.  multi: the flags the     *)
(* connection was made with let a query return several result sets.        *)
(***************************************************************************)
Handle == [st : {"raw", "init", "up"}, errno : BOOLEAN, unread : BOOLEAN,
           columns : BOOLEAN, more : 0..MaxMore, multi : BOOLEAN]

RawHandle == [st |-> "raw", errno |-> FALSE, unread |-> FALSE,
              columns |-> FALSE, more |-> 0, multi |-> FALSE]

FreshHandle == [RawHandle EXCEPT !.st = "init"]

(* The error codes the library produces: "client" is a mysql_errno() in    *)
(* the client category, the others are the misc errors of error.hpp and    *)
(* operation_aborted of Asio.                                              *)
ErrorCodes == {"ok", "client", "initialization_error", "not_initialized",
               "no_more_results", "autocommit_setting_error", "commit_error",
               "rollback_error", "aborted"}

(* A failed call reports mysql_errno(): value 0 compares as success.       *)
error_wrapper(failed, h) == IF failed /\ h.errno THEN "client" ELSE "ok"

Outcome(h, failed, res) == [h |-> h, failed |-> failed, res |-> res]

Refused(h) == Outcome([h EXCEPT !.errno = TRUE], TRUE, FALSE)

(* Using a handle that is not initialised is undefined: any answer.        *)
LibUndefined(h) == {Refused(h)} \cup
    {Outcome([h EXCEPT !.errno = FALSE], FALSE, r) : r \in BOOLEAN}

(* The server answers with an error, or the connection is lost.            *)
Failures(h) ==
    LET e == [h EXCEPT !.errno = TRUE, !.unread = FALSE]
    IN  {Outcome([e EXCEPT !.more = 0], TRUE, FALSE),
         Outcome([e EXCEPT !.st = "init"], TRUE, FALSE)}

(* The server answers with a result: with or without columns, followed by  *)
(* any number of results the limit lets.                                   *)
Answered(h, c, n) ==
    [h EXCEPT !.errno = FALSE, !.unread = c, !.columns = c, !.more = n]

Answers(h, limit) ==
    {Outcome(Answered(h, a[1], a[2]), FALSE, FALSE) : a \in BOOLEAN \X limit}

LibConnect(h, multi) ==
    CASE h.st = "raw"  -> LibUndefined(h)
      [] h.st = "up"   -> {Refused(h)}          \* CR_ALREADY_CONNECTED
      [] h.st = "init" ->
           {Refused(h),
            Outcome([FreshHandle EXCEPT !.st = "up", !.multi = multi],
                    FALSE, FALSE)}

(* Refused when the connection is gone, or results are still to be read.   *)
LibQuery(h) ==
    IF h.st = "raw" THEN LibUndefined(h)
    ELSE IF h.st = "init" \/ h.unread \/ h.more > 0 THEN {Refused(h)}
    ELSE Failures([h EXCEPT !.columns = FALSE])
         \cup Answers(h, IF h.multi THEN 0..MaxMore ELSE {0})

(* Without a waiting result the call returns NULL and leaves errno alone.  *)
LibStore(h) ==
    IF h.st = "raw" THEN LibUndefined(h)
    ELSE IF ~h.unread THEN {Outcome(h, TRUE, FALSE)}
    ELSE Failures(h) \cup {Outcome([h EXCEPT !.unread = FALSE], FALSE, TRUE)}

(* After the last result the call returns -1, which is not an error.       *)
LibNext(h) ==
    IF h.st = "raw" THEN LibUndefined(h)
    ELSE IF h.unread THEN {Refused(h)}
    ELSE IF h.more = 0 THEN {Outcome([h EXCEPT !.errno = FALSE], TRUE, FALSE)}
    ELSE IF h.st = "init"
         THEN {Refused([h EXCEPT !.columns = FALSE])}
         ELSE Failures([h EXCEPT !.columns = FALSE])
              \cup Answers(h, {h.more - 1})

(* commit, rollback and the setting of autocommit are statements without a *)
(* result.                                                                 *)
LibCommand(h) ==
    IF h.st = "raw" THEN LibUndefined(h)
    ELSE IF h.st = "init" \/ h.unread \/ h.more > 0 THEN {Refused(h)}
    ELSE Failures([h EXCEPT !.columns = FALSE])
         \cup {Outcome(Answered(h, FALSE, 0), FALSE, FALSE)}

(***************************************************************************)
(* The wrappers: every one clears ec, calls the library and turns the      *)
(* outcome into an error code.                                             *)
(***************************************************************************)
Wrap(outcomes) ==
    {[h |-> r.h, ec |-> error_wrapper(r.failed, r.h), res |-> r.res] :
        r \in outcomes}

mysql_init(h) ==
    {[h |-> FreshHandle, ec |-> "ok", res |-> FALSE],
     [h |-> h, ec |-> "initialization_error", res |-> FALSE]}

mysql_options(h) == Wrap({Outcome(h, FALSE, FALSE), Refused(h)})

mysql_real_connect(h, multi) == Wrap(LibConnect(h, multi))

mysql_real_query(h) == Wrap(LibQuery(h))

mysql_store_result(h) == Wrap(LibStore(h))

mysql_next_result(h) == Wrap(LibNext(h))

(* A failed command has an error of its own, whatever mysql_errno() says.  *)
Command(h, error) ==
    {[h |-> r.h, ec |-> IF r.failed THEN error ELSE "ok", res |-> FALSE] :
        r \in LibCommand(h)}

mysql_autocommit(h) == Command(h, "autocommit_setting_error")

mysql_commit(h) == Command(h, "commit_error")

mysql_rollback(h) == Command(h, "rollback_error")

mysql_more_results(h) == h.more > 0

mysql_field_count(h) == h.columns

(* Past the last row mysql_fetch_row() returns NULL, so the code that ends *)
(* the loop of result_set::assign() is whatever mysql_errno() still holds; *)
(* a result without rows is not fetched at all.                            *)
mysql_fetch_row(h, ec) ==
    IF h.st = "raw" THEN {"ok", "client"} ELSE {ec, error_wrapper(TRUE, h)}

(* Mutant: the library is not asked.                                       *)
has_more_results_unasked(i, h) ==
    i.initialized /\ (i.flags \/ ~i.first_result_stored)

(* Mutant: the results after the first are forgotten.                      *)
has_more_results_first(i, h) ==
    i.initialized /\ ~i.first_result_stored /\ (i.flags \/ mysql_field_count(h))

(***************************************************************************)
(* implementation::flags and first_result_stored decide with the handle    *)
(* whether there is anything more to store.                                *)
(***************************************************************************)
has_more_results(i, h) ==
    /\ i.initialized
    /\ IF i.flags THEN ~i.first_result_stored \/ mysql_more_results(h)
                  ELSE ~i.first_result_stored /\ mysql_field_count(h)
=============================================================================
