--------------------------- MODULE BlockingCalls ----------------------------
(***************************************************************************)
(* What the blocking calls of a service do with an implementation record i *)
(* and its MYSQL handle h: the set of the records and handles they leave   *)
(* behind and the error codes they report.  mysql_service and              *)
(* mariadb_service have these calls in common, line by line but for        *)
(* set_option().                                                           *)
(***************************************************************************)
EXTENDS MySQLOps

Outcomes(i, calls) == {[i |-> i, h |-> r.h, ec |-> r.ec] : r \in calls}

NotOpen(i, h) == {[i |-> i, h |-> h, ec |-> "not_initialized"]}

Open(i, h) ==
    IF i.initialized THEN {[i |-> i, h |-> h, ec |-> "ok"]}
    ELSE {[i |-> [i EXCEPT !.initialized = (r.ec = "ok")], h |-> r.h,
           ec |-> r.ec] : r \in mysql_init(h)}

(* The flags are kept whether or not the connection was made with them.    *)
Connect(i, h, flags) ==
    UNION {IF o.ec # "ok" THEN {o}
           ELSE Outcomes([o.i EXCEPT !.flags = flags],
                         mysql_real_connect(o.h, flags)) : o \in Open(i, h)}

Closed(i) == [i EXCEPT !.initialized = FALSE, !.last_result = FALSE,
                       !.first_result_stored = FALSE]

(* autocommit() does not ask whether the connection is open, the other two *)
(* do.                                                                     *)
Autocommit(i, h) == Outcomes(i, mysql_autocommit(h))

Commit(i, h) ==
    IF i.initialized THEN Outcomes(i, mysql_commit(h)) ELSE NotOpen(i, h)

Rollback(i, h) ==
    IF i.initialized THEN Outcomes(i, mysql_rollback(h)) ELSE NotOpen(i, h)

(* Mutant: query() does not ask whether the connection is open.            *)
QueryResult_unopened(i, h) ==
    {[i |-> [i EXCEPT !.last_result = FALSE, !.first_result_stored = FALSE],
      h |-> r.h, ec |-> r.ec] : r \in mysql_real_query(h)}

(* Mutant: query() keeps first_result_stored.                              *)
QueryResult_kept(i, h) ==
    IF ~i.initialized THEN NotOpen(i, h)
    ELSE {[i |-> [i EXCEPT !.last_result = FALSE], h |-> r.h, ec |-> r.ec] :
             r \in mysql_real_query(h)}

QueryResult(i, h) ==
    IF ~i.initialized THEN NotOpen(i, h)
    ELSE {[i |-> [i EXCEPT !.last_result = FALSE, !.first_result_stored = FALSE],
           h |-> r.h, ec |-> r.ec] : r \in mysql_real_query(h)}

(* The step to the result that is to be stored.  Only the calls of the     *)
(* library clear the error code e, and on the first result there is none.  *)
Advanced(i, h, e) ==
    IF ~i.first_result_stored THEN {[h |-> h, ec |-> e]}
    ELSE IF ~has_more_results(i, h) THEN {[h |-> h, ec |-> "no_more_results"]}
    ELSE {[h |-> r.h, ec |-> r.ec] : r \in mysql_next_result(h)}

Stored(i, h) ==
    UNION {{[i |-> [i EXCEPT !.last_result = r.res], h |-> r.h, ec |-> f] :
               f \in IF r.res THEN mysql_fetch_row(r.h, r.ec) ELSE {r.ec}} :
           r \in mysql_store_result(h)}

StoreResult(i, h, e) ==
    LET j == [i EXCEPT !.first_result_stored = TRUE,
                 !.last_result = @ /\ ~i.first_result_stored]
    IN  UNION {IF a.ec = "ok" THEN Stored(j, a.h)
               ELSE {[i |-> j, h |-> a.h, ec |-> a.ec]} :
               a \in Advanced(i, h, e)}
=============================================================================
