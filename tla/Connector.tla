----------------------------- MODULE Connector ------------------------------
(***************************************************************************)
(* The blocking calls of basic_connector on mysql_service, with the        *)
(* results iterator and execute() on top of them, and async_execute().     *)
(* One user calls them one after another; what makes them hard is the      *)
(* state that calls leave behind: in the library, in the implementation,   *)
(* and in the error_code object that the user passes to one call after     *)
(* another.                                                                *)
(***************************************************************************)
EXTENDS BlockingCalls

VARIABLES
    impl,           \* the implementation
    mysql,          \* its MYSQL handle
    rows,           \* mysql_affected_rows()
    ec,             \* the user's error_code object
    exec,           \* async_execute(): "idle", its query_handler is "queued" or
                    \* "expired", or the error its execute_handler is posted with
    it,             \* a results_iterator is at a result
    told,           \* the last call and what it told the user
    entered,        \* history: the last call took a raw handle to the library
    careless        \* history: what the user did that a careful one avoids

vars == <<impl, mysql, rows, ec, exec, it, told, entered, careless>>

(* "stale_ec": store_result(ec) was given the error of an earlier call;    *)
(* "reconnect": connect() was called on a connected connector.             *)
Habits == {"stale_ec", "reconnect"}

Implementation ==
    [initialized : BOOLEAN, flags : BOOLEAN, first_result_stored : BOOLEAN,
     last_result : BOOLEAN]

(* Mutant: first_result_stored is not initialised.                         *)
NewImplementation_uninitialised ==
    [initialized |-> FALSE, flags |-> FALSE, last_result |-> FALSE]

NewImplementation ==
    [initialized |-> FALSE, flags |-> FALSE, first_result_stored |-> FALSE,
     last_result |-> FALSE]

Calls == {"none", "open", "close", "connect", "query", "execute",
          "async_execute", "store_result", "query_result", "set_option",
          "autocommit", "commit", "rollback", "affected_rows", "cancel",
          "results_iterator", "increment"}

(* Affected rows: none, some, or the all-ones value that says unknown.     *)
Rows == {"0", "n", "~0"}

TypeOK ==
    /\ impl \in Implementation
    /\ mysql \in Handle
    /\ rows \in Rows
    /\ ec \in ErrorCodes
    /\ exec \in {"idle", "queued", "expired"} \cup ErrorCodes
    /\ it \in BOOLEAN
    /\ told \in [call : Calls, ec : ErrorCodes, rows : Rows]
    /\ entered \in BOOLEAN
    /\ careless \subseteq Habits

Init ==
    /\ impl = NewImplementation
    /\ mysql = RawHandle
    /\ rows \in Rows          \* the memory of a handle that was not initialised
    /\ ec = "ok" /\ exec = "idle" /\ it = FALSE
    /\ told = [call |-> "none", ec |-> "ok", rows |-> "0"]
    /\ entered = FALSE /\ careless = {}

(* A call ends: the overload that takes an error_code leaves e in it, the  *)
(* other one throws e and keeps the user's object out of it.               *)
Tells(call, own, e, n) ==
    /\ ec' = IF own THEN e ELSE ec
    /\ told' = [call |-> call, ec |-> e, rows |-> n]

-----------------------------------------------------------------------------
open(own) ==
    \E r \in Open(impl, mysql) :
       /\ mysql' = r.h /\ impl' = r.i
       /\ Tells("open", own, r.ec, "0")
       /\ entered' = FALSE
       /\ UNCHANGED <<rows, it, careless>>

(* A new cancelation token: an operation that is still queued finds its    *)
(* own expired.                                                            *)
Expire == exec' = IF exec = "queued" THEN "expired" ELSE exec

close ==
    /\ impl.initialized
    /\ mysql' = RawHandle
    /\ impl' = Closed(impl)
    /\ Expire
    /\ Tells("close", FALSE, "ok", "0")
    /\ entered' = FALSE /\ careless' = {}
    /\ UNCHANGED <<rows, it>>

cancel ==
    /\ exec # "idle"           \* no other call can be cancelled
    /\ Expire
    /\ Tells("cancel", FALSE, "ok", "0")
    /\ entered' = FALSE
    /\ UNCHANGED <<impl, mysql, rows, it, careless>>

connect(flags, own) ==
    /\ careless' = careless \cup {k \in {"reconnect"} : mysql.st = "up"}
    /\ \E r \in Connect(impl, mysql, flags) :
          /\ mysql' = r.h /\ impl' = r.i
          /\ Tells("connect", own, r.ec, "0")
          /\ entered' = FALSE
          /\ UNCHANGED <<rows, it>>

-----------------------------------------------------------------------------
(* What mysql_affected_rows() says after query(), which may not have got   *)
(* as far as the library.                                                  *)
LibAffected(r) ==
    IF r.ec = "not_initialized" THEN {rows}
    ELSE IF r.ec # "ok" \/ r.h.columns THEN {"~0"} ELSE {"0", "n"}

query(own) ==
    \E r \in QueryResult(impl, mysql) :
       /\ mysql' = r.h /\ impl' = r.i
       /\ rows' \in LibAffected(r)
       /\ Tells("query", own, r.ec, "0")
       /\ entered' = (mysql.st = "raw" /\ r.ec # "not_initialized")
       /\ UNCHANGED <<it, careless>>

(* execute() asks for the affected rows when the query succeeded.          *)
execute(own) ==
    \E r \in QueryResult(impl, mysql) :
       /\ mysql' = r.h /\ impl' = r.i
       /\ rows' \in LibAffected(r)
       /\ Tells("execute", own, r.ec, IF r.ec = "ok" THEN rows' ELSE "0")
       /\ entered' = (mysql.st = "raw" /\ r.ec # "not_initialized")
       /\ UNCHANGED <<it, careless>>

(* It does not ask whether the connector is open.                          *)
affected_rows ==
    /\ Tells("affected_rows", FALSE, "ok", rows)
    /\ entered' = (mysql.st = "raw")
    /\ UNCHANGED <<impl, mysql, rows, it, careless>>

(***************************************************************************)
(* async_execute() gives execute_handler to async_query(): it posts it at  *)
(* once if the connector is not open, and queues a query_handler           *)
(* otherwise, which the work thread calls.  Until execute_handler has run  *)
(* the user only calls cancel() or close().                                *)
(***************************************************************************)
async_execute ==
    /\ exec = "idle"
    /\ exec' = IF impl.initialized THEN "queued" ELSE "not_initialized"
    /\ Tells("none", FALSE, "ok", "0")
    /\ entered' = FALSE
    /\ UNCHANGED <<impl, mysql, rows, it, careless>>

query_handler ==
    \/ /\ exec = "expired"
       /\ exec' = "aborted" /\ entered' = FALSE
       /\ UNCHANGED <<impl, mysql, rows, ec, told, it, careless>>
    \/ /\ exec = "queued"
       /\ \E r \in QueryResult(impl, mysql) :
             /\ mysql' = r.h /\ impl' = r.i
             /\ rows' \in LibAffected(r)
             /\ exec' = r.ec
       /\ entered' = (mysql.st = "raw")
       /\ UNCHANGED <<ec, told, it, careless>>

(* It asks for the affected rows, now that it runs, if the query failed.   *)
execute_handler ==
    /\ exec \in ErrorCodes
    /\ exec' = "idle"
    /\ Tells("async_execute", FALSE, exec, IF exec # "ok" THEN rows ELSE "0")
    /\ entered' = (mysql.st = "raw" /\ exec # "ok")
    /\ UNCHANGED <<impl, mysql, rows, it, careless>>

Store(own, e) ==
    \E r \in StoreResult(impl, mysql, e) :
       /\ mysql' = r.h /\ impl' = r.i
       /\ Tells("store_result", own, r.ec, "0")
       /\ entered' = (mysql.st = "raw" /\ ~impl.first_result_stored /\ e = "ok")
       /\ UNCHANGED rows

store_result(own) ==
    /\ Store(own, IF own THEN ec ELSE "ok")
    /\ careless' = careless \cup {k \in {"stale_ec"} : own /\ ec # "ok"}
    /\ UNCHANGED it

(* query(), and store_result() with the same error code if it succeeded.   *)
query_result(own) ==
    \E q \in QueryResult(impl, mysql) :
    \E r \in IF q.ec = "ok" THEN StoreResult(q.i, q.h, "ok") ELSE {q} :
       /\ mysql' = r.h /\ impl' = r.i
       /\ rows' \in LibAffected(q)
       /\ Tells("query_result", own, r.ec, "0")
       /\ entered' = (mysql.st = "raw" /\ r.ec # "not_initialized")
       /\ UNCHANGED <<it, careless>>

(* A connector that is not open is found to be so, and used nevertheless.  *)
set_option(own) ==
    /\ \E r \in mysql_options(mysql) :
          /\ mysql' = r.h
          /\ Tells("set_option", own, r.ec, "0")
    /\ entered' = (mysql.st = "raw")
    /\ UNCHANGED <<impl, rows, it, careless>>

(* Statements that have no result, and nothing to do with the result state *)
(* of the implementation: what was stored of the last query stays.         *)
Transact(call, own, calls) ==
    \E r \in calls :
       /\ mysql' = r.h /\ impl' = r.i
       /\ rows' = IF r.ec = "not_initialized" THEN rows
                  ELSE IF r.ec = "ok" THEN "0" ELSE "~0"
       /\ Tells(call, own, r.ec, "0")
       /\ entered' = (mysql.st = "raw" /\ r.ec # "not_initialized")
       /\ UNCHANGED <<it, careless>>

autocommit(own) == Transact("autocommit", own, Autocommit(impl, mysql))

commit(own) == Transact("commit", own, Commit(impl, mysql))

rollback(own) == Transact("rollback", own, Rollback(impl, mysql))

-----------------------------------------------------------------------------
(***************************************************************************)
(* results_iterator: it is made on an open connector, or throws, and       *)
(* stores the next result whenever it is made or incremented until there   *)
(* is none.  A result that cannot be stored throws.                        *)
(***************************************************************************)
increment ==
    IF has_more_results(impl, mysql)
    THEN Store(FALSE, "ok") /\ it' = (told'.ec = "ok") /\ UNCHANGED careless
    ELSE /\ it' = FALSE
         /\ Tells("increment", FALSE, "ok", "0")
         /\ entered' = FALSE
         /\ UNCHANGED <<impl, mysql, rows, careless>>

IteratorBegin ==
    /\ ~it
    /\ \/ impl.initialized /\ increment
       \/ /\ ~impl.initialized
          /\ Tells("results_iterator", FALSE, "not_initialized", "0")
          /\ entered' = FALSE
          /\ UNCHANGED <<impl, mysql, rows, it, careless>>

IteratorIncrement == it /\ increment

BlockingCall ==
    \/ affected_rows \/ IteratorBegin \/ IteratorIncrement
    \/ \E own \in BOOLEAN :
          \/ open(own) \/ query(own) \/ execute(own) \/ store_result(own)
          \/ query_result(own) \/ set_option(own)
          \/ autocommit(own) \/ commit(own) \/ rollback(own)
          \/ \E flags \in BOOLEAN : connect(flags, own)

Next ==
    \/ close \/ cancel \/ async_execute \/ query_handler \/ execute_handler
    \/ exec = "idle" /\ UNCHANGED exec /\ BlockingCall

Spec == Init /\ [][Next]_vars

-----------------------------------------------------------------------------
(***************************************************************************)
(* Properties.                                                             *)
(***************************************************************************)
Consumed == ~mysql.unread /\ ~mysql_more_results(mysql)

(* An iterator that reached its end has taken every result of the          *)
(* statement: nothing is left in the library that would make it refuse the *)
(* next one, unless an earlier error or other flags misled store_result()  *)
(* or has_more_results().                                                  *)
IterationComplete ==
    told.call = "increment" /\ mysql.st = "up" /\ careless = {} => Consumed

(* As mysql_service.hpp says, first_result_stored tells that the first     *)
(* result set of the last query is already stored: it no longer waits in   *)
(* the library, whatever was refused or failed in between.  Only a stale   *)
(* error given to store_result(ec), which returns with it before the       *)
(* store, makes it untrue.                                                 *)
FirstResultStored ==
    impl.first_result_stored /\ "stale_ec" \notin careless => ~mysql.unread

(* As error.hpp says, no_more_results means that there are no more result  *)
(* sets.  Only the flags of a connect() that was refused, or a first       *)
(* result that was skipped, make it untrue.                                *)
NoMoreResults ==
    told.ec = "no_more_results" /\ mysql.st = "up" /\ careless = {} => Consumed

(* Of all the calls only set_option(), which finds the connector closed    *)
(* and goes on, store_result(), autocommit() and affected_rows(), which do *)
(* not ask, and execute_handler, which calls affected_rows() when it is    *)
(* given an error, take a handle to the library that is not initialised.   *)
LibraryNeedsHandle ==
    entered =>
        \/ told.call \in {"set_option", "store_result", "autocommit",
                          "affected_rows"}
        \/ told.call = "async_execute" /\ told.ec # "ok"

(* async_execute() tells its handler how many rows were affected.          *)
AsyncExecuteTells ==
    told.call = "async_execute" /\ told.ec = "ok" => told.rows = rows
=============================================================================
