---------------------------- MODULE MySQLService ----------------------------
(***************************************************************************)
(* mysql_service: the asynchronous operations of amy's blocking connector. *)
(*                                                                         *)
(* The user's threads call the service and run the user's io_service.  An  *)
(* async_ call packs its arguments, a weak copy of the connection's        *)
(* cancelation token and a work guard on the user's io_service into a      *)
(* handler object and posts it to a private work_io_service_, run by one   *)
(* thread that start_work_thread() starts on first use.  That thread       *)
(* executes the handler objects one after another, blocking in the C       *)
(* library, and posts the user's handler with its error code back to the   *)
(* user's io_service.  Meanwhile the user may cancel, close or destroy the *)
(* connector: the implementation record is shared without a lock.          *)
(***************************************************************************)
EXTENDS MySQLOps, Sequences, FiniteSets

CONSTANTS
    Connectors,     \* basic_connector objects of one io_service
    Ops,            \* asynchronous operations the user can start
    Threads,        \* threads that could be spawned for work_io_service_
    None,
    MaxToken,       \* bound: how often a connection is cancelled or closed
    Sequential      \* the user touches a connector (cancel() apart) only
                    \* when none of its operations is in flight

ASSUME NoneAssumption == None \notin Connectors \cup Ops
ASSUME MaxTokenAssumption == MaxToken \in Nat
ASSUME SequentialAssumption == Sequential \in BOOLEAN

VARIABLES
    impl,           \* [Connectors -> implementation]
    mysql,          \* [Connectors -> Handle]: implementation::mysql
    upc,            \* [Connectors -> step of a close() or destructor]
    op,             \* [Ops -> the operation's handler object]
    workq,          \* handler objects posted to work_io_service_
    mainq,          \* completed handlers posted to the user's io_service
    guards,         \* operations whose io_service::work is alive
    threads,        \* work_thread_
    cur,            \* [Threads -> operation a thread executes]
    pc,             \* [Threads -> where in operator() the thread is]
    svc             \* shutdown_service(): "up", "stopping", "down"

vars == <<impl, mysql, upc, op, workq, mainq, guards, threads, cur, pc, svc>>
userVars == <<impl, mysql, upc>>
workerVars == <<threads, cur, pc>>

Kinds == {"connect", "query", "store_result"}

Implementation ==
    [alive : {"yes", "dying", "no"}, initialized : BOOLEAN, flags : BOOLEAN,
     first_result_stored : BOOLEAN, last_result : Ops \cup {None},
     cancelation_token : Nat]

NewImplementation ==
    [alive |-> "yes", initialized |-> FALSE, flags |-> FALSE,
     first_result_stored |-> FALSE, last_result |-> None,
     cancelation_token |-> 0]

(***************************************************************************)
(* A handler object.  cancelation_token is the weak pointer captured by    *)
(* handler_base, flags the flags of async_connect (TRUE: multi results or  *)
(* statements), ec and rs what the user's handler is given (rs: a result   *)
(* set that refers to a MYSQL_RES).  cancelled is a history variable: what *)
(* the operation was doing when the connection was first cancelled.        *)
(***************************************************************************)
Operation ==
    [st : {"fresh", "queued", "running", "posted", "done", "dropped"},
     kind : Kinds, conn : Connectors \cup {None}, cancelation_token : Nat,
     flags : BOOLEAN, ec : ErrorCodes, rs : BOOLEAN,
     cancelled : {"no", "queued", "running"}]

NewOperation ==
    [st |-> "fresh", kind |-> "query", conn |-> None,
     cancelation_token |-> 0, flags |-> FALSE, ec |-> "ok", rs |-> FALSE,
     cancelled |-> "no"]

(* The handler is destroyed: nothing of it is left but its fate.           *)
Gone(st) == [NewOperation EXCEPT !.st = st]

InFlight == {"queued", "running", "posted"}

TypeOK ==
    /\ impl \in [Connectors -> Implementation]
    /\ mysql \in [Connectors -> Handle]
    /\ upc \in [Connectors -> {"idle", "close_state", "close_cancel", "free"}]
    /\ op \in [Ops -> Operation]
    /\ \A o \in Ops : op[o].st \in InFlight => op[o].conn \in Connectors
    /\ workq \in Seq(Ops)
    /\ mainq \in Seq(Ops)
    /\ guards \subseteq Ops
    /\ threads \subseteq Threads
    /\ cur \in [Threads -> Ops \cup {None}]
    /\ pc \in [Threads -> {"none", "idle", "enter", "next", "lib", "reset",
                           "post", "destroy", "exited"}]
    /\ svc \in {"up", "stopping", "down"}

Init ==
    /\ impl = [c \in Connectors |-> NewImplementation]
    /\ mysql = [c \in Connectors |-> RawHandle]
    /\ upc = [c \in Connectors |-> "idle"]
    /\ op = [o \in Ops |-> NewOperation]
    /\ workq = <<>> /\ mainq = <<>> /\ guards = {}
    /\ threads = {}
    /\ cur = [t \in Threads |-> None]
    /\ pc = [t \in Threads |-> "none"]
    /\ svc = "up"

-----------------------------------------------------------------------------
(***************************************************************************)
(* The user's side: open(), cancel(), close(), the destructor, and the     *)
(* three async_ calls.                                                     *)
(***************************************************************************)
Busy(c) == \E o \in Ops : op[o].conn = c /\ op[o].st \in InFlight

(* The user is inside no other call on c and follows the discipline.       *)
MayCall(c) ==
    /\ impl[c].alive = "yes"
    /\ upc[c] = "idle"
    /\ svc # "stopping"
    /\ Sequential => ~Busy(c)

open(c) ==
    /\ MayCall(c)
    /\ ~impl[c].initialized
    /\ \E r \in mysql_init(mysql[c]) :
          /\ mysql' = [mysql EXCEPT ![c] = r.h]
          /\ impl' = [impl EXCEPT ![c].initialized = (r.ec = "ok")]
    /\ UNCHANGED <<upc, op, workq, mainq, guards, workerVars, svc>>

(* The history of the operations that are unfinished when c is cancelled.  *)
Cancelled(c) ==
    [o \in Ops |->
        IF /\ op[o].conn = c
           /\ op[o].st \in {"queued", "running"}
           /\ op[o].cancelled = "no"
        THEN [op[o] EXCEPT !.cancelled = op[o].st]
        ELSE op[o]]

(* Mutant: cancel() that keeps the old token.                              *)
FreshToken_kept(i) == i

(* The old token dies: every weak copy of it that is queued expires.       *)
FreshToken(i) == [i EXCEPT !.cancelation_token = @ + 1]

cancel(c) ==
    /\ impl[c].alive = "yes" /\ upc[c] = "idle" /\ svc # "stopping"
    /\ impl[c].cancelation_token < MaxToken
    /\ impl' = [impl EXCEPT ![c] = FreshToken(@)]
    /\ op' = Cancelled(c)
    /\ UNCHANGED <<mysql, upc, workq, mainq, guards, workerVars, svc>>

(***************************************************************************)
(* implementation::close() in the order of its statements, each of which   *)
(* the work thread can see: mysql_close() and initialized, then the result *)
(* state, and the token last of all.                                       *)
(***************************************************************************)
CloseHandle(c, alive) ==
    /\ mysql' = [mysql EXCEPT ![c] = RawHandle]
    /\ impl' = [impl EXCEPT ![c].initialized = FALSE, ![c].alive = alive]
    /\ upc' = [upc EXCEPT ![c] = "close_state"]

close(c) ==
    /\ MayCall(c)
    /\ impl[c].initialized
    /\ impl[c].cancelation_token < MaxToken
    /\ CloseHandle(c, "yes")
    /\ UNCHANGED <<op, workq, mainq, guards, workerVars, svc>>

(* Mutant: close() that forgets the result set.                            *)
CloseState_keeps(c) ==
    /\ upc[c] = "close_state"
    /\ upc' = [upc EXCEPT ![c] = "close_cancel"]
    /\ UNCHANGED <<impl, mysql, op, workq, mainq, guards, workerVars, svc>>

CloseState(c) ==
    /\ upc[c] = "close_state"
    /\ impl' = [impl EXCEPT ![c].first_result_stored = FALSE,
                            ![c].last_result = None]
    /\ upc' = [upc EXCEPT ![c] = "close_cancel"]
    /\ UNCHANGED <<mysql, op, workq, mainq, guards, workerVars, svc>>

CloseCancel(c) ==
    /\ upc[c] = "close_cancel"
    /\ impl' = [impl EXCEPT ![c] = FreshToken(@)]
    /\ op' = Cancelled(c)
    /\ upc' = [upc EXCEPT ![c] = IF impl[c].alive = "dying" THEN "free"
                                                            ELSE "idle"]
    /\ UNCHANGED <<mysql, workq, mainq, guards, workerVars, svc>>

(* The destructor: destroy() closes an open connection, then the           *)
(* implementation closes itself once more and its memory is released.      *)
destroy(c) ==
    /\ MayCall(c)
    /\ IF impl[c].initialized
       THEN CloseHandle(c, "dying")
       ELSE /\ impl' = [impl EXCEPT ![c].alive = "dying"]
            /\ upc' = [upc EXCEPT ![c] = "free"]
            /\ UNCHANGED mysql
    /\ UNCHANGED <<op, workq, mainq, guards, workerVars, svc>>

Free(c) ==
    /\ upc[c] = "free"
    /\ impl' = [impl EXCEPT ![c] = [FreshToken(@) EXCEPT
                   !.first_result_stored = FALSE, !.last_result = None,
                   !.alive = "no"]]
    /\ op' = Cancelled(c)
    /\ upc' = [upc EXCEPT ![c] = "idle"]
    /\ UNCHANGED <<mysql, workq, mainq, guards, workerVars, svc>>

(* The handler object that handler_base and its subclasses construct.      *)
HandlerObject(c, kind, flags, st, ec) ==
    [st |-> st, kind |-> kind, conn |-> c,
     cancelation_token |-> impl[c].cancelation_token, flags |-> flags,
     ec |-> ec, rs |-> FALSE, cancelled |-> "no"]

(* The user's handler is posted at once, without a handler object; the     *)
(* queue of an io_service that is shut down is discarded.                  *)
PostError(o, c, kind, ec) ==
    /\ op' = [op EXCEPT ![o] =
                 IF svc = "up" THEN HandlerObject(c, kind, FALSE, "posted", ec)
                               ELSE Gone("dropped")]
    /\ mainq' = IF svc = "up" THEN Append(mainq, o) ELSE mainq
    /\ UNCHANGED <<workq, guards, workerVars>>

(* Mutant: a thread for every operation.                                   *)
start_work_thread_always ==
    \E t \in Threads : /\ threads' = threads \cup {t}
                       /\ pc' = [pc EXCEPT ![t] = IF @ = "none" THEN "idle" ELSE @]
                       /\ UNCHANGED cur

(* Mutant: the thread is not started.                                      *)
start_work_thread_never == UNCHANGED workerVars

start_work_thread ==
    IF threads = {}
    THEN \E t \in Threads : /\ threads' = {t}
                            /\ pc' = [pc EXCEPT ![t] = "idle"]
                            /\ UNCHANGED cur
    ELSE UNCHANGED workerVars

(* Mutant: no work guard on the user's io_service.                         *)
PostWork_unguarded(o, c, kind, flags) ==
    /\ start_work_thread
    /\ op' = [op EXCEPT ![o] = HandlerObject(c, kind, flags, "queued", "ok")]
    /\ workq' = Append(workq, o)
    /\ UNCHANGED <<mainq, guards>>

(* Mutant: the operation overtakes the ones before it.                     *)
PostWork_overtakes(o, c, kind, flags) ==
    /\ svc = "up"
    /\ start_work_thread
    /\ op' = [op EXCEPT ![o] = HandlerObject(c, kind, flags, "queued", "ok")]
    /\ workq' = <<o>> \o workq
    /\ guards' = guards \cup {o}
    /\ UNCHANGED mainq

PostWork(o, c, kind, flags) ==
    IF svc = "up"
    THEN /\ start_work_thread
         /\ op' = [op EXCEPT ![o] =
                      HandlerObject(c, kind, flags, "queued", "ok")]
         /\ workq' = Append(workq, o)
         /\ guards' = guards \cup {o}
         /\ UNCHANGED mainq
    ELSE /\ op' = [op EXCEPT ![o] = Gone("dropped")]
         /\ UNCHANGED <<workq, mainq, guards, workerVars>>

(* Mutant: the error of open() is not looked at.                           *)
async_connect_unchecked(o, c, flags) ==
    /\ MayCall(c) /\ op[o].st = "fresh"
    /\ UNCHANGED <<upc, svc>>
    /\ \E r \in mysql_init(mysql[c]) :
          /\ mysql' = [mysql EXCEPT ![c] = r.h]
          /\ impl' = [impl EXCEPT ![c].initialized = (r.ec = "ok")]
          /\ PostWork(o, c, "connect", flags)

async_connect(o, c, flags) ==
    /\ MayCall(c) /\ op[o].st = "fresh"
    /\ UNCHANGED <<upc, svc>>
    /\ \/ /\ impl[c].initialized
          /\ PostWork(o, c, "connect", flags)
          /\ UNCHANGED <<impl, mysql>>
       \/ /\ ~impl[c].initialized
          /\ \E r \in mysql_init(mysql[c]) :
                /\ mysql' = [mysql EXCEPT ![c] = r.h]
                /\ impl' = [impl EXCEPT ![c].initialized = (r.ec = "ok")]
                /\ IF r.ec # "ok" THEN PostError(o, c, "connect", r.ec)
                                  ELSE PostWork(o, c, "connect", flags)

AsyncOnOpen(o, c, kind) ==
    /\ MayCall(c) /\ op[o].st = "fresh"
    /\ IF impl[c].initialized THEN PostWork(o, c, kind, FALSE)
                              ELSE PostError(o, c, kind, "not_initialized")
    /\ UNCHANGED <<userVars, svc>>

async_query(o, c) == AsyncOnOpen(o, c, "query")

async_store_result(o, c) == AsyncOnOpen(o, c, "store_result")

-----------------------------------------------------------------------------
(***************************************************************************)
(* The work thread.                                                        *)
(***************************************************************************)
conn(t) == op[cur[t]].conn

(* Mutant: the handler is posted without its connector.                    *)
Completed_detached(p, ec, rs) ==
    [p EXCEPT !.st = "posted", !.conn = None, !.ec = ec, !.rs = rs]

(* The user's handler goes to the user's io_service with ec and rs.        *)
Completed(p, ec, rs) == [p EXCEPT !.st = "posted", !.ec = ec, !.rs = rs]

PostHandler(t, o, ec, rs) ==
    /\ op' = [op EXCEPT ![o] = Completed(op[o], ec, rs)]
    /\ mainq' = Append(mainq, o)
    /\ pc' = [pc EXCEPT ![t] = "destroy"]

(* run() takes the next handler object; operator() first asks whether its  *)
(* token expired.                                                          *)
Take(t) ==
    /\ pc[t] = "idle" /\ svc = "up" /\ workq # <<>>
    /\ workq' = Tail(workq)
    /\ LET o == Head(workq) IN
       /\ cur' = [cur EXCEPT ![t] = o]
       /\ IF op[o].cancelation_token # impl[op[o].conn].cancelation_token
          THEN PostHandler(t, o, "aborted", FALSE)
          ELSE /\ op' = [op EXCEPT ![o].st = "running"]
               /\ pc' = [pc EXCEPT ![t] = "enter"]
               /\ UNCHANGED mainq
    /\ UNCHANGED <<userVars, guards, threads, svc>>

(* What operator() does before its first call of the library.              *)
Enter(t) ==
    LET o == cur[t]
        c == conn(t)
        i == impl[c]
        freed == [i EXCEPT !.last_result = None]
    IN
    /\ pc[t] = "enter"
    /\ \/ /\ op[o].kind = "connect"
          /\ pc' = [pc EXCEPT ![t] = "lib"]
          /\ UNCHANGED <<impl, op>>
       \/ /\ op[o].kind = "query"
          /\ impl' = [impl EXCEPT ![c] =
                         [freed EXCEPT !.first_result_stored = FALSE]]
          /\ pc' = [pc EXCEPT ![t] = "lib"]
          /\ UNCHANGED op
       \/ /\ op[o].kind = "store_result" /\ ~i.first_result_stored
          /\ impl' = [impl EXCEPT ![c].first_result_stored = TRUE]
          /\ pc' = [pc EXCEPT ![t] = "lib"]
          /\ UNCHANGED op
       \/ /\ op[o].kind = "store_result" /\ i.first_result_stored
          /\ impl' = [impl EXCEPT ![c] = freed]
          /\ IF has_more_results(i, mysql[c])
             THEN /\ pc' = [pc EXCEPT ![t] = "next"]
                  /\ UNCHANGED op
             ELSE /\ pc' = [pc EXCEPT ![t] = "post"]
                  /\ op' = [op EXCEPT ![o].ec = "no_more_results"]
    /\ UNCHANGED <<mysql, upc, workq, mainq, guards, threads, cur, svc>>

(* mysql_next_result() returns.                                            *)
NextResult(t) ==
    LET o == cur[t]
        c == conn(t)
    IN
    /\ pc[t] = "next"
    /\ \E r \in mysql_next_result(mysql[c]) :
          /\ mysql' = [mysql EXCEPT ![c] = r.h]
          /\ op' = [op EXCEPT ![o].ec = r.ec]
          /\ pc' = [pc EXCEPT ![t] = IF r.ec = "ok" THEN "lib" ELSE "post"]
    /\ UNCHANGED <<impl, upc, workq, mainq, guards, threads, cur, svc>>

LibCall(t) ==
    CASE op[cur[t]].kind = "connect" ->
             mysql_real_connect(mysql[conn(t)], op[cur[t]].flags)
      [] op[cur[t]].kind = "query" -> mysql_real_query(mysql[conn(t)])
      [] op[cur[t]].kind = "store_result" -> mysql_store_result(mysql[conn(t)])

(* The library call that does the operation's work returns; a MYSQL_RES    *)
(* that it returns has no owner yet.                                       *)
LibReturn(t) ==
    LET o == cur[t]
        c == conn(t)
    IN
    /\ pc[t] = "lib"
    /\ \E r \in LibCall(t) :
          /\ mysql' = [mysql EXCEPT ![c] = r.h]
          /\ op' = [op EXCEPT ![o].ec = r.ec, ![o].rs = r.res]
    /\ pc' = [pc EXCEPT ![t] = IF op[o].kind = "store_result" THEN "reset"
                                                             ELSE "post"]
    /\ UNCHANGED <<impl, upc, workq, mainq, guards, threads, cur, svc>>

(* last_result.reset() takes what mysql_store_result() returned, whatever  *)
(* became of the connection in between.                                    *)
Reset(t) ==
    LET o == cur[t] IN
    /\ pc[t] = "reset"
    /\ impl' = [impl EXCEPT ![conn(t)].last_result =
                   IF op[o].rs THEN o ELSE None]
    /\ pc' = [pc EXCEPT ![t] = "post"]
    /\ UNCHANGED <<mysql, upc, op, workq, mainq, guards, threads, cur, svc>>

(* Mutant: result_set::assign() does not ask whether there is a result.    *)
Assign_unasked(c, ec) ==
    {[ec |-> e, rs |-> e = "ok"] : e \in mysql_fetch_row(mysql[c], ec)}

(* result_set::assign(): what the user's store_result handler is given.    *)
Assign(c, ec) ==
    IF impl[c].last_result = None
    THEN {[ec |-> ec, rs |-> FALSE]}
    ELSE {[ec |-> e, rs |-> e = "ok"] : e \in mysql_fetch_row(mysql[c], ec)}

Post(t) ==
    LET o == cur[t]
        c == conn(t)
    IN
    /\ pc[t] = "post"
    /\ \/ /\ op[o].kind = "connect"
          /\ impl' = [impl EXCEPT ![c].flags = op[o].flags]
          /\ PostHandler(t, o, op[o].ec, FALSE)
       \/ /\ op[o].kind = "query"
          /\ PostHandler(t, o, op[o].ec, FALSE)
          /\ UNCHANGED impl
       \/ /\ op[o].kind = "store_result"
          /\ \E a \in IF op[o].ec = "ok" THEN Assign(c, "ok")
                      ELSE {[ec |-> op[o].ec, rs |-> FALSE]} :
                PostHandler(t, o, a.ec, a.rs)
          /\ UNCHANGED impl
    /\ UNCHANGED <<mysql, upc, workq, guards, threads, cur, svc>>

(* operator() returned: the handler object and its work guard go away.     *)
Finish(t) ==
    /\ pc[t] = "destroy"
    /\ guards' = guards \ {cur[t]}
    /\ cur' = [cur EXCEPT ![t] = None]
    /\ pc' = [pc EXCEPT ![t] = "idle"]
    /\ UNCHANGED <<userVars, op, workq, mainq, threads, svc>>

(* run() returns only after stop(): until then work_ keeps it waiting.     *)
Exit(t) ==
    /\ pc[t] = "idle" /\ svc = "stopping"
    /\ pc' = [pc EXCEPT ![t] = "exited"]
    /\ UNCHANGED <<userVars, op, workq, mainq, guards, threads, cur, svc>>

-----------------------------------------------------------------------------
(***************************************************************************)
(* The user's io_service: running a completed handler, and the shutdown    *)
(* of its services.                                                        *)
(***************************************************************************)
RunHandler ==
    /\ svc = "up" /\ mainq # <<>>
    /\ op' = [op EXCEPT ![Head(mainq)] = Gone("done")]
    /\ mainq' = Tail(mainq)
    /\ UNCHANGED <<userVars, workq, guards, workerVars, svc>>

ShutdownStop ==
    /\ svc = "up"
    /\ \A c \in Connectors : upc[c] = "idle"
    /\ svc' = "stopping"
    /\ UNCHANGED <<userVars, op, workq, mainq, guards, workerVars>>

(* Mutant: the shutdown waits until the queue is empty.                    *)
ShutdownJoin_drained ==
    /\ svc = "stopping" /\ workq = <<>>
    /\ \A t \in threads : pc[t] = "exited"
    /\ svc' = "down"
    /\ mainq' = <<>> /\ threads' = {}
    /\ op' = [o \in Ops |-> IF op[o].st = "posted" THEN Gone("dropped") ELSE op[o]]
    /\ UNCHANGED <<userVars, workq, guards, cur, pc>>

(* join() returned: the work queue is destroyed with its handler objects,  *)
(* then the user's io_service with the handlers that were not run.         *)
ShutdownJoin ==
    /\ svc = "stopping"
    /\ \A t \in threads : pc[t] = "exited"
    /\ svc' = "down"
    /\ workq' = <<>> /\ mainq' = <<>> /\ threads' = {}
    /\ guards' = {o \in guards : op[o].st # "queued"}
    /\ op' = [o \in Ops |-> IF op[o].st \in {"queued", "posted"}
                            THEN Gone("dropped") ELSE op[o]]
    /\ UNCHANGED <<userVars, cur, pc>>

-----------------------------------------------------------------------------
UserStep(c) ==
    \/ open(c) \/ cancel(c) \/ close(c) \/ destroy(c)
    \/ \E o \in Ops : \/ \E flags \in BOOLEAN : async_connect(o, c, flags)
                      \/ async_query(o, c)
                      \/ async_store_result(o, c)

CloseStep(c) == CloseState(c) \/ CloseCancel(c) \/ Free(c)

WorkerStep(t) ==
    \/ Take(t) \/ Enter(t) \/ NextResult(t) \/ LibReturn(t)
    \/ Reset(t) \/ Post(t) \/ Finish(t) \/ Exit(t)

Shutdown == ShutdownStop \/ ShutdownJoin

Next ==
    \/ \E c \in Connectors : UserStep(c) \/ CloseStep(c)
    \/ \E t \in Threads : WorkerStep(t)
    \/ RunHandler
    \/ Shutdown

Spec == Init /\ [][Next]_vars

(***************************************************************************)
(* The work thread runs whenever it has something to do (every library     *)
(* call returns), the user keeps running the io_service, and a call that   *)
(* was entered is completed.  Nothing obliges the user to make a call.     *)
(***************************************************************************)
Fairness ==
    /\ \A t \in Threads : WF_vars(WorkerStep(t))
    /\ \A c \in Connectors : WF_vars(CloseStep(c))
    /\ WF_vars(RunHandler)
    /\ WF_vars(ShutdownJoin)

FairSpec == Spec /\ Fairness

-----------------------------------------------------------------------------
(***************************************************************************)
(* Properties of every use.                                                *)
(***************************************************************************)
Executing(t) == pc[t] \in {"enter", "next", "lib", "reset", "post"}

(* At most one thread is inside operator(): start_work_thread() never      *)
(* spawns a second one, so the C library is never entered twice at once    *)
(* from asynchronous operations, however many connectors share the service *)
(* and whatever they do.                                                   *)
SerialWorker ==
    \A t, u \in Threads : Executing(t) /\ Executing(u) => t = u

(* A completed operation reports operation_aborted exactly when its        *)
(* connection was cancelled, closed or destroyed while it was still in the *)
(* queue: the weak copy of the token made by handler_base expires for      *)
(* these operations and for no others, in particular not for operations    *)
(* started after the cancel() or on another connector.                     *)
AbortIffCancelled ==
    \A o \in Ops : op[o].st = "posted" =>
        (op[o].ec = "aborted" <=> op[o].cancelled = "queued")

(* run() of the user's io_service does not return while a handler is owed: *)
(* the work guard in handler_base lives until the completion is posted.    *)
RunOutlastsOperations ==
    guards = {} /\ mainq = <<>> => \A o \in Ops : op[o].st \notin InFlight

(* Every asynchronous operation is settled: its handler runs, or the       *)
(* service is shut down and the handler is destroyed.                      *)
EveryOperationSettles ==
    \A o \in Ops : op[o].st = "queued" ~> op[o].st \in {"done", "dropped"}

(* shutdown_service() terminates: stop() and join() never wait for a       *)
(* thread that waits for them.                                             *)
ShutdownTerminates == svc = "stopping" ~> svc = "down"

(***************************************************************************)
(* Properties of sequential use.                                           *)
(***************************************************************************)
(* The work thread never touches a connection that was closed or freed.    *)
HandleUsable ==
    \A t \in Threads : Executing(t) =>
        /\ impl[conn(t)].alive = "yes"
        /\ impl[conn(t)].initialized
        /\ mysql[conn(t)].st # "raw"

(* A result set handed to a handler has not expired when the handler runs, *)
(* as the assertions of result_set demand of its uses.                     *)
DeliveredResultAlive ==
    \A o \in Ops : op[o].st = "posted" /\ op[o].rs =>
        impl[op[o].conn].last_result = o

(* As mysql_service.hpp says, close() revokes the result set: a closed     *)
(* connection keeps none.                                                  *)
ClosedKeepsNoResult ==
    \A c \in Connectors : ~impl[c].initialized /\ upc[c] = "idle" =>
        impl[c].last_result = None

(* A closed connection keeps no result set, and its next query starts with *)
(* the first result.                                                       *)
CloseRevokesResult ==
    \A c \in Connectors : ~impl[c].initialized /\ upc[c] = "idle" =>
        impl[c].last_result = None /\ ~impl[c].first_result_stored

(* mysql_next_result() is only called with the previous result consumed    *)
(* and another one to come: first_result_stored and the flags agree with   *)
(* the state of the protocol.                                              *)
NextResultInSync ==
    \A t \in Threads : pc[t] = "next" =>
        ~mysql[conn(t)].unread /\ mysql_more_results(mysql[conn(t)])
=============================================================================
