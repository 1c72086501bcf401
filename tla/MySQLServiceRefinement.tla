----------------------- MODULE MySQLServiceRefinement -----------------------
(***************************************************************************)
(* mysql_service implements AsyncOps.  The operation the work thread is    *)
(* executing is still pending, ahead of the queue: its completion is the   *)
(* step that posts the user's handler.                                     *)
(***************************************************************************)
EXTENDS MySQLService

RunningSeq ==
    IF \E t \in Threads : Executing(t)
    THEN <<cur[CHOOSE t \in Threads : Executing(t)]>>
    ELSE <<>>

Promise == INSTANCE AsyncOps WITH
    pending   <- RunningSeq \o workq,
    ready     <- mainq,
    delivered <- {o \in Ops : op[o].st = "done"},
    dropped   <- {o \in Ops : op[o].st = "dropped"},
    up        <- svc # "down"

(* Every behaviour of the service, for any use of it, is one AsyncOps      *)
(* allows: one work thread and two FIFO queues keep the operations of all  *)
(* connectors in order, no handler runs twice, and none runs inside the    *)
(* call that started the operation.                                        *)
ImplementsAsyncOps == Promise!Spec
=============================================================================
