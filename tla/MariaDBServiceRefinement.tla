---------------------- MODULE MariaDBServiceRefinement ----------------------
(***************************************************************************)
(* mariadb_service implements CancellableOps.  A connection serves the     *)
(* operation in flight on it that was not cancelled; the state of a        *)
(* connection is the implementation, the handle and the suspended call.    *)
(***************************************************************************)
EXTENDS MariaDBService

Started == {o \in Ops : op[o].st \in {"running", "waiting", "ready"}}

ServedBy(c) == {o \in Started : op[o].conn = c /\ op[o].cancelled = "no"}

Served(c) ==
    IF ServedBy(c) = {} THEN None ELSE CHOOSE o \in ServedBy(c) : TRUE

Told(o) ==
    IF op[o].st # "done" THEN "none"
    ELSE IF op[o].ec = "aborted" THEN "aborted" ELSE "answered"

served  == [c \in Connectors |-> Served(c)]
doomed  == {o \in Started : op[o].cancelled # "no"}
refused == {o \in Ops : op[o].st = "posted"}
outcome == [o \in Ops |-> Told(o)]
state   == [c \in Connectors |-> <<impl[c], mysql[c], lib[c]>>]

Promise == INSTANCE CancellableOps WITH active <- running

(* Every behaviour of the service is one CancellableOps allows, whatever   *)
(* is cancelled, closed, opened again or destroyed between two steps: the  *)
(* token each operation carries tells exactly the operation a connection   *)
(* serves from the ones that linger, of all the steps only its own touch   *)
(* the connection, no handler runs twice, and none is lost.                *)
ImplementsCancellableOps == Promise!Spec
=============================================================================
