--------------------------- MODULE CancellableOps ---------------------------
(***************************************************************************)
(* What an asynchronous service promises that runs its operations in the   *)
(* thread of the io_service, without saying how.  A connection serves one  *)
(* operation at a time and belongs to it: its state changes only while     *)
(* that operation is active, or by a call of the user when it serves none. *)
(* Cancelling a connection, at any moment between two steps, dooms the     *)
(* operation it serves and no other.  A doomed operation may linger, but   *)
(* reports that it was aborted and does nothing else; an operation that is *)
(* not doomed never reports that.  Every handler runs at most once, and no *)
(* operation disappears without its handler.                               *)
(***************************************************************************)
CONSTANTS Connectors, Ops, None

VARIABLES
    served,         \* [Connectors -> the operation a connection serves]
    doomed,         \* operations that were cancelled and did not end yet
    refused,        \* operations that were answered without being started
    outcome,        \* [Ops -> what the handler was told]
    active,         \* the operation that is running
    state           \* [Connectors -> everything the connection consists of]

vars == <<served, doomed, refused, outcome, active, state>>

Unused(o) ==
    /\ \A c \in Connectors : served[c] # o
    /\ o \notin doomed \cup refused
    /\ outcome[o] = "none"

(* No connection but c changes.                                            *)
Touch(c) == \A d \in Connectors \ {c} : state'[d] = state[d]

Init ==
    /\ served = [c \in Connectors |-> None]
    /\ doomed = {} /\ refused = {}
    /\ outcome = [o \in Ops |-> "none"]
    /\ active = None

(* The user uses a connection that serves nobody.                          *)
Use(c) ==
    /\ active = None /\ served[c] = None
    /\ Touch(c)
    /\ UNCHANGED <<served, doomed, refused, outcome, active>>

Cancel(c) ==
    /\ active = None
    /\ doomed' = doomed \cup ({served[c]} \ {None})
    /\ served' = [served EXCEPT ![c] = None]
    /\ Touch(c)
    /\ UNCHANGED <<refused, outcome, active>>

Serve(o, c) ==
    /\ active = None /\ served[c] = None /\ Unused(o)
    /\ served' = [served EXCEPT ![c] = o]
    /\ active' = o
    /\ Touch(c)
    /\ UNCHANGED <<doomed, refused, outcome>>

Refuse(o, c) ==
    /\ active = None /\ served[c] = None /\ Unused(o)
    /\ refused' = refused \cup {o}
    /\ Touch(c)
    /\ UNCHANGED <<served, doomed, outcome, active>>

(* The operation a connection serves goes on, or starts to wait.           *)
Work(c) ==
    /\ active # None /\ served[c] = active
    /\ active' \in {active, None}
    /\ Touch(c)
    /\ UNCHANGED <<served, doomed, refused, outcome>>

Resume(o) ==
    /\ active = None
    /\ o \in doomed \/ \E c \in Connectors : served[c] = o
    /\ active' = o
    /\ UNCHANGED <<served, doomed, refused, outcome, state>>

Answer(c) ==
    /\ active # None /\ served[c] = active
    /\ served' = [served EXCEPT ![c] = None]
    /\ outcome' = [outcome EXCEPT ![active] = "answered"]
    /\ active' = None
    /\ Touch(c)
    /\ UNCHANGED <<doomed, refused>>

Abort(o) ==
    /\ active = o /\ o \in doomed
    /\ doomed' = doomed \ {o}
    /\ outcome' = [outcome EXCEPT ![o] = "aborted"]
    /\ active' = None
    /\ UNCHANGED <<served, refused, state>>

Reply(o) ==
    /\ active = None /\ o \in refused
    /\ refused' = refused \ {o}
    /\ outcome' = [outcome EXCEPT ![o] = "answered"]
    /\ UNCHANGED <<served, doomed, active, state>>

Next ==
    \/ \E c \in Connectors : Use(c) \/ Cancel(c) \/ Work(c) \/ Answer(c)
    \/ \E o \in Ops, c \in Connectors : Serve(o, c) \/ Refuse(o, c)
    \/ \E o \in Ops : Resume(o) \/ Abort(o) \/ Reply(o)

Spec == Init /\ [][Next]_vars
=============================================================================
