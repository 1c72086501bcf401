------------------------------ MODULE AsyncOps ------------------------------
(***************************************************************************)
(* What an asynchronous service of one io_service promises, without saying *)
(* how: operations complete one at a time in the order they were started,  *)
(* the handlers run in the order of the completions, each at most once,    *)
(* and an operation that is refused is answered through the same queue,    *)
(* never by calling the handler from inside the initiating call.  When the *)
(* io_service is destroyed the handlers that did not run are destroyed.    *)
(***************************************************************************)
EXTENDS Naturals, Sequences

CONSTANT Ops

VARIABLES
    pending,        \* operations started and not completed, oldest first
    ready,          \* completed operations whose handler did not run yet
    delivered,      \* operations whose handler ran
    dropped,        \* operations whose handler was destroyed
    up              \* the io_service exists

vars == <<pending, ready, delivered, dropped, up>>

Elements(s) == {s[i] : i \in DOMAIN s}

Unused(o) ==
    o \notin Elements(pending) \cup Elements(ready) \cup delivered \cup dropped

TypeOK ==
    /\ pending \in Seq(Ops) /\ ready \in Seq(Ops)
    /\ delivered \subseteq Ops /\ dropped \subseteq Ops
    /\ up \in BOOLEAN

Init ==
    /\ pending = <<>> /\ ready = <<>>
    /\ delivered = {} /\ dropped = {}
    /\ up = TRUE

Submit(o) ==
    /\ up /\ Unused(o)
    /\ pending' = Append(pending, o)
    /\ UNCHANGED <<ready, delivered, dropped, up>>

Refuse(o) ==
    /\ up /\ Unused(o)
    /\ ready' = Append(ready, o)
    /\ UNCHANGED <<pending, delivered, dropped, up>>

Complete ==
    /\ up /\ pending # <<>>
    /\ ready' = Append(ready, Head(pending))
    /\ pending' = Tail(pending)
    /\ UNCHANGED <<delivered, dropped, up>>

Deliver ==
    /\ up /\ ready # <<>>
    /\ delivered' = delivered \cup {Head(ready)}
    /\ ready' = Tail(ready)
    /\ UNCHANGED <<pending, dropped, up>>

Shutdown ==
    /\ up /\ up' = FALSE
    /\ dropped' = dropped \cup Elements(pending) \cup Elements(ready)
    /\ pending' = <<>> /\ ready' = <<>>
    /\ UNCHANGED delivered

Discard(o) ==
    /\ ~up /\ Unused(o)
    /\ dropped' = dropped \cup {o}
    /\ UNCHANGED <<pending, ready, delivered, up>>

Next ==
    \/ \E o \in Ops : Submit(o) \/ Refuse(o) \/ Discard(o)
    \/ Complete \/ Deliver \/ Shutdown

Spec == Init /\ [][Next]_vars
=============================================================================
