--------------------------- MODULE MariaDBService ---------------------------
(***************************************************************************)
(* mariadb_service: asynchronous operations on MariaDB's non-blocking API, *)
(* without a thread of their own.                                          *)
(*                                                                         *)
(* An async_ call runs the first step of a composed operation on the spot. *)
(* A step starts or continues calls of the library until one of them has   *)
(* to wait for the socket or for a timeout, leaves the operation as the    *)
(* handler of that wait, and returns; the io_service runs the next step    *)
(* when the wait completes.  An operation whose last call finishes invokes *)
(* the user's handler from within the step.  Everything runs in the one    *)
(* thread that runs the io_service: between two steps the user may call    *)
(* cancel(), close() or the destructor, and the blocking functions while   *)
(* no operation of his is in flight.                                       *)
(***************************************************************************)
EXTENDS MariaDBOps, BlockingCalls

CONSTANTS
    Connectors,     \* mariadb_connector objects of one io_service
    Ops,            \* asynchronous operations the user can start
    Fds,            \* numbers of descriptors
    Flags,          \* do the flags of a connect let a query have several results
    None,
    MaxToken,       \* bound: how often a connection is cancelled or closed
    MaxWaits        \* bound: how often one call of the library waits

ASSUME NoneAssumption == /\ None \notin Connectors \cup Ops \cup Fds
                         /\ None \notin Calls \cup Events
ASSUME FlagsAssumption == Flags \subseteq BOOLEAN
ASSUME BoundsAssumption == MaxToken \in Nat /\ MaxWaits \in Nat

VARIABLES
    impl,           \* [Connectors -> implementation]
    mysql,          \* [Connectors -> Handle]: implementation::mysql
    lib,            \* [Connectors -> the call suspended in the library]
    desc,           \* [Connectors -> the socket and its descriptor]
    op,             \* [Ops -> the operation's state]
    running,        \* the operation whose operator() runs
    usage           \* [Connectors -> how the user treated the library]

vars == <<impl, mysql, lib, desc, op, running, usage>>

Kinds == {"connect", "query", "store_result", "query_result"}

Implementation ==
    [alive : BOOLEAN, initialized : BOOLEAN, flags : BOOLEAN,
     first_result_stored : BOOLEAN, last_result : BOOLEAN,
     cancelation_token : Nat]

NewImplementation ==
    [alive |-> TRUE, initialized |-> FALSE, flags |-> FALSE,
     first_result_stored |-> FALSE, last_result |-> FALSE,
     cancelation_token |-> 0]

(***************************************************************************)
(* sock is mysql_get_socket(), ev the number the descriptor ev_ holds.     *)
(* known: the reactor watches the connection's socket.  reused is a        *)
(* history variable: the number of the socket was still held by some ev_   *)
(* when the socket was opened.                                             *)
(***************************************************************************)
Descriptor == [sock : Fds \cup {None}, ev : Fds \cup {None},
               known : BOOLEAN, reused : BOOLEAN]

NewDescriptor ==
    [sock |-> None, ev |-> None, known |-> FALSE, reused |-> FALSE]

(* usage is a history variable: since the connection was last closed, a    *)
(* call was suspended with the error of an earlier one, an operation was   *)
(* cancelled whose call was suspended, or the library was called with a    *)
(* handle that is busy or not initialised.                                 *)
Usages == {"sound", "stale", "abandoned", "undefined"}

Continue(call) ==
    CASE call = "connect" -> "S_CONT_CONNECT" [] call = "query" -> "S_CONT_QUERY"
      [] call = "next" -> "S_CONT_NEXT"       [] call = "store" -> "S_CONT_STORE"

Steps == {"S_ENTRY", "S_STORE_START"} \cup {Continue(k) : k \in Calls}

(***************************************************************************)
(* The state of a composed operation.  step is the step operator() resumes *)
(* at, wait the event it is registered for and mask the events the library *)
(* asked for, ec the error of the wait and in the end of the operation.    *)
(* cancelled is a history variable: the connection was cancelled, or       *)
(* closed, while the operation was in flight.                              *)
(***************************************************************************)
Operation ==
    [st : {"fresh", "running", "waiting", "ready", "posted", "done", "lost"},
     kind : Kinds, conn : Connectors \cup {None}, cancelation_token : Nat,
     flags : BOOLEAN, step : Steps, wait : Events \cup {None},
     mask : SUBSET Events, waits : Nat,
     ec : ErrorCodes, cancelled : {"no", "cancel", "close"}]

NewOperation ==
    [st |-> "fresh", kind |-> "query", conn |-> None, cancelation_token |-> 0,
     flags |-> FALSE, step |-> "S_ENTRY", wait |-> None, mask |-> {},
     waits |-> 0, ec |-> "ok", cancelled |-> "no"]

InFlight == {"running", "waiting", "ready", "posted"}

TypeOK ==
    /\ impl \in [Connectors -> Implementation]
    /\ mysql \in [Connectors -> Handle]
    /\ lib \in [Connectors -> Calls \cup {None}]
    /\ desc \in [Connectors -> Descriptor]
    /\ usage \in [Connectors -> Usages]
    /\ op \in [Ops -> Operation]
    /\ running \in Ops \cup {None}
    /\ \A o \in Ops : running = o <=> op[o].st = "running"

Init ==
    /\ impl = [c \in Connectors |-> NewImplementation]
    /\ mysql = [c \in Connectors |-> RawHandle]
    /\ lib = [c \in Connectors |-> None]
    /\ desc = [c \in Connectors |-> NewDescriptor]
    /\ usage = [c \in Connectors |-> "sound"]
    /\ op = [o \in Ops |-> NewOperation]
    /\ running = None

(* Mutant: the token is not looked at.                                     *)
Expired_never(o) == FALSE

(* cancelation_token_.expired(): the weak copy of the token is dead.       *)
Expired(o) ==
    op[o].cancelation_token # impl[op[o].conn].cancelation_token

-----------------------------------------------------------------------------
(***************************************************************************)
(* Sockets and descriptors.  The library opens and closes the socket, with *)
(* a number the process has free; the reactor, which is told the number    *)
(* when ev_ is assigned, forgets a socket that is closed.                  *)
(***************************************************************************)
NumberFree(s, c) == \A d \in Connectors \ {c} : desc[d].sock # s

Opened(c, s) ==
    [desc EXCEPT ![c].sock = s, ![c].known = FALSE,
                 ![c].reused = \E d \in Connectors : desc[d].ev = s]

(* What a call that leaves the handle h does to the socket of c: while it  *)
(* connects, the library may give up one address and try another.          *)
SocketAfter(c, h, connecting) ==
    LET kept   == {desc : d \in {desc[c].sock} \ {None}}
        opened == {Opened(c, s) : s \in {t \in Fds : NumberFree(t, c)}}
        closed == [desc EXCEPT ![c].sock = None, ![c].known = FALSE,
                               ![c].reused = FALSE]
    IN  IF mysql[c].st = "up" /\ h.st = "up" THEN kept
        ELSE IF h.st = "up" \/ connecting THEN kept \cup opened
        ELSE {closed}

(* ev_->release(): the reactor is told to forget the number, whoever's     *)
(* socket has it now.                                                      *)
release(D, c) ==
    [d \in Connectors |->
        [D[d] EXCEPT !.known = @ /\ D[d].sock # D[c].ev,
                     !.ev = IF d = c THEN None ELSE @]]

(* Mutant: the descriptor is assigned once and for all.                    *)
assign_once(D, c) ==
    IF D[c].ev # None THEN D
    ELSE [D EXCEPT ![c].ev = D[c].sock, ![c].known = TRUE]

(* ev_ follows the number of the socket.                                   *)
assign(D, c) ==
    IF D[c].ev = D[c].sock THEN D
    ELSE [release(D, c) EXCEPT ![c].ev = D[c].sock, ![c].known = TRUE]

-----------------------------------------------------------------------------
(***************************************************************************)
(* The user's calls.                                                       *)
(***************************************************************************)
MayCall(c) == running = None /\ impl[c].alive

open(c) ==
    /\ MayCall(c)
    /\ ~impl[c].initialized
    /\ \E r \in mysql_init(mysql[c]) :
          /\ mysql' = [mysql EXCEPT ![c] = r.h]
          /\ impl' = [impl EXCEPT ![c].initialized = (r.ec = "ok")]
    /\ UNCHANGED <<lib, desc, op, running, usage>>

FreshToken(i) == [i EXCEPT !.cancelation_token = @ + 1]

(* The history of a cancelled operation.                                   *)
Cancelled(p, how) ==
    IF p.st \in InFlight \ {"posted"} THEN [p EXCEPT !.cancelled = how] ELSE p

(* Mutant: close() leaves ev and the timer alone.                          *)
Woken_never(p) == p

(* ev and the timer give up: a waiting operation is resumed with an error. *)
Woken(p) ==
    IF p.st = "waiting" THEN [p EXCEPT !.st = "ready", !.ec = "aborted"] ELSE p

(* The token is replaced and nothing else: no wait is interrupted.         *)
cancel(c) ==
    /\ MayCall(c)
    /\ impl[c].cancelation_token < MaxToken
    /\ impl' = [impl EXCEPT ![c] = FreshToken(@)]
    /\ op' = [o \in Ops |-> IF op[o].conn = c THEN Cancelled(op[o], "cancel")
                                              ELSE op[o]]
    /\ usage' = [usage EXCEPT ![c] = IF lib[c] # None /\ @ = "sound"
                                     THEN "abandoned" ELSE @]
    /\ UNCHANGED <<mysql, lib, desc, running>>

(* Mutant: close() that forgets the result set.                            *)
Close_keeps(c, alive) ==
    /\ mysql' = [mysql EXCEPT ![c] = RawHandle]
    /\ lib' = [lib EXCEPT ![c] = None]
    /\ desc' = release([desc EXCEPT ![c].sock = None, ![c].known = FALSE,
                                    ![c].reused = FALSE], c)
    /\ usage' = [usage EXCEPT ![c] = "sound"]
    /\ impl' = [impl EXCEPT ![c] = [FreshToken(@) EXCEPT
                   !.alive = alive, !.initialized = FALSE]]
    /\ op' = [o \in Ops |-> IF op[o].conn = c THEN Woken(Cancelled(op[o], "close"))
                                              ELSE op[o]]
    /\ UNCHANGED running

(* implementation::close()                                                 *)
Close(c, alive) ==
    /\ mysql' = [mysql EXCEPT ![c] = RawHandle]
    /\ lib' = [lib EXCEPT ![c] = None]
    /\ desc' = release([desc EXCEPT ![c].sock = None, ![c].known = FALSE,
                                    ![c].reused = FALSE], c)
    /\ usage' = [usage EXCEPT ![c] = "sound"]
    /\ impl' = [impl EXCEPT ![c] = [FreshToken(@) EXCEPT
                   !.alive = alive, !.initialized = FALSE,
                   !.first_result_stored = FALSE, !.last_result = FALSE]]
    /\ op' = [o \in Ops |-> IF op[o].conn = c THEN Woken(Cancelled(op[o], "close"))
                                              ELSE op[o]]
    /\ UNCHANGED running

close(c) ==
    /\ MayCall(c)
    /\ impl[c].initialized
    /\ impl[c].cancelation_token < MaxToken
    /\ Close(c, TRUE)

(* The destructor closes the implementation whether it is open or not.     *)
destroy(c) == MayCall(c) /\ Close(c, FALSE)

(* One operation at a time: what the user still has in flight on c was     *)
(* cancelled, or its connection was closed.                                *)
MayUse(c) ==
    /\ MayCall(c)
    /\ \A p \in Ops : op[p].conn = c /\ op[p].st \in InFlight => Expired(p)

MayStart(o, c) == MayUse(c) /\ op[o].st = "fresh"

(***************************************************************************)
(* The blocking functions, called while no call is suspended and with an   *)
(* error code that is clear.                                               *)
(***************************************************************************)
MayBlock(c) == MayUse(c) /\ lib[c] = None

Blocking(c, outcomes) ==
    /\ MayBlock(c)
    /\ \E r \in outcomes :
          /\ impl' = [impl EXCEPT ![c] = r.i]
          /\ mysql' = [mysql EXCEPT ![c] = r.h]
          /\ desc' \in SocketAfter(c, r.h, FALSE)
    /\ UNCHANGED <<lib, op, running>>

Checked(c, outcomes) == Blocking(c, outcomes) /\ UNCHANGED usage

(* Two functions go to the library even if the connection is not open.     *)
Unchecked(c, outcomes) ==
    /\ Blocking(c, outcomes)
    /\ usage' = [usage EXCEPT ![c] = IF impl[c].initialized THEN @
                                                            ELSE "undefined"]

connect(c, flags) == Checked(c, Connect(impl[c], mysql[c], flags))

query(c) == Checked(c, QueryResult(impl[c], mysql[c]))

store_result(c) == Unchecked(c, StoreResult(impl[c], mysql[c], "ok"))

autocommit(c) == Unchecked(c, Autocommit(impl[c], mysql[c]))

commit(c) == Checked(c, Commit(impl[c], mysql[c]))

rollback(c) == Checked(c, Rollback(impl[c], mysql[c]))

set_option(c) ==
    Checked(c, IF impl[c].initialized THEN Outcomes(impl[c], mysql_options(mysql[c]))
                                      ELSE NotOpen(impl[c], mysql[c]))

NewState(c, kind, flags, st, ec) ==
    [NewOperation EXCEPT !.st = st, !.kind = kind, !.conn = c,
        !.cancelation_token = impl[c].cancelation_token, !.flags = flags,
        !.ec = ec]

PostError(o, c, kind, ec) ==
    /\ op' = [op EXCEPT ![o] = NewState(c, kind, FALSE, "posted", ec)]
    /\ UNCHANGED running

(* The composed operation is built and its operator() called.              *)
Start(o, c, kind, flags) ==
    /\ op' = [op EXCEPT ![o] = NewState(c, kind, flags, "running", "ok")]
    /\ running' = o

(* The non-blocking mode is an option of the handle, and can be refused.   *)
async_connect(o, c, flags) ==
    /\ MayStart(o, c)
    /\ UNCHANGED <<lib, desc, usage>>
    /\ \E r \in IF impl[c].initialized
                THEN {[h |-> mysql[c], ec |-> "ok", res |-> FALSE]}
                ELSE mysql_init(mysql[c]) :
       \E s \in IF r.ec = "ok" THEN mysql_options(r.h) ELSE {r} :
          /\ mysql' = [mysql EXCEPT ![c] = s.h]
          /\ impl' = [impl EXCEPT ![c].initialized = (r.ec = "ok")]
          /\ IF s.ec = "ok" THEN Start(o, c, "connect", flags)
                            ELSE PostError(o, c, "connect", s.ec)

AsyncOnOpen(o, c, kind) ==
    /\ MayStart(o, c)
    /\ IF impl[c].initialized THEN Start(o, c, kind, FALSE)
                              ELSE PostError(o, c, kind, "not_initialized")
    /\ UNCHANGED <<impl, mysql, lib, desc, usage>>

async_query(o, c) == AsyncOnOpen(o, c, "query")

async_store_result(o, c) == AsyncOnOpen(o, c, "store_result")

async_query_result(o, c) == AsyncOnOpen(o, c, "query_result")

-----------------------------------------------------------------------------
(***************************************************************************)
(* operator(): one step of a composed operation.                           *)
(***************************************************************************)
(* Mutant: operator() goes on after it invoked the handler.                *)
Invoke_again(o, ec) ==
    /\ op' = [op EXCEPT ![o] = [NewOperation EXCEPT !.st = "done", !.ec = ec]]
    /\ UNCHANGED running

(* The user's handler is invoked, after which nothing of the operation is  *)
(* left but what the properties look at.                                   *)
Invoke(o, ec) ==
    /\ op' = [op EXCEPT ![o] = [NewOperation EXCEPT
                 !.st = "done", !.conn = op[o].conn, !.ec = ec,
                 !.cancelled = op[o].cancelled]]
    /\ running' = None

(* Mutant: a timeout is not waited for.                                    *)
Awaited_socket(mask) ==
    CASE "read" \in mask -> "read"
      [] "write" \in mask /\ "read" \notin mask -> "write"
      [] mask \subseteq {"except", "timeout"} -> None

(* The event that is waited for: a timeout counts only when nothing is     *)
(* awaited of the socket, an exceptional condition never.                  *)
Awaited(mask) ==
    CASE "read" \in mask -> "read"
      [] "write" \in mask /\ "read" \notin mask -> "write"
      [] "timeout" \in mask /\ mask \cap {"read", "write"} = {} -> "timeout"
      [] mask \subseteq {"except"} -> None

(* The descriptor follows the socket D; whatever was waiting on the        *)
(* connector before is cancelled.  With no event to wait for, the          *)
(* operation is destroyed with its handler.                                *)
async_wait_mysql(o, mask, call, D) ==
    /\ desc' = IF mask \cap {"read", "write"} # {} THEN assign(D, op[o].conn)
                                                   ELSE D
    /\ op' = [p \in Ops |->
                IF p = o
                THEN [op[o] EXCEPT !.st = IF Awaited(mask) = None THEN "lost"
                                                                  ELSE "waiting",
                         !.wait = Awaited(mask), !.mask = mask,
                         !.waits = @ + 1, !.step = Continue(call)]
                ELSE IF op[p].conn = op[o].conn THEN Woken(op[p])
                ELSE op[p]]
    /\ running' = None

(* result_set::assign(): as in the blocking connector.                     *)
Assigned(h, res) == IF res THEN mysql_fetch_row(h, "ok") ELSE {"ok"}

(* A call that operator() made came back with r; i is the implementation   *)
(* operator() left.                                                        *)
Returned(o, i, call, r) ==
    LET c == op[o].conn
        last == call \in {"connect", "store"}
                \/ (call = "query" /\ op[o].kind = "query")
    IN
    /\ mysql' = [mysql EXCEPT ![c] = r.h]
    /\ lib' = [lib EXCEPT ![c] = IF r.status = finish THEN None ELSE call]
    /\ impl' = [impl EXCEPT ![c] =
                  IF call = "store" /\ r.ec = "ok" /\ r.status = finish
                  THEN [i EXCEPT !.last_result = r.res] ELSE i]
    /\ \E D \in SocketAfter(c, r.h, call = "connect" /\ r.status # finish) :
       \/ /\ r.ec # "ok"
          /\ Invoke(o, r.ec)
          /\ desc' = D
       \/ /\ r.ec = "ok" /\ r.status # finish
          /\ async_wait_mysql(o, r.status, call, D)
       \/ /\ r.ec = "ok" /\ r.status = finish /\ ~last
          /\ op' = [op EXCEPT ![o].step = "S_STORE_START", ![o].waits = 0]
          /\ desc' = D
          /\ UNCHANGED running
       \/ /\ r.ec = "ok" /\ r.status = finish /\ last
          /\ \E ec \in IF call = "store" THEN Assigned(r.h, r.res) ELSE {"ok"} :
                Invoke(o, ec)
          /\ desc' = D

MayWait(o) == op[o].waits < MaxWaits

StartCall(o, i, call) ==
    LET c == op[o].conn IN
    /\ \E r \in IF lib[c] # None THEN mysql_start_busy(mysql[c])
                ELSE mysql_start(call, mysql[c], op[o].flags, MayWait(o)) :
          Returned(o, i, call, r)
    /\ usage' = [usage EXCEPT ![c] =
                    IF lib[c] # None THEN "undefined"
                    ELSE IF lib'[c] # None /\ mysql'[c].errno /\ @ = "sound"
                    THEN "stale" ELSE @]

(* The token, and the error the wait ended with, are looked at first.      *)
Proceeds(o) == running = o /\ ~Expired(o) /\ op[o].ec = "ok"

Entry(o) ==
    LET c == op[o].conn
        i == impl[c]
        freed == [i EXCEPT !.last_result = FALSE]
    IN
    /\ Proceeds(o) /\ op[o].step = "S_ENTRY"
    /\ \/ /\ op[o].kind = "connect"
          /\ StartCall(o, [i EXCEPT !.flags = op[o].flags], "connect")
       \/ /\ op[o].kind \in {"query", "query_result"}
          /\ StartCall(o, [freed EXCEPT !.first_result_stored = FALSE], "query")
       \/ /\ op[o].kind = "store_result" /\ ~i.first_result_stored
          /\ impl' = [impl EXCEPT ![c].first_result_stored = TRUE]
          /\ op' = [op EXCEPT ![o].step = "S_STORE_START"]
          /\ UNCHANGED <<mysql, lib, desc, running, usage>>
       \/ /\ op[o].kind = "store_result" /\ i.first_result_stored
          /\ IF has_more_results(i, mysql[c])
             THEN StartCall(o, freed, "next")
             ELSE /\ Invoke(o, "no_more_results")
                  /\ impl' = [impl EXCEPT ![c] = freed]
                  /\ UNCHANGED <<mysql, lib, desc, usage>>

StoreStart(o) ==
    /\ Proceeds(o) /\ op[o].step = "S_STORE_START"
    /\ StartCall(o, [impl[op[o].conn] EXCEPT !.last_result = FALSE,
                        !.first_result_stored = @ \/ op[o].kind = "query_result"],
                 "store")

Cont(o, call) ==
    LET c == op[o].conn IN
    /\ Proceeds(o) /\ op[o].step = Continue(call)
    /\ \E r \in mysql_continue(call, mysql[c], op[o].flags, MayWait(o)) :
          Returned(o, impl[c], call, r)
    /\ UNCHANGED usage

Abort(o) ==
    /\ running = o
    /\ Expired(o) \/ op[o].ec # "ok"
    /\ Invoke(o, "aborted")
    /\ UNCHANGED <<impl, mysql, lib, desc, usage>>

Step(o) ==
    \/ Entry(o) \/ StoreStart(o) \/ Abort(o)
    \/ \E call \in Calls : Cont(o, call)

-----------------------------------------------------------------------------
(***************************************************************************)
(* The io_service: waits complete, and it runs what is ready.              *)
(***************************************************************************)
Awake(o) ==
    /\ op' = [op EXCEPT ![o].st = "ready"]
    /\ UNCHANGED <<impl, mysql, lib, desc, running, usage>>

(* The reactor reports nothing of a socket that it does not watch.         *)
SocketReady(o) ==
    /\ op[o].st = "waiting" /\ op[o].wait \in {"read", "write"}
    /\ desc[op[o].conn].known
    /\ Awake(o)

TimerExpires(o) ==
    op[o].st = "waiting" /\ op[o].wait = "timeout" /\ Awake(o)

Resume(o) ==
    /\ running = None /\ op[o].st = "ready"
    /\ op' = [op EXCEPT ![o].st = "running", ![o].wait = None, ![o].mask = {}]
    /\ running' = o
    /\ UNCHANGED <<impl, mysql, lib, desc, usage>>

RunPosted(o) ==
    /\ running = None /\ op[o].st = "posted"
    /\ Invoke(o, op[o].ec)
    /\ UNCHANGED <<impl, mysql, lib, desc, usage>>

-----------------------------------------------------------------------------
UserStep(c) ==
    \/ open(c) \/ cancel(c) \/ close(c) \/ destroy(c)
    \/ \E flags \in Flags : connect(c, flags)
    \/ query(c) \/ store_result(c) \/ set_option(c)
    \/ autocommit(c) \/ commit(c) \/ rollback(c)
    \/ \E o \in Ops : \/ \E flags \in Flags : async_connect(o, c, flags)
                      \/ async_query(o, c) \/ async_store_result(o, c)
                      \/ async_query_result(o, c)

IoStep(o) == TimerExpires(o) \/ Resume(o) \/ RunPosted(o)

Next ==
    \/ \E c \in Connectors : UserStep(c)
    \/ \E o \in Ops : Step(o) \/ IoStep(o) \/ SocketReady(o)

Spec == Init /\ [][Next]_vars

(***************************************************************************)
(* The user keeps running the io_service, whose timers expire.  Whether    *)
(* the server ever answers is another matter.                              *)
(***************************************************************************)
Fairness == \A o \in Ops : WF_vars(Step(o)) /\ WF_vars(IoStep(o))

FairSpec == Spec /\ Fairness

-----------------------------------------------------------------------------
(***************************************************************************)
(* Properties.                                                             *)
(***************************************************************************)
(* An operation that is cancelled, or whose connection is closed or        *)
(* destroyed, at any moment before it is finished reports                  *)
(* operation_aborted, and no other operation does: the token is looked at  *)
(* in every step.                                                          *)
AbortIffCancelled ==
    \A o \in Ops : op[o].st = "done" =>
        (op[o].ec = "aborted" <=> op[o].cancelled # "no")

(* A step that goes on with a call of the library finds the connection     *)
(* open and that very call suspended, whatever was closed, opened again    *)
(* and started meanwhile: the operation never continues a call that is not *)
(* its own, and never touches a connector that was destroyed.              *)
ContinuesOwnCall ==
    \A o \in Ops, call \in Calls :
        Proceeds(o) /\ op[o].step = Continue(call) =>
            /\ impl[op[o].conn].alive
            /\ impl[op[o].conn].initialized
            /\ lib[op[o].conn] = call

(* The steps of a cancelled operation touch no connection: neither its     *)
(* own, which may be closed, opened again, in use by another operation or  *)
(* destroyed by then, nor, through the descriptors, that of another        *)
(* connector.                                                              *)
CancelledIsInert ==
    [][\A o \in Ops : running = o /\ op[o].cancelled # "no" =>
          UNCHANGED <<impl, mysql, lib, desc, usage>>]_vars

(* A closed connection keeps no result set, and its next query starts with *)
(* the first result, even when operations were in flight as it was closed  *)
(* (store_result() on a closed connection apart, which is undefined).      *)
CloseRevokesResult ==
    \A c \in Connectors : ~impl[c].initialized /\ usage[c] # "undefined" =>
        ~impl[c].last_result /\ ~impl[c].first_result_stored

(* mysql_next_result() and mysql_next_result_start() find the previous     *)
(* result consumed and one more to come, whichever mixture of blocking and *)
(* asynchronous operations came before, if the library was used soundly.   *)
NextInSync(c) ==
    usage[c] = "sound" /\ impl[c].first_result_stored
    /\ has_more_results(impl[c], mysql[c])
    => ~mysql[c].unread /\ mysql_more_results(mysql[c])

NextResultInSync ==
    /\ \A o \in Ops : Proceeds(o) /\ op[o].step = "S_ENTRY"
          /\ op[o].kind = "store_result" => NextInSync(op[o].conn)
    /\ \A c \in Connectors : MayUse(c) => NextInSync(c)

(* No call is started, blocking or not, while another one is suspended in  *)
(* the library, with two exceptions: the user cancelled the operation the  *)
(* suspended call belongs to (cancel() forgets it there, close() does      *)
(* not), or the call was suspended while mysql_errno() still held the      *)
(* error of an earlier one, which ended the operation.                     *)
LibraryIdleOnStart ==
    /\ \A o \in Ops :
          Proceeds(o) /\ op[o].step \in {"S_ENTRY", "S_STORE_START"} =>
              lib[op[o].conn] = None \/ usage[op[o].conn] # "sound"
    /\ \A c \in Connectors :
          MayUse(c) => lib[c] = None \/ usage[c] # "sound"

(* The reactor watches the socket an operation waits for, however often    *)
(* the library changed sockets and whatever other connectors do with their *)
(* descriptors, unless the socket got a number that an ev_ still held, or  *)
(* a call was started on top of a suspended one.                           *)
WaitIsRegistered ==
    \A o \in Ops :
        /\ op[o].st = "waiting" /\ op[o].wait \in {"read", "write"}
        /\ ~desc[op[o].conn].reused /\ usage[op[o].conn] # "undefined"
        => desc[op[o].conn].known

(* If the server answers whenever an operation waits for it, every         *)
(* operation invokes its handler: no step registers a wait that nothing    *)
(* ends, or forgets to register one.                                       *)
EveryOperationSettles ==
    /\ [](\A c \in Connectors : ~desc[c].reused /\ usage[c] # "undefined")
    /\ \A o \in Ops : WF_vars(SocketReady(o))
    => \A o \in Ops : op[o].st \in InFlight ~> op[o].st = "done"

(* An operation whose connection was closed or destroyed ends even if the  *)
(* server stays silent.                                                    *)
ClosedSettles ==
    \A o \in Ops : op[o].cancelled = "close" ~> op[o].st = "done"

(***************************************************************************)
(* What mariadb_ops.hpp says of a timeout.                                 *)
(***************************************************************************)
(* An operation for which the library asked for a timeout is resumed when  *)
(* the time is over, even if the server stays silent.                      *)
TimeoutWakes ==
    \A o \in Ops : op[o].st = "waiting" /\ "timeout" \in op[o].mask
                   ~> op[o].st # "waiting"
=============================================================================
