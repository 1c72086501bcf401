------------------------- MODULE MySQLServiceProofs -------------------------
(***************************************************************************)
(* Theorems about MySQLService, for any connectors, operations and         *)
(* threads.                                                                *)
(***************************************************************************)
EXTENDS MySQLServiceRefinement, MySQLOpsProofs

USE NoneAssumption, MaxTokenAssumption, SequentialAssumption

-----------------------------------------------------------------------------
(* Assigning the fields of an operation or an implementation that the      *)
(* actions assign leaves an operation or an implementation.                *)
LEMMA NewRecords ==
    /\ NewOperation \in Operation
    /\ NewOperation.conn = None
    /\ NewImplementation \in Implementation
    /\ \A st \in {"done", "dropped"} :
          Gone(st) \in Operation /\ Gone(st).st = st
BY DEF NewOperation, NewImplementation, Operation, Implementation, Kinds,
       ErrorCodes, Gone

(* Moving an operation to another stage changes nothing else of it.        *)
LEMMA SetSt ==
    ASSUME NEW p \in Operation,
           NEW st \in {"fresh", "queued", "running", "posted", "done", "dropped"}
    PROVE  /\ [p EXCEPT !.st = st] \in Operation
           /\ [p EXCEPT !.st = st].st = st
           /\ [p EXCEPT !.st = st].ec = p.ec
           /\ [p EXCEPT !.st = st].rs = p.rs
           /\ [p EXCEPT !.st = st].kind = p.kind
           /\ [p EXCEPT !.st = st].conn = p.conn
           /\ [p EXCEPT !.st = st].cancelled = p.cancelled
           /\ [p EXCEPT !.st = st].cancelation_token = p.cancelation_token
BY DEF Operation

(* Setting the error code of an operation changes nothing else of it.      *)
LEMMA SetEc ==
    ASSUME NEW p \in Operation, NEW ec \in ErrorCodes
    PROVE  /\ [p EXCEPT !.ec = ec] \in Operation
           /\ [p EXCEPT !.ec = ec].ec = ec
           /\ [p EXCEPT !.ec = ec].st = p.st
           /\ [p EXCEPT !.ec = ec].rs = p.rs
           /\ [p EXCEPT !.ec = ec].kind = p.kind
           /\ [p EXCEPT !.ec = ec].conn = p.conn
           /\ [p EXCEPT !.ec = ec].cancelled = p.cancelled
           /\ [p EXCEPT !.ec = ec].cancelation_token = p.cancelation_token
BY DEF Operation

(* Setting the result set of an operation changes nothing else of it.      *)
LEMMA SetRs ==
    ASSUME NEW p \in Operation, NEW rs \in BOOLEAN
    PROVE  /\ [p EXCEPT !.rs = rs] \in Operation
           /\ [p EXCEPT !.rs = rs].rs = rs
           /\ [p EXCEPT !.rs = rs].st = p.st
           /\ [p EXCEPT !.rs = rs].ec = p.ec
           /\ [p EXCEPT !.rs = rs].kind = p.kind
           /\ [p EXCEPT !.rs = rs].conn = p.conn
           /\ [p EXCEPT !.rs = rs].cancelled = p.cancelled
           /\ [p EXCEPT !.rs = rs].cancelation_token = p.cancelation_token
BY DEF Operation

(* Setting both of them: what a returned library call leaves behind.       *)
Returned(p, ec, rs) == [p EXCEPT !.ec = ec, !.rs = rs]

(* That changes nothing else of the operation.                             *)
LEMMA SetOutcome ==
    ASSUME NEW p \in Operation, NEW ec \in ErrorCodes, NEW rs \in BOOLEAN
    PROVE  LET q == Returned(p, ec, rs)
           IN  /\ q \in Operation /\ q.ec = ec /\ q.rs = rs
               /\ q.st = p.st /\ q.kind = p.kind /\ q.conn = p.conn
               /\ q.cancelled = p.cancelled
               /\ q.cancelation_token = p.cancelation_token
<1> DEFINE b == [p EXCEPT !.ec = ec]
           c == [b EXCEPT !.rs = rs]
<1>1. /\ b \in Operation
      /\ b.ec = ec /\ b.st = p.st /\ b.kind = p.kind /\ b.conn = p.conn
      /\ b.cancelled = p.cancelled
      /\ b.cancelation_token = p.cancelation_token
  BY SetEc
<1> HIDE DEF b
<1>2. /\ c \in Operation
      /\ c.ec = ec /\ c.rs = rs /\ c.st = p.st /\ c.kind = p.kind
      /\ c.conn = p.conn /\ c.cancelled = p.cancelled
      /\ c.cancelation_token = p.cancelation_token
  BY <1>1, SetRs
<1>3. Returned(p, ec, rs) = c
  BY DEF Returned, b
<1> HIDE DEF c
<1> QED
  BY <1>2, <1>3

(* Marking an operation as cancelled changes nothing else of it.           *)
LEMMA SetCancelled ==
    ASSUME NEW p \in Operation, NEW x \in {"no", "queued", "running"}
    PROVE  /\ [p EXCEPT !.cancelled = x] \in Operation
           /\ [p EXCEPT !.cancelled = x].cancelled = x
           /\ [p EXCEPT !.cancelled = x].st = p.st
           /\ [p EXCEPT !.cancelled = x].ec = p.ec
           /\ [p EXCEPT !.cancelled = x].rs = p.rs
           /\ [p EXCEPT !.cancelled = x].kind = p.kind
           /\ [p EXCEPT !.cancelled = x].conn = p.conn
           /\ [p EXCEPT !.cancelled = x].cancelation_token = p.cancelation_token
BY DEF Operation

(* The handler that is posted: only st, ec and rs differ.                  *)
LEMMA Posted ==
    ASSUME NEW p \in Operation, NEW ec \in ErrorCodes, NEW rs \in BOOLEAN
    PROVE  /\ Completed(p, ec, rs) \in Operation
           /\ Completed(p, ec, rs).st = "posted"
           /\ Completed(p, ec, rs).ec = ec
           /\ Completed(p, ec, rs).rs = rs
           /\ Completed(p, ec, rs).kind = p.kind
           /\ Completed(p, ec, rs).conn = p.conn
           /\ Completed(p, ec, rs).cancelled = p.cancelled
<1> DEFINE a == [p EXCEPT !.st = "posted"]
           b == [a EXCEPT !.ec = ec]
           c == [b EXCEPT !.rs = rs]
<1>1. /\ a \in Operation
      /\ a.st = "posted" /\ a.kind = p.kind /\ a.conn = p.conn
      /\ a.cancelled = p.cancelled
      /\ a.cancelation_token = p.cancelation_token
  BY SetSt
<1> HIDE DEF a
<1>2. /\ b \in Operation
      /\ b.st = "posted" /\ b.ec = ec /\ b.kind = p.kind /\ b.conn = p.conn
      /\ b.cancelled = p.cancelled
      /\ b.cancelation_token = p.cancelation_token
  BY <1>1, SetEc
<1> HIDE DEF b
<1>3. /\ c \in Operation
      /\ c.st = "posted" /\ c.ec = ec /\ c.rs = rs
      /\ c.kind = p.kind /\ c.conn = p.conn
      /\ c.cancelled = p.cancelled
      /\ c.cancelation_token = p.cancelation_token
  BY <1>2, SetRs
<1>4. Completed(p, ec, rs) = c
  BY DEF Completed, a, b
<1> HIDE DEF c
<1> QED
  BY <1>3, <1>4

(* Updating alive changes nothing else of an implementation.               *)
LEMMA SetAlive ==
    ASSUME NEW i \in Implementation, NEW x \in {"yes", "dying", "no"}
    PROVE  LET j == [i EXCEPT !.alive = x]
           IN  /\ j \in Implementation
               /\ j.alive = x
               /\ j.initialized = i.initialized
               /\ j.flags = i.flags
               /\ j.first_result_stored = i.first_result_stored
               /\ j.last_result = i.last_result
               /\ j.cancelation_token = i.cancelation_token
BY DEF Implementation

(* Updating initialized changes nothing else of an implementation.         *)
LEMMA SetInitialized ==
    ASSUME NEW i \in Implementation, NEW b \in BOOLEAN
    PROVE  LET j == [i EXCEPT !.initialized = b]
           IN  /\ j \in Implementation
               /\ j.initialized = b
               /\ j.alive = i.alive
               /\ j.flags = i.flags
               /\ j.first_result_stored = i.first_result_stored
               /\ j.last_result = i.last_result
               /\ j.cancelation_token = i.cancelation_token
BY DEF Implementation

(* Updating flags changes nothing else of an implementation.               *)
LEMMA SetFlags ==
    ASSUME NEW i \in Implementation, NEW b \in BOOLEAN
    PROVE  LET j == [i EXCEPT !.flags = b]
           IN  /\ j \in Implementation
               /\ j.flags = b
               /\ j.alive = i.alive
               /\ j.initialized = i.initialized
               /\ j.first_result_stored = i.first_result_stored
               /\ j.last_result = i.last_result
               /\ j.cancelation_token = i.cancelation_token
BY DEF Implementation

(* Updating first_result_stored changes nothing else of an implementation. *)
LEMMA SetFirst ==
    ASSUME NEW i \in Implementation, NEW b \in BOOLEAN
    PROVE  LET j == [i EXCEPT !.first_result_stored = b]
           IN  /\ j \in Implementation
               /\ j.first_result_stored = b
               /\ j.alive = i.alive
               /\ j.initialized = i.initialized
               /\ j.flags = i.flags
               /\ j.last_result = i.last_result
               /\ j.cancelation_token = i.cancelation_token
BY DEF Implementation

(* Updating last_result changes nothing else of an implementation.         *)
LEMMA SetLast ==
    ASSUME NEW i \in Implementation, NEW r \in Ops \cup {None}
    PROVE  LET j == [i EXCEPT !.last_result = r]
           IN  /\ j \in Implementation
               /\ j.last_result = r
               /\ j.alive = i.alive
               /\ j.initialized = i.initialized
               /\ j.flags = i.flags
               /\ j.first_result_stored = i.first_result_stored
               /\ j.cancelation_token = i.cancelation_token
BY DEF Implementation

(* Updating the token changes nothing else of an implementation.           *)
LEMMA SetToken ==
    ASSUME NEW i \in Implementation, NEW n \in Nat
    PROVE  LET j == [i EXCEPT !.cancelation_token = n]
           IN  /\ j \in Implementation
               /\ j.cancelation_token = n
               /\ j.alive = i.alive
               /\ j.initialized = i.initialized
               /\ j.flags = i.flags
               /\ j.first_result_stored = i.first_result_stored
               /\ j.last_result = i.last_result
BY DEF Implementation

(* implementation::cancel() replaces the token by a later one and touches  *)
(* nothing else.                                                           *)
LEMMA FreshTokenType ==
    ASSUME NEW i \in Implementation
    PROVE  /\ FreshToken(i) \in Implementation
           /\ FreshToken(i).cancelation_token = i.cancelation_token + 1
           /\ FreshToken(i).alive = i.alive
           /\ FreshToken(i).initialized = i.initialized
           /\ FreshToken(i).flags = i.flags
           /\ FreshToken(i).first_result_stored = i.first_result_stored
           /\ FreshToken(i).last_result = i.last_result
<1>1. i.cancelation_token + 1 \in Nat
  BY DEF Implementation
<1> QED
  BY <1>1, SetToken DEF FreshToken

(* Cancelling a connection marks its queued and running operations and     *)
(* leaves everything else of every operation alone.                        *)
LEMMA CancelledType ==
    ASSUME op \in [Ops -> Operation], NEW c
    PROVE  /\ Cancelled(c) \in [Ops -> Operation]
           /\ \A o \in Ops :
                 /\ Cancelled(c)[o].st = op[o].st
                 /\ Cancelled(c)[o].conn = op[o].conn
                 /\ Cancelled(c)[o].kind = op[o].kind
                 /\ Cancelled(c)[o].ec = op[o].ec
                 /\ Cancelled(c)[o].rs = op[o].rs
                 /\ Cancelled(c)[o].cancelation_token
                        = op[o].cancelation_token
                 /\ Cancelled(c)[o].cancelled =
                        IF /\ op[o].conn = c
                           /\ op[o].st \in {"queued", "running"}
                           /\ op[o].cancelled = "no"
                        THEN op[o].st ELSE op[o].cancelled
<1>1. ASSUME NEW o \in Ops, op[o].st \in {"queued", "running"}
      PROVE  LET q == [op[o] EXCEPT !.cancelled = op[o].st]
             IN  /\ q \in Operation
                 /\ q.cancelled = op[o].st
                 /\ q.st = op[o].st /\ q.conn = op[o].conn
                 /\ q.kind = op[o].kind /\ q.ec = op[o].ec
                 /\ q.rs = op[o].rs
                 /\ q.cancelation_token = op[o].cancelation_token
  <2>1. op[o] \in Operation /\ op[o].st \in {"no", "queued", "running"}
    BY <1>1
  <2> QED
    BY <2>1, SetCancelled
<1> QED
  BY <1>1 DEF Cancelled

(* The constructors of the handler objects give every field a value of its *)
(* type.                                                                   *)
LEMMA HandlerObjectType ==
    ASSUME TypeOK, NEW c \in Connectors, NEW kind \in Kinds,
           NEW flags \in BOOLEAN, NEW st \in {"queued", "posted"},
           NEW ec \in ErrorCodes
    PROVE  HandlerObject(c, kind, flags, st, ec) \in Operation
<1>1. impl[c].cancelation_token \in Nat
  BY DEF TypeOK, Implementation
<1> QED
  BY <1>1 DEF HandlerObject, Operation

(* What Append, Head and Tail do to the elements of a queue.               *)
LEMMA AppendFacts ==
    ASSUME NEW S, NEW s \in Seq(S), NEW e \in S
    PROVE  /\ Append(s, e) \in Seq(S)
           /\ Len(Append(s, e)) = Len(s) + 1
           /\ \A i \in 1..Len(s) : Append(s, e)[i] = s[i]
           /\ Append(s, e)[Len(s) + 1] = e
OBVIOUS

(* Taking the first element of a queue.                                    *)
LEMMA TailFacts ==
    ASSUME NEW S, NEW s \in Seq(S), s # <<>>
    PROVE  /\ Head(s) \in S /\ Head(s) = s[1] /\ Len(s) >= 1
           /\ Tail(s) \in Seq(S)
           /\ Len(Tail(s)) = Len(s) - 1
           /\ \A i \in 1..Len(Tail(s)) : Tail(s)[i] = s[i + 1]
OBVIOUS

-----------------------------------------------------------------------------
(***************************************************************************)
(* The inductive invariant.  Where an operation is follows from its st: a  *)
(* handler object is in the work queue once, or with the one thread, or in *)
(* the user's queue once; and a queued operation's weak token is expired   *)
(* exactly when its connection was cancelled since it was queued.          *)
(***************************************************************************)
WorkerInv ==
    /\ \A t \in Threads : Executing(t) =>
          cur[t] \in Ops /\ op[cur[t]].st = "running"
    /\ \A t \in Threads : pc[t] = "destroy" =>
          cur[t] \in Ops /\ op[cur[t]].st \in {"posted", "done", "dropped"}
    /\ \A t \in Threads : t \notin threads => pc[t] \in {"none", "exited"}
    /\ \A t, u \in threads : t = u

Queue(q, st) ==
    /\ \A i \in 1..Len(q) : op[q[i]].st = st
    /\ \A i, j \in 1..Len(q) : q[i] = q[j] => i = j

QueueInv == Queue(workq, "queued") /\ Queue(mainq, "posted")

GuardInv ==
    \A o \in Ops :
        /\ op[o].st \in {"queued", "running"} => o \in guards
        /\ op[o].st = "posted" => \E i \in 1..Len(mainq) : mainq[i] = o

TokenInv ==
    \A o \in Ops :
        /\ op[o].st = "queued" =>
              /\ op[o].ec # "aborted"
              /\ op[o].cancelation_token <= impl[op[o].conn].cancelation_token
              /\ op[o].cancelled \in {"no", "queued"}
              /\ op[o].cancelled = "queued" <=>
                    op[o].cancelation_token
                        # impl[op[o].conn].cancelation_token
        /\ op[o].st = "running" =>
              op[o].cancelled # "queued" /\ op[o].ec # "aborted"
        /\ op[o].st = "posted" =>
              (op[o].ec = "aborted" <=> op[o].cancelled = "queued")

IInv == TypeOK /\ WorkerInv /\ QueueInv /\ GuardInv /\ TokenInv

(* What is queued is an operation.                                         *)
LEMMA QueueElements ==
    ASSUME TypeOK
    PROVE  /\ \A i \in 1..Len(workq) : workq[i] \in Ops
           /\ \A i \in 1..Len(mainq) : mainq[i] \in Ops
BY DEF TypeOK

(* A new service satisfies the inductive invariant.                        *)
LEMMA InitIInv == Init => IInv
<1> SUFFICES ASSUME Init PROVE IInv
  OBVIOUS
<1>1. \A o \in Ops : op[o] = NewOperation /\ op[o].st = "fresh"
  BY DEF Init, NewOperation
<1>2. TypeOK
  BY <1>1, NewRecords, FreshType DEF Init, TypeOK, InFlight
<1>3. WorkerInv
  BY DEF Init, WorkerInv, Executing
<1>4. QueueInv
  BY DEF Init, QueueInv, Queue
<1>5. GuardInv /\ TokenInv
  BY <1>1 DEF GuardInv, TokenInv
<1> QED
  BY <1>2, <1>3, <1>4, <1>5 DEF IInv

(* A step that leaves the operations, the queues, the guards and the       *)
(* threads alone only has to keep the tokens.                              *)
LEMMA UserKeeps ==
    ASSUME IInv, TypeOK',
           UNCHANGED <<op, workq, mainq, guards, threads, cur, pc>>,
           \A c \in Connectors : impl'[c].cancelation_token
                                     = impl[c].cancelation_token
    PROVE  IInv'
<1>1. WorkerInv'
  BY DEF IInv, WorkerInv, Executing
<1>2. QueueInv' /\ GuardInv'
  BY DEF IInv, QueueInv, Queue, GuardInv
<1>3. TokenInv'
  BY DEF IInv, TypeOK, TokenInv, InFlight
<1> QED
  BY <1>1, <1>2, <1>3 DEF IInv

(* A step that replaces one implementation by another and touches neither  *)
(* the operations nor the threads keeps the types.                         *)
LEMMA UserTypeKept ==
    ASSUME TypeOK, NEW c \in Connectors, NEW j \in Implementation,
           impl' = [impl EXCEPT ![c] = j],
           mysql' \in [Connectors -> Handle],
           upc' \in [Connectors -> {"idle", "close_state", "close_cancel", "free"}],
           UNCHANGED <<op, workq, mainq, guards, threads, cur, pc, svc>>
    PROVE  TypeOK'
<1>1. impl' \in [Connectors -> Implementation]
  BY DEF TypeOK
<1> QED
  BY <1>1 DEF TypeOK

(* The steps of the user's thread that start no operation and cancel none. *)
LEMMA UserStepKeeps ==
    ASSUME IInv, NEW c \in Connectors,
           open(c) \/ close(c) \/ destroy(c) \/ CloseState(c)
    PROVE  IInv'
<1> USE DEF IInv
<1>0. impl[c] \in Implementation /\ mysql[c] \in Handle
  BY DEF TypeOK
<1>1. CASE open(c)
  <2>1. PICK r \in mysql_init(mysql[c]) :
          /\ mysql' = [mysql EXCEPT ![c] = r.h]
          /\ impl' = [impl EXCEPT ![c].initialized = (r.ec = "ok")]
    BY <1>1 DEF open
  <2>2. r.h \in Handle /\ (r.ec = "ok") \in BOOLEAN
    BY <1>0, FreshType DEF mysql_init
  <2>3. /\ impl'[c] \in Implementation
        /\ impl'[c].cancelation_token = impl[c].cancelation_token
        /\ impl' = [impl EXCEPT ![c] = impl'[c]]
    BY <1>0, <2>1, <2>2, SetInitialized DEF TypeOK
  <2>4. TypeOK'
    BY <1>1, <2>1, <2>2, <2>3 DEF TypeOK, open, workerVars
  <2> QED
    BY <1>1, <2>3, <2>4, UserKeeps DEF TypeOK, open, workerVars
<1>2. ASSUME NEW fate \in {"yes", "dying"}, CloseHandle(c, fate),
             UNCHANGED <<op, workq, mainq, guards, workerVars, svc>>
      PROVE  IInv'
  <2> DEFINE i == [impl[c] EXCEPT !.initialized = FALSE]
             j == [i EXCEPT !.alive = fate]
  <2>1. i \in Implementation /\ i.cancelation_token = impl[c].cancelation_token
    BY <1>0, SetInitialized
  <2>2. impl' = [impl EXCEPT ![c] = j]
    BY <1>2 DEF CloseHandle, TypeOK
  <2> HIDE DEF i
  <2>3. j \in Implementation /\ j.cancelation_token = impl[c].cancelation_token
    <3>1. i \in Implementation /\ fate \in {"yes", "dying", "no"}
      BY <2>1
    <3>2. j \in Implementation /\ j.cancelation_token = i.cancelation_token
      BY ONLY <3>1, SetAlive
    <3> QED
      BY <2>1, <3>2
  <2> HIDE DEF j
  <2>4. TypeOK'
    <3>1. mysql' \in [Connectors -> Handle]
      BY <1>2, FreshType DEF CloseHandle, TypeOK
    <3>2. upc' \in [Connectors -> {"idle", "close_state", "close_cancel", "free"}]
      BY <1>2 DEF CloseHandle, TypeOK
    <3>3. UNCHANGED <<op, workq, mainq, guards, threads, cur, pc, svc>>
      BY <1>2 DEF workerVars
    <3> QED
      BY <2>2, <2>3, <3>1, <3>2, <3>3, UserTypeKept
  <2> QED
    BY <1>2, <2>2, <2>3, <2>4, UserKeeps DEF TypeOK, workerVars
<1>3. CASE close(c)
  BY <1>2, <1>3 DEF close
<1>4. CASE destroy(c)
  <2>1. CASE impl[c].initialized
    BY <1>2, <1>4, <2>1 DEF destroy
  <2>2. CASE ~impl[c].initialized
    <3> DEFINE j == [impl[c] EXCEPT !.alive = "dying"]
    <3>1. j \in Implementation
          /\ j.cancelation_token = impl[c].cancelation_token
      BY <1>0, SetAlive
    <3>2. impl' = [impl EXCEPT ![c] = j]
      BY <1>4, <2>2 DEF destroy, TypeOK
    <3> HIDE DEF j
    <3>3. TypeOK'
      <4>1. mysql' \in [Connectors -> Handle]
        BY <1>4, <2>2 DEF destroy, TypeOK
      <4>2. upc' \in [Connectors -> {"idle", "close_state", "close_cancel", "free"}]
        BY <1>4, <2>2 DEF destroy, TypeOK
      <4>3. UNCHANGED <<op, workq, mainq, guards, threads, cur, pc, svc>>
        BY <1>4 DEF destroy, workerVars
      <4> QED
        BY <3>1, <3>2, <4>1, <4>2, <4>3, UserTypeKept
    <3> QED
      BY <1>4, <3>1, <3>2, <3>3, UserKeeps DEF destroy, TypeOK, workerVars
  <2> QED
    BY <2>1, <2>2
<1>5. CASE CloseState(c)
  <2> DEFINE i == [impl[c] EXCEPT !.first_result_stored = FALSE]
             j == [i EXCEPT !.last_result = None]
  <2>1. i \in Implementation /\ i.cancelation_token = impl[c].cancelation_token
    BY <1>0, SetFirst
  <2>2. impl' = [impl EXCEPT ![c] = j]
    BY <1>5 DEF CloseState, TypeOK
  <2> HIDE DEF i
  <2>3. j \in Implementation /\ j.cancelation_token = impl[c].cancelation_token
    BY <2>1, SetLast
  <2> HIDE DEF j
  <2>4. TypeOK'
    <3>1. mysql' \in [Connectors -> Handle]
      BY <1>5 DEF CloseState, TypeOK
    <3>2. upc' \in [Connectors -> {"idle", "close_state", "close_cancel", "free"}]
      BY <1>5 DEF CloseState, TypeOK
    <3>3. UNCHANGED <<op, workq, mainq, guards, threads, cur, pc, svc>>
      BY <1>5 DEF CloseState, workerVars
    <3> QED
      BY <2>2, <2>3, <3>1, <3>2, <3>3, UserTypeKept
  <2> QED
    BY <1>5, <2>2, <2>3, <2>4, UserKeeps DEF CloseState, TypeOK, workerVars
<1> QED
  BY <1>1, <1>3, <1>4, <1>5

(* The steps that replace the token of a connection.                       *)
LEMMA CancelKeeps ==
    ASSUME IInv, NEW c \in Connectors,
           TypeOK', op' = Cancelled(c),
           UNCHANGED <<workq, mainq, guards, workerVars, svc>>,
           impl'[c].cancelation_token = impl[c].cancelation_token + 1,
           \A d \in Connectors \ {c} : impl'[d] = impl[d]
    PROVE  IInv'
<1> USE DEF IInv
<1>1. /\ op' \in [Ops -> Operation]
      /\ \A o \in Ops :
            /\ op'[o].st = op[o].st
            /\ op'[o].conn = op[o].conn
            /\ op'[o].ec = op[o].ec
            /\ op'[o].cancelation_token = op[o].cancelation_token
            /\ op'[o].cancelled =
                   IF /\ op[o].conn = c
                      /\ op[o].st \in {"queued", "running"}
                      /\ op[o].cancelled = "no"
                   THEN op[o].st ELSE op[o].cancelled
  BY CancelledType DEF TypeOK
<1>2. WorkerInv'
  <2>1. threads' = threads /\ cur' = cur /\ pc' = pc
    BY DEF workerVars
  <2> QED
    BY <1>1, <2>1 DEF WorkerInv, Executing
<1>3. QueueInv'
  BY <1>1, QueueElements DEF QueueInv, Queue
<1>4. GuardInv'
  BY <1>1 DEF GuardInv
<1>5. TokenInv'
  <2>1. \A d \in Connectors : impl[d].cancelation_token \in Nat
    BY DEF TypeOK, Implementation
  <2>2. \A o \in Ops : op[o].cancelation_token \in Nat
    BY DEF TypeOK, Operation
  <2>3. \A o \in Ops : op[o].st = "queued" => op[o].conn \in Connectors
    BY DEF TypeOK, InFlight
  <2> QED
    BY <1>1, <2>1, <2>2, <2>3 DEF TokenInv
<1> QED
  BY <1>2, <1>3, <1>4, <1>5

(* cancel(), and the steps of close() and of the destructor that cancel,   *)
(* keep the invariant.                                                     *)
LEMMA CancelStepKeeps ==
    ASSUME IInv, NEW c \in Connectors, cancel(c) \/ CloseCancel(c) \/ Free(c)
    PROVE  IInv'
<1> USE DEF IInv
<1>0. impl[c] \in Implementation
  BY DEF TypeOK
<1>1. /\ Cancelled(c) \in [Ops -> Operation]
      /\ \A o \in Ops : Cancelled(c)[o].st = op[o].st
                        /\ Cancelled(c)[o].conn = op[o].conn
  BY CancelledType DEF TypeOK
<1>2. CASE cancel(c) \/ CloseCancel(c)
  <2>1. impl' = [impl EXCEPT ![c] = FreshToken(impl[c])] /\ op' = Cancelled(c)
    BY <1>2 DEF cancel, CloseCancel
  <2>2. TypeOK'
    BY <1>0, <1>1, <1>2, <2>1, FreshTokenType
    DEF TypeOK, cancel, CloseCancel, workerVars
  <2> QED
    BY <1>0, <1>2, <2>1, <2>2, FreshTokenType, CancelKeeps
    DEF TypeOK, cancel, CloseCancel
<1>3. CASE Free(c)
  <2> DEFINE i == FreshToken(impl[c])
             j == [i EXCEPT !.first_result_stored = FALSE]
             k == [j EXCEPT !.last_result = None]
             l == [k EXCEPT !.alive = "no"]
  <2>1. impl' = [impl EXCEPT ![c] = l]
    BY <1>3 DEF Free
  <2>2. /\ i \in Implementation
        /\ i.cancelation_token = impl[c].cancelation_token + 1
    BY <1>0, FreshTokenType
  <2> HIDE DEF i
  <2>3. j \in Implementation /\ j.cancelation_token = i.cancelation_token
    BY <2>2, SetFirst
  <2> HIDE DEF j
  <2>4. k \in Implementation /\ k.cancelation_token = i.cancelation_token
    BY <2>3, SetLast
  <2> HIDE DEF k
  <2>5. l \in Implementation /\ l.cancelation_token = i.cancelation_token
    BY <2>4, SetAlive
  <2> HIDE DEF l
  <2>6. TypeOK'
    BY <1>1, <1>3, <2>1, <2>5 DEF TypeOK, Free, workerVars
  <2> QED
    BY <1>3, <2>1, <2>2, <2>5, <2>6, CancelKeeps DEF TypeOK, Free
<1> QED
  BY <1>2, <1>3

(* Starting an operation.  UserTypes is what the call leaves of the        *)
(* connector: async_connect may have opened it.                            *)
UserTypes ==
    /\ impl' \in [Connectors -> Implementation]
    /\ mysql' \in [Connectors -> Handle]
    /\ upc' = upc /\ svc' = svc
    /\ \A c \in Connectors : impl'[c].cancelation_token
                                 = impl[c].cancelation_token

(* An async_ call that fails at once keeps the invariant.                  *)
LEMMA PostErrorKeeps ==
    ASSUME IInv, UserTypes, NEW o \in Ops, NEW c \in Connectors,
           NEW kind \in Kinds, NEW ec \in ErrorCodes, ec # "aborted",
           op[o].st = "fresh", PostError(o, c, kind, ec)
    PROVE  IInv'
<1> USE DEF IInv
<1> DEFINE q == HandlerObject(c, kind, FALSE, "posted", ec)
           r == IF svc = "up" THEN q ELSE Gone("dropped")
<1>1. q \in Operation /\ q.st = "posted" /\ q.conn = c /\ q.ec = ec
      /\ q.cancelled = "no"
  <2>1. q \in Operation
    BY HandlerObjectType
  <2> QED
    BY <2>1 DEF HandlerObject
<1>2. Gone("dropped") \in Operation /\ Gone("dropped").st = "dropped"
  BY NewRecords
<1>3. op' = [op EXCEPT ![o] = r] /\ op \in [Ops -> Operation]
  BY DEF PostError, TypeOK
<1>4. /\ threads' = threads /\ cur' = cur /\ pc' = pc
      /\ workq' = workq /\ guards' = guards
  BY DEF PostError, workerVars
<1> HIDE DEF q
<1>5. /\ r \in Operation
      /\ svc = "up" => r = q
      /\ svc # "up" => r.st = "dropped"
      /\ mainq' = IF svc = "up" THEN Append(mainq, o) ELSE mainq
  BY <1>1, <1>2 DEF PostError
<1> HIDE DEF r
<1>6. TypeOK'
  BY <1>1, <1>3, <1>4, <1>5 DEF TypeOK, UserTypes, InFlight
<1>7. WorkerInv'
  BY <1>1, <1>3, <1>4, <1>5 DEF WorkerInv, Executing
<1>8. QueueInv'
  <2>1. Queue(workq, "queued")'
    BY <1>3, <1>4, QueueElements DEF QueueInv, Queue
  <2>2. \A i \in 1..Len(mainq) : mainq[i] # o /\ op'[mainq[i]] = op[mainq[i]]
    BY <1>3, QueueElements DEF QueueInv, Queue
  <2>3. CASE svc = "up"
    <3>1. /\ Len(mainq') = Len(mainq) + 1
          /\ \A i \in 1..Len(mainq) : mainq'[i] = mainq[i]
          /\ mainq'[Len(mainq) + 1] = o
      BY <1>5, <2>3, AppendFacts DEF TypeOK
    <3>2. op'[o].st = "posted"
      BY <1>1, <1>3, <1>5, <2>3
    <3>3. Len(mainq) \in Nat
      BY DEF TypeOK
    <3> QED
      BY <2>1, <2>2, <3>1, <3>2, <3>3 DEF QueueInv, Queue
  <2>4. CASE svc # "up"
    BY <1>5, <2>1, <2>2, <2>4 DEF QueueInv, Queue
  <2> QED
    BY <2>3, <2>4
<1>9. GuardInv'
  <2>1. CASE svc = "up"
    <3>1. /\ Len(mainq') = Len(mainq) + 1
          /\ \A i \in 1..Len(mainq) : mainq'[i] = mainq[i]
          /\ mainq'[Len(mainq) + 1] = o
          /\ Len(mainq) \in Nat
      BY <1>5, <2>1, AppendFacts DEF TypeOK
    <3> QED
      BY <1>1, <1>3, <1>4, <1>5, <2>1, <3>1 DEF GuardInv
  <2>2. CASE svc # "up"
    BY <1>3, <1>4, <1>5, <2>2 DEF GuardInv
  <2> QED
    BY <2>1, <2>2
<1>10. TokenInv'
  BY <1>1, <1>3, <1>5 DEF TokenInv, TypeOK, UserTypes, InFlight
<1> QED
  BY <1>6, <1>7, <1>8, <1>9, <1>10

(* An async_ call that reaches the work queue, starting the work thread if *)
(* there is none, keeps the invariant.                                     *)
LEMMA PostWorkKeeps ==
    ASSUME IInv, UserTypes, NEW o \in Ops, NEW c \in Connectors,
           NEW kind \in Kinds, NEW flags \in BOOLEAN,
           op[o].st = "fresh", PostWork(o, c, kind, flags)
    PROVE  IInv'
<1> USE DEF IInv
<1>1. CASE svc = "up"
  <2> DEFINE q == HandlerObject(c, kind, flags, "queued", "ok")
  <2>1. /\ q \in Operation /\ q.st = "queued" /\ q.conn = c /\ q.ec = "ok"
        /\ q.cancelled = "no"
        /\ q.cancelation_token = impl[c].cancelation_token
    <3>1. "ok" \in ErrorCodes
      BY DEF ErrorCodes
    <3>2. q \in Operation
      BY <3>1, HandlerObjectType
    <3> QED
      BY <3>2 DEF HandlerObject
  <2>2. /\ op' = [op EXCEPT ![o] = q] /\ op \in [Ops -> Operation]
        /\ workq' = Append(workq, o)
        /\ guards' = guards \cup {o}
        /\ mainq' = mainq
        /\ start_work_thread
    BY <1>1 DEF PostWork, TypeOK
  <2> HIDE DEF q
  <2>3. /\ cur' = cur
        /\ \/ threads' = threads /\ pc' = pc
           \/ \E t \in Threads : /\ threads = {} /\ threads' = {t}
                                 /\ pc' = [pc EXCEPT ![t] = "idle"]
    BY <2>2 DEF start_work_thread, workerVars
  <2>4. TypeOK'
    BY <1>1, <2>1, <2>2, <2>3, AppendFacts DEF TypeOK, UserTypes, InFlight
  <2>5. WorkerInv'
    <3>1. \A p \in Ops : p # o => op'[p] = op[p]
      BY <2>2
    <3>2. \A t \in Threads : cur[t] = o => ~Executing(t) /\ pc[t] # "destroy"
      BY DEF WorkerInv
    <3>3. CASE threads' = threads /\ pc' = pc
      BY <2>3, <3>1, <3>2, <3>3 DEF WorkerInv, Executing
    <3>4. ASSUME NEW t \in Threads, threads = {}, threads' = {t},
                 pc' = [pc EXCEPT ![t] = "idle"]
          PROVE  WorkerInv'
      <4>1. \A u \in Threads : pc[u] \in {"none", "exited"}
        BY <3>4 DEF WorkerInv
      <4>2. \A u \in Threads : pc'[u] \in {"none", "exited", "idle"}
        BY <3>4, <4>1 DEF TypeOK
      <4>3. \A u \in Threads : u # t => pc'[u] \in {"none", "exited"}
        BY <3>4, <4>1 DEF TypeOK
      <4> QED
        BY <3>4, <4>2, <4>3 DEF WorkerInv, Executing
    <3> QED
      BY <2>3, <3>3, <3>4
  <2>6. /\ Len(workq') = Len(workq) + 1
        /\ \A i \in 1..Len(workq) : workq'[i] = workq[i]
        /\ workq'[Len(workq) + 1] = o
        /\ Len(workq) \in Nat
    BY <2>2, AppendFacts DEF TypeOK
  <2>7. QueueInv'
    <3>1. \A i \in 1..Len(workq) : workq[i] # o /\ op'[workq[i]] = op[workq[i]]
      BY <2>2, QueueElements DEF QueueInv, Queue
    <3>2. op'[o].st = "queued"
      BY <2>1, <2>2
    <3>3. Queue(workq, "queued")'
      BY <2>6, <3>1, <3>2 DEF QueueInv, Queue
    <3>4. Queue(mainq, "posted")'
      BY <2>1, <2>2, QueueElements DEF QueueInv, Queue
    <3> QED
      BY <3>3, <3>4 DEF QueueInv
  <2>8. GuardInv'
    BY <2>1, <2>2 DEF GuardInv
  <2>9. TokenInv'
    <3>1. impl[c].cancelation_token \in Nat
      BY DEF TypeOK, Implementation
    <3> QED
      BY <2>1, <2>2, <3>1 DEF TokenInv, TypeOK, UserTypes, InFlight
  <2> QED
    BY <2>4, <2>5, <2>7, <2>8, <2>9
<1>2. CASE svc # "up"
  <2>1. Gone("dropped") \in Operation /\ Gone("dropped").st = "dropped"
    BY NewRecords
  <2>2. /\ op' = [op EXCEPT ![o] = Gone("dropped")] /\ op \in [Ops -> Operation]
        /\ workq' = workq /\ guards' = guards /\ mainq' = mainq
        /\ threads' = threads /\ cur' = cur /\ pc' = pc
    BY <1>2 DEF PostWork, TypeOK, workerVars
  <2>3. TypeOK'
    BY <2>1, <2>2 DEF TypeOK, UserTypes, InFlight
  <2>4. WorkerInv'
    BY <2>1, <2>2 DEF WorkerInv, Executing
  <2>5. QueueInv'
    BY <2>1, <2>2, QueueElements DEF QueueInv, Queue
  <2>6. GuardInv' /\ TokenInv'
    BY <2>1, <2>2 DEF GuardInv, TokenInv, TypeOK, UserTypes, InFlight
  <2> QED
    BY <2>3, <2>4, <2>5, <2>6
<1> QED
  BY <1>1, <1>2

(* The three async_ calls keep the invariant.                              *)
LEMMA AsyncKeeps ==
    ASSUME IInv, NEW o \in Ops, NEW c \in Connectors,
           \/ \E flags \in BOOLEAN : async_connect(o, c, flags)
           \/ async_query(o, c)
           \/ async_store_result(o, c)
    PROVE  IInv'
<1>0. TypeOK /\ {"connect", "query", "store_result"} = Kinds
  BY DEF IInv, Kinds
<1>1. ASSUME NEW flags \in BOOLEAN, async_connect(o, c, flags)
      PROVE  IInv'
  <2>0. op[o].st = "fresh"
    BY <1>1 DEF async_connect
  <2>1. CASE impl[c].initialized
    <3>1. UserTypes
      BY <1>0, <1>1, <2>1 DEF async_connect, UserTypes, TypeOK
    <3> QED
      BY <1>0, <1>1, <2>0, <2>1, <3>1, PostWorkKeeps DEF async_connect
  <2>2. CASE ~impl[c].initialized
    <3>1. PICK r \in mysql_init(mysql[c]) :
            /\ mysql' = [mysql EXCEPT ![c] = r.h]
            /\ impl' = [impl EXCEPT ![c].initialized = (r.ec = "ok")]
            /\ IF r.ec # "ok" THEN PostError(o, c, "connect", r.ec)
                              ELSE PostWork(o, c, "connect", flags)
      BY <1>1, <2>2 DEF async_connect
    <3>2. /\ r.h \in Handle /\ (r.ec = "ok") \in BOOLEAN
          /\ r.ec \in ErrorCodes /\ r.ec # "aborted"
      BY <1>0, FreshType DEF mysql_init, TypeOK, ErrorCodes
    <3>3. impl[c] \in Implementation
      BY <1>0 DEF TypeOK
    <3>4. /\ impl'[c] \in Implementation
          /\ impl'[c].cancelation_token = impl[c].cancelation_token
          /\ impl' = [impl EXCEPT ![c] = impl'[c]]
      BY <1>0, <3>1, <3>2, <3>3, SetInitialized DEF TypeOK
    <3>5. UserTypes
      BY <1>0, <1>1, <3>1, <3>2, <3>4 DEF UserTypes, TypeOK, async_connect
    <3> QED
      BY <1>0, <2>0, <3>1, <3>2, <3>5, PostErrorKeeps, PostWorkKeeps
  <2> QED
    BY <2>1, <2>2
<1>2. ASSUME NEW kind \in Kinds, AsyncOnOpen(o, c, kind)
      PROVE  IInv'
  <2>1. UserTypes /\ op[o].st = "fresh"
    BY <1>0, <1>2 DEF AsyncOnOpen, UserTypes, TypeOK, userVars
  <2> QED
    BY <1>2, <2>1, PostErrorKeeps, PostWorkKeeps DEF AsyncOnOpen, ErrorCodes
<1> QED
  BY <1>0, <1>1, <1>2 DEF async_query, async_store_result

(* Posting the user's handler, from Take (o was queued) or from Post (o    *)
(* was running).                                                           *)
LEMMA PostHandlerKeeps ==
    ASSUME IInv, UserTypes, NEW t \in Threads, NEW o \in Ops,
           NEW ec \in ErrorCodes, NEW rs \in BOOLEAN,
           PostHandler(t, o, ec, rs),
           t \in threads,
           op[o].st \in {"queued", "running"},
           ec = "aborted" <=> op[o].cancelled = "queued",
           cur' = [cur EXCEPT ![t] = o],
           threads' = threads, guards' = guards,
           workq' \in Seq(Ops),
           \A i \in 1..Len(workq') : /\ workq'[i] # o
                                     /\ op[workq'[i]].st = "queued",
           \A i, j \in 1..Len(workq') : workq'[i] = workq'[j] => i = j
    PROVE  IInv'
<1> USE DEF IInv
<1> DEFINE q == Completed(op[o], ec, rs)
<1>1. /\ op' = [op EXCEPT ![o] = q]
      /\ mainq' = Append(mainq, o)
      /\ pc' = [pc EXCEPT ![t] = "destroy"]
      /\ op \in [Ops -> Operation] /\ op[o] \in Operation
  BY DEF PostHandler, TypeOK
<1>2. /\ q \in Operation /\ q.st = "posted" /\ q.ec = ec
      /\ q.conn = op[o].conn /\ q.cancelled = op[o].cancelled
  BY <1>1, Posted
<1> HIDE DEF q
<1>3. \A p \in Ops : op'[p] = IF p = o THEN q ELSE op[p]
  BY <1>1
<1>4. /\ Len(mainq') = Len(mainq) + 1
      /\ \A i \in 1..Len(mainq) : mainq'[i] = mainq[i]
      /\ mainq'[Len(mainq) + 1] = o
      /\ Len(mainq) \in Nat
      /\ mainq' \in Seq(Ops)
  BY <1>1, AppendFacts DEF TypeOK
<1>5. TypeOK'
  BY <1>1, <1>2, <1>3, <1>4 DEF TypeOK, UserTypes, InFlight
<1>6. WorkerInv'
  <2>1. \A u \in Threads : u # t => pc[u] \in {"none", "exited"}
    BY DEF WorkerInv
  <2>2. \A u \in Threads : u # t => pc'[u] \in {"none", "exited"}
    BY <1>1, <2>1 DEF TypeOK
  <2>3. pc'[t] = "destroy" /\ cur'[t] = o /\ op'[o].st = "posted"
    BY <1>1, <1>2, <1>3 DEF TypeOK
  <2> QED
    BY <2>2, <2>3 DEF WorkerInv, Executing
<1>7. QueueInv'
  <2>1. Queue(workq, "queued")'
    <3>1. \A i \in 1..Len(workq') : workq'[i] \in Ops
      OBVIOUS
    <3>2. \A i \in 1..Len(workq') : op'[workq'[i]] = op[workq'[i]]
      BY <1>3, <3>1
    <3>3. \A i \in 1..Len(workq') : op'[workq'[i]].st = "queued"
      BY <3>2
    <3> QED
      BY <3>3 DEF Queue
  <2>2. \A i \in 1..Len(mainq) : mainq[i] # o /\ op'[mainq[i]] = op[mainq[i]]
    BY <1>3, QueueElements DEF QueueInv, Queue
  <2>3. op'[o].st = "posted"
    BY <1>2, <1>3
  <2>4. \A i \in 1..Len(mainq') :
          \/ i \in 1..Len(mainq) /\ mainq'[i] = mainq[i]
          \/ i = Len(mainq) + 1 /\ mainq'[i] = o
    BY <1>4
  <2>5. \A i \in 1..Len(mainq') : op'[mainq'[i]].st = "posted"
    BY <2>2, <2>3, <2>4 DEF QueueInv, Queue
  <2>6. \A i, j \in 1..Len(mainq') : mainq'[i] = mainq'[j] => i = j
    BY <2>2, <2>4 DEF QueueInv, Queue
  <2> QED
    BY <2>1, <2>5, <2>6 DEF QueueInv, Queue
<1>8. GuardInv'
  <2>1. \A i \in 1..Len(mainq) : i \in 1..Len(mainq')
    BY <1>4
  <2>2. Len(mainq) + 1 \in 1..Len(mainq')
    BY <1>4
  <2> QED
    BY <1>2, <1>3, <1>4, <2>1, <2>2 DEF GuardInv
<1>9. TokenInv'
  <2>1. /\ op'[o].st = "posted"
        /\ op'[o].ec = "aborted" <=> op'[o].cancelled = "queued"
    BY <1>2, <1>3
  <2>2. \A p \in Ops : p # o => op'[p] = op[p]
    BY <1>3
  <2>3. \A p \in Ops : op[p].st = "queued" =>
            impl'[op[p].conn].cancelation_token
                = impl[op[p].conn].cancelation_token
    BY DEF TypeOK, UserTypes, InFlight
  <2> QED
    BY <2>1, <2>2, <2>3 DEF TokenInv
<1> QED
  BY <1>5, <1>6, <1>7, <1>8, <1>9

(* Taking a handler object off the work queue, and aborting it if its      *)
(* token expired, keeps the invariant.                                     *)
LEMMA TakeKeeps ==
    ASSUME IInv, NEW t \in Threads, Take(t)
    PROVE  IInv'
<1> USE DEF IInv
<1> DEFINE o == Head(workq)
<1>1. /\ o \in Ops /\ o = workq[1] /\ Len(workq) >= 1 /\ Len(workq) \in Nat
      /\ workq' = Tail(workq) /\ workq' \in Seq(Ops)
      /\ Len(workq') = Len(workq) - 1
      /\ \A i \in 1..Len(workq') : workq'[i] = workq[i + 1]
  BY TailFacts DEF Take, TypeOK
<1>2. /\ cur' = [cur EXCEPT ![t] = o]
      /\ threads' = threads /\ guards' = guards /\ pc[t] = "idle"
      /\ impl' = impl /\ mysql' = mysql /\ upc' = upc /\ svc' = svc
      /\ IF op[o].cancelation_token # impl[op[o].conn].cancelation_token
         THEN PostHandler(t, o, "aborted", FALSE)
         ELSE /\ op' = [op EXCEPT ![o].st = "running"]
              /\ pc' = [pc EXCEPT ![t] = "enter"]
              /\ UNCHANGED mainq
  BY DEF Take, userVars
<1> HIDE DEF o
<1>3. op[o].st = "queued" /\ op[o].conn \in Connectors /\ t \in threads
  <2>1. op[o].st = "queued"
    BY <1>1 DEF QueueInv, Queue
  <2>2. op[o].conn \in Connectors
    BY <1>1, <2>1 DEF TypeOK, InFlight
  <2>3. t \in threads
    BY <1>2 DEF WorkerInv
  <2> QED
    BY <2>1, <2>2, <2>3
<1>4. UserTypes
  BY <1>2 DEF UserTypes, TypeOK
<1>5. /\ \A i \in 1..Len(workq') : /\ workq'[i] # o
                                   /\ op[workq'[i]].st = "queued"
      /\ \A i, j \in 1..Len(workq') : workq'[i] = workq'[j] => i = j
  <2>1. \A i \in 1..Len(workq') : i + 1 \in 1..Len(workq) /\ i + 1 # 1
    BY <1>1
  <2>2. \A i \in 1..Len(workq) : i # 1 => workq[i] # o /\ op[workq[i]].st = "queued"
    BY <1>1 DEF QueueInv, Queue
  <2>3. \A i, j \in 1..Len(workq) : workq[i] = workq[j] => i = j
    BY DEF QueueInv, Queue
  <2>4. ASSUME NEW i \in 1..Len(workq'), NEW j \in 1..Len(workq'),
               workq'[i] = workq'[j]
        PROVE  i = j
    <3>1. i + 1 = j + 1
      BY <1>1, <2>1, <2>3, <2>4
    <3> QED
      BY <3>1
  <2> QED
    BY <1>1, <2>1, <2>2, <2>4
<1>6. CASE op[o].cancelation_token # impl[op[o].conn].cancelation_token
  <2>1. op[o].cancelled = "queued"
    BY <1>1, <1>3, <1>6 DEF TokenInv
  <2>2. "aborted" \in ErrorCodes /\ PostHandler(t, o, "aborted", FALSE)
    BY <1>2, <1>6 DEF ErrorCodes
  <2> QED
    BY <1>1, <1>2, <1>3, <1>4, <1>5, <2>1, <2>2, PostHandlerKeeps
<1>7. CASE op[o].cancelation_token = impl[op[o].conn].cancelation_token
  <2> DEFINE q == [op[o] EXCEPT !.st = "running"]
  <2>1. op[o] \in Operation
    BY <1>1 DEF TypeOK
  <2>2. /\ q \in Operation /\ q.st = "running" /\ q.ec = op[o].ec
        /\ q.conn = op[o].conn /\ q.cancelled = op[o].cancelled
    BY <2>1, SetSt
  <2>3. /\ op' = [op EXCEPT ![o] = q]
        /\ pc' = [pc EXCEPT ![t] = "enter"] /\ mainq' = mainq
    BY <1>2, <1>7
  <2> HIDE DEF q
  <2>4. \A p \in Ops : op'[p] = IF p = o THEN q ELSE op[p]
    BY <2>3 DEF TypeOK
  <2>5. TypeOK'
    BY <1>1, <1>2, <1>3, <2>2, <2>3, <2>4 DEF TypeOK, InFlight
  <2>6. WorkerInv'
    <3>1. \A u \in Threads : u # t => pc'[u] \in {"none", "exited"}
      BY <1>3, <2>3 DEF WorkerInv, TypeOK
    <3>2. pc'[t] = "enter" /\ cur'[t] = o /\ op'[o].st = "running"
      BY <1>1, <1>2, <2>2, <2>3, <2>4 DEF TypeOK
    <3> QED
      BY <1>1, <1>2, <1>3, <3>1, <3>2 DEF WorkerInv, Executing
  <2>7. QueueInv'
    <3>1. Queue(workq, "queued")'
      <4>1. \A i \in 1..Len(workq') : workq'[i] \in Ops
        BY <1>1
      <4> QED
        BY <1>5, <2>4, <4>1 DEF Queue
    <3>2. Queue(mainq, "posted")'
      BY <1>3, <2>3, <2>4, QueueElements DEF QueueInv, Queue
    <3> QED
      BY <3>1, <3>2 DEF QueueInv
  <2>8. GuardInv'
    BY <1>1, <1>2, <1>3, <2>2, <2>3, <2>4 DEF GuardInv
  <2>9. TokenInv'
    <3>1. op[o].cancelled # "queued"
      BY <1>1, <1>3, <1>7 DEF TokenInv
    <3>2. op[o].ec # "aborted"
      BY <1>1, <1>3 DEF TokenInv
    <3> QED
      BY <1>2, <2>2, <2>4, <3>1, <3>2 DEF TokenInv
  <2> QED
    BY <2>5, <2>6, <2>7, <2>8, <2>9
<1> QED
  BY <1>6, <1>7

(* A step inside operator(): the thread keeps its operation, of which only *)
(* the outcome may change, and nothing is queued or posted.                *)
LEMMA InsideKeeps ==
    ASSUME IInv, UserTypes, NEW t \in Threads, Executing(t),
           NEW p \in {"enter", "next", "lib", "reset", "post"},
           pc' = [pc EXCEPT ![t] = p],
           UNCHANGED <<workq, mainq, guards, threads, cur>>,
           \/ op' = op
           \/ \E ec \in ErrorCodes \ {"aborted"} :
                  op' = [op EXCEPT ![cur[t]].ec = ec]
           \/ \E ec \in ErrorCodes \ {"aborted"}, rs \in BOOLEAN :
                  op' = [op EXCEPT ![cur[t]].ec = ec, ![cur[t]].rs = rs]
    PROVE  IInv'
<1> USE DEF IInv
<1>1. cur[t] \in Ops /\ op[cur[t]].st = "running" /\ t \in threads
  BY DEF WorkerInv, Executing
<1> DEFINE OnlyEc ==
               /\ op' \in [Ops -> Operation]
               /\ \A o \in Ops :
                     /\ op'[o].st = op[o].st
                     /\ op'[o].conn = op[o].conn
                     /\ op'[o].cancelled = op[o].cancelled
                     /\ op'[o].cancelation_token = op[o].cancelation_token
                     /\ \/ op'[o].ec = op[o].ec
                        \/ o = cur[t] /\ op'[o].ec # "aborted"
<1>2. OnlyEc
  <2>1. CASE op' = op
    BY <2>1 DEF TypeOK
  <2>2. op[cur[t]] \in Operation /\ op \in [Ops -> Operation]
    BY <1>1 DEF TypeOK
  <2>3. ASSUME NEW q \in Operation, q.ec # "aborted", q.st = op[cur[t]].st,
               q.conn = op[cur[t]].conn, q.cancelled = op[cur[t]].cancelled,
               q.cancelation_token = op[cur[t]].cancelation_token,
               op' = [op EXCEPT ![cur[t]] = q]
        PROVE  OnlyEc
    <3>1. \A o \in Ops : op'[o] = IF o = cur[t] THEN q ELSE op[o]
      BY <2>2, <2>3
    <3>2. op' \in [Ops -> Operation]
      BY <1>1, <2>2, <2>3
    <3> QED
      BY <2>3, <3>1, <3>2
  <2>4. ASSUME NEW ec \in ErrorCodes, ec # "aborted",
               op' = [op EXCEPT ![cur[t]].ec = ec]
        PROVE  OnlyEc
    <3> DEFINE q == [op[cur[t]] EXCEPT !.ec = ec]
    <3>1. /\ q \in Operation /\ q.ec = ec /\ q.st = op[cur[t]].st
          /\ q.conn = op[cur[t]].conn /\ q.cancelled = op[cur[t]].cancelled
          /\ q.cancelation_token = op[cur[t]].cancelation_token
      BY <2>2, SetEc
    <3>2. op' = [op EXCEPT ![cur[t]] = q]
      BY <2>4
    <3> HIDE DEF q
    <3> QED
      BY <2>3, <2>4, <3>1, <3>2
  <2>5. ASSUME NEW ec \in ErrorCodes, ec # "aborted", NEW rs \in BOOLEAN,
               op' = [op EXCEPT ![cur[t]].ec = ec, ![cur[t]].rs = rs]
        PROVE  OnlyEc
    <3> DEFINE q == Returned(op[cur[t]], ec, rs)
    <3>1. /\ q \in Operation /\ q.ec = ec /\ q.st = op[cur[t]].st
          /\ q.conn = op[cur[t]].conn /\ q.cancelled = op[cur[t]].cancelled
          /\ q.cancelation_token = op[cur[t]].cancelation_token
      BY <2>2, SetOutcome
    <3>2. op' = [op EXCEPT ![cur[t]] = q]
      BY <1>1, <2>2, <2>5 DEF Returned
    <3> HIDE DEF q
    <3> QED
      BY <2>3, <2>5, <3>1, <3>2
  <2> QED
    BY <2>1, <2>4, <2>5
<1>3. TypeOK'
  BY <1>2 DEF TypeOK, UserTypes, InFlight
<1>4. WorkerInv'
  <2>1. \A u \in Threads : u # t => pc'[u] \in {"none", "exited"}
    BY <1>1 DEF WorkerInv, TypeOK
  <2>2. pc'[t] = p /\ cur'[t] \in Ops /\ op'[cur'[t]].st = "running"
    BY <1>1, <1>2 DEF TypeOK
  <2> QED
    BY <1>1, <2>1, <2>2 DEF WorkerInv, Executing
<1>5. QueueInv'
  BY <1>2, QueueElements DEF QueueInv, Queue
<1>6. GuardInv'
  BY <1>2 DEF GuardInv
<1>7. TokenInv'
  <2>1. \A o \in Ops : op[o].st = "queued" =>
            impl'[op[o].conn].cancelation_token
                = impl[op[o].conn].cancelation_token
    BY DEF TypeOK, UserTypes, InFlight
  <2>2. \A o \in Ops : o = cur[t] => op[o].st = "running"
    BY <1>1
  <2> QED
    BY <1>2, <2>1, <2>2 DEF TokenInv
<1> QED
  BY <1>3, <1>4, <1>5, <1>6, <1>7

(* The part of operator() before its first library call keeps the          *)
(* invariant.                                                              *)
LEMMA EnterKeeps ==
    ASSUME IInv, NEW t \in Threads, Enter(t)
    PROVE  IInv'
<1> DEFINE o == cur[t]
           c == conn(t)
           freed == [impl[c] EXCEPT !.last_result = None]
<1>1. /\ Executing(t) /\ o \in Ops /\ c \in Connectors
      /\ impl[c] \in Implementation /\ impl \in [Connectors -> Implementation]
  BY DEF Enter, Executing, IInv, WorkerInv, TypeOK, InFlight, conn
<1>2. /\ UNCHANGED <<mysql, upc, workq, mainq, guards, threads, cur, svc>>
      /\ mysql \in [Connectors -> Handle]
  BY DEF Enter, IInv, TypeOK
<1>3. /\ freed \in Implementation
      /\ freed.cancelation_token = impl[c].cancelation_token
  BY <1>1, SetLast
<1>4. PICK p \in {"enter", "next", "lib", "post"} :
          pc' = [pc EXCEPT ![t] = p]
  BY DEF Enter
<1>5. op' = op \/ \E ec \in ErrorCodes \ {"aborted"} :
                      op' = [op EXCEPT ![cur[t]].ec = ec]
  BY DEF Enter, ErrorCodes
<1>6. \/ impl' = impl
      \/ impl' = [impl EXCEPT ![c] = [freed EXCEPT !.first_result_stored = FALSE]]
      \/ impl' = [impl EXCEPT ![c] =
                     [impl[c] EXCEPT !.first_result_stored = TRUE]]
      \/ impl' = [impl EXCEPT ![c] = freed]
  BY <1>1 DEF Enter
<1> HIDE DEF freed, c
<1>7. UserTypes
  <2>1. ASSUME NEW j \in Implementation, impl' = [impl EXCEPT ![c] = j],
               j.cancelation_token = impl[c].cancelation_token
        PROVE  UserTypes
    BY <1>1, <1>2, <2>1 DEF UserTypes
  <2>2. LET j == [freed EXCEPT !.first_result_stored = FALSE]
        IN  j \in Implementation /\ j.cancelation_token = freed.cancelation_token
    BY <1>3, SetFirst
  <2>3. LET j == [impl[c] EXCEPT !.first_result_stored = TRUE]
        IN  j \in Implementation
            /\ j.cancelation_token = impl[c].cancelation_token
    BY <1>1, SetFirst
  <2>4. CASE impl' = impl
    BY <1>1, <1>2, <2>4 DEF UserTypes
  <2>5. CASE impl' = [impl EXCEPT ![c] =
                         [freed EXCEPT !.first_result_stored = FALSE]]
    BY <1>3, <2>1, <2>2, <2>5
  <2>6. CASE impl' = [impl EXCEPT ![c] =
                         [impl[c] EXCEPT !.first_result_stored = TRUE]]
    BY <2>1, <2>3, <2>6
  <2>7. CASE impl' = [impl EXCEPT ![c] = freed]
    BY <1>3, <2>1, <2>7
  <2> QED
    BY <1>6, <2>4, <2>5, <2>6, <2>7
<1> QED
  BY <1>1, <1>2, <1>4, <1>5, <1>7, InsideKeeps

(* The return of a library call keeps the invariant.                       *)
LEMMA LibraryKeeps ==
    ASSUME IInv, NEW t \in Threads, NextResult(t) \/ LibReturn(t)
    PROVE  IInv'
<1> DEFINE c == conn(t)
<1>1. /\ Executing(t) /\ cur[t] \in Ops /\ c \in Connectors
      /\ mysql[c] \in Handle /\ mysql \in [Connectors -> Handle]
      /\ impl[c] \in Implementation /\ impl \in [Connectors -> Implementation]
      /\ op[cur[t]].flags \in BOOLEAN /\ op[cur[t]].kind \in Kinds
  BY DEF NextResult, LibReturn, Executing, IInv, WorkerInv, TypeOK, InFlight,
         conn, Operation
<1>2. UNCHANGED <<upc, workq, mainq, guards, threads, cur, svc>>
  BY DEF NextResult, LibReturn
<1>3. {"ok", "client"} \subseteq ErrorCodes \ {"aborted"}
  BY DEF ErrorCodes
<1>4. CASE NextResult(t)
  <2>1. PICK r \in mysql_next_result(mysql[c]) :
          /\ mysql' = [mysql EXCEPT ![c] = r.h]
          /\ op' = [op EXCEPT ![cur[t]].ec = r.ec]
          /\ pc' = [pc EXCEPT ![t] = IF r.ec = "ok" THEN "lib" ELSE "post"]
    BY <1>4 DEF NextResult
  <2>2. r \in CallResult
    BY <1>1, CallType
  <2>3. r.h \in Handle /\ r.ec \in ErrorCodes \ {"aborted"}
    BY <1>3, <2>2 DEF CallResult
  <2>4. UserTypes
    BY <1>1, <1>2, <1>4, <2>1, <2>3 DEF UserTypes, NextResult
  <2> QED
    BY <1>1, <1>2, <2>1, <2>3, <2>4, InsideKeeps
<1>5. CASE LibReturn(t)
  <2>1. PICK r \in LibCall(t) :
          /\ mysql' = [mysql EXCEPT ![c] = r.h]
          /\ op' = [op EXCEPT ![cur[t]].ec = r.ec, ![cur[t]].rs = r.res]
    BY <1>5 DEF LibReturn
  <2>2. PICK p \in {"reset", "post"} : pc' = [pc EXCEPT ![t] = p]
    BY <1>5 DEF LibReturn
  <2>3. r \in mysql_real_connect(mysql[c], op[cur[t]].flags)
              \cup mysql_real_query(mysql[c]) \cup mysql_store_result(mysql[c])
    BY <1>1, <2>1 DEF LibCall, Kinds
  <2>4. r \in CallResult
    BY <1>1, <2>3, CallType
  <2>5. /\ r.h \in Handle /\ r.ec \in ErrorCodes \ {"aborted"}
        /\ r.res \in BOOLEAN
    BY <1>3, <2>4 DEF CallResult
  <2> HIDE DEF c
  <2>6. UserTypes
    BY <1>1, <1>2, <1>5, <2>1, <2>5 DEF UserTypes, LibReturn
  <2> QED
    BY <1>1, <1>2, <2>1, <2>2, <2>5, <2>6, InsideKeeps
<1> QED
  BY <1>4, <1>5

(* last_result.reset() keeps the invariant.                                *)
LEMMA ResetKeeps ==
    ASSUME IInv, NEW t \in Threads, Reset(t)
    PROVE  IInv'
<1> DEFINE c == conn(t)
           x == IF op[cur[t]].rs THEN cur[t] ELSE None
           j == [impl[c] EXCEPT !.last_result = x]
<1>1. /\ Executing(t) /\ cur[t] \in Ops /\ c \in Connectors
      /\ mysql \in [Connectors -> Handle]
      /\ impl[c] \in Implementation /\ impl \in [Connectors -> Implementation]
  BY DEF Reset, Executing, IInv, WorkerInv, TypeOK, InFlight, conn
<1>2. /\ UNCHANGED <<mysql, upc, op, workq, mainq, guards, threads, cur, svc>>
      /\ pc' = [pc EXCEPT ![t] = "post"]
  BY DEF Reset
<1>3. impl' = [impl EXCEPT ![c] = j]
  BY DEF Reset
<1>4. x \in Ops \cup {None}
  BY <1>1
<1> HIDE DEF c, x
<1>5. j \in Implementation /\ j.cancelation_token = impl[c].cancelation_token
  BY <1>1, <1>4, SetLast
<1> HIDE DEF j
<1>6. UserTypes
  BY <1>1, <1>2, <1>3, <1>5 DEF UserTypes
<1> QED
  BY <1>1, <1>2, <1>6, InsideKeeps

(* Posting the user's handler with its result keeps the invariant.         *)
LEMMA PostKeeps ==
    ASSUME IInv, NEW t \in Threads, Post(t)
    PROVE  IInv'
<1> DEFINE o == cur[t]
           c == conn(t)
<1>1. /\ Executing(t) /\ o \in Ops /\ op[o].st = "running" /\ t \in threads
      /\ op[o].cancelled # "queued" /\ op[o].ec # "aborted"
      /\ c \in Connectors /\ op[o].ec \in ErrorCodes
      /\ op[o].flags \in BOOLEAN
      /\ impl[c] \in Implementation /\ impl \in [Connectors -> Implementation]
      /\ mysql \in [Connectors -> Handle]
  BY DEF Post, Executing, IInv, WorkerInv, TokenInv, TypeOK, InFlight, conn,
         Operation
<1>2. UNCHANGED <<mysql, upc, workq, guards, threads, cur, svc>>
  BY DEF Post
<1>3. PICK ec \in ErrorCodes, rs \in BOOLEAN :
          PostHandler(t, o, ec, rs) /\ ec # "aborted"
  <2>1. FALSE \in BOOLEAN
    OBVIOUS
  <2>2. CASE op[o].kind \in {"connect", "query"}
    BY <1>1, <2>1, <2>2 DEF Post
  <2>3. CASE op[o].kind = "store_result" /\ op[o].ec # "ok"
    <3>1. PICK a \in {[ec |-> op[o].ec, rs |-> FALSE]} :
              PostHandler(t, o, a.ec, a.rs)
      BY <2>3 DEF Post
    <3>2. a.ec = op[o].ec /\ a.rs = FALSE
      OBVIOUS
    <3> QED
      BY <1>1, <2>1, <3>1, <3>2
  <2>4. CASE op[o].kind = "store_result" /\ op[o].ec = "ok"
    <3>1. PICK a \in Assign(c, "ok") : PostHandler(t, o, a.ec, a.rs)
      BY <2>4 DEF Post
    <3>2. \A e \in mysql_fetch_row(mysql[c], "ok") : e \in {"ok", "client"}
      BY DEF mysql_fetch_row, error_wrapper
    <3>3. \/ a = [ec |-> "ok", rs |-> FALSE]
          \/ \E e \in mysql_fetch_row(mysql[c], "ok") :
                a = [ec |-> e, rs |-> e = "ok"]
      BY <3>1 DEF Assign
    <3>4. a.ec \in {"ok", "client"} /\ a.rs \in BOOLEAN
      <4>1. CASE a = [ec |-> "ok", rs |-> FALSE]
        BY <4>1
      <4>2. ASSUME NEW e \in mysql_fetch_row(mysql[c], "ok"),
                   a = [ec |-> e, rs |-> e = "ok"]
            PROVE  a.ec \in {"ok", "client"} /\ a.rs \in BOOLEAN
        <5>1. a.ec = e /\ a.rs = (e = "ok")
          BY <4>2
        <5> QED
          BY <3>2, <5>1
      <4> QED
        BY <3>3, <4>1, <4>2
    <3> QED
      BY <3>1, <3>4 DEF ErrorCodes
  <2> QED
    BY <2>2, <2>3, <2>4 DEF Post
<1>4. UserTypes
  <2>1. impl' = impl \/ impl' = [impl EXCEPT ![c].flags = op[o].flags]
    BY DEF Post
  <2> DEFINE j == [impl[c] EXCEPT !.flags = op[o].flags]
  <2>2. /\ j \in Implementation
        /\ j.cancelation_token = impl[c].cancelation_token
    BY <1>1, SetFlags
  <2>3. impl' = impl \/ impl' = [impl EXCEPT ![c] = j]
    BY <2>1
  <2> HIDE DEF j, c
  <2> QED
    BY <1>1, <1>2, <2>2, <2>3 DEF UserTypes
<1>5. /\ cur' = [cur EXCEPT ![t] = o]
      /\ workq' \in Seq(Ops)
  BY <1>2 DEF IInv, TypeOK
<1>6. /\ \A i \in 1..Len(workq') : /\ workq'[i] # o
                                   /\ op[workq'[i]].st = "queued"
      /\ \A i, j \in 1..Len(workq') : workq'[i] = workq'[j] => i = j
  BY <1>1, <1>2 DEF IInv, QueueInv, Queue
<1>7. ec = "aborted" <=> op[o].cancelled = "queued"
  BY <1>1, <1>3
<1>8. /\ threads' = threads /\ guards' = guards
      /\ op[o].st \in {"queued", "running"}
  BY <1>1, <1>2
<1> HIDE DEF o, c
<1>9. CASE rs = TRUE
  <2>1. PostHandler(t, o, ec, TRUE)
    BY <1>3, <1>9
  <2> QED
    BY <1>1, <1>4, <1>5, <1>6, <1>7, <1>8, <2>1, PostHandlerKeeps
<1>10. CASE rs = FALSE
  <2>1. PostHandler(t, o, ec, FALSE)
    BY <1>3, <1>10
  <2> QED
    BY <1>1, <1>4, <1>5, <1>6, <1>7, <1>8, <2>1, PostHandlerKeeps
<1> QED
  BY <1>9, <1>10

(* Finish and Exit move the thread only; the guard that Finish releases is *)
(* that of a completed operation.                                          *)
LEMMA FinishExitKeeps ==
    ASSUME IInv, NEW t \in Threads, Finish(t) \/ Exit(t)
    PROVE  IInv'
<1> USE DEF IInv
<1>1. /\ UNCHANGED <<impl, mysql, upc, op, workq, mainq, threads, svc>>
      /\ pc[t] \in {"destroy", "idle"} /\ t \in threads
  BY DEF Finish, Exit, userVars, WorkerInv
<1>2. \/ /\ guards' = guards \ {cur[t]} /\ pc[t] = "destroy"
         /\ cur' = [cur EXCEPT ![t] = None]
         /\ pc' = [pc EXCEPT ![t] = "idle"]
      \/ /\ guards' = guards /\ cur' = cur
         /\ pc' = [pc EXCEPT ![t] = "exited"]
  BY DEF Finish, Exit
<1>3. TypeOK'
  BY <1>1, <1>2 DEF TypeOK
<1>4. WorkerInv'
  <2>1. \A u \in Threads : u # t => pc'[u] \in {"none", "exited"}
    BY <1>1, <1>2 DEF WorkerInv, TypeOK
  <2>2. pc'[t] \in {"idle", "exited"}
    BY <1>2 DEF TypeOK
  <2> QED
    BY <1>1, <2>1, <2>2 DEF WorkerInv, Executing
<1>5. QueueInv'
  BY <1>1 DEF QueueInv, Queue
<1>6. GuardInv'
  <2>1. pc[t] = "destroy" => op[cur[t]].st \notin {"queued", "running"}
    BY DEF WorkerInv
  <2> QED
    BY <1>1, <1>2, <2>1 DEF GuardInv
<1>7. TokenInv'
  BY <1>1 DEF TokenInv
<1> QED
  BY <1>3, <1>4, <1>5, <1>6, <1>7

(* Running a completed handler keeps the invariant.                        *)
LEMMA RunHandlerKeeps ==
    ASSUME IInv, RunHandler
    PROVE  IInv'
<1> USE DEF IInv
<1> DEFINE o == Head(mainq)
           q == Gone("done")
<1>1. /\ o \in Ops /\ o = mainq[1] /\ Len(mainq) >= 1 /\ Len(mainq) \in Nat
      /\ mainq' = Tail(mainq) /\ mainq' \in Seq(Ops)
      /\ Len(mainq') = Len(mainq) - 1
      /\ \A i \in 1..Len(mainq') : mainq'[i] = mainq[i + 1]
  BY TailFacts DEF RunHandler, TypeOK
<1>2. /\ op' = [op EXCEPT ![o] = q]
      /\ UNCHANGED <<impl, mysql, upc, workq, guards, threads, cur, pc, svc>>
  BY DEF RunHandler, userVars, workerVars
<1>3. q \in Operation /\ q.st = "done"
  BY NewRecords
<1> HIDE DEF o, q
<1>4. /\ op[o].st = "posted"
      /\ \A p \in Ops : op'[p] = IF p = o THEN q ELSE op[p]
  BY <1>1, <1>2 DEF QueueInv, Queue, TypeOK
<1>5. \A i \in 1..Len(mainq') : i + 1 \in 1..Len(mainq) /\ i + 1 # 1
  BY <1>1
<1>6. \A i \in 1..Len(mainq) :
          i # 1 => mainq[i] # o /\ op[mainq[i]].st = "posted"
  BY <1>1 DEF QueueInv, Queue
<1>7. TypeOK'
  BY <1>1, <1>2, <1>3, <1>4 DEF TypeOK, InFlight
<1>8. WorkerInv'
  BY <1>2, <1>3, <1>4 DEF WorkerInv, Executing
<1>9. QueueInv'
  <2>1. Queue(workq, "queued")'
    BY <1>2, <1>4, QueueElements DEF QueueInv, Queue
  <2>2. \A i \in 1..Len(mainq') : op'[mainq'[i]].st = "posted"
    <3>1. ASSUME NEW i \in 1..Len(mainq')
          PROVE  /\ mainq'[i] \in Ops /\ mainq'[i] # o
                 /\ op[mainq'[i]].st = "posted"
      <4>1. mainq'[i] = mainq[i + 1] /\ i + 1 \in 1..Len(mainq) /\ i + 1 # 1
        BY <1>1, <1>5
      <4> QED
        BY <1>6, <4>1, QueueElements
    <3> QED
      BY <1>4, <3>1
  <2>4. \A i, j \in 1..Len(mainq) : mainq[i] = mainq[j] => i = j
    BY DEF QueueInv, Queue
  <2>3. ASSUME NEW i \in 1..Len(mainq'), NEW j \in 1..Len(mainq'),
               mainq'[i] = mainq'[j]
        PROVE  i = j
    <3>1. i + 1 = j + 1
      BY <1>1, <1>5, <2>3, <2>4
    <3> QED
      BY <3>1
  <2> QED
    BY <2>1, <2>2, <2>3 DEF QueueInv, Queue
<1>10. GuardInv'
  <2>1. ASSUME NEW p \in Ops, p # o, op[p].st = "posted"
        PROVE  \E i \in 1..Len(mainq') : mainq'[i] = p
    <3>1. PICK k \in 1..Len(mainq) : mainq[k] = p
      BY <2>1 DEF GuardInv
    <3>2. k # 1 /\ k - 1 \in 1..Len(mainq') /\ (k - 1) + 1 = k
      BY <1>1, <2>1, <3>1
    <3>3. mainq'[k - 1] = mainq[k]
      BY <1>1, <3>2
    <3> QED
      BY <3>1, <3>2, <3>3
  <2> QED
    BY <1>2, <1>3, <1>4, <2>1 DEF GuardInv
<1>11. TokenInv'
  BY <1>2, <1>3, <1>4 DEF TokenInv
<1> QED
  BY <1>7, <1>8, <1>9, <1>10, <1>11

(* shutdown_service() keeps the invariant.                                 *)
LEMMA ShutdownKeeps ==
    ASSUME IInv, Shutdown
    PROVE  IInv'
<1> USE DEF IInv
<1>1. CASE ShutdownStop
  <2>1. TypeOK'
    BY <1>1 DEF ShutdownStop, TypeOK, userVars, workerVars
  <2> QED
    BY <1>1, <2>1, UserKeeps DEF ShutdownStop, userVars, workerVars
<1>2. CASE ShutdownJoin
  <2>1. /\ \A t \in threads : pc[t] = "exited"
        /\ svc' = "down"
        /\ workq' = <<>> /\ mainq' = <<>> /\ threads' = {}
        /\ guards' = {o \in guards : op[o].st # "queued"}
        /\ op' = [o \in Ops |-> IF op[o].st \in {"queued", "posted"}
                                THEN Gone("dropped") ELSE op[o]]
        /\ UNCHANGED <<impl, mysql, upc, cur, pc>>
    BY <1>2 DEF ShutdownJoin, userVars
  <2>2. Gone("dropped") \in Operation /\ Gone("dropped").st = "dropped"
    BY NewRecords
  <2>3. \A t \in Threads : pc[t] \in {"none", "exited"}
    BY <2>1 DEF WorkerInv
  <2>4. TypeOK'
    BY <2>1, <2>2 DEF TypeOK, InFlight
  <2>5. WorkerInv'
    BY <2>1, <2>3 DEF WorkerInv, Executing
  <2>6. QueueInv'
    BY <2>1 DEF QueueInv, Queue
  <2>7. GuardInv'
    BY <2>1, <2>2 DEF GuardInv
  <2>8. TokenInv'
    BY <2>1, <2>2 DEF TokenInv
  <2> QED
    BY <2>4, <2>5, <2>6, <2>7, <2>8
<1> QED
  BY <1>1, <1>2 DEF Shutdown

(* Every step keeps the inductive invariant.                               *)
LEMMA NextIInv == IInv /\ [Next]_vars => IInv'
<1> SUFFICES ASSUME IInv, [Next]_vars PROVE IInv'
  OBVIOUS
<1>1. ASSUME NEW c \in Connectors, UserStep(c) \/ CloseStep(c)
      PROVE  IInv'
  BY <1>1, UserStepKeeps, CancelStepKeeps, AsyncKeeps DEF UserStep, CloseStep
<1>2. ASSUME NEW t \in Threads, WorkerStep(t)
      PROVE  IInv'
  BY <1>2, TakeKeeps, EnterKeeps, LibraryKeeps, ResetKeeps, PostKeeps,
     FinishExitKeeps
  DEF WorkerStep
<1>3. CASE UNCHANGED vars
  <2>1. TypeOK'
    BY <1>3 DEF IInv, TypeOK, vars
  <2> QED
    BY <1>3, <2>1, UserKeeps DEF vars
<1> QED
  BY <1>1, <1>2, <1>3, RunHandlerKeeps, ShutdownKeeps DEF Next

(* Every reachable state satisfies the inductive invariant.                *)
THEOREM Invariant == Spec => []IInv
BY InitIInv, NextIInv, PTL DEF Spec

(* The state keeps its types, whatever the user does.                      *)
THEOREM TypeCorrect == Spec => []TypeOK
BY Invariant, PTL DEF IInv

(* At most one thread executes operations: start_work_thread() spawns a    *)
(* second one only when the first is joined.                               *)
THEOREM WorkIsSerial == Spec => []SerialWorker
<1>1. IInv => SerialWorker
  BY DEF IInv, WorkerInv, SerialWorker, Executing, TypeOK
<1> QED
  BY <1>1, Invariant, PTL

(* operation_aborted is reported for exactly the operations that were      *)
(* queued when their connection was cancelled, closed or destroyed.        *)
THEOREM AbortIsExact == Spec => []AbortIffCancelled
<1>1. IInv => AbortIffCancelled
  BY DEF IInv, TokenInv, AbortIffCancelled
<1> QED
  BY <1>1, Invariant, PTL

(* The user's io_service keeps running while a handler is owed.            *)
THEOREM RunIsKept == Spec => []RunOutlastsOperations
<1>1. IInv => RunOutlastsOperations
  <2> SUFFICES ASSUME IInv, guards = {}, mainq = <<>>, NEW o \in Ops
               PROVE  op[o].st \notin InFlight
    BY DEF RunOutlastsOperations
  <2>1. op[o].st \notin {"queued", "running"}
    BY DEF IInv, GuardInv
  <2>2. op[o].st # "posted"
    BY DEF IInv, GuardInv
  <2> QED
    BY <2>1, <2>2 DEF InFlight
<1> QED
  BY <1>1, Invariant, PTL

-----------------------------------------------------------------------------
(***************************************************************************)
(* Sequential use.  With at most one operation in flight per connector,    *)
(* and the connector left alone meanwhile, the work thread owns the        *)
(* implementation record whenever it touches it.                           *)
(***************************************************************************)
OneInFlight ==
    \A o, p \in Ops : /\ op[o].st \in InFlight /\ op[p].st \in InFlight
                      /\ op[o].conn = op[p].conn
                      => o = p

LeftAlone ==
    \A o \in Ops : op[o].st \in InFlight =>
        impl[op[o].conn].alive = "yes" /\ upc[op[o].conn] = "idle"

OpenWhileUsed ==
    \A o \in Ops : op[o].st \in {"queued", "running"} =>
        impl[op[o].conn].initialized

OpenIsInit ==
    \A c \in Connectors : impl[c].initialized => mysql[c].st # "raw"

ClosedIsClean ==
    \A c \in Connectors : ~impl[c].initialized /\ upc[c] # "close_state" =>
        impl[c].last_result = None /\ ~impl[c].first_result_stored

(* Between the reset and the post, last_result is the thread's.            *)
OwnResult ==
    \A t \in Threads :
        /\ pc[t] = "post"
        /\ op[cur[t]].kind = "store_result" /\ op[cur[t]].ec = "ok"
        => impl[conn(t)].last_result \in {None, cur[t]}

SeqInv == OneInFlight /\ LeftAlone /\ OpenWhileUsed /\ OpenIsInit
          /\ ClosedIsClean /\ OwnResult /\ DeliveredResultAlive

(* What a step leaves of every operation as far as SeqInv looks at it.     *)
SameOps ==
    \A o \in Ops : /\ op'[o].st = op[o].st
                   /\ op'[o].conn = op[o].conn
                   /\ op'[o].kind = op[o].kind
                   /\ op'[o].ec = op[o].ec
                   /\ op'[o].rs = op[o].rs

(* A step on a connector none of whose operations is in flight.            *)
LEMMA IdleConnector ==
    ASSUME IInv, SeqInv, NEW c \in Connectors, ~Busy(c), SameOps,
           cur' = cur, pc' = pc,
           \A d \in Connectors : d # c =>
               impl'[d] = impl[d] /\ mysql'[d] = mysql[d] /\ upc'[d] = upc[d],
           impl'[c].initialized => mysql'[c].st # "raw",
           ~impl'[c].initialized /\ upc'[c] # "close_state" =>
               impl'[c].last_result = None /\ ~impl'[c].first_result_stored
    PROVE  SeqInv'
<1> USE DEF SeqInv
<1>1. \A o \in Ops : op[o].st \in InFlight =>
          op[o].conn \in Connectors /\ op[o].conn # c
  BY DEF IInv, TypeOK, Busy
<1>2. OneInFlight' /\ LeftAlone'
  BY <1>1 DEF OneInFlight, LeftAlone, SameOps
<1>3. OpenWhileUsed'
  BY <1>1 DEF OpenWhileUsed, SameOps, InFlight
<1>4. OpenIsInit' /\ ClosedIsClean'
  BY DEF OpenIsInit, ClosedIsClean
<1>5. DeliveredResultAlive'
  BY <1>1 DEF DeliveredResultAlive, SameOps, InFlight
<1>6. OwnResult'
  <2>1. \A t \in Threads : pc[t] = "post" =>
            /\ cur[t] \in Ops /\ op[cur[t]].conn \in Connectors
            /\ op[cur[t]].conn # c
    BY <1>1 DEF IInv, WorkerInv, Executing, InFlight
  <2> QED
    BY <2>1 DEF OwnResult, SameOps, conn
<1> QED
  BY <1>2, <1>3, <1>4, <1>5, <1>6

(* The user's steps that start no operation.                               *)
LEMMA UserStepSeq ==
    ASSUME Sequential, IInv, SeqInv, NEW c \in Connectors,
           \/ open(c) \/ close(c) \/ destroy(c)
           \/ CloseState(c) \/ CloseCancel(c) \/ Free(c)
    PROVE  SeqInv'
<1>0. /\ impl[c] \in Implementation /\ impl \in [Connectors -> Implementation]
      /\ mysql \in [Connectors -> Handle] /\ c \in DOMAIN upc
      /\ upc \in [Connectors -> {"idle", "close_state", "close_cancel", "free"}]
  BY DEF IInv, TypeOK
<1>1. ~Busy(c)
  <2>1. CASE MayCall(c)
    BY <2>1 DEF MayCall
  <2>2. CASE upc[c] # "idle"
    BY <2>2 DEF SeqInv, LeftAlone, Busy
  <2> QED
    BY <2>1, <2>2 DEF open, close, destroy, CloseState, CloseCancel, Free
<1>2. cur' = cur /\ pc' = pc
  BY DEF open, close, destroy, CloseState, CloseCancel, Free, workerVars
<1>3. SameOps
  <2>1. op' = op \/ op' = Cancelled(c)
    BY DEF open, close, destroy, CloseState, CloseCancel, Free
  <2> QED
    BY <2>1, CancelledType DEF SameOps, IInv, TypeOK
<1>4. \A d \in Connectors : d # c =>
          impl'[d] = impl[d] /\ mysql'[d] = mysql[d] /\ upc'[d] = upc[d]
  BY <1>0 DEF open, close, destroy, CloseState, CloseCancel, Free, CloseHandle
<1>5. CASE open(c)
  <2>1. PICK r \in mysql_init(mysql[c]) :
          /\ mysql' = [mysql EXCEPT ![c] = r.h]
          /\ impl' = [impl EXCEPT ![c].initialized = (r.ec = "ok")]
    BY <1>5 DEF open
  <2>2. r.ec = "ok" => r.h.st # "raw"
    BY FreshType DEF mysql_init
  <2>3. /\ impl'[c].initialized = (r.ec = "ok")
        /\ impl'[c].last_result = impl[c].last_result
        /\ impl'[c].first_result_stored = impl[c].first_result_stored
    BY <1>0, <2>1, SetInitialized
  <2>4. /\ ~impl[c].initialized /\ upc[c] = "idle" /\ upc' = upc
        /\ mysql'[c] = r.h
    BY <1>0, <1>5, <2>1 DEF open, MayCall
  <2>5. impl[c].last_result = None /\ ~impl[c].first_result_stored
    BY <2>4 DEF SeqInv, ClosedIsClean
  <2> QED
    BY <1>1, <1>2, <1>3, <1>4, <2>2, <2>3, <2>4, <2>5, IdleConnector
<1>6. ASSUME NEW fate, CloseHandle(c, fate) PROVE SeqInv'
  <2>1. upc'[c] = "close_state" /\ impl'[c].initialized = FALSE
    BY <1>0, <1>6 DEF CloseHandle, Implementation
  <2> QED
    BY <1>1, <1>2, <1>3, <1>4, <2>1, IdleConnector
<1>7. CASE close(c)
  BY <1>6, <1>7 DEF close
<1>8. CASE destroy(c)
  <2>1. CASE impl[c].initialized
    BY <1>6, <1>8, <2>1 DEF destroy
  <2>2. CASE ~impl[c].initialized
    <3>1. /\ impl'[c].initialized = impl[c].initialized
          /\ impl'[c].last_result = impl[c].last_result
          /\ impl'[c].first_result_stored = impl[c].first_result_stored
      <4> DEFINE j == [impl[c] EXCEPT !.alive = "dying"]
      <4>1. /\ j.initialized = impl[c].initialized
            /\ j.last_result = impl[c].last_result
            /\ j.first_result_stored = impl[c].first_result_stored
        BY <1>0, SetAlive
      <4>2. impl'[c] = j
        BY <1>0, <1>8, <2>2 DEF destroy
      <4> HIDE DEF j
      <4> QED
        BY <4>1, <4>2
    <3>2. impl[c].last_result = None /\ ~impl[c].first_result_stored
      BY <1>8, <2>2 DEF SeqInv, ClosedIsClean, destroy, MayCall
    <3> QED
      BY <1>1, <1>2, <1>3, <1>4, <2>2, <3>1, <3>2, IdleConnector
  <2> QED
    BY <2>1, <2>2
<1>9. CASE CloseState(c)
  <2>1. /\ impl'[c].last_result = None /\ impl'[c].first_result_stored = FALSE
        /\ impl'[c].initialized = impl[c].initialized
        /\ mysql' = mysql
    BY <1>0, <1>9 DEF CloseState, Implementation
  <2> QED
    BY <1>1, <1>2, <1>3, <1>4, <2>1, IdleConnector DEF SeqInv, OpenIsInit
<1>10. CASE CloseCancel(c)
  <2>1. /\ impl'[c].last_result = impl[c].last_result
        /\ impl'[c].first_result_stored = impl[c].first_result_stored
        /\ impl'[c].initialized = impl[c].initialized
        /\ mysql' = mysql /\ upc[c] = "close_cancel"
    BY <1>0, <1>10, FreshTokenType DEF CloseCancel
  <2> QED
    BY <1>1, <1>2, <1>3, <1>4, <2>1, IdleConnector
    DEF SeqInv, OpenIsInit, ClosedIsClean
<1>11. CASE Free(c)
  <2> DEFINE i == FreshToken(impl[c])
             j == [i EXCEPT !.first_result_stored = FALSE]
             k == [j EXCEPT !.last_result = None]
             l == [k EXCEPT !.alive = "no"]
  <2>1. impl'[c] = l /\ mysql' = mysql
    BY <1>0, <1>11 DEF Free
  <2>2. i \in Implementation /\ i.initialized = impl[c].initialized
    BY <1>0, FreshTokenType
  <2> HIDE DEF i
  <2>3. /\ j \in Implementation /\ j.initialized = i.initialized
        /\ j.first_result_stored = FALSE
    BY <2>2, SetFirst
  <2> HIDE DEF j
  <2>4. /\ k \in Implementation /\ k.initialized = i.initialized
        /\ k.first_result_stored = FALSE /\ k.last_result = None
    BY <2>3, SetLast
  <2> HIDE DEF k
  <2>5. /\ l.initialized = i.initialized
        /\ l.first_result_stored = FALSE /\ l.last_result = None
    BY <2>4, SetAlive
  <2> HIDE DEF l
  <2> QED
    BY <1>1, <1>2, <1>3, <1>4, <2>1, <2>2, <2>5, IdleConnector
    DEF SeqInv, OpenIsInit
<1> QED
  BY <1>5, <1>7, <1>8, <1>9, <1>10, <1>11

(* cancel() is allowed at any time: it touches no field SeqInv speaks of.  *)
LEMMA CancelSeq ==
    ASSUME IInv, SeqInv, NEW c \in Connectors, cancel(c)
    PROVE  SeqInv'
<1> USE DEF SeqInv
<1>1. SameOps
  BY CancelledType DEF cancel, SameOps, IInv, TypeOK
<1>2. /\ mysql' = mysql /\ upc' = upc /\ cur' = cur /\ pc' = pc
      /\ \A d \in Connectors :
            /\ impl'[d].alive = impl[d].alive
            /\ impl'[d].initialized = impl[d].initialized
            /\ impl'[d].last_result = impl[d].last_result
            /\ impl'[d].first_result_stored = impl[d].first_result_stored
  <2>1. impl \in [Connectors -> Implementation]
    BY DEF IInv, TypeOK
  <2> QED
    BY <2>1, FreshTokenType DEF cancel, workerVars
<1>3. \A o \in Ops : op[o].st \in InFlight => op[o].conn \in Connectors
  BY DEF IInv, TypeOK
<1>4. OneInFlight' /\ LeftAlone'
  BY <1>1, <1>2, <1>3 DEF OneInFlight, LeftAlone, SameOps
<1>5. OpenWhileUsed' /\ OpenIsInit' /\ ClosedIsClean'
  BY <1>1, <1>2, <1>3
  DEF OpenWhileUsed, OpenIsInit, ClosedIsClean, SameOps, InFlight
<1>6. OwnResult'
  <2>1. \A t \in Threads : pc[t] = "post" =>
            cur[t] \in Ops /\ op[cur[t]].conn \in Connectors
    BY <1>3 DEF IInv, WorkerInv, Executing, InFlight
  <2> QED
    BY <1>1, <1>2, <2>1 DEF OwnResult, SameOps, conn
<1>7. DeliveredResultAlive'
  BY <1>1, <1>2, <1>3 DEF DeliveredResultAlive, SameOps, InFlight
<1> QED
  BY <1>4, <1>5, <1>6, <1>7

(* Starting an operation on a connector that has none in flight.           *)
LEMMA StartSeq ==
    ASSUME IInv, SeqInv, NEW o \in Ops, NEW c \in Connectors, ~Busy(c),
           impl[c].alive = "yes", upc[c] = "idle", upc' = upc,
           op[o].st = "fresh", NEW q, op' = [op EXCEPT ![o] = q],
           q.st \in InFlight => q.conn = c /\ q.rs = FALSE,
           q.st \notin {"running", "fresh"},
           q.st = "queued" => impl'[c].initialized,
           cur' = cur,
           \A t \in Threads : pc'[t] = "post" => pc[t] = "post",
           \A d \in Connectors : d # c =>
               impl'[d] = impl[d] /\ mysql'[d] = mysql[d],
           impl'[c].alive = "yes",
           impl'[c].initialized => mysql'[c].st # "raw",
           ~impl'[c].initialized =>
               impl'[c].last_result = None /\ ~impl'[c].first_result_stored
    PROVE  SeqInv'
<1> USE DEF SeqInv
<1>1. \A p \in Ops : op'[p] = IF p = o THEN q ELSE op[p]
  BY DEF IInv, TypeOK
<1>2. \A p \in Ops : op[p].st \in InFlight =>
          op[p].conn \in Connectors /\ op[p].conn # c /\ p # o
  BY DEF IInv, TypeOK, Busy, InFlight
<1>3. OneInFlight' /\ LeftAlone'
  BY <1>1, <1>2 DEF OneInFlight, LeftAlone
<1>4. OpenWhileUsed'
  BY <1>1, <1>2 DEF OpenWhileUsed, InFlight
<1>5. OpenIsInit' /\ ClosedIsClean'
  BY DEF OpenIsInit, ClosedIsClean
<1>6. OwnResult'
  <2>1. \A t \in Threads : pc[t] = "post" =>
            /\ cur[t] \in Ops /\ cur[t] # o
            /\ op[cur[t]].conn \in Connectors /\ op[cur[t]].conn # c
    BY <1>2 DEF IInv, WorkerInv, Executing, InFlight
  <2> QED
    BY <1>1, <2>1 DEF OwnResult, conn
<1>7. DeliveredResultAlive'
  BY <1>1, <1>2 DEF DeliveredResultAlive, InFlight
<1> QED
  BY <1>3, <1>4, <1>5, <1>6, <1>7

(* An async_ call that fails at once keeps SeqInv.                         *)
LEMMA PostErrorSeq ==
    ASSUME NEW o \in Ops, NEW c \in Connectors, NEW kind, NEW ec,
           PostError(o, c, kind, ec)
    PROVE  \E q : /\ op' = [op EXCEPT ![o] = q]
                  /\ q.st \in InFlight => q.conn = c /\ q.rs = FALSE
                  /\ q.st \in {"posted", "dropped"}
                  /\ cur' = cur /\ pc' = pc
<1> DEFINE q == IF svc = "up" THEN HandlerObject(c, kind, FALSE, "posted", ec)
                              ELSE Gone("dropped")
<1>1. q.st \in InFlight => q.conn = c /\ q.rs = FALSE
  BY NewRecords DEF HandlerObject, InFlight
<1>2. q.st \in {"posted", "dropped"}
  BY NewRecords DEF HandlerObject
<1>3. op' = [op EXCEPT ![o] = q] /\ cur' = cur /\ pc' = pc
  BY DEF PostError, workerVars
<1> HIDE DEF q
<1> QED
  BY <1>1, <1>2, <1>3

(* An async_ call that reaches the work queue keeps SeqInv.                *)
LEMMA PostWorkSeq ==
    ASSUME IInv, NEW o \in Ops, NEW c \in Connectors, NEW kind, NEW flags,
           PostWork(o, c, kind, flags)
    PROVE  \E q : /\ op' = [op EXCEPT ![o] = q]
                  /\ q.st \in InFlight => q.conn = c /\ q.rs = FALSE
                  /\ q.st \in {"queued", "dropped"}
                  /\ cur' = cur
                  /\ \A t \in Threads : pc'[t] = "post" => pc[t] = "post"
<1> DEFINE q == IF svc = "up" THEN HandlerObject(c, kind, flags, "queued", "ok")
                              ELSE Gone("dropped")
<1>1. q.st \in InFlight => q.conn = c /\ q.rs = FALSE
  BY NewRecords DEF HandlerObject, InFlight
<1>2. q.st \in {"queued", "dropped"}
  BY NewRecords DEF HandlerObject
<1>3. op' = [op EXCEPT ![o] = q]
  BY DEF PostWork
<1>4. /\ cur' = cur
      /\ pc' = pc \/ \E t \in Threads : pc' = [pc EXCEPT ![t] = "idle"]
  BY DEF PostWork, start_work_thread, workerVars
<1>5. \A t \in Threads : pc'[t] = "post" => pc[t] = "post"
  BY <1>4 DEF IInv, TypeOK
<1> HIDE DEF q
<1> QED
  BY <1>1, <1>2, <1>3, <1>4, <1>5

(* The three async_ calls keep SeqInv: their connector was idle.           *)
LEMMA AsyncSeq ==
    ASSUME Sequential, IInv, SeqInv, NEW o \in Ops, NEW c \in Connectors,
           \/ \E flags \in BOOLEAN : async_connect(o, c, flags)
           \/ async_query(o, c)
           \/ async_store_result(o, c)
    PROVE  SeqInv'
<1>0. /\ MayCall(c) /\ op[o].st = "fresh" /\ upc' = upc
      /\ ~Busy(c) /\ impl[c].alive = "yes" /\ upc[c] = "idle"
  BY DEF async_connect, async_query, async_store_result, AsyncOnOpen, MayCall,
         userVars
<1>1. /\ impl[c] \in Implementation /\ impl \in [Connectors -> Implementation]
      /\ mysql \in [Connectors -> Handle]
  BY DEF IInv, TypeOK
<1>2. ~impl[c].initialized =>
          impl[c].last_result = None /\ ~impl[c].first_result_stored
  BY <1>0 DEF SeqInv, ClosedIsClean
<1>3. impl[c].initialized => mysql[c].st # "raw"
  BY DEF SeqInv, OpenIsInit
<1>4. ASSUME impl' = impl, mysql' = mysql, NEW kind, NEW flags,
             impl[c].initialized, PostWork(o, c, kind, flags)
      PROVE  SeqInv'
  <2>1. PICK q : /\ op' = [op EXCEPT ![o] = q]
                 /\ q.st \in InFlight => q.conn = c /\ q.rs = FALSE
                 /\ q.st \in {"queued", "dropped"}
                 /\ cur' = cur
                 /\ \A t \in Threads : pc'[t] = "post" => pc[t] = "post"
    BY <1>4, PostWorkSeq
  <2> QED
    BY <1>0, <1>3, <1>4, <2>1, StartSeq
<1>5. ASSUME impl' = impl, mysql' = mysql, NEW kind, NEW ec,
             PostError(o, c, kind, ec)
      PROVE  SeqInv'
  <2>1. PICK q : /\ op' = [op EXCEPT ![o] = q]
                 /\ q.st \in InFlight => q.conn = c /\ q.rs = FALSE
                 /\ q.st \in {"posted", "dropped"}
                 /\ cur' = cur /\ pc' = pc
    BY <1>5, PostErrorSeq
  <2> QED
    BY <1>0, <1>2, <1>3, <1>5, <2>1, StartSeq
<1>6. ASSUME NEW flags \in BOOLEAN, async_connect(o, c, flags),
             ~impl[c].initialized
      PROVE  SeqInv'
  <2>1. PICK r \in mysql_init(mysql[c]) :
          /\ mysql' = [mysql EXCEPT ![c] = r.h]
          /\ impl' = [impl EXCEPT ![c].initialized = (r.ec = "ok")]
          /\ IF r.ec # "ok" THEN PostError(o, c, "connect", r.ec)
                            ELSE PostWork(o, c, "connect", flags)
    BY <1>6 DEF async_connect
  <2>2. r.ec = "ok" => r.h.st # "raw"
    BY FreshType DEF mysql_init
  <2>3. /\ impl'[c].initialized = (r.ec = "ok")
        /\ impl'[c].alive = impl[c].alive
        /\ impl'[c].last_result = impl[c].last_result
        /\ impl'[c].first_result_stored = impl[c].first_result_stored
        /\ mysql'[c] = r.h
        /\ \A d \in Connectors : d # c =>
               impl'[d] = impl[d] /\ mysql'[d] = mysql[d]
    BY <1>1, <2>1, SetInitialized
  <2>4. CASE r.ec = "ok"
    <3>1. PICK q : /\ op' = [op EXCEPT ![o] = q]
                   /\ q.st \in InFlight => q.conn = c /\ q.rs = FALSE
                   /\ q.st \in {"queued", "dropped"}
                   /\ cur' = cur
                   /\ \A t \in Threads : pc'[t] = "post" => pc[t] = "post"
      BY <2>1, <2>4, PostWorkSeq
    <3>2. impl'[c].initialized /\ mysql'[c].st # "raw"
      BY <2>2, <2>3, <2>4
    <3> QED
      <4>1. /\ impl'[c].alive = "yes"
            /\ \A d \in Connectors : d # c =>
                   impl'[d] = impl[d] /\ mysql'[d] = mysql[d]
        BY <1>0, <2>3
      <4> QED
        BY <1>0, <3>1, <3>2, <4>1, StartSeq
  <2>5. CASE r.ec # "ok"
    <3>1. PICK q : /\ op' = [op EXCEPT ![o] = q]
                   /\ q.st \in InFlight => q.conn = c /\ q.rs = FALSE
                   /\ q.st \in {"posted", "dropped"}
                   /\ cur' = cur /\ pc' = pc
      BY <2>1, <2>5, PostErrorSeq
    <3> QED
      BY <1>0, <1>2, <1>6, <2>3, <2>5, <3>1, StartSeq
  <2> QED
    BY <2>4, <2>5
<1>7. ASSUME NEW flags \in BOOLEAN, async_connect(o, c, flags),
             impl[c].initialized
      PROVE  SeqInv'
  BY <1>4, <1>7 DEF async_connect
<1>8. ASSUME NEW kind, AsyncOnOpen(o, c, kind)
      PROVE  SeqInv'
  BY <1>4, <1>5, <1>8 DEF AsyncOnOpen, userVars
<1> QED
  BY <1>6, <1>7, <1>8 DEF async_query, async_store_result

(* A step of the work thread t on its operation o = cur'[t].  SeqInv lets  *)
(* the thread change what it likes of o's connection but close it.         *)
LEMMA WorkerSeq ==
    ASSUME IInv, SeqInv, NEW t \in Threads, NEW o \in Ops, t \in threads,
           op[o].st \in {"queued", "running"},
           NEW c \in Connectors, op[o].conn = c,
           \A p \in Ops : p # o => op'[p] = op[p],
           op'[o].st \in InFlight, op'[o].conn = c, upc' = upc,
           \A d \in Connectors : d # c => impl'[d] = impl[d] /\ mysql'[d] = mysql[d],
           impl'[c].alive = impl[c].alive,
           impl'[c].initialized = impl[c].initialized,
           mysql[c].st # "raw" => mysql'[c].st # "raw",
           \A u \in Threads : u # t => pc'[u] = pc[u],
           cur'[t] = o,
           /\ pc'[t] = "post"
           /\ op'[o].kind = "store_result" /\ op'[o].ec = "ok"
           => impl'[c].last_result \in {None, o},
           op'[o].st = "posted" /\ op'[o].rs => impl'[c].last_result = o
    PROVE  SeqInv'
<1> USE DEF SeqInv
<1>1. \A p \in Ops : op[p].st \in InFlight /\ p # o =>
          op[p].conn \in Connectors /\ op[p].conn # c
  BY DEF IInv, TypeOK, OneInFlight, InFlight
<1>2. op[o].st \in InFlight /\ impl[c].alive = "yes" /\ upc[c] = "idle"
      /\ impl[c].initialized
  BY DEF LeftAlone, OpenWhileUsed, InFlight
<1>3. OneInFlight' /\ LeftAlone'
  BY <1>1, <1>2 DEF OneInFlight, LeftAlone
<1>4. OpenWhileUsed'
  <2>1. impl'[c].initialized
    BY <1>2
  <2>2. \A p \in Ops : p # o /\ op[p].st \in {"queued", "running"} =>
            impl'[op[p].conn].initialized
    BY <1>1 DEF OpenWhileUsed, InFlight
  <2> QED
    BY <2>1, <2>2 DEF OpenWhileUsed
<1>5. OpenIsInit' /\ ClosedIsClean'
  <2>1. OpenIsInit'
    BY <1>2 DEF OpenIsInit
  <2>2. ASSUME NEW d \in Connectors,
               ~impl'[d].initialized, upc'[d] # "close_state"
        PROVE  impl'[d].last_result = None /\ ~impl'[d].first_result_stored
    <3>1. d # c
      BY <1>2, <2>2
    <3>2. impl'[d] = impl[d] /\ upc'[d] = upc[d]
      BY <3>1
    <3> QED
      BY <2>2, <3>2 DEF ClosedIsClean
  <2> QED
    BY <2>1, <2>2 DEF ClosedIsClean
<1>6. OwnResult'
  <2>1. \A u \in Threads : u # t => pc'[u] # "post"
    BY DEF IInv, WorkerInv
  <2> QED
    BY <2>1 DEF OwnResult, conn
<1>7. DeliveredResultAlive'
  <2>1. \A p \in Ops : p # o /\ op[p].st = "posted" /\ op[p].rs =>
            impl'[op[p].conn].last_result = p
    BY <1>1 DEF DeliveredResultAlive, InFlight
  <2> QED
    BY <2>1 DEF DeliveredResultAlive
<1> QED
  BY <1>3, <1>4, <1>5, <1>6, <1>7

(* Taking a handler object off the work queue keeps SeqInv.                *)
LEMMA TakeSeq ==
    ASSUME IInv, SeqInv, NEW t \in Threads, Take(t)
    PROVE  SeqInv'
<1> DEFINE o == Head(workq)
           c == op[o].conn
<1>1. /\ o \in Ops /\ op[o].st = "queued" /\ c \in Connectors
      /\ op[o] \in Operation /\ t \in threads
  <2>1. o \in Ops /\ o = workq[1] /\ 1 \in 1..Len(workq)
    BY TailFacts DEF Take, IInv, TypeOK
  <2>2. op[o].st = "queued"
    BY <2>1 DEF IInv, QueueInv, Queue
  <2>3. c \in Connectors /\ op[o] \in Operation
    BY <2>1, <2>2 DEF IInv, TypeOK, InFlight
  <2>4. t \in threads
    BY DEF Take, IInv, WorkerInv
  <2> QED
    BY <2>1, <2>2, <2>3, <2>4
<1>2. /\ impl' = impl /\ mysql' = mysql /\ upc' = upc
      /\ cur' = [cur EXCEPT ![t] = o] /\ cur'[t] = o
  BY DEF Take, userVars, IInv, TypeOK
<1>3. CASE op[o].cancelation_token # impl[c].cancelation_token
  <2>1. PostHandler(t, o, "aborted", FALSE)
    BY <1>3 DEF Take
  <2> HIDE DEF o, c
  <2>2. LET q == Completed(op[o], "aborted", FALSE)
        IN q.st = "posted" /\ q.conn = op[o].conn /\ q.rs = FALSE
    BY <1>1, Posted DEF ErrorCodes
  <2>3. /\ op'[o] = Completed(op[o], "aborted", FALSE)
        /\ \A p \in Ops : p # o => op'[p] = op[p]
        /\ pc'[t] = "destroy" /\ \A u \in Threads : u # t => pc'[u] = pc[u]
    BY <1>1, <2>1 DEF PostHandler, IInv, TypeOK
  <2>4. op[o].conn = c
    BY DEF c
  <2>5. op'[o].st = "posted" /\ op'[o].conn = c /\ op'[o].rs = FALSE
    BY <2>2, <2>3, <2>4
  <2> QED
    BY <1>1, <1>2, <2>3, <2>4, <2>5, WorkerSeq DEF InFlight
<1>4. CASE op[o].cancelation_token = impl[c].cancelation_token
  <2> DEFINE q == [op[o] EXCEPT !.st = "running"]
  <2>1. op' = [op EXCEPT ![o] = q] /\ pc' = [pc EXCEPT ![t] = "enter"]
    BY <1>4 DEF Take
  <2> HIDE DEF o
  <2>2. q.st = "running" /\ q.conn = op[o].conn
    BY <1>1, SetSt
  <2> HIDE DEF q
  <2>3. /\ op'[o] = q /\ \A p \in Ops : p # o => op'[p] = op[p]
        /\ pc'[t] = "enter" /\ \A u \in Threads : u # t => pc'[u] = pc[u]
    BY <1>1, <2>1 DEF IInv, TypeOK
  <2> QED
    BY <1>1, <1>2, <2>2, <2>3, WorkerSeq DEF InFlight
<1> QED
  BY <1>3, <1>4

(* The operation a thread executes, and its connection.                    *)
LEMMA ExecutingFacts ==
    ASSUME IInv, NEW t \in Threads, Executing(t)
    PROVE  /\ t \in threads
           /\ cur[t] \in Ops /\ op[cur[t]] \in Operation
           /\ op[cur[t]].st = "running"
           /\ conn(t) \in Connectors /\ op[cur[t]].conn = conn(t)
           /\ impl[conn(t)] \in Implementation
           /\ mysql[conn(t)] \in Handle
           /\ impl \in [Connectors -> Implementation]
           /\ mysql \in [Connectors -> Handle]
           /\ op \in [Ops -> Operation]
           /\ pc \in [Threads -> {"none", "idle", "enter", "next", "lib", "reset",
                                  "post", "destroy", "exited"}]
BY DEF IInv, WorkerInv, TypeOK, Executing, conn, InFlight

(* Setting the error code of the executed operation.                       *)
LEMMA OnlyEcSeq ==
    ASSUME IInv, NEW t \in Threads, Executing(t), NEW ec \in ErrorCodes,
           op' = [op EXCEPT ![cur[t]].ec = ec]
    PROVE  /\ \A p \in Ops : p # cur[t] => op'[p] = op[p]
           /\ op'[cur[t]].st = "running" /\ op'[cur[t]].conn = conn(t)
           /\ op'[cur[t]].kind = op[cur[t]].kind /\ op'[cur[t]].ec = ec
<1> DEFINE q == [op[cur[t]] EXCEPT !.ec = ec]
<1>1. /\ q.st = op[cur[t]].st /\ q.conn = op[cur[t]].conn
      /\ q.kind = op[cur[t]].kind /\ q.ec = ec
  BY ExecutingFacts, SetEc
<1>2. op' = [op EXCEPT ![cur[t]] = q]
  OBVIOUS
<1> HIDE DEF q
<1> QED
  BY <1>1, <1>2, ExecutingFacts

(* Setting the outcome of the executed operation.                          *)
LEMMA OutcomeSeq ==
    ASSUME IInv, NEW t \in Threads, Executing(t), NEW ec \in ErrorCodes,
           NEW rs \in BOOLEAN,
           op' = [op EXCEPT ![cur[t]].ec = ec, ![cur[t]].rs = rs]
    PROVE  /\ \A p \in Ops : p # cur[t] => op'[p] = op[p]
           /\ op'[cur[t]].st = "running" /\ op'[cur[t]].conn = conn(t)
           /\ op'[cur[t]].kind = op[cur[t]].kind /\ op'[cur[t]].ec = ec
           /\ op'[cur[t]].rs = rs
<1> DEFINE q == Returned(op[cur[t]], ec, rs)
<1>1. /\ q.st = op[cur[t]].st /\ q.conn = op[cur[t]].conn
      /\ q.kind = op[cur[t]].kind /\ q.ec = ec /\ q.rs = rs
  BY ExecutingFacts, SetOutcome
<1>2. op' = [op EXCEPT ![cur[t]] = q]
  BY ExecutingFacts DEF Returned
<1> HIDE DEF q
<1> QED
  BY <1>1, <1>2, ExecutingFacts

(* The part of operator() before its first library call keeps SeqInv.      *)
LEMMA EnterSeq ==
    ASSUME IInv, SeqInv, NEW t \in Threads, Enter(t)
    PROVE  SeqInv'
<1> DEFINE o == cur[t]
           c == conn(t)
           freed == [impl[c] EXCEPT !.last_result = None]
<1>0. Executing(t)
  BY DEF Enter, Executing
<1>1. /\ mysql' = mysql /\ upc' = upc /\ cur' = cur
      /\ \A u \in Threads : u # t => pc'[u] = pc[u]
  BY <1>0, ExecutingFacts DEF Enter
<1>2. /\ freed \in Implementation /\ freed.alive = impl[c].alive
      /\ freed.initialized = impl[c].initialized /\ freed.last_result = None
  BY <1>0, ExecutingFacts, SetLast
<1>3. \/ impl' = impl
      \/ impl' = [impl EXCEPT ![c] = [freed EXCEPT !.first_result_stored = FALSE]]
      \/ impl' = [impl EXCEPT ![c] =
                     [impl[c] EXCEPT !.first_result_stored = TRUE]]
      \/ impl' = [impl EXCEPT ![c] = freed]
  BY <1>0, ExecutingFacts DEF Enter
<1>4. \/ op' = op /\ pc'[t] # "post"
      \/ op' = [op EXCEPT ![o].ec = "no_more_results"]
  BY <1>0, ExecutingFacts DEF Enter
<1> HIDE DEF freed
<1>5. PICK j : /\ impl' = [impl EXCEPT ![c] = j]
               /\ j.alive = impl[c].alive
               /\ j.initialized = impl[c].initialized
  <2>1. LET k == [freed EXCEPT !.first_result_stored = FALSE]
        IN  k.alive = impl[c].alive /\ k.initialized = impl[c].initialized
    BY <1>2, SetFirst
  <2>2. LET k == [impl[c] EXCEPT !.first_result_stored = TRUE]
        IN  k.alive = impl[c].alive /\ k.initialized = impl[c].initialized
    BY <1>0, ExecutingFacts, SetFirst
  <2>3. CASE impl' = impl
    <3>1. impl' = [impl EXCEPT ![c] = impl[c]]
      BY <1>0, <2>3, ExecutingFacts
    <3> QED
      BY <3>1
  <2>4. CASE impl' = [impl EXCEPT ![c] =
                         [freed EXCEPT !.first_result_stored = FALSE]]
    BY <2>1, <2>4
  <2>5. CASE impl' = [impl EXCEPT ![c] =
                         [impl[c] EXCEPT !.first_result_stored = TRUE]]
    BY <2>2, <2>5
  <2>6. CASE impl' = [impl EXCEPT ![c] = freed]
    BY <1>2, <2>6
  <2> QED
    BY <1>3, <2>3, <2>4, <2>5, <2>6
<1>6. /\ \A d \in Connectors : d # c => impl'[d] = impl[d]
      /\ impl'[c].alive = impl[c].alive
      /\ impl'[c].initialized = impl[c].initialized
  BY <1>0, <1>5, ExecutingFacts
<1>7. /\ \A p \in Ops : p # o => op'[p] = op[p]
      /\ op'[o].st = "running" /\ op'[o].conn = c
      /\ pc'[t] = "post" => op'[o].ec # "ok"
  <2>1. CASE op' = op /\ pc'[t] # "post"
    BY <1>0, <2>1, ExecutingFacts
  <2>2. CASE op' = [op EXCEPT ![o].ec = "no_more_results"]
    <3>1. "no_more_results" \in ErrorCodes
      BY DEF ErrorCodes
    <3> QED
      BY <1>0, <2>2, <3>1, OnlyEcSeq
  <2> QED
    BY <1>4, <2>1, <2>2
<1>8. /\ t \in threads /\ o \in Ops /\ c \in Connectors
      /\ op[o].st = "running" /\ op[o].conn = c
  BY <1>0, ExecutingFacts
<1> HIDE DEF o, c
<1>9. cur'[t] = o
  BY <1>1 DEF o
<1> QED
  BY <1>1, <1>6, <1>7, <1>8, <1>9, WorkerSeq DEF InFlight

(* The return of a library call keeps SeqInv: an initialised handle stays  *)
(* one, and a stored result is the operation's own.                        *)
LEMMA LibrarySeq ==
    ASSUME IInv, SeqInv, NEW t \in Threads, NextResult(t) \/ LibReturn(t)
    PROVE  SeqInv'
<1> DEFINE o == cur[t]
           c == conn(t)
<1>0. Executing(t)
  BY DEF NextResult, LibReturn, Executing
<1>1. /\ upc' = upc /\ cur' = cur
      /\ \A u \in Threads : u # t => pc'[u] = pc[u]
  BY <1>0, ExecutingFacts DEF NextResult, LibReturn
<1>2. /\ t \in threads /\ o \in Ops /\ c \in Connectors
      /\ op[o].st = "running" /\ op[o].conn = c
      /\ mysql[c] \in Handle /\ mysql \in [Connectors -> Handle]
      /\ impl[c] \in Implementation /\ impl \in [Connectors -> Implementation]
      /\ op[o].flags \in BOOLEAN /\ op[o].kind \in Kinds
  BY <1>0, ExecutingFacts DEF Operation
<1>3. ASSUME NEW r \in CallResult, KeepsInit(mysql[c], r),
             mysql' = [mysql EXCEPT ![c] = r.h],
             \/ op' = [op EXCEPT ![o].ec = r.ec]
             \/ op' = [op EXCEPT ![o].ec = r.ec, ![o].rs = r.res]
      PROVE  /\ \A d \in Connectors : d # c => mysql'[d] = mysql[d]
             /\ mysql[c].st # "raw" => mysql'[c].st # "raw"
             /\ \A p \in Ops : p # o => op'[p] = op[p]
             /\ op'[o].st = "running" /\ op'[o].conn = c
             /\ op'[o].kind = op[o].kind /\ op'[o].ec = r.ec
  <2>1. r.ec \in ErrorCodes /\ r.res \in BOOLEAN
    BY DEF CallResult, ErrorCodes
  <2> QED
    BY <1>0, <1>2, <1>3, <2>1, OnlyEcSeq, OutcomeSeq DEF KeepsInit
<1>4. CASE NextResult(t)
  <2>1. PICK r \in mysql_next_result(mysql[c]) :
          /\ mysql' = [mysql EXCEPT ![c] = r.h]
          /\ op' = [op EXCEPT ![o].ec = r.ec]
          /\ pc' = [pc EXCEPT ![t] = IF r.ec = "ok" THEN "lib" ELSE "post"]
    BY <1>4 DEF NextResult
  <2>2. r \in CallResult /\ KeepsInit(mysql[c], r)
    BY <1>2, CallType
  <2>3. impl' = impl /\ (pc'[t] = "post" => r.ec # "ok")
    BY <1>0, <1>4, <2>1, ExecutingFacts DEF NextResult
  <2> HIDE DEF o, c
  <2>4. cur'[t] = o
    BY <1>1 DEF o
  <2>5. /\ \A d \in Connectors : d # c => mysql'[d] = mysql[d]
        /\ mysql[c].st # "raw" => mysql'[c].st # "raw"
        /\ \A p \in Ops : p # o => op'[p] = op[p]
        /\ op'[o].st = "running" /\ op'[o].conn = c /\ op'[o].ec = r.ec
    BY <1>3, <2>1, <2>2
  <2>6. /\ impl'[c].initialized = impl[c].initialized
        /\ impl'[c].alive = impl[c].alive
        /\ \A d \in Connectors : d # c => impl'[d] = impl[d]
        /\ pc'[t] = "post" => op'[o].ec # "ok"
    BY <2>3, <2>5
  <2> QED
    BY <1>1, <1>2, <2>4, <2>5, <2>6, WorkerSeq DEF InFlight
<1>5. CASE LibReturn(t)
  <2>1. PICK r \in LibCall(t) :
          /\ mysql' = [mysql EXCEPT ![c] = r.h]
          /\ op' = [op EXCEPT ![o].ec = r.ec, ![o].rs = r.res]
    BY <1>5 DEF LibReturn
  <2>2. r \in CallResult /\ KeepsInit(mysql[c], r)
    <3>1. r \in mysql_real_connect(mysql[c], op[o].flags)
                \cup mysql_real_query(mysql[c]) \cup mysql_store_result(mysql[c])
      BY <1>2, <2>1 DEF LibCall, Kinds
    <3> QED
      BY <1>2, <3>1, CallType
  <2>3. impl' = impl /\ (pc'[t] = "post" => op[o].kind # "store_result")
    BY <1>0, <1>5, ExecutingFacts DEF LibReturn
  <2> HIDE DEF o, c
  <2>4. cur'[t] = o
    BY <1>1 DEF o
  <2>5. /\ \A d \in Connectors : d # c => mysql'[d] = mysql[d]
        /\ mysql[c].st # "raw" => mysql'[c].st # "raw"
        /\ \A p \in Ops : p # o => op'[p] = op[p]
        /\ op'[o].st = "running" /\ op'[o].conn = c
        /\ op'[o].kind = op[o].kind
    BY <1>3, <2>1, <2>2
  <2>6. /\ impl'[c].initialized = impl[c].initialized
        /\ impl'[c].alive = impl[c].alive
        /\ \A d \in Connectors : d # c => impl'[d] = impl[d]
        /\ pc'[t] = "post" => op'[o].kind # "store_result"
    BY <2>3, <2>5
  <2> QED
    BY <1>1, <1>2, <2>4, <2>5, <2>6, WorkerSeq DEF InFlight
<1> QED
  BY <1>4, <1>5

(* last_result.reset() keeps SeqInv: it takes the operation's own result.  *)
LEMMA ResetSeq ==
    ASSUME IInv, SeqInv, NEW t \in Threads, Reset(t)
    PROVE  SeqInv'
<1> DEFINE o == cur[t]
           c == conn(t)
           x == IF op[o].rs THEN o ELSE None
           j == [impl[c] EXCEPT !.last_result = x]
<1>0. Executing(t)
  BY DEF Reset, Executing
<1>1. /\ upc' = upc /\ cur' = cur /\ op' = op /\ mysql' = mysql
      /\ \A u \in Threads : u # t => pc'[u] = pc[u]
  BY <1>0, ExecutingFacts DEF Reset
<1>2. /\ t \in threads /\ o \in Ops /\ c \in Connectors
      /\ op[o].st = "running" /\ op[o].conn = c
      /\ impl[c] \in Implementation /\ impl \in [Connectors -> Implementation]
  BY <1>0, ExecutingFacts
<1>3. impl' = [impl EXCEPT ![c] = j]
  BY DEF Reset
<1>4. x \in {None, o} /\ x \in Ops \cup {None}
  BY <1>2
<1> HIDE DEF o, c, x
<1>5. /\ j.alive = impl[c].alive /\ j.initialized = impl[c].initialized
      /\ j.last_result = x
  BY <1>2, <1>4, SetLast
<1> HIDE DEF j
<1>6. /\ \A d \in Connectors : d # c => impl'[d] = impl[d]
      /\ impl'[c].alive = impl[c].alive
      /\ impl'[c].initialized = impl[c].initialized
      /\ impl'[c].last_result \in {None, o}
  BY <1>2, <1>3, <1>4, <1>5
<1>7. cur'[t] = o
  BY <1>1 DEF o
<1> QED
  BY <1>1, <1>2, <1>6, <1>7, WorkerSeq DEF InFlight

(* The handler is posted with the result set that last_result still holds: *)
(* only a store_result that stored a result of its own delivers one.       *)
LEMMA PostSeq ==
    ASSUME IInv, SeqInv, NEW t \in Threads, Post(t)
    PROVE  SeqInv'
<1> DEFINE o == cur[t]
           c == conn(t)
<1>0. Executing(t) /\ pc[t] = "post"
  BY DEF Post, Executing
<1>1. /\ mysql' = mysql /\ upc' = upc /\ cur' = cur
      /\ cur'[t] = o
  BY DEF Post
<1>2. /\ t \in threads /\ o \in Ops /\ c \in Connectors
      /\ op[o].st = "running" /\ op[o].conn = c /\ op[o] \in Operation
      /\ op[o].ec \in ErrorCodes /\ op[o].flags \in BOOLEAN
      /\ impl[c] \in Implementation /\ impl \in [Connectors -> Implementation]
      /\ op \in [Ops -> Operation]
  BY <1>0, ExecutingFacts DEF Operation
<1>3. ASSUME NEW ec \in ErrorCodes, NEW rs \in BOOLEAN,
             PostHandler(t, o, ec, rs)
      PROVE  /\ \A p \in Ops : p # o => op'[p] = op[p]
             /\ op'[o].st = "posted" /\ op'[o].conn = c /\ op'[o].rs = rs
             /\ pc'[t] = "destroy"
             /\ \A u \in Threads : u # t => pc'[u] = pc[u]
  <2> HIDE DEF o, c
  <2>1. /\ op'[o] = Completed(op[o], ec, rs)
        /\ \A p \in Ops : p # o => op'[p] = op[p]
        /\ pc'[t] = "destroy" /\ \A u \in Threads : u # t => pc'[u] = pc[u]
    BY <1>2, <1>3 DEF PostHandler, IInv, TypeOK
  <2>2. /\ Completed(op[o], ec, rs).st = "posted"
        /\ Completed(op[o], ec, rs).conn = op[o].conn
        /\ Completed(op[o], ec, rs).rs = rs
    BY <1>2, Posted
  <2> QED
    BY <1>2, <2>1, <2>2
<1>4. /\ \A d \in Connectors : d # c => impl'[d] = impl[d]
      /\ impl'[c].alive = impl[c].alive
      /\ impl'[c].initialized = impl[c].initialized
      /\ impl'[c].last_result = impl[c].last_result
  <2>1. impl' = impl \/ impl' = [impl EXCEPT ![c].flags = op[o].flags]
    BY DEF Post
  <2> DEFINE j == [impl[c] EXCEPT !.flags = op[o].flags]
  <2>2. /\ j.alive = impl[c].alive /\ j.initialized = impl[c].initialized
        /\ j.last_result = impl[c].last_result
    BY <1>2, SetFlags
  <2>3. impl' = impl \/ impl' = [impl EXCEPT ![c] = j]
    BY <2>1
  <2> HIDE DEF j, c
  <2> QED
    BY <1>2, <2>2, <2>3
<1>5. FALSE \in BOOLEAN /\ TRUE \in BOOLEAN
  OBVIOUS
<1>6. ASSUME NEW ec \in ErrorCodes, PostHandler(t, o, ec, FALSE)
      PROVE  SeqInv'
  <2>1. /\ \A p \in Ops : p # o => op'[p] = op[p]
        /\ op'[o].st = "posted" /\ op'[o].conn = c /\ op'[o].rs = FALSE
        /\ pc'[t] = "destroy"
        /\ \A u \in Threads : u # t => pc'[u] = pc[u]
    BY <1>3, <1>5, <1>6
  <2> HIDE DEF o, c
  <2> QED
    BY <1>1, <1>2, <1>4, <2>1, WorkerSeq DEF InFlight
<1>7. ASSUME NEW ec \in ErrorCodes, PostHandler(t, o, ec, TRUE),
             impl[c].last_result = o
      PROVE  SeqInv'
  <2>1. /\ \A p \in Ops : p # o => op'[p] = op[p]
        /\ op'[o].st = "posted" /\ op'[o].conn = c
        /\ pc'[t] = "destroy"
        /\ \A u \in Threads : u # t => pc'[u] = pc[u]
    BY <1>3, <1>5, <1>7
  <2>2. impl'[c].last_result = o
    BY <1>4, <1>7
  <2> HIDE DEF o, c
  <2> QED
    BY <1>1, <1>2, <1>4, <2>1, <2>2, WorkerSeq DEF InFlight
<1>8. CASE op[o].kind \in {"connect", "query"}
  BY <1>2, <1>6, <1>8 DEF Post
<1>9. CASE op[o].kind = "store_result" /\ op[o].ec # "ok"
  <2>1. PICK a \in {[ec |-> op[o].ec, rs |-> FALSE]} :
            PostHandler(t, o, a.ec, a.rs)
    BY <1>9 DEF Post
  <2>2. PostHandler(t, o, op[o].ec, FALSE)
    <3>1. a.ec = op[o].ec /\ a.rs = FALSE
      OBVIOUS
    <3> QED
      BY <2>1, <3>1
  <2> QED
    BY <1>2, <1>6, <2>2
<1>10. CASE op[o].kind = "store_result" /\ op[o].ec = "ok"
  <2>1. PICK a \in Assign(c, "ok") : PostHandler(t, o, a.ec, a.rs)
    BY <1>10 DEF Post
  <2>2. impl[c].last_result \in {None, o}
    BY <1>0, <1>10 DEF SeqInv, OwnResult
  <2>3. \A e \in mysql_fetch_row(mysql[c], "ok") : e \in {"ok", "client"}
    BY DEF mysql_fetch_row, error_wrapper
  <2>4. CASE impl[c].last_result = None
    <3>1. a = [ec |-> "ok", rs |-> FALSE]
      BY <2>1, <2>4 DEF Assign
    <3>2. PostHandler(t, o, "ok", FALSE)
      BY <2>1, <3>1
    <3> QED
      BY <1>6, <3>2 DEF ErrorCodes
  <2>5. CASE impl[c].last_result # None
    <3>1. PICK e \in mysql_fetch_row(mysql[c], "ok") :
              a = [ec |-> e, rs |-> e = "ok"]
      BY <2>1, <2>5 DEF Assign
    <3>2. e \in ErrorCodes
      BY <2>3 DEF ErrorCodes
    <3>3. CASE e = "ok"
      <4>1. a = [ec |-> e, rs |-> TRUE]
        BY <3>1, <3>3
      <4>2. PostHandler(t, o, e, TRUE)
        BY <2>1, <4>1
      <4>3. impl[c].last_result = o
        BY <2>2, <2>5
      <4> QED
        BY <1>7, <3>2, <4>2, <4>3
    <3>4. CASE e # "ok"
      <4>1. a = [ec |-> e, rs |-> FALSE]
        BY <3>1, <3>4
      <4>2. PostHandler(t, o, e, FALSE)
        BY <2>1, <4>1
      <4> QED
        BY <1>6, <3>2, <4>2
    <3> QED
      BY <3>3, <3>4
  <2> QED
    BY <2>4, <2>5
<1> QED
  BY <1>8, <1>9, <1>10 DEF Post

(* Steps that leave the connectors alone and only take operations out of   *)
(* flight.                                                                 *)
LEMMA LeaveSeq ==
    ASSUME IInv, SeqInv, impl' = impl, mysql' = mysql, upc' = upc,
           \A o \in Ops : op'[o].st \in InFlight => op'[o] = op[o],
           \A t \in Threads : pc'[t] = "post" =>
               /\ pc[t] = "post" /\ cur'[t] = cur[t]
               /\ op'[cur[t]] = op[cur[t]]
    PROVE  SeqInv'
<1> USE DEF SeqInv
<1>1. OneInFlight' /\ LeftAlone'
  BY DEF OneInFlight, LeftAlone
<1>2. OpenWhileUsed' /\ DeliveredResultAlive'
  BY DEF OpenWhileUsed, DeliveredResultAlive, InFlight
<1>3. OpenIsInit' /\ ClosedIsClean'
  BY DEF OpenIsInit, ClosedIsClean
<1>4. OwnResult'
  BY DEF OwnResult, conn
<1> QED
  BY <1>1, <1>2, <1>3, <1>4

(* The remaining steps of the work thread, the user's io_service and the   *)
(* shutdown of its services.                                               *)
LEMMA OtherSeq ==
    ASSUME IInv, SeqInv,
           \/ \E t \in Threads : Finish(t) \/ Exit(t)
           \/ RunHandler \/ Shutdown \/ UNCHANGED vars
    PROVE  SeqInv'
<1>1. ASSUME NEW t \in Threads, Finish(t) \/ Exit(t) PROVE SeqInv'
  <2>1. /\ UNCHANGED <<impl, mysql, upc, op>>
        /\ pc'[t] \in {"idle", "exited"}
        /\ \A u \in Threads : u # t => pc'[u] = pc[u] /\ cur'[u] = cur[u]
    BY <1>1 DEF Finish, Exit, userVars, IInv, TypeOK
  <2> QED
    BY <2>1, LeaveSeq
<1>2. CASE RunHandler
  <2>1. Head(mainq) \in Ops /\ op[Head(mainq)].st = "posted"
    BY <1>2, TailFacts DEF RunHandler, IInv, TypeOK, QueueInv, Queue
  <2>2. /\ UNCHANGED <<impl, mysql, upc, cur, pc>>
        /\ op' = [op EXCEPT ![Head(mainq)] = Gone("done")]
    BY <1>2 DEF RunHandler, userVars, workerVars
  <2>3. Gone("done").st = "done"
    BY NewRecords
  <2>4. \A t \in Threads : pc[t] = "post" =>
            cur[t] \in Ops /\ cur[t] # Head(mainq)
    BY <2>1 DEF IInv, WorkerInv, Executing
  <2>5. \A o \in Ops : op'[o] = IF o = Head(mainq) THEN Gone("done") ELSE op[o]
    BY <2>1, <2>2 DEF IInv, TypeOK
  <2>6. \A o \in Ops : op'[o].st \in InFlight => op'[o] = op[o]
    BY <2>3, <2>5 DEF InFlight
  <2>7. \A t \in Threads : pc'[t] = "post" =>
            pc[t] = "post" /\ cur'[t] = cur[t] /\ op'[cur[t]] = op[cur[t]]
    BY <2>2, <2>4, <2>5
  <2> QED
    BY <2>2, <2>6, <2>7, LeaveSeq
<1>3. CASE ShutdownStop \/ UNCHANGED vars
  <2>1. UNCHANGED <<impl, mysql, upc, op, cur, pc>>
    BY <1>3 DEF ShutdownStop, userVars, workerVars, vars
  <2> QED
    BY <2>1, LeaveSeq
<1>4. CASE ShutdownJoin
  <2>1. /\ \A t \in threads : pc[t] = "exited"
        /\ op' = [o \in Ops |-> IF op[o].st \in {"queued", "posted"}
                                THEN Gone("dropped") ELSE op[o]]
        /\ UNCHANGED <<impl, mysql, upc, cur, pc>>
    BY <1>4 DEF ShutdownJoin, userVars
  <2>2. Gone("dropped").st = "dropped"
    BY NewRecords
  <2>3. \A t \in Threads : pc[t] # "post"
    BY <2>1 DEF IInv, WorkerInv
  <2>4. \A o \in Ops : op'[o].st \in InFlight => op'[o] = op[o]
    BY <2>1, <2>2 DEF InFlight
  <2> QED
    BY <2>1, <2>3, <2>4, LeaveSeq
<1> QED
  BY <1>1, <1>2, <1>3, <1>4 DEF Shutdown

(* Nothing is in flight and every connector is clean to begin with.        *)
LEMMA InitSeq == Init => SeqInv
<1> SUFFICES ASSUME Init PROVE SeqInv
  OBVIOUS
<1>1. /\ \A o \in Ops : op[o].st = "fresh"
      /\ \A t \in Threads : pc[t] = "none"
  BY DEF Init, NewOperation
<1>2. \A c \in Connectors : /\ impl[c].initialized = FALSE
                            /\ impl[c].last_result = None
                            /\ impl[c].first_result_stored = FALSE
  BY DEF Init, NewImplementation
<1>3. OneInFlight /\ LeftAlone /\ OpenWhileUsed /\ DeliveredResultAlive
  BY <1>1 DEF OneInFlight, LeftAlone, OpenWhileUsed, DeliveredResultAlive,
              InFlight
<1>4. OpenIsInit /\ ClosedIsClean /\ OwnResult
  BY <1>1, <1>2 DEF OpenIsInit, ClosedIsClean, OwnResult
<1> QED
  BY <1>3, <1>4 DEF SeqInv

(* Every step of sequential use keeps SeqInv.                              *)
LEMMA NextSeq ==
    ASSUME Sequential
    PROVE  IInv /\ SeqInv /\ [Next]_vars => SeqInv'
<1> SUFFICES ASSUME IInv, SeqInv, [Next]_vars PROVE SeqInv'
  OBVIOUS
<1>1. ASSUME NEW c \in Connectors, UserStep(c) \/ CloseStep(c)
      PROVE  SeqInv'
  BY <1>1, UserStepSeq, CancelSeq, AsyncSeq DEF UserStep, CloseStep
<1>2. ASSUME NEW t \in Threads, WorkerStep(t)
      PROVE  SeqInv'
  BY <1>2, TakeSeq, EnterSeq, LibrarySeq, ResetSeq, PostSeq, OtherSeq
  DEF WorkerStep
<1> QED
  BY <1>1, <1>2, OtherSeq DEF Next

(* The invariant of sequential use.                                        *)
THEOREM SequentialInvariant ==
    ASSUME Sequential
    PROVE  Spec => []SeqInv
BY InitSeq, NextSeq, Invariant, PTL DEF Spec

(* A user who leaves a connector alone (cancel() apart) while one of its   *)
(* operations is in flight never has the work thread touch a connection    *)
(* that was closed or freed.                                               *)
THEOREM HandleIsUsable ==
    ASSUME Sequential
    PROVE  Spec => []HandleUsable
<1>1. IInv /\ SeqInv => HandleUsable
  <2> SUFFICES ASSUME IInv, SeqInv, NEW t \in Threads, Executing(t)
               PROVE  /\ impl[conn(t)].alive = "yes"
                      /\ impl[conn(t)].initialized
                      /\ mysql[conn(t)].st # "raw"
    BY DEF HandleUsable
  <2>1. /\ cur[t] \in Ops /\ op[cur[t]].st = "running"
        /\ conn(t) \in Connectors /\ op[cur[t]].conn = conn(t)
    BY ExecutingFacts
  <2>2. impl[conn(t)].initialized
    BY <2>1 DEF SeqInv, OpenWhileUsed
  <2>3. impl[conn(t)].alive = "yes"
    BY <2>1 DEF SeqInv, LeftAlone, InFlight
  <2> QED
    BY <2>1, <2>2, <2>3 DEF SeqInv, OpenIsInit
<1> QED
  BY <1>1, Invariant, SequentialInvariant, PTL

(* In sequential use the result set given to a handler is alive when the   *)
(* handler runs.                                                           *)
THEOREM ResultIsAlive ==
    ASSUME Sequential
    PROVE  Spec => []DeliveredResultAlive
<1>1. SeqInv => DeliveredResultAlive
  BY DEF SeqInv
<1> QED
  BY <1>1, SequentialInvariant, PTL

(* In sequential use close() leaves no result set behind.                  *)
THEOREM ResultIsRevoked ==
    ASSUME Sequential
    PROVE  Spec => []CloseRevokesResult
<1>1. SeqInv => CloseRevokesResult
  BY DEF SeqInv, ClosedIsClean, CloseRevokesResult
<1> QED
  BY <1>1, SequentialInvariant, PTL

-----------------------------------------------------------------------------
(***************************************************************************)
(* The protocol of sequential use.  first_result_stored says that no       *)
(* result waits in the library; between the step that sets it and the      *)
(* mysql_store_result() it announces, only the thread in that call knows   *)
(* better.                                                                 *)
(***************************************************************************)
InLibrary(t) == pc[t] \in {"next", "lib"}

Storing(t) == pc[t] = "lib" /\ op[cur[t]].kind = "store_result"

ResultTaken(c) == impl[c].first_result_stored => ~mysql[c].unread

StoredIsRead ==
    \A c \in Connectors :
        ResultTaken(c) \/ \E t \in Threads : Storing(t) /\ conn(t) = c

NextIsStore == \A t \in Threads : pc[t] = "next" => op[cur[t]].kind = "store_result"

QueryForgets ==
    \A t \in Threads : pc[t] = "lib" /\ op[cur[t]].kind = "query" =>
        ~impl[conn(t)].first_result_stored

SyncInv == StoredIsRead /\ NextIsStore /\ QueryForgets /\ NextResultInSync

(* What a step leaves of the threads inside the library.                   *)
SameCalls ==
    \A t \in Threads :
        /\ InLibrary(t) => /\ pc'[t] = pc[t] /\ cur'[t] = cur[t]
                           /\ op'[cur[t]].kind = op[cur[t]].kind
                           /\ op'[cur[t]].conn = op[cur[t]].conn
        /\ pc'[t] \in {"next", "lib"} => InLibrary(t)

(* No thread is inside the library for a connector without operations in   *)
(* flight, and nothing waits there that was said to be stored.             *)
LEMMA IdleIsTaken ==
    ASSUME IInv, SyncInv, NEW c \in Connectors, ~Busy(c)
    PROVE  /\ \A t \in Threads : InLibrary(t) => conn(t) # c
           /\ ResultTaken(c)
<1>1. ASSUME NEW t \in Threads, InLibrary(t) PROVE conn(t) # c
  <2>1. cur[t] \in Ops /\ op[cur[t]].st = "running"
    BY <1>1 DEF InLibrary, IInv, WorkerInv, Executing
  <2> QED
    BY <2>1 DEF Busy, conn, InFlight
<1> QED
  BY <1>1 DEF SyncInv, StoredIsRead, Storing, InLibrary

(* A step that leaves the threads inside the library alone, and their      *)
(* connectors.                                                             *)
LEMMA SyncKept ==
    ASSUME IInv, SyncInv, SameCalls,
           \A c \in Connectors :
              \/ /\ impl'[c].first_result_stored = impl[c].first_result_stored
                 /\ mysql'[c] = mysql[c]
              \/ /\ \A t \in Threads : InLibrary(t) => conn(t) # c
                 /\ ResultTaken(c)'
    PROVE  SyncInv'
<1>1. ASSUME NEW t \in Threads, InLibrary(t)
      PROVE  /\ conn(t)' = conn(t) /\ conn(t) \in Connectors
             /\ op'[cur'[t]].kind = op[cur[t]].kind /\ pc'[t] = pc[t]
             /\ impl'[conn(t)].first_result_stored
                  = impl[conn(t)].first_result_stored
             /\ mysql'[conn(t)] = mysql[conn(t)]
  <2>1. cur[t] \in Ops /\ op[cur[t]].conn = conn(t) /\ conn(t) \in Connectors
    BY <1>1, ExecutingFacts DEF InLibrary, Executing
  <2>2. conn(t)' = conn(t) /\ op'[cur'[t]].kind = op[cur[t]].kind
    BY <1>1, <2>1 DEF SameCalls, conn
  <2> QED
    BY <1>1, <2>1, <2>2 DEF SameCalls
<1>2. \A t \in Threads : pc'[t] \in {"next", "lib"} => InLibrary(t)
  BY DEF SameCalls
<1>3. StoredIsRead'
  <2> SUFFICES ASSUME NEW c \in Connectors, ~ResultTaken(c)'
               PROVE  \E t \in Threads : Storing(t)' /\ conn(t)' = c
    BY DEF StoredIsRead
  <2>1. ~ResultTaken(c)
    BY DEF ResultTaken
  <2>2. PICK t \in Threads : Storing(t) /\ conn(t) = c
    BY <2>1 DEF SyncInv, StoredIsRead
  <2>3. InLibrary(t)
    BY <2>2 DEF Storing, InLibrary
  <2> QED
    BY <1>1, <2>2, <2>3 DEF Storing
<1>4. NextIsStore'
  BY <1>1, <1>2 DEF SyncInv, NextIsStore
<1>5. QueryForgets'
  BY <1>1, <1>2 DEF SyncInv, QueryForgets
<1>6. NextResultInSync'
  BY <1>1, <1>2 DEF SyncInv, NextResultInSync, mysql_more_results
<1> QED
  BY <1>3, <1>4, <1>5, <1>6 DEF SyncInv

(* The user's steps that start no operation keep SyncInv.                  *)
LEMMA UserStepSync ==
    ASSUME Sequential, IInv, SeqInv, SyncInv, NEW c \in Connectors,
           \/ open(c) \/ close(c) \/ destroy(c)
           \/ CloseState(c) \/ CloseCancel(c) \/ Free(c)
    PROVE  SyncInv'
<1>0. /\ impl[c] \in Implementation /\ impl \in [Connectors -> Implementation]
      /\ mysql \in [Connectors -> Handle]
  BY DEF IInv, TypeOK
<1>1. ~Busy(c)
  <2>1. CASE MayCall(c)
    BY <2>1 DEF MayCall
  <2>2. CASE upc[c] # "idle"
    BY <2>2 DEF SeqInv, LeftAlone, Busy
  <2> QED
    BY <2>1, <2>2 DEF open, close, destroy, CloseState, CloseCancel, Free
<1>2. /\ \A t \in Threads : InLibrary(t) => conn(t) # c
      /\ ResultTaken(c)
  BY <1>1, IdleIsTaken
<1>3. SameCalls
  <2>1. op' = op \/ op' = Cancelled(c)
    BY DEF open, close, destroy, CloseState, CloseCancel, Free
  <2>2. cur' = cur /\ pc' = pc
    BY DEF open, close, destroy, CloseState, CloseCancel, Free, workerVars
  <2>3. \A t \in Threads : InLibrary(t) => cur[t] \in Ops
    BY ExecutingFacts DEF InLibrary, Executing
  <2>4. op \in [Ops -> Operation]
    BY DEF IInv, TypeOK
  <2> QED
    BY <2>1, <2>2, <2>3, <2>4, CancelledType DEF SameCalls, InLibrary
<1>4. \A d \in Connectors : d # c => impl'[d] = impl[d] /\ mysql'[d] = mysql[d]
  BY <1>0 DEF open, close, destroy, CloseState, CloseCancel, Free, CloseHandle
<1>5. ResultTaken(c)'
  <2>1. CASE open(c)
    <3>1. PICK r \in mysql_init(mysql[c]) :
              impl' = [impl EXCEPT ![c].initialized = (r.ec = "ok")]
      BY <2>1 DEF open
    <3>2. impl'[c].first_result_stored = impl[c].first_result_stored
      BY <1>0, <3>1, SetInitialized
    <3>3. ~impl[c].initialized /\ upc[c] = "idle"
      BY <2>1 DEF open, MayCall
    <3> QED
      BY <3>2, <3>3 DEF SeqInv, ClosedIsClean, ResultTaken
  <2>2. ASSUME NEW fate, CloseHandle(c, fate) PROVE ResultTaken(c)'
    <3>1. mysql'[c] = RawHandle
      BY <1>0, <2>2 DEF CloseHandle
    <3> QED
      BY <3>1 DEF ResultTaken, RawHandle
  <2>3. CASE close(c)
    BY <2>2, <2>3 DEF close
  <2>4. CASE destroy(c)
    <3>1. CASE impl[c].initialized
      BY <2>2, <2>4, <3>1 DEF destroy
    <3>2. CASE ~impl[c].initialized
      <4>1. impl' = [impl EXCEPT ![c].alive = "dying"] /\ mysql' = mysql
        BY <2>4, <3>2 DEF destroy
      <4>2. impl'[c].first_result_stored = impl[c].first_result_stored
        BY <1>0, <4>1, SetAlive
      <4> QED
        BY <1>2, <4>1, <4>2 DEF ResultTaken
    <3> QED
      BY <3>1, <3>2
  <2>5. CASE CloseState(c)
    <3>1. impl'[c].first_result_stored = FALSE
      BY <1>0, <2>5 DEF CloseState, Implementation
    <3> QED
      BY <3>1 DEF ResultTaken
  <2>6. CASE CloseCancel(c)
    <3>1. /\ impl'[c].first_result_stored = impl[c].first_result_stored
          /\ mysql' = mysql
      BY <1>0, <2>6, FreshTokenType DEF CloseCancel
    <3> QED
      BY <1>2, <3>1 DEF ResultTaken
  <2>7. CASE Free(c)
    <3> DEFINE i == FreshToken(impl[c])
               j == [i EXCEPT !.first_result_stored = FALSE]
               k == [j EXCEPT !.last_result = None]
               l == [k EXCEPT !.alive = "no"]
    <3>1. impl'[c] = l
      BY <1>0, <2>7 DEF Free
    <3>2. i \in Implementation
      BY <1>0, FreshTokenType
    <3> HIDE DEF i
    <3>3. j \in Implementation /\ j.first_result_stored = FALSE
      BY <3>2, SetFirst
    <3> HIDE DEF j
    <3>4. k \in Implementation /\ k.first_result_stored = FALSE
      BY <3>3, SetLast
    <3> HIDE DEF k
    <3>5. l.first_result_stored = FALSE
      BY <3>4, SetAlive
    <3> HIDE DEF l
    <3> QED
      BY <3>1, <3>5 DEF ResultTaken
  <2> QED
    BY <2>1, <2>3, <2>4, <2>5, <2>6, <2>7
<1> QED
  BY <1>2, <1>3, <1>4, <1>5, SyncKept

(* cancel() may come at any time, and keeps SyncInv.                       *)
LEMMA CancelSync ==
    ASSUME IInv, SyncInv, NEW c \in Connectors, cancel(c)
    PROVE  SyncInv'
<1>1. op \in [Ops -> Operation] /\ impl \in [Connectors -> Implementation]
  BY DEF IInv, TypeOK
<1>2. \A t \in Threads : InLibrary(t) => cur[t] \in Ops
  BY ExecutingFacts DEF InLibrary, Executing
<1>3. SameCalls
  BY <1>1, <1>2, CancelledType DEF cancel, workerVars, SameCalls, InLibrary
<1>4. \A d \in Connectors :
          /\ impl'[d].first_result_stored = impl[d].first_result_stored
          /\ mysql'[d] = mysql[d]
  BY <1>1, FreshTokenType DEF cancel
<1> QED
  BY <1>3, <1>4, SyncKept

(* The three async_ calls keep SyncInv.                                    *)
LEMMA AsyncSync ==
    ASSUME Sequential, IInv, SeqInv, SyncInv,
           NEW o \in Ops, NEW c \in Connectors,
           \/ \E flags \in BOOLEAN : async_connect(o, c, flags)
           \/ async_query(o, c)
           \/ async_store_result(o, c)
    PROVE  SyncInv'
<1>0. /\ op[o].st = "fresh" /\ ~Busy(c) /\ upc[c] = "idle"
  BY DEF async_connect, async_query, async_store_result, AsyncOnOpen, MayCall
<1>1. /\ impl[c] \in Implementation /\ impl \in [Connectors -> Implementation]
      /\ mysql \in [Connectors -> Handle] /\ op \in [Ops -> Operation]
  BY DEF IInv, TypeOK
<1>2. \/ \E kind, flags : PostWork(o, c, kind, flags)
      \/ \E kind, ec : PostError(o, c, kind, ec)
  BY DEF async_connect, async_query, async_store_result, AsyncOnOpen
<1>3. /\ \A p \in Ops : p # o => op'[p] = op[p]
      /\ cur' = cur
      /\ pc' = pc \/ (threads = {} /\ \E t \in Threads : pc' = [pc EXCEPT ![t] = "idle"])
  BY <1>1, <1>2 DEF PostWork, PostError, start_work_thread, workerVars
<1>4. SameCalls
  <2>1. \A t \in Threads : InLibrary(t) =>
            cur[t] \in Ops /\ cur[t] # o /\ t \in threads
    BY <1>0, ExecutingFacts DEF InLibrary, Executing
  <2>2. pc \in [Threads -> {"none", "idle", "enter", "next", "lib", "reset", "post",
                            "destroy", "exited"}]
    BY DEF IInv, TypeOK
  <2>3. \A t \in Threads : InLibrary(t) => pc'[t] = pc[t]
    BY <1>3, <2>1, <2>2
  <2>4. \A t \in Threads : pc'[t] \in {"next", "lib"} => InLibrary(t)
    BY <1>3, <2>2 DEF InLibrary
  <2> QED
    BY <1>3, <2>1, <2>3, <2>4 DEF SameCalls
<1>5. \A d \in Connectors : d # c => impl'[d] = impl[d] /\ mysql'[d] = mysql[d]
  BY <1>1 DEF async_connect, async_query, async_store_result, AsyncOnOpen,
              userVars
<1>6. \/ impl' = impl /\ mysql' = mysql
      \/ /\ ~impl[c].initialized
         /\ \E r : impl' = [impl EXCEPT ![c].initialized = (r.ec = "ok")]
  BY DEF async_connect, async_query, async_store_result, AsyncOnOpen, userVars
<1>7. /\ \A t \in Threads : InLibrary(t) => conn(t) # c
      /\ ResultTaken(c)
  BY <1>0, IdleIsTaken
<1>8. CASE impl' = impl /\ mysql' = mysql
  BY <1>4, <1>8, SyncKept
<1>9. CASE /\ ~impl[c].initialized
           /\ \E r : impl' = [impl EXCEPT ![c].initialized = (r.ec = "ok")]
  <2>1. ~impl[c].first_result_stored
    BY <1>0, <1>9 DEF SeqInv, ClosedIsClean
  <2>2. impl'[c].first_result_stored = impl[c].first_result_stored
    BY <1>1, <1>9, SetInitialized
  <2>3. ResultTaken(c)'
    BY <2>1, <2>2 DEF ResultTaken
  <2> QED
    BY <1>4, <1>5, <1>7, <2>3, SyncKept
<1> QED
  BY <1>6, <1>8, <1>9

(* A step of thread t inside operator(): no other thread is inside the     *)
(* library, so SyncInv is about t and its connection alone.                *)
LEMMA WorkerSync ==
    ASSUME IInv, SyncInv, NEW t \in Threads, Executing(t),
           cur' = cur, \A u \in Threads : u # t => pc'[u] = pc[u],
           op'[cur[t]].conn = conn(t), op'[cur[t]].kind = op[cur[t]].kind,
           \A d \in Connectors : d # conn(t) =>
               impl'[d] = impl[d] /\ mysql'[d] = mysql[d],
           ResultTaken(conn(t))' \/ Storing(t)',
           pc'[t] = "next" =>
               /\ op[cur[t]].kind = "store_result"
               /\ ~mysql'[conn(t)].unread
               /\ mysql_more_results(mysql'[conn(t)]),
           pc'[t] = "lib" /\ op[cur[t]].kind = "query" =>
               ~impl'[conn(t)].first_result_stored
    PROVE  SyncInv'
<1> DEFINE c == conn(t)
<1>1. c \in Connectors /\ t \in threads /\ conn(t)' = c
  BY ExecutingFacts DEF conn
<1>2. \A u \in Threads : u # t =>
          pc[u] \notin {"next", "lib"} /\ pc'[u] \notin {"next", "lib"}
  BY <1>1 DEF IInv, WorkerInv
<1>3. StoredIsRead'
  <2> SUFFICES ASSUME NEW d \in Connectors
               PROVE  ResultTaken(d)'
                      \/ \E u \in Threads : Storing(u)' /\ conn(u)' = d
    BY DEF StoredIsRead
  <2>1. CASE d = c
    BY <1>1, <2>1
  <2>2. CASE d # c
    <3>1. ResultTaken(d)
      BY <1>2, <2>2 DEF SyncInv, StoredIsRead, Storing
    <3> QED
      BY <2>2, <3>1 DEF ResultTaken
  <2> QED
    BY <2>1, <2>2
<1>4. NextIsStore' /\ QueryForgets'
  BY <1>1, <1>2 DEF NextIsStore, QueryForgets
<1>5. NextResultInSync'
  BY <1>1, <1>2 DEF NextResultInSync
<1> QED
  BY <1>3, <1>4, <1>5 DEF SyncInv

(* Outside the library call nothing waits that was said to be stored.      *)
LEMMA TakenOutside ==
    ASSUME IInv, SyncInv, NEW t \in Threads, Executing(t), ~Storing(t)
    PROVE  ResultTaken(conn(t))
<1>1. conn(t) \in Connectors /\ t \in threads
  BY ExecutingFacts
<1>2. \A u \in Threads : u # t => pc[u] # "lib"
  BY <1>1 DEF IInv, WorkerInv
<1> QED
  BY <1>1, <1>2 DEF SyncInv, StoredIsRead, Storing

(* operator() up to its first library call keeps SyncInv: it goes on to    *)
(* mysql_next_result() only with the first result taken and, as            *)
(* has_more_results() found, another one to come.                          *)
LEMMA EnterSync ==
    ASSUME IInv, SyncInv, NEW t \in Threads, Enter(t)
    PROVE  SyncInv'
<1> DEFINE o == cur[t]
           c == conn(t)
           freed == [impl[c] EXCEPT !.last_result = None]
<1>0. Executing(t) /\ pc[t] = "enter"
  BY DEF Enter, Executing
<1>1. /\ mysql' = mysql /\ cur' = cur
      /\ \A u \in Threads : u # t => pc'[u] = pc[u]
  BY <1>0, ExecutingFacts DEF Enter
<1>2. /\ o \in Ops /\ c \in Connectors /\ op[o].conn = c
      /\ impl[c] \in Implementation /\ impl \in [Connectors -> Implementation]
      /\ pc \in [Threads -> {"none", "idle", "enter", "next", "lib", "reset",
                             "post", "destroy", "exited"}]
  BY <1>0, ExecutingFacts
<1>3. op'[o].conn = c /\ op'[o].kind = op[o].kind
  <2>1. op' = op \/ op' = [op EXCEPT ![o].ec = "no_more_results"]
    BY DEF Enter
  <2>2. "no_more_results" \in ErrorCodes
    BY DEF ErrorCodes
  <2> QED
    BY <1>0, <1>2, <2>1, <2>2, OnlyEcSeq
<1>4. ResultTaken(c)
  BY <1>0, TakenOutside DEF Storing
<1>5. /\ freed \in Implementation
      /\ freed.first_result_stored = impl[c].first_result_stored
  BY <1>2, SetLast
<1>6. CASE op[o].kind = "connect"
  <2>1. impl' = impl /\ pc'[t] = "lib"
    BY <1>2, <1>6 DEF Enter
  <2>2. ResultTaken(c)'
    BY <1>0, <1>1, <1>3, <1>4, <2>1 DEF ResultTaken, conn
  <2> QED
    BY <1>0, <1>1, <1>3, <1>6, <2>1, <2>2, WorkerSync DEF ResultTaken
<1>7. CASE op[o].kind = "query"
  <2>1. /\ impl' = [impl EXCEPT ![c] =
                       [freed EXCEPT !.first_result_stored = FALSE]]
        /\ pc'[t] = "lib"
    BY <1>2, <1>7 DEF Enter
  <2> HIDE DEF freed
  <2>2. [freed EXCEPT !.first_result_stored = FALSE].first_result_stored = FALSE
    BY <1>5, SetFirst
  <2>3. /\ ~impl'[c].first_result_stored
        /\ \A d \in Connectors : d # c => impl'[d] = impl[d]
    BY <1>2, <2>1, <2>2
  <2>4. ResultTaken(c)'
    BY <1>0, <1>1, <1>3, <2>3 DEF ResultTaken, conn
  <2> QED
    BY <1>0, <1>1, <1>3, <1>7, <2>1, <2>3, <2>4, WorkerSync DEF ResultTaken
<1>8. CASE op[o].kind = "store_result" /\ ~impl[c].first_result_stored
  <2>1. impl' = [impl EXCEPT ![c].first_result_stored = TRUE] /\ pc'[t] = "lib"
    BY <1>2, <1>8 DEF Enter
  <2>2. \A d \in Connectors : d # c => impl'[d] = impl[d]
    BY <1>2, <2>1
  <2>3. Storing(t)'
    BY <1>1, <1>3, <1>8, <2>1 DEF Storing
  <2> QED
    BY <1>0, <1>1, <1>3, <1>8, <2>1, <2>2, <2>3, WorkerSync
<1>9. CASE op[o].kind = "store_result" /\ impl[c].first_result_stored
  <2>1. /\ impl' = [impl EXCEPT ![c] = freed]
        /\ IF has_more_results(impl[c], mysql[c]) THEN pc'[t] = "next"
                                                  ELSE pc'[t] = "post"
    BY <1>2, <1>9 DEF Enter
  <2> HIDE DEF freed
  <2>2. /\ impl'[c].first_result_stored = impl[c].first_result_stored
        /\ \A d \in Connectors : d # c => impl'[d] = impl[d]
    BY <1>2, <1>5, <2>1
  <2>3. ResultTaken(c)'
    BY <1>0, <1>1, <1>3, <1>4, <2>2 DEF ResultTaken, conn
  <2>4. pc'[t] = "next" => /\ ~mysql'[c].unread
                           /\ mysql_more_results(mysql'[c])
    BY <1>1, <1>4, <1>9, <2>1 DEF ResultTaken, has_more_results
  <2> QED
    BY <1>0, <1>1, <1>3, <1>9, <2>1, <2>2, <2>3, <2>4, WorkerSync DEF ResultTaken
<1> QED
  BY <1>6, <1>7, <1>8, <1>9 DEF Enter

(* The return of a library call keeps SyncInv: mysql_next_result() makes a *)
(* result wait only if mysql_store_result() follows, which takes it.       *)
LEMMA LibrarySync ==
    ASSUME IInv, SeqInv, SyncInv, NEW t \in Threads,
           NextResult(t) \/ LibReturn(t)
    PROVE  SyncInv'
<1> DEFINE o == cur[t]
           c == conn(t)
<1>0. Executing(t)
  BY DEF NextResult, LibReturn, Executing
<1>1. /\ cur' = cur /\ \A u \in Threads : u # t => pc'[u] = pc[u]
  BY <1>0, ExecutingFacts DEF NextResult, LibReturn
<1>2. /\ t \in threads /\ o \in Ops /\ c \in Connectors
      /\ op[o].st = "running" /\ op[o].conn = c
      /\ mysql[c] \in Handle /\ mysql \in [Connectors -> Handle]
      /\ impl[c] \in Implementation /\ impl \in [Connectors -> Implementation]
      /\ op[o].flags \in BOOLEAN /\ op[o].kind \in Kinds
      /\ pc \in [Threads -> {"none", "idle", "enter", "next", "lib", "reset",
                             "post", "destroy", "exited"}]
  BY <1>0, ExecutingFacts DEF Operation
<1>3. ASSUME NEW r \in CallResult,
             mysql' = [mysql EXCEPT ![c] = r.h],
             \/ op' = [op EXCEPT ![o].ec = r.ec]
             \/ op' = [op EXCEPT ![o].ec = r.ec, ![o].rs = r.res]
      PROVE  /\ \A d \in Connectors : d # c => mysql'[d] = mysql[d]
             /\ mysql'[c] = r.h
             /\ op'[o].conn = c /\ op'[o].kind = op[o].kind
             /\ conn(t)' = c
  <2>1. r.ec \in ErrorCodes /\ r.res \in BOOLEAN
    BY DEF CallResult, ErrorCodes
  <2>2. op'[o].conn = c /\ op'[o].kind = op[o].kind
    BY <1>0, <1>2, <1>3, <2>1, OnlyEcSeq, OutcomeSeq
  <2> QED
    BY <1>1, <1>2, <1>3, <2>2 DEF conn
<1>4. CASE NextResult(t)
  <2>1. PICK r \in mysql_next_result(mysql[c]) :
          /\ mysql' = [mysql EXCEPT ![c] = r.h]
          /\ op' = [op EXCEPT ![o].ec = r.ec]
          /\ pc' = [pc EXCEPT ![t] = IF r.ec = "ok" THEN "lib" ELSE "post"]
    BY <1>4 DEF NextResult
  <2>2. r \in CallResult
    BY <1>2, CallType
  <2>3. /\ \A d \in Connectors : d # c => mysql'[d] = mysql[d]
        /\ mysql'[c] = r.h
        /\ op'[o].conn = c /\ op'[o].kind = op[o].kind /\ conn(t)' = c
    BY <1>3, <2>1, <2>2
  <2>4. impl' = impl /\ pc[t] = "next"
    BY <1>4 DEF NextResult
  <2>5. op[o].kind = "store_result" /\ ~mysql[c].unread
    BY <2>4 DEF SyncInv, NextIsStore, NextResultInSync
  <2>6. CASE r.ec = "ok"
    <3>1. pc'[t] = "lib"
      BY <1>2, <2>1, <2>6
    <3>2. Storing(t)'
      BY <1>1, <2>3, <2>5, <3>1 DEF Storing
    <3> QED
      BY <1>0, <1>1, <2>3, <2>4, <2>5, <3>1, <3>2, WorkerSync
  <2>7. CASE r.ec # "ok"
    <3>1. pc'[t] = "post"
      BY <1>2, <2>1, <2>7
    <3>2. r.h.unread = FALSE
      BY <1>2, <2>5, <2>7, NextKeeps
    <3>3. ResultTaken(c)'
      BY <2>3, <3>2 DEF ResultTaken
    <3> QED
      BY <1>0, <1>1, <2>3, <2>4, <3>1, <3>3, WorkerSync DEF ResultTaken
  <2> QED
    BY <2>6, <2>7
<1>5. CASE LibReturn(t)
  <2>1. PICK r \in LibCall(t) :
          /\ mysql' = [mysql EXCEPT ![c] = r.h]
          /\ op' = [op EXCEPT ![o].ec = r.ec, ![o].rs = r.res]
    BY <1>5 DEF LibReturn
  <2>2. r \in CallResult
    <3>1. r \in mysql_real_connect(mysql[c], op[o].flags)
                \cup mysql_real_query(mysql[c]) \cup mysql_store_result(mysql[c])
      BY <1>2, <2>1 DEF LibCall, Kinds
    <3> QED
      BY <1>2, <3>1, CallType
  <2>3. /\ \A d \in Connectors : d # c => mysql'[d] = mysql[d]
        /\ mysql'[c] = r.h
        /\ op'[o].conn = c /\ op'[o].kind = op[o].kind /\ conn(t)' = c
    BY <1>3, <2>1, <2>2
  <2>4. pc[t] = "lib" /\ pc'[t] \in {"reset", "post"}
    BY <1>2, <1>5 DEF LibReturn
  <2>5. impl' = impl
    BY <1>5 DEF LibReturn
  <2>6. ResultTaken(c)'
    <3>1. CASE op[o].kind = "connect"
      <4>1. r \in mysql_real_connect(mysql[c], op[o].flags)
        BY <2>1, <3>1 DEF LibCall
      <4>2. r.h.unread => mysql[c].unread
        BY <1>2, <4>1, ConnectKeeps
      <4>3. ResultTaken(c)
        BY <1>0, <3>1, TakenOutside DEF Storing
      <4> QED
        BY <2>3, <2>5, <3>1, <4>2, <4>3 DEF ResultTaken
    <3>2. CASE op[o].kind = "query"
      <4>1. ~impl[c].first_result_stored
        BY <2>4, <3>2 DEF SyncInv, QueryForgets
      <4> QED
        BY <2>3, <2>5, <3>2, <4>1 DEF ResultTaken
    <3>3. CASE op[o].kind = "store_result"
      <4>1. r \in mysql_store_result(mysql[c])
        BY <2>1, <3>3 DEF LibCall
      <4>2. mysql[c].st # "raw"
        BY <1>2 DEF SeqInv, OpenIsInit, OpenWhileUsed
      <4>3. r.h.unread = FALSE
        BY <1>2, <4>1, <4>2, StoreKeeps
      <4> QED
        BY <2>3, <4>3 DEF ResultTaken
    <3> QED
      BY <1>2, <3>1, <3>2, <3>3 DEF Kinds
  <2> QED
    BY <1>0, <1>1, <2>3, <2>4, <2>5, <2>6, WorkerSync DEF ResultTaken
<1> QED
  BY <1>4, <1>5

(* The remaining steps go into no library call and leave none.             *)
LEMMA OtherSync ==
    ASSUME IInv, SyncInv,
           \/ \E t \in Threads :
                 Take(t) \/ Reset(t) \/ Post(t) \/ Finish(t) \/ Exit(t)
           \/ RunHandler \/ Shutdown \/ UNCHANGED vars
    PROVE  SyncInv'
<1>0. /\ op \in [Ops -> Operation] /\ impl \in [Connectors -> Implementation]
      /\ pc \in [Threads -> {"none", "idle", "enter", "next", "lib", "reset",
                             "post", "destroy", "exited"}]
      /\ cur \in [Threads -> Ops \cup {None}]
      /\ \A u \in Threads : InLibrary(u) =>
            u \in threads /\ cur[u] \in Ops /\ op[cur[u]].st = "running"
  BY ExecutingFacts DEF IInv, TypeOK, InLibrary, Executing
<1>1. ASSUME mysql' = mysql,
             \A c \in Connectors :
                impl'[c].first_result_stored = impl[c].first_result_stored,
             \A u \in Threads : InLibrary(u) =>
                 /\ pc'[u] = pc[u] /\ cur'[u] = cur[u]
                 /\ op'[cur[u]] = op[cur[u]],
             \A u \in Threads : pc'[u] \in {"next", "lib"} => InLibrary(u)
      PROVE  SyncInv'
  <2>1. SameCalls
    BY <1>1 DEF SameCalls
  <2> QED
    BY <1>1, <2>1, SyncKept
<1>2. ASSUME NEW t \in Threads, Take(t) PROVE SyncInv'
  <2>1. Head(workq) \in Ops /\ op[Head(workq)].st = "queued"
    <3>1. workq \in Seq(Ops) /\ workq # <<>>
      BY <1>2 DEF Take, IInv, TypeOK
    <3>2. Head(workq) \in Ops /\ Head(workq) = workq[1] /\ 1 \in 1..Len(workq)
      BY <3>1, TailFacts
    <3> QED
      BY <3>2 DEF IInv, QueueInv, Queue
  <2>2. /\ impl' = impl /\ mysql' = mysql /\ pc[t] = "idle"
        /\ cur' = [cur EXCEPT ![t] = Head(workq)]
        /\ pc' = [pc EXCEPT ![t] = "enter"] \/ pc' = [pc EXCEPT ![t] = "destroy"]
    BY <1>2 DEF Take, userVars, PostHandler
  <2>3. \A p \in Ops : p # Head(workq) => op'[p] = op[p]
    BY <1>0, <1>2, <2>1 DEF Take, PostHandler
  <2>4. \A u \in Threads : InLibrary(u) => u # t /\ cur[u] # Head(workq)
    BY <1>0, <2>1, <2>2 DEF InLibrary
  <2>5. \A u \in Threads : u # t => pc'[u] = pc[u] /\ cur'[u] = cur[u]
    BY <1>0, <2>2
  <2>6. pc'[t] \notin {"next", "lib"}
    BY <1>0, <2>2
  <2> QED
    BY <1>0, <1>1, <2>2, <2>3, <2>4, <2>5, <2>6 DEF InLibrary
<1>3. ASSUME NEW t \in Threads, Post(t) PROVE SyncInv'
  <2>1. /\ Executing(t) /\ pc[t] = "post" /\ mysql' = mysql /\ cur' = cur
    BY <1>3 DEF Post, Executing
  <2>2. \A u \in Threads : ~InLibrary(u)
    BY <1>0, <2>1, ExecutingFacts DEF IInv, WorkerInv, InLibrary
  <2>3. pc' = [pc EXCEPT ![t] = "destroy"]
    BY <1>3 DEF Post, PostHandler
  <2>4. \A u \in Threads : pc'[u] \notin {"next", "lib"}
    BY <1>0, <2>2, <2>3 DEF InLibrary
  <2>5. conn(t) \in Connectors /\ op[cur[t]].flags \in BOOLEAN
    BY <2>1, ExecutingFacts DEF Operation
  <2>6. impl' = impl \/ impl' = [impl EXCEPT ![conn(t)].flags = op[cur[t]].flags]
    BY <1>3 DEF Post
  <2>7. \A c \in Connectors :
            impl'[c].first_result_stored = impl[c].first_result_stored
    <3> DEFINE c == conn(t)
               j == [impl[c] EXCEPT !.flags = op[cur[t]].flags]
    <3>1. j.first_result_stored = impl[c].first_result_stored
      BY <1>0, <2>5, SetFlags
    <3>2. impl' = impl \/ impl' = [impl EXCEPT ![c] = j]
      BY <2>6
    <3> HIDE DEF j, c
    <3> QED
      BY <1>0, <3>1, <3>2
  <2> QED
    BY <1>1, <2>1, <2>2, <2>4, <2>7
<1>4. ASSUME NEW t \in Threads, Finish(t) \/ Exit(t) PROVE SyncInv'
  <2>1. /\ impl' = impl /\ mysql' = mysql /\ op' = op
        /\ pc[t] \in {"destroy", "idle"} /\ pc'[t] \in {"idle", "exited"}
        /\ \A u \in Threads : u # t => pc'[u] = pc[u] /\ cur'[u] = cur[u]
    BY <1>0, <1>4 DEF Finish, Exit, userVars
  <2> QED
    BY <1>1, <2>1 DEF InLibrary
<1>5. CASE RunHandler
  <2>1. Head(mainq) \in Ops /\ op[Head(mainq)].st = "posted"
    <3>1. mainq \in Seq(Ops) /\ mainq # <<>>
      BY <1>5 DEF RunHandler, IInv, TypeOK
    <3>2. Head(mainq) \in Ops /\ Head(mainq) = mainq[1] /\ 1 \in 1..Len(mainq)
      BY <3>1, TailFacts
    <3> QED
      BY <3>2 DEF IInv, QueueInv, Queue
  <2>2. /\ UNCHANGED <<impl, mysql, cur, pc>>
        /\ op' = [op EXCEPT ![Head(mainq)] = Gone("done")]
    BY <1>5 DEF RunHandler, userVars, workerVars
  <2>3. \A u \in Threads : InLibrary(u) => op'[cur[u]] = op[cur[u]]
    BY <1>0, <2>1, <2>2
  <2> QED
    BY <1>1, <2>2, <2>3 DEF InLibrary
<1>6. CASE ShutdownStop \/ UNCHANGED vars
  <2>1. UNCHANGED <<impl, mysql, op, cur, pc>>
    BY <1>6 DEF ShutdownStop, userVars, workerVars, vars
  <2> QED
    BY <1>1, <2>1 DEF InLibrary
<1>7. CASE ShutdownJoin
  <2>1. /\ \A t \in threads : pc[t] = "exited"
        /\ UNCHANGED <<impl, mysql, cur, pc>>
    BY <1>7 DEF ShutdownJoin, userVars
  <2>2. \A u \in Threads : ~InLibrary(u)
    BY <1>0, <2>1 DEF InLibrary
  <2> QED
    BY <1>1, <2>1, <2>2 DEF InLibrary
<1>8. ASSUME NEW t \in Threads, Reset(t) PROVE SyncInv'
  <2>1. /\ Executing(t) /\ pc[t] = "reset" /\ UNCHANGED <<mysql, cur, op>>
        /\ pc' = [pc EXCEPT ![t] = "post"]
    BY <1>8 DEF Reset, Executing
  <2>2. \A u \in Threads : ~InLibrary(u)
    BY <1>0, <2>1, ExecutingFacts DEF IInv, WorkerInv, InLibrary
  <2>3. \A u \in Threads : pc'[u] \notin {"next", "lib"}
    BY <1>0, <2>1, <2>2 DEF InLibrary
  <2> DEFINE c == conn(t)
             x == IF op[cur[t]].rs THEN cur[t] ELSE None
             j == [impl[c] EXCEPT !.last_result = x]
  <2>4. c \in Connectors /\ x \in Ops \cup {None} /\ impl[c] \in Implementation
    BY <2>1, ExecutingFacts
  <2>5. impl' = [impl EXCEPT ![c] = j]
    BY <1>8 DEF Reset
  <2> HIDE DEF c, x
  <2>6. j.first_result_stored = impl[c].first_result_stored
    BY <2>4, SetLast
  <2> HIDE DEF j
  <2>7. \A d \in Connectors :
            impl'[d].first_result_stored = impl[d].first_result_stored
    BY <1>0, <2>5, <2>6
  <2> QED
    BY <1>1, <2>1, <2>2, <2>3, <2>7
<1> QED
  BY <1>2, <1>3, <1>4, <1>5, <1>6, <1>7, <1>8 DEF Shutdown

(* Every step of sequential use keeps SyncInv.                             *)
LEMMA NextSync ==
    ASSUME Sequential
    PROVE  IInv /\ SeqInv /\ SyncInv /\ [Next]_vars => SyncInv'
<1> SUFFICES ASSUME IInv, SeqInv, SyncInv, [Next]_vars PROVE SyncInv'
  OBVIOUS
<1>1. ASSUME NEW c \in Connectors, UserStep(c) \/ CloseStep(c)
      PROVE  SyncInv'
  BY <1>1, UserStepSync, CancelSync, AsyncSync DEF UserStep, CloseStep
<1>2. ASSUME NEW t \in Threads, WorkerStep(t)
      PROVE  SyncInv'
  BY <1>2, EnterSync, LibrarySync, OtherSync DEF WorkerStep
<1> QED
  BY <1>1, <1>2, OtherSync DEF Next

(* No thread is inside the library to begin with, and nothing is stored.   *)
LEMMA InitSync == Init => SyncInv
<1> SUFFICES ASSUME Init PROVE SyncInv
  OBVIOUS
<1>1. \A t \in Threads : pc[t] = "none"
  BY DEF Init
<1>2. \A c \in Connectors : impl[c].first_result_stored = FALSE
  BY DEF Init, NewImplementation
<1> QED
  BY <1>1, <1>2 DEF SyncInv, StoredIsRead, ResultTaken, NextIsStore,
                    QueryForgets, NextResultInSync

(* In sequential use mysql_next_result() is only called with the previous  *)
(* result taken and another one to come.                                   *)
THEOREM NextIsInSync ==
    ASSUME Sequential
    PROVE  Spec => []NextResultInSync
<1>1. SyncInv => NextResultInSync
  BY DEF SyncInv
<1> QED
  BY <1>1, InitSync, NextSync, Invariant, SequentialInvariant, PTL DEF Spec

-----------------------------------------------------------------------------
(***************************************************************************)
(* mysql_service keeps the promise of AsyncOps, for any connectors,        *)
(* operations and threads and any use of them: every step of the service   *)
(* is a step of AsyncOps or leaves its variables alone.                    *)
(***************************************************************************)
Working == \E t \in Threads : Executing(t)

(* What the operations look like from outside.                             *)
Done == {o \in Ops : op[o].st = "done"}

Dropped == {o \in Ops : op[o].st = "dropped"}

-----------------------------------------------------------------------------
(* What IInv does not say: a service that is down has no thread, and a     *)
(* queued operation is in the work queue.                                  *)
RefInv ==
    /\ svc = "down" => threads = {}
    /\ \A o \in Ops : op[o].st = "queued" => \E i \in 1..Len(workq) : workq[i] = o

(* At first no operation was started.                                      *)
LEMMA InitRefInv == Init => RefInv
BY DEF Init, RefInv, NewOperation

(* Appending to a queue and taking its head keep the others in it.         *)
LEMMA StillQueued ==
    ASSUME NEW s \in Seq(Ops), NEW o \in Ops,
           \E i \in 1..Len(s) : s[i] = o
    PROVE  /\ \A e \in Ops : \E i \in 1..Len(Append(s, e)) : Append(s, e)[i] = o
           /\ o # Head(s) => \E i \in 1..Len(Tail(s)) : Tail(s)[i] = o
<1>1. PICK i \in 1..Len(s) : s[i] = o
  OBVIOUS
<1>2. s # <<>>
  BY <1>1
<1>3. ASSUME NEW e \in Ops
      PROVE  \E j \in 1..Len(Append(s, e)) : Append(s, e)[j] = o
  <2>1. i \in 1..Len(Append(s, e)) /\ Append(s, e)[i] = o
    BY <1>1, AppendFacts
  <2> QED
    BY <2>1
<1>4. ASSUME o # Head(s)
      PROVE  \E j \in 1..Len(Tail(s)) : Tail(s)[j] = o
  <2>1. i # 1
    BY <1>1, <1>2, <1>4, TailFacts
  <2>2. i - 1 \in 1..Len(Tail(s)) /\ Tail(s)[i - 1] = s[i - 1 + 1]
    BY <1>1, <1>2, <2>1, TailFacts
  <2>3. Tail(s)[i - 1] = o
    BY <1>1, <2>2
  <2> QED
    BY <2>2, <2>3
<1> QED
  BY <1>3, <1>4

-----------------------------------------------------------------------------
(* The operation that is executed, if there is one.                        *)
LEMMA RunningOne ==
    ASSUME IInv, NEW t \in Threads, Executing(t)
    PROVE  RunningSeq = <<cur[t]>>
<1>1. \A u \in Threads : Executing(u) => u = t
  BY DEF IInv, WorkerInv, Executing
<1> QED
  BY <1>1 DEF RunningSeq

(* When no thread executes there is none.                                  *)
LEMMA RunningNone == ~Working => RunningSeq = <<>>
BY DEF RunningSeq, Working

(* The same of the next state.                                             *)
LEMMA RunningNext ==
    /\ \A t \in Threads :
          Executing(t)' /\ (\A u \in Threads : Executing(u)' => u = t) =>
              RunningSeq' = <<cur'[t]>>
    /\ ~Working' => RunningSeq' = <<>>
BY DEF RunningSeq, Working

(* One thread is the only one that can execute.                            *)
LEMMA OnlyThread ==
    ASSUME IInv, NEW t \in threads
    PROVE  \A u \in Threads : u # t => pc[u] \in {"none", "exited"} /\ ~Executing(u)
BY DEF IInv, WorkerInv, Executing

(* Who executes what does not change.                                      *)
LEMMA RunningKept ==
    ASSUME \A t \in Threads : /\ Executing(t)' <=> Executing(t)
                              /\ Executing(t) => cur'[t] = cur[t],
           IInv
    PROVE  RunningSeq' = RunningSeq
<1>1. CASE Working
  <2>1. PICK t \in Threads : Executing(t)
    BY <1>1 DEF Working
  <2>2. \A u \in Threads : Executing(u) => u = t
    BY <2>1 DEF IInv, WorkerInv, Executing
  <2>3. RunningSeq = <<cur[t]>>
    BY <2>1, RunningOne
  <2>4. Executing(t)' /\ \A u \in Threads : Executing(u)' => u = t
    BY <2>1, <2>2
  <2>5. RunningSeq' = <<cur'[t]>>
    BY <2>4, RunningNext
  <2>6. cur'[t] = cur[t]
    BY <2>1
  <2> QED
    BY <2>3, <2>5, <2>6
<1>2. CASE ~Working
  <2>1. ~Working'
    BY <1>2 DEF Working
  <2> QED
    BY <1>2, <2>1, RunningNone, RunningNext
<1> QED
  BY <1>1, <1>2

(* A step that is not seen from outside.                                   *)
Quiet ==
    /\ \A o \in Ops : op'[o].st = op[o].st
    /\ \A t \in Threads : /\ Executing(t)' <=> Executing(t)
                          /\ Executing(t) => cur'[t] = cur[t]
    /\ workq' = workq /\ mainq' = mainq /\ threads' = threads
    /\ svc' = svc \/ (svc = "up" /\ svc' = "stopping")

(* Such a step leaves the variables of AsyncOps alone.                     *)
LEMMA QuietStutters ==
    ASSUME IInv, RefInv, Quiet
    PROVE  RefInv' /\ UNCHANGED Promise!vars
<1>1. RunningSeq' = RunningSeq
  BY RunningKept DEF Quiet
<1>2. RefInv'
  BY DEF Quiet, RefInv
<1>3. (svc # "down")' = (svc # "down")
  BY DEF Quiet
<1>4. /\ {o \in Ops : op[o].st = "done"}' = {o \in Ops : op[o].st = "done"}
      /\ {o \in Ops : op[o].st = "dropped"}' = {o \in Ops : op[o].st = "dropped"}
  BY DEF Quiet
<1> QED
  BY <1>1, <1>2, <1>3, <1>4 DEF Promise!vars, Quiet

(* The user's calls that start no operation are not seen from outside, nor *)
(* is the stop of the work thread.                                         *)
LEMMA UserQuiet ==
    ASSUME IInv, NEW c,
           \/ open(c) \/ cancel(c) \/ close(c) \/ destroy(c)
           \/ CloseStep(c) \/ ShutdownStop \/ UNCHANGED vars
    PROVE  Quiet
<1>1. /\ workq' = workq /\ mainq' = mainq /\ threads' = threads
      /\ cur' = cur /\ pc' = pc
      /\ op' = op \/ op' = Cancelled(c)
      /\ svc' = svc \/ (svc = "up" /\ svc' = "stopping")
  BY DEF open, cancel, close, destroy, CloseStep, CloseState, CloseCancel, Free,
         ShutdownStop, vars, workerVars
<1>2. \A o \in Ops : op'[o].st = op[o].st
  BY <1>1, CancelledType DEF IInv, TypeOK
<1> QED
  BY <1>1, <1>2 DEF Quiet, Executing

(* Neither is what the work thread does between taking an operation and    *)
(* posting its handler, or after that.                                     *)
LEMMA WorkerQuiet ==
    ASSUME IInv, NEW t \in Threads,
           \/ Enter(t) \/ NextResult(t) \/ LibReturn(t) \/ Reset(t)
           \/ Finish(t) \/ Exit(t)
    PROVE  Quiet
<1>1. /\ workq' = workq /\ mainq' = mainq /\ threads' = threads /\ svc' = svc
  BY DEF Enter, NextResult, LibReturn, Reset, Finish, Exit
<1>2. pc \in [Threads -> {"none", "idle", "enter", "next", "lib", "reset", "post",
                          "destroy", "exited"}]
  BY DEF IInv, TypeOK
<1>3. CASE Finish(t) \/ Exit(t)
  <2>1. op' = op
    BY <1>3 DEF Finish, Exit
  <2>2. /\ ~Executing(t) /\ ~Executing(t)'
        /\ \A u \in Threads : u # t => pc'[u] = pc[u] /\ cur'[u] = cur[u]
    BY <1>2, <1>3 DEF Finish, Exit, Executing, IInv, TypeOK
  <2> QED
    BY <1>1, <2>1, <2>2 DEF Quiet, Executing
<1>4. CASE Enter(t) \/ NextResult(t) \/ LibReturn(t) \/ Reset(t)
  <2>1. cur' = cur /\ \A u \in Threads : u # t => pc'[u] = pc[u]
    BY <1>2, <1>4 DEF Enter, NextResult, LibReturn, Reset
  <2>2. Executing(t) /\ Executing(t)'
    BY <1>2, <1>4 DEF Enter, NextResult, LibReturn, Reset, Executing
  <2>3. \/ op' = op
        \/ \E ec : op' = [op EXCEPT ![cur[t]].ec = ec]
        \/ \E ec, rs : op' = [op EXCEPT ![cur[t]].ec = ec, ![cur[t]].rs = rs]
    BY <1>4 DEF Enter, NextResult, LibReturn, Reset
  <2>4. cur[t] \in Ops /\ op \in [Ops -> Operation]
    BY <2>2, ExecutingFacts
  <2>5. \A o \in Ops : op'[o].st = op[o].st
    <3>1. CASE op' = op
      BY <3>1
    <3>2. ASSUME NEW q, q.st = op[cur[t]].st, op' = [op EXCEPT ![cur[t]] = q]
          PROVE  \A o \in Ops : op'[o].st = op[o].st
      BY <2>4, <3>2
    <3>3. ASSUME NEW ec, op' = [op EXCEPT ![cur[t]].ec = ec]
          PROVE  \A o \in Ops : op'[o].st = op[o].st
      <4> DEFINE q == [op[cur[t]] EXCEPT !.ec = ec]
      <4>1. q.st = op[cur[t]].st
        BY <2>4 DEF Operation
      <4>2. op' = [op EXCEPT ![cur[t]] = q]
        BY <3>3
      <4> HIDE DEF q
      <4> QED
        BY <3>2, <4>1, <4>2
    <3>4. ASSUME NEW ec, NEW rs,
                 op' = [op EXCEPT ![cur[t]].ec = ec, ![cur[t]].rs = rs]
          PROVE  \A o \in Ops : op'[o].st = op[o].st
      <4> DEFINE q == [op[cur[t]] EXCEPT !.ec = ec, !.rs = rs]
      <4>1. q.st = op[cur[t]].st
        BY <2>4 DEF Operation
      <4>2. op' = [op EXCEPT ![cur[t]] = q]
        BY <2>4, <3>4
      <4> HIDE DEF q
      <4> QED
        BY <3>2, <4>1, <4>2
    <3> QED
      BY <2>3, <3>1, <3>3, <3>4
  <2> QED
    BY <1>1, <2>1, <2>2, <2>5 DEF Quiet, Executing
<1> QED
  BY <1>3, <1>4

-----------------------------------------------------------------------------
(* An operation that was not started is nowhere.                           *)
LEMMA FreshUnused ==
    ASSUME IInv, NEW o \in Ops, op[o].st = "fresh"
    PROVE  Promise!Unused(o)
<1>1. o \notin {(RunningSeq \o workq)[i] : i \in DOMAIN (RunningSeq \o workq)}
  <2>1. CASE Working
    <3>1. PICK t \in Threads : Executing(t)
      BY <2>1 DEF Working
    <3>2. RunningSeq = <<cur[t]>> /\ cur[t] \in Ops /\ cur[t] # o
      BY <3>1, RunningOne, ExecutingFacts
    <3>3. workq \in Seq(Ops) /\ \A i \in 1..Len(workq) : workq[i] # o
      BY DEF IInv, TypeOK, QueueInv, Queue
    <3> QED
      BY <3>2, <3>3
  <2>2. CASE ~Working
    <3>1. RunningSeq = <<>>
      BY <2>2, RunningNone
    <3>2. workq \in Seq(Ops) /\ \A i \in 1..Len(workq) : workq[i] # o
      BY DEF IInv, TypeOK, QueueInv, Queue
    <3> QED
      BY <3>1, <3>2
  <2> QED
    BY <2>1, <2>2
<1>2. o \notin {mainq[i] : i \in DOMAIN mainq}
  BY DEF IInv, TypeOK, QueueInv, Queue
<1> QED
  BY <1>1, <1>2 DEF Promise!Unused, Promise!Elements

(* The fates of the operations when one of them moves on.                  *)
LEMMA Fates ==
    ASSUME IInv, NEW o \in Ops, NEW q, op' = [op EXCEPT ![o] = q],
           op[o].st \notin {"done", "dropped"}
    PROVE  /\ \A p \in Ops : p # o => op'[p] = op[p]
           /\ op'[o] = q
           /\ Done' = IF q.st = "done" THEN Done \cup {o} ELSE Done
           /\ Dropped' = IF q.st = "dropped" THEN Dropped \cup {o} ELSE Dropped
<1>1. op'[o] = q /\ \A p \in Ops : p # o => op'[p] = op[p]
  BY DEF IInv, TypeOK
<1> QED
  BY <1>1 DEF Done, Dropped

(* The pending operations are a sequence.                                  *)
LEMMA RunningType ==
    ASSUME IInv
    PROVE  RunningSeq \in Seq(Ops) /\ workq \in Seq(Ops) /\ mainq \in Seq(Ops)
<1>1. workq \in Seq(Ops) /\ mainq \in Seq(Ops)
  BY DEF IInv, TypeOK
<1>2. CASE Working
  <2>1. PICK t \in Threads : Executing(t)
    BY <1>2 DEF Working
  <2>2. RunningSeq = <<cur[t]>> /\ cur[t] \in Ops
    BY <2>1, RunningOne, ExecutingFacts
  <2> QED
    BY <1>1, <2>2
<1>3. CASE ~Working
  BY <1>1, <1>3, RunningNone
<1> QED
  BY <1>2, <1>3

(* What is appended to the end of the queue is appended to all of it.      *)
LEMMA AppendToEnd ==
    ASSUME NEW S, NEW s \in Seq(S), NEW q \in Seq(S), NEW e \in S
    PROVE  s \o Append(q, e) = Append(s \o q, e)
<1> DEFINE a == s \o Append(q, e)
           b == Append(s \o q, e)
<1>1. a \in Seq(S) /\ b \in Seq(S) /\ Len(a) = Len(b)
  OBVIOUS
<1>2. \A i \in 1..Len(a) : a[i] = b[i]
  OBVIOUS
<1> QED
  BY <1>1, <1>2

(* An operation that is started is submitted, refused or, after the        *)
(* shutdown, discarded.                                                    *)
LEMMA PostErrorStep ==
    ASSUME IInv, RefInv, NEW o \in Ops, op[o].st = "fresh", svc # "stopping",
           NEW c, NEW kind, NEW ec, PostError(o, c, kind, ec), svc' = svc
    PROVE  RefInv' /\ (Promise!Refuse(o) \/ Promise!Discard(o))
<1>1. /\ workq' = workq /\ threads' = threads /\ cur' = cur /\ pc' = pc
  BY DEF PostError, workerVars
<1>2. RunningSeq' = RunningSeq
  BY <1>1, RunningKept DEF Executing
<1>3. Promise!Unused(o)
  BY FreshUnused
<1>4. CASE svc = "up"
  <2> DEFINE q == HandlerObject(c, kind, FALSE, "posted", ec)
  <2>1. q.st = "posted"
    BY DEF HandlerObject
  <2>2. op' = [op EXCEPT ![o] = q] /\ mainq' = Append(mainq, o)
    BY <1>4 DEF PostError
  <2> HIDE DEF q
  <2>3. Done' = Done /\ Dropped' = Dropped
        /\ (\A p \in Ops : p # o => op'[p] = op[p]) /\ op'[o].st = "posted"
    BY <2>1, <2>2, Fates
  <2>4. RefInv'
    BY <1>1, <2>3 DEF RefInv
  <2>5. Promise!Refuse(o)
    BY <1>1, <1>2, <1>3, <1>4, <2>2, <2>3 DEF Promise!Refuse, Done, Dropped
  <2> QED
    BY <2>4, <2>5
<1>5. CASE svc # "up"
  <2> DEFINE q == Gone("dropped")
  <2>1. q.st = "dropped"
    BY NewRecords
  <2>2. op' = [op EXCEPT ![o] = q] /\ mainq' = mainq
    BY <1>5 DEF PostError
  <2>3. svc = "down"
    BY <1>5 DEF IInv, TypeOK
  <2> HIDE DEF q
  <2>4. Done' = Done /\ Dropped' = Dropped \cup {o}
        /\ (\A p \in Ops : p # o => op'[p] = op[p]) /\ op'[o].st = "dropped"
    BY <2>1, <2>2, Fates
  <2>5. RefInv'
    BY <1>1, <2>4 DEF RefInv
  <2>6. Promise!Discard(o)
    BY <1>1, <1>2, <1>3, <2>2, <2>3, <2>4 DEF Promise!Discard, Done, Dropped
  <2> QED
    BY <2>5, <2>6
<1> QED
  BY <1>4, <1>5

(* The handler object of an operation that is submitted is queued.         *)
LEMMA PostWorkStep ==
    ASSUME IInv, RefInv, NEW o \in Ops, op[o].st = "fresh", svc # "stopping",
           NEW c, NEW kind, NEW flags, PostWork(o, c, kind, flags), svc' = svc
    PROVE  RefInv' /\ (Promise!Submit(o) \/ Promise!Discard(o))
<1>1. Promise!Unused(o)
  BY FreshUnused
<1>2. CASE svc = "up"
  <2> DEFINE q == HandlerObject(c, kind, flags, "queued", "ok")
  <2>1. q.st = "queued"
    BY DEF HandlerObject
  <2>2. /\ op' = [op EXCEPT ![o] = q] /\ mainq' = mainq
        /\ workq' = Append(workq, o) /\ start_work_thread
    BY <1>2 DEF PostWork
  <2> HIDE DEF q
  <2>3. Done' = Done /\ Dropped' = Dropped
        /\ (\A p \in Ops : p # o => op'[p] = op[p]) /\ op'[o].st = "queued"
    BY <2>1, <2>2, Fates
  <2>4. RunningSeq' = RunningSeq
    <3>1. cur' = cur
      BY <2>2 DEF start_work_thread, workerVars
    <3>2. \A t \in Threads : Executing(t)' <=> Executing(t)
      <4>1. CASE threads = {}
        <5>1. PICK u \in Threads : pc' = [pc EXCEPT ![u] = "idle"]
          BY <2>2, <4>1 DEF start_work_thread
        <5>2. \A t \in Threads : ~Executing(t)
          BY <4>1 DEF IInv, WorkerInv, Executing
        <5>3. \A t \in Threads : pc'[t] = pc[t] \/ pc'[t] = "idle"
          BY <5>1 DEF IInv, TypeOK
        <5> QED
          BY <5>2, <5>3 DEF Executing
      <4>2. CASE threads # {}
        BY <2>2, <4>2 DEF start_work_thread, workerVars, Executing
      <4> QED
        BY <4>1, <4>2
    <3> QED
      BY <3>1, <3>2, RunningKept
  <2>5. RefInv'
    <3>1. ASSUME NEW p \in Ops, op'[p].st = "queued"
          PROVE  \E i \in 1..Len(workq') : workq'[i] = p
      <4>1. CASE p = o
        BY <2>2, <4>1, RunningType, AppendFacts
      <4>2. CASE p # o
        <5>1. workq \in Seq(Ops)
          BY RunningType
        <5>2. op[p].st = "queued"
          BY <2>3, <3>1, <4>2
        <5>3. \E i \in 1..Len(workq) : workq[i] = p
          BY <5>2 DEF RefInv
        <5>4. \E i \in 1..Len(Append(workq, o)) : Append(workq, o)[i] = p
          BY <5>1, <5>3, StillQueued
        <5> QED
          BY <2>2, <5>4
      <4> QED
        BY <4>1, <4>2
    <3> QED
      BY <1>2, <3>1 DEF RefInv
  <2>6. RunningSeq' \o workq' = Append(RunningSeq \o workq, o)
    BY <2>2, <2>4, RunningType, AppendToEnd
  <2>7. Promise!Submit(o)
    BY <1>1, <1>2, <2>2, <2>3, <2>6 DEF Promise!Submit, Done, Dropped
  <2> QED
    BY <2>5, <2>7
<1>3. CASE svc # "up"
  <2> DEFINE q == Gone("dropped")
  <2>1. q.st = "dropped"
    BY NewRecords
  <2>2. /\ op' = [op EXCEPT ![o] = q] /\ mainq' = mainq /\ workq' = workq
        /\ threads' = threads /\ cur' = cur /\ pc' = pc
    BY <1>3 DEF PostWork, workerVars
  <2>3. svc = "down"
    BY <1>3 DEF IInv, TypeOK
  <2> HIDE DEF q
  <2>4. Done' = Done /\ Dropped' = Dropped \cup {o}
        /\ (\A p \in Ops : p # o => op'[p] = op[p]) /\ op'[o].st = "dropped"
    BY <2>1, <2>2, Fates
  <2>5. RunningSeq' = RunningSeq
    BY <2>2, RunningKept DEF Executing
  <2>6. RefInv'
    BY <2>2, <2>4 DEF RefInv
  <2>7. Promise!Discard(o)
    BY <1>1, <2>2, <2>3, <2>4, <2>5 DEF Promise!Discard, Done, Dropped
  <2> QED
    BY <2>6, <2>7
<1> QED
  BY <1>2, <1>3

(* Starting an operation.                                                  *)
LEMMA AsyncStep ==
    ASSUME IInv, RefInv, NEW o \in Ops, NEW c \in Connectors,
           \/ \E flags \in BOOLEAN : async_connect(o, c, flags)
           \/ async_query(o, c) \/ async_store_result(o, c)
    PROVE  RefInv' /\ (Promise!Submit(o) \/ Promise!Refuse(o) \/ Promise!Discard(o))
<1>1. op[o].st = "fresh" /\ svc # "stopping" /\ svc' = svc
  BY DEF async_connect, async_query, async_store_result, AsyncOnOpen, MayCall
<1>2. \/ \E kind, flags : PostWork(o, c, kind, flags)
      \/ \E kind, ec : PostError(o, c, kind, ec)
  BY DEF async_connect, async_query, async_store_result, AsyncOnOpen
<1> QED
  BY <1>1, <1>2, PostWorkStep, PostErrorStep

-----------------------------------------------------------------------------
(* The head of the queue and the rest of it.                               *)
LEMMA HeadAndTail ==
    ASSUME NEW S, NEW s \in Seq(S), s # <<>>
    PROVE  <<Head(s)>> \o Tail(s) = s
<1> DEFINE a == <<Head(s)>> \o Tail(s)
<1>1. a \in Seq(S) /\ Len(a) = Len(s)
  OBVIOUS
<1>2. \A i \in 1..Len(a) : a[i] = s[i]
  OBVIOUS
<1> QED
  BY <1>1, <1>2

(* The head of a queue with one element in front of it.                    *)
LEMMA FrontOfQueue ==
    ASSUME NEW S, NEW s \in Seq(S), NEW e \in S
    PROVE  /\ <<e>> \o s # <<>>
           /\ Head(<<e>> \o s) = e
           /\ Tail(<<e>> \o s) = s
           /\ <<>> \o s = s
<1> DEFINE a == <<e>> \o s
<1>1. a \in Seq(S) /\ Len(a) = Len(s) + 1 /\ a # <<>> /\ a[1] = e
      /\ \A i \in 1..Len(s) : a[i + 1] = s[i]
  OBVIOUS
<1>2. Head(a) = e
  BY <1>1
<1>3. Tail(a) \in Seq(S) /\ Len(Tail(a)) = Len(s)
      /\ \A i \in 1..Len(s) : Tail(a)[i] = a[i + 1]
  BY <1>1, TailFacts
<1>4. \A i \in 1..Len(s) : Tail(a)[i] = s[i]
  BY <1>1, <1>3
<1>5. Tail(a) = s
  BY <1>3, <1>4
<1> QED
  BY <1>1, <1>2, <1>5

(* An operation that is taken stays pending, or is completed at once when  *)
(* it was cancelled.                                                       *)
LEMMA TakeStep ==
    ASSUME IInv, RefInv, NEW t \in Threads, Take(t)
    PROVE  RefInv' /\ [Promise!Complete]_(Promise!vars)
<1> DEFINE o == Head(workq)
<1>1. /\ workq # <<>> /\ workq \in Seq(Ops) /\ mainq \in Seq(Ops)
      /\ o \in Ops /\ pc[t] = "idle" /\ svc = "up"
  BY RunningType, TailFacts DEF Take
<1>2. op[o].st = "queued"
  BY <1>1, TailFacts DEF IInv, QueueInv, Queue
<1>3. t \in threads
  BY <1>1 DEF IInv, WorkerInv
<1>4. \A u \in Threads : ~Executing(u)
  BY <1>1, <1>3, OnlyThread DEF Executing
<1>5. RunningSeq = <<>>
  BY <1>4, RunningNone DEF Working
<1>6. RunningSeq \o workq = workq
  BY <1>1, <1>5, FrontOfQueue
<1>7. workq' = Tail(workq) /\ svc' = svc /\ threads' = threads
      /\ cur' = [cur EXCEPT ![t] = o]
  BY DEF Take
<1>8. ASSUME NEW q, op' = [op EXCEPT ![o] = q], q.st \in {"posted", "running"}
      PROVE  RefInv' /\ Done' = Done /\ Dropped' = Dropped
  <2>1. /\ \A p \in Ops : p # o => op'[p] = op[p]
        /\ op'[o] = q /\ Done' = Done /\ Dropped' = Dropped
    BY <1>1, <1>2, <1>8, Fates
  <2>2. ASSUME NEW p \in Ops, op'[p].st = "queued"
        PROVE  \E i \in 1..Len(workq') : workq'[i] = p
    <3>1. p # o
      BY <1>8, <2>1, <2>2
    <3>2. \E i \in 1..Len(workq) : workq[i] = p
      BY <2>1, <2>2, <3>1 DEF RefInv
    <3>3. \E i \in 1..Len(Tail(workq)) : Tail(workq)[i] = p
      BY <1>1, <3>1, <3>2, StillQueued
    <3> QED
      BY <1>7, <3>3
  <2> QED
    BY <1>1, <1>7, <2>1, <2>2 DEF RefInv
<1>9. pc \in [Threads -> {"none", "idle", "enter", "next", "lib", "reset", "post",
                          "destroy", "exited"}]
      /\ op \in [Ops -> Operation] /\ cur \in [Threads -> Ops \cup {None}]
  BY DEF IInv, TypeOK
<1>10. CASE op[o].cancelation_token # impl[op[o].conn].cancelation_token
  <2> DEFINE q == Completed(op[o], "aborted", FALSE)
  <2>1. op' = [op EXCEPT ![o] = q] /\ mainq' = Append(mainq, o)
        /\ pc' = [pc EXCEPT ![t] = "destroy"]
    BY <1>10 DEF Take, PostHandler
  <2>2. q.st = "posted"
    BY <1>1, <1>9, Posted DEF ErrorCodes
  <2> HIDE DEF q
  <2>3. RefInv' /\ Done' = Done /\ Dropped' = Dropped
    BY <1>8, <2>1, <2>2
  <2>4. ~Working'
    <3>1. \A u \in Threads : ~Executing(u)'
      BY <1>4, <1>9, <2>1 DEF Executing
    <3> QED
      BY <3>1 DEF Working
  <2>5. RunningSeq' = <<>>
    BY <2>4, RunningNext
  <2>6. RunningSeq' \o workq' = Tail(workq)
    BY <1>1, <1>7, <2>5, TailFacts, FrontOfQueue
  <2>7. Promise!Complete
    BY <1>1, <1>6, <1>7, <2>1, <2>3, <2>6 DEF Promise!Complete, Done, Dropped
  <2> QED
    BY <2>3, <2>7
<1>11. CASE op[o].cancelation_token = impl[op[o].conn].cancelation_token
  <2> DEFINE q == [op[o] EXCEPT !.st = "running"]
  <2>1. op' = [op EXCEPT ![o] = q] /\ mainq' = mainq
        /\ pc' = [pc EXCEPT ![t] = "enter"]
    BY <1>11 DEF Take
  <2>2. q.st = "running"
    BY <1>1, <1>9, SetSt
  <2> HIDE DEF q
  <2>3. RefInv' /\ Done' = Done /\ Dropped' = Dropped
    BY <1>8, <2>1, <2>2
  <2>4. Executing(t)' /\ \A u \in Threads : Executing(u)' => u = t
    BY <1>4, <1>9, <2>1 DEF Executing
  <2>5. RunningSeq' = <<o>>
    BY <1>7, <1>9, <2>4, RunningNext
  <2>6. RunningSeq' \o workq' = RunningSeq \o workq
    BY <1>1, <1>6, <1>7, <2>5, HeadAndTail
  <2>7. UNCHANGED Promise!vars
    BY <1>7, <2>1, <2>3, <2>6 DEF Promise!vars, Done, Dropped
  <2> QED
    BY <2>3, <2>7
<1> QED
  BY <1>10, <1>11

(* The post of the user's handler completes the oldest operation.          *)
LEMMA PostStep ==
    ASSUME IInv, RefInv, NEW t \in Threads, Post(t)
    PROVE  RefInv' /\ Promise!Complete
<1> DEFINE o == cur[t]
<1>1. pc[t] = "post" /\ Executing(t)
  BY DEF Post, Executing
<1>2. /\ o \in Ops /\ op[o] \in Operation /\ op[o].st = "running"
      /\ t \in threads
      /\ op \in [Ops -> Operation]
      /\ pc \in [Threads -> {"none", "idle", "enter", "next", "lib", "reset", "post",
                             "destroy", "exited"}]
  BY <1>1, ExecutingFacts
<1>3. PICK e, rs : PostHandler(t, o, e, rs)
  BY DEF Post
<1>4. workq' = workq /\ svc' = svc /\ threads' = threads
  BY DEF Post
<1> DEFINE q == Completed(op[o], e, rs)
<1>5. q.st = "posted"
  BY <1>2 DEF Completed, Operation
<1>6. op' = [op EXCEPT ![o] = q] /\ mainq' = Append(mainq, o)
      /\ pc' = [pc EXCEPT ![t] = "destroy"]
  BY <1>3 DEF PostHandler
<1> HIDE DEF q
<1>7. Done' = Done /\ Dropped' = Dropped
      /\ (\A p \in Ops : p # o => op'[p] = op[p]) /\ op'[o].st = "posted"
  BY <1>2, <1>5, <1>6, Fates
<1>8. RefInv'
  BY <1>4, <1>7 DEF RefInv
<1>9. svc # "down"
  BY <1>2 DEF RefInv
<1>10. RunningSeq = <<o>>
  BY <1>1, RunningOne
<1>11. ~Working'
  <2>1. \A u \in Threads : u # t => ~Executing(u)
    BY <1>2, OnlyThread
  <2>2. \A u \in Threads : ~Executing(u)'
    BY <1>2, <1>6, <2>1 DEF Executing
  <2> QED
    BY <2>2 DEF Working
<1>12. RunningSeq' = <<>>
  BY <1>11, RunningNext
<1>13. workq \in Seq(Ops)
  BY RunningType
<1> HIDE DEF o
<1>14. /\ RunningSeq \o workq # <<>> /\ Head(RunningSeq \o workq) = o
       /\ RunningSeq' \o workq' = Tail(RunningSeq \o workq)
  BY <1>2, <1>4, <1>10, <1>12, <1>13, FrontOfQueue
<1>15. Promise!Complete
  BY <1>4, <1>6, <1>7, <1>9, <1>14 DEF Promise!Complete, Done, Dropped
<1> QED
  BY <1>8, <1>15

(* run() of the user's io_service delivers the oldest completion.          *)
LEMMA RunHandlerStep ==
    ASSUME IInv, RefInv, RunHandler
    PROVE  RefInv' /\ Promise!Deliver
<1> DEFINE o == Head(mainq)
           q == Gone("done")
<1>1. mainq # <<>> /\ mainq \in Seq(Ops) /\ o \in Ops /\ svc = "up"
  BY RunningType, TailFacts DEF RunHandler
<1>2. op[o].st = "posted"
  BY <1>1, TailFacts DEF IInv, QueueInv, Queue
<1>3. op' = [op EXCEPT ![o] = q] /\ q.st = "done"
  BY NewRecords DEF RunHandler
<1>4. /\ mainq' = Tail(mainq) /\ workq' = workq /\ svc' = svc
      /\ threads' = threads /\ cur' = cur /\ pc' = pc
  BY DEF RunHandler, workerVars
<1> HIDE DEF q
<1>5. /\ \A p \in Ops : p # o => op'[p] = op[p]
      /\ op'[o].st = "done" /\ Done' = Done \cup {o} /\ Dropped' = Dropped
  BY <1>1, <1>2, <1>3, Fates
<1>6. RefInv'
  BY <1>4, <1>5 DEF RefInv
<1>7. RunningSeq' = RunningSeq
  BY <1>4, RunningKept DEF Executing
<1>8. Promise!Deliver
  BY <1>1, <1>4, <1>5, <1>7 DEF Promise!Deliver, Done, Dropped
<1> QED
  BY <1>6, <1>8

(* The join of the work thread drops everything that is queued.            *)
LEMMA JoinStep ==
    ASSUME IInv, RefInv, ShutdownJoin
    PROVE  RefInv' /\ Promise!Shutdown
<1>1. /\ svc = "stopping" /\ svc' = "down"
      /\ workq' = <<>> /\ mainq' = <<>> /\ threads' = {} /\ cur' = cur /\ pc' = pc
  BY DEF ShutdownJoin
<1>2. \A t \in Threads : ~Executing(t)
  BY DEF ShutdownJoin, IInv, WorkerInv, Executing
<1>3. RunningSeq = <<>> /\ RunningSeq' = <<>>
  BY <1>1, <1>2, RunningNone, RunningNext DEF Working, Executing
<1>4. /\ workq \in Seq(Ops) /\ mainq \in Seq(Ops)
      /\ RunningSeq \o workq = workq /\ RunningSeq' \o workq' = <<>>
  <2>1. workq \in Seq(Ops) /\ mainq \in Seq(Ops)
    BY RunningType
  <2>2. <<>> \o workq = workq
    BY <2>1
  <2> QED
    BY <1>1, <1>3, <2>1, <2>2
<1>5. \A o \in Ops : op'[o].st = IF op[o].st \in {"queued", "posted"}
                                 THEN "dropped" ELSE op[o].st
  BY NewRecords DEF ShutdownJoin
<1>6. RefInv'
  BY <1>1, <1>5 DEF RefInv
<1> DEFINE waiting == {workq[i] : i \in DOMAIN workq}
           owed == {mainq[i] : i \in DOMAIN mainq}
<1>7. waiting \subseteq Ops /\ owed \subseteq Ops
  BY <1>4
<1>8. \A o \in Ops : o \in waiting <=> op[o].st = "queued"
  BY <1>4 DEF RefInv, IInv, QueueInv, Queue
<1>9. \A o \in Ops : o \in owed <=> op[o].st = "posted"
  BY <1>4 DEF IInv, QueueInv, Queue, GuardInv
<1> HIDE DEF waiting, owed
<1>10. Dropped' = Dropped \cup waiting \cup owed /\ Done' = Done
  BY <1>5, <1>7, <1>8, <1>9 DEF Dropped, Done
<1>11. Promise!Shutdown
  BY <1>1, <1>4, <1>10 DEF Promise!Shutdown, Promise!Elements, Done, Dropped,
                           waiting, owed
<1> QED
  BY <1>6, <1>11

(* Every step of the service is one of AsyncOps or none.                   *)
LEMMA NextStep ==
    IInv /\ RefInv /\ [Next]_vars => RefInv' /\ [Promise!Next]_(Promise!vars)
<1> SUFFICES ASSUME IInv, RefInv, [Next]_vars
             PROVE  RefInv' /\ [Promise!Next]_(Promise!vars)
  OBVIOUS
<1>1. ASSUME NEW c \in Connectors, UserStep(c) \/ CloseStep(c)
      PROVE  RefInv' /\ [Promise!Next]_(Promise!vars)
  <2>1. CASE open(c) \/ cancel(c) \/ close(c) \/ destroy(c) \/ CloseStep(c)
    BY <2>1, UserQuiet, QuietStutters
  <2>2. ASSUME NEW o \in Ops,
               \/ \E flags \in BOOLEAN : async_connect(o, c, flags)
               \/ async_query(o, c) \/ async_store_result(o, c)
        PROVE  RefInv' /\ [Promise!Next]_(Promise!vars)
    BY <2>2, AsyncStep DEF Promise!Next
  <2> QED
    BY <1>1, <2>1, <2>2 DEF UserStep
<1>2. ASSUME NEW t \in Threads, WorkerStep(t)
      PROVE  RefInv' /\ [Promise!Next]_(Promise!vars)
  <2>1. CASE Take(t)
    BY <2>1, TakeStep DEF Promise!Next
  <2>2. CASE Post(t)
    BY <2>2, PostStep DEF Promise!Next
  <2>3. CASE \/ Enter(t) \/ NextResult(t) \/ LibReturn(t) \/ Reset(t)
             \/ Finish(t) \/ Exit(t)
    BY <2>3, WorkerQuiet, QuietStutters
  <2> QED
    BY <1>2, <2>1, <2>2, <2>3 DEF WorkerStep
<1>3. CASE RunHandler
  BY <1>3, RunHandlerStep DEF Promise!Next
<1>4. CASE ShutdownJoin
  BY <1>4, JoinStep DEF Promise!Next
<1>5. CASE ShutdownStop \/ UNCHANGED vars
  BY <1>5, UserQuiet, QuietStutters
<1> QED
  BY <1>1, <1>2, <1>3, <1>4, <1>5 DEF Next, Shutdown

(* The service starts as AsyncOps does.                                    *)
LEMMA InitStep == Init => Promise!Init
<1> SUFFICES ASSUME Init PROVE Promise!Init
  OBVIOUS
<1>1. \A t \in Threads : ~Executing(t)
  BY DEF Init, Executing
<1>2. RunningSeq = <<>>
  BY <1>1, RunningNone DEF Working
<1>3. workq = <<>> /\ mainq = <<>> /\ svc = "up"
  BY DEF Init
<1>4. RunningSeq \o workq = <<>>
  BY <1>2, <1>3
<1>5. \A o \in Ops : op[o].st = "fresh"
  BY DEF Init, NewOperation
<1> QED
  BY <1>3, <1>4, <1>5 DEF Promise!Init

(* mysql_service implements AsyncOps, whatever the user does and however   *)
(* many operations, connectors and threads there are: operations complete  *)
(* one at a time in the order they were started, each handler runs at most *)
(* once and in the order of the completions, and none runs inside the call *)
(* that started the operation.                                             *)
THEOREM PromiseIsKept == Spec => ImplementsAsyncOps
BY Invariant, InitRefInv, InitStep, NextStep, PTL
DEF Spec, ImplementsAsyncOps, Promise!Spec
=============================================================================
