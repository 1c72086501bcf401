------------------- MODULE MariaDBServiceRefinementProofs -------------------
(***************************************************************************)
(* mariadb_service keeps the promise of CancellableOps, for any            *)
(* connectors, operations, results, waits and cancels: every step of the   *)
(* service is a step of CancellableOps or leaves its variables alone.      *)
(***************************************************************************)
EXTENDS MariaDBServiceRefinement, MariaDBServiceProofs

(* A connection serves its valid operation, if there is one.               *)
ServedInv ==
    \A c \in Connectors :
        /\ \A o \in Ops : Valid(o) /\ op[o].conn = c =>
              Served(c) = o /\ ServedBy(c) = {o}
        /\ (\A o \in Ops : op[o].conn = c => ~Valid(o)) =>
              Served(c) = None /\ ServedBy(c) = {}

(* An operation was started and not cancelled exactly when it is valid.    *)
LEMMA StartedFacts ==
    ASSUME MInv
    PROVE  /\ Started = {o \in Ops : op[o].st \in Active}
           /\ \A o \in Ops : o \in Started =>
                 (op[o].cancelled = "no" <=> Valid(o))
           /\ \A c \in Connectors :
                 ServedBy(c) = {o \in Ops : Valid(o) /\ op[o].conn = c}
<1>1. Started = {o \in Ops : op[o].st \in Active}
  BY DEF Started, Active
<1>2. \A o \in Ops : o \in Started => (op[o].cancelled = "no" <=> Valid(o))
  BY <1>1 DEF MInv, OpInv, OneOp, TokenInv, Valid
<1>3. \A o \in Ops : Valid(o) => o \in Started
  BY <1>1 DEF Valid
<1>4. \A c \in Connectors :
         ServedBy(c) = {o \in Ops : Valid(o) /\ op[o].conn = c}
  BY <1>1, <1>2, <1>3 DEF ServedBy
<1> QED
  BY <1>1, <1>2, <1>4

(* One operation of a connection is valid: it is the one that is served.   *)
LEMMA ServedOne == MInv => ServedInv
<1> SUFFICES ASSUME MInv, NEW c \in Connectors
             PROVE  /\ \A o \in Ops : Valid(o) /\ op[o].conn = c =>
                          Served(c) = o /\ ServedBy(c) = {o}
                    /\ (\A o \in Ops : op[o].conn = c => ~Valid(o)) =>
                          Served(c) = None /\ ServedBy(c) = {}
  BY DEF ServedInv
<1>1. ServedBy(c) = {o \in Ops : Valid(o) /\ op[o].conn = c}
  BY StartedFacts
<1>2. ASSUME NEW o \in Ops, Valid(o), op[o].conn = c
      PROVE  Served(c) = o /\ ServedBy(c) = {o}
  <2>1. \A p \in Ops : Valid(p) /\ op[p].conn = c => p = o
    BY <1>2 DEF MInv, UniqueInv
  <2>2. ServedBy(c) = {o}
    BY <1>1, <1>2, <2>1
  <2> QED
    BY <2>2 DEF Served
<1>3. ASSUME \A o \in Ops : op[o].conn = c => ~Valid(o)
      PROVE  Served(c) = None /\ ServedBy(c) = {}
  <2>1. ServedBy(c) = {}
    BY <1>1, <1>3
  <2> QED
    BY <2>1 DEF Served
<1> QED
  BY <1>2, <1>3

(* The same of the next state.                                             *)
LEMMA ServedNext == MInv' => ServedInv'
BY ServedOne, PTL

-----------------------------------------------------------------------------
(* An operation that looks the same from outside.                          *)
Alike(p) ==
    /\ op'[p].st \in Active <=> op[p].st \in Active
    /\ op'[p].st = "posted" <=> op[p].st = "posted"
    /\ op'[p].conn = op[p].conn /\ op'[p].cancelled = op[p].cancelled
    /\ Told(p)' = Told(p)

(* It is as doomed, and as refused, as before.                             *)
LEMMA AlikeFacts ==
    ASSUME NEW p \in Ops, Alike(p)
    PROVE  /\ p \in doomed' <=> p \in doomed
           /\ p \in refused' <=> p \in refused
           /\ outcome'[p] = outcome[p]
           /\ \A c : p \in ServedBy(c)' <=> p \in ServedBy(c)
BY DEF Alike, doomed, refused, outcome, ServedBy, Started, Active

(* A connection whose operations look the same serves the same.            *)
LEMMA AlikeServed ==
    ASSUME NEW c \in Connectors,
           \A p \in Ops : op[p].conn = c \/ op'[p].conn = c => Alike(p)
    PROVE  ServedBy(c)' = ServedBy(c) /\ Served(c)' = Served(c)
<1>1. ASSUME NEW p \in Ops PROVE p \in ServedBy(c)' <=> p \in ServedBy(c)
  <2>1. CASE op[p].conn = c \/ op'[p].conn = c
    BY <2>1, AlikeFacts
  <2>2. CASE op[p].conn # c /\ op'[p].conn # c
    BY <2>2 DEF ServedBy, Started
  <2> QED
    BY <2>1, <2>2
<1>2. ServedBy(c)' = ServedBy(c)
  BY <1>1 DEF ServedBy, Started
<1> QED
  BY <1>2 DEF Served

(* When all look the same, nothing is seen.                                *)
LEMMA AllAlike ==
    ASSUME \A p \in Ops : Alike(p)
    PROVE  UNCHANGED <<served, doomed, refused, outcome>>
<1>1. served' = served
  BY AlikeServed DEF served
<1>2. doomed' = doomed /\ refused' = refused
  BY AlikeFacts DEF doomed, refused, Started
<1>3. outcome' = outcome
  BY DEF outcome, Alike
<1> QED
  BY <1>1, <1>2, <1>3

(* When all but one do, only its traces change.                            *)
LEMMA OthersAlike ==
    ASSUME NEW o \in Ops, \A p \in Ops \ {o} : Alike(p)
    PROVE  /\ doomed' = (doomed \ {o}) \cup {p \in {o} : p \in doomed'}
           /\ refused' = (refused \ {o}) \cup {p \in {o} : p \in refused'}
           /\ outcome' = [outcome EXCEPT ![o] = Told(o)']
<1>1. \A p \in Ops \ {o} : /\ p \in doomed' <=> p \in doomed
                           /\ p \in refused' <=> p \in refused
                           /\ Told(p)' = Told(p)
  BY AlikeFacts DEF Alike
<1>2. /\ doomed \subseteq Ops /\ refused \subseteq Ops
      /\ doomed' \subseteq Ops /\ refused' \subseteq Ops
  BY DEF doomed, refused, Started
<1>3. outcome' = [outcome EXCEPT ![o] = Told(o)']
  BY <1>1 DEF outcome
<1> QED
  BY <1>1, <1>2, <1>3

-----------------------------------------------------------------------------
(* No connection but c changes.                                            *)
Only(c) ==
    \A d \in Connectors \ {c} :
        impl'[d] = impl[d] /\ mysql'[d] = mysql[d] /\ lib'[d] = lib[d]

(* That is what CancellableOps asks.                                       *)
LEMMA OnlyTouches ==
    ASSUME NEW c \in Connectors, Only(c)
    PROVE  Promise!Touch(c)
BY DEF Only, Promise!Touch, state

(* A connection without a valid operation serves nobody.                   *)
LEMMA NobodyServed ==
    ASSUME MInv, NEW c \in Connectors,
           \A p \in Ops : op[p].conn = c => ~Valid(p)
    PROVE  served[c] = None
BY ServedOne DEF ServedInv, served

(* A call of the user that leaves the operations alone.                    *)
LEMMA UseStep ==
    ASSUME MInv, NEW c \in Connectors, op' = op, running = None,
           running' = running, Only(c),
           \A p \in Ops : op[p].conn = c => ~Valid(p)
    PROVE  Promise!Use(c)
<1>1. UNCHANGED <<served, doomed, refused, outcome>>
  BY AllAlike DEF Alike, Told
<1>2. Promise!Touch(c) /\ served[c] = None
  BY OnlyTouches, NobodyServed
<1> QED
  BY <1>1, <1>2 DEF Promise!Use

(* open() is called on a connection that is closed, and no valid operation *)
(* has a closed one.                                                       *)
LEMMA OpenStep ==
    ASSUME MInv, NEW c \in Connectors, open(c)
    PROVE  Promise!Use(c)
<1>1. op' = op /\ running' = running /\ running = None /\ ~impl[c].initialized
  BY DEF open, MayCall
<1>2. Only(c)
  BY DEF Only, open, MInv, TypeOK
<1>3. \A p \in Ops : op[p].conn = c => ~Valid(p)
  BY <1>1 DEF MInv, OpInv, OneOp, CallInv
<1> QED
  BY <1>1, <1>2, <1>3, UseStep

(* The blocking functions are called when no valid operation is left.      *)
LEMMA BlockingStep ==
    ASSUME MInv, NEW c \in Connectors,
           \/ \E flags \in Flags : connect(c, flags)
           \/ query(c) \/ store_result(c) \/ set_option(c)
           \/ autocommit(c) \/ commit(c) \/ rollback(c)
    PROVE  Promise!Use(c)
<1>1. \E outcomes : Blocking(c, outcomes)
  BY DEF connect, query, store_result, set_option, autocommit, commit, rollback,
         Checked, Unchecked
<1>2. PICK outcomes : Blocking(c, outcomes)
  BY <1>1
<1>3. op' = op /\ running' = running /\ running = None
  BY <1>2 DEF Blocking, MayBlock, MayUse, MayCall
<1>4. Only(c)
  BY <1>2 DEF Only, Blocking, MInv, TypeOK
<1>5. \A p \in Ops : op[p].conn = c => ~Valid(p)
  BY <1>2 DEF Blocking, MayBlock, MayUse, Valid, Active, InFlight
<1> QED
  BY <1>3, <1>4, <1>5, UseStep

-----------------------------------------------------------------------------
(* cancel(), close() and the destructor doom the operation that is served. *)
LEMMA CancelAll ==
    ASSUME MInv, NEW c \in Connectors, running = None, running' = running,
           Only(c),
           \A p \in Ops : op[p].conn # c => op'[p] = op[p],
           \A p \in Ops : op[p].conn = c =>
              /\ op'[p].conn = c
              /\ op'[p].st \in Active <=> op[p].st \in Active
              /\ op[p].st \in Active => op'[p].cancelled # "no"
              /\ op[p].st \notin Active => op'[p] = op[p]
    PROVE  Promise!Cancel(c)
<1>1. \A p \in Ops : op[p].conn # c => Alike(p)
  BY DEF Alike, Told
<1>2. \A p \in Ops : op[p].st \notin Active => Alike(p)
  BY <1>1 DEF Alike, Told
<1>3. \A p \in Ops : Told(p)' = Told(p) /\ (p \in refused' <=> p \in refused)
  BY <1>1, <1>2 DEF Alike, Told, Active, refused
<1>4. outcome' = outcome /\ refused' = refused
  BY <1>3 DEF outcome, refused
<1>5. ServedBy(c)' = {}
  BY DEF ServedBy, Started, Active
<1>6. Served(c)' = None
  BY <1>5 DEF Served
<1>7. \A d \in Connectors \ {c} : Served(d)' = Served(d)
  BY <1>1, AlikeServed
<1>8. served' = [served EXCEPT ![c] = None]
  BY <1>6, <1>7 DEF served
<1>9. {Served(c)} \ {None} = ServedBy(c)
  <2>1. CASE \A p \in Ops : op[p].conn = c => ~Valid(p)
    BY <2>1, ServedOne DEF ServedInv
  <2>2. ASSUME NEW p \in Ops, op[p].conn = c, Valid(p)
        PROVE  {Served(c)} \ {None} = ServedBy(c)
    BY <2>2, ServedOne, NoneAssumption DEF ServedInv
  <2> QED
    BY <2>1, <2>2
<1>10. ASSUME NEW p \in Ops
       PROVE  p \in doomed' <=> p \in doomed \cup ServedBy(c)
  <2>1. CASE op[p].conn # c \/ op[p].st \notin Active
    <3>1. p \notin ServedBy(c)
      BY <2>1 DEF ServedBy, Started, Active
    <3> QED
      BY <1>1, <1>2, <2>1, <3>1, AlikeFacts
  <2>2. CASE op[p].conn = c /\ op[p].st \in Active
    BY <2>2 DEF doomed, ServedBy, Started, Active
  <2> QED
    BY <2>1, <2>2
<1>11. doomed' = doomed \cup ServedBy(c)
  BY <1>10 DEF doomed, ServedBy, Started
<1>12. served[c] = Served(c)
  BY DEF served
<1>13. Promise!Touch(c)
  BY OnlyTouches
<1> QED
  BY <1>4, <1>8, <1>9, <1>11, <1>12, <1>13 DEF Promise!Cancel

(* cancel() marks what is in flight, and leaves its stage alone.           *)
LEMMA CancelStep ==
    ASSUME MInv, NEW c \in Connectors, cancel(c)
    PROVE  Promise!Cancel(c)
<1>1. running = None /\ running' = running
  BY DEF cancel, MayCall
<1>2. Only(c)
  BY DEF Only, cancel, MInv, TypeOK
<1>3. \A p \in Ops : op[p].conn # c => op'[p] = op[p]
  BY DEF cancel
<1>4. ASSUME NEW p \in Ops, op[p].conn = c
      PROVE  /\ op'[p].conn = c
             /\ op'[p].st \in Active <=> op[p].st \in Active
             /\ op[p].st \in Active => op'[p].cancelled # "no"
             /\ op[p].st \notin Active => op'[p] = op[p]
  <2>1. op'[p] = Cancelled(op[p], "cancel") /\ op[p] \in Operation
    BY <1>4 DEF cancel, MInv, TypeOK
  <2>2. op[p].st \notin Active => op'[p] = op[p]
    BY <2>1 DEF Cancelled, InFlight, Active
  <2> QED
    BY <1>4, <2>1, <2>2, CancelledFacts
<1> QED
  BY <1>1, <1>2, <1>3, <1>4, CancelAll

(* close() and the destructor wake it as well.                             *)
LEMMA CloseStep ==
    ASSUME MInv, NEW c \in Connectors, close(c) \/ destroy(c)
    PROVE  Promise!Cancel(c)
<1>1. running = None
  BY DEF close, destroy, MayCall
<1>2. PICK alive : Close(c, alive)
  BY DEF close, destroy
<1>3. running' = running /\ Only(c)
  BY <1>2 DEF Only, Close, MInv, TypeOK
<1>4. \A p \in Ops : op[p].conn # c => op'[p] = op[p]
  BY <1>2 DEF Close
<1>5. ASSUME NEW p \in Ops, op[p].conn = c
      PROVE  /\ op'[p].conn = c
             /\ op'[p].st \in Active <=> op[p].st \in Active
             /\ op[p].st \in Active => op'[p].cancelled # "no"
             /\ op[p].st \notin Active => op'[p] = op[p]
  <2> DEFINE q == Cancelled(op[p], "close")
  <2>1. op'[p] = Woken(q) /\ op[p] \in Operation
    BY <1>2, <1>5 DEF Close, MInv, TypeOK
  <2>2. op[p].st \notin Active => q = op[p]
    BY DEF Cancelled, InFlight, Active
  <2>3. /\ q \in Operation /\ q.st = op[p].st /\ q.conn = op[p].conn
        /\ op[p].st \in Active => q.cancelled = "close"
    BY <2>1, CancelledFacts
  <2>4. q.st \notin Active => Woken(q) = q
    BY DEF Woken, Active
  <2> HIDE DEF q
  <2>5. /\ op'[p].st = IF q.st = "waiting" THEN "ready" ELSE q.st
        /\ op'[p].conn = q.conn /\ op'[p].cancelled = q.cancelled
    BY <2>1, <2>3, WokenFacts
  <2> QED
    BY <1>5, <2>1, <2>2, <2>3, <2>4, <2>5 DEF Active
<1> QED
  BY <1>1, <1>3, <1>4, <1>5, CancelAll

-----------------------------------------------------------------------------
(* An operation that was not started leaves no trace.                      *)
LEMMA FreshUnused ==
    ASSUME MInv, NEW o \in Ops, op[o].st = "fresh"
    PROVE  Promise!Unused(o)
<1>1. ~Valid(o)
  BY DEF Valid, Active
<1>2. ASSUME NEW c \in Connectors PROVE Served(c) # o
  <2>1. CASE \A p \in Ops : op[p].conn = c => ~Valid(p)
    BY <2>1, ServedOne, NoneAssumption DEF ServedInv
  <2>2. ASSUME NEW p \in Ops, op[p].conn = c, Valid(p) PROVE Served(c) # o
    BY <1>1, <2>2, ServedOne DEF ServedInv
  <2> QED
    BY <2>1, <2>2
<1>3. \A c \in Connectors : served[c] # o
  BY <1>2 DEF served
<1>4. o \notin doomed \cup refused /\ outcome[o] = "none"
  BY DEF doomed, refused, Started, outcome, Told
<1> QED
  BY <1>3, <1>4 DEF Promise!Unused

(* An operation that is started is served, or refused.                     *)
LEMMA StartStep ==
    ASSUME MInv, MInv', NEW o \in Ops, NEW c \in Connectors, MayStart(o, c),
           NEW q, op' = [op EXCEPT ![o] = q], q.conn = c, q.cancelled = "no",
           \/ q.st = "running" /\ running' = o
           \/ q.st = "posted" /\ running' = running,
           Only(c)
    PROVE  Promise!Serve(o, c) \/ Promise!Refuse(o, c)
<1>1. running = None /\ op[o].st = "fresh"
  BY DEF MayStart, MayUse, MayCall
<1>2. Promise!Unused(o) /\ Promise!Touch(c)
  BY <1>1, FreshUnused, OnlyTouches
<1>3. \A p \in Ops : op[p].conn = c => ~Valid(p)
  BY DEF MayStart, MayUse, Valid, Active, InFlight
<1>4. served[c] = None /\ ServedBy(c) = {}
  BY <1>3, NobodyServed, ServedOne DEF ServedInv
<1>5. op'[o] = q /\ \A p \in Ops \ {o} : op'[p] = op[p]
  BY DEF MInv, TypeOK
<1>6. \A p \in Ops \ {o} : Alike(p)
  BY <1>5 DEF Alike, Told
<1>7. Told(o)' = "none" /\ Told(o) = "none" /\ o \notin doomed'
      /\ o \notin doomed /\ o \notin refused
  BY <1>1, <1>5 DEF Told, doomed, refused, Started
<1>8. doomed' = doomed
  BY <1>6, <1>7, OthersAlike
<1>9. outcome' = outcome
  BY <1>6, <1>7 DEF outcome, Alike
<1>10. \A d \in Connectors \ {c} : Served(d)' = Served(d)
  <2>1. ASSUME NEW d \in Connectors \ {c}
        PROVE  Served(d)' = Served(d)
    <3>1. \A p \in Ops : p \in ServedBy(d)' <=> p \in ServedBy(d)
      BY <1>1, <1>5 DEF ServedBy, Started
    <3>2. ServedBy(d)' = ServedBy(d)
      BY <3>1 DEF ServedBy, Started
    <3> QED
      BY <3>2 DEF Served
  <2> QED
    BY <2>1
<1>11. CASE q.st = "running" /\ running' = o
  <2>1. o \notin refused'
    BY <1>5, <1>11 DEF refused
  <2>2. refused' = refused
    BY <1>6, <1>7, <2>1, OthersAlike
  <2>3. ServedBy(c)' = {o}
    <3>1. \A p \in Ops : p \in ServedBy(c)' <=> p = o
      BY <1>4, <1>5, <1>11 DEF ServedBy, Started
    <3> QED
      BY <3>1 DEF ServedBy, Started
  <2>4. Served(c)' = o
    BY <2>3 DEF Served
  <2>5. served' = [served EXCEPT ![c] = o]
    BY <1>10, <2>4 DEF served
  <2>6. Promise!Serve(o, c)
    BY <1>1, <1>2, <1>4, <1>8, <1>9, <1>11, <2>2, <2>5 DEF Promise!Serve
  <2> QED
    BY <2>6
<1>12. CASE q.st = "posted" /\ running' = running
  <2>1. o \in refused'
    BY <1>5, <1>12 DEF refused
  <2>2. refused' = refused \cup {o}
    BY <1>6, <1>7, <2>1, OthersAlike
  <2>3. ServedBy(c)' = {}
    <3>1. \A p \in Ops : p \notin ServedBy(c)'
      BY <1>4, <1>5, <1>12 DEF ServedBy, Started
    <3> QED
      BY <3>1 DEF ServedBy, Started
  <2>4. Served(c)' = None /\ Served(c) = None
    BY <1>4, <2>3 DEF Served
  <2>5. served' = served
    BY <1>10, <2>4 DEF served
  <2>6. Promise!Refuse(o, c)
    BY <1>1, <1>2, <1>4, <1>8, <1>9, <1>12, <2>2, <2>5 DEF Promise!Refuse
  <2> QED
    BY <2>6
<1> QED
  BY <1>11, <1>12

(* The async_ functions.                                                   *)
LEMMA AsyncStep ==
    ASSUME MInv, MInv', NEW o \in Ops, NEW c \in Connectors,
           \/ \E flags \in Flags : async_connect(o, c, flags)
           \/ \E kind \in Kinds : AsyncOnOpen(o, c, kind)
    PROVE  Promise!Serve(o, c) \/ Promise!Refuse(o, c)
<1>1. MayStart(o, c)
  BY DEF async_connect, AsyncOnOpen
<1>2. Only(c)
  BY DEF Only, async_connect, AsyncOnOpen, MInv, TypeOK
<1>3. \E kind, flags, ec :
         \/ Start(o, c, kind, flags)
         \/ PostError(o, c, kind, ec)
  BY DEF async_connect, AsyncOnOpen
<1>4. ASSUME NEW kind, NEW flags, NEW st, NEW ec, NEW q,
             q = NewState(c, kind, flags, st, ec)
      PROVE  q.conn = c /\ q.cancelled = "no" /\ q.st = st
  BY <1>4 DEF NewState, NewOperation
<1>5. ASSUME NEW kind, NEW flags, Start(o, c, kind, flags)
      PROVE  Promise!Serve(o, c) \/ Promise!Refuse(o, c)
  <2> DEFINE q == NewState(c, kind, flags, "running", "ok")
  <2>1. op' = [op EXCEPT ![o] = q] /\ running' = o
    BY <1>5 DEF Start
  <2>2. q.conn = c /\ q.cancelled = "no" /\ q.st = "running"
    BY <1>4
  <2> HIDE DEF q
  <2> QED
    BY <1>1, <1>2, <2>1, <2>2, StartStep
<1>6. ASSUME NEW kind, NEW ec, PostError(o, c, kind, ec)
      PROVE  Promise!Serve(o, c) \/ Promise!Refuse(o, c)
  <2> DEFINE no == FALSE
             q == NewState(c, kind, no, "posted", ec)
  <2>1. op' = [op EXCEPT ![o] = q] /\ running' = running
    BY <1>6 DEF PostError
  <2> HIDE DEF no
  <2>2. q.conn = c /\ q.cancelled = "no" /\ q.st = "posted"
    BY <1>4
  <2> HIDE DEF q
  <2> QED
    BY <1>1, <1>2, <2>1, <2>2, StartStep
<1> QED
  BY <1>3, <1>5, <1>6

-----------------------------------------------------------------------------
(* A step of the operation a connection serves.                            *)
LEMMA ServedStep ==
    ASSUME MInv, NEW o \in Ops, Proceeds(o), NEW c, c = op[o].conn, Only(c),
           \A p \in Ops \ {o} : Alike(p), op'[o].conn = c,
           op'[o].cancelled = "no",
           \/ op'[o].st \in Active /\ running' \in {o, None}
           \/ op'[o].st = "done" /\ op'[o].ec # "aborted" /\ running' = None
    PROVE  Promise!Work(c) \/ Promise!Answer(c)
<1>1. /\ running = o /\ op[o].st = "running" /\ Valid(o) /\ c \in Connectors
      /\ op[o].cancelled = "no"
  BY ProceedsFacts
<1>2. Promise!Touch(c) /\ running # None
  BY <1>1, OnlyTouches, NoneAssumption
<1>3. Served(c) = o /\ ServedBy(c) = {o}
  BY <1>1, ServedOne DEF ServedInv
<1>4. served[c] = running
  BY <1>1, <1>3 DEF served
<1>5. CASE op'[o].st \in Active /\ running' \in {o, None}
  <2>1. Alike(o)
    BY <1>1, <1>5 DEF Alike, Active, Told
  <2>2. UNCHANGED <<served, doomed, refused, outcome>>
    BY <2>1, AllAlike
  <2>3. Promise!Work(c)
    BY <1>1, <1>2, <1>4, <1>5, <2>2 DEF Promise!Work
  <2> QED
    BY <2>3
<1>6. CASE op'[o].st = "done" /\ op'[o].ec # "aborted" /\ running' = None
  <2>1. /\ o \notin doomed /\ o \notin refused
        /\ o \notin doomed' /\ o \notin refused' /\ Told(o)' = "answered"
    BY <1>1, <1>6 DEF doomed, refused, Started, Told
  <2>2. doomed' = doomed /\ refused' = refused
    BY <2>1, OthersAlike
  <2>3. outcome' = [outcome EXCEPT ![o] = "answered"]
    BY <2>1, OthersAlike
  <2>4. ServedBy(c)' = {}
    <3>1. \A p \in Ops \ {o} : p \notin ServedBy(c)'
      BY <1>3, AlikeFacts
    <3>2. o \notin ServedBy(c)'
      BY <1>6 DEF ServedBy, Started
    <3> QED
      BY <3>1, <3>2 DEF ServedBy, Started
  <2>5. Served(c)' = None
    BY <2>4 DEF Served
  <2>6. \A d \in Connectors \ {c} : Served(d)' = Served(d)
    BY AlikeServed
  <2>7. served' = [served EXCEPT ![c] = None]
    BY <2>5, <2>6 DEF served
  <2>8. Promise!Answer(c)
    BY <1>1, <1>2, <1>4, <1>6, <2>2, <2>3, <2>7 DEF Promise!Answer
  <2> QED
    BY <2>8
<1> QED
  BY <1>5, <1>6

(* The handler of the operation is invoked, in one way or another.         *)
LEMMA InvokeStep ==
    ASSUME MInv, NEW o \in Ops, Proceeds(o), NEW c, c = op[o].conn, Only(c),
           NEW ec, ec \in ErrorCodes \ {"aborted"}, Invoke(o, ec)
    PROVE  Promise!Work(c) \/ Promise!Answer(c)
<1>1. running = o /\ op[o].cancelled = "no" /\ ec \in ErrorCodes
  BY ProceedsFacts
<1>2. /\ running' = None /\ op'[o].st = "done" /\ op'[o].ec = ec
      /\ op'[o].conn = op[o].conn /\ op'[o].cancelled = op[o].cancelled
      /\ \A p \in Ops \ {o} : op'[p] = op[p]
  BY <1>1, InvokeFacts DEF MInv
<1>3. \A p \in Ops \ {o} : Alike(p)
  BY <1>2 DEF Alike, Told
<1> QED
  BY <1>1, <1>2, <1>3, ServedStep

(* A call came back: the operation is finished, goes on or waits.  With an *)
(* event to wait for it is not lost.                                       *)
LEMMA ReturnedStep ==
    ASSUME MInv, WaitsAreAwaited, NEW o \in Ops, Proceeds(o),
           NEW c, c = op[o].conn, NEW call \in Calls, NEW i,
           NEW r \in Answer, Waiting(mysql[c], r), Returned(o, i, call, r)
    PROVE  Promise!Work(c) \/ Promise!Answer(c)
<1>1. /\ running = o /\ op[o].st = "running" /\ c \in Connectors
      /\ op[o] \in Operation /\ op[o].cancelled = "no"
  BY ProceedsFacts
<1>2. Only(c)
  BY <1>1 DEF Only, Returned, MInv, TypeOK
<1>3. r.ec \in {"ok", "client"} /\ (r.status # finish => r.status \in Waits)
  BY DEF Answer, Waiting
<1>4. \/ r.ec # "ok" /\ Invoke(o, r.ec)
      \/ r.status # finish /\ \E D : async_wait_mysql(o, r.status, call, D)
      \/ /\ op' = [op EXCEPT ![o].step = "S_STORE_START", ![o].waits = 0]
         /\ running' = running
      \/ \E ec \in IF call = "store" THEN Assigned(r.h, r.res) ELSE {"ok"} :
            Invoke(o, ec)
  BY DEF Returned
<1>5. ASSUME NEW ec, ec \in {"ok", "client"}, Invoke(o, ec)
      PROVE  Promise!Work(c) \/ Promise!Answer(c)
  <2>1. ec \in ErrorCodes \ {"aborted"}
    BY <1>5 DEF ErrorCodes
  <2> QED
    BY <1>2, <1>5, <2>1, InvokeStep
<1>6. CASE r.ec # "ok" /\ Invoke(o, r.ec)
  BY <1>3, <1>5, <1>6
<1>7. CASE \E ec \in IF call = "store" THEN Assigned(r.h, r.res) ELSE {"ok"} :
              Invoke(o, ec)
  <2>1. PICK ec \in IF call = "store" THEN Assigned(r.h, r.res) ELSE {"ok"} :
              Invoke(o, ec)
    BY <1>7
  <2>2. ec \in {"ok", "client"}
    BY <2>1 DEF Assigned, mysql_fetch_row, error_wrapper
  <2> QED
    BY <1>5, <2>1, <2>2
<1>8. CASE /\ op' = [op EXCEPT ![o].step = "S_STORE_START", ![o].waits = 0]
           /\ running' = running
  <2> DEFINE q == [op[o] EXCEPT !.step = "S_STORE_START", !.waits = 0]
  <2>1. op' = [op EXCEPT ![o] = q]
    BY <1>8 DEF MInv, TypeOK
  <2>2. q.st = op[o].st /\ q.conn = op[o].conn /\ q.cancelled = op[o].cancelled
    BY <1>1 DEF Operation
  <2> HIDE DEF q
  <2>3. op'[o] = q /\ \A p \in Ops \ {o} : op'[p] = op[p]
    BY <2>1 DEF MInv, TypeOK
  <2>4. \A p \in Ops \ {o} : Alike(p)
    BY <2>3 DEF Alike, Told
  <2>5. op'[o].st \in Active /\ op'[o].conn = c /\ op'[o].cancelled = "no"
    BY <1>1, <2>2, <2>3 DEF Active
  <2> QED
    BY <1>1, <1>2, <1>8, <2>4, <2>5, ServedStep
<1>9. CASE r.status # finish /\ \E D : async_wait_mysql(o, r.status, call, D)
  <2>1. PICK D : async_wait_mysql(o, r.status, call, D)
    BY <1>9
  <2>2. Awaited(r.status) # None
    BY <1>3, <1>9 DEF WaitsAreAwaited
  <2>3. /\ running' = None
        /\ op'[o] = [op[o] EXCEPT !.st = "waiting", !.wait = Awaited(r.status),
                        !.mask = r.status, !.waits = @ + 1,
                        !.step = Continue(call)]
        /\ \A p \in Ops \ {o} : op'[p] = op[p] \/ op'[p] = Woken(op[p])
    BY <2>1, <2>2 DEF async_wait_mysql
  <2>4. op'[o].st = "waiting" /\ op'[o].conn = c /\ op'[o].cancelled = "no"
    BY <1>1, <2>3 DEF Operation
  <2>5. ASSUME NEW p \in Ops \ {o} PROVE Alike(p)
    <3>1. CASE op'[p] = op[p]
      BY <3>1 DEF Alike, Told
    <3>2. CASE op'[p] = Woken(op[p])
      <4>1. op[p] \in Operation
        BY DEF MInv, TypeOK
      <4>2. CASE op[p].st = "waiting"
        <5>1. /\ op'[p].st = "ready" /\ op'[p].conn = op[p].conn
              /\ op'[p].cancelled = op[p].cancelled
          BY <3>2, <4>1, <4>2, WokenFacts
        <5> QED
          BY <4>2, <5>1 DEF Alike, Active, Told
      <4>3. CASE op[p].st # "waiting"
        BY <3>1, <3>2, <4>3 DEF Woken
      <4> QED
        BY <4>2, <4>3
    <3> QED
      BY <2>3, <3>1, <3>2
  <2> QED
    BY <1>2, <2>3, <2>4, <2>5, ServedStep DEF Active
<1> QED
  BY <1>4, <1>6, <1>7, <1>8, <1>9

(* A call that is started.                                                 *)
LEMMA StartCallStep ==
    ASSUME MInv, WaitsAreAwaited, NEW o \in Ops, Proceeds(o),
           NEW c, c = op[o].conn, NEW call \in Calls, NEW i,
           StartCall(o, i, call)
    PROVE  Promise!Work(c) \/ Promise!Answer(c)
<1>1. /\ mysql[c] \in Handle
      /\ op[o].flags \in BOOLEAN /\ MayWait(o) \in BOOLEAN
  BY ProceedsFacts
<1>2. PICK r \in IF lib[c] # None THEN mysql_start_busy(mysql[c])
                 ELSE mysql_start(call, mysql[c], op[o].flags, MayWait(o)) :
          Returned(o, i, call, r)
  BY DEF StartCall
<1>3. r \in Answer /\ Waiting(mysql[c], r)
  <2>1. CASE lib[c] # None
    BY <1>1, <1>2, <2>1, BusyType DEF Waiting
  <2>2. CASE lib[c] = None
    BY <1>1, <1>2, <2>2, StartType
  <2> QED
    BY <2>1, <2>2
<1> QED
  BY <1>2, <1>3, ReturnedStep

(* The steps of operator().                                                *)
LEMMA OperatorStep ==
    ASSUME MInv, WaitsAreAwaited, NEW o \in Ops, Step(o)
    PROVE  \/ Promise!Abort(o)
           \/ \E c \in Connectors : Promise!Work(c) \/ Promise!Answer(c)
<1> DEFINE c == op[o].conn
<1>1. Proceeds(o) => c \in Connectors
  BY ProceedsFacts
<1>2. CASE Abort(o)
  <2>1. running = o /\ op[o].st = "running" /\ Invoke(o, "aborted")
        /\ UNCHANGED <<impl, mysql, lib>>
    BY <1>2 DEF Abort, MInv, TypeOK
  <2>2. op[o].cancelled # "no"
    BY <1>2, <2>1 DEF Abort, MInv, OpInv, OneOp, TokenInv, Active
  <2>3. "aborted" \in ErrorCodes
    BY DEF ErrorCodes
  <2>4. /\ running' = None /\ op'[o].st = "done" /\ op'[o].ec = "aborted"
        /\ op'[o].conn = op[o].conn /\ op'[o].cancelled = op[o].cancelled
        /\ \A p \in Ops \ {o} : op'[p] = op[p]
    BY <2>1, <2>3, InvokeFacts DEF MInv
  <2>5. \A p \in Ops \ {o} : Alike(p)
    BY <2>4 DEF Alike, Told
  <2>6. /\ o \in doomed /\ o \notin doomed'
        /\ o \notin refused /\ o \notin refused' /\ Told(o)' = "aborted"
    BY <2>1, <2>2, <2>4 DEF doomed, refused, Started, Told
  <2>7. /\ doomed' = doomed \ {o} /\ refused' = refused
        /\ outcome' = [outcome EXCEPT ![o] = "aborted"]
    BY <2>5, <2>6, OthersAlike
  <2>8. ASSUME NEW d \in Connectors PROVE Served(d)' = Served(d)
    <3>1. \A p \in Ops : p \in ServedBy(d)' <=> p \in ServedBy(d)
      BY <2>2, <2>4, <2>5, AlikeFacts DEF ServedBy, Started
    <3>2. ServedBy(d)' = ServedBy(d)
      BY <3>1 DEF ServedBy, Started
    <3> QED
      BY <3>2 DEF Served
  <2>9. served' = served
    BY <2>8 DEF served
  <2>10. state' = state
    BY <2>1 DEF state
  <2> QED
    BY <2>1, <2>4, <2>6, <2>7, <2>9, <2>10 DEF Promise!Abort
<1>3. CASE StoreStart(o)
  <2>1. PICK i : Proceeds(o) /\ StartCall(o, i, "store") /\ "store" \in Calls
    BY <1>3 DEF StoreStart, Calls
  <2> QED
    BY <1>1, <2>1, StartCallStep
<1>4. ASSUME NEW call \in Calls, Cont(o, call)
      PROVE  Promise!Work(c) \/ Promise!Answer(c)
  <2>1. Proceeds(o)
    BY <1>4 DEF Cont
  <2>2. PICK r \in mysql_continue(call, mysql[c], op[o].flags, MayWait(o)) :
              Returned(o, impl[c], call, r)
    BY <1>4 DEF Cont
  <2>3. /\ mysql[c] \in Handle
        /\ op[o].flags \in BOOLEAN /\ MayWait(o) \in BOOLEAN
    BY <2>1, ProceedsFacts
  <2>4. r \in Answer /\ Waiting(mysql[c], r)
    BY <2>3, ContinueType
  <2> QED
    BY <2>1, <2>2, <2>4, ReturnedStep
<1>5. CASE Entry(o)
  <2> DEFINE f == [impl[c] EXCEPT !.last_result = FALSE]
  <2>1. Proceeds(o) /\ c \in Connectors
    BY <1>1, <1>5 DEF Entry
  <2>2. \/ \E i, call : call \in Calls /\ StartCall(o, i, call)
        \/ /\ impl' = [impl EXCEPT ![c].first_result_stored = TRUE]
           /\ op' = [op EXCEPT ![o].step = "S_STORE_START"]
           /\ UNCHANGED <<mysql, lib, desc, running, usage>>
        \/ /\ Invoke(o, "no_more_results")
           /\ impl' = [impl EXCEPT ![c] = f]
           /\ UNCHANGED <<mysql, lib, desc, usage>>
    BY <1>5 DEF Entry, Calls
  <2> HIDE DEF f
  <2>3. ASSUME NEW i, NEW call, call \in Calls, StartCall(o, i, call)
        PROVE  Promise!Work(c) \/ Promise!Answer(c)
    BY <2>1, <2>3, StartCallStep
  <2>4. CASE /\ impl' = [impl EXCEPT ![c].first_result_stored = TRUE]
             /\ op' = [op EXCEPT ![o].step = "S_STORE_START"]
             /\ UNCHANGED <<mysql, lib, desc, running, usage>>
    <3> DEFINE q == [op[o] EXCEPT !.step = "S_STORE_START"]
    <3>1. op' = [op EXCEPT ![o] = q] /\ Only(c)
      BY <2>4 DEF MInv, TypeOK, Only
    <3>2. /\ q.st = op[o].st /\ q.conn = op[o].conn
          /\ q.cancelled = op[o].cancelled
      BY DEF MInv, TypeOK, Operation
    <3> HIDE DEF q
    <3>3. op'[o] = q /\ \A p \in Ops \ {o} : op'[p] = op[p]
      BY <3>1 DEF MInv, TypeOK
    <3>4. \A p \in Ops \ {o} : Alike(p)
      BY <3>3 DEF Alike, Told
    <3>5. /\ op'[o].st \in Active /\ op'[o].conn = c /\ op'[o].cancelled = "no"
          /\ running' \in {o, None}
      BY <2>1, <2>4, <3>2, <3>3, ProceedsFacts DEF Active
    <3> HIDE DEF c
    <3> QED
      BY <2>1, <3>1, <3>4, <3>5, ServedStep DEF c
  <2>5. CASE /\ Invoke(o, "no_more_results")
             /\ impl' = [impl EXCEPT ![c] = f]
             /\ UNCHANGED <<mysql, lib, desc, usage>>
    <3>1. Only(c)
      BY <2>5 DEF Only, MInv, TypeOK
    <3>2. "no_more_results" \in ErrorCodes \ {"aborted"}
      BY DEF ErrorCodes
    <3> QED
      BY <2>1, <2>5, <3>1, <3>2, InvokeStep
  <2> QED
    BY <2>1, <2>2, <2>3, <2>4, <2>5
<1>6. ASSUME NEW call \in Calls, Cont(o, call) PROVE c \in Connectors
  BY <1>1, <1>6 DEF Cont
<1> QED
  BY <1>2, <1>3, <1>4, <1>5, <1>6 DEF Step

-----------------------------------------------------------------------------
(* The io_service wakes an operation unseen, resumes it, or runs the       *)
(* handler of one that was refused.                                        *)
LEMMA IoStepStep ==
    ASSUME MInv, NEW o \in Ops, IoStep(o) \/ SocketReady(o)
    PROVE  Promise!Resume(o) \/ Promise!Reply(o) \/ UNCHANGED Promise!vars
<1>1. op[o] \in Operation
  BY DEF MInv, TypeOK
<1>2. state' = state
  BY DEF state, IoStep, SocketReady, TimerExpires, Awake, Resume, RunPosted
<1>3. ASSUME NEW q, op' = [op EXCEPT ![o] = q], q.st \in Active,
             op[o].st \in Active, q.conn = op[o].conn,
             q.cancelled = op[o].cancelled
      PROVE  UNCHANGED <<served, doomed, refused, outcome>>
  <2>1. op'[o] = q /\ \A p \in Ops \ {o} : op'[p] = op[p]
    BY <1>3 DEF MInv, TypeOK
  <2>2. Alike(o)
    BY <1>3, <2>1 DEF Alike, Active, Told
  <2>3. \A p \in Ops \ {o} : Alike(p)
    BY <2>1 DEF Alike, Told
  <2> QED
    BY <2>2, <2>3, AllAlike
<1>4. CASE TimerExpires(o) \/ SocketReady(o)
  <2> DEFINE q == [op[o] EXCEPT !.st = "ready"]
  <2>1. op' = [op EXCEPT ![o] = q] /\ op[o].st = "waiting" /\ running' = running
    BY <1>4 DEF TimerExpires, SocketReady, Awake, MInv, TypeOK
  <2>2. /\ q.st = "ready" /\ q.conn = op[o].conn
        /\ q.cancelled = op[o].cancelled
    BY <1>1 DEF Operation
  <2> HIDE DEF q
  <2>3. UNCHANGED <<served, doomed, refused, outcome>>
    BY <1>3, <2>1, <2>2 DEF Active
  <2> QED
    BY <1>2, <2>1, <2>3 DEF Promise!vars
<1>5. CASE Resume(o)
  <2> DEFINE q == [op[o] EXCEPT !.st = "running", !.wait = None, !.mask = {}]
  <2>1. /\ op' = [op EXCEPT ![o] = q] /\ op[o].st = "ready"
        /\ running = None /\ running' = o
    BY <1>5 DEF Resume, MInv, TypeOK
  <2>2. /\ q.st = "running" /\ q.conn = op[o].conn
        /\ q.cancelled = op[o].cancelled
    BY <1>1 DEF Operation
  <2> HIDE DEF q
  <2>3. UNCHANGED <<served, doomed, refused, outcome>>
    BY <1>3, <2>1, <2>2 DEF Active
  <2>4. o \in doomed \/ \E c \in Connectors : served[c] = o
    <3>1. o \in Started /\ op[o].conn \in Connectors
      BY <2>1 DEF Started, MInv, OpInv, OneOp, StageInv, InFlight
    <3>2. CASE op[o].cancelled = "no"
      <4>1. Valid(o)
        BY <3>1, <3>2, StartedFacts
      <4>2. Served(op[o].conn) = o
        BY <3>1, <4>1, ServedOne DEF ServedInv
      <4> QED
        BY <3>1, <4>2 DEF served
    <3>3. CASE op[o].cancelled # "no"
      BY <3>1, <3>3 DEF doomed
    <3> QED
      BY <3>2, <3>3
  <2> QED
    BY <1>2, <2>1, <2>3, <2>4 DEF Promise!Resume
<1>6. CASE RunPosted(o)
  <2>1. /\ running = None /\ op[o].st = "posted" /\ Invoke(o, op[o].ec)
        /\ op[o].ec # "aborted" /\ op[o].ec \in ErrorCodes
    BY <1>1, <1>6 DEF RunPosted, MInv, OpInv, OneOp, StageInv, Operation
  <2>2. /\ running' = None /\ op'[o].st = "done" /\ op'[o].ec = op[o].ec
        /\ \A p \in Ops \ {o} : op'[p] = op[p]
    BY <2>1, InvokeFacts DEF MInv
  <2>3. \A p \in Ops \ {o} : Alike(p)
    BY <2>2 DEF Alike, Told
  <2>4. /\ o \notin doomed /\ o \notin doomed'
        /\ o \in refused /\ o \notin refused' /\ Told(o)' = "answered"
    BY <2>1, <2>2 DEF doomed, refused, Started, Told
  <2>5. /\ doomed' = doomed /\ refused' = refused \ {o}
        /\ outcome' = [outcome EXCEPT ![o] = "answered"]
    BY <2>3, <2>4, OthersAlike
  <2>6. ASSUME NEW d \in Connectors PROVE Served(d)' = Served(d)
    <3>1. \A p \in Ops : p \in ServedBy(d)' <=> p \in ServedBy(d)
      BY <2>1, <2>2, <2>3, AlikeFacts DEF ServedBy, Started
    <3>2. ServedBy(d)' = ServedBy(d)
      BY <3>1 DEF ServedBy, Started
    <3> QED
      BY <3>2 DEF Served
  <2>7. served' = served
    BY <2>6 DEF served
  <2> QED
    BY <1>2, <2>1, <2>2, <2>4, <2>5, <2>7 DEF Promise!Reply
<1> QED
  BY <1>4, <1>5, <1>6 DEF IoStep

-----------------------------------------------------------------------------
(* At first nothing is served, and nothing was told.                       *)
LEMMA InitPromise == Init => Promise!Init
<1> SUFFICES ASSUME Init PROVE Promise!Init
  OBVIOUS
<1>1. \A o \in Ops : op[o].st = "fresh"
  BY DEF Init, NewOperation
<1>2. Started = {} /\ refused = {}
  BY <1>1 DEF Started, refused
<1>3. doomed = {} /\ \A c : ServedBy(c) = {}
  BY <1>2 DEF doomed, ServedBy
<1>4. served = [c \in Connectors |-> None]
  BY <1>3 DEF served, Served
<1>5. outcome = [o \in Ops |-> "none"]
  BY <1>1 DEF outcome, Told
<1>6. running = None
  BY DEF Init
<1> QED
  BY <1>2, <1>3, <1>4, <1>5, <1>6 DEF Promise!Init

(* Every step is one of the promise, or is not seen.                       *)
LEMMA NextPromise ==
    ASSUME WaitsAreAwaited
    PROVE  MInv /\ MInv' /\ [Next]_vars => [Promise!Next]_(Promise!vars)
<1> SUFFICES ASSUME MInv, MInv', [Next]_vars
             PROVE  Promise!Next \/ UNCHANGED Promise!vars
  OBVIOUS
<1>1. CASE UNCHANGED vars
  <2>1. UNCHANGED <<served, doomed, refused, outcome>>
    BY <1>1, AllAlike DEF vars, Alike, Told
  <2>2. state' = state /\ running' = running
    BY <1>1 DEF vars, state
  <2> QED
    BY <2>1, <2>2 DEF Promise!vars
<1>2. ASSUME NEW c \in Connectors, UserStep(c) PROVE Promise!Next
  <2>1. CASE open(c)
    BY <2>1, OpenStep DEF Promise!Next
  <2>2. CASE cancel(c)
    BY <2>2, CancelStep DEF Promise!Next
  <2>3. CASE close(c) \/ destroy(c)
    BY <2>3, CloseStep DEF Promise!Next
  <2>4. CASE \/ \E flags \in Flags : connect(c, flags)
             \/ query(c) \/ store_result(c) \/ set_option(c)
             \/ autocommit(c) \/ commit(c) \/ rollback(c)
    BY <2>4, BlockingStep DEF Promise!Next
  <2>5. ASSUME NEW o \in Ops,
               \/ \E flags \in Flags : async_connect(o, c, flags)
               \/ async_query(o, c) \/ async_store_result(o, c)
               \/ async_query_result(o, c)
        PROVE  Promise!Next
    <3>1. \/ \E flags \in Flags : async_connect(o, c, flags)
          \/ \E kind \in Kinds : AsyncOnOpen(o, c, kind)
      BY <2>5 DEF async_query, async_store_result, async_query_result, Kinds
    <3> QED
      BY <3>1, AsyncStep DEF Promise!Next
  <2> QED
    BY <1>2, <2>1, <2>2, <2>3, <2>4, <2>5 DEF UserStep
<1>3. ASSUME NEW o \in Ops, Step(o) PROVE Promise!Next
  BY <1>3, OperatorStep DEF Promise!Next
<1>4. ASSUME NEW o \in Ops, IoStep(o) \/ SocketReady(o)
      PROVE  Promise!Next \/ UNCHANGED Promise!vars
  BY <1>4, IoStepStep DEF Promise!Next
<1> QED
  BY <1>1, <1>2, <1>3, <1>4 DEF Next

(* mariadb_service implements CancellableOps, for any connectors,          *)
(* operations, results, waits and cancels: the one valid operation of a    *)
(* connection is the only one that touches it, a cancelled one is told so  *)
(* and nothing else happens in its step, and every handler runs at most    *)
(* once.  The masks have to name an event that async_wait_mysql() waits    *)
(* for: with another mask the handler would be lost.                       *)
THEOREM PromiseIsKept ==
    ASSUME WaitsAreAwaited
    PROVE  Spec => ImplementsCancellableOps
<1>1. MInv /\ [Next]_vars => MInv'
  BY NextMInv
<1>2. MInv /\ MInv' /\ [Next]_vars => [Promise!Next]_(Promise!vars)
  BY NextPromise
<1> QED
  BY <1>1, <1>2, InitMInv, InitPromise, PTL
     DEF Spec, Promise!Spec, ImplementsCancellableOps
=============================================================================
