------------------------ MODULE MariaDBServiceProofs ------------------------
(***************************************************************************)
(* Proofs about mariadb_service, for any number of connectors, operations, *)
(* descriptor numbers, results, waits and cancels.                         *)
(***************************************************************************)
EXTENDS MariaDBService, BlockingCallsProofs

Conts == {Continue(k) : k \in Calls}

Active == {"running", "waiting", "ready"}

(* The operation has a step to come, and was not cancelled.                *)
Valid(o) == op[o].st \in Active /\ ~Expired(o)

(* The operation has to do with the call in the library: it waits for it,  *)
(* or will continue it.                                                    *)
Holds(o) == op[o].st = "waiting" \/ (Valid(o) /\ op[o].step \in Conts)

Sane(c) == usage[c] # "undefined"

(***************************************************************************)
(* One operation.                                                          *)
(***************************************************************************)
(* Where the operation belongs, and how it got its error.                  *)
StageInv(o) ==
    /\ op[o].st \in InFlight => op[o].conn \in Connectors
    /\ op[o].st \in {"waiting", "ready"} => op[o].step \in Conts
    /\ op[o].st = "posted" => op[o].ec # "aborted" /\ op[o].cancelled = "no"
    /\ op[o].st = "done" => (op[o].ec = "aborted" <=> op[o].cancelled # "no")

(* The token expires exactly when the operation is cancelled.              *)
TokenInv(o) ==
    op[o].st \in Active =>
        /\ op[o].cancelation_token <= impl[op[o].conn].cancelation_token
        /\ op[o].cancelled = "no" <=> ~Expired(o)
        /\ op[o].ec # "ok" => Expired(o)

(* An operation that is not cancelled finds its connection open, its call  *)
(* suspended with no error in mysql_errno(), and the handle connected      *)
(* unless the call is to connect it.                                       *)
CallInv(o) ==
    Valid(o) =>
        /\ impl[op[o].conn].alive /\ impl[op[o].conn].initialized
        /\ \A call \in Calls : op[o].step = Continue(call) =>
              /\ lib[op[o].conn] = call /\ ~mysql[op[o].conn].errno
              /\ call # "connect" => mysql[op[o].conn].st = "up"

(* A waiting operation waits for a suspended call.                         *)
WaitInv(o) ==
    op[o].st = "waiting" /\ Sane(op[o].conn) => lib[op[o].conn] # None

(* The reactor watches what the operation waits for.                       *)
KnownInv(o) ==
    /\ op[o].st = "waiting" /\ op[o].wait \in {"read", "write"}
    /\ ~desc[op[o].conn].reused /\ Sane(op[o].conn)
    => desc[op[o].conn].known

OneOp(o) ==
    StageInv(o) /\ TokenInv(o) /\ CallInv(o) /\ WaitInv(o) /\ KnownInv(o)

OpInv == \A o \in Ops : OneOp(o)

(* One operation of a connection is not cancelled, and one has to do with  *)
(* the call in the library.                                                *)
UniqueInv ==
    \A o, p \in Ops : op[o].conn = op[p].conn =>
        /\ Valid(o) /\ Valid(p) => o = p
        /\ Holds(o) /\ Holds(p) /\ Sane(op[o].conn) => o = p

(***************************************************************************)
(* Connectors and descriptors.                                             *)
(***************************************************************************)
(* A closed connection has no result state.                                *)
ResultInv ==
    \A c \in Connectors : ~impl[c].initialized /\ Sane(c) =>
        ~impl[c].last_result /\ ~impl[c].first_result_stored

(* The reactor knows a socket whose number ev_ holds, unless the number    *)
(* came back too early; no two sockets have a number, and no other ev_     *)
(* holds it.                                                               *)
Kept(D, c) ==
    /\ D[c].known => D[c].sock # None /\ D[c].ev = D[c].sock
    /\ D[c].sock # None /\ D[c].ev = D[c].sock /\ ~D[c].reused => D[c].known

Apart(D, c, d) ==
    D[c].sock # None => /\ D[d].sock # D[c].sock
                        /\ ~D[c].reused => D[d].ev # D[c].sock

Tidy(D) ==
    /\ \A c \in Connectors : Kept(D, c)
    /\ \A c, d \in Connectors : c # d => Apart(D, c, d)

DescInv == Tidy(desc)

MInv == TypeOK /\ OpInv /\ UniqueInv /\ ResultInv /\ DescInv

(* A call that is suspended in the library belongs to an operation that    *)
(* will continue it, unless the operation was cancelled or an error of an  *)
(* earlier call ended it.                                                  *)
OwnerInv ==
    \A c \in Connectors : lib[c] # None /\ usage[c] = "sound" =>
        \E o \in Ops : /\ Valid(o) /\ op[o].conn = c
                       /\ op[o].step = Continue(lib[c])

-----------------------------------------------------------------------------
(***************************************************************************)
(* The calls of the library.                                               *)
(***************************************************************************)
(* Each call has a step of its own, apart from the other two.              *)
LEMMA ContinueFacts ==
    /\ \A k \in Calls : /\ Continue(k) \in Steps /\ Continue(k) \in Conts
                         /\ Continue(k) \notin {"S_ENTRY", "S_STORE_START"}
    /\ \A k, l \in Calls : Continue(k) = Continue(l) => k = l
    /\ "S_ENTRY" \in Steps /\ "S_STORE_START" \in Steps
<1>1. \A k \in Calls : Continue(k) \in Steps /\ Continue(k) \in Conts
  BY DEF Steps, Conts
<1>2. \A k \in Calls : Continue(k) \notin {"S_ENTRY", "S_STORE_START"}
  BY DEF Calls, Continue
<1>3. \A k, l \in Calls : Continue(k) = Continue(l) => k = l
  BY DEF Calls, Continue
<1> QED
  BY <1>1, <1>2, <1>3 DEF Steps

(* What a start or a continuation returns.                                 *)
Answer == [h : Handle, ec : {"ok", "client"}, res : BOOLEAN,
           status : SUBSET Events]

(* A call that waits reports what mysql_errno() says and leaves the        *)
(* connection alone.                                                       *)
Waiting(h, r) ==
    r.status # finish => /\ r.ec = "ok" <=> ~r.h.errno
                         /\ r.status \in Waits /\ r.h.st = h.st

(* A finished call returns a handle and an error code.                     *)
LEMMA FinishedType ==
    ASSUME NEW h \in Handle, NEW outcomes \in SUBSET LibResult,
           NEW r \in Finished(outcomes)
    PROVE  r \in Answer /\ r.status = finish
<1>1. PICK o \in outcomes : r = [h |-> o.h, ec |-> error_wrapper(o.failed, o.h),
                                 res |-> o.res, status |-> finish]
  BY DEF Finished
<1>2. error_wrapper(o.failed, o.h) \in {"ok", "client"}
  BY DEF error_wrapper
<1>3. finish \in SUBSET Events
  BY DEF finish
<1> QED
  BY <1>1, <1>2, <1>3 DEF Answer, LibResult

(* While a call is suspended mysql_errno() is clear, or says what it said. *)
LEMMA ErrnoFacts ==
    ASSUME NEW h \in Handle, NEW call \in Calls, NEW e \in ErrnoOf(call, h)
    PROVE  e \in BOOLEAN /\ (e => h.errno)
BY DEF ErrnoOf, Calls, Handle

(* A suspended call has set mysql_errno() at most, and returns a mask.     *)
LEMMA SuspendedFacts ==
    ASSUME NEW h \in Handle, NEW call \in Calls, NEW r \in Suspended(call, h)
    PROVE  \E e \in BOOLEAN, w \in Waits :
              /\ e => h.errno
              /\ r = [h |-> [h EXCEPT !.errno = e],
                      ec |-> error_wrapper(TRUE, [h EXCEPT !.errno = e]),
                      res |-> FALSE, status |-> w]
BY ErrnoFacts DEF Suspended

(* A suspended call returns a mask, and an error only if there was one.    *)
LEMMA SuspendedType ==
    ASSUME NEW h \in Handle, NEW call \in Calls, NEW r \in Suspended(call, h)
    PROVE  /\ r \in Answer /\ Waiting(h, r)
           /\ ~h.errno => r.ec = "ok"
<1>1. PICK e \in BOOLEAN, w \in Waits :
         /\ e => h.errno
         /\ r = [h |-> [h EXCEPT !.errno = e],
                 ec |-> error_wrapper(TRUE, [h EXCEPT !.errno = e]),
                 res |-> FALSE, status |-> w]
  BY SuspendedFacts
<1> DEFINE s == [h EXCEPT !.errno = e]
<1>2. s \in Handle /\ s.st = h.st /\ s.errno = e
  BY DEF Handle
<1>3. w \in SUBSET Events
  BY WaitsAssumption
<1>4. r = [h |-> s, ec |-> error_wrapper(TRUE, s), res |-> FALSE, status |-> w]
  BY <1>1
<1> HIDE DEF s
<1>5. /\ error_wrapper(TRUE, s) \in {"ok", "client"}
      /\ error_wrapper(TRUE, s) = "ok" <=> ~e
  BY <1>2 DEF error_wrapper
<1> DEFINE x == error_wrapper(TRUE, s)
<1>6. r = [h |-> s, ec |-> x, res |-> FALSE, status |-> w]
  BY <1>4
<1>7. x \in {"ok", "client"} /\ (x = "ok" <=> ~e)
  BY <1>5
<1> HIDE DEF x
<1>8. r \in Answer
  BY <1>2, <1>3, <1>6, <1>7 DEF Answer
<1>9. r.h = s /\ r.ec = x /\ r.status = w
  BY <1>6
<1>10. e => h.errno
  BY <1>1
<1> QED
  BY <1>2, <1>7, <1>8, <1>9, <1>10 DEF Waiting

(* The outcomes of the call the operation makes are outcomes of the library.*)
LEMMA OutcomesType ==
    ASSUME NEW h \in Handle, NEW multi \in BOOLEAN, NEW call \in Calls
    PROVE  LibOutcomes(call, h, multi) \in SUBSET LibResult
<1>1. LibOutcomes(call, h, multi) \in {LibConnect(h, multi), LibQuery(h),
                                      LibStore(h), LibNext(h)}
  BY DEF LibOutcomes, Calls
<1> DEFINE O == LibOutcomes(call, h, multi)
<1> HIDE DEF O
<1>2. O \in {LibConnect(h, multi), LibQuery(h), LibStore(h), LibNext(h)}
  BY <1>1 DEF O
<1>3. O \in SUBSET LibResult
  BY <1>2, LibType
<1> QED
  BY <1>3 DEF O

(* A call waits only for a server: unless it connects, it is connected.    *)
LEMMA StartType ==
    ASSUME NEW h \in Handle, NEW multi \in BOOLEAN, NEW call \in Calls,
           NEW wait \in BOOLEAN, NEW r \in mysql_start(call, h, multi, wait)
    PROVE  /\ r \in Answer /\ Waiting(h, r)
           /\ r.status # finish /\ call # "connect" => h.st = "up"
<1>1. CASE r \in Finished(LibOutcomes(call, h, multi))
  BY <1>1, OutcomesType, FinishedType DEF Waiting
<1>2. CASE Blocks(call, h) /\ r \in Suspended(call, h)
  <2>1. call # "connect" => h.st = "up"
    BY <1>2 DEF Blocks, Calls
  <2> QED
    BY <1>2, <2>1, SuspendedType
<1> QED
  BY <1>1, <1>2 DEF mysql_start

(* A continued call finishes or waits again.                               *)
LEMMA ContinueType ==
    ASSUME NEW h \in Handle, NEW multi \in BOOLEAN, NEW call \in Calls,
           NEW wait \in BOOLEAN, NEW r \in mysql_continue(call, h, multi, wait)
    PROVE  /\ r \in Answer /\ Waiting(h, r)
           /\ r.status # finish /\ ~h.errno => r.ec = "ok"
<1>1. CASE r \in Finished(LibOutcomes(call, h, multi))
  BY <1>1, OutcomesType, FinishedType DEF Waiting
<1>2. CASE r \in Suspended(call, h)
  BY <1>2, SuspendedType
<1> QED
  BY <1>1, <1>2 DEF mysql_continue

(* A call on top of another one ends at once.                              *)
LEMMA BusyType ==
    ASSUME NEW h \in Handle, NEW r \in mysql_start_busy(h)
    PROVE  r \in Answer /\ r.status = finish
<1>1. LibUndefined(h) \in SUBSET LibResult
  BY OutcomeType
<1> QED
  BY <1>1, FinishedType DEF mysql_start_busy

(* Something is awaited of the socket only if the library asked for it.    *)
LEMMA AwaitedFacts ==
    ASSUME NEW mask \in SUBSET Events
    PROVE  /\ Awaited(mask) \in Events \cup {None}
           /\ Awaited(mask) \in {"read", "write"} /\ Awaited(mask) # None =>
                 mask \cap {"read", "write"} # {}
<1>1. CASE "read" \in mask
  BY <1>1 DEF Awaited, Events
<1>2. CASE "read" \notin mask /\ "write" \in mask
  BY <1>2 DEF Awaited, Events
<1>3. CASE "read" \notin mask /\ "write" \notin mask /\ "timeout" \in mask
  BY <1>3 DEF Awaited, Events
<1>4. CASE "read" \notin mask /\ "write" \notin mask /\ "timeout" \notin mask
  BY <1>4 DEF Awaited, Events
<1> QED
  BY <1>1, <1>2, <1>3, <1>4

-----------------------------------------------------------------------------
(***************************************************************************)
(* Sockets and descriptors.                                                *)
(***************************************************************************)
Descriptors == [Connectors -> Descriptor]

(* D agrees with E but for the connector c.                                *)
Elsewhere(D, E, c) == \A d \in Connectors \ {c} : D[d] = E[d]

(* The other connectors keep their sockets, and what the reactor knows of  *)
(* one whose number did not come back too early.                           *)
Spared(D, E, c) ==
    \A d \in Connectors \ {c} :
        /\ D[d].sock = E[d].sock /\ D[d].reused = E[d].reused
        /\ E[d].known /\ ~E[d].reused => D[d].known

(* A socket that is closed leaves the descriptors tidy.                    *)
LEMMA ClosedTidy ==
    ASSUME NEW E \in Descriptors, Tidy(E), NEW c \in Connectors,
           NEW D, D = [E EXCEPT ![c].sock = None, ![c].known = FALSE,
                                ![c].reused = FALSE]
    PROVE  D \in Descriptors /\ Tidy(D) /\ Elsewhere(D, E, c)
<1>1. D \in Descriptors
  BY DEF Descriptors, Descriptor
<1>2. /\ Elsewhere(D, E, c)
      /\ D[c].sock = None /\ D[c].known = FALSE /\ D[c].ev = E[c].ev
  BY DEF Descriptors, Descriptor, Elsewhere
<1>3. \A d \in Connectors : Kept(D, d)
  BY <1>2 DEF Tidy, Kept, Elsewhere
<1>4. ASSUME NEW d \in Connectors, NEW e \in Connectors, d # e
      PROVE  Apart(D, d, e)
  <2>1. CASE d = c
    BY <1>2, <2>1 DEF Apart
  <2>2. CASE d # c
    <3>1. Apart(E, d, e) /\ D[d] = E[d] /\ (e # c => D[e] = E[e])
      BY <1>2, <1>4, <2>2 DEF Tidy, Elsewhere
    <3> QED
      BY <1>2, <3>1 DEF Apart
  <2> QED
    BY <2>1, <2>2
<1> QED
  BY <1>1, <1>2, <1>3, <1>4 DEF Tidy

(* Replacing the descriptor of one connector.                              *)
LEMMA DescriptorReplaced ==
    ASSUME NEW E \in Descriptors, NEW c \in Connectors, NEW q \in Descriptor
    PROVE  [E EXCEPT ![c] = q] \in Descriptors
BY DEF Descriptors

(* A socket that is opened with a free number leaves them tidy.            *)
LEMMA OpenedTidy ==
    ASSUME desc \in Descriptors, DescInv, NEW c \in Connectors,
           NEW s \in Fds, NumberFree(s, c), NEW D, D = Opened(c, s)
    PROVE  D \in Descriptors /\ Tidy(D) /\ Elsewhere(D, desc, c)
           /\ D[c].sock # None
<1> DEFINE b == \E d \in Connectors : desc[d].ev = s
<1>1. b \in BOOLEAN
  OBVIOUS
<1>2. D = [desc EXCEPT ![c].sock = s, ![c].known = FALSE, ![c].reused = b]
  BY DEF Opened
<1>3. ~b => \A d \in Connectors : desc[d].ev # s
  OBVIOUS
<1>4. s # None
  BY NoneAssumption
<1> HIDE DEF b
<1>5. D \in Descriptors
  <2> DEFINE q == [desc[c] EXCEPT !.sock = s, !.known = FALSE, !.reused = b]
  <2>1. desc[c] \in Descriptor
    BY DEF Descriptors
  <2>2. q \in Descriptor
    BY <1>1, <2>1 DEF Descriptor
  <2>3. D = [desc EXCEPT ![c] = q]
    BY <1>2
  <2> HIDE DEF q
  <2> QED
    BY <2>2, <2>3, DescriptorReplaced
<1>6. /\ Elsewhere(D, desc, c)
      /\ D[c].sock = s /\ D[c].known = FALSE /\ D[c].ev = desc[c].ev
      /\ D[c].reused = b
  BY <1>2 DEF Descriptors, Descriptor, Elsewhere
<1>7. \A d \in Connectors : Kept(D, d)
  BY <1>3, <1>6 DEF DescInv, Tidy, Kept, Elsewhere
<1>8. \A d, e \in Connectors : d # e => Apart(D, d, e)
  BY <1>3, <1>6 DEF DescInv, Tidy, Apart, Elsewhere, NumberFree
<1> QED
  BY <1>4, <1>5, <1>6, <1>7, <1>8 DEF Tidy

(* Whatever a call does to the socket of c, the descriptors stay tidy; a   *)
(* connection that is up, or that is being made, has a socket.             *)
LEMMA SocketTidy ==
    ASSUME desc \in Descriptors, DescInv, NEW c \in Connectors, NEW h,
           NEW connecting \in BOOLEAN, NEW D \in SocketAfter(c, h, connecting)
    PROVE  /\ D \in Descriptors /\ Tidy(D) /\ Elsewhere(D, desc, c)
           /\ h.st = "up" \/ connecting => D[c].sock # None
<1>1. \/ D = desc /\ desc[c].sock # None
      \/ \E s \in Fds : NumberFree(s, c) /\ D = Opened(c, s)
      \/ /\ ~(h.st = "up" \/ connecting)
         /\ D = [desc EXCEPT ![c].sock = None, ![c].known = FALSE,
                             ![c].reused = FALSE]
  BY DEF SocketAfter
<1>2. CASE D = desc /\ desc[c].sock # None
  BY <1>2 DEF DescInv, Elsewhere
<1>3. CASE \E s \in Fds : NumberFree(s, c) /\ D = Opened(c, s)
  BY <1>3, OpenedTidy
<1>4. CASE /\ ~(h.st = "up" \/ connecting)
           /\ D = [desc EXCEPT ![c].sock = None, ![c].known = FALSE,
                               ![c].reused = FALSE]
  BY <1>4, ClosedTidy DEF DescInv
<1> QED
  BY <1>1, <1>2, <1>3, <1>4

(* A descriptor that is released takes no watched socket along.            *)
LEMMA ReleaseTidy ==
    ASSUME NEW E \in Descriptors, Tidy(E), NEW c \in Connectors,
           NEW D, D = release(E, c)
    PROVE  /\ D \in Descriptors /\ Tidy(D) /\ Spared(D, E, c)
           /\ D[c].ev = None /\ D[c].sock = E[c].sock
           /\ D[c].reused = E[c].reused /\ ~D[c].known
<1> DEFINE k(d) == E[d].known /\ E[d].sock # E[c].ev
           v(d) == IF d = c THEN None ELSE E[d].ev
<1>1. ASSUME NEW d \in Connectors
      PROVE  /\ D[d] \in Descriptor
             /\ D[d].sock = E[d].sock /\ D[d].reused = E[d].reused
             /\ D[d].known = k(d) /\ D[d].ev = v(d)
  <2>1. E[d] \in Descriptor
    BY DEF Descriptors
  <2>2. D[d] = [E[d] EXCEPT !.known = k(d), !.ev = v(d)]
    BY DEF release
  <2>3. k(d) \in BOOLEAN
    OBVIOUS
  <2>4. v(d) \in Fds \cup {None}
    BY <2>1 DEF Descriptor
  <2> HIDE DEF k, v
  <2> QED
    BY <2>1, <2>2, <2>3, <2>4 DEF Descriptor
<1>2. D = [d \in Connectors |-> D[d]]
  BY DEF release
<1>3. D \in Descriptors
  BY <1>1, <1>2 DEF Descriptors
<1>4. \A d \in Connectors :
         /\ D[d].sock = E[d].sock /\ D[d].reused = E[d].reused
         /\ D[d].known <=> E[d].known /\ E[d].sock # E[c].ev
         /\ d = c => D[d].ev = None
         /\ d # c => D[d].ev = E[d].ev
  BY <1>1
<1>5. Spared(D, E, c)
  BY <1>4 DEF Tidy, Kept, Apart, Spared
<1>6. ~D[c].known
  BY <1>4 DEF Tidy, Kept
<1>7. ASSUME NEW d \in Connectors PROVE Kept(D, d)
  <2>1. CASE d = c
    BY <1>4, <1>6, <2>1 DEF Kept
  <2>2. CASE d # c
    <3>1. Kept(E, d) /\ Apart(E, d, c)
      BY <2>2 DEF Tidy
    <3>2. /\ D[d].sock = E[d].sock /\ D[d].reused = E[d].reused
          /\ D[d].known <=> E[d].known /\ E[d].sock # E[c].ev
          /\ D[d].ev = E[d].ev
      BY <1>4, <2>2
    <3> QED
      BY <3>1, <3>2 DEF Kept, Apart
  <2> QED
    BY <2>1, <2>2
<1>8. ASSUME NEW d \in Connectors, NEW e \in Connectors, d # e
      PROVE  Apart(D, d, e)
  <2>1. Apart(E, d, e)
    BY <1>8 DEF Tidy
  <2> QED
    BY <1>4, <2>1 DEF Apart
<1> QED
  BY <1>3, <1>4, <1>5, <1>6, <1>7, <1>8 DEF Tidy

(* Once ev_ follows the socket, the reactor watches it.                    *)
LEMMA AssignTidy ==
    ASSUME NEW E \in Descriptors, Tidy(E), NEW c \in Connectors,
           E[c].sock # None, NEW D, D = assign(E, c)
    PROVE  /\ D \in Descriptors /\ Tidy(D) /\ Spared(D, E, c)
           /\ ~D[c].reused => D[c].known
<1>1. CASE E[c].ev = E[c].sock
  BY <1>1 DEF assign, Tidy, Kept, Spared
<1>2. CASE E[c].ev # E[c].sock
  <2> DEFINE R == release(E, c)
  <2>1. D = [R EXCEPT ![c].ev = E[c].sock, ![c].known = TRUE]
    BY <1>2 DEF assign
  <2>2. /\ R \in Descriptors /\ Tidy(R) /\ Spared(R, E, c)
        /\ R[c].sock = E[c].sock /\ R[c].reused = E[c].reused
    BY ReleaseTidy
  <2> HIDE DEF R
  <2>3. E[c].sock \in Fds \cup {None}
    BY DEF Descriptors, Descriptor
  <2>4. D \in Descriptors
    <3> DEFINE q == [R[c] EXCEPT !.ev = E[c].sock, !.known = TRUE]
    <3>1. R[c] \in Descriptor
      BY <2>2 DEF Descriptors
    <3>2. q \in Descriptor
      BY <2>3, <3>1 DEF Descriptor
    <3>3. D = [R EXCEPT ![c] = q]
      BY <2>1
    <3> HIDE DEF q
    <3> QED
      BY <2>2, <3>2, <3>3, DescriptorReplaced
  <2>5. /\ D[c].sock = R[c].sock /\ D[c].ev = R[c].sock
        /\ D[c].known = TRUE /\ D[c].reused = R[c].reused
        /\ Elsewhere(D, R, c)
    BY <2>1, <2>2 DEF Descriptors, Descriptor, Elsewhere
  <2>6. \A d \in Connectors : Kept(D, d)
    BY <2>2, <2>5 DEF Tidy, Kept, Elsewhere
  <2>7. \A d, e \in Connectors : d # e => Apart(D, d, e)
    BY <2>2, <2>5 DEF Tidy, Apart, Elsewhere
  <2>8. Spared(D, E, c)
    BY <2>2, <2>5 DEF Spared, Elsewhere
  <2> QED
    BY <2>4, <2>5, <2>6, <2>7, <2>8 DEF Tidy
<1> QED
  BY <1>1, <1>2

-----------------------------------------------------------------------------
(***************************************************************************)
(* What is common to the steps.                                            *)
(***************************************************************************)
(* An operation that a step leaves alone, together with its connection.    *)
LEMMA Untouched ==
    ASSUME NEW p \in Ops, OneOp(p), op'[p] = op[p],
           NEW d, d = op[p].conn,
           impl'[d] = impl[d], mysql'[d] = mysql[d], lib'[d] = lib[d],
           usage'[d] = usage[d], desc'[d].reused = desc[d].reused,
           desc[d].known /\ ~desc[d].reused => desc'[d].known
    PROVE  OneOp(p)'
<1>1. Expired(p)' <=> Expired(p)
  BY DEF Expired
<1>2. Valid(p)' <=> Valid(p)
  BY <1>1 DEF Valid
<1>3. StageInv(p)' /\ TokenInv(p)'
  BY <1>1 DEF OneOp, StageInv, TokenInv
<1>4. CallInv(p)'
  BY <1>2 DEF OneOp, CallInv
<1>5. WaitInv(p)' /\ KnownInv(p)'
  BY DEF OneOp, WaitInv, KnownInv, Sane
<1> QED
  BY <1>3, <1>4, <1>5 DEF OneOp

(* An operation that has no step to come and waits for nothing.            *)
LEMMA AtRest ==
    ASSUME NEW p \in Ops, StageInv(p)', op'[p].st \notin Active
    PROVE  OneOp(p)' /\ ~Valid(p)' /\ ~Holds(p)'
BY DEF OneOp, TokenInv, CallInv, WaitInv, KnownInv, Valid, Holds, Active

(* Operations stay unique while none becomes valid or holds a call.        *)
LEMMA FewerUnique ==
    ASSUME UniqueInv,
           \A p \in Ops : Valid(p)' => Valid(p) /\ op'[p].conn = op[p].conn,
           \A p \in Ops : Holds(p)' /\ Sane(op[p].conn)' =>
                             /\ Holds(p) /\ Sane(op[p].conn),
           \A p \in Ops : Holds(p)' => op'[p].conn = op[p].conn
    PROVE  UniqueInv'
<1> SUFFICES ASSUME NEW o \in Ops, NEW p \in Ops,
                    op'[o].conn = op'[p].conn
             PROVE  /\ Valid(o)' /\ Valid(p)' => o = p
                    /\ Holds(o)' /\ Holds(p)' /\ Sane(op[o].conn)' => o = p
  BY DEF UniqueInv
<1>1. ASSUME Valid(o)', Valid(p)' PROVE o = p
  BY <1>1 DEF UniqueInv
<1>2. ASSUME Holds(o)', Holds(p)', Sane(op[o].conn)' PROVE o = p
  <2>1. op'[o].conn = op[o].conn /\ op'[p].conn = op[p].conn
    BY <1>2
  <2>2. Sane(op[o].conn) /\ Holds(o) /\ Holds(p)
    BY <1>2, <2>1
  <2> QED
    BY <2>1, <2>2 DEF UniqueInv
<1> QED
  BY <1>1, <1>2

(* They stay unique when one does, and no other of its connection.         *)
LEMMA OneUnique ==
    ASSUME UniqueInv, NEW o \in Ops, NEW c, op'[o].conn = c,
           \A p \in Ops \ {o} :
              Valid(p)' => /\ Valid(p) /\ op'[p].conn = op[p].conn
                           /\ op[p].conn # c,
           \A p \in Ops \ {o} :
              Holds(p)' => /\ Holds(p) /\ op'[p].conn = op[p].conn
                           /\ op[p].conn # c => usage'[op[p].conn] = usage[op[p].conn]
                           /\ op[p].conn = c => ~Sane(c)'
    PROVE  UniqueInv'
<1> SUFFICES ASSUME NEW p \in Ops, NEW q \in Ops,
                    op'[p].conn = op'[q].conn, p # q
             PROVE  ~(Valid(p)' /\ Valid(q)')
                    /\ ~(Holds(p)' /\ Holds(q)' /\ Sane(op[p].conn)')
  BY DEF UniqueInv
<1>1. ~(Valid(p)' /\ Valid(q)')
  BY DEF UniqueInv
<1>2. ASSUME Holds(p)', Holds(q)', Sane(op[p].conn)' PROVE FALSE
  <2>1. usage'[op'[p].conn] # "undefined" /\ usage'[op'[q].conn] # "undefined"
    BY <1>2 DEF Sane
  <2>2. p # o /\ q # o
    BY <1>2, <2>1 DEF Sane
  <2>3. /\ Holds(p) /\ Holds(q) /\ op[p].conn = op[q].conn
        /\ op'[p].conn = op[p].conn /\ op[p].conn # c
    BY <1>2, <2>1, <2>2 DEF Sane
  <2>4. usage'[op[p].conn] = usage[op[p].conn]
    BY <1>2, <2>2, <2>3
  <2>5. Sane(op[p].conn)
    BY <2>1, <2>3, <2>4 DEF Sane
  <2> QED
    BY <2>3, <2>5 DEF UniqueInv
<1> QED
  BY <1>1, <1>2

(* The user's calls that leave the operations alone find no valid one on   *)
(* the connection.                                                         *)
LEMMA IdleKeeps ==
    ASSUME MInv, NEW c \in Connectors, op' = op, lib' = lib,
           \A p \in Ops : op[p].conn = c => ~Valid(p),
           impl'[c].cancelation_token = impl[c].cancelation_token,
           \A d \in Connectors \ {c} :
              /\ impl'[d] = impl[d] /\ mysql'[d] = mysql[d]
              /\ desc'[d] = desc[d] /\ usage'[d] = usage[d],
           Sane(c)' => Sane(c),
           \/ desc'[c] = desc[c]
           \/ \A p \in Ops : op[p].conn = c /\ op[p].st = "waiting" => ~Sane(c)
    PROVE  OpInv' /\ UniqueInv'
<1>1. ASSUME NEW p \in Ops, op[p].st \in InFlight
      PROVE  Expired(p)' <=> Expired(p)
  <2>1. op[p].conn \in Connectors
    BY <1>1 DEF MInv, OpInv, OneOp, StageInv
  <2> QED
    BY <2>1 DEF Expired
<1>2. \A p \in Ops : Valid(p)' <=> Valid(p)
  BY <1>1 DEF Valid, Active, InFlight
<1>3. ASSUME NEW p \in Ops PROVE OneOp(p)'
  <2>1. OneOp(p)
    BY DEF MInv, OpInv
  <2>2. StageInv(p)'
    BY <2>1 DEF OneOp, StageInv
  <2>3. CASE op[p].st \notin Active
    BY <2>2, <2>3, AtRest
  <2>4. CASE op[p].st \in Active /\ op[p].conn # c
    <3>1. op[p].conn \in Connectors
      BY <2>1, <2>4 DEF OneOp, StageInv, Active, InFlight
    <3> QED
      BY <2>1, <2>4, <3>1, Untouched
  <2>5. CASE op[p].st \in Active /\ op[p].conn = c
    <3>1. ~Valid(p) /\ ~Valid(p)'
      BY <1>2, <2>5
    <3>2. TokenInv(p)'
      BY <1>1, <2>1, <2>5 DEF OneOp, TokenInv, Active, InFlight
    <3>3. WaitInv(p)' /\ KnownInv(p)'
      BY <2>1, <2>5 DEF OneOp, WaitInv, KnownInv, Sane
    <3> QED
      BY <2>2, <3>1, <3>2, <3>3 DEF OneOp, CallInv
  <2> QED
    BY <2>3, <2>4, <2>5
<1>4. \A p \in Ops : Holds(p)' <=> Holds(p)
  BY <1>2 DEF Holds
<1>5. ASSUME NEW p \in Ops, Holds(p)', Sane(op[p].conn)' PROVE Sane(op[p].conn)
  <2>1. op[p].conn \in Connectors
    BY <1>4, <1>5 DEF MInv, OpInv, OneOp, StageInv, Holds, Valid, Active, InFlight
  <2> QED
    BY <1>5, <2>1 DEF Sane
<1>6. UniqueInv'
  BY <1>2, <1>4, <1>5, FewerUnique DEF MInv
<1> QED
  BY <1>3, <1>6 DEF OpInv

-----------------------------------------------------------------------------
(***************************************************************************)
(* The user's calls.                                                       *)
(***************************************************************************)
(* New connectors and operations satisfy the invariant.                    *)
LEMMA InitMInv == Init => MInv
<1> SUFFICES ASSUME Init PROVE MInv
  OBVIOUS
<1>1. NewImplementation \in Implementation
  BY DEF NewImplementation, Implementation
<1>2. RawHandle \in Handle
  BY FreshType
<1>3. NewDescriptor \in Descriptor
  BY DEF NewDescriptor, Descriptor
<1>4. NewOperation \in Operation /\ NewOperation.st = "fresh"
  BY ContinueFacts DEF NewOperation, Operation, Kinds, Events, ErrorCodes
<1>5. TypeOK
  BY <1>1, <1>2, <1>3, <1>4, NoneAssumption DEF Init, TypeOK, Usages
<1>6. \A p \in Ops : op[p].st = "fresh"
  BY <1>4 DEF Init
<1>7. OpInv /\ UniqueInv
  BY <1>6 DEF OpInv, OneOp, StageInv, TokenInv, CallInv, WaitInv, KnownInv,
              UniqueInv, Valid, Holds, Active, InFlight
<1>8. ResultInv
  BY DEF Init, ResultInv, NewImplementation
<1>9. DescInv
  BY DEF Init, DescInv, Tidy, Kept, Apart, NewDescriptor
<1> QED
  BY <1>5, <1>7, <1>8, <1>9 DEF MInv

(* open() on a closed connection.                                          *)
LEMMA OpenKeeps ==
    ASSUME MInv, NEW c \in Connectors, open(c)
    PROVE  MInv'
<1>1. PICK r \in mysql_init(mysql[c]) :
          /\ mysql' = [mysql EXCEPT ![c] = r.h]
          /\ impl' = [impl EXCEPT ![c].initialized = (r.ec = "ok")]
  BY DEF open
<1>2. r.h \in Handle
  BY <1>1, FreshType DEF mysql_init, MInv, TypeOK
<1> DEFINE b == r.ec = "ok"
<1>3. b \in BOOLEAN /\ impl' = [impl EXCEPT ![c].initialized = b]
  BY <1>1
<1> HIDE DEF b
<1>4. impl' \in [Connectors -> Implementation]
  BY <1>3 DEF MInv, TypeOK, Implementation
<1>5. /\ impl'[c].cancelation_token = impl[c].cancelation_token
      /\ impl'[c].last_result = impl[c].last_result
      /\ impl'[c].first_result_stored = impl[c].first_result_stored
      /\ \A d \in Connectors \ {c} : impl'[d] = impl[d]
  BY <1>3 DEF MInv, TypeOK, Implementation
<1>6. UNCHANGED <<lib, desc, op, running, usage>>
  BY DEF open
<1>7. TypeOK'
  BY <1>1, <1>2, <1>4, <1>6 DEF MInv, TypeOK
<1>8. \A p \in Ops : op[p].conn = c => ~Valid(p)
  BY DEF MInv, OpInv, OneOp, CallInv, open
<1>9. \A d \in Connectors \ {c} : mysql'[d] = mysql[d]
  BY <1>1 DEF MInv, TypeOK
<1>10. OpInv' /\ UniqueInv'
  BY <1>5, <1>6, <1>8, <1>9, IdleKeeps DEF Sane
<1>11. ResultInv'
  BY <1>5, <1>6 DEF MInv, ResultInv, Sane, open
<1>12. DescInv'
  BY <1>6 DEF MInv, DescInv, Tidy, Kept, Apart
<1> QED
  BY <1>7, <1>10, <1>11, <1>12 DEF MInv

(* A cancelled operation keeps everything but its history.                 *)
LEMMA CancelledFacts ==
    ASSUME NEW p \in Operation, NEW how \in {"cancel", "close"}, NEW q,
           q = Cancelled(p, how)
    PROVE  /\ q \in Operation
           /\ q.st = p.st /\ q.conn = p.conn /\ q.step = p.step
           /\ q.wait = p.wait /\ q.ec = p.ec
           /\ q.cancelation_token = p.cancelation_token
           /\ p.st \in Active => q.cancelled = how
           /\ p.st \notin Active => q.cancelled = p.cancelled
BY DEF Cancelled, Operation, Active, InFlight

(* A woken operation is ready, with an error.                              *)
LEMMA WokenFacts ==
    ASSUME NEW p \in Operation, NEW q, q = Woken(p)
    PROVE  /\ q \in Operation
           /\ q.st = IF p.st = "waiting" THEN "ready" ELSE p.st
           /\ q.ec = IF p.st = "waiting" THEN "aborted" ELSE p.ec
           /\ q.conn = p.conn /\ q.step = p.step
           /\ q.cancelation_token = p.cancelation_token
           /\ q.cancelled = p.cancelled
BY DEF Woken, Operation, ErrorCodes

(* The token that close() and cancel() make is new to every operation.     *)
LEMMA AllExpire ==
    ASSUME MInv, NEW c \in Connectors, NEW p \in Ops, op[p].conn = c,
           op[p].st \in Active, op'[p].conn = c,
           op'[p].cancelation_token = op[p].cancelation_token,
           impl'[c].cancelation_token = impl[c].cancelation_token + 1
    PROVE  /\ Expired(p)'
           /\ op'[p].cancelation_token <= impl'[c].cancelation_token
<1>1. op[p].cancelation_token <= impl[c].cancelation_token
  BY DEF MInv, OpInv, OneOp, TokenInv
<1>2. op[p].cancelation_token \in Nat /\ impl[c].cancelation_token \in Nat
  BY DEF MInv, TypeOK, Operation, Implementation
<1> QED
  BY <1>1, <1>2 DEF Expired

(* cancel() replaces the token.                                            *)
LEMMA CancelKeeps ==
    ASSUME MInv, NEW c \in Connectors, cancel(c)
    PROVE  MInv'
<1> DEFINE i == FreshToken(impl[c])
<1>1. /\ impl' = [impl EXCEPT ![c] = i]
      /\ UNCHANGED <<mysql, lib, desc, running>>
  BY DEF cancel
<1>2. impl[c] \in Implementation
  BY DEF MInv, TypeOK
<1>3. /\ i \in Implementation
      /\ i.cancelation_token = impl[c].cancelation_token + 1
      /\ i.last_result = impl[c].last_result
      /\ i.first_result_stored = impl[c].first_result_stored
      /\ i.initialized = impl[c].initialized
  BY <1>2 DEF FreshToken, Implementation
<1> HIDE DEF i
<1>4. /\ impl' \in [Connectors -> Implementation] /\ impl'[c] = i
      /\ \A d \in Connectors \ {c} : impl'[d] = impl[d]
  BY <1>1, <1>3 DEF MInv, TypeOK
<1>5. /\ usage' \in [Connectors -> Usages]
      /\ \A d \in Connectors \ {c} : usage'[d] = usage[d]
      /\ usage[c] = "undefined" <=> usage'[c] = "undefined"
  BY DEF cancel, MInv, TypeOK, Usages
<1>6. ASSUME NEW p \in Ops
      PROVE  /\ op'[p] \in Operation /\ op'[p].st = op[p].st
             /\ op'[p].conn = op[p].conn /\ op'[p].step = op[p].step
             /\ op'[p].wait = op[p].wait /\ op'[p].ec = op[p].ec
             /\ op'[p].cancelation_token = op[p].cancelation_token
             /\ op[p].conn # c => op'[p] = op[p]
             /\ op[p].conn = c /\ op[p].st \in Active => op'[p].cancelled # "no"
             /\ op[p].st \notin Active => op'[p].cancelled = op[p].cancelled
  <2>1. op[p] \in Operation
    BY DEF MInv, TypeOK
  <2>2. CASE op[p].conn = c
    <3>1. op'[p] = Cancelled(op[p], "cancel")
      BY <2>2 DEF cancel
    <3> QED
      BY <2>1, <2>2, <3>1, CancelledFacts
  <2>3. CASE op[p].conn # c
    BY <2>1, <2>3 DEF cancel
  <2> QED
    BY <2>2, <2>3
<1>7. TypeOK'
  <2>1. op' = [p \in Ops |-> op'[p]]
    BY DEF cancel
  <2>2. op' \in [Ops -> Operation]
    BY <1>6, <2>1
  <2> QED
    BY <1>1, <1>4, <1>5, <1>6, <2>2 DEF MInv, TypeOK
<1>8. ASSUME NEW p \in Ops
      PROVE  /\ OneOp(p)' /\ (Valid(p)' => Valid(p))
             /\ Holds(p)' => Holds(p) /\ op[p].conn \in Connectors
  <2>1. OneOp(p)
    BY DEF MInv, OpInv
  <2>2. StageInv(p)'
    BY <1>6, <2>1 DEF OneOp, StageInv, Active, InFlight
  <2>3. CASE op[p].st \notin Active
    BY <1>6, <2>2, <2>3, AtRest
  <2>4. CASE op[p].st \in Active /\ op[p].conn # c
    <3>1. op[p].conn \in Connectors
      BY <2>1, <2>4 DEF OneOp, StageInv, Active, InFlight
    <3>2. OneOp(p)'
      BY <1>1, <1>4, <1>5, <1>6, <2>1, <2>4, <3>1, Untouched
    <3>3. Expired(p)' <=> Expired(p)
      BY <1>4, <1>6, <2>4, <3>1 DEF Expired
    <3> QED
      BY <1>6, <3>1, <3>2, <3>3 DEF Valid, Holds
  <2>5. CASE op[p].st \in Active /\ op[p].conn = c
    <3>1. /\ Expired(p)'
          /\ op'[p].cancelation_token <= impl'[c].cancelation_token
      BY <1>3, <1>4, <1>6, <2>5, AllExpire
    <3>2. TokenInv(p)' /\ CallInv(p)'
      BY <1>6, <2>5, <3>1 DEF TokenInv, CallInv, Valid
    <3>3. WaitInv(p)' /\ KnownInv(p)'
      BY <1>1, <1>5, <1>6, <2>1, <2>5 DEF OneOp, WaitInv, KnownInv, Sane
    <3> QED
      BY <1>6, <2>2, <2>5, <3>1, <3>2, <3>3 DEF OneOp, Valid, Holds
  <2> QED
    BY <2>3, <2>4, <2>5
<1>9. \A p \in Ops : Holds(p)' /\ Sane(op[p].conn)' => Sane(op[p].conn)
  BY <1>5, <1>6, <1>8 DEF Sane
<1>10. UniqueInv'
  BY <1>6, <1>8, <1>9, FewerUnique DEF MInv
<1>11. ResultInv'
  BY <1>3, <1>4, <1>5 DEF MInv, ResultInv, Sane
<1>12. DescInv'
  BY <1>1 DEF MInv, DescInv, Tidy, Kept, Apart
<1> QED
  BY <1>7, <1>8, <1>10, <1>11, <1>12 DEF MInv, OpInv

(* close() and the destructor.                                             *)
LEMMA CloseKeeps ==
    ASSUME MInv, NEW c \in Connectors, NEW alive \in BOOLEAN, Close(c, alive)
    PROVE  MInv'
<1> DEFINE f == FreshToken(impl[c])
           i == [f EXCEPT !.alive = alive, !.initialized = FALSE,
                    !.first_result_stored = FALSE, !.last_result = FALSE]
           D == [desc EXCEPT ![c].sock = None, ![c].known = FALSE,
                             ![c].reused = FALSE]
<1>1. /\ impl' = [impl EXCEPT ![c] = i] /\ running' = running
      /\ mysql' = [mysql EXCEPT ![c] = RawHandle]
      /\ lib' = [lib EXCEPT ![c] = None]
      /\ usage' = [usage EXCEPT ![c] = "sound"]
      /\ desc' = release(D, c)
  BY DEF Close
<1>2. impl[c] \in Implementation
  BY DEF MInv, TypeOK
<1>3. f \in Implementation
      /\ f.cancelation_token = impl[c].cancelation_token + 1
  BY <1>2 DEF FreshToken, Implementation
<1> HIDE DEF f
<1>4. /\ i \in Implementation /\ i.cancelation_token = f.cancelation_token
      /\ ~i.last_result /\ ~i.first_result_stored
  BY <1>3 DEF Implementation
<1> HIDE DEF i
<1>5. /\ impl' \in [Connectors -> Implementation] /\ impl'[c] = i
      /\ \A d \in Connectors \ {c} : impl'[d] = impl[d]
  BY <1>1, <1>4 DEF MInv, TypeOK
<1>6. /\ mysql' \in [Connectors -> Handle]
      /\ lib' \in [Connectors -> Calls \cup {None}]
      /\ usage' \in [Connectors -> Usages]
      /\ \A d \in Connectors \ {c} :
            mysql'[d] = mysql[d] /\ lib'[d] = lib[d] /\ usage'[d] = usage[d]
  BY <1>1, FreshType DEF MInv, TypeOK, Usages
<1>7. D \in Descriptors /\ Tidy(D) /\ Elsewhere(D, desc, c)
  BY ClosedTidy DEF MInv, TypeOK, DescInv, Descriptors
<1> HIDE DEF D
<1>8. desc' \in Descriptors /\ Tidy(desc') /\ Spared(desc', D, c)
  BY <1>1, <1>7, ReleaseTidy
<1>9. \A d \in Connectors \ {c} :
         /\ desc'[d].reused = desc[d].reused
         /\ desc[d].known /\ ~desc[d].reused => desc'[d].known
  BY <1>7, <1>8 DEF Elsewhere, Spared
<1>10. ASSUME NEW p \in Ops
       PROVE  /\ op'[p] \in Operation
              /\ op'[p].conn = op[p].conn /\ op'[p].step = op[p].step
              /\ op'[p].cancelation_token = op[p].cancelation_token
              /\ op[p].conn # c => op'[p] = op[p]
              /\ op[p].conn = c => op'[p].st # "waiting"
              /\ op[p].st # "waiting" =>
                    op'[p].st = op[p].st /\ op'[p].ec = op[p].ec
              /\ op[p].conn = c /\ op[p].st = "waiting" => op'[p].st = "ready"
              /\ op[p].conn = c /\ op[p].st \in Active => op'[p].cancelled # "no"
              /\ op[p].st \notin Active => op'[p].cancelled = op[p].cancelled
  <2>1. op[p] \in Operation
    BY DEF MInv, TypeOK
  <2>2. CASE op[p].conn = c
    <3> DEFINE q == Cancelled(op[p], "close")
    <3>1. op'[p] = Woken(q)
      BY <2>2 DEF Close
    <3>2. /\ q \in Operation
          /\ q.st = op[p].st /\ q.conn = op[p].conn /\ q.step = op[p].step
          /\ q.ec = op[p].ec
          /\ q.cancelation_token = op[p].cancelation_token
          /\ op[p].st \in Active => q.cancelled = "close"
          /\ op[p].st \notin Active => q.cancelled = op[p].cancelled
      BY <2>1, CancelledFacts
    <3> HIDE DEF q
    <3>3. /\ op'[p] \in Operation
          /\ op'[p].st = IF q.st = "waiting" THEN "ready" ELSE q.st
          /\ op'[p].ec = IF q.st = "waiting" THEN "aborted" ELSE q.ec
          /\ op'[p].conn = q.conn /\ op'[p].step = q.step
          /\ op'[p].cancelation_token = q.cancelation_token
          /\ op'[p].cancelled = q.cancelled
      BY <3>1, <3>2, WokenFacts
    <3> QED
      BY <2>2, <3>2, <3>3
  <2>3. CASE op[p].conn # c
    BY <2>1, <2>3 DEF Close
  <2> QED
    BY <2>2, <2>3
<1>11. TypeOK'
  <2>1. op' = [p \in Ops |-> op'[p]]
    BY DEF Close
  <2>2. op' \in [Ops -> Operation]
    BY <1>10, <2>1
  <2>3. \A p \in Ops : op'[p].st = "running" <=> op[p].st = "running"
    BY <1>10
  <2> QED
    BY <1>1, <1>5, <1>6, <1>8, <2>2, <2>3 DEF MInv, TypeOK, Descriptors
<1>12. ASSUME NEW p \in Ops
       PROVE  /\ OneOp(p)' /\ (Valid(p)' => Valid(p))
              /\ Holds(p)' => Holds(p) /\ op[p].conn \in Connectors \ {c}
  <2>1. OneOp(p)
    BY DEF MInv, OpInv
  <2>2. StageInv(p)'
    BY <1>10, <2>1 DEF OneOp, StageInv, Active, InFlight
  <2>3. CASE op[p].st \notin Active
    <3>1. op'[p].st \notin Active
      BY <1>10, <2>3 DEF Active
    <3> QED
      BY <2>2, <3>1, AtRest
  <2>4. CASE op[p].st \in Active /\ op[p].conn # c
    <3>1. op[p].conn \in Connectors
      BY <2>1, <2>4 DEF OneOp, StageInv, Active, InFlight
    <3>2. OneOp(p)'
      BY <1>5, <1>6, <1>9, <1>10, <2>1, <2>4, <3>1, Untouched
    <3>3. Expired(p)' <=> Expired(p)
      BY <1>5, <1>10, <2>4, <3>1 DEF Expired
    <3> QED
      BY <1>10, <2>4, <3>1, <3>2, <3>3 DEF Valid, Holds
  <2>5. CASE op[p].st \in Active /\ op[p].conn = c
    <3>1. /\ Expired(p)'
          /\ op'[p].cancelation_token <= impl'[c].cancelation_token
      BY <1>3, <1>4, <1>5, <1>10, <2>5, AllExpire
    <3>2. TokenInv(p)' /\ CallInv(p)'
      BY <1>10, <2>5, <3>1 DEF TokenInv, CallInv, Valid
    <3>3. WaitInv(p)' /\ KnownInv(p)'
      BY <1>10, <2>5 DEF WaitInv, KnownInv
    <3> QED
      BY <1>10, <2>2, <2>5, <3>1, <3>2, <3>3 DEF OneOp, Valid, Holds
  <2> QED
    BY <2>3, <2>4, <2>5
<1>13. \A p \in Ops : Holds(p)' /\ Sane(op[p].conn)' => Sane(op[p].conn)
  BY <1>6, <1>10, <1>12 DEF Sane
<1>14. UniqueInv'
  BY <1>10, <1>12, <1>13, FewerUnique DEF MInv
<1>15. ResultInv'
  BY <1>4, <1>5, <1>6 DEF MInv, ResultInv, Sane
<1>16. DescInv'
  BY <1>8 DEF DescInv, Tidy, Kept, Apart
<1> QED
  BY <1>11, <1>12, <1>14, <1>15, <1>16 DEF MInv, OpInv

-----------------------------------------------------------------------------
(***************************************************************************)
(* The blocking functions.                                                 *)
(***************************************************************************)
(* What any of them leaves of the implementation i.                        *)
Leaves(i, r) ==
    /\ r.i \in Implementation /\ r.h \in Handle
    /\ r.i.alive = i.alive /\ r.i.cancelation_token = i.cancelation_token
    /\ i.initialized => r.i.initialized

(* Unless it goes to the library without asking, the result state of a     *)
(* connection that is not open is left alone.                              *)
Asks(i, r) ==
    ~r.i.initialized => /\ r.i.last_result = i.last_result
                        /\ r.i.first_result_stored = i.first_result_stored

(* Setting an option leaves a handle.                                      *)
LEMMA OptionsType ==
    ASSUME NEW h \in Handle, NEW r \in mysql_options(h)
    PROVE  r \in CallResult
<1>1. {Outcome(h, FALSE, FALSE), Refused(h)} \in SUBSET LibResult
  BY OutcomeType DEF Outcome, LibResult
<1>2. \A o \in {Outcome(h, FALSE, FALSE), Refused(h)} : KeepsInit(h, o)
  BY OutcomeType DEF Outcome, KeepsInit
<1> DEFINE O == {Outcome(h, FALSE, FALSE), Refused(h)}
<1>3. O \in SUBSET LibResult /\ \A o \in O : KeepsInit(h, o)
  BY <1>1, <1>2
<1>4. r \in Wrap(O)
  BY DEF mysql_options
<1> HIDE DEF O
<1> QED
  BY <1>3, <1>4, WrapType

(* The calls that touch the handle and no more.                            *)
LEMMA SimpleFacts ==
    ASSUME NEW i \in Implementation, NEW h \in Handle,
           NEW r \in Autocommit(i, h) \cup Commit(i, h) \cup Rollback(i, h)
                     \cup NotOpen(i, h) \cup Outcomes(i, mysql_options(h))
    PROVE  Leaves(i, r) /\ Asks(i, r)
<1>1. r.i = i
  BY DEF Autocommit, Commit, Rollback, NotOpen, Outcomes
<1>2. ASSUME r \in Autocommit(i, h) \cup Commit(i, h) \cup Rollback(i, h)
      PROVE  r.h \in Handle
  BY <1>2, CommandHandle DEF Leaves_h
<1>3. ASSUME r \in NotOpen(i, h) PROVE r.h \in Handle
  BY <1>3 DEF NotOpen
<1>4. ASSUME r \in Outcomes(i, mysql_options(h)) PROVE r.h \in Handle
  BY <1>4, OptionsHandle DEF Outcomes, Leaves_h
<1>5. r.h \in Handle
  BY <1>2, <1>3, <1>4
<1> QED
  BY <1>1, <1>5 DEF Leaves, Asks

(* connect() opens the connection if need be and keeps the flags.          *)
LEMMA ConnectFacts ==
    ASSUME NEW i \in Implementation, NEW h \in Handle, NEW flags \in BOOLEAN,
           NEW r \in Connect(i, h, flags)
    PROVE  Leaves(i, r) /\ Asks(i, r)
<1>1. PICK o \in Open(i, h) :
          r \in IF o.ec # "ok" THEN {o}
                ELSE Outcomes([o.i EXCEPT !.flags = flags],
                              mysql_real_connect(o.h, flags))
  BY DEF Connect
<1>2. /\ Leaves(i, o) /\ Asks(i, o)
      /\ o.ec = "ok" => o.i.initialized
  <2>1. CASE i.initialized
    BY <1>1, <2>1 DEF Open, Leaves, Asks
  <2>2. CASE ~i.initialized
    <3>1. PICK s \in mysql_init(h) :
              o = [i |-> [i EXCEPT !.initialized = (s.ec = "ok")], h |-> s.h,
                   ec |-> s.ec]
      BY <1>1, <2>2 DEF Open
    <3>2. s.h \in Handle
      BY <3>1, FreshType DEF mysql_init
    <3> DEFINE b == s.ec = "ok"
               j == [i EXCEPT !.initialized = b]
    <3>3. /\ b \in BOOLEAN
          /\ o.i = j /\ o.h = s.h /\ (o.ec = "ok" <=> b)
      BY <3>1
    <3> HIDE DEF b
    <3>4. /\ j \in Implementation /\ j.initialized = b /\ j.alive = i.alive
          /\ j.cancelation_token = i.cancelation_token
          /\ j.last_result = i.last_result
          /\ j.first_result_stored = i.first_result_stored
      BY <3>3 DEF Implementation
    <3> HIDE DEF j
    <3> QED
      BY <2>2, <3>2, <3>3, <3>4 DEF Leaves, Asks
  <2> QED
    BY <2>1, <2>2
<1>3. CASE o.ec # "ok"
  BY <1>1, <1>2, <1>3
<1>4. CASE o.ec = "ok"
  <2> DEFINE j == [o.i EXCEPT !.flags = flags]
  <2>1. PICK s \in mysql_real_connect(o.h, flags) : r.i = j /\ r.h = s.h
    BY <1>1, <1>4 DEF Outcomes
  <2>2. o.h \in Handle /\ o.i \in Implementation
    BY <1>2 DEF Leaves
  <2>3. s \in CallResult
    BY <2>1, <2>2, CallType
  <2>4. /\ j \in Implementation /\ j.initialized = o.i.initialized
        /\ j.alive = o.i.alive
        /\ j.cancelation_token = o.i.cancelation_token
    BY <2>2 DEF Implementation
  <2> HIDE DEF j
  <2> QED
    BY <1>2, <1>4, <2>1, <2>3, <2>4 DEF Leaves, Asks, CallResult
<1> QED
  BY <1>3, <1>4

(* query() forgets the results of an open connection.                      *)
LEMMA QueryFacts ==
    ASSUME NEW i \in Implementation, NEW h \in Handle,
           NEW r \in QueryResult(i, h)
    PROVE  Leaves(i, r) /\ Asks(i, r)
<1>1. CASE ~i.initialized
  BY <1>1, SimpleFacts DEF QueryResult
<1>2. CASE i.initialized
  <2> DEFINE j == [i EXCEPT !.last_result = FALSE, !.first_result_stored = FALSE]
  <2>1. PICK s \in mysql_real_query(h) : r.i = j /\ r.h = s.h
    BY <1>2 DEF QueryResult
  <2>2. s \in CallResult
    BY <2>1, CallType
  <2>3. /\ j \in Implementation /\ j.initialized = i.initialized
        /\ j.alive = i.alive /\ j.cancelation_token = i.cancelation_token
    BY DEF Implementation
  <2> HIDE DEF j
  <2> QED
    BY <1>2, <2>1, <2>2, <2>3 DEF Leaves, Asks, CallResult
<1> QED
  BY <1>1, <1>2

(* store_result() leaves an implementation, open if it was.                *)
LEMMA StoreFacts ==
    ASSUME NEW i \in Implementation, NEW h \in Handle,
           NEW r \in StoreResult(i, h, "ok")
    PROVE  Leaves(i, r)
<1> DEFINE b == i.last_result /\ ~i.first_result_stored
           j == [i EXCEPT !.first_result_stored = TRUE, !.last_result = b]
<1>1. PICK a \in Advanced(i, h, "ok") :
          r \in IF a.ec = "ok" THEN Stored(j, a.h)
                ELSE {[i |-> j, h |-> a.h, ec |-> a.ec]}
  BY DEF StoreResult
<1>2. b \in BOOLEAN
  OBVIOUS
<1> HIDE DEF b
<1>3. /\ j \in Implementation /\ j.initialized = i.initialized
      /\ j.alive = i.alive /\ j.cancelation_token = i.cancelation_token
  BY <1>2 DEF Implementation
<1> HIDE DEF j
<1>4. a.h \in Handle
  <2>1. a.h = h \/ \E s \in mysql_next_result(h) : a.h = s.h
    BY <1>1 DEF Advanced
  <2>2. CASE \E s \in mysql_next_result(h) : a.h = s.h
    <3>1. PICK s \in mysql_next_result(h) : a.h = s.h
      BY <2>2
    <3>2. s \in CallResult
      BY CallType
    <3> QED
      BY <3>1, <3>2 DEF CallResult
  <2> QED
    BY <2>1, <2>2
<1>5. CASE a.ec # "ok"
  BY <1>1, <1>3, <1>4, <1>5 DEF Leaves
<1>6. CASE a.ec = "ok"
  <2>1. PICK s \in mysql_store_result(a.h) :
            r.i = [j EXCEPT !.last_result = s.res] /\ r.h = s.h
    BY <1>1, <1>6 DEF Stored
  <2>2. s \in CallResult
    BY <1>4, <2>1, CallType
  <2> DEFINE k == [j EXCEPT !.last_result = s.res]
  <2>3. /\ k \in Implementation /\ k.initialized = j.initialized
        /\ k.alive = j.alive /\ k.cancelation_token = j.cancelation_token
    BY <1>3, <2>2 DEF Implementation, CallResult
  <2>4. r.i = k
    BY <2>1
  <2> HIDE DEF k
  <2> QED
    BY <1>3, <2>1, <2>2, <2>3, <2>4 DEF Leaves, CallResult
<1> QED
  BY <1>5, <1>6

(* A blocking function finds no operation that could notice it.            *)
LEMMA BlockingKeeps ==
    ASSUME MInv, NEW c \in Connectors, NEW outcomes, Blocking(c, outcomes),
           \A r \in outcomes : Leaves(impl[c], r),
           usage' \in [Connectors -> Usages],
           \A d \in Connectors \ {c} : usage'[d] = usage[d],
           \A r \in outcomes : Sane(c)' => Sane(c) /\ Asks(impl[c], r)
    PROVE  MInv'
<1>1. PICK r \in outcomes :
          /\ impl' = [impl EXCEPT ![c] = r.i]
          /\ mysql' = [mysql EXCEPT ![c] = r.h]
          /\ desc' \in SocketAfter(c, r.h, FALSE)
  BY DEF Blocking
<1>2. UNCHANGED <<lib, op, running>> /\ MayBlock(c)
  BY DEF Blocking
<1>3. Leaves(impl[c], r) /\ (Sane(c)' => Sane(c) /\ Asks(impl[c], r))
  OBVIOUS
<1>4. /\ impl' \in [Connectors -> Implementation] /\ impl'[c] = r.i
      /\ mysql' \in [Connectors -> Handle]
      /\ \A d \in Connectors \ {c} : impl'[d] = impl[d] /\ mysql'[d] = mysql[d]
  BY <1>1, <1>3 DEF MInv, TypeOK, Leaves
<1>5. desc' \in Descriptors /\ Tidy(desc') /\ Elsewhere(desc', desc, c)
  BY <1>1, SocketTidy DEF MInv, TypeOK, Descriptors
<1>6. TypeOK'
  BY <1>2, <1>4, <1>5 DEF MInv, TypeOK, Descriptors
<1>7. \A p \in Ops : op[p].conn = c => ~Valid(p)
  BY <1>2 DEF MayBlock, MayUse, Valid, Active, InFlight
<1>8. ASSUME NEW p \in Ops, op[p].conn = c, op[p].st = "waiting"
      PROVE  ~Sane(c)
  BY <1>2, <1>8 DEF MInv, OpInv, OneOp, WaitInv, MayBlock
<1>9. r.i.cancelation_token = impl[c].cancelation_token
  BY <1>3 DEF Leaves
<1>10. OpInv' /\ UniqueInv'
  BY <1>2, <1>3, <1>4, <1>5, <1>7, <1>8, <1>9, IdleKeeps DEF Elsewhere
<1>11. ResultInv'
  <2>1. ASSUME NEW d \in Connectors, ~impl'[d].initialized, Sane(d)'
        PROVE  ~impl'[d].last_result /\ ~impl'[d].first_result_stored
    <3>1. CASE d = c
      BY <1>3, <1>4, <2>1, <3>1 DEF MInv, ResultInv, Leaves, Asks
    <3>2. CASE d # c
      BY <1>4, <2>1, <3>2 DEF MInv, ResultInv, Sane
    <3> QED
      BY <3>1, <3>2
  <2> QED
    BY <2>1 DEF ResultInv
<1>12. DescInv'
  BY <1>5 DEF DescInv, Tidy, Kept, Apart
<1> QED
  BY <1>6, <1>10, <1>11, <1>12 DEF MInv

(* The functions that ask whether the connection is open.                  *)
LEMMA CheckedKeeps ==
    ASSUME MInv, NEW c \in Connectors, NEW outcomes, Checked(c, outcomes),
           \A r \in outcomes : Leaves(impl[c], r) /\ Asks(impl[c], r)
    PROVE  MInv'
<1>1. Blocking(c, outcomes) /\ usage' = usage
  BY DEF Checked
<1>2. usage' \in [Connectors -> Usages]
  BY <1>1 DEF MInv, TypeOK
<1> QED
  BY <1>1, <1>2, BlockingKeeps DEF Sane

(* The functions that do not: on a connection that is not open they are    *)
(* undefined.                                                              *)
LEMMA UncheckedKeeps ==
    ASSUME MInv, NEW c \in Connectors, NEW outcomes, Unchecked(c, outcomes),
           \A r \in outcomes : Leaves(impl[c], r)
    PROVE  MInv'
<1>1. Blocking(c, outcomes)
  BY DEF Unchecked
<1>2. /\ usage' \in [Connectors -> Usages]
      /\ \A d \in Connectors \ {c} : usage'[d] = usage[d]
      /\ usage'[c] # "undefined" =>
            impl[c].initialized /\ usage[c] # "undefined"
  BY DEF Unchecked, MInv, TypeOK, Usages
<1>3. \A r \in outcomes : Sane(c)' => Sane(c) /\ Asks(impl[c], r)
  BY <1>2 DEF Sane, Asks, Leaves
<1> QED
  BY <1>1, <1>2, <1>3, BlockingKeeps

(* Every blocking function keeps the invariant.                            *)
LEMMA AllBlockingKeeps ==
    ASSUME MInv, NEW c \in Connectors,
           \/ \E flags \in Flags : connect(c, flags)
           \/ query(c) \/ store_result(c) \/ set_option(c)
           \/ autocommit(c) \/ commit(c) \/ rollback(c)
    PROVE  MInv'
<1>1. impl[c] \in Implementation /\ mysql[c] \in Handle
  BY DEF MInv, TypeOK
<1>2. ASSUME NEW flags \in Flags, connect(c, flags) PROVE MInv'
  <2>1. flags \in BOOLEAN
    BY FlagsAssumption
  <2> QED
    BY <1>1, <1>2, <2>1, ConnectFacts, CheckedKeeps DEF connect
<1>3. CASE query(c)
  BY <1>1, <1>3, QueryFacts, CheckedKeeps DEF query
<1>4. CASE store_result(c)
  BY <1>1, <1>4, StoreFacts, UncheckedKeeps DEF store_result
<1>5. CASE autocommit(c)
  BY <1>1, <1>5, SimpleFacts, UncheckedKeeps DEF autocommit
<1>6. CASE commit(c)
  BY <1>1, <1>6, SimpleFacts, CheckedKeeps DEF commit
<1>7. CASE rollback(c)
  BY <1>1, <1>7, SimpleFacts, CheckedKeeps DEF rollback
<1>8. CASE set_option(c)
  BY <1>1, <1>8, SimpleFacts, CheckedKeeps DEF set_option
<1> QED
  BY <1>2, <1>3, <1>4, <1>5, <1>6, <1>7, <1>8

-----------------------------------------------------------------------------
(***************************************************************************)
(* The asynchronous functions.                                             *)
(***************************************************************************)
(* The operation an async_ function builds.                                *)
LEMMA NewStateFacts ==
    ASSUME MInv, NEW c \in Connectors, NEW kind, NEW flags, NEW st, NEW ec,
           kind \in Kinds /\ flags \in BOOLEAN /\ ec \in ErrorCodes,
           st \in {"running", "posted"},
           NEW q, q = NewState(c, kind, flags, st, ec)
    PROVE  /\ q \in Operation /\ q.st = st /\ q.conn = c /\ q.ec = ec
           /\ q.cancelation_token = impl[c].cancelation_token
           /\ q.step = "S_ENTRY" /\ q.cancelled = "no"
<1>1. impl[c].cancelation_token \in Nat
  BY DEF MInv, TypeOK, Implementation
<1>2. q = [st |-> st, kind |-> kind, conn |-> c,
           cancelation_token |-> impl[c].cancelation_token,
           flags |-> flags, step |-> "S_ENTRY", wait |-> None, mask |-> {},
           waits |-> 0, ec |-> ec, cancelled |-> "no"]
  BY DEF NewState, NewOperation
<1>3. "S_ENTRY" \in Steps
  BY ContinueFacts
<1> QED
  BY <1>1, <1>2, <1>3 DEF Operation, Events

(* It starts only when every other operation of the connection is expired. *)
LEMMA StartKeeps ==
    ASSUME MInv, NEW o \in Ops, NEW c \in Connectors, MayStart(o, c),
           NEW q \in Operation, op' = [op EXCEPT ![o] = q], q.conn = c,
           q.cancelation_token = impl[c].cancelation_token,
           q.step = "S_ENTRY", q.cancelled = "no",
           \/ /\ q.st = "running" /\ q.ec = "ok" /\ running' = o
              /\ impl'[c].initialized
           \/ q.st = "posted" /\ q.ec # "aborted" /\ running' = running,
           UNCHANGED <<lib, desc, usage>>,
           impl' \in [Connectors -> Implementation],
           mysql' \in [Connectors -> Handle],
           impl'[c].cancelation_token = impl[c].cancelation_token,
           impl'[c].alive = impl[c].alive,
           \A d \in Connectors \ {c} : impl'[d] = impl[d] /\ mysql'[d] = mysql[d],
           ResultInv'
    PROVE  MInv'
<1>1. /\ running = None /\ impl[c].alive /\ op[o].st = "fresh"
      /\ \A p \in Ops : op[p].conn = c => ~Valid(p)
  BY DEF MayStart, MayUse, MayCall, Valid, Active, InFlight
<1>2. op'[o] = q /\ \A p \in Ops \ {o} : op'[p] = op[p]
  BY DEF MInv, TypeOK
<1>3. TypeOK'
  <2>1. op' \in [Ops -> Operation]
    BY DEF MInv, TypeOK
  <2>2. running' \in Ops \cup {None}
    BY DEF MInv, TypeOK
  <2>3. \A p \in Ops : op[p].st # "running"
    BY <1>1, NoneAssumption DEF MInv, TypeOK
  <2>4. \A p \in Ops : running' = p <=> op'[p].st = "running"
    BY <1>1, <1>2, <2>3, NoneAssumption
  <2> QED
    BY <2>1, <2>2, <2>4 DEF MInv, TypeOK
<1>4. ASSUME NEW p \in Ops \ {o}
      PROVE  /\ OneOp(p)' /\ (Valid(p)' => Valid(p)) /\ (Holds(p)' => Holds(p))
             /\ op[p].conn = c => ~Valid(p)'
  <2>1. OneOp(p) /\ op'[p] = op[p]
    BY <1>2 DEF MInv, OpInv
  <2>2. StageInv(p)'
    BY <2>1 DEF OneOp, StageInv
  <2>3. CASE op[p].st \notin Active
    BY <2>1, <2>2, <2>3, AtRest
  <2>4. CASE op[p].st \in Active
    <3>1. op[p].conn \in Connectors
      BY <2>1, <2>4 DEF OneOp, StageInv, Active, InFlight
    <3>2. Expired(p)' <=> Expired(p)
      BY <2>1, <3>1 DEF Expired
    <3>3. (Valid(p)' <=> Valid(p)) /\ (Holds(p)' <=> Holds(p))
      BY <2>1, <3>2 DEF Valid, Holds
    <3>4. CASE op[p].conn # c
      BY <2>1, <3>1, <3>3, <3>4, Untouched
    <3>5. CASE op[p].conn = c
      <4>1. ~Valid(p)'
        BY <1>1, <3>3, <3>5
      <4>2. TokenInv(p)'
        BY <2>1, <3>2, <3>5 DEF OneOp, TokenInv
      <4>3. WaitInv(p)' /\ KnownInv(p)'
        BY <2>1 DEF OneOp, WaitInv, KnownInv, Sane
      <4> QED
        BY <2>2, <3>3, <4>1, <4>2, <4>3 DEF OneOp, CallInv
    <3> QED
      BY <3>4, <3>5
  <2> QED
    BY <2>3, <2>4
<1>5. OneOp(o)' /\ ~Holds(o)'
  <2>1. CASE q.st = "posted"
    <3>1. StageInv(o)'
      BY <1>2, <2>1 DEF StageInv, InFlight
    <3> QED
      BY <1>2, <2>1, <3>1, AtRest DEF Active
  <2>2. CASE /\ q.st = "running" /\ q.ec = "ok" /\ running' = o
             /\ impl'[c].initialized
    <3>1. ~Expired(o)'
      BY <1>2 DEF Expired
    <3>2. impl[c].cancelation_token \in Nat
      BY DEF MInv, TypeOK, Implementation
    <3>3. StageInv(o)' /\ TokenInv(o)'
      BY <1>2, <2>2, <3>1, <3>2 DEF StageInv, TokenInv, InFlight
    <3>4. \A k \in Calls : Continue(k) # "S_ENTRY"
      BY ContinueFacts
    <3>5. CallInv(o)'
      BY <1>1, <1>2, <2>2, <3>4 DEF CallInv
    <3>6. "S_ENTRY" \notin Conts
      BY <3>4 DEF Conts
    <3>7. WaitInv(o)' /\ KnownInv(o)' /\ ~Holds(o)'
      BY <1>2, <2>2, <3>6 DEF WaitInv, KnownInv, Holds
    <3> QED
      BY <3>3, <3>5, <3>7 DEF OneOp
  <2> QED
    BY <2>1, <2>2
<1>6. OpInv'
  BY <1>4, <1>5 DEF OpInv
<1>7. UniqueInv'
  <2> SUFFICES ASSUME NEW p \in Ops, NEW r \in Ops, p # r,
                      op'[p].conn = op'[r].conn
               PROVE  ~(Valid(p)' /\ Valid(r)')
                      /\ ~(Holds(p)' /\ Holds(r)' /\ Sane(op[p].conn)')
    BY DEF UniqueInv
  <2>1. ~(Valid(p)' /\ Valid(r)')
    BY <1>2, <1>4 DEF MInv, UniqueInv
  <2>2. ASSUME Holds(p)', Holds(r)', Sane(op[p].conn)' PROVE FALSE
    <3>1. p # o /\ r # o
      BY <1>5, <2>2
    <3>2. /\ Holds(p) /\ Holds(r) /\ op[p].conn = op[r].conn
          /\ Sane(op[p].conn)
      BY <1>2, <1>4, <2>2, <3>1 DEF Sane
    <3> QED
      BY <3>2 DEF MInv, UniqueInv
  <2> QED
    BY <2>1, <2>2
<1>8. DescInv'
  BY DEF MInv, DescInv, Tidy, Kept, Apart
<1> QED
  BY <1>3, <1>6, <1>7, <1>8 DEF MInv

(* async_connect() opens the connection and asks for the non-blocking mode.*)
LEMMA AsyncConnectKeeps ==
    ASSUME MInv, NEW o \in Ops, NEW c \in Connectors, NEW flags \in Flags,
           async_connect(o, c, flags)
    PROVE  MInv'
<1>1. PICK r \in IF impl[c].initialized
                 THEN {[h |-> mysql[c], ec |-> "ok", res |-> FALSE]}
                 ELSE mysql_init(mysql[c]) :
      \E s \in IF r.ec = "ok" THEN mysql_options(r.h) ELSE {r} :
          /\ mysql' = [mysql EXCEPT ![c] = s.h]
          /\ impl' = [impl EXCEPT ![c].initialized = (r.ec = "ok")]
          /\ IF s.ec = "ok" THEN Start(o, c, "connect", flags)
                            ELSE PostError(o, c, "connect", s.ec)
  BY DEF async_connect
<1>0. PICK s \in IF r.ec = "ok" THEN mysql_options(r.h) ELSE {r} :
          /\ mysql' = [mysql EXCEPT ![c] = s.h]
          /\ impl' = [impl EXCEPT ![c].initialized = (r.ec = "ok")]
          /\ IF s.ec = "ok" THEN Start(o, c, "connect", flags)
                            ELSE PostError(o, c, "connect", s.ec)
  BY <1>1
<1>2. flags \in BOOLEAN
  BY FlagsAssumption
<1>3. impl[c] \in Implementation /\ mysql[c] \in Handle
  BY DEF MInv, TypeOK
<1>4. /\ r.h \in Handle /\ r.ec \in {"ok", "initialization_error"}
      /\ impl[c].initialized => r.ec = "ok"
  BY <1>1, <1>3, FreshType DEF mysql_init
<1>5. /\ s.h \in Handle /\ s.ec \in {"ok", "client", "initialization_error"}
      /\ s.ec = "ok" => r.ec = "ok"
  <2>1. CASE r.ec = "ok"
    <3>1. s \in CallResult
      BY <1>0, <1>4, <2>1, OptionsType
    <3> QED
      BY <2>1, <3>1 DEF CallResult
  <2>2. CASE r.ec # "ok"
    BY <1>0, <1>4, <2>2
  <2> QED
    BY <2>1, <2>2
<1> DEFINE b == r.ec = "ok"
<1>6. /\ b \in BOOLEAN /\ impl' = [impl EXCEPT ![c].initialized = b]
      /\ impl[c].initialized => b
      /\ s.ec = "ok" => b
  BY <1>0, <1>4, <1>5
<1> HIDE DEF b
<1>7. /\ impl' \in [Connectors -> Implementation]
      /\ impl'[c].initialized = b /\ impl'[c].alive = impl[c].alive
      /\ impl'[c].cancelation_token = impl[c].cancelation_token
      /\ impl'[c].last_result = impl[c].last_result
      /\ impl'[c].first_result_stored = impl[c].first_result_stored
      /\ \A d \in Connectors \ {c} : impl'[d] = impl[d]
  BY <1>6 DEF MInv, TypeOK, Implementation
<1>8. /\ mysql' \in [Connectors -> Handle]
      /\ \A d \in Connectors \ {c} : mysql'[d] = mysql[d]
  BY <1>0, <1>5 DEF MInv, TypeOK
<1>9. UNCHANGED <<lib, desc, usage>> /\ MayStart(o, c)
  BY DEF async_connect
<1>10. ResultInv'
  BY <1>6, <1>7, <1>9 DEF MInv, ResultInv, Sane
<1>11. CASE s.ec = "ok"
  <2> DEFINE q == NewState(c, "connect", flags, "running", "ok")
  <2>1. op' = [op EXCEPT ![o] = q] /\ running' = o
    BY <1>0, <1>11 DEF Start
  <2>2. /\ q \in Operation /\ q.st = "running" /\ q.conn = c /\ q.ec = "ok"
        /\ q.cancelation_token = impl[c].cancelation_token
        /\ q.step = "S_ENTRY" /\ q.cancelled = "no"
    BY <1>2, NewStateFacts DEF Kinds, ErrorCodes
  <2>3. impl'[c].initialized
    BY <1>6, <1>7, <1>11
  <2> HIDE DEF q
  <2> QED
    BY <1>7, <1>8, <1>9, <1>10, <2>1, <2>2, <2>3, StartKeeps
<1>12. CASE s.ec # "ok"
  <2> DEFINE no == FALSE
             q == NewState(c, "connect", no, "posted", s.ec)
  <2>1. op' = [op EXCEPT ![o] = q] /\ running' = running
    BY <1>0, <1>12 DEF PostError
  <2>3. no \in BOOLEAN
    OBVIOUS
  <2> HIDE DEF no
  <2>2. /\ q \in Operation /\ q.st = "posted" /\ q.conn = c /\ q.ec = s.ec
        /\ q.cancelation_token = impl[c].cancelation_token
        /\ q.step = "S_ENTRY" /\ q.cancelled = "no"
    BY <1>5, <2>3, NewStateFacts DEF Kinds, ErrorCodes
  <2>4. q.ec # "aborted"
    BY <1>5, <2>2
  <2> HIDE DEF q
  <2> QED
    BY <1>7, <1>8, <1>9, <1>10, <2>1, <2>2, <2>4, StartKeeps
<1> QED
  BY <1>11, <1>12

(* The other three start only on an open connection.                       *)
LEMMA AsyncOnOpenKeeps ==
    ASSUME MInv, NEW o \in Ops, NEW c \in Connectors, NEW kind \in Kinds,
           AsyncOnOpen(o, c, kind)
    PROVE  MInv'
<1>1. UNCHANGED <<impl, mysql, lib, desc, usage>> /\ MayStart(o, c)
  BY DEF AsyncOnOpen
<1>2. /\ impl' \in [Connectors -> Implementation]
      /\ mysql' \in [Connectors -> Handle] /\ ResultInv'
  BY <1>1 DEF MInv, TypeOK, ResultInv, Sane
<1>3. CASE impl[c].initialized
  <2> DEFINE no == FALSE
             q == NewState(c, kind, no, "running", "ok")
  <2>1. op' = [op EXCEPT ![o] = q] /\ running' = o
    BY <1>3 DEF AsyncOnOpen, Start
  <2>3. no \in BOOLEAN
    OBVIOUS
  <2> HIDE DEF no
  <2>2. /\ q \in Operation /\ q.st = "running" /\ q.conn = c /\ q.ec = "ok"
        /\ q.cancelation_token = impl[c].cancelation_token
        /\ q.step = "S_ENTRY" /\ q.cancelled = "no"
    BY <2>3, NewStateFacts DEF ErrorCodes
  <2> HIDE DEF q
  <2> QED
    BY <1>1, <1>2, <1>3, <2>1, <2>2, StartKeeps
<1>4. CASE ~impl[c].initialized
  <2> DEFINE no == FALSE
             q == NewState(c, kind, no, "posted", "not_initialized")
  <2>1. op' = [op EXCEPT ![o] = q] /\ running' = running
    BY <1>4 DEF AsyncOnOpen, PostError
  <2>3. no \in BOOLEAN
    OBVIOUS
  <2> HIDE DEF no
  <2>2. /\ q \in Operation /\ q.st = "posted" /\ q.conn = c
        /\ q.ec = "not_initialized"
        /\ q.cancelation_token = impl[c].cancelation_token
        /\ q.step = "S_ENTRY" /\ q.cancelled = "no"
    BY <2>3, NewStateFacts DEF ErrorCodes
  <2> HIDE DEF q
  <2> QED
    BY <1>1, <1>2, <2>1, <2>2, StartKeeps
<1> QED
  BY <1>3, <1>4

-----------------------------------------------------------------------------
(***************************************************************************)
(* operator().                                                             *)
(***************************************************************************)
(* What is left of an operation whose handler was invoked.                 *)
Ended(c, ec, y) ==
    [NewOperation EXCEPT !.st = "done", !.conn = c, !.ec = ec, !.cancelled = y]

(* It is an operation still, with its connection, error and history.       *)
LEMMA EndState ==
    ASSUME NEW c, c \in Connectors \cup {None}, NEW ec, ec \in ErrorCodes,
           NEW y, y \in {"no", "cancel", "close"}, NEW q, q = Ended(c, ec, y)
    PROVE  /\ q \in Operation /\ q.st = "done" /\ q.ec = ec /\ q.conn = c
           /\ q.cancelled = y
<1>1. "S_ENTRY" \in Steps /\ "query" \in Kinds /\ {} \in SUBSET Events
  BY ContinueFacts DEF Kinds
<1> DEFINE z == [st |-> "done", kind |-> "query", conn |-> c,
                 cancelation_token |-> 0, flags |-> FALSE, step |-> "S_ENTRY",
                 wait |-> None, mask |-> {}, waits |-> 0, ec |-> ec,
                 cancelled |-> y]
<1>2. q = z
  BY DEF NewOperation, Ended
<1>3. z \in Operation
  BY <1>1 DEF Operation
<1>4. z.st = "done" /\ z.ec = ec /\ z.conn = c /\ z.cancelled = y
  OBVIOUS
<1> HIDE DEF z
<1> QED
  BY <1>2, <1>3, <1>4

(* The handler is invoked, by a step or by the io_service.                 *)
LEMMA InvokeFacts ==
    ASSUME TypeOK, NEW o \in Ops, running \in {o, None}, NEW ec,
           ec \in ErrorCodes, Invoke(o, ec)
    PROVE  /\ op' \in [Ops -> Operation] /\ running' = None
           /\ op'[o].st = "done" /\ op'[o].ec = ec
           /\ op'[o].conn = op[o].conn /\ op'[o].cancelled = op[o].cancelled
           /\ \A p \in Ops \ {o} : op'[p] = op[p]
           /\ \A p \in Ops : running' = p <=> op'[p].st = "running"
<1> DEFINE x == op[o].conn
           y == op[o].cancelled
           q == Ended(x, ec, y)
<1>1. op' = [op EXCEPT ![o] = q] /\ running' = None
  BY DEF Invoke, Ended
<1>2. x \in Connectors \cup {None} /\ y \in {"no", "cancel", "close"}
  BY DEF TypeOK, Operation
<1> HIDE DEF x, y
<1>4. /\ q \in Operation /\ q.st = "done" /\ q.ec = ec /\ q.conn = x
      /\ q.cancelled = y
  BY <1>2, EndState
<1> HIDE DEF q
<1>5. q \in Operation
  BY <1>4
<1>6. /\ q.st = "done" /\ q.ec = ec /\ q.conn = op[o].conn
      /\ q.cancelled = op[o].cancelled
  BY <1>4 DEF x, y
<1>7. /\ op' \in [Ops -> Operation] /\ op'[o] = q
      /\ \A p \in Ops \ {o} : op'[p] = op[p]
  BY <1>1, <1>5 DEF TypeOK
<1>8. \A p \in Ops \ {o} : op[p].st # "running"
  BY NoneAssumption DEF TypeOK
<1>9. \A p \in Ops : running' = p <=> op'[p].st = "running"
  BY <1>1, <1>6, <1>7, <1>8, NoneAssumption
<1> QED
  BY <1>1, <1>6, <1>7, <1>9

(* The connections are as open as they were, with the same tokens.         *)
SameConnections ==
    \A d \in Connectors :
        /\ impl'[d].alive = impl[d].alive
        /\ impl'[d].initialized = impl[d].initialized
        /\ impl'[d].cancelation_token = impl[d].cancelation_token

(* A step of o without a word to the library.                              *)
LEMMA QuietKeeps ==
    ASSUME MInv, NEW o \in Ops, UNCHANGED <<mysql, lib, desc, usage>>,
           TypeOK', ResultInv', SameConnections,
           \A p \in Ops \ {o} : op'[p] = op[p],
           op'[o].conn = op[o].conn, OneOp(o)',
           Valid(o)' => Valid(o), Holds(o)' => Holds(o)
    PROVE  MInv'
<1>1. ASSUME NEW p \in Ops \ {o}
      PROVE  OneOp(p)' /\ (Valid(p)' => Valid(p)) /\ (Holds(p)' => Holds(p))
  <2>1. OneOp(p) /\ op'[p] = op[p]
    BY DEF MInv, OpInv
  <2>2. StageInv(p)'
    BY <2>1 DEF OneOp, StageInv
  <2>3. CASE op[p].st \notin Active
    BY <2>1, <2>2, <2>3, AtRest
  <2>4. CASE op[p].st \in Active
    <3>1. op[p].conn \in Connectors
      BY <2>1, <2>4 DEF OneOp, StageInv, Active, InFlight
    <3>2. Expired(p)' <=> Expired(p)
      BY <2>1, <3>1 DEF Expired, SameConnections
    <3>3. (Valid(p)' <=> Valid(p)) /\ (Holds(p)' <=> Holds(p))
      BY <2>1, <3>2 DEF Valid, Holds
    <3>4. TokenInv(p)' /\ CallInv(p)'
      BY <2>1, <3>1, <3>2, <3>3 DEF OneOp, TokenInv, CallInv, SameConnections
    <3>5. WaitInv(p)' /\ KnownInv(p)'
      BY <2>1 DEF OneOp, WaitInv, KnownInv, Sane
    <3> QED
      BY <2>2, <3>3, <3>4, <3>5 DEF OneOp
  <2> QED
    BY <2>3, <2>4
<1>2. OpInv'
  BY <1>1 DEF OpInv
<1>3. \A p \in Ops : Valid(p)' => Valid(p) /\ op'[p].conn = op[p].conn
  BY <1>1
<1>4. \A p \in Ops : Holds(p)' => Holds(p) /\ op'[p].conn = op[p].conn
  BY <1>1
<1>5. \A p \in Ops : Holds(p)' /\ Sane(op[p].conn)' => Sane(op[p].conn)
  BY <1>4 DEF Sane
<1>6. UniqueInv'
  BY <1>3, <1>4, <1>5, FewerUnique DEF MInv
<1>7. DescInv'
  BY DEF MInv, DescInv, Tidy, Kept, Apart
<1> QED
  BY <1>2, <1>6, <1>7 DEF MInv

(* An operation that is finished without a word to the library.            *)
LEMMA SettleKeeps ==
    ASSUME MInv, NEW o \in Ops, running \in {o, None}, NEW ec,
           ec \in ErrorCodes, Invoke(o, ec),
           ec = "aborted" <=> op[o].cancelled # "no",
           UNCHANGED <<mysql, lib, desc, usage>>,
           impl' \in [Connectors -> Implementation], ResultInv',
           SameConnections
    PROVE  MInv'
<1>1. /\ op' \in [Ops -> Operation] /\ running' = None
      /\ op'[o].st = "done" /\ op'[o].ec = ec
      /\ op'[o].conn = op[o].conn /\ op'[o].cancelled = op[o].cancelled
      /\ \A p \in Ops \ {o} : op'[p] = op[p]
      /\ \A p \in Ops : running' = p <=> op'[p].st = "running"
  BY InvokeFacts DEF MInv
<1>2. TypeOK'
  BY <1>1 DEF MInv, TypeOK
<1>3. StageInv(o)'
  BY <1>1 DEF StageInv, InFlight
<1>4. OneOp(o)' /\ ~Valid(o)' /\ ~Holds(o)'
  BY <1>1, <1>3, AtRest DEF Active
<1> QED
  BY <1>1, <1>2, <1>4, QuietKeeps

(* A cancelled operation finds its token expired.                          *)
LEMMA AbortKeeps ==
    ASSUME MInv, NEW o \in Ops, Abort(o)
    PROVE  MInv'
<1>1. running = o /\ op[o].st \in Active
  BY DEF Abort, MInv, TypeOK, Active
<1>2. op[o].cancelled # "no"
  BY <1>1 DEF Abort, MInv, OpInv, OneOp, TokenInv
<1>3. UNCHANGED <<impl, mysql, lib, desc, usage>> /\ Invoke(o, "aborted")
  BY DEF Abort
<1>4. impl' \in [Connectors -> Implementation] /\ ResultInv' /\ SameConnections
  BY <1>3 DEF MInv, TypeOK, ResultInv, Sane, SameConnections
<1>5. "aborted" \in ErrorCodes
  BY DEF ErrorCodes
<1> QED
  BY <1>1, <1>2, <1>3, <1>4, <1>5, SettleKeeps

(* The io_service runs a handler that was posted.                          *)
LEMMA RunPostedKeeps ==
    ASSUME MInv, NEW o \in Ops, RunPosted(o)
    PROVE  MInv'
<1>1. op[o].ec # "aborted" /\ op[o].cancelled = "no"
  BY DEF RunPosted, MInv, OpInv, OneOp, StageInv
<1>2. /\ UNCHANGED <<impl, mysql, lib, desc, usage>> /\ Invoke(o, op[o].ec)
      /\ running = None
  BY DEF RunPosted
<1>3. impl' \in [Connectors -> Implementation] /\ ResultInv' /\ SameConnections
  BY <1>2 DEF MInv, TypeOK, ResultInv, Sane, SameConnections
<1>4. op[o].ec \in ErrorCodes
  BY DEF MInv, TypeOK, Operation
<1> QED
  BY <1>1, <1>2, <1>3, <1>4, SettleKeeps

(* What a step of o may do to the other operations, and to the connection  *)
(* c of o, without their noticing.                                         *)
StepFrame(o, c) ==
    /\ \A p \in Ops \ {o} :
          op'[p] = op[p] \/ (op[p].conn = c /\ op'[p] = Woken(op[p]))
    /\ impl'[c].cancelation_token = impl[c].cancelation_token
    /\ \A d \in Connectors \ {c} :
          /\ impl'[d] = impl[d] /\ mysql'[d] = mysql[d]
          /\ lib'[d] = lib[d] /\ usage'[d] = usage[d]
          /\ desc'[d].reused = desc[d].reused
          /\ desc[d].known /\ ~desc[d].reused => desc'[d].known
    /\ \A p \in Ops \ {o} :
          op[p].conn = c /\ op[p].st = "waiting" => ~Sane(c)'

(* The others keep their invariants.                                       *)
LEMMA OthersKeep ==
    ASSUME MInv, NEW o \in Ops, Valid(o), NEW c \in Connectors, c = op[o].conn,
           StepFrame(o, c), NEW p \in Ops \ {o}
    PROVE  /\ OneOp(p)' /\ op'[p] \in Operation
           /\ op'[p].conn = op[p].conn
           /\ op'[p].st = "running" <=> op[p].st = "running"
           /\ Valid(p)' => Valid(p) /\ op[p].conn # c
           /\ Holds(p)' => /\ Holds(p)
                           /\ op[p].conn # c =>
                                 usage'[op[p].conn] = usage[op[p].conn]
                           /\ op[p].conn = c => ~Sane(c)'
<1>1. OneOp(p) /\ op[p] \in Operation
  BY DEF MInv, OpInv, TypeOK
<1>2. \/ op'[p] = op[p]
      \/ op[p].conn = c /\ op[p].st = "waiting" /\ op'[p] = Woken(op[p])
  BY DEF StepFrame, Woken
<1>3. /\ op'[p] \in Operation
      /\ op'[p].conn = op[p].conn /\ op'[p].step = op[p].step
      /\ op'[p].cancelation_token = op[p].cancelation_token
      /\ op'[p].cancelled = op[p].cancelled
      /\ op'[p].st = "running" <=> op[p].st = "running"
      /\ op'[p].st \in Active <=> op[p].st \in Active
      /\ op'[p].st = "waiting" => op'[p] = op[p]
      /\ op'[p] # op[p] => op'[p].st = "ready" /\ op[p].st = "waiting"
  <2>1. CASE op'[p] = op[p]
    BY <1>1, <2>1
  <2>2. CASE op[p].st = "waiting" /\ op'[p] = Woken(op[p])
    BY <1>1, <2>2, WokenFacts DEF Active
  <2> QED
    BY <1>2, <2>1, <2>2
<1>4. StageInv(p)'
  BY <1>1, <1>3 DEF OneOp, StageInv, InFlight
<1>5. CASE op[p].st \notin Active
  BY <1>3, <1>4, <1>5, AtRest
<1>6. CASE op[p].st \in Active
  <2>1. op[p].conn \in Connectors
    BY <1>1, <1>6 DEF OneOp, StageInv, Active, InFlight
  <2>2. Expired(p)' <=> Expired(p)
    BY <1>3, <2>1 DEF Expired, StepFrame
  <2>3. Valid(p)' <=> Valid(p)
    BY <1>3, <2>2 DEF Valid
  <2>4. Holds(p)' => Holds(p)
    BY <1>3, <2>3 DEF Holds
  <2>5. CASE op[p].conn # c
    <3>1. op'[p] = op[p]
      BY <1>2, <2>5
    <3>2. OneOp(p)'
      BY <1>1, <2>1, <2>5, <3>1, Untouched DEF StepFrame
    <3> QED
      BY <1>3, <2>1, <2>3, <2>4, <2>5, <3>2 DEF StepFrame
  <2>6. CASE op[p].conn = c
    <3>1. ~Valid(p)
      BY <2>6 DEF MInv, UniqueInv
    <3>2. TokenInv(p)'
      BY <1>1, <1>3, <2>2, <2>6, <3>1 DEF OneOp, TokenInv, StepFrame, Valid
    <3>3. op[p].st = "waiting" => ~Sane(c)'
      BY <2>6 DEF StepFrame
    <3>4. WaitInv(p)' /\ KnownInv(p)'
      BY <1>3, <2>6, <3>3 DEF WaitInv, KnownInv, Sane
    <3>5. OneOp(p)'
      BY <1>4, <2>3, <3>1, <3>2, <3>4 DEF OneOp, CallInv
    <3>6. Holds(p)' => op[p].st = "waiting"
      BY <1>3, <2>3, <3>1 DEF Holds
    <3> QED
      BY <1>3, <2>3, <2>4, <2>6, <3>1, <3>3, <3>5, <3>6
  <2> QED
    BY <2>5, <2>6
<1> QED
  BY <1>5, <1>6

(* A step that keeps the invariant of its own operation, and the types and *)
(* descriptors of its connection, keeps them all.                          *)
LEMMA StepKeeps ==
    ASSUME MInv, NEW o \in Ops, running = o, Valid(o), NEW c \in Connectors,
           c = op[o].conn, StepFrame(o, c), OneOp(o)',
           op'[o] \in Operation, op'[o].conn = c,
           op' = [p \in Ops |-> op'[p]],
           \/ running' = None /\ op'[o].st # "running"
           \/ running' = o /\ op'[o].st = "running",
           impl' \in [Connectors -> Implementation], impl'[c].initialized,
           mysql' \in [Connectors -> Handle],
           lib' \in [Connectors -> Calls \cup {None}],
           usage' \in [Connectors -> Usages],
           desc' \in Descriptors, Tidy(desc')
    PROVE  MInv'
<1>1. \A p \in Ops \ {o} : op'[p].st # "running"
  BY OthersKeep DEF MInv, TypeOK
<1>2. op' \in [Ops -> Operation]
  <2>1. \A p \in Ops : op'[p] \in Operation
    BY OthersKeep
  <2> QED
    BY <2>1
<1>3. TypeOK'
  BY <1>1, <1>2, NoneAssumption DEF TypeOK, Descriptors
<1>4. OpInv'
  BY OthersKeep DEF OpInv
<1>5. UniqueInv'
  <2>1. \A p \in Ops \ {o} :
           Valid(p)' => /\ Valid(p) /\ op'[p].conn = op[p].conn
                        /\ op[p].conn # c
    BY OthersKeep
  <2>2. \A p \in Ops \ {o} :
           Holds(p)' => /\ Holds(p) /\ op'[p].conn = op[p].conn
                        /\ op[p].conn # c => usage'[op[p].conn] = usage[op[p].conn]
                        /\ op[p].conn = c => ~Sane(c)'
    BY OthersKeep
  <2> QED
    BY <2>1, <2>2, OneUnique DEF MInv
<1>6. ResultInv'
  BY DEF StepFrame, MInv, ResultInv, Sane
<1>7. DescInv'
  BY DEF DescInv, Tidy, Kept, Apart
<1> QED
  BY <1>3, <1>4, <1>5, <1>6, <1>7 DEF MInv

(* The operation and its connection, as a step that proceeds finds them.   *)
LEMMA ProceedsFacts ==
    ASSUME MInv, NEW o \in Ops, Proceeds(o), NEW c, c = op[o].conn
    PROVE  /\ running = o /\ op[o].st = "running" /\ Valid(o)
           /\ c \in Connectors /\ op[o] \in Operation
           /\ op[o].ec = "ok" /\ op[o].cancelled = "no"
           /\ op[o].cancelation_token = impl[c].cancelation_token
           /\ impl[c] \in Implementation /\ mysql[c] \in Handle
           /\ impl[c].alive /\ impl[c].initialized
           /\ op[o].flags \in BOOLEAN /\ MayWait(o) \in BOOLEAN
<1>1. /\ running = o /\ op[o].st = "running" /\ op[o] \in Operation
      /\ ~Expired(o) /\ op[o].ec = "ok"
  BY DEF Proceeds, MInv, TypeOK
<1>2. Valid(o)
  BY <1>1 DEF Valid, Active
<1>3. OneOp(o)
  BY DEF MInv, OpInv
<1>4. c \in Connectors
  BY <1>1, <1>3 DEF OneOp, StageInv, InFlight
<1>5. op[o].cancelled = "no"
  BY <1>1, <1>3 DEF OneOp, TokenInv, Active
<1>6. impl[c].alive /\ impl[c].initialized
  BY <1>2, <1>3 DEF OneOp, CallInv
<1>7. op[o].cancelation_token = impl[c].cancelation_token
  BY <1>1 DEF Expired
<1>8. op[o].flags \in BOOLEAN /\ MayWait(o) \in BOOLEAN
  BY <1>1 DEF Operation, MayWait
<1>9. impl[c] \in Implementation /\ mysql[c] \in Handle
  BY <1>4 DEF MInv, TypeOK
<1> QED
  BY <1>1, <1>2, <1>4, <1>5, <1>6, <1>7, <1>8, <1>9

(* A call came back: with an error, with a mask, or with its result.       *)
LEMMA ReturnedKeeps ==
    ASSUME MInv, NEW o \in Ops, Proceeds(o), NEW c, c = op[o].conn,
           NEW call \in Calls, NEW i \in Implementation,
           i.alive = impl[c].alive, i.initialized = impl[c].initialized,
           i.cancelation_token = impl[c].cancelation_token,
           NEW r \in Answer, Waiting(mysql[c], r), Returned(o, i, call, r),
           r.status # finish /\ call # "connect" => mysql[c].st = "up",
           usage' \in [Connectors -> Usages],
           \A d \in Connectors \ {c} : usage'[d] = usage[d],
           \A p \in Ops \ {o} :
              op[p].conn = c /\ op[p].st = "waiting" => ~Sane(c)'
    PROVE  MInv'
<1>1. /\ running = o /\ op[o].st = "running" /\ Valid(o)
      /\ c \in Connectors /\ op[o] \in Operation
      /\ op[o].ec = "ok" /\ op[o].cancelled = "no"
      /\ op[o].cancelation_token = impl[c].cancelation_token
      /\ impl[c].alive /\ impl[c].initialized
  BY ProceedsFacts
<1> DEFINE g == call = "store" /\ r.ec = "ok" /\ r.status = finish
           j == IF g THEN [i EXCEPT !.last_result = r.res] ELSE i
           b == call = "connect" /\ r.status # finish
           l == IF r.status = finish THEN None ELSE call
<1>2. /\ impl' = [impl EXCEPT ![c] = j]
      /\ mysql' = [mysql EXCEPT ![c] = r.h]
      /\ lib' = [lib EXCEPT ![c] = l]
  BY DEF Returned
<1>3. /\ r.h \in Handle /\ r.ec \in {"ok", "client"} /\ r.res \in BOOLEAN
      /\ r.status \in SUBSET Events
  BY DEF Answer
<1>4. /\ j \in Implementation /\ j.alive /\ j.initialized
      /\ j.cancelation_token = impl[c].cancelation_token
  BY <1>1, <1>3 DEF Implementation
<1>5. l \in Calls \cup {None} /\ (r.status # finish => l = call)
  OBVIOUS
<1>6. PICK D \in SocketAfter(c, r.h, b) :
       \/ /\ r.ec # "ok"
          /\ Invoke(o, r.ec)
          /\ desc' = D
       \/ /\ r.ec = "ok" /\ r.status # finish
          /\ async_wait_mysql(o, r.status, call, D)
       \/ /\ r.ec = "ok" /\ r.status = finish
          /\ op' = [op EXCEPT ![o].step = "S_STORE_START", ![o].waits = 0]
          /\ desc' = D
          /\ running' = running
       \/ /\ r.ec = "ok"
          /\ \E ec \in IF call = "store" THEN Assigned(r.h, r.res) ELSE {"ok"} :
                Invoke(o, ec)
          /\ desc' = D
  BY DEF Returned
<1>7. /\ D \in Descriptors /\ Tidy(D) /\ Elsewhere(D, desc, c)
      /\ r.status # finish => D[c].sock # None
  <2>1. b \in BOOLEAN /\ (r.status # finish /\ ~b => r.h.st = "up")
    BY DEF Waiting
  <2>2. desc \in Descriptors /\ DescInv
    BY DEF MInv, TypeOK, Descriptors
  <2>3. r.status # finish => r.h.st = "up" \/ b
    BY <2>1
  <2> HIDE DEF b
  <2> QED
    BY <1>1, <1>6, <2>1, <2>2, <2>3, SocketTidy
<1> HIDE DEF g, j, b, l
<1>8. /\ impl' \in [Connectors -> Implementation] /\ impl'[c] = j
      /\ mysql' \in [Connectors -> Handle] /\ mysql'[c] = r.h
      /\ lib' \in [Connectors -> Calls \cup {None}] /\ lib'[c] = l
      /\ \A d \in Connectors \ {c} :
            impl'[d] = impl[d] /\ mysql'[d] = mysql[d] /\ lib'[d] = lib[d]
  BY <1>1, <1>2, <1>3, <1>4, <1>5 DEF MInv, TypeOK
<1>9. ASSUME desc' \in Descriptors, Tidy(desc'), Spared(desc', D, c),
             \A p \in Ops \ {o} :
                op'[p] = op[p] \/ (op[p].conn = c /\ op'[p] = Woken(op[p])),
             OneOp(o)', op'[o] \in Operation, op'[o].conn = c,
             op' = [p \in Ops |-> op'[p]],
             \/ running' = None /\ op'[o].st # "running"
             \/ running' = o /\ op'[o].st = "running"
      PROVE  MInv'
  <2>1. \A d \in Connectors \ {c} :
           /\ desc'[d].reused = desc[d].reused
           /\ desc[d].known /\ ~desc[d].reused => desc'[d].known
    BY <1>7, <1>9 DEF Elsewhere, Spared
  <2>2. StepFrame(o, c)
    BY <1>4, <1>8, <1>9, <2>1 DEF StepFrame
  <2> QED
    BY <1>1, <1>4, <1>8, <1>9, <2>2, StepKeeps
<1>10. Spared(D, D, c)
  BY DEF Spared
<1>11. ASSUME NEW ec, ec \in {"ok", "client"}, Invoke(o, ec), desc' = D
       PROVE  MInv'
  <2>1. ec \in ErrorCodes
    BY <1>11 DEF ErrorCodes
  <2>2. /\ op' \in [Ops -> Operation] /\ running' = None
        /\ op'[o].st = "done" /\ op'[o].ec = ec
        /\ op'[o].conn = op[o].conn /\ op'[o].cancelled = op[o].cancelled
        /\ \A p \in Ops \ {o} : op'[p] = op[p]
    BY <1>1, <1>11, <2>1, InvokeFacts DEF MInv
  <2>3. StageInv(o)'
    BY <1>1, <1>11, <2>2 DEF StageInv, InFlight
  <2>4. OneOp(o)'
    BY <2>2, <2>3, AtRest DEF Active
  <2> QED
    BY <1>7, <1>9, <1>10, <1>11, <2>2, <2>4
<1>12. CASE r.ec # "ok" /\ Invoke(o, r.ec) /\ desc' = D
  BY <1>3, <1>11, <1>12
<1>13. CASE /\ \E ec \in IF call = "store" THEN Assigned(r.h, r.res) ELSE {"ok"} :
                  Invoke(o, ec)
            /\ desc' = D
  <2>1. PICK ec \in IF call = "store" THEN Assigned(r.h, r.res) ELSE {"ok"} :
              Invoke(o, ec)
    BY <1>13
  <2>2. ec \in {"ok", "client"}
    BY <2>1 DEF Assigned, mysql_fetch_row, error_wrapper
  <2> QED
    BY <1>11, <1>13, <2>1, <2>2
<1>14. CASE /\ op' = [op EXCEPT ![o].step = "S_STORE_START", ![o].waits = 0]
            /\ desc' = D
            /\ running' = running
  <2>1. /\ op'[o] \in Operation /\ op'[o].st = "running" /\ op'[o].conn = c
        /\ op'[o].step = "S_STORE_START" /\ op'[o].ec = "ok"
        /\ op'[o].cancelled = "no"
        /\ op'[o].cancelation_token = op[o].cancelation_token
        /\ \A p \in Ops \ {o} : op'[p] = op[p]
        /\ op' = [p \in Ops |-> op'[p]]
    <3>1. "S_STORE_START" \in Steps
      BY ContinueFacts
    <3> DEFINE q == [op[o] EXCEPT !.step = "S_STORE_START", !.waits = 0]
    <3>2. op' = [op EXCEPT ![o] = q]
      BY <1>14 DEF MInv, TypeOK
    <3>3. /\ q \in Operation /\ q.st = op[o].st /\ q.conn = op[o].conn
          /\ q.step = "S_STORE_START" /\ q.ec = op[o].ec
          /\ q.cancelled = op[o].cancelled
          /\ q.cancelation_token = op[o].cancelation_token
      BY <1>1, <3>1 DEF Operation
    <3> HIDE DEF q
    <3>4. op'[o] = q
      BY <3>2 DEF MInv, TypeOK
    <3> QED
      BY <1>1, <3>2, <3>3, <3>4 DEF MInv, TypeOK
  <2>2. ~Expired(o)' /\ impl[c].cancelation_token \in Nat
    BY <1>1, <1>4, <1>8, <2>1 DEF Expired, Implementation, MInv, TypeOK
  <2>3. StageInv(o)' /\ TokenInv(o)'
    BY <1>1, <1>4, <1>8, <2>1, <2>2 DEF StageInv, TokenInv, InFlight
  <2>4. \A k \in Calls : Continue(k) # "S_STORE_START"
    BY ContinueFacts
  <2>5. CallInv(o)' /\ WaitInv(o)' /\ KnownInv(o)'
    BY <1>4, <1>8, <2>1, <2>4 DEF CallInv, WaitInv, KnownInv
  <2>6. OneOp(o)'
    BY <2>3, <2>5 DEF OneOp
  <2> QED
    BY <1>1, <1>7, <1>9, <1>10, <1>14, <2>1, <2>6
<1>15. CASE r.ec = "ok" /\ r.status # finish
            /\ async_wait_mysql(o, r.status, call, D)
  <2> DEFINE w == Awaited(r.status)
             s == IF w = None THEN "lost" ELSE "waiting"
             q == [op[o] EXCEPT !.st = s, !.wait = w, !.mask = r.status,
                      !.waits = op[o].waits + 1, !.step = Continue(call)]
  <2>1. /\ op'[o] = q /\ running' = None
        /\ op' = [p \in Ops |-> op'[p]]
        /\ \A p \in Ops \ {o} :
              op'[p] = op[p] \/ (op[p].conn = c /\ op'[p] = Woken(op[p]))
        /\ desc' = IF r.status \cap {"read", "write"} # {} THEN assign(D, c)
                                                          ELSE D
    BY <1>15 DEF async_wait_mysql
  <2>2. /\ w \in Events \cup {None}
        /\ w \in {"read", "write"} /\ w # None =>
              r.status \cap {"read", "write"} # {}
    BY <1>3, AwaitedFacts
  <2>3. s \in {"waiting", "lost"} /\ (s = "waiting" => w # None)
    OBVIOUS
  <2>4. Continue(call) \in Steps /\ Continue(call) \in Conts
    BY ContinueFacts
  <2> HIDE DEF w, s
  <2>5. /\ q \in Operation /\ q.st = s /\ q.conn = op[o].conn /\ q.wait = w
        /\ q.step = Continue(call) /\ q.ec = op[o].ec
        /\ q.cancelled = op[o].cancelled
        /\ q.cancelation_token = op[o].cancelation_token
    <3> DEFINE x == op[o]
               n == op[o].waits + 1
               k == Continue(call)
               m == r.status
               z == [x EXCEPT !.st = s, !.wait = w, !.mask = m, !.waits = n,
                              !.step = k]
    <3>1. /\ x \in Operation /\ n \in Nat /\ k \in Steps /\ m \in SUBSET Events
          /\ q = z
      BY <1>1, <1>3, <2>4 DEF Operation
    <3> HIDE DEF q, x, n, k, m
    <3>2. z \in Operation
      BY <2>2, <2>3, <3>1 DEF Operation
    <3>3. /\ z.st = s /\ z.conn = x.conn /\ z.wait = w /\ z.step = k
          /\ z.ec = x.ec /\ z.cancelled = x.cancelled
          /\ z.cancelation_token = x.cancelation_token
      BY <3>1 DEF Operation
    <3> HIDE DEF z
    <3> QED
      BY <3>1, <3>2, <3>3 DEF x, k
  <2> HIDE DEF q
  <2>6. /\ desc' \in Descriptors /\ Tidy(desc') /\ Spared(desc', D, c)
        /\ r.status \cap {"read", "write"} # {} /\ ~desc'[c].reused =>
              desc'[c].known
    BY <1>1, <1>7, <1>10, <1>15, <2>1, AssignTidy
  <2>7. ~Expired(o)' /\ impl[c].cancelation_token \in Nat
    BY <1>1, <1>4, <1>8, <2>1, <2>5 DEF Expired, Implementation, MInv, TypeOK
  <2>8. StageInv(o)' /\ TokenInv(o)'
    BY <1>1, <1>4, <1>8, <2>1, <2>3, <2>4, <2>5, <2>7
       DEF StageInv, TokenInv, InFlight
  <2>9. /\ l = call /\ l # None /\ ~r.h.errno
        /\ call # "connect" => r.h.st = "up"
    BY <1>5, <1>15, NoneAssumption DEF Waiting
  <2>10. CallInv(o)'
    <3>1. \A k \in Calls : op'[o].step = Continue(k) => k = call
      BY <2>1, <2>5, ContinueFacts
    <3> QED
      BY <1>1, <1>4, <1>8, <2>1, <2>5, <2>9, <3>1 DEF CallInv
  <2>11. WaitInv(o)' /\ KnownInv(o)'
    BY <1>1, <1>8, <2>1, <2>2, <2>3, <2>5, <2>6, <2>9 DEF WaitInv, KnownInv
  <2>12. OneOp(o)'
    BY <2>8, <2>10, <2>11 DEF OneOp
  <2> QED
    BY <1>1, <1>9, <2>1, <2>3, <2>5, <2>6, <2>12
<1> QED
  BY <1>6, <1>12, <1>13, <1>14, <1>15

(* A call is started: on top of a suspended one it is undefined, otherwise *)
(* nobody waits for the library.                                           *)
LEMMA StartCallKeeps ==
    ASSUME MInv, NEW o \in Ops, Proceeds(o), NEW c, c = op[o].conn,
           NEW call \in Calls, NEW i \in Implementation,
           i.alive = impl[c].alive, i.initialized = impl[c].initialized,
           i.cancelation_token = impl[c].cancelation_token,
           StartCall(o, i, call)
    PROVE  MInv'
<1>1. /\ c \in Connectors /\ mysql[c] \in Handle
      /\ op[o].flags \in BOOLEAN /\ MayWait(o) \in BOOLEAN
  BY ProceedsFacts
<1>2. /\ usage' \in [Connectors -> Usages]
      /\ \A d \in Connectors \ {c} : usage'[d] = usage[d]
      /\ lib[c] # None => usage'[c] = "undefined"
      /\ lib[c] = None => (Sane(c)' <=> Sane(c))
  BY <1>1 DEF StartCall, MInv, TypeOK, Usages, Sane
<1>3. ASSUME NEW p \in Ops \ {o}, op[p].conn = c, op[p].st = "waiting"
      PROVE  ~Sane(c)'
  <2>1. Sane(c) => lib[c] # None
    BY <1>3 DEF MInv, OpInv, OneOp, WaitInv
  <2> QED
    BY <1>2, <2>1 DEF Sane
<1>4. CASE lib[c] # None
  <2>1. PICK r \in mysql_start_busy(mysql[c]) : Returned(o, i, call, r)
    BY <1>4 DEF StartCall
  <2>2. r \in Answer /\ r.status = finish
    BY <1>1, BusyType
  <2> QED
    BY <1>2, <1>3, <2>1, <2>2, ReturnedKeeps DEF Waiting
<1>5. CASE lib[c] = None
  <2>1. PICK r \in mysql_start(call, mysql[c], op[o].flags, MayWait(o)) :
              Returned(o, i, call, r)
    BY <1>5 DEF StartCall
  <2>2. /\ r \in Answer /\ Waiting(mysql[c], r)
        /\ r.status # finish /\ call # "connect" => mysql[c].st = "up"
    BY <1>1, StartType
  <2> QED
    BY <1>2, <1>3, <2>1, <2>2, ReturnedKeeps
<1> QED
  BY <1>4, <1>5

(* The suspended call goes on, and nobody else waits for it.               *)
LEMMA ContKeeps ==
    ASSUME MInv, NEW o \in Ops, NEW call \in Calls, Cont(o, call),
           NEW c, c = op[o].conn
    PROVE  MInv'
<1>1. Proceeds(o) /\ op[o].step = Continue(call) /\ usage' = usage
  BY DEF Cont
<1>2. /\ c \in Connectors /\ mysql[c] \in Handle /\ impl[c] \in Implementation
      /\ op[o].flags \in BOOLEAN /\ MayWait(o) \in BOOLEAN /\ Valid(o)
  BY <1>1, ProceedsFacts
<1>3. PICK r \in mysql_continue(call, mysql[c], op[o].flags, MayWait(o)) :
          Returned(o, impl[c], call, r)
  BY DEF Cont
<1>4. r \in Answer /\ Waiting(mysql[c], r)
  BY <1>2, ContinueType
<1>5. call # "connect" => mysql[c].st = "up"
  BY <1>1, <1>2 DEF MInv, OpInv, OneOp, CallInv
<1>6. ASSUME NEW p \in Ops \ {o}, op[p].conn = c, op[p].st = "waiting"
      PROVE  ~Sane(c)'
  <2>1. Holds(o) /\ Holds(p)
    BY <1>1, <1>2, <1>6, ContinueFacts DEF Holds
  <2> QED
    BY <1>1, <1>6, <2>1 DEF MInv, UniqueInv, Sane
<1>7. usage' \in [Connectors -> Usages]
  BY <1>1 DEF MInv, TypeOK
<1> QED
  BY <1>1, <1>2, <1>3, <1>4, <1>5, <1>6, <1>7, ReturnedKeeps

(* The store is started with the result state it leaves.                   *)
LEMMA StoreStartKeeps ==
    ASSUME MInv, NEW o \in Ops, StoreStart(o)
    PROVE  MInv'
<1> DEFINE c == op[o].conn
           b == impl[c].first_result_stored \/ op[o].kind = "query_result"
           i == [impl[c] EXCEPT !.last_result = FALSE, !.first_result_stored = b]
<1>1. Proceeds(o) /\ StartCall(o, i, "store")
  BY DEF StoreStart
<1>2. impl[c] \in Implementation
  BY <1>1, ProceedsFacts
<1>3. b \in BOOLEAN
  OBVIOUS
<1> HIDE DEF b
<1>4. /\ i \in Implementation /\ i.alive = impl[c].alive
      /\ i.initialized = impl[c].initialized
      /\ i.cancelation_token = impl[c].cancelation_token
  BY <1>2, <1>3 DEF Implementation
<1>5. "store" \in Calls
  BY DEF Calls
<1> HIDE DEF i
<1> QED
  BY <1>1, <1>4, <1>5, StartCallKeeps

(* The first step of an operation.                                         *)
LEMMA EntryKeeps ==
    ASSUME MInv, NEW o \in Ops, Entry(o)
    PROVE  MInv'
<1> DEFINE c == op[o].conn
           f == [impl[c] EXCEPT !.last_result = FALSE]
           g == [f EXCEPT !.first_result_stored = FALSE]
           k == [impl[c] EXCEPT !.flags = op[o].flags]
<1>1. Proceeds(o) /\ op[o].step = "S_ENTRY"
  BY DEF Entry
<1>2. /\ running = o /\ op[o].st = "running" /\ Valid(o)
      /\ c \in Connectors /\ op[o] \in Operation
      /\ op[o].ec = "ok" /\ op[o].cancelled = "no"
      /\ op[o].cancelation_token = impl[c].cancelation_token
      /\ impl[c] \in Implementation /\ op[o].flags \in BOOLEAN
      /\ impl[c].alive /\ impl[c].initialized
  BY <1>1, ProceedsFacts
<1>3. /\ f \in Implementation /\ f.alive = impl[c].alive
      /\ f.initialized = impl[c].initialized
      /\ f.cancelation_token = impl[c].cancelation_token
  BY <1>2 DEF Implementation
<1>4. /\ k \in Implementation /\ k.alive = impl[c].alive
      /\ k.initialized = impl[c].initialized
      /\ k.cancelation_token = impl[c].cancelation_token
  BY <1>2 DEF Implementation
<1>5. \/ StartCall(o, k, "connect")
      \/ StartCall(o, g, "query")
      \/ StartCall(o, f, "next")
      \/ /\ impl' = [impl EXCEPT ![c].first_result_stored = TRUE]
         /\ op' = [op EXCEPT ![o].step = "S_STORE_START"]
         /\ UNCHANGED <<mysql, lib, desc, running, usage>>
      \/ /\ Invoke(o, "no_more_results")
         /\ impl' = [impl EXCEPT ![c] = f]
         /\ UNCHANGED <<mysql, lib, desc, usage>>
  BY DEF Entry
<1> HIDE DEF f, k
<1>6. /\ g \in Implementation /\ g.alive = impl[c].alive
      /\ g.initialized = impl[c].initialized
      /\ g.cancelation_token = impl[c].cancelation_token
  BY <1>3 DEF Implementation
<1> HIDE DEF g
<1>7. "connect" \in Calls /\ "query" \in Calls /\ "next" \in Calls
  BY DEF Calls
<1>8. CASE StartCall(o, k, "connect")
  BY <1>1, <1>4, <1>7, <1>8, StartCallKeeps
<1>9. CASE StartCall(o, g, "query")
  BY <1>1, <1>6, <1>7, <1>9, StartCallKeeps
<1>10. CASE StartCall(o, f, "next")
  BY <1>1, <1>3, <1>7, <1>10, StartCallKeeps
<1>11. CASE /\ impl' = [impl EXCEPT ![c].first_result_stored = TRUE]
            /\ op' = [op EXCEPT ![o].step = "S_STORE_START"]
            /\ UNCHANGED <<mysql, lib, desc, running, usage>>
  <2>1. /\ impl' \in [Connectors -> Implementation] /\ SameConnections
        /\ \A d \in Connectors \ {c} : impl'[d] = impl[d]
    BY <1>2, <1>11 DEF MInv, TypeOK, Implementation, SameConnections
  <2>2. "S_STORE_START" \in Steps
    BY ContinueFacts
  <2>3. /\ op' \in [Ops -> Operation]
        /\ op'[o].st = "running" /\ op'[o].conn = c /\ op'[o].ec = "ok"
        /\ op'[o].step = "S_STORE_START" /\ op'[o].cancelled = "no"
        /\ op'[o].cancelation_token = op[o].cancelation_token
        /\ \A p \in Ops \ {o} : op'[p] = op[p]
    BY <1>2, <1>11, <2>2 DEF MInv, TypeOK, Operation
  <2>4. TypeOK'
    BY <1>2, <1>11, <2>1, <2>3 DEF MInv, TypeOK
  <2>5. ResultInv'
    BY <1>2, <1>11, <2>1 DEF MInv, ResultInv, Sane, SameConnections
  <2>6. ~Expired(o)' /\ impl[c].cancelation_token \in Nat
    BY <1>2, <2>1, <2>3 DEF Expired, SameConnections, Implementation
  <2>7. StageInv(o)' /\ TokenInv(o)'
    BY <1>2, <2>1, <2>3, <2>6 DEF StageInv, TokenInv, InFlight, SameConnections
  <2>8. \A call \in Calls : Continue(call) # "S_STORE_START"
    BY ContinueFacts
  <2>9. CallInv(o)' /\ WaitInv(o)' /\ KnownInv(o)'
    BY <1>2, <2>1, <2>3, <2>8
       DEF CallInv, WaitInv, KnownInv, SameConnections
  <2>10. "S_STORE_START" \notin Conts
    BY <2>8 DEF Conts
  <2>11. OneOp(o)' /\ ~Holds(o)'
    BY <2>3, <2>7, <2>9, <2>10 DEF OneOp, Holds
  <2> QED
    BY <1>2, <1>11, <2>1, <2>3, <2>4, <2>5, <2>11, QuietKeeps
<1>12. CASE /\ Invoke(o, "no_more_results")
            /\ impl' = [impl EXCEPT ![c] = f]
            /\ UNCHANGED <<mysql, lib, desc, usage>>
  <2>1. /\ impl' \in [Connectors -> Implementation] /\ impl'[c] = f
        /\ \A d \in Connectors \ {c} : impl'[d] = impl[d]
    BY <1>2, <1>3, <1>12 DEF MInv, TypeOK
  <2>2. SameConnections
    BY <1>3, <2>1 DEF SameConnections
  <2>3. ResultInv'
    BY <1>2, <1>3, <1>12, <2>1 DEF MInv, ResultInv, Sane
  <2>4. "no_more_results" \in ErrorCodes
    BY DEF ErrorCodes
  <2> QED
    BY <1>2, <1>12, <2>1, <2>2, <2>3, <2>4, SettleKeeps
<1> QED
  BY <1>5, <1>8, <1>9, <1>10, <1>11, <1>12

-----------------------------------------------------------------------------
(***************************************************************************)
(* The io_service, and the invariant.                                      *)
(***************************************************************************)
(* An operation goes from one stage to the next: its wait completes, or    *)
(* its step is run.                                                        *)
LEMMA StageKeeps ==
    ASSUME MInv, NEW o \in Ops, UNCHANGED <<impl, mysql, lib, desc, usage>>,
           op' \in [Ops -> Operation],
           \A p \in Ops \ {o} : op'[p] = op[p],
           op[o].st \in {"waiting", "ready"}, op'[o].st \in {"ready", "running"},
           op'[o].conn = op[o].conn, op'[o].step = op[o].step,
           op'[o].ec = op[o].ec, op'[o].cancelled = op[o].cancelled,
           op'[o].cancelation_token = op[o].cancelation_token,
           running' \in Ops \cup {None},
           \A p \in Ops : running' = p <=> op'[p].st = "running"
    PROVE  MInv'
<1>1. OneOp(o)
  BY DEF MInv, OpInv
<1>2. Expired(o)' <=> Expired(o)
  BY DEF Expired
<1>3. (Valid(o)' <=> Valid(o)) /\ (Holds(o)' => Holds(o))
  BY <1>2 DEF Valid, Holds, Active
<1>4. StageInv(o)' /\ TokenInv(o)'
  BY <1>1, <1>2 DEF OneOp, StageInv, TokenInv, Active, InFlight
<1>5. CallInv(o)' /\ WaitInv(o)' /\ KnownInv(o)'
  BY <1>1, <1>3 DEF OneOp, CallInv, WaitInv, KnownInv
<1>6. OneOp(o)'
  BY <1>4, <1>5 DEF OneOp
<1>7. TypeOK' /\ ResultInv' /\ SameConnections
  BY DEF MInv, TypeOK, ResultInv, Sane, SameConnections
<1> QED
  BY <1>3, <1>6, <1>7, QuietKeeps

(* A wait completes.                                                       *)
LEMMA AwakeKeeps ==
    ASSUME MInv, NEW o \in Ops, op[o].st = "waiting", Awake(o)
    PROVE  MInv'
<1>1. /\ op' = [op EXCEPT ![o].st = "ready"]
      /\ UNCHANGED <<impl, mysql, lib, desc, running, usage>>
  BY DEF Awake
<1>2. /\ op' \in [Ops -> Operation]
      /\ \A p \in Ops \ {o} : op'[p] = op[p]
      /\ op'[o].st = "ready"
      /\ op'[o].conn = op[o].conn /\ op'[o].step = op[o].step
      /\ op'[o].ec = op[o].ec /\ op'[o].cancelled = op[o].cancelled
      /\ op'[o].cancelation_token = op[o].cancelation_token
  BY <1>1 DEF MInv, TypeOK, Operation
<1>3. /\ running' \in Ops \cup {None}
      /\ \A p \in Ops : running' = p <=> op'[p].st = "running"
  BY <1>1, <1>2 DEF MInv, TypeOK
<1> QED
  BY <1>1, <1>2, <1>3, StageKeeps

(* The io_service runs the next step of an operation.                      *)
LEMMA ResumeKeeps ==
    ASSUME MInv, NEW o \in Ops, Resume(o)
    PROVE  MInv'
<1>1. /\ op' = [op EXCEPT ![o].st = "running", ![o].wait = None, ![o].mask = {}]
      /\ UNCHANGED <<impl, mysql, lib, desc, usage>>
      /\ running = None /\ running' = o /\ op[o].st = "ready"
  BY DEF Resume
<1>2. /\ op' \in [Ops -> Operation]
      /\ \A p \in Ops \ {o} : op'[p] = op[p]
      /\ op'[o].st = "running"
      /\ op'[o].conn = op[o].conn /\ op'[o].step = op[o].step
      /\ op'[o].ec = op[o].ec /\ op'[o].cancelled = op[o].cancelled
      /\ op'[o].cancelation_token = op[o].cancelation_token
  <2> DEFINE x == op[o]
             q == [x EXCEPT !.st = "running", !.wait = None, !.mask = {}]
  <2>1. op' = [op EXCEPT ![o] = q] /\ x \in Operation
    BY <1>1 DEF MInv, TypeOK
  <2> HIDE DEF x
  <2>2. q \in Operation
    BY <2>1 DEF Operation
  <2>3. /\ q.st = "running" /\ q.conn = x.conn /\ q.step = x.step
        /\ q.ec = x.ec /\ q.cancelled = x.cancelled
        /\ q.cancelation_token = x.cancelation_token
    BY <2>1 DEF Operation
  <2> HIDE DEF q
  <2>4. op'[o] = q
    BY <2>1 DEF MInv, TypeOK
  <2> QED
    BY <2>1, <2>2, <2>3, <2>4 DEF x, MInv, TypeOK
<1>3. \A p \in Ops : op[p].st # "running"
  BY <1>1, NoneAssumption DEF MInv, TypeOK
<1>4. \A p \in Ops : running' = p <=> op'[p].st = "running"
  BY <1>1, <1>2, <1>3
<1> QED
  BY <1>1, <1>2, <1>4, StageKeeps

(* Every call of the user keeps the invariant.                             *)
LEMMA UserStepKeeps ==
    ASSUME MInv, NEW c \in Connectors, UserStep(c)
    PROVE  MInv'
<1>1. CASE open(c)
  BY <1>1, OpenKeeps
<1>2. CASE cancel(c)
  BY <1>2, CancelKeeps
<1>3. CASE close(c)
  BY <1>3, CloseKeeps DEF close
<1>4. CASE destroy(c)
  BY <1>4, CloseKeeps DEF destroy
<1>5. CASE \/ \E flags \in Flags : connect(c, flags)
           \/ query(c) \/ store_result(c) \/ set_option(c)
           \/ autocommit(c) \/ commit(c) \/ rollback(c)
  BY <1>5, AllBlockingKeeps
<1>6. ASSUME NEW o \in Ops, NEW flags \in Flags, async_connect(o, c, flags)
      PROVE  MInv'
  BY <1>6, AsyncConnectKeeps
<1>7. ASSUME NEW o \in Ops, async_query(o, c) \/ async_store_result(o, c)
                            \/ async_query_result(o, c)
      PROVE  MInv'
  <2>1. PICK kind \in Kinds : AsyncOnOpen(o, c, kind)
    BY <1>7 DEF async_query, async_store_result, async_query_result, Kinds
  <2> QED
    BY <2>1, AsyncOnOpenKeeps
<1> QED
  BY <1>1, <1>2, <1>3, <1>4, <1>5, <1>6, <1>7 DEF UserStep

(* Every step of the system keeps the invariant.                           *)
LEMMA NextMInv == MInv /\ [Next]_vars => MInv'
<1> SUFFICES ASSUME MInv, [Next]_vars PROVE MInv'
  OBVIOUS
<1>1. CASE UNCHANGED vars
  BY <1>1 DEF vars, MInv, TypeOK, OpInv, OneOp, StageInv, TokenInv, CallInv,
              WaitInv, KnownInv, UniqueInv, ResultInv, DescInv, Tidy, Kept,
              Apart, Valid, Holds, Sane, Expired
<1>2. ASSUME NEW c \in Connectors, UserStep(c) PROVE MInv'
  BY <1>2, UserStepKeeps
<1>3. ASSUME NEW o \in Ops, Step(o) \/ IoStep(o) \/ SocketReady(o) PROVE MInv'
  <2>1. CASE Entry(o)
    BY <2>1, EntryKeeps
  <2>2. CASE StoreStart(o)
    BY <2>2, StoreStartKeeps
  <2>3. CASE Abort(o)
    BY <2>3, AbortKeeps
  <2>4. ASSUME NEW call \in Calls, Cont(o, call) PROVE MInv'
    BY <2>4, ContKeeps
  <2>5. CASE TimerExpires(o) \/ SocketReady(o)
    BY <2>5, AwakeKeeps DEF TimerExpires, SocketReady
  <2>6. CASE Resume(o)
    BY <2>6, ResumeKeeps
  <2>7. CASE RunPosted(o)
    BY <2>7, RunPostedKeeps
  <2> QED
    BY <1>3, <2>1, <2>2, <2>3, <2>4, <2>5, <2>6, <2>7 DEF Step, IoStep
<1> QED
  BY <1>1, <1>2, <1>3 DEF Next

(* The invariant of operations, connections and descriptors holds in every *)
(* reachable state.                                                        *)
THEOREM Invariant == Spec => []MInv
BY InitMInv, NextMInv, PTL DEF Spec

(* The types are right, those of the operations' steps and masks included. *)
THEOREM TypeCorrect == Spec => []TypeOK
<1>1. MInv => TypeOK
  BY DEF MInv
<1> QED
  BY <1>1, Invariant, PTL

(* For any number of operations and cancels: the handler is told           *)
(* operation_aborted exactly when the connection was cancelled or closed   *)
(* while the operation was in flight.                                      *)
THEOREM AbortIsExact == Spec => []AbortIffCancelled
<1>1. MInv => AbortIffCancelled
  BY DEF MInv, OpInv, OneOp, StageInv, AbortIffCancelled
<1> QED
  BY <1>1, Invariant, PTL

(* operator() continues the call that is suspended on its connection and   *)
(* no other, and finds the connector alive and open.                       *)
THEOREM CallIsOwn == Spec => []ContinuesOwnCall
<1>1. MInv => ContinuesOwnCall
  <2> SUFFICES ASSUME MInv, NEW o \in Ops, NEW call \in Calls, Proceeds(o),
                      op[o].step = Continue(call)
               PROVE  /\ impl[op[o].conn].alive
                      /\ impl[op[o].conn].initialized
                      /\ lib[op[o].conn] = call
    BY DEF ContinuesOwnCall
  <2>1. Valid(o)
    BY ProceedsFacts
  <2> QED
    BY <2>1 DEF MInv, OpInv, OneOp, CallInv
<1> QED
  BY <1>1, Invariant, PTL

(* A connection that is closed, with whatever operations in flight, keeps  *)
(* no result set and no memory of a stored one.                            *)
THEOREM ResultIsRevoked == Spec => []CloseRevokesResult
<1>1. MInv => CloseRevokesResult
  BY DEF MInv, ResultInv, Sane, CloseRevokesResult
<1> QED
  BY <1>1, Invariant, PTL

(* With any number of connectors that open, close and reuse descriptors,   *)
(* the reactor watches the socket an operation waits for, unless its       *)
(* number came back while an ev_ held it.                                  *)
THEOREM WaitIsKept == Spec => []WaitIsRegistered
<1>1. MInv => WaitIsRegistered
  BY DEF MInv, OpInv, OneOp, KnownInv, Sane, WaitIsRegistered
<1> QED
  BY <1>1, Invariant, PTL

(* A cancelled operation ends, and nothing else is done in its step.       *)
LEMMA CancelledStep ==
    ASSUME MInv, Next, NEW o \in Ops, running = o, op[o].cancelled # "no"
    PROVE  UNCHANGED <<impl, mysql, lib, desc, usage>>
<1>1. running # None
  BY NoneAssumption
<1>2. Expired(o)
  BY DEF MInv, TypeOK, OpInv, OneOp, TokenInv, Active
<1>3. \A p \in Ops : ~Proceeds(p)
  BY <1>2 DEF Proceeds
<1>4. \A c \in Connectors : ~MayCall(c) /\ ~MayUse(c) /\ ~MayBlock(c)
  BY <1>1 DEF MayCall, MayUse, MayBlock
<1>5. ASSUME NEW c \in Connectors, UserStep(c) PROVE FALSE
  <2>1. \A outcomes : ~Checked(c, outcomes) /\ ~Unchecked(c, outcomes)
    BY <1>4 DEF Checked, Unchecked, Blocking
  <2>2. \A p \in Ops : ~MayStart(p, c)
    BY <1>4 DEF MayStart
  <2>3. ~(open(c) \/ cancel(c) \/ close(c) \/ destroy(c))
    BY <1>4 DEF open, cancel, close, destroy
  <2>4. ~(\/ \E flags \in Flags : connect(c, flags)
          \/ query(c) \/ store_result(c) \/ set_option(c)
          \/ autocommit(c) \/ commit(c) \/ rollback(c))
    BY <2>1 DEF connect, query, store_result, set_option, autocommit, commit,
                rollback
  <2>5. \A p \in Ops : ~(\/ \E flags \in Flags : async_connect(p, c, flags)
                         \/ async_query(p, c) \/ async_store_result(p, c)
                         \/ async_query_result(p, c))
    BY <2>2 DEF async_connect, async_query, async_store_result,
                async_query_result, AsyncOnOpen
  <2> QED
    BY <1>5, <2>3, <2>4, <2>5 DEF UserStep
<1>6. ASSUME NEW p \in Ops, Step(p)
      PROVE  UNCHANGED <<impl, mysql, lib, desc, usage>>
  <2>1. Abort(p)
    BY <1>3, <1>6 DEF Step, Entry, StoreStart, Cont
  <2> QED
    BY <2>1 DEF Abort
<1>7. ASSUME NEW p \in Ops, IoStep(p) \/ SocketReady(p)
      PROVE  UNCHANGED <<impl, mysql, lib, desc, usage>>
  BY <1>7 DEF IoStep, SocketReady, TimerExpires, Awake, Resume, RunPosted
<1> QED
  BY <1>5, <1>6, <1>7 DEF Next

(* The steps of a cancelled operation touch no connection, whatever        *)
(* happened to its own since.                                              *)
THEOREM CancelledTouchesNothing == Spec => CancelledIsInert
<1>1. MInv /\ [Next]_vars =>
         [\A o \in Ops : running = o /\ op[o].cancelled # "no" =>
             UNCHANGED <<impl, mysql, lib, desc, usage>>]_vars
  BY CancelledStep
<1> QED
  BY <1>1, Invariant, PTL DEF Spec, CancelledIsInert

-----------------------------------------------------------------------------
(***************************************************************************)
(* The library is idle when a call is started, if every mask has an event  *)
(* that async_wait_mysql() waits for.                                      *)
(***************************************************************************)
WaitsAreAwaited == \A w \in Waits : Awaited(w) # None

(* The suspended call of one connection has its owner.                     *)
Owned(c) ==
    lib[c] # None /\ usage[c] = "sound" =>
        \E o \in Ops : /\ Valid(o) /\ op[o].conn = c
                       /\ op[o].step = Continue(lib[c])

(* The owner of a call is left alone.                                      *)
OwnerStays(p) ==
    Valid(p) /\ op[p].step \in Conts =>
        /\ op'[p].st \in Active /\ op'[p].conn = op[p].conn
        /\ op'[p].step = op[p].step
        /\ op'[p].cancelation_token = op[p].cancelation_token
        /\ impl'[op[p].conn].cancelation_token
              = impl[op[p].conn].cancelation_token

(* A connection whose library and owner are left alone.                    *)
LEMMA OwnedKept ==
    ASSUME TypeOK, OwnerInv, NEW c \in Connectors, lib'[c] = lib[c],
           usage'[c] = "sound" => usage[c] = "sound",
           \A p \in Ops : op[p].conn = c => OwnerStays(p)
    PROVE  Owned(c)'
<1> SUFFICES ASSUME lib'[c] # None, usage'[c] = "sound"
             PROVE  \E o \in Ops : /\ Valid(o)' /\ op'[o].conn = c
                                   /\ op'[o].step = Continue(lib'[c])
  BY DEF Owned
<1>1. PICK o \in Ops : /\ Valid(o) /\ op[o].conn = c
                       /\ op[o].step = Continue(lib[c])
  BY DEF OwnerInv
<1>2. lib[c] \in Calls
  BY DEF TypeOK
<1>3. op[o].step \in Conts
  BY <1>1, <1>2 DEF Conts
<1>4. /\ op'[o].st \in Active /\ op'[o].conn = c /\ op'[o].step = op[o].step
      /\ op'[o].cancelation_token = op[o].cancelation_token
      /\ impl'[c].cancelation_token = impl[c].cancelation_token
  BY <1>1, <1>3 DEF OwnerStays
<1>5. Valid(o)'
  BY <1>1, <1>4 DEF Valid, Expired
<1> QED
  BY <1>1, <1>4, <1>5

(* So it is while nothing happens to the library.                          *)
LEMMA OwnerKept ==
    ASSUME MInv, OwnerInv, lib' = lib,
           \A c \in Connectors : usage'[c] = "sound" => usage[c] = "sound",
           \A c \in Connectors :
              impl'[c].cancelation_token = impl[c].cancelation_token,
           \A p \in Ops : Valid(p) /\ op[p].step \in Conts =>
              /\ op'[p].st \in Active /\ op'[p].conn = op[p].conn
              /\ op'[p].step = op[p].step
              /\ op'[p].cancelation_token = op[p].cancelation_token
    PROVE  OwnerInv'
<1>1. ASSUME NEW p \in Ops PROVE OwnerStays(p)
  <2>1. Valid(p) => op[p].conn \in Connectors
    BY DEF MInv, OpInv, OneOp, StageInv, Valid, Active, InFlight
  <2> QED
    BY <2>1 DEF OwnerStays
<1>2. \A c \in Connectors : Owned(c)'
  BY <1>1, OwnedKept DEF MInv
<1> QED
  BY <1>2 DEF OwnerInv, Owned

(* What happens on one connection leaves the others alone.                 *)
LEMMA OwnerElsewhere ==
    ASSUME MInv, OwnerInv, NEW c \in Connectors, Owned(c)',
           \A d \in Connectors \ {c} :
              impl'[d] = impl[d] /\ lib'[d] = lib[d] /\ usage'[d] = usage[d],
           \A p \in Ops : op[p].conn # c => op'[p] = op[p]
    PROVE  OwnerInv'
<1>1. ASSUME NEW d \in Connectors \ {c} PROVE Owned(d)'
  <2>1. \A p \in Ops : op[p].conn = d => OwnerStays(p)
    BY DEF OwnerStays, Valid
  <2> QED
    BY <2>1, OwnedKept DEF MInv
<1> QED
  BY <1>1 DEF OwnerInv, Owned

(* The blocking functions neither touch tokens nor heal a connection.      *)
LEMMA BlockingOwner ==
    ASSUME MInv, OwnerInv, NEW c \in Connectors,
           \/ \E flags \in Flags : connect(c, flags)
           \/ query(c) \/ store_result(c) \/ set_option(c)
           \/ autocommit(c) \/ commit(c) \/ rollback(c)
    PROVE  OwnerInv'
<1>1. impl[c] \in Implementation /\ mysql[c] \in Handle
  BY DEF MInv, TypeOK
<1>2. ASSUME NEW outcomes, Blocking(c, outcomes),
             usage' = usage \/
             usage' = [usage EXCEPT ![c] = IF impl[c].initialized THEN @
                                                             ELSE "undefined"],
             \A r \in outcomes : Leaves(impl[c], r)
      PROVE  OwnerInv'
  <2>1. PICK r \in outcomes : impl' = [impl EXCEPT ![c] = r.i]
    BY <1>2 DEF Blocking
  <2>2. \A d \in Connectors :
           impl'[d].cancelation_token = impl[d].cancelation_token
    BY <1>2, <2>1 DEF Leaves, MInv, TypeOK
  <2>3. lib' = lib /\ op' = op
    BY <1>2 DEF Blocking
  <2>4. \A d \in Connectors : usage'[d] = "sound" => usage[d] = "sound"
    BY <1>2 DEF MInv, TypeOK
  <2> QED
    BY <2>2, <2>3, <2>4, OwnerKept DEF Valid
<1>3. ASSUME NEW flags \in Flags, connect(c, flags) PROVE OwnerInv'
  <2>1. flags \in BOOLEAN
    BY FlagsAssumption
  <2> QED
    BY <1>1, <1>2, <1>3, <2>1, ConnectFacts DEF connect, Checked
<1>4. CASE query(c)
  BY <1>1, <1>2, <1>4, QueryFacts DEF query, Checked
<1>5. CASE store_result(c)
  BY <1>1, <1>2, <1>5, StoreFacts DEF store_result, Unchecked
<1>6. CASE autocommit(c)
  BY <1>1, <1>2, <1>6, SimpleFacts DEF autocommit, Unchecked
<1>7. CASE commit(c)
  BY <1>1, <1>2, <1>7, SimpleFacts DEF commit, Checked
<1>8. CASE rollback(c)
  BY <1>1, <1>2, <1>8, SimpleFacts DEF rollback, Checked
<1>9. CASE set_option(c)
  BY <1>1, <1>2, <1>9, SimpleFacts DEF set_option, Checked
<1> QED
  BY <1>3, <1>4, <1>5, <1>6, <1>7, <1>8, <1>9

(* open(), cancel(), close() and the destructor.                           *)
LEMMA CloseOwner ==
    ASSUME MInv, OwnerInv, NEW c \in Connectors,
           open(c) \/ cancel(c) \/ close(c) \/ destroy(c)
    PROVE  OwnerInv'
<1>1. CASE open(c)
  <2>1. PICK r : impl' = [impl EXCEPT ![c].initialized = (r.ec = "ok")]
    BY <1>1 DEF open
  <2>2. \A d \in Connectors :
           impl'[d].cancelation_token = impl[d].cancelation_token
    BY <2>1 DEF MInv, TypeOK, Implementation
  <2> QED
    BY <1>1, <2>2, OwnerKept DEF open, Valid
<1>2. CASE cancel(c)
  <2>1. lib' = lib /\ (usage'[c] = "sound" => lib[c] = None)
    BY <1>2 DEF cancel, MInv, TypeOK
  <2>2. Owned(c)'
    BY <2>1 DEF Owned
  <2>3. \A d \in Connectors \ {c} :
           impl'[d] = impl[d] /\ lib'[d] = lib[d] /\ usage'[d] = usage[d]
    BY <1>2 DEF cancel, MInv, TypeOK
  <2>4. \A p \in Ops : op[p].conn # c => op'[p] = op[p]
    BY <1>2 DEF cancel
  <2> QED
    BY <2>2, <2>3, <2>4, OwnerElsewhere
<1>3. CASE close(c) \/ destroy(c)
  <2>1. PICK alive \in BOOLEAN : Close(c, alive)
    BY <1>3 DEF close, destroy
  <2>2. lib'[c] = None
    BY <2>1 DEF Close, MInv, TypeOK
  <2>3. Owned(c)'
    BY <2>2 DEF Owned
  <2>4. \A d \in Connectors \ {c} :
           impl'[d] = impl[d] /\ lib'[d] = lib[d] /\ usage'[d] = usage[d]
    BY <2>1 DEF Close, MInv, TypeOK
  <2>5. \A p \in Ops : op[p].conn # c => op'[p] = op[p]
    BY <2>1 DEF Close
  <2> QED
    BY <2>3, <2>4, <2>5, OwnerElsewhere
<1> QED
  BY <1>1, <1>2, <1>3

(* The asynchronous functions touch an operation that is fresh.            *)
LEMMA AsyncOwner ==
    ASSUME MInv, OwnerInv, NEW o \in Ops, NEW c \in Connectors,
           \/ \E flags \in Flags : async_connect(o, c, flags)
           \/ \E kind \in Kinds : AsyncOnOpen(o, c, kind)
    PROVE  OwnerInv'
<1>1. op[o].st = "fresh" /\ lib' = lib /\ usage' = usage
  BY DEF async_connect, AsyncOnOpen, MayStart
<1>2. \A p \in Ops \ {o} : op'[p] = op[p]
  <2>1. \E q : op' = [op EXCEPT ![o] = q]
    BY DEF async_connect, AsyncOnOpen, Start, PostError
  <2>2. DOMAIN op = Ops
    BY DEF MInv, TypeOK
  <2> QED
    BY <2>1, <2>2
<1>3. \A d \in Connectors :
         impl'[d].cancelation_token = impl[d].cancelation_token
  <2>1. impl' = impl \/ \E r : impl' = [impl EXCEPT ![c].initialized = (r.ec = "ok")]
    BY DEF async_connect, AsyncOnOpen
  <2> QED
    BY <2>1 DEF MInv, TypeOK, Implementation
<1>4. ~Valid(o)
  BY <1>1 DEF Valid, Active
<1>5. \A p \in Ops : Valid(p) => op'[p] = op[p] /\ op[p].st \in Active
  BY <1>2, <1>4 DEF Valid
<1> QED
  BY <1>1, <1>3, <1>5, OwnerKept

(* A call that came back is finished, or its operation waits for it.       *)
LEMMA ReturnedOwner ==
    ASSUME MInv, OwnerInv, WaitsAreAwaited, NEW o \in Ops, Proceeds(o),
           NEW c, c = op[o].conn, NEW call \in Calls, NEW i \in Implementation,
           i.cancelation_token = impl[c].cancelation_token,
           NEW r \in Answer, Waiting(mysql[c], r), Returned(o, i, call, r),
           r.status # finish /\ r.ec # "ok" => usage'[c] # "sound",
           \A d \in Connectors \ {c} : usage'[d] = usage[d]
    PROVE  OwnerInv'
<1>1. /\ op[o].st = "running" /\ c \in Connectors /\ op[o] \in Operation
      /\ op[o].cancelation_token = impl[c].cancelation_token
  BY ProceedsFacts
<1> DEFINE g == call = "store" /\ r.ec = "ok" /\ r.status = finish
           j == IF g THEN [i EXCEPT !.last_result = r.res] ELSE i
           l == IF r.status = finish THEN None ELSE call
<1>2. impl' = [impl EXCEPT ![c] = j] /\ lib' = [lib EXCEPT ![c] = l]
  BY DEF Returned
<1>3. j.cancelation_token = impl[c].cancelation_token
  BY DEF Implementation
<1>4. r.status = finish => l = None
  OBVIOUS
<1>5. r.status # finish => l = call /\ r.status \in Waits
  BY DEF Waiting
<1> HIDE DEF j, l
<1>6. /\ impl'[c].cancelation_token = impl[c].cancelation_token
      /\ lib'[c] = l
      /\ \A d \in Connectors \ {c} : impl'[d] = impl[d] /\ lib'[d] = lib[d]
  BY <1>1, <1>2, <1>3 DEF MInv, TypeOK
<1>7. \A p \in Ops : op[p].conn # c => op'[p] = op[p]
  BY DEF Returned, Invoke, async_wait_mysql, MInv, TypeOK
<1>8. Owned(c)'
  <2>1. CASE r.status = finish
    BY <1>4, <1>6, <2>1 DEF Owned
  <2>2. CASE r.status # finish /\ r.ec # "ok"
    BY <2>2 DEF Owned
  <2>3. CASE r.status # finish /\ r.ec = "ok"
    <3>1. PICK D : async_wait_mysql(o, r.status, call, D)
      BY <1>5, <2>3 DEF Returned
    <3>2. Awaited(r.status) # None
      BY <1>5, <2>3 DEF WaitsAreAwaited
    <3>3. op'[o] = [op[o] EXCEPT !.st = "waiting", !.wait = Awaited(r.status),
                        !.mask = r.status, !.waits = @ + 1,
                        !.step = Continue(call)]
      BY <3>1, <3>2 DEF async_wait_mysql
    <3>4. /\ op'[o].st = "waiting" /\ op'[o].conn = c
          /\ op'[o].step = Continue(call)
          /\ op'[o].cancelation_token = op[o].cancelation_token
      BY <1>1, <3>3 DEF Operation
    <3>5. Valid(o)'
      BY <1>1, <1>6, <3>4 DEF Valid, Active, Expired
    <3> QED
      BY <1>5, <1>6, <2>3, <3>4, <3>5 DEF Owned
  <2> QED
    BY <2>1, <2>2, <2>3
<1> QED
  BY <1>1, <1>6, <1>7, <1>8, OwnerElsewhere

(* A call that is suspended with an error of an earlier call taints the    *)
(* connection.                                                             *)
LEMMA StaleStart ==
    ASSUME MInv, NEW o \in Ops, Proceeds(o), NEW c, c = op[o].conn,
           NEW call \in Calls, NEW i, StartCall(o, i, call),
           NEW r, Waiting(mysql[c], r), Returned(o, i, call, r),
           r.status # finish, r.ec # "ok"
    PROVE  usage'[c] # "sound"
<1>1. c \in Connectors
  BY ProceedsFacts
<1>2. lib'[c] = call /\ mysql'[c] = r.h
  BY <1>1 DEF Returned, MInv, TypeOK
<1>3. call # None /\ r.h.errno
  BY NoneAssumption DEF Waiting
<1> QED
  BY <1>1, <1>2, <1>3 DEF StartCall, MInv, TypeOK

(* A call that is started.                                                 *)
LEMMA StartCallOwner ==
    ASSUME MInv, OwnerInv, WaitsAreAwaited, NEW o \in Ops, Proceeds(o),
           NEW c, c = op[o].conn, NEW call \in Calls, NEW i \in Implementation,
           i.cancelation_token = impl[c].cancelation_token,
           StartCall(o, i, call)
    PROVE  OwnerInv'
<1>1. /\ c \in Connectors /\ mysql[c] \in Handle
      /\ op[o].flags \in BOOLEAN /\ MayWait(o) \in BOOLEAN
  BY ProceedsFacts
<1>2. \A d \in Connectors \ {c} : usage'[d] = usage[d]
  BY DEF StartCall, MInv, TypeOK
<1>3. PICK r \in IF lib[c] # None THEN mysql_start_busy(mysql[c])
                 ELSE mysql_start(call, mysql[c], op[o].flags, MayWait(o)) :
          Returned(o, i, call, r)
  BY DEF StartCall
<1>4. r \in Answer /\ Waiting(mysql[c], r)
  <2>1. CASE lib[c] # None
    BY <1>1, <1>3, <2>1, BusyType DEF Waiting
  <2>2. CASE lib[c] = None
    BY <1>1, <1>3, <2>2, StartType
  <2> QED
    BY <2>1, <2>2
<1>5. r.status # finish /\ r.ec # "ok" => usage'[c] # "sound"
  BY <1>3, <1>4, StaleStart
<1> QED
  BY <1>2, <1>3, <1>4, <1>5, ReturnedOwner

(* The steps of an operation.                                              *)
LEMMA StepOwner ==
    ASSUME MInv, OwnerInv, WaitsAreAwaited, NEW o \in Ops, Step(o)
    PROVE  OwnerInv'
<1> DEFINE c == op[o].conn
<1>1. ASSUME NEW i, i = impl[c] \/ i = [impl[c] EXCEPT !.flags = op[o].flags]
                    \/ (\E b \in BOOLEAN : i = [impl[c] EXCEPT
                           !.last_result = FALSE, !.first_result_stored = b])
                    \/ i = [impl[c] EXCEPT !.last_result = FALSE],
             Proceeds(o)
      PROVE  /\ i \in Implementation
             /\ i.cancelation_token = impl[c].cancelation_token
  <2>1. impl[c] \in Implementation /\ op[o].flags \in BOOLEAN
    BY <1>1, ProceedsFacts
  <2> QED
    BY <1>1, <2>1 DEF Implementation
<1>2. ASSUME lib' = lib, usage' = usage, \A p \in Ops \ {o} : op'[p] = op[p],
             ~(Valid(o) /\ op[o].step \in Conts),
             \A d \in Connectors :
                impl'[d].cancelation_token = impl[d].cancelation_token
      PROVE  OwnerInv'
  <2>1. \A p \in Ops : Valid(p) /\ op[p].step \in Conts =>
           op'[p] = op[p] /\ op[p].st \in Active
    BY <1>2 DEF Valid
  <2> QED
    BY <1>2, <2>1, OwnerKept
<1>3. ASSUME NEW ec, Invoke(o, ec) PROVE \A p \in Ops \ {o} : op'[p] = op[p]
  BY <1>3 DEF Invoke, MInv, TypeOK
<1>4. CASE Abort(o)
  <2>1. op[o].ec # "ok" => Expired(o)
    BY <1>4 DEF Abort, MInv, TypeOK, OpInv, OneOp, TokenInv, Active
  <2>2. ~Valid(o)
    BY <1>4, <2>1 DEF Abort, Valid
  <2> QED
    BY <1>2, <1>3, <1>4, <2>2 DEF Abort
<1>5. CASE StoreStart(o)
  <2> DEFINE b == impl[c].first_result_stored \/ op[o].kind = "query_result"
             i == [impl[c] EXCEPT !.last_result = FALSE, !.first_result_stored = b]
  <2>1. Proceeds(o) /\ StartCall(o, i, "store") /\ "store" \in Calls
    BY <1>5 DEF StoreStart, Calls
  <2>2. b \in BOOLEAN
    OBVIOUS
  <2> HIDE DEF b
  <2>3. i \in Implementation /\ i.cancelation_token = impl[c].cancelation_token
    BY <1>1, <2>1, <2>2
  <2> HIDE DEF i
  <2> QED
    BY <2>1, <2>3, StartCallOwner
<1>6. ASSUME NEW call \in Calls, Cont(o, call) PROVE OwnerInv'
  <2>1. /\ Proceeds(o) /\ usage' = usage /\ op[o].step = Continue(call)
        /\ \E r \in mysql_continue(call, mysql[c], op[o].flags, MayWait(o)) :
              Returned(o, impl[c], call, r)
    BY <1>6 DEF Cont
  <2>2. PICK r \in mysql_continue(call, mysql[c], op[o].flags, MayWait(o)) :
              Returned(o, impl[c], call, r)
    BY <2>1
  <2>3. /\ mysql[c] \in Handle /\ impl[c] \in Implementation
        /\ op[o].flags \in BOOLEAN /\ MayWait(o) \in BOOLEAN /\ Valid(o)
    BY <2>1, ProceedsFacts
  <2>4. ~mysql[c].errno
    BY <2>1, <2>3 DEF MInv, OpInv, OneOp, CallInv
  <2>5. /\ r \in Answer /\ Waiting(mysql[c], r)
        /\ r.status # finish => r.ec = "ok"
    BY <2>3, <2>4, ContinueType
  <2> QED
    BY <2>1, <2>2, <2>3, <2>5, ReturnedOwner
<1>7. CASE Entry(o)
  <2> DEFINE f == [impl[c] EXCEPT !.last_result = FALSE]
             g == [impl[c] EXCEPT !.last_result = FALSE,
                                  !.first_result_stored = FALSE]
             k == [impl[c] EXCEPT !.flags = op[o].flags]
  <2>1. Proceeds(o) /\ op[o].step = "S_ENTRY"
    BY <1>7 DEF Entry
  <2>2. /\ f \in Implementation /\ g \in Implementation /\ k \in Implementation
        /\ f.cancelation_token = impl[c].cancelation_token
        /\ g.cancelation_token = impl[c].cancelation_token
        /\ k.cancelation_token = impl[c].cancelation_token
    <3>1. impl[c] \in Implementation /\ op[o].flags \in BOOLEAN
      BY <2>1, ProceedsFacts
    <3> QED
      BY <3>1 DEF Implementation
  <2>3. \/ StartCall(o, k, "connect")
        \/ StartCall(o, g, "query")
        \/ StartCall(o, f, "next")
        \/ /\ impl' = [impl EXCEPT ![c].first_result_stored = TRUE]
           /\ op' = [op EXCEPT ![o].step = "S_STORE_START"]
           /\ UNCHANGED <<mysql, lib, desc, running, usage>>
        \/ /\ Invoke(o, "no_more_results")
           /\ impl' = [impl EXCEPT ![c] = f]
           /\ UNCHANGED <<mysql, lib, desc, usage>>
    BY <1>7 DEF Entry
  <2>4. "connect" \in Calls /\ "query" \in Calls /\ "next" \in Calls
    BY DEF Calls
  <2> HIDE DEF f, g, k
  <2>5. CASE StartCall(o, k, "connect")
    BY <2>1, <2>2, <2>4, <2>5, StartCallOwner
  <2>6. CASE StartCall(o, g, "query")
    BY <2>1, <2>2, <2>4, <2>6, StartCallOwner
  <2>7. CASE StartCall(o, f, "next")
    BY <2>1, <2>2, <2>4, <2>7, StartCallOwner
  <2>8. ~(Valid(o) /\ op[o].step \in Conts)
    BY <2>1, ContinueFacts DEF Conts
  <2>9. CASE /\ impl' = [impl EXCEPT ![c].first_result_stored = TRUE]
             /\ op' = [op EXCEPT ![o].step = "S_STORE_START"]
             /\ UNCHANGED <<mysql, lib, desc, running, usage>>
    <3>1. \A d \in Connectors :
             impl'[d].cancelation_token = impl[d].cancelation_token
      BY <2>9 DEF MInv, TypeOK, Implementation
    <3>2. \A p \in Ops \ {o} : op'[p] = op[p]
      BY <2>9 DEF MInv, TypeOK
    <3> QED
      BY <1>2, <2>8, <2>9, <3>1, <3>2
  <2>10. CASE /\ Invoke(o, "no_more_results")
              /\ impl' = [impl EXCEPT ![c] = f]
              /\ UNCHANGED <<mysql, lib, desc, usage>>
    <3>1. \A d \in Connectors :
             impl'[d].cancelation_token = impl[d].cancelation_token
      BY <2>2, <2>10 DEF MInv, TypeOK
    <3> QED
      BY <1>2, <1>3, <2>8, <2>10, <3>1
  <2> QED
    BY <2>3, <2>5, <2>6, <2>7, <2>9, <2>10
<1> QED
  BY <1>4, <1>5, <1>6, <1>7 DEF Step

(* The io_service wakes and runs operations, and cancels none.             *)
LEMMA IoOwner ==
    ASSUME MInv, OwnerInv, NEW o \in Ops, IoStep(o) \/ SocketReady(o)
    PROVE  OwnerInv'
<1>1. lib' = lib /\ usage' = usage /\ impl' = impl
  BY DEF IoStep, SocketReady, TimerExpires, Awake, Resume, RunPosted
<1>2. \A p \in Ops \ {o} : op'[p] = op[p]
  BY DEF IoStep, SocketReady, TimerExpires, Awake, Resume, RunPosted, Invoke,
         MInv, TypeOK
<1>3. op[o].st = "posted" \/
      /\ op'[o].st \in Active /\ op'[o].conn = op[o].conn
      /\ op'[o].step = op[o].step
      /\ op'[o].cancelation_token = op[o].cancelation_token
  <2>1. op[o] \in Operation
    BY DEF MInv, TypeOK
  <2>2. \/ op[o].st = "posted"
        \/ op'[o] = [op[o] EXCEPT !.st = "ready"]
        \/ op'[o] = [op[o] EXCEPT !.st = "running", !.wait = None, !.mask = {}]
    BY DEF IoStep, SocketReady, TimerExpires, Awake, Resume, RunPosted, MInv,
           TypeOK
  <2> QED
    BY <2>1, <2>2 DEF Operation, Active
<1>4. \A p \in Ops : Valid(p) =>
         /\ op'[p].st \in Active /\ op'[p].conn = op[p].conn
         /\ op'[p].step = op[p].step
         /\ op'[p].cancelation_token = op[p].cancelation_token
  BY <1>2, <1>3 DEF Valid, Active
<1> QED
  BY <1>1, <1>4, OwnerKept

(* Every suspended call keeps its owner.                                   *)
LEMMA NextOwner ==
    ASSUME WaitsAreAwaited
    PROVE  MInv /\ OwnerInv /\ [Next]_vars => OwnerInv'
<1> SUFFICES ASSUME MInv, OwnerInv, [Next]_vars PROVE OwnerInv'
  OBVIOUS
<1>1. CASE UNCHANGED vars
  BY <1>1 DEF vars, OwnerInv, Valid, Expired
<1>2. ASSUME NEW c \in Connectors, UserStep(c) PROVE OwnerInv'
  <2>1. CASE open(c) \/ cancel(c) \/ close(c) \/ destroy(c)
    BY <2>1, CloseOwner
  <2>2. CASE \/ \E flags \in Flags : connect(c, flags)
             \/ query(c) \/ store_result(c) \/ set_option(c)
             \/ autocommit(c) \/ commit(c) \/ rollback(c)
    BY <2>2, BlockingOwner
  <2>3. ASSUME NEW o \in Ops,
               \/ \E flags \in Flags : async_connect(o, c, flags)
               \/ async_query(o, c) \/ async_store_result(o, c)
               \/ async_query_result(o, c)
        PROVE  OwnerInv'
    <3>1. \/ \E flags \in Flags : async_connect(o, c, flags)
          \/ \E kind \in Kinds : AsyncOnOpen(o, c, kind)
      BY <2>3 DEF async_query, async_store_result, async_query_result, Kinds
    <3> QED
      BY <3>1, AsyncOwner
  <2> QED
    BY <1>2, <2>1, <2>2, <2>3 DEF UserStep
<1>3. ASSUME NEW o \in Ops, Step(o) \/ IoStep(o) \/ SocketReady(o)
      PROVE  OwnerInv'
  BY <1>3, StepOwner, IoOwner
<1> QED
  BY <1>1, <1>2, <1>3 DEF Next

(* For any number of operations: as long as the user cancelled no          *)
(* operation with a call in the library, and no call was suspended with    *)
(* the error of an earlier one, no call is started on top of another one,  *)
(* blocking or not.  The masks have to name an event that                  *)
(* async_wait_mysql() waits for.                                           *)
THEOREM LibraryIsIdle ==
    ASSUME WaitsAreAwaited
    PROVE  Spec => []LibraryIdleOnStart
<1>1. Init => OwnerInv
  BY DEF Init, OwnerInv
<1>2. MInv /\ OwnerInv => LibraryIdleOnStart
  <2> SUFFICES ASSUME MInv, OwnerInv PROVE LibraryIdleOnStart
    OBVIOUS
  <2>1. ASSUME NEW o \in Ops, Proceeds(o),
               op[o].step \in {"S_ENTRY", "S_STORE_START"},
               lib[op[o].conn] # None, usage[op[o].conn] = "sound"
        PROVE  FALSE
    <3>1. Valid(o) /\ op[o].conn \in Connectors
      BY <2>1, ProceedsFacts
    <3>2. PICK p \in Ops : /\ Valid(p) /\ op[p].conn = op[o].conn
                           /\ op[p].step = Continue(lib[op[o].conn])
      BY <2>1, <3>1 DEF OwnerInv
    <3>3. p = o
      BY <3>1, <3>2 DEF MInv, UniqueInv
    <3>4. lib[op[o].conn] \in Calls
      BY <2>1, <3>1 DEF MInv, TypeOK
    <3> QED
      BY <2>1, <3>2, <3>3, <3>4, ContinueFacts
  <2>2. ASSUME NEW c \in Connectors, MayUse(c), lib[c] # None,
               usage[c] = "sound"
        PROVE  FALSE
    <3>1. PICK p \in Ops : Valid(p) /\ op[p].conn = c
      BY <2>2 DEF OwnerInv
    <3> QED
      BY <2>2, <3>1 DEF MayUse, Valid, Active, InFlight
  <2> QED
    BY <2>1, <2>2 DEF LibraryIdleOnStart
<1>3. MInv /\ OwnerInv /\ [Next]_vars => OwnerInv'
  BY NextOwner
<1> QED
  BY <1>1, <1>2, <1>3, Invariant, PTL DEF Spec

-----------------------------------------------------------------------------
(***************************************************************************)
(* The results are read one by one, under the same assumption.             *)
(***************************************************************************)
StoreSteps == {"S_STORE_START", Continue("store")}

(* An operation of the connection is about to take the result that waits.  *)
Storing(c) ==
    \E o \in Ops : /\ Valid(o) /\ op[o].conn = c
                   /\ op[o].step \in StoreSteps

(* What was stored of a connection has been read.                          *)
Taken(c) ==
    usage[c] = "sound" /\ impl[c].first_result_stored =>
        ~mysql[c].unread \/ Storing(c)

(* A query whose call is suspended has forgotten the results before it.    *)
Forgot(o) ==
    Valid(o) /\ op[o].step = Continue("query") =>
        ~impl[op[o].conn].first_result_stored

TakenInv ==
    /\ \A c \in Connectors : Sound(mysql[c]) /\ Taken(c)
    /\ \A o \in Ops : Forgot(o)

(* What a call that came back leaves of the result that waits.             *)
Consumes(call, h, r) ==
    /\ Sound(r.h)
    /\ r.status # finish \/ call = "connect" => (r.h.unread => h.unread)
    /\ r.status = finish /\ call = "store" => ~r.h.unread
    /\ r.status = finish /\ call = "next" /\ r.ec # "ok" =>
          (r.h.unread => h.unread)

(* A finished call did what the blocking one does.                         *)
LEMMA FinishedConsumes ==
    ASSUME NEW h \in Handle, Sound(h), NEW multi \in BOOLEAN,
           NEW call \in Calls, NEW r \in Finished(LibOutcomes(call, h, multi))
    PROVE  Consumes(call, h, r)
<1> DEFINE O == LibOutcomes(call, h, multi)
<1>1. PICK w \in Wrap(O) : r.h = w.h /\ r.ec = w.ec /\ r.status = finish
  <2> HIDE DEF O
  <2>1. PICK o \in O : r = [h |-> o.h, ec |-> error_wrapper(o.failed, o.h),
                            res |-> o.res, status |-> finish]
    BY DEF Finished, O
  <2> DEFINE w == [h |-> o.h, ec |-> error_wrapper(o.failed, o.h),
                   res |-> o.res]
  <2>2. w \in Wrap(O)
    BY DEF Wrap
  <2> QED
    BY <2>1, <2>2
<1>2. CASE call = "connect"
  <2>1. w \in mysql_real_connect(h, multi)
    BY <1>1, <1>2 DEF LibOutcomes, mysql_real_connect
  <2> HIDE DEF O
  <2> QED
    BY <1>1, <1>2, <2>1, ConnectKeeps DEF Consumes
<1>3. CASE call = "query"
  <2>1. w \in mysql_real_query(h)
    BY <1>1, <1>3 DEF LibOutcomes, mysql_real_query
  <2> HIDE DEF O
  <2> QED
    BY <1>1, <1>3, <2>1, QueryKeeps DEF Consumes, KeepsConnection
<1>4. CASE call = "next"
  <2>1. w \in mysql_next_result(h)
    BY <1>1, <1>4 DEF LibOutcomes, mysql_next_result
  <2> HIDE DEF O
  <2> QED
    BY <1>1, <1>4, <2>1, NextKeeps DEF Consumes, KeepsConnection
<1>5. CASE call = "store"
  <2>1. w \in mysql_store_result(h)
    BY <1>1, <1>5 DEF LibOutcomes, mysql_store_result
  <2> HIDE DEF O
  <2> QED
    BY <1>1, <1>5, <2>1, StoreKeeps DEF Consumes, KeepsConnection
<1> QED
  BY <1>2, <1>3, <1>4, <1>5 DEF Calls

(* A suspended call has changed nothing yet.                               *)
LEMMA SuspendedConsumes ==
    ASSUME NEW h \in Handle, Sound(h), NEW call \in Calls,
           NEW r \in Suspended(call, h)
    PROVE  Consumes(call, h, r)
<1>1. PICK e \in BOOLEAN, w \in Waits :
         r = [h |-> [h EXCEPT !.errno = e],
              ec |-> error_wrapper(TRUE, [h EXCEPT !.errno = e]),
              res |-> FALSE, status |-> w]
  BY SuspendedFacts
<1> DEFINE s == [h EXCEPT !.errno = e]
<1>2. /\ s.st = h.st /\ s.unread = h.unread /\ s.columns = h.columns
      /\ s.more = h.more /\ s.multi = h.multi
  BY DEF Handle
<1>3. w # finish
  BY WaitsAssumption DEF finish
<1>4. r.h = s /\ r.status = w
  BY <1>1
<1> HIDE DEF s
<1>5. Sound(s)
  BY <1>2, SameKeeps DEF KeepsConnection
<1> QED
  BY <1>1, <1>2, <1>3, <1>4, <1>5 DEF Consumes

(* A call on top of another one answers anything, and reads nothing.       *)
LEMMA BusySound ==
    ASSUME NEW h \in Handle, Sound(h), NEW r \in mysql_start_busy(h)
    PROVE  Sound(r.h)
<1>1. PICK o \in LibUndefined(h) : r.h = o.h
  BY DEF mysql_start_busy, Finished
<1> QED
  BY <1>1, UndefinedFields, SameKeeps DEF KeepsConnection

(* An operation keeps its place, or was not about to store a result and is *)
(* not in a query.                                                         *)
KeepsPlace(p) ==
    /\ op'[p].conn = op[p].conn /\ op'[p].step = op[p].step
    /\ op'[p].cancelation_token = op[p].cancelation_token
    /\ op'[p].st \in Active <=> op[p].st \in Active

StoresNothing(p) ==
    /\ ~(Valid(p) /\ op[p].step \in StoreSteps)
    /\ op'[p].step # Continue("query")

(* A step after which no more results wait and none was stored.            *)
LEMMA TakenKept ==
    ASSUME MInv, TakenInv,
           \A d \in Connectors :
              /\ Sound(mysql'[d]) /\ (mysql'[d].unread => mysql[d].unread)
              /\ usage'[d] = "sound" => usage[d] = "sound"
              /\ impl'[d].first_result_stored => impl[d].first_result_stored
              /\ impl'[d].cancelation_token = impl[d].cancelation_token,
           \A p \in Ops : KeepsPlace(p) \/ StoresNothing(p)
    PROVE  TakenInv'
<1>1. ASSUME NEW p \in Ops, op[p].st \in Active PROVE op[p].conn \in Connectors
  BY <1>1 DEF MInv, OpInv, OneOp, StageInv, Active, InFlight
<1>2. ASSUME NEW p \in Ops, KeepsPlace(p) PROVE Valid(p)' <=> Valid(p)
  BY <1>1, <1>2 DEF KeepsPlace, Valid, Expired
<1>3. ASSUME NEW d \in Connectors PROVE Taken(d)'
  <2> SUFFICES ASSUME usage'[d] = "sound", impl'[d].first_result_stored,
                      mysql'[d].unread
               PROVE  Storing(d)'
    BY DEF Taken
  <2>1. PICK p \in Ops : /\ Valid(p) /\ op[p].conn = d
                         /\ op[p].step \in StoreSteps
    BY DEF TakenInv, Taken, Storing
  <2>2. KeepsPlace(p)
    BY <2>1 DEF StoresNothing
  <2>3. Valid(p)' /\ op'[p].conn = d /\ op'[p].step \in StoreSteps
    BY <1>2, <2>1, <2>2 DEF KeepsPlace
  <2> QED
    BY <2>3 DEF Storing, StoreSteps
<1>4. ASSUME NEW p \in Ops PROVE Forgot(p)'
  <2> SUFFICES ASSUME Valid(p)', op'[p].step = Continue("query")
               PROVE  ~impl'[op'[p].conn].first_result_stored
    BY DEF Forgot
  <2>1. KeepsPlace(p)
    BY DEF StoresNothing
  <2>2. Valid(p) /\ op[p].step = Continue("query") /\ op'[p].conn = op[p].conn
    BY <1>2, <2>1 DEF KeepsPlace
  <2>3. op[p].conn \in Connectors
    BY <1>1, <2>2 DEF Valid
  <2> QED
    BY <2>2, <2>3 DEF TakenInv, Forgot
<1> QED
  BY <1>3, <1>4 DEF TakenInv

(* What happens on one connection leaves the others in sync.               *)
LEMMA TakenElsewhere ==
    ASSUME MInv, TakenInv, NEW c \in Connectors, Sound(mysql'[c]), Taken(c)',
           \A d \in Connectors \ {c} :
              /\ impl'[d] = impl[d] /\ mysql'[d] = mysql[d]
              /\ usage'[d] = usage[d],
           \A p \in Ops : op[p].conn # c => op'[p] = op[p],
           \A p \in Ops : op[p].conn = c => Forgot(p)'
    PROVE  TakenInv'
<1>1. ASSUME NEW p \in Ops, op[p].st \in Active PROVE op[p].conn \in Connectors
  BY <1>1 DEF MInv, OpInv, OneOp, StageInv, Active, InFlight
<1>2. ASSUME NEW p \in Ops, op[p].conn # c PROVE Valid(p)' <=> Valid(p)
  BY <1>1, <1>2 DEF Valid, Expired
<1>3. ASSUME NEW d \in Connectors \ {c} PROVE Taken(d)' /\ Sound(mysql'[d])
  <2>1. Sound(mysql'[d])
    BY DEF TakenInv
  <2>2. Taken(d)'
    <3> SUFFICES ASSUME usage'[d] = "sound", impl'[d].first_result_stored,
                        mysql'[d].unread
                 PROVE  Storing(d)'
      BY DEF Taken
    <3>1. PICK p \in Ops : /\ Valid(p) /\ op[p].conn = d
                           /\ op[p].step \in StoreSteps
      BY DEF TakenInv, Taken, Storing
    <3>2. Valid(p)' /\ op'[p].conn = d /\ op'[p].step \in StoreSteps
      BY <1>2, <3>1
    <3> QED
      BY <3>2 DEF Storing, StoreSteps
  <2> QED
    BY <2>1, <2>2
<1>4. ASSUME NEW p \in Ops, op[p].conn # c PROVE Forgot(p)'
  <2> SUFFICES ASSUME Valid(p)', op'[p].step = Continue("query")
               PROVE  ~impl'[op'[p].conn].first_result_stored
    BY DEF Forgot
  <2>1. Valid(p) /\ op[p].step = Continue("query") /\ op'[p].conn = op[p].conn
    BY <1>2, <1>4
  <2>2. op[p].conn \in Connectors
    BY <1>1, <2>1 DEF Valid
  <2> QED
    BY <1>4, <2>1, <2>2 DEF TakenInv, Forgot
<1> QED
  BY <1>3, <1>4 DEF TakenInv

(* A blocking function stores no result that it leaves to be read.         *)
Reads(i, h, r) ==
    Sound(h) /\ (i.first_result_stored => ~h.unread) =>
        (r.i.first_result_stored => ~r.h.unread)

Solid(h, r) == Sound(h) => Sound(r.h)

(* The calls that touch the handle and no more.                            *)
LEMMA SimpleReads ==
    ASSUME NEW i \in Implementation, NEW h \in Handle,
           NEW r \in Autocommit(i, h) \cup Commit(i, h) \cup Rollback(i, h)
                     \cup NotOpen(i, h) \cup Outcomes(i, mysql_options(h))
    PROVE  Reads(i, h, r) /\ Solid(h, r)
<1>1. CASE r \in Autocommit(i, h) \cup Commit(i, h) \cup Rollback(i, h)
  <2>1. r.i = i /\ Leaves_h(h, r) /\ (r.h.unread => h.unread)
    BY <1>1, CommandHandle
  <2> QED
    BY <2>1 DEF Reads, Solid, Leaves_h, KeepsConnection
<1>2. CASE r \in NotOpen(i, h)
  <2>1. r.i = i /\ r.h = h
    BY <1>2 DEF NotOpen
  <2> QED
    BY <2>1 DEF Reads, Solid
<1>3. CASE r \in Outcomes(i, mysql_options(h))
  <2>1. PICK s \in mysql_options(h) : r.i = i /\ r.h = s.h
    BY <1>3 DEF Outcomes
  <2>2. Leaves_h(h, s) /\ s.h.unread = h.unread
    BY <2>1, OptionsHandle
  <2> QED
    BY <2>1, <2>2 DEF Reads, Solid, Leaves_h, KeepsConnection
<1> QED
  BY <1>1, <1>2, <1>3

(* Nothing waits in a fresh handle.                                        *)
LEMMA InitReads ==
    ASSUME NEW h, NEW s \in mysql_init(h)
    PROVE  /\ Solid(h, s) /\ (s.h.unread => h.unread)
<1>1. s.h = h \/ s.h = FreshHandle
  BY DEF mysql_init
<1>2. FreshHandle.unread = FALSE /\ FreshHandle.more = 0 /\ FreshHandle.st = "init"
  BY DEF FreshHandle, RawHandle
<1> QED
  BY <1>1, <1>2 DEF Solid, Sound

(* connect() stores nothing and leaves nothing to be read.                 *)
LEMMA ConnectReads ==
    ASSUME NEW i \in Implementation, NEW h \in Handle, NEW flags \in BOOLEAN,
           NEW r \in Connect(i, h, flags)
    PROVE  Reads(i, h, r) /\ Solid(h, r)
<1>1. PICK o \in Open(i, h) :
              \/ o.ec # "ok" /\ r = o
              \/ /\ o.ec = "ok" /\ r.i = [o.i EXCEPT !.flags = flags]
                 /\ \E s \in mysql_real_connect(o.h, flags) :
                       r.h = s.h /\ r.ec = s.ec
  BY ConnectParts
<1>2. /\ o.i \in Implementation /\ o.h \in Handle
      /\ o.i.first_result_stored = i.first_result_stored
      /\ Solid(h, o) /\ (o.h.unread => h.unread)
  <2>1. CASE i.initialized
    BY <1>1, <2>1 DEF Open, Solid
  <2>2. CASE ~i.initialized
    <3>1. PICK s \in mysql_init(h) :
              o = [i |-> [i EXCEPT !.initialized = (s.ec = "ok")], h |-> s.h,
                   ec |-> s.ec]
      BY <1>1, <2>2 DEF Open
    <3>2. s.h \in Handle
      BY <3>1, FreshType DEF mysql_init
    <3> DEFINE b == s.ec = "ok"
               j == [i EXCEPT !.initialized = b]
    <3>3. b \in BOOLEAN /\ o.i = j /\ o.h = s.h
      BY <3>1
    <3> HIDE DEF b
    <3>4. /\ j \in Implementation
          /\ j.first_result_stored = i.first_result_stored
      BY <3>3 DEF Implementation
    <3> HIDE DEF j
    <3>5. Solid(h, s) /\ (s.h.unread => h.unread)
      BY InitReads
    <3> QED
      BY <3>2, <3>3, <3>4, <3>5 DEF Solid
  <2> QED
    BY <2>1, <2>2
<1>3. CASE r = o
  BY <1>2, <1>3 DEF Reads
<1>4. CASE /\ r.i = [o.i EXCEPT !.flags = flags]
           /\ \E s \in mysql_real_connect(o.h, flags) : r.h = s.h
  <2>1. PICK s \in mysql_real_connect(o.h, flags) : r.h = s.h
    BY <1>4
  <2>2. (Sound(o.h) => Sound(s.h)) /\ (s.h.unread => o.h.unread)
    BY <1>2, ConnectKeeps
  <2>3. r.i.first_result_stored = i.first_result_stored
    BY <1>2, <1>4 DEF Implementation
  <2> QED
    BY <1>2, <2>1, <2>2, <2>3 DEF Reads, Solid
<1> QED
  BY <1>1, <1>3, <1>4

(* query() forgets that a result was stored.                               *)
LEMMA QueryReads ==
    ASSUME NEW i \in Implementation, NEW h \in Handle,
           NEW r \in QueryResult(i, h)
    PROVE  Reads(i, h, r) /\ Solid(h, r)
<1>1. Leaves_h(h, r)
  BY QueryHandle
<1>2. Solid(h, r)
  BY <1>1 DEF Solid, Leaves_h, KeepsConnection
<1>3. CASE ~i.initialized
  <2>1. r.i = i /\ r.h = h
    BY <1>3 DEF QueryResult, NotOpen
  <2> QED
    BY <1>2, <2>1 DEF Reads
<1>4. CASE i.initialized
  <2>1. r.i = [i EXCEPT !.last_result = FALSE, !.first_result_stored = FALSE]
    BY <1>4 DEF QueryResult
  <2>2. r.i.first_result_stored = FALSE
    BY <2>1 DEF Implementation
  <2> QED
    BY <1>2, <2>2 DEF Reads
<1> QED
  BY <1>3, <1>4

(* store_result() reads what it stores.                                    *)
LEMMA StoreReads ==
    ASSUME NEW i \in Implementation, NEW h \in Handle,
           NEW r \in StoreResult(i, h, "ok")
    PROVE  Reads(i, h, r) /\ Solid(h, r)
<1>1. Stores(i, h, "ok", r)
  BY StoreHandle DEF ErrorCodes
<1>2. Leaves_h(h, r)
  BY <1>1 DEF Stores
<1>3. Sound(h) /\ (i.first_result_stored => ~h.unread) => r.h.unread = FALSE
  BY <1>1 DEF Stores
<1> QED
  BY <1>2, <1>3 DEF Reads, Solid, Leaves_h, KeepsConnection

(* The blocking functions find no operation that could still store.        *)
LEMMA BlockingTaken ==
    ASSUME MInv, TakenInv, NEW c \in Connectors,
           \/ \E flags \in Flags : connect(c, flags)
           \/ query(c) \/ store_result(c) \/ set_option(c)
           \/ autocommit(c) \/ commit(c) \/ rollback(c)
    PROVE  TakenInv'
<1>1. impl[c] \in Implementation /\ mysql[c] \in Handle
  BY DEF MInv, TypeOK
<1>2. ASSUME NEW outcomes, Blocking(c, outcomes),
             usage' = usage \/
             usage' = [usage EXCEPT ![c] = IF impl[c].initialized THEN @
                                                             ELSE "undefined"],
             \A r \in outcomes : Leaves(impl[c], r),
             \A r \in outcomes : Reads(impl[c], mysql[c], r) /\ Solid(mysql[c], r)
      PROVE  TakenInv'
  <2>1. PICK r \in outcomes : /\ impl' = [impl EXCEPT ![c] = r.i]
                              /\ mysql' = [mysql EXCEPT ![c] = r.h]
    BY <1>2 DEF Blocking
  <2>2. /\ Leaves(impl[c], r) /\ Reads(impl[c], mysql[c], r)
        /\ Solid(mysql[c], r)
    BY <1>2
  <2>3. op' = op /\ MayUse(c)
    BY <1>2 DEF Blocking, MayBlock
  <2>4. /\ impl'[c] = r.i /\ mysql'[c] = r.h
        /\ \A d \in Connectors \ {c} : impl'[d] = impl[d] /\ mysql'[d] = mysql[d]
        /\ \A d \in Connectors \ {c} : usage'[d] = usage[d]
        /\ usage'[c] = "sound" => usage[c] = "sound"
    BY <1>2, <2>1 DEF MInv, TypeOK
  <2>5. \A p \in Ops : op[p].conn = c => ~Valid(p) /\ ~Valid(p)'
    BY <2>2, <2>3, <2>4
       DEF MayUse, Valid, Expired, Active, InFlight, Leaves
  <2>6. Sound(mysql[c]) /\ Taken(c) /\ ~Storing(c)
    BY <2>5 DEF TakenInv, Storing
  <2>7. Sound(mysql'[c])
    BY <2>2, <2>4, <2>6 DEF Solid
  <2>8. Taken(c)'
    BY <2>2, <2>4, <2>6 DEF Taken, Reads
  <2>9. \A p \in Ops : op[p].conn = c => Forgot(p)'
    BY <2>5 DEF Forgot
  <2> QED
    BY <2>3, <2>4, <2>7, <2>8, <2>9, TakenElsewhere
<1>3. ASSUME NEW flags \in Flags, connect(c, flags) PROVE TakenInv'
  <2>1. flags \in BOOLEAN
    BY FlagsAssumption
  <2> QED
    BY <1>1, <1>2, <1>3, <2>1, ConnectFacts, ConnectReads DEF connect, Checked
<1>4. CASE query(c)
  BY <1>1, <1>2, <1>4, QueryFacts, QueryReads DEF query, Checked
<1>5. CASE store_result(c)
  BY <1>1, <1>2, <1>5, StoreFacts, StoreReads DEF store_result, Unchecked
<1>6. CASE autocommit(c)
  BY <1>1, <1>2, <1>6, SimpleFacts, SimpleReads DEF autocommit, Unchecked
<1>7. CASE commit(c)
  BY <1>1, <1>2, <1>7, SimpleFacts, SimpleReads DEF commit, Checked
<1>8. CASE rollback(c)
  BY <1>1, <1>2, <1>8, SimpleFacts, SimpleReads DEF rollback, Checked
<1>9. CASE set_option(c)
  BY <1>1, <1>2, <1>9, SimpleFacts, SimpleReads DEF set_option, Checked
<1> QED
  BY <1>3, <1>4, <1>5, <1>6, <1>7, <1>8, <1>9

(* open() leaves nothing to be read, close() nothing stored; cancel()      *)
(* forgets an operation that is storing only with a call in the library.   *)
LEMMA CloseTaken ==
    ASSUME MInv, TakenInv, NEW c \in Connectors,
           open(c) \/ cancel(c) \/ close(c) \/ destroy(c)
    PROVE  TakenInv'
<1>0. /\ impl[c] \in Implementation /\ mysql[c] \in Handle
      /\ \A p \in Ops : op[p] \in Operation
  BY DEF MInv, TypeOK
<1>1. CASE open(c)
  <2>1. PICK r \in mysql_init(mysql[c]) :
            /\ mysql' = [mysql EXCEPT ![c] = r.h]
            /\ impl' = [impl EXCEPT ![c].initialized = (r.ec = "ok")]
    BY <1>1 DEF open
  <2>2. op' = op /\ usage' = usage
    BY <1>1 DEF open
  <2>3. Solid(mysql[c], r) /\ (r.h.unread => mysql[c].unread)
    BY InitReads
  <2>4. \A d \in Connectors :
            /\ Sound(mysql'[d]) /\ (mysql'[d].unread => mysql[d].unread)
    BY <2>1, <2>3 DEF MInv, TypeOK, TakenInv, Solid
  <2>5. \A d \in Connectors :
            /\ impl'[d].first_result_stored = impl[d].first_result_stored
            /\ impl'[d].cancelation_token = impl[d].cancelation_token
    BY <2>1 DEF MInv, TypeOK, Implementation
  <2>6. \A p \in Ops : KeepsPlace(p)
    BY <2>2 DEF KeepsPlace
  <2> QED
    BY <2>2, <2>4, <2>5, <2>6, TakenKept
<1>2. CASE cancel(c)
  <2>1. /\ mysql' = mysql /\ running = None
        /\ impl'[c].first_result_stored = impl[c].first_result_stored
        /\ impl'[c].cancelation_token = impl[c].cancelation_token + 1
        /\ usage'[c] = "sound" => usage[c] = "sound" /\ lib[c] = None
    BY <1>0, <1>2 DEF cancel, MayCall, FreshToken, MInv, TypeOK, Implementation
  <2>2. \A d \in Connectors \ {c} : impl'[d] = impl[d] /\ usage'[d] = usage[d]
    BY <1>2 DEF cancel, MInv, TypeOK
  <2>3. ASSUME NEW p \in Ops
        PROVE  IF op[p].conn = c THEN op'[p] = Cancelled(op[p], "cancel")
                                 ELSE op'[p] = op[p]
    BY <1>2 DEF cancel
  <2>4. ASSUME NEW p \in Ops, op[p].conn = c PROVE Forgot(p)'
    <3>1. /\ op'[p].st = op[p].st /\ op'[p].conn = c
          /\ op'[p].cancelation_token = op[p].cancelation_token
      BY <1>0, <2>3, <2>4, CancelledFacts
    <3>2. ~Valid(p)'
      BY <2>1, <2>4, <3>1, AllExpire DEF Valid
    <3> QED
      BY <3>2 DEF Forgot
  <2>5. ASSUME usage'[c] = "sound" PROVE ~Storing(c)
    <3> SUFFICES ASSUME NEW p \in Ops, Valid(p), op[p].conn = c,
                        op[p].step \in StoreSteps
                 PROVE  FALSE
      BY DEF Storing
    <3>1. op[p].st # "running"
      BY <2>1, NoneAssumption DEF MInv, TypeOK
    <3>2. op[p].step \in Conts /\ CallInv(p)
      BY <3>1 DEF MInv, OpInv, OneOp, StageInv, Valid, Active
    <3>3. op[p].step = Continue("store") /\ "store" \in Calls
      BY <3>2, ContinueFacts DEF StoreSteps, Calls, Conts
    <3>4. lib[c] = "store"
      BY <3>2, <3>3 DEF CallInv
    <3> QED
      BY <2>1, <2>5, <3>3, <3>4, NoneAssumption
  <2>6. Sound(mysql'[c]) /\ Taken(c)'
    BY <2>1, <2>5 DEF TakenInv, Taken
  <2> QED
    BY <2>1, <2>2, <2>3, <2>4, <2>6, TakenElsewhere
<1>3. CASE close(c) \/ destroy(c)
  <2>1. PICK alive \in BOOLEAN : Close(c, alive)
    BY <1>3 DEF close, destroy
  <2>2. mysql'[c] = RawHandle /\ ~impl'[c].first_result_stored
    BY <1>0, <2>1 DEF Close, FreshToken, MInv, TypeOK, Implementation
  <2>3. \A d \in Connectors \ {c} : /\ impl'[d] = impl[d] /\ mysql'[d] = mysql[d]
                                    /\ usage'[d] = usage[d]
    BY <2>1 DEF Close, MInv, TypeOK
  <2>4. ASSUME NEW p \in Ops
        PROVE  IF op[p].conn = c THEN op'[p] = Woken(Cancelled(op[p], "close"))
                                 ELSE op'[p] = op[p]
    BY <2>1 DEF Close
  <2>5. ASSUME NEW p \in Ops, op[p].conn = c PROVE Forgot(p)'
    <3>1. PICK q : q = Cancelled(op[p], "close")
      OBVIOUS
    <3>2. q \in Operation /\ q.conn = c
      BY <1>0, <2>5, <3>1, CancelledFacts
    <3>3. op'[p].conn = c
      BY <2>4, <2>5, <3>1, <3>2, WokenFacts
    <3> QED
      BY <2>2, <3>3 DEF Forgot
  <2>6. Sound(mysql'[c]) /\ Taken(c)'
    BY <2>2 DEF Sound, RawHandle, Taken
  <2> QED
    BY <2>3, <2>4, <2>5, <2>6, TakenElsewhere
<1> QED
  BY <1>1, <1>2, <1>3

(* The asynchronous functions touch an operation that is fresh.            *)
LEMMA AsyncTaken ==
    ASSUME MInv, TakenInv, NEW o \in Ops, NEW c \in Connectors,
           \/ \E flags \in Flags : async_connect(o, c, flags)
           \/ \E kind \in Kinds : AsyncOnOpen(o, c, kind)
    PROVE  TakenInv'
<1>1. op[o].st = "fresh" /\ usage' = usage
  BY DEF async_connect, AsyncOnOpen, MayStart
<1>2. \A kind, flags, st, ec : NewState(c, kind, flags, st, ec).step = "S_ENTRY"
  BY DEF NewState, NewOperation
<1>3. (\A p \in Ops \ {o} : op'[p] = op[p]) /\ op'[o].step = "S_ENTRY"
  <2>1. DOMAIN op = Ops
    BY DEF MInv, TypeOK
  <2>2. ASSUME NEW kind, NEW flags, Start(o, c, kind, flags)
        PROVE  (\A p \in Ops \ {o} : op'[p] = op[p]) /\ op'[o].step = "S_ENTRY"
    BY <1>2, <2>1, <2>2 DEF Start
  <2>3. ASSUME NEW kind, NEW ec, PostError(o, c, kind, ec)
        PROVE  (\A p \in Ops \ {o} : op'[p] = op[p]) /\ op'[o].step = "S_ENTRY"
    BY <1>2, <2>1, <2>3 DEF PostError
  <2>4. CASE \E kind \in Kinds : AsyncOnOpen(o, c, kind)
    BY <2>2, <2>3, <2>4 DEF AsyncOnOpen
  <2>5. CASE \E flags \in Flags : async_connect(o, c, flags)
    <3>1. \E flags, ec : Start(o, c, "connect", flags)
                         \/ PostError(o, c, "connect", ec)
      BY <2>5 DEF async_connect
    <3> QED
      BY <2>2, <2>3, <3>1
  <2> QED
    BY <2>4, <2>5
<1>4. \A p \in Ops : KeepsPlace(p) \/ StoresNothing(p)
  <2>1. StoresNothing(o)
    BY <1>1, <1>3, ContinueFacts DEF StoresNothing, Valid, Active, Calls
  <2>2. \A p \in Ops \ {o} : KeepsPlace(p)
    BY <1>3 DEF KeepsPlace
  <2> QED
    BY <2>1, <2>2
<1>5. \A d \in Connectors :
         /\ impl'[d].first_result_stored = impl[d].first_result_stored
         /\ impl'[d].cancelation_token = impl[d].cancelation_token
  <2>1. impl' = impl \/ \E r : impl' = [impl EXCEPT ![c].initialized = (r.ec = "ok")]
    BY DEF async_connect, AsyncOnOpen
  <2> QED
    BY <2>1 DEF MInv, TypeOK, Implementation
<1>6. \A d \in Connectors :
         Sound(mysql'[d]) /\ (mysql'[d].unread => mysql[d].unread)
  <2>1. CASE mysql' = mysql
    BY <2>1 DEF TakenInv
  <2>2. CASE \E flags \in Flags : async_connect(o, c, flags)
    <3> DEFINE R == IF impl[c].initialized
                    THEN {[h |-> mysql[c], ec |-> "ok", res |-> FALSE]}
                    ELSE mysql_init(mysql[c])
    <3>1. PICK r \in R :
             \E s \in IF r.ec = "ok" THEN mysql_options(r.h) ELSE {r} :
                mysql' = [mysql EXCEPT ![c] = s.h]
      BY <2>2 DEF async_connect
    <3>2. PICK s \in IF r.ec = "ok" THEN mysql_options(r.h) ELSE {r} :
             mysql' = [mysql EXCEPT ![c] = s.h]
      BY <3>1
    <3>3. /\ r.h = mysql[c] \/ r \in mysql_init(mysql[c])
          /\ s = r \/ s \in mysql_options(r.h)
          /\ mysql' = [mysql EXCEPT ![c] = s.h]
      <4>1. r.h = mysql[c] \/ r \in mysql_init(mysql[c])
        <5>1. CASE impl[c].initialized
          <6>1. r = [h |-> mysql[c], ec |-> "ok", res |-> FALSE]
            BY <5>1
          <6> QED
            BY <6>1
        <5>2. CASE ~impl[c].initialized
          BY <5>2
        <5> QED
          BY <5>1, <5>2
      <4>2. s = r \/ s \in mysql_options(r.h)
        <5> HIDE DEF R
        <5> QED
          BY <3>2
      <4> QED
        BY <3>2, <4>1, <4>2
    <3> HIDE DEF R
    <3>4. Solid(mysql[c], r) /\ (r.h.unread => mysql[c].unread)
      BY <3>3, InitReads DEF Solid
    <3>5. r.h \in Handle
      BY <3>3, FreshType DEF mysql_init, MInv, TypeOK
    <3>6. Solid(r.h, s) /\ (s.h.unread => r.h.unread)
      <4>1. CASE s = r
        BY <4>1 DEF Solid
      <4>2. CASE s \in mysql_options(r.h)
        BY <3>5, <4>2, OptionsHandle DEF Solid, Leaves_h, KeepsConnection
      <4> QED
        BY <3>3, <4>1, <4>2
    <3>7. Sound(s.h) /\ (s.h.unread => mysql[c].unread)
      BY <3>4, <3>6 DEF TakenInv, Solid
    <3> QED
      BY <3>3, <3>7 DEF TakenInv, MInv, TypeOK
  <2> QED
    BY <2>1, <2>2 DEF AsyncOnOpen
<1> QED
  BY <1>1, <1>4, <1>5, <1>6, TakenKept

(* What a call that came back does to the operations.                      *)
LEMMA ReturnedPlaces ==
    ASSUME MInv, WaitsAreAwaited, NEW o \in Ops, Proceeds(o),
           NEW c, c = op[o].conn, NEW call \in Calls, NEW i,
           NEW r \in Answer, Waiting(mysql[c], r), Returned(o, i, call, r)
    PROVE  /\ \A p \in Ops \ {o} : KeepsPlace(p)
           /\ \A p \in Ops : op[p].conn # c => op'[p] = op[p]
           /\ op'[o].conn = c
           /\ op'[o].st = "done" \/
              op'[o].cancelation_token = op[o].cancelation_token
           /\ r.status # finish =>
                 \/ r.ec # "ok" /\ op'[o].st = "done"
                 \/ op'[o].st = "waiting" /\ op'[o].step = Continue(call)
           /\ r.status = finish =>
                 op'[o].st = "done" \/ op'[o].step = "S_STORE_START"
           /\ r.status = finish /\ r.ec = "ok" /\ call = "next" =>
                 op'[o].st = "running" /\ op'[o].step = "S_STORE_START"
<1>1. /\ op[o].st = "running" /\ op[o] \in Operation /\ running = o
  BY ProceedsFacts
<1>2. r.status # finish => Awaited(r.status) # None
  BY DEF Waiting, WaitsAreAwaited
<1>3. ASSUME NEW ec, Invoke(o, ec)
      PROVE  /\ \A p \in Ops \ {o} : op'[p] = op[p]
             /\ op'[o].st = "done" /\ op'[o].conn = c
  <2>1. op' = [op EXCEPT ![o] = Ended(c, ec, op[o].cancelled)]
    BY <1>3 DEF Invoke, Ended
  <2>2. /\ Ended(c, ec, op[o].cancelled).st = "done"
        /\ Ended(c, ec, op[o].cancelled).conn = c
    BY DEF Ended, NewOperation
  <2> QED
    BY <2>1, <2>2 DEF MInv, TypeOK
<1>4. CASE r.status # finish /\ r.ec = "ok"
  <2>1. PICK D : async_wait_mysql(o, r.status, call, D)
    BY <1>2, <1>4 DEF Returned
  <2>2. op'[o] = [op[o] EXCEPT !.st = "waiting", !.wait = Awaited(r.status),
                      !.mask = r.status, !.waits = @ + 1,
                      !.step = Continue(call)]
    BY <1>2, <1>4, <2>1 DEF async_wait_mysql
  <2>3. /\ op'[o].st = "waiting" /\ op'[o].conn = c
        /\ op'[o].step = Continue(call)
        /\ op'[o].cancelation_token = op[o].cancelation_token
    BY <1>1, <2>2 DEF Operation
  <2>4. ASSUME NEW p \in Ops \ {o}
        PROVE  KeepsPlace(p) /\ (op[p].conn # c => op'[p] = op[p])
    <3>1. IF op[p].conn = c THEN op'[p] = Woken(op[p]) ELSE op'[p] = op[p]
      BY <2>1, <2>4 DEF async_wait_mysql
    <3>2. op[p] \in Operation
      BY DEF MInv, TypeOK
    <3> QED
      BY <3>1, <3>2, WokenFacts DEF KeepsPlace, Active
  <2> QED
    BY <1>4, <2>3, <2>4
<1>5. CASE (r.status = finish \/ r.ec # "ok") /\ \E ec : Invoke(o, ec)
  <2>1. /\ \A p \in Ops \ {o} : op'[p] = op[p]
        /\ op'[o].st = "done" /\ op'[o].conn = c
    BY <1>3, <1>5
  <2>2. \A p \in Ops \ {o} : KeepsPlace(p)
    BY <2>1 DEF KeepsPlace
  <2>3. ~(r.ec = "ok" /\ call = "next")
    <3> SUFFICES ASSUME r.ec = "ok", call = "next" PROVE FALSE
      OBVIOUS
    <3>1. op' = [op EXCEPT ![o].step = "S_STORE_START", ![o].waits = 0]
      BY <1>5 DEF Returned
    <3>2. op'[o].st = "running"
      BY <1>1, <3>1 DEF MInv, TypeOK, Operation
    <3> QED
      BY <2>1, <3>2
  <2> QED
    BY <1>5, <2>1, <2>2, <2>3
<1>6. CASE /\ r.status = finish /\ r.ec = "ok"
           /\ op' = [op EXCEPT ![o].step = "S_STORE_START", ![o].waits = 0]
  <2>1. /\ \A p \in Ops \ {o} : op'[p] = op[p]
        /\ op'[o] = [op[o] EXCEPT !.step = "S_STORE_START", !.waits = 0]
    BY <1>6 DEF MInv, TypeOK
  <2>2. /\ op'[o].st = "running" /\ op'[o].conn = c
        /\ op'[o].step = "S_STORE_START"
        /\ op'[o].cancelation_token = op[o].cancelation_token
    BY <1>1, <2>1 DEF Operation
  <2>3. \A p \in Ops \ {o} : KeepsPlace(p)
    BY <2>1 DEF KeepsPlace
  <2> QED
    BY <1>6, <2>1, <2>2, <2>3
<1> QED
  BY <1>4, <1>5, <1>6 DEF Returned

(* A call that came back took the result it stored, or its operation goes  *)
(* on to take it.                                                          *)
LEMMA ReturnedTaken ==
    ASSUME MInv, TakenInv, WaitsAreAwaited, NEW o \in Ops, Proceeds(o),
           NEW c, c = op[o].conn, NEW call \in Calls, NEW i \in Implementation,
           i.cancelation_token = impl[c].cancelation_token,
           NEW r \in Answer, Waiting(mysql[c], r), Returned(o, i, call, r),
           \A d \in Connectors \ {c} : usage'[d] = usage[d],
           Sound(r.h),
           r.status # finish /\ r.ec # "ok" => usage'[c] # "sound",
           usage'[c] = "sound" =>
              /\ usage[c] = "sound" /\ Consumes(call, mysql[c], r)
              /\ call \in {"connect", "next"} /\ i.first_result_stored =>
                    ~mysql[c].unread,
           call = "query" => ~i.first_result_stored
    PROVE  TakenInv'
<1>1. /\ op[o].st = "running" /\ c \in Connectors /\ Valid(o)
      /\ op[o].cancelation_token = impl[c].cancelation_token
  BY ProceedsFacts
<1> DEFINE g == call = "store" /\ r.ec = "ok" /\ r.status = finish
           j == IF g THEN [i EXCEPT !.last_result = r.res] ELSE i
<1>2. impl' = [impl EXCEPT ![c] = j] /\ mysql' = [mysql EXCEPT ![c] = r.h]
  BY DEF Returned
<1>3. /\ j.cancelation_token = impl[c].cancelation_token
      /\ j.first_result_stored = i.first_result_stored
  BY DEF Implementation
<1> HIDE DEF j
<1>4. /\ impl'[c].cancelation_token = impl[c].cancelation_token
      /\ impl'[c].first_result_stored = i.first_result_stored
      /\ mysql'[c] = r.h
      /\ \A d \in Connectors \ {c} : impl'[d] = impl[d] /\ mysql'[d] = mysql[d]
  BY <1>1, <1>2, <1>3 DEF MInv, TypeOK
<1>5. /\ \A p \in Ops \ {o} : KeepsPlace(p)
      /\ \A p \in Ops : op[p].conn # c => op'[p] = op[p]
      /\ op'[o].conn = c
      /\ op'[o].st = "done" \/
         op'[o].cancelation_token = op[o].cancelation_token
      /\ r.status # finish =>
            \/ r.ec # "ok" /\ op'[o].st = "done"
            \/ op'[o].st = "waiting" /\ op'[o].step = Continue(call)
      /\ r.status = finish =>
            op'[o].st = "done" \/ op'[o].step = "S_STORE_START"
      /\ r.status = finish /\ r.ec = "ok" /\ call = "next" =>
            op'[o].st = "running" /\ op'[o].step = "S_STORE_START"
  BY ReturnedPlaces
<1>6. ASSUME NEW p \in Ops, op[p].conn = c PROVE Forgot(p)'
  <2> SUFFICES ASSUME Valid(p)', op'[p].step = Continue("query")
               PROVE  ~impl'[op'[p].conn].first_result_stored
    BY DEF Forgot
  <2>1. p = o
    <3> SUFFICES ASSUME p # o PROVE FALSE
      OBVIOUS
    <3>1. KeepsPlace(p)
      BY <1>5
    <3>2. Valid(p)
      BY <1>4, <1>6, <3>1 DEF KeepsPlace, Valid, Expired
    <3> QED
      BY <1>1, <1>6, <3>2 DEF MInv, UniqueInv
  <2>2. "query" \in Calls /\ op'[o].st # "done"
    BY <2>1 DEF Calls, Valid, Active
  <2>3. call = "query"
    BY <1>5, <2>1, <2>2, ContinueFacts
  <2> QED
    BY <1>4, <1>5, <2>1, <2>3
<1>7. Taken(c)'
  <2> SUFFICES ASSUME usage'[c] = "sound", impl'[c].first_result_stored,
                      mysql'[c].unread
               PROVE  Storing(c)'
    BY DEF Taken
  <2>1. /\ Consumes(call, mysql[c], r) /\ r.h.unread /\ call # "query"
        /\ call \in {"connect", "next"} => ~mysql[c].unread
    BY <1>4
  <2>2. ASSUME op'[o].st \in {"running", "waiting"}, op'[o].step \in StoreSteps
        PROVE  Storing(c)'
    <3>1. Valid(o)'
      BY <1>1, <1>4, <1>5, <2>2 DEF Valid, Expired, Active
    <3> QED
      BY <1>5, <2>2, <3>1 DEF Storing, StoreSteps
  <2>3. CASE r.status # finish
    <3>1. mysql[c].unread
      BY <2>1, <2>3 DEF Consumes
    <3>2. call = "store"
      BY <2>1, <3>1 DEF Calls
    <3> QED
      BY <1>5, <2>2, <2>3, <3>2 DEF StoreSteps
  <2>4. CASE r.status = finish
    <3>1. call = "next" /\ r.ec = "ok"
      BY <2>1, <2>4 DEF Consumes, Calls
    <3> QED
      BY <1>5, <2>2, <2>4, <3>1 DEF StoreSteps
  <2> QED
    BY <2>3, <2>4
<1> QED
  BY <1>1, <1>4, <1>5, <1>6, <1>7, TakenElsewhere

(* A call that is started.                                                 *)
LEMMA StartCallTaken ==
    ASSUME MInv, TakenInv, WaitsAreAwaited, NEW o \in Ops, Proceeds(o),
           NEW c, c = op[o].conn, NEW call \in Calls, NEW i \in Implementation,
           i.cancelation_token = impl[c].cancelation_token,
           StartCall(o, i, call),
           call \in {"connect", "next"} =>
              /\ op[o].step = "S_ENTRY"
              /\ i.first_result_stored => impl[c].first_result_stored,
           call = "query" => ~i.first_result_stored
    PROVE  TakenInv'
<1>1. /\ c \in Connectors /\ mysql[c] \in Handle /\ Valid(o)
      /\ op[o].flags \in BOOLEAN /\ MayWait(o) \in BOOLEAN
  BY ProceedsFacts
<1>2. \A d \in Connectors \ {c} : usage'[d] = usage[d]
  BY DEF StartCall, MInv, TypeOK
<1>3. usage'[c] = "sound" => usage[c] = "sound" /\ lib[c] = None
  BY <1>1 DEF StartCall, MInv, TypeOK
<1>4. PICK r \in IF lib[c] # None THEN mysql_start_busy(mysql[c])
                 ELSE mysql_start(call, mysql[c], op[o].flags, MayWait(o)) :
          Returned(o, i, call, r)
  BY DEF StartCall
<1>5. Sound(mysql[c])
  BY <1>1 DEF TakenInv
<1>6. ASSUME usage'[c] = "sound", call \in {"connect", "next"},
             i.first_result_stored
      PROVE  ~mysql[c].unread
  <2>1. ~Storing(c)
    <3> SUFFICES ASSUME NEW p \in Ops, Valid(p), op[p].conn = c,
                        op[p].step \in StoreSteps
                 PROVE  FALSE
      BY DEF Storing
    <3>1. p = o
      BY <1>1 DEF MInv, UniqueInv
    <3> QED
      BY <1>6, <3>1, ContinueFacts DEF StoreSteps, Calls
  <2> QED
    BY <1>1, <1>3, <1>6, <2>1 DEF TakenInv, Taken
<1>7. CASE lib[c] # None
  <2>1. r \in mysql_start_busy(mysql[c])
    BY <1>4, <1>7
  <2>2. r \in Answer /\ Waiting(mysql[c], r) /\ r.status = finish
    BY <1>1, <2>1, BusyType DEF Waiting
  <2>3. Sound(r.h)
    BY <1>1, <1>5, <2>1, BusySound
  <2> QED
    BY <1>2, <1>3, <1>4, <1>7, <2>2, <2>3, ReturnedTaken
<1>8. CASE lib[c] = None
  <2>1. r \in mysql_start(call, mysql[c], op[o].flags, MayWait(o))
    BY <1>4, <1>8
  <2>2. r \in Answer /\ Waiting(mysql[c], r)
    BY <1>1, <2>1, StartType
  <2>3. Consumes(call, mysql[c], r)
    BY <1>1, <1>5, <2>1, FinishedConsumes, SuspendedConsumes DEF mysql_start
  <2>4. Sound(r.h)
    BY <2>3 DEF Consumes
  <2>5. r.status # finish /\ r.ec # "ok" => usage'[c] # "sound"
    BY <1>4, <2>2, StaleStart
  <2> QED
    BY <1>2, <1>3, <1>4, <1>6, <2>2, <2>3, <2>4, <2>5, ReturnedTaken
<1> QED
  BY <1>7, <1>8

(* A call that is continued.                                               *)
LEMMA ContTaken ==
    ASSUME MInv, TakenInv, WaitsAreAwaited, NEW o \in Ops,
           NEW call \in Calls, Cont(o, call)
    PROVE  TakenInv'
<1> DEFINE c == op[o].conn
<1>1. Proceeds(o) /\ usage' = usage /\ op[o].step = Continue(call)
  BY DEF Cont
<1>2. PICK r \in mysql_continue(call, mysql[c], op[o].flags, MayWait(o)) :
            Returned(o, impl[c], call, r)
  BY DEF Cont
<1>3. /\ mysql[c] \in Handle /\ impl[c] \in Implementation /\ Valid(o)
      /\ c \in Connectors /\ op[o].flags \in BOOLEAN /\ MayWait(o) \in BOOLEAN
  BY <1>1, ProceedsFacts
<1>4. /\ r \in Answer /\ Waiting(mysql[c], r)
      /\ r.status # finish => r.ec = "ok"
  <2>1. ~mysql[c].errno
    BY <1>1, <1>3 DEF MInv, OpInv, OneOp, CallInv
  <2> QED
    BY <1>3, <2>1, ContinueType
<1>5. Sound(mysql[c]) /\ Taken(c)
  BY <1>3 DEF TakenInv
<1>6. Consumes(call, mysql[c], r)
  BY <1>3, <1>5, FinishedConsumes, SuspendedConsumes DEF mysql_continue
<1>7. Sound(r.h)
  BY <1>6 DEF Consumes
<1>8. call = "query" => ~impl[c].first_result_stored
  BY <1>1, <1>3 DEF TakenInv, Forgot
<1>9. ASSUME usage[c] = "sound", call \in {"connect", "next"},
             impl[c].first_result_stored
      PROVE  ~mysql[c].unread
  <2>1. ~Storing(c)
    <3> SUFFICES ASSUME NEW p \in Ops, Valid(p), op[p].conn = c,
                        op[p].step \in StoreSteps
                 PROVE  FALSE
      BY DEF Storing
    <3>1. p = o
      BY <1>3 DEF MInv, UniqueInv
    <3>2. "store" \in Calls
      BY DEF Calls
    <3> QED
      BY <1>1, <1>9, <3>1, <3>2, ContinueFacts DEF StoreSteps
  <2> QED
    BY <1>5, <1>9, <2>1 DEF Taken
<1> HIDE DEF c
<1>10. c = op[o].conn
  BY DEF c
<1> QED
  BY <1>1, <1>2, <1>3, <1>4, <1>6, <1>7, <1>8, <1>9, <1>10, ReturnedTaken

(* The first step of an operation.                                         *)
LEMMA EntryTaken ==
    ASSUME MInv, TakenInv, WaitsAreAwaited, NEW o \in Ops, Entry(o)
    PROVE  TakenInv'
<1>0. PICK c : c = op[o].conn
  OBVIOUS
<1> DEFINE f == [impl[c] EXCEPT !.last_result = FALSE]
           g == [impl[c] EXCEPT !.last_result = FALSE,
                                !.first_result_stored = FALSE]
           k == [impl[c] EXCEPT !.flags = op[o].flags]
<1>1. Proceeds(o) /\ op[o].step = "S_ENTRY"
  BY DEF Entry
<1>2. /\ impl[c] \in Implementation /\ op[o].flags \in BOOLEAN
      /\ c \in Connectors /\ Valid(o) /\ op[o] \in Operation
      /\ op[o].st = "running"
      /\ op[o].cancelation_token = impl[c].cancelation_token
  BY <1>0, <1>1, ProceedsFacts
<1>3. /\ f \in Implementation /\ g \in Implementation /\ k \in Implementation
      /\ f.cancelation_token = impl[c].cancelation_token
      /\ g.cancelation_token = impl[c].cancelation_token
      /\ k.cancelation_token = impl[c].cancelation_token
      /\ f.first_result_stored = impl[c].first_result_stored
      /\ g.first_result_stored = FALSE
      /\ k.first_result_stored = impl[c].first_result_stored
  BY <1>2 DEF Implementation
<1>4. \/ StartCall(o, k, "connect")
      \/ StartCall(o, g, "query")
      \/ StartCall(o, f, "next")
      \/ /\ impl' = [impl EXCEPT ![c].first_result_stored = TRUE]
         /\ op' = [op EXCEPT ![o].step = "S_STORE_START"]
         /\ UNCHANGED <<mysql, lib, desc, running, usage>>
      \/ /\ Invoke(o, "no_more_results")
         /\ impl' = [impl EXCEPT ![c] = f]
         /\ UNCHANGED <<mysql, lib, desc, usage>>
  BY <1>0 DEF Entry
<1>5. /\ "connect" \in Calls /\ "query" \in Calls /\ "next" \in Calls
      /\ "store" \in Calls
  BY DEF Calls
<1> HIDE DEF f, g, k
<1>6. CASE StartCall(o, k, "connect")
  BY <1>0, <1>1, <1>3, <1>5, <1>6, StartCallTaken
<1>7. CASE StartCall(o, g, "query")
  BY <1>0, <1>1, <1>3, <1>5, <1>7, StartCallTaken
<1>8. CASE StartCall(o, f, "next")
  BY <1>0, <1>1, <1>3, <1>5, <1>8, StartCallTaken
<1>9. CASE /\ impl' = [impl EXCEPT ![c].first_result_stored = TRUE]
           /\ op' = [op EXCEPT ![o].step = "S_STORE_START"]
           /\ UNCHANGED <<mysql, lib, desc, running, usage>>
  <2>1. /\ impl'[c].cancelation_token = impl[c].cancelation_token
        /\ \A d \in Connectors \ {c} : impl'[d] = impl[d]
    BY <1>2, <1>9 DEF MInv, TypeOK, Implementation
  <2>2. /\ \A p \in Ops \ {o} : op'[p] = op[p]
        /\ op'[o] = [op[o] EXCEPT !.step = "S_STORE_START"]
    BY <1>9 DEF MInv, TypeOK
  <2>3. /\ op'[o].st = "running" /\ op'[o].conn = c
        /\ op'[o].step = "S_STORE_START"
        /\ op'[o].cancelation_token = op[o].cancelation_token
    BY <1>0, <1>2, <2>2 DEF Operation
  <2>4. Valid(o)'
    BY <1>2, <2>1, <2>3 DEF Valid, Expired, Active
  <2>5. Taken(c)'
    BY <2>3, <2>4 DEF Taken, Storing, StoreSteps
  <2>6. ASSUME NEW p \in Ops, op[p].conn = c PROVE Forgot(p)'
    <3>1. CASE p = o
      BY <1>5, <2>3, <3>1, ContinueFacts DEF Forgot
    <3>2. CASE p # o
      <4>1. ~Valid(p)
        BY <1>0, <1>2, <2>6, <3>2 DEF MInv, UniqueInv
      <4>2. ~Valid(p)'
        BY <2>1, <2>2, <2>6, <3>2, <4>1 DEF Valid, Expired
      <4> QED
        BY <4>2 DEF Forgot
    <3> QED
      BY <3>1, <3>2
  <2>7. Sound(mysql'[c])
    BY <1>2, <1>9 DEF TakenInv
  <2>8. \A p \in Ops : op[p].conn # c => op'[p] = op[p]
    BY <1>0, <2>2
  <2> QED
    BY <1>2, <1>9, <2>1, <2>5, <2>6, <2>7, <2>8, TakenElsewhere
<1>10. CASE /\ Invoke(o, "no_more_results")
            /\ impl' = [impl EXCEPT ![c] = f]
            /\ UNCHANGED <<mysql, lib, desc, usage>>
  <2>1. \A d \in Connectors :
           /\ impl'[d].cancelation_token = impl[d].cancelation_token
           /\ impl'[d].first_result_stored = impl[d].first_result_stored
    BY <1>2, <1>3, <1>10 DEF MInv, TypeOK
  <2>2. /\ \A p \in Ops \ {o} : op'[p] = op[p]
        /\ op'[o].step = "S_ENTRY"
    BY <1>10 DEF Invoke, NewOperation, MInv, TypeOK
  <2>3. StoresNothing(o)
    BY <1>1, <1>5, <2>2, ContinueFacts DEF StoresNothing, StoreSteps
  <2>4. \A p \in Ops : KeepsPlace(p) \/ StoresNothing(p)
    BY <2>2, <2>3 DEF KeepsPlace
  <2>5. \A d \in Connectors : Sound(mysql'[d])
    BY <1>10 DEF TakenInv
  <2> QED
    BY <1>10, <2>1, <2>4, <2>5, TakenKept
<1> QED
  BY <1>4, <1>6, <1>7, <1>8, <1>9, <1>10

(* The other steps of an operation.                                        *)
LEMMA StepTaken ==
    ASSUME MInv, TakenInv, WaitsAreAwaited, NEW o \in Ops, Step(o)
    PROVE  TakenInv'
<1>1. CASE Abort(o)
  <2>1. op[o].ec # "ok" => Expired(o)
    BY <1>1 DEF Abort, MInv, TypeOK, OpInv, OneOp, TokenInv, Active
  <2>2. ~Valid(o)
    BY <1>1, <2>1 DEF Abort, Valid
  <2>3. /\ \A p \in Ops \ {o} : op'[p] = op[p]
        /\ op'[o].step = "S_ENTRY"
    BY <1>1 DEF Abort, Invoke, NewOperation, MInv, TypeOK
  <2>4. "query" \in Calls
    BY DEF Calls
  <2>5. StoresNothing(o)
    BY <2>2, <2>3, <2>4, ContinueFacts DEF StoresNothing
  <2>6. \A p \in Ops : KeepsPlace(p) \/ StoresNothing(p)
    BY <2>3, <2>5 DEF KeepsPlace
  <2>7. \A d \in Connectors : Sound(mysql[d])
    BY DEF TakenInv
  <2> QED
    BY <1>1, <2>6, <2>7, TakenKept DEF Abort
<1>2. CASE StoreStart(o)
  <2> DEFINE c == op[o].conn
             b == impl[c].first_result_stored \/ op[o].kind = "query_result"
             i == [impl[c] EXCEPT !.last_result = FALSE, !.first_result_stored = b]
  <2>1. Proceeds(o) /\ StartCall(o, i, "store") /\ "store" \in Calls
    BY <1>2 DEF StoreStart, Calls
  <2>2. b \in BOOLEAN /\ impl[c] \in Implementation
    BY <2>1, ProceedsFacts
  <2> HIDE DEF b
  <2>3. i \in Implementation /\ i.cancelation_token = impl[c].cancelation_token
    BY <2>2 DEF Implementation
  <2> HIDE DEF i
  <2> QED
    BY <2>1, <2>3, StartCallTaken
<1> QED
  BY <1>1, <1>2, ContTaken, EntryTaken DEF Step

(* The io_service wakes and runs operations, and cancels none.             *)
LEMMA IoTaken ==
    ASSUME MInv, TakenInv, NEW o \in Ops, IoStep(o) \/ SocketReady(o)
    PROVE  TakenInv'
<1>1. mysql' = mysql /\ usage' = usage /\ impl' = impl
  BY DEF IoStep, SocketReady, TimerExpires, Awake, Resume, RunPosted
<1>2. \A p \in Ops \ {o} : op'[p] = op[p]
  BY DEF IoStep, SocketReady, TimerExpires, Awake, Resume, RunPosted, Invoke,
         MInv, TypeOK
<1>3. KeepsPlace(o) \/ StoresNothing(o)
  <2>1. op[o] \in Operation
    BY DEF MInv, TypeOK
  <2>2. CASE RunPosted(o)
    <3>1. op[o].st = "posted" /\ op'[o].step = "S_ENTRY"
      BY <2>2 DEF RunPosted, Invoke, NewOperation, MInv, TypeOK
    <3>2. "query" \in Calls
      BY DEF Calls
    <3> QED
      BY <3>1, <3>2, ContinueFacts DEF StoresNothing, Valid, Active
  <2>3. CASE ~RunPosted(o)
    <3>1. /\ op[o].st \in {"waiting", "ready"}
          /\ \/ op'[o] = [op[o] EXCEPT !.st = "ready"]
             \/ op'[o] = [op[o] EXCEPT !.st = "running", !.wait = None,
                                       !.mask = {}]
      BY <2>3 DEF IoStep, SocketReady, TimerExpires, Awake, Resume, MInv, TypeOK
    <3> QED
      BY <2>1, <3>1 DEF Operation, KeepsPlace, Active
  <2> QED
    BY <2>2, <2>3
<1>4. \A p \in Ops : KeepsPlace(p) \/ StoresNothing(p)
  BY <1>2, <1>3 DEF KeepsPlace
<1>5. \A d \in Connectors : Sound(mysql[d])
  BY DEF TakenInv
<1> QED
  BY <1>1, <1>4, <1>5, TakenKept

(* Every step keeps what was stored read.                                  *)
LEMMA NextTaken ==
    ASSUME WaitsAreAwaited
    PROVE  MInv /\ TakenInv /\ [Next]_vars => TakenInv'
<1> SUFFICES ASSUME MInv, TakenInv, [Next]_vars PROVE TakenInv'
  OBVIOUS
<1>1. CASE UNCHANGED vars
  <2>1. \A p \in Ops : KeepsPlace(p)
    BY <1>1 DEF vars, KeepsPlace
  <2>2. \A d \in Connectors : Sound(mysql[d])
    BY DEF TakenInv
  <2> QED
    BY <1>1, <2>1, <2>2, TakenKept DEF vars
<1>2. ASSUME NEW c \in Connectors, UserStep(c) PROVE TakenInv'
  <2>1. CASE open(c) \/ cancel(c) \/ close(c) \/ destroy(c)
    BY <2>1, CloseTaken
  <2>2. CASE \/ \E flags \in Flags : connect(c, flags)
             \/ query(c) \/ store_result(c) \/ set_option(c)
             \/ autocommit(c) \/ commit(c) \/ rollback(c)
    BY <2>2, BlockingTaken
  <2>3. ASSUME NEW o \in Ops,
               \/ \E flags \in Flags : async_connect(o, c, flags)
               \/ async_query(o, c) \/ async_store_result(o, c)
               \/ async_query_result(o, c)
        PROVE  TakenInv'
    <3>1. \/ \E flags \in Flags : async_connect(o, c, flags)
          \/ \E kind \in Kinds : AsyncOnOpen(o, c, kind)
      BY <2>3 DEF async_query, async_store_result, async_query_result, Kinds
    <3> QED
      BY <3>1, AsyncTaken
  <2> QED
    BY <1>2, <2>1, <2>2, <2>3 DEF UserStep
<1>3. ASSUME NEW o \in Ops, Step(o) \/ IoStep(o) \/ SocketReady(o)
      PROVE  TakenInv'
  BY <1>3, StepTaken, IoTaken
<1> QED
  BY <1>1, <1>2, <1>3 DEF Next

(* For any number of results, operations and connectors: no mixture of     *)
(* blocking and asynchronous calls, close() and cancel() makes             *)
(* mysql_next_result() find a result that was not read, unless a call in   *)
(* the library was cancelled.  The masks have to name an event that        *)
(* async_wait_mysql() waits for: the operation that stores the result      *)
(* would be lost.                                                          *)
THEOREM NextIsInSync ==
    ASSUME WaitsAreAwaited
    PROVE  Spec => []NextResultInSync
<1>1. Init => TakenInv
  <2> SUFFICES ASSUME Init PROVE TakenInv
    OBVIOUS
  <2>1. \A c \in Connectors : Sound(mysql[c]) /\ Taken(c)
    BY DEF Init, Sound, RawHandle, Taken, NewImplementation
  <2>2. \A o \in Ops : Forgot(o)
    BY DEF Init, Forgot, Valid, Active, NewOperation
  <2> QED
    BY <2>1, <2>2 DEF TakenInv
<1>2. MInv /\ TakenInv => NextResultInSync
  <2> SUFFICES ASSUME MInv, TakenInv PROVE NextResultInSync
    OBVIOUS
  <2>1. ASSUME NEW c \in Connectors, ~Storing(c) PROVE NextInSync(c)
    BY <2>1 DEF TakenInv, Taken, NextInSync, has_more_results
  <2>2. ASSUME NEW o \in Ops, Proceeds(o), op[o].step = "S_ENTRY"
        PROVE  NextInSync(op[o].conn)
    <3>1. Valid(o) /\ op[o].conn \in Connectors
      BY <2>2, ProceedsFacts
    <3>2. \A p \in Ops : Valid(p) /\ op[p].conn = op[o].conn => p = o
      BY <3>1 DEF MInv, UniqueInv
    <3>3. "store" \in Calls
      BY DEF Calls
    <3>4. ~Storing(op[o].conn)
      BY <2>2, <3>2, <3>3, ContinueFacts DEF Storing, StoreSteps
    <3> QED
      BY <2>1, <3>1, <3>4
  <2>3. ASSUME NEW c \in Connectors, MayUse(c) PROVE NextInSync(c)
    <3>1. ~Storing(c)
      BY <2>3 DEF Storing, MayUse, Valid, Active, InFlight
    <3> QED
      BY <2>1, <3>1
  <2> QED
    BY <2>2, <2>3 DEF NextResultInSync
<1>3. MInv /\ TakenInv /\ [Next]_vars => TakenInv'
  BY NextTaken
<1> QED
  BY <1>1, <1>2, <1>3, Invariant, PTL DEF Spec
=============================================================================
