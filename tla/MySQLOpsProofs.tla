--------------------------- MODULE MySQLOpsProofs ---------------------------
(***************************************************************************)
(* What every proof about a service needs to know of the wrappers of       *)
(* MySQLOps: the handle they leave behind is a handle, and a call never    *)
(* turns an initialised handle into a raw one.                             *)
(***************************************************************************)
EXTENDS MySQLOps, TLAPS

CallResult == [h : Handle, ec : {"ok", "client"}, res : BOOLEAN]

(* The handles and flags of the library's outcomes.                        *)
LibResult == [h : Handle, failed : BOOLEAN, res : BOOLEAN]

(* A call keeps the handle h initialised if it was.                        *)
KeepsInit(h, r) == h.st # "raw" => r.h.st # "raw"

(* The wrappers add an error code to an outcome of the library and nothing *)
(* else.                                                                   *)
LEMMA WrapType ==
    ASSUME NEW h \in Handle, NEW outcomes \in SUBSET LibResult,
           \A o \in outcomes : KeepsInit(h, o),
           NEW r \in Wrap(outcomes)
    PROVE  r \in CallResult /\ KeepsInit(h, r)
<1>1. PICK o \in outcomes : r = [h |-> o.h, ec |-> error_wrapper(o.failed, o.h),
                                 res |-> o.res]
  BY DEF Wrap
<1>2. o \in LibResult /\ KeepsInit(h, o)
  OBVIOUS
<1>3. error_wrapper(o.failed, o.h) \in {"ok", "client"}
  BY DEF error_wrapper
<1> QED
  BY <1>1, <1>2, <1>3 DEF CallResult, LibResult, KeepsInit

(* Assigning one field of a handle leaves a handle; only st changes st.    *)
LEMMA Update_errno ==
    ASSUME NEW h \in Handle, NEW b \in BOOLEAN
    PROVE  /\ [h EXCEPT !.errno = b] \in Handle
           /\ [h EXCEPT !.errno = b].st = h.st
BY DEF Handle

(* Setting unread keeps the type and the other fields of a handle.         *)
LEMMA Update_unread ==
    ASSUME NEW h \in Handle, NEW b \in BOOLEAN
    PROVE  /\ [h EXCEPT !.unread = b] \in Handle
           /\ [h EXCEPT !.unread = b].st = h.st
BY DEF Handle

(* Setting columns keeps the type and the other fields of a handle.        *)
LEMMA Update_columns ==
    ASSUME NEW h \in Handle, NEW b \in BOOLEAN
    PROVE  /\ [h EXCEPT !.columns = b] \in Handle
           /\ [h EXCEPT !.columns = b].st = h.st
BY DEF Handle

(* Setting multi keeps the type and the other fields of a handle.          *)
LEMMA Update_multi ==
    ASSUME NEW h \in Handle, NEW b \in BOOLEAN
    PROVE  /\ [h EXCEPT !.multi = b] \in Handle
           /\ [h EXCEPT !.multi = b].st = h.st
BY DEF Handle

(* Setting more keeps the type and the other fields of a handle.           *)
LEMMA Update_more ==
    ASSUME NEW h \in Handle, NEW n \in 0..MaxMore
    PROVE  /\ [h EXCEPT !.more = n] \in Handle
           /\ [h EXCEPT !.more = n].st = h.st
BY DEF Handle

(* Setting st keeps the type and the other fields of a handle.             *)
LEMMA Update_st ==
    ASSUME NEW h \in Handle, NEW s \in {"raw", "init", "up"}
    PROVE  /\ [h EXCEPT !.st = s] \in Handle
           /\ [h EXCEPT !.st = s].st = s
BY DEF Handle

(* mysql_init() and mysql_close() leave handles.                           *)
LEMMA FreshType ==
    RawHandle \in Handle /\ FreshHandle \in Handle /\ FreshHandle.st = "init"
<1>1. RawHandle \in Handle
  BY MaxMoreAssumption DEF RawHandle, Handle
<1> QED
  BY <1>1, Update_st DEF FreshHandle

(* An undefined call, a failure and an answer of the server leave a handle.*)
LEMMA OutcomeType ==
    ASSUME NEW h \in Handle
    PROVE  /\ Refused(h) \in LibResult /\ KeepsInit(h, Refused(h))
           /\ LibUndefined(h) \subseteq LibResult
           /\ \A r \in LibUndefined(h) : KeepsInit(h, r)
           /\ Failures(h) \subseteq LibResult
           /\ \A r \in Failures(h) : KeepsInit(h, r)
           /\ \A S \in SUBSET (0..MaxMore) :
                 /\ Answers(h, S) \subseteq LibResult
                 /\ \A r \in Answers(h, S) : KeepsInit(h, r)
<1>1. Refused(h) \in LibResult /\ KeepsInit(h, Refused(h))
  BY DEF Refused, Outcome, LibResult, KeepsInit, Handle
<1>2. LibUndefined(h) \subseteq LibResult
      /\ \A r \in LibUndefined(h) : KeepsInit(h, r)
  <2> DEFINE g == [h EXCEPT !.errno = FALSE]
  <2>1. g \in Handle /\ (h.st # "raw" => g.st # "raw")
    BY DEF Handle
  <2>2. ASSUME NEW r \in LibUndefined(h)
        PROVE  r = Refused(h) \/ \E b \in BOOLEAN : r = Outcome(g, FALSE, b)
    BY DEF LibUndefined
  <2> HIDE DEF g
  <2>3. \A b \in BOOLEAN : /\ Outcome(g, FALSE, b) \in LibResult
                           /\ KeepsInit(h, Outcome(g, FALSE, b))
    BY <2>1 DEF Outcome, LibResult, KeepsInit
  <2> QED
    BY <1>1, <2>2, <2>3
<1>3. Failures(h) \subseteq LibResult
      /\ \A r \in Failures(h) : KeepsInit(h, r)
  <2> DEFINE d == [h EXCEPT !.errno = TRUE]
             e == [d EXCEPT !.unread = FALSE]
             x == [e EXCEPT !.more = 0]
             y == [e EXCEPT !.st = "init"]
  <2>2. Failures(h) = {Outcome(x, TRUE, FALSE), Outcome(y, TRUE, FALSE)}
    BY DEF Failures
  <2>3. d \in Handle /\ d.st = h.st
    BY Update_errno
  <2> HIDE DEF d
  <2>4. e \in Handle /\ e.st = h.st
    BY <2>3, Update_unread
  <2> HIDE DEF e
  <2>1. x \in Handle /\ x.st = h.st
    BY <2>4, Update_more, MaxMoreAssumption
  <2>5. y \in Handle /\ y.st = "init"
    BY <2>4, Update_st
  <2> HIDE DEF x, y
  <2> QED
    BY <2>1, <2>2, <2>5 DEF Outcome, LibResult, KeepsInit
<1>4. ASSUME NEW S \in SUBSET (0..MaxMore)
      PROVE  Answers(h, S) \subseteq LibResult
             /\ \A r \in Answers(h, S) : KeepsInit(h, r)
  <2>1. ASSUME NEW c \in BOOLEAN, NEW n \in S
        PROVE  Answered(h, c, n) \in Handle /\ Answered(h, c, n).st = h.st
    <3> DEFINE d == [h EXCEPT !.errno = FALSE]
               e == [d EXCEPT !.unread = c]
               f == [e EXCEPT !.columns = c]
               g == [f EXCEPT !.more = n]
    <3>1. Answered(h, c, n) = g
      BY DEF Answered
    <3>2. d \in Handle /\ d.st = h.st
      BY Update_errno
    <3> HIDE DEF d
    <3>3. e \in Handle /\ e.st = h.st
      BY <3>2, Update_unread
    <3> HIDE DEF e
    <3>4. f \in Handle /\ f.st = h.st
      BY <3>3, Update_columns
    <3> HIDE DEF f
    <3> QED
      BY <3>1, <3>4, Update_more
  <2>2. \A c \in BOOLEAN, n \in S :
            /\ Outcome(Answered(h, c, n), FALSE, FALSE) \in LibResult
            /\ KeepsInit(h, Outcome(Answered(h, c, n), FALSE, FALSE))
    BY <2>1 DEF Outcome, LibResult, KeepsInit
  <2>3. \A r \in Answers(h, S) : \E c \in BOOLEAN, n \in S :
            r = Outcome(Answered(h, c, n), FALSE, FALSE)
    BY DEF Answers
  <2> QED
    BY <2>2, <2>3
<1> QED
  BY <1>1, <1>2, <1>3, <1>4

(* The four library calls of the service return handles.                   *)
LEMMA LibType ==
    ASSUME NEW h \in Handle, NEW multi \in BOOLEAN,
           NEW O \in {LibConnect(h, multi), LibQuery(h), LibStore(h),
                      LibNext(h)}
    PROVE  O \in SUBSET LibResult /\ \A o \in O : KeepsInit(h, o)
<1> DEFINE g == [h EXCEPT !.columns = FALSE]
<1>1. g \in Handle /\ g.st = h.st
  BY DEF Handle
<1>2. CASE O = LibConnect(h, multi)
  <2> DEFINE u == [FreshHandle EXCEPT !.st = "up"]
             v == [u EXCEPT !.multi = multi]
  <2>1. h.st \in {"raw", "init", "up"}
    BY DEF Handle
  <2>2. CASE h.st # "init"
    BY <1>2, <2>1, <2>2, OutcomeType DEF LibConnect
  <2>3. CASE h.st = "init"
    <3>1. O = {Refused(h), Outcome(v, FALSE, FALSE)}
      BY <1>2, <2>3 DEF LibConnect
    <3>2. FreshHandle \in Handle
      BY FreshType
    <3>3. u \in Handle /\ u.st = "up"
      BY <3>2, Update_st
    <3> HIDE DEF u
    <3>4. v \in Handle /\ v.st = "up"
      BY <3>3, Update_multi
    <3> HIDE DEF v
    <3> QED
      BY <3>1, <3>4, OutcomeType DEF Outcome, LibResult, KeepsInit
  <2> QED
    BY <2>2, <2>3
<1>3. CASE O = LibQuery(h)
  <2>1. 0..MaxMore \in SUBSET (0..MaxMore) /\ {0} \in SUBSET (0..MaxMore)
    BY MaxMoreAssumption
  <2>2. Failures(g) \subseteq LibResult /\ \A r \in Failures(g) : KeepsInit(g, r)
    BY <1>1, OutcomeType
  <2>3. \A r : KeepsInit(g, r) => KeepsInit(h, r)
    BY <1>1 DEF KeepsInit
  <2>4. CASE h.st = "raw"
    BY <1>3, <2>4, OutcomeType DEF LibQuery
  <2>5. CASE h.st # "raw" /\ (h.st = "init" \/ h.unread \/ h.more > 0)
    BY <1>3, <2>5, OutcomeType DEF LibQuery
  <2>6. CASE h.st # "raw" /\ ~(h.st = "init" \/ h.unread \/ h.more > 0)
    <3> DEFINE S == IF h.multi THEN 0..MaxMore ELSE {0}
    <3>1. S \in SUBSET (0..MaxMore)
      BY <2>1
    <3>2. O = Failures(g) \cup Answers(h, S)
      BY <1>3, <2>6 DEF LibQuery
    <3> HIDE DEF S, g
    <3> QED
      BY <2>2, <2>3, <3>1, <3>2, OutcomeType
  <2> QED
    BY <2>4, <2>5, <2>6
<1>4. CASE O = LibStore(h)
  <2> DEFINE s == [h EXCEPT !.unread = FALSE]
  <2>1. s \in Handle /\ s.st = h.st
    BY Update_unread
  <2>2. \/ O = LibUndefined(h)
        \/ O = {Outcome(h, TRUE, FALSE)}
        \/ O = Failures(h) \cup {Outcome(s, FALSE, TRUE)}
    BY <1>4 DEF LibStore
  <2> HIDE DEF s
  <2>3. CASE O = LibUndefined(h)
    BY <2>3, OutcomeType
  <2>4. CASE O = {Outcome(h, TRUE, FALSE)}
    BY <2>4 DEF Outcome, LibResult, KeepsInit
  <2>5. CASE O = Failures(h) \cup {Outcome(s, FALSE, TRUE)}
    <3>1. /\ Outcome(s, FALSE, TRUE) \in LibResult
          /\ KeepsInit(h, Outcome(s, FALSE, TRUE))
      BY <2>1 DEF Outcome, LibResult, KeepsInit
    <3> QED
      BY <2>5, <3>1, OutcomeType
  <2> QED
    BY <2>2, <2>3, <2>4, <2>5
<1>5. CASE O = LibNext(h)
  <2>1. h.more # 0 => {h.more - 1} \in SUBSET (0..MaxMore)
    BY MaxMoreAssumption DEF Handle
  <2>2. /\ Failures(g) \subseteq LibResult
        /\ \A r \in Failures(g) : KeepsInit(g, r)
        /\ Refused(g) \in LibResult /\ KeepsInit(g, Refused(g))
    BY <1>1, OutcomeType
  <2>3. \A r : KeepsInit(g, r) => KeepsInit(h, r)
    BY <1>1 DEF KeepsInit
  <2>4. CASE h.st = "raw" \/ h.unread
    BY <1>5, <2>4, OutcomeType DEF LibNext
  <2>5. CASE h.st # "raw" /\ ~h.unread /\ h.more = 0
    <3> DEFINE s == [h EXCEPT !.errno = FALSE]
    <3>1. s \in Handle /\ s.st = h.st
      BY Update_errno
    <3>2. O = {Outcome(s, TRUE, FALSE)}
      BY <1>5, <2>5 DEF LibNext
    <3> HIDE DEF s
    <3> QED
      BY <3>1, <3>2 DEF Outcome, LibResult, KeepsInit
  <2>6. CASE h.st # "raw" /\ ~h.unread /\ h.more # 0 /\ h.st = "init"
    BY <1>5, <2>2, <2>3, <2>6 DEF LibNext
  <2>7. CASE h.st # "raw" /\ ~h.unread /\ h.more # 0 /\ h.st # "init"
    <3>1. O = Failures(g) \cup Answers(h, {h.more - 1})
      BY <1>5, <2>7 DEF LibNext
    <3> HIDE DEF g
    <3> QED
      BY <2>1, <2>2, <2>3, <2>7, <3>1, OutcomeType
  <2> QED
    BY <2>4, <2>5, <2>6, <2>7
<1> QED
  BY <1>2, <1>3, <1>4, <1>5

(* Every wrapped call returns a handle, a client error or none, and says   *)
(* whether a result was stored; an initialised handle stays initialised.   *)
THEOREM CallType ==
    ASSUME NEW h \in Handle, NEW multi \in BOOLEAN,
           NEW r \in mysql_real_connect(h, multi) \cup mysql_real_query(h)
                     \cup mysql_store_result(h) \cup mysql_next_result(h)
    PROVE  r \in CallResult /\ KeepsInit(h, r)
<1>1. PICK O \in {LibConnect(h, multi), LibQuery(h), LibStore(h), LibNext(h)} :
           r \in Wrap(O)
  BY DEF mysql_real_connect, mysql_real_query, mysql_store_result,
         mysql_next_result
<1>2. O \in SUBSET LibResult /\ \A o \in O : KeepsInit(h, o)
  BY LibType
<1> QED
  BY <1>1, <1>2, WrapType

-----------------------------------------------------------------------------
(***************************************************************************)
(* What a handle says of the results that wait in it.                      *)
(***************************************************************************)

(* A result that waits has columns; results follow only on a connection    *)
(* that lets them; nothing waits in a handle that is not initialised.      *)
Sound(h) ==
    /\ h.unread => h.columns
    /\ ~h.multi => h.more = 0
    /\ h.st = "raw" => ~h.unread /\ h.more = 0

(* A call on handle h leaves g: it neither connects nor changes the flags  *)
(* of the connection, and g is as sound as h.                              *)
KeepsConnection(h, g) ==
    /\ g.multi = h.multi
    /\ g.st = "up" => h.st = "up"
    /\ Sound(h) => Sound(g)

(* A refused call sets errno and does nothing else.                        *)
LEMMA RefusedFields ==
    ASSUME NEW h \in Handle, NEW r \in {Refused(h)}
    PROVE  /\ r.h \in Handle /\ r.failed = TRUE /\ r.res = FALSE
           /\ r.h.errno = TRUE /\ r.h.st = h.st
           /\ r.h.unread = h.unread /\ r.h.columns = h.columns
           /\ r.h.more = h.more /\ r.h.multi = h.multi
<1> DEFINE g == [h EXCEPT !.errno = TRUE]
<1>1. r.h = g /\ r.failed = TRUE /\ r.res = FALSE
  BY DEF Refused, Outcome
<1> HIDE DEF g
<1>2. g \in Handle /\ g.errno = TRUE /\ g.st = h.st
      /\ g.unread = h.unread /\ g.columns = h.columns
      /\ g.more = h.more /\ g.multi = h.multi
  BY DEF g, Handle
<1> QED
  BY <1>1, <1>2

(* An undefined call may set or clear errno, and does nothing else.        *)
LEMMA UndefinedFields ==
    ASSUME NEW h \in Handle, NEW r \in LibUndefined(h)
    PROVE  /\ r.h \in Handle /\ r.h.st = h.st
           /\ r.h.unread = h.unread /\ r.h.columns = h.columns
           /\ r.h.more = h.more /\ r.h.multi = h.multi
<1> DEFINE g == [h EXCEPT !.errno = FALSE]
<1>1. r = Refused(h) \/ \E b \in BOOLEAN : r = Outcome(g, FALSE, b)
  BY DEF LibUndefined
<1> HIDE DEF g
<1>2. g \in Handle /\ g.st = h.st
      /\ g.unread = h.unread /\ g.columns = h.columns
      /\ g.more = h.more /\ g.multi = h.multi
  BY DEF g, Handle
<1>3. CASE r = Refused(h)
  BY <1>3, RefusedFields
<1>4. CASE \E b \in BOOLEAN : r = Outcome(g, FALSE, b)
  <2>1. r.h = g
    BY <1>4 DEF Outcome
  <2> QED
    BY <2>1, <1>2
<1> QED
  BY <1>1, <1>3, <1>4

(* A failure sets errno and leaves no result to be stored: either the      *)
(* statement is over or the connection is.                                 *)
LEMMA FailureFields ==
    ASSUME NEW h \in Handle, NEW r \in Failures(h)
    PROVE  /\ r.h \in Handle /\ r.failed = TRUE /\ r.res = FALSE
           /\ r.h.errno = TRUE /\ r.h.unread = FALSE
           /\ r.h.columns = h.columns /\ r.h.multi = h.multi
           /\ \/ r.h.st = h.st /\ r.h.more = 0
              \/ r.h.st = "init" /\ r.h.more = h.more
<1> DEFINE d == [h EXCEPT !.errno = TRUE]
           e == [d EXCEPT !.unread = FALSE]
           x == [e EXCEPT !.more = 0]
           y == [e EXCEPT !.st = "init"]
<1>1. r = Outcome(x, TRUE, FALSE) \/ r = Outcome(y, TRUE, FALSE)
  BY DEF Failures
<1> HIDE DEF d, e, x, y
<1>2. /\ d \in Handle /\ d.errno = TRUE /\ d.st = h.st
      /\ d.columns = h.columns /\ d.more = h.more /\ d.multi = h.multi
  BY DEF d, Handle
<1>3. /\ e \in Handle /\ e.errno = TRUE /\ e.unread = FALSE /\ e.st = h.st
      /\ e.columns = h.columns /\ e.more = h.more /\ e.multi = h.multi
  BY <1>2 DEF e, Handle
<1>4. /\ x \in Handle /\ x.errno = TRUE /\ x.unread = FALSE /\ x.st = h.st
      /\ x.columns = h.columns /\ x.more = 0 /\ x.multi = h.multi
  BY <1>3, MaxMoreAssumption DEF x, Handle
<1>5. /\ y \in Handle /\ y.errno = TRUE /\ y.unread = FALSE /\ y.st = "init"
      /\ y.columns = h.columns /\ y.more = h.more /\ y.multi = h.multi
  BY <1>3 DEF y, Handle
<1> QED
  BY <1>1, <1>4, <1>5 DEF Outcome

(* An answer of the server is the next result, with columns to be stored   *)
(* or without, and as many results to come as the limit lets.              *)
LEMMA AnswersFields ==
    ASSUME NEW h \in Handle, NEW S \in SUBSET (0..MaxMore),
           NEW r \in Answers(h, S)
    PROVE  /\ r.h \in Handle /\ r.failed = FALSE /\ r.res = FALSE
           /\ r.h.errno = FALSE /\ r.h.unread = r.h.columns
           /\ r.h.st = h.st /\ r.h.multi = h.multi /\ r.h.more \in S
<1>1. PICK c \in BOOLEAN, n \in S :
         r = Outcome(Answered(h, c, n), FALSE, FALSE)
  BY DEF Answers
<1> DEFINE d == [h EXCEPT !.errno = FALSE]
           e == [d EXCEPT !.unread = c]
           f == [e EXCEPT !.columns = c]
           x == [f EXCEPT !.more = n]
<1>2. r = Outcome(x, FALSE, FALSE)
  BY <1>1 DEF Answered
<1> HIDE DEF d, e, f, x
<1>3. d \in Handle /\ d.errno = FALSE /\ d.st = h.st /\ d.multi = h.multi
  BY DEF d, Handle
<1>4. e \in Handle /\ e.errno = FALSE /\ e.st = h.st /\ e.multi = h.multi
      /\ e.unread = c
  BY <1>3 DEF e, Handle
<1>5. f \in Handle /\ f.errno = FALSE /\ f.st = h.st /\ f.multi = h.multi
      /\ f.unread = c /\ f.columns = c
  BY <1>4 DEF f, Handle
<1>6. x \in Handle /\ x.errno = FALSE /\ x.st = h.st /\ x.multi = h.multi
      /\ x.unread = c /\ x.columns = c /\ x.more = n
  BY <1>5 DEF x, Handle
<1>7. r.h = x /\ r.failed = FALSE /\ r.res = FALSE
  BY <1>2 DEF Outcome
<1> QED
  BY <1>6, <1>7

(* A statement without a result leaves nothing to be stored.               *)
LEMMA DoneFields ==
    ASSUME NEW h \in Handle, NEW g, g = Answered(h, FALSE, 0)
    PROVE  /\ g \in Handle /\ g.errno = FALSE
           /\ g.unread = FALSE /\ g.columns = FALSE /\ g.more = 0
           /\ g.st = h.st /\ g.multi = h.multi
<1> DEFINE d == [h EXCEPT !.errno = FALSE]
           e == [d EXCEPT !.unread = FALSE]
           f == [e EXCEPT !.columns = FALSE]
           x == [f EXCEPT !.more = 0]
<1>1. g = x
  BY DEF Answered
<1> HIDE DEF d, e, f, x
<1>2. d \in Handle /\ d.errno = FALSE /\ d.st = h.st /\ d.multi = h.multi
  BY DEF d, Handle
<1>3. e \in Handle /\ e.errno = FALSE /\ e.st = h.st /\ e.multi = h.multi
      /\ e.unread = FALSE
  BY <1>2 DEF e, Handle
<1>4. f \in Handle /\ f.errno = FALSE /\ f.st = h.st /\ f.multi = h.multi
      /\ f.unread = FALSE /\ f.columns = FALSE
  BY <1>3 DEF f, Handle
<1>5. x \in Handle /\ x.errno = FALSE /\ x.st = h.st /\ x.multi = h.multi
      /\ x.unread = FALSE /\ x.columns = FALSE /\ x.more = 0
  BY <1>4, MaxMoreAssumption DEF x, Handle
<1> QED
  BY <1>1, <1>5

(* A wrapper adds an error code to an outcome of the library.              *)
LEMMA WrapFields ==
    ASSUME NEW outcomes, NEW r \in Wrap(outcomes)
    PROVE  \E o \in outcomes : /\ r.h = o.h /\ r.res = o.res
                               /\ r.ec = error_wrapper(o.failed, o.h)
BY DEF Wrap

(* A call that changes errno alone keeps the connection.                   *)
LEMMA SameKeeps ==
    ASSUME NEW h, NEW g, g.st = h.st, g.unread = h.unread,
           g.columns = h.columns, g.more = h.more, g.multi = h.multi
    PROVE  KeepsConnection(h, g)
BY DEF KeepsConnection, Sound

(* Clearing columns is the start of a statement, which no call begins with *)
(* a result still to be stored.                                            *)
LEMMA ClearedFields ==
    ASSUME NEW h \in Handle, NEW g, g = [h EXCEPT !.columns = FALSE]
    PROVE  /\ g \in Handle /\ g.st = h.st /\ g.unread = h.unread
           /\ g.columns = FALSE /\ g.more = h.more /\ g.multi = h.multi
BY DEF Handle

(* A failed statement keeps the connection.                                *)
LEMMA FailedKeeps ==
    ASSUME NEW h \in Handle, h.st # "raw", ~h.unread,
           NEW r \in Failures([h EXCEPT !.columns = FALSE])
    PROVE  /\ KeepsConnection(h, r.h) /\ r.h \in Handle
           /\ r.h.unread = FALSE /\ r.failed = TRUE /\ r.h.errno = TRUE
<1>1. PICK g : g = [h EXCEPT !.columns = FALSE]
  OBVIOUS
<1>2. /\ g \in Handle /\ g.st = h.st /\ g.unread = h.unread
      /\ g.columns = FALSE /\ g.more = h.more /\ g.multi = h.multi
  BY <1>1, ClearedFields
<1>3. r \in Failures(g)
  BY <1>1
<1> HIDE <1>1
<1>4. /\ r.h \in Handle /\ r.failed = TRUE
      /\ r.h.errno = TRUE /\ r.h.unread = FALSE
      /\ r.h.columns = g.columns /\ r.h.multi = g.multi
      /\ \/ r.h.st = g.st /\ r.h.more = 0
         \/ r.h.st = "init" /\ r.h.more = g.more
  BY <1>2, <1>3, FailureFields
<1> QED
  BY <1>2, <1>4 DEF KeepsConnection, Sound

(* A query keeps the connection.                                           *)
LEMMA QueryKeeps ==
    ASSUME NEW h \in Handle, NEW r \in mysql_real_query(h)
    PROVE  KeepsConnection(h, r.h)
<1>1. PICK o \in LibQuery(h) : r.h = o.h
  BY WrapFields DEF mysql_real_query
<1>2. CASE h.st = "raw"
  <2>1. o \in LibUndefined(h)
    BY <1>2 DEF LibQuery
  <2> QED
    BY <1>1, <2>1, UndefinedFields, SameKeeps
<1>3. CASE h.st # "raw" /\ (h.st = "init" \/ h.unread \/ h.more > 0)
  <2>1. o \in LibUndefined(h)
    BY <1>3 DEF LibQuery, LibUndefined
  <2> QED
    BY <1>1, <2>1, UndefinedFields, SameKeeps
<1>4. CASE h.st # "raw" /\ ~(h.st = "init" \/ h.unread \/ h.more > 0)
  <2> DEFINE S == IF h.multi THEN 0..MaxMore ELSE {0}
  <2>1. S \in SUBSET (0..MaxMore) /\ (~h.multi => S = {0})
    BY MaxMoreAssumption
  <2>2. o \in Failures([h EXCEPT !.columns = FALSE]) \/ o \in Answers(h, S)
    BY <1>4 DEF LibQuery
  <2> HIDE DEF S
  <2>3. CASE o \in Failures([h EXCEPT !.columns = FALSE])
    BY <1>1, <1>4, <2>3, FailedKeeps
  <2>4. CASE o \in Answers(h, S)
    <3>1. /\ o.h.unread = o.h.columns /\ o.h.st = h.st
          /\ o.h.multi = h.multi /\ o.h.more \in S
      BY <2>1, <2>4, AnswersFields
    <3> QED
      BY <1>1, <1>4, <2>1, <3>1 DEF KeepsConnection, Sound
  <2> QED
    BY <2>2, <2>3, <2>4
<1> QED
  BY <1>2, <1>3, <1>4

(* mysql_store_result() takes the result that waits: none waits after it,  *)
(* whether it succeeded or not.                                            *)
LEMMA StoreKeeps ==
    ASSUME NEW h \in Handle, NEW r \in mysql_store_result(h)
    PROVE  /\ KeepsConnection(h, r.h)
           /\ h.st # "raw" \/ Sound(h) => r.h.unread = FALSE
<1>1. PICK o \in LibStore(h) : r.h = o.h
  BY WrapFields DEF mysql_store_result
<1>2. CASE h.st = "raw"
  <2>1. o \in LibUndefined(h)
    BY <1>2 DEF LibStore
  <2>2. /\ r.h \in Handle /\ r.h.st = h.st
        /\ r.h.unread = h.unread /\ r.h.columns = h.columns
        /\ r.h.more = h.more /\ r.h.multi = h.multi
    BY <1>1, <2>1, UndefinedFields
  <2>3. Sound(h) => r.h.unread = FALSE
    BY <1>2, <2>2 DEF Sound, Handle
  <2> QED
    BY <1>2, <2>2, <2>3, SameKeeps
<1>3. CASE h.st # "raw" /\ ~h.unread
  <2>1. r.h = h
    BY <1>1, <1>3 DEF LibStore, Outcome
  <2>2. h.unread = FALSE
    BY <1>3 DEF Handle
  <2> QED
    BY <2>1, <2>2 DEF KeepsConnection
<1>4. CASE h.st # "raw" /\ h.unread
  <2>1. o \in Failures(h) \/ o = Outcome([h EXCEPT !.unread = FALSE], FALSE, TRUE)
    BY <1>4 DEF LibStore
  <2>2. CASE o \in Failures(h)
    <3>1. /\ o.h.unread = FALSE /\ o.h.columns = h.columns
          /\ o.h.multi = h.multi
          /\ \/ o.h.st = h.st /\ o.h.more = 0
             \/ o.h.st = "init" /\ o.h.more = h.more
      BY <2>2, FailureFields
    <3> QED
      BY <1>1, <1>4, <3>1 DEF KeepsConnection, Sound
  <2>3. CASE o = Outcome([h EXCEPT !.unread = FALSE], FALSE, TRUE)
    <3>1. r.h = [h EXCEPT !.unread = FALSE]
      BY <1>1, <2>3 DEF Outcome
    <3>2. /\ r.h.unread = FALSE /\ r.h.st = h.st
          /\ r.h.multi = h.multi /\ r.h.more = h.more
      BY <3>1 DEF Handle
    <3> QED
      BY <1>4, <3>2 DEF KeepsConnection, Sound
  <2> QED
    BY <2>1, <2>2, <2>3
<1> QED
  BY <1>2, <1>3, <1>4

(* mysql_next_result() makes a result wait only when it succeeds.          *)
LEMMA NextKeeps ==
    ASSUME NEW h \in Handle, NEW r \in mysql_next_result(h)
    PROVE  /\ KeepsConnection(h, r.h)
           /\ r.ec # "ok" /\ ~h.unread => r.h.unread = FALSE
<1>1. PICK o \in LibNext(h) : r.h = o.h /\ r.ec = error_wrapper(o.failed, o.h)
  BY WrapFields DEF mysql_next_result
<1>0. ~h.unread => h.unread = FALSE
  BY DEF Handle
<1>2. CASE h.st = "raw"
  <2>1. o \in LibUndefined(h)
    BY <1>2 DEF LibNext
  <2>2. /\ r.h.st = h.st /\ r.h.unread = h.unread /\ r.h.columns = h.columns
        /\ r.h.more = h.more /\ r.h.multi = h.multi
    BY <1>1, <2>1, UndefinedFields
  <2> QED
    BY <1>0, <2>2, SameKeeps
<1>3. CASE h.st # "raw" /\ h.unread
  <2>1. o \in LibUndefined(h)
    BY <1>3 DEF LibNext, LibUndefined
  <2> QED
    BY <1>1, <1>3, <2>1, UndefinedFields, SameKeeps
<1>4. CASE h.st # "raw" /\ ~h.unread /\ h.more = 0
  <2>1. r.h = [h EXCEPT !.errno = FALSE]
    BY <1>1, <1>4 DEF LibNext, Outcome
  <2>2. /\ r.h.st = h.st /\ r.h.unread = h.unread /\ r.h.columns = h.columns
        /\ r.h.more = h.more /\ r.h.multi = h.multi
    BY <2>1 DEF Handle
  <2> QED
    BY <1>0, <2>2, SameKeeps
<1>5. CASE h.st # "raw" /\ ~h.unread /\ h.more # 0 /\ h.st = "init"
  <2>1. o = Refused([h EXCEPT !.columns = FALSE])
    BY <1>5 DEF LibNext
  <2>2. PICK g : g = [h EXCEPT !.columns = FALSE]
    OBVIOUS
  <2>3. /\ g \in Handle /\ g.st = h.st /\ g.unread = h.unread
        /\ g.columns = FALSE /\ g.more = h.more /\ g.multi = h.multi
    BY <2>2, ClearedFields
  <2>4. o \in LibUndefined(g)
    BY <2>1, <2>2 DEF LibUndefined
  <2> HIDE <2>2
  <2>5. /\ r.h.st = g.st /\ r.h.unread = g.unread /\ r.h.columns = g.columns
        /\ r.h.more = g.more /\ r.h.multi = g.multi
    BY <1>1, <2>3, <2>4, UndefinedFields
  <2> QED
    BY <1>0, <1>5, <2>3, <2>5 DEF KeepsConnection, Sound
<1>6. CASE h.st # "raw" /\ ~h.unread /\ h.more # 0 /\ h.st # "init"
  <2>1. o \in Failures([h EXCEPT !.columns = FALSE])
        \/ o \in Answers(h, {h.more - 1})
    BY <1>6 DEF LibNext
  <2>2. CASE o \in Failures([h EXCEPT !.columns = FALSE])
    BY <1>1, <1>6, <2>2, FailedKeeps
  <2>3. CASE o \in Answers(h, {h.more - 1})
    <3>1. {h.more - 1} \in SUBSET (0..MaxMore)
      BY <1>6, MaxMoreAssumption DEF Handle
    <3>2. /\ o.h.unread = o.h.columns /\ o.h.st = h.st /\ o.failed = FALSE
          /\ o.h.multi = h.multi
      BY <2>3, <3>1, AnswersFields
    <3>3. r.ec = "ok"
      BY <1>1, <3>2 DEF error_wrapper
    <3> QED
      BY <1>1, <1>6, <3>2, <3>3 DEF KeepsConnection, Sound
  <2> QED
    BY <2>1, <2>2, <2>3
<1> QED
  BY <1>2, <1>3, <1>4, <1>5, <1>6

(* A statement without a result keeps the connection and leaves no result  *)
(* to be stored that was not there.                                        *)
LEMMA LibCommandKeeps ==
    ASSUME NEW h \in Handle, NEW o \in LibCommand(h)
    PROVE  /\ o.h \in Handle /\ KeepsConnection(h, o.h) /\ KeepsInit(h, o)
           /\ o.h.unread => h.unread
<1>2. CASE h.st = "raw"
  <2>1. o \in LibUndefined(h)
    BY <1>2 DEF LibCommand
  <2> QED
    BY <1>2, <2>1, UndefinedFields, SameKeeps DEF KeepsInit
<1>3. CASE h.st # "raw" /\ (h.st = "init" \/ h.unread \/ h.more > 0)
  <2>1. o \in LibUndefined(h)
    BY <1>3 DEF LibCommand, LibUndefined
  <2> QED
    BY <2>1, UndefinedFields, SameKeeps DEF KeepsInit
<1>4. CASE h.st # "raw" /\ ~(h.st = "init" \/ h.unread \/ h.more > 0)
  <2>1. o \in Failures([h EXCEPT !.columns = FALSE])
        \/ o = Outcome(Answered(h, FALSE, 0), FALSE, FALSE)
    BY <1>4 DEF LibCommand
  <2>2. CASE o \in Failures([h EXCEPT !.columns = FALSE])
    <3>1. PICK g : g = [h EXCEPT !.columns = FALSE]
      OBVIOUS
    <3>2. g \in Handle /\ g.st = h.st
      BY <3>1, ClearedFields
    <3>3. o \in Failures(g)
      BY <2>2, <3>1
    <3> HIDE <3>1
    <3>4. o.h.st = g.st \/ o.h.st = "init"
      BY <3>2, <3>3, FailureFields
    <3> QED
      BY <1>4, <2>2, <3>2, <3>4, FailedKeeps DEF KeepsInit
  <2>3. CASE o = Outcome(Answered(h, FALSE, 0), FALSE, FALSE)
    <3>1. o.h = Answered(h, FALSE, 0)
      BY <2>3 DEF Outcome
    <3>2. /\ o.h \in Handle /\ o.h.unread = FALSE /\ o.h.columns = FALSE
          /\ o.h.more = 0 /\ o.h.st = h.st /\ o.h.multi = h.multi
      BY <3>1, DoneFields
    <3> QED
      BY <1>4, <3>2 DEF KeepsConnection, Sound, KeepsInit
  <2> QED
    BY <2>1, <2>2, <2>3
<1> QED
  BY <1>2, <1>3, <1>4

(* Connecting stores nothing and makes no result wait; a connection made   *)
(* has the flags it was asked for, a handle that is connected stays as it  *)
(* was.                                                                    *)
LEMMA ConnectKeeps ==
    ASSUME NEW h \in Handle, NEW multi \in BOOLEAN,
           NEW r \in mysql_real_connect(h, multi)
    PROVE  /\ Sound(h) => Sound(r.h)
           /\ r.h.unread => h.unread
           /\ h.st = "up" => r.h.multi = h.multi /\ r.h.st = "up"
           /\ h.st = "init" /\ r.h.st = "up" => r.h.multi = multi
           /\ h.st = "raw" => r.h.st = "raw"
<1>1. PICK o \in LibConnect(h, multi) : r.h = o.h
  BY WrapFields DEF mysql_real_connect
<1>2. h.st \in {"raw", "init", "up"}
  BY DEF Handle
<1>3. CASE h.st = "raw"
  <2>1. o \in LibUndefined(h)
    BY <1>3 DEF LibConnect
  <2> QED
    BY <1>1, <1>3, <2>1, UndefinedFields DEF Sound
<1>4. CASE h.st = "up" \/ (h.st = "init" /\ o = Refused(h))
  <2>1. o \in LibUndefined(h)
    BY <1>4 DEF LibConnect, LibUndefined
  <2> QED
    BY <1>1, <1>4, <2>1, UndefinedFields DEF Sound
<1>5. CASE h.st = "init" /\ o # Refused(h)
  <2> DEFINE u == [FreshHandle EXCEPT !.st = "up", !.multi = multi]
  <2>1. o = Outcome(u, FALSE, FALSE)
    BY <1>5 DEF LibConnect
  <2>2. /\ u.st = "up" /\ u.multi = multi /\ u.unread = FALSE /\ u.more = 0
    BY DEF FreshHandle, RawHandle
  <2> HIDE DEF u
  <2>3. r.h = u
    BY <1>1, <2>1 DEF Outcome
  <2> QED
    BY <1>5, <2>2, <2>3 DEF Sound
<1> QED
  BY <1>2, <1>3, <1>4, <1>5
=============================================================================
