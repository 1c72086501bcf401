------------------------ MODULE BlockingCallsProofs -------------------------
(***************************************************************************)
(* What the blocking calls of BlockingCalls do to the MYSQL handle, for    *)
(* any implementation record: the facts the proofs about the connector and *)
(* about mariadb_service have in common.                                   *)
(***************************************************************************)
EXTENDS BlockingCalls, MySQLOpsProofs

(* What every call but connect() leaves of a handle h.                     *)
Leaves_h(h, r) ==
    r.h \in Handle /\ KeepsConnection(h, r.h) /\ KeepsInit(h, r)

(* The trivial outcome.                                                    *)
LEMMA SameHandle ==
    ASSUME NEW h \in Handle, NEW r, r.h = h
    PROVE  Leaves_h(h, r)
BY DEF Leaves_h, KeepsConnection, KeepsInit

(* A setting of an option does nothing to what waits in the handle.        *)
LEMMA OptionsHandle ==
    ASSUME NEW h \in Handle, NEW r \in mysql_options(h)
    PROVE  /\ Leaves_h(h, r) /\ r.h.unread = h.unread
           /\ r.ec \in {"ok", "client"}
<1> DEFINE O == {Outcome(h, FALSE, FALSE), Refused(h)}
<1>0. r \in Wrap(O)
  BY DEF mysql_options
<1> HIDE DEF O
<1>1. PICK o \in O : r.h = o.h /\ r.ec = error_wrapper(o.failed, o.h)
  BY <1>0, WrapFields
<1> USE DEF O
<1>2. r.ec \in {"ok", "client"}
  BY <1>1 DEF error_wrapper
<1>3. CASE o = Refused(h)
  <2>1. o \in LibUndefined(h)
    BY <1>3 DEF LibUndefined
  <2> QED
    BY <1>1, <1>2, <2>1, UndefinedFields, SameKeeps DEF Leaves_h, KeepsInit
<1>4. CASE o = Outcome(h, FALSE, FALSE)
  <2>1. r.h = h
    BY <1>1, <1>4 DEF Outcome
  <2> QED
    BY <1>2, <2>1, SameHandle
<1> QED
  BY <1>3, <1>4

(* autocommit(), commit() and rollback() leave no result to be stored that *)
(* was not there; only autocommit() goes to the library of a connection    *)
(* that is not open.                                                       *)
LEMMA CommandHandle ==
    ASSUME NEW i, NEW h \in Handle,
           NEW r \in Autocommit(i, h) \cup Commit(i, h) \cup Rollback(i, h)
    PROVE  /\ r.i = i /\ Leaves_h(h, r)
           /\ r.h.unread => h.unread
           /\ r.ec \in ErrorCodes \ {"no_more_results"}
           /\ ~i.initialized /\ r \in Commit(i, h) \cup Rollback(i, h) =>
                 r.ec = "not_initialized"
<1> DEFINE E == {"autocommit_setting_error", "commit_error", "rollback_error"}
<1>1. \/ r \in NotOpen(i, h)
      \/ \E e \in E : r \in Outcomes(i, Command(h, e))
  BY DEF Autocommit, Commit, Rollback, mysql_autocommit, mysql_commit,
         mysql_rollback
<1>2. ~i.initialized /\ r \in Commit(i, h) \cup Rollback(i, h) =>
          r.ec = "not_initialized"
  BY DEF Commit, Rollback, NotOpen
<1>3. CASE r \in NotOpen(i, h)
  <2>1. r.i = i /\ r.h = h /\ r.ec = "not_initialized"
    BY <1>3 DEF NotOpen
  <2> QED
    BY <1>2, <2>1, SameHandle DEF ErrorCodes
<1>4. CASE \E e \in E : r \in Outcomes(i, Command(h, e))
  <2>1. PICK e \in E : r \in Outcomes(i, Command(h, e))
    BY <1>4
  <2>2. PICK s \in Command(h, e) : r.i = i /\ r.h = s.h /\ r.ec = s.ec
    BY <2>1 DEF Outcomes
  <2>3. PICK o \in LibCommand(h) : s.h = o.h /\ s.ec \in {"ok", e}
    BY <2>2 DEF Command
  <2>4. /\ o.h \in Handle /\ KeepsConnection(h, o.h) /\ KeepsInit(h, o)
        /\ o.h.unread => h.unread
    BY LibCommandKeeps
  <2>5. r.ec \in ErrorCodes \ {"no_more_results"}
    BY <2>2, <2>3 DEF ErrorCodes
  <2> QED
    BY <1>2, <2>2, <2>3, <2>4, <2>5 DEF Leaves_h, KeepsInit
<1> QED
  BY <1>1, <1>3, <1>4

(* query() goes to the library of an open connection only.                 *)
LEMMA QueryHandle ==
    ASSUME NEW i, NEW h \in Handle, NEW r \in QueryResult(i, h)
    PROVE  /\ Leaves_h(h, r)
           /\ ~i.initialized => r.i = i /\ r.h = h /\ r.ec = "not_initialized"
           /\ i.initialized =>
                 /\ r.i = [i EXCEPT !.last_result = FALSE,
                                    !.first_result_stored = FALSE]
                 /\ r.ec \in {"ok", "client"}
<1>1. CASE ~i.initialized
  <2>1. r.i = i /\ r.h = h /\ r.ec = "not_initialized"
    BY <1>1 DEF QueryResult, NotOpen
  <2> QED
    BY <1>1, <2>1, SameHandle
<1>2. CASE i.initialized
  <2>1. PICK s \in mysql_real_query(h) :
            /\ r.i = [i EXCEPT !.last_result = FALSE,
                               !.first_result_stored = FALSE]
            /\ r.h = s.h /\ r.ec = s.ec
    BY <1>2 DEF QueryResult
  <2>2. s \in CallResult /\ KeepsInit(h, s)
    BY <2>1, CallType
  <2>3. KeepsConnection(h, s.h)
    BY <2>1, QueryKeeps
  <2> QED
    BY <1>2, <2>1, <2>2, <2>3 DEF Leaves_h, CallResult, KeepsInit
<1> QED
  BY <1>1, <1>2

(* If the step to the next result fails no result waits that was not       *)
(* there; only has_more_results() and the caller can say that there are no *)
(* more results.                                                           *)
Advances(i, h, e, a) ==
    /\ Leaves_h(h, a) /\ a.ec \in ErrorCodes
    /\ ~i.first_result_stored => a.h = h /\ a.ec = e
    /\ i.first_result_stored =>
          /\ ~h.unread /\ a.ec # "ok" => a.h.unread = FALSE
          /\ a.ec = "no_more_results" => ~has_more_results(i, h) /\ a.h = h

(* The step to the result that is to be stored.                            *)
LEMMA AdvancedHandle ==
    ASSUME NEW i, NEW h \in Handle, NEW e \in ErrorCodes,
           NEW a \in Advanced(i, h, e)
    PROVE  Advances(i, h, e, a)
<1> USE DEF Advances
<1>1. CASE ~i.first_result_stored
  <2>1. a.h = h /\ a.ec = e
    BY <1>1 DEF Advanced
  <2> QED
    BY <1>1, <2>1, SameHandle
<1>2. CASE i.first_result_stored /\ ~has_more_results(i, h)
  <2>1. a.h = h /\ a.ec = "no_more_results"
    BY <1>2 DEF Advanced
  <2>2. ~h.unread => h.unread = FALSE
    BY DEF Handle
  <2> QED
    BY <1>2, <2>1, <2>2, SameHandle DEF ErrorCodes
<1>3. CASE i.first_result_stored /\ has_more_results(i, h)
  <2>1. PICK s \in mysql_next_result(h) : a.h = s.h /\ a.ec = s.ec
    BY <1>3 DEF Advanced
  <2>2. s \in CallResult /\ KeepsInit(h, s)
    BY <2>1, CallType
  <2>3. /\ KeepsConnection(h, s.h)
        /\ s.ec # "ok" /\ ~h.unread => s.h.unread = FALSE
    BY <2>1, NextKeeps
  <2>4. a.ec \in {"ok", "client"}
    BY <2>1, <2>2 DEF CallResult
  <2> QED
    BY <1>3, <2>1, <2>2, <2>3, <2>4
    DEF Leaves_h, CallResult, KeepsInit, ErrorCodes
<1> QED
  BY <1>1, <1>2, <1>3

(* store_result() takes the result that waits, unless it was given an      *)
(* error and returned with it at once.                                     *)
Stores(i, h, e, r) ==
    /\ Leaves_h(h, r) /\ r.ec \in ErrorCodes
    /\ ~i.first_result_stored /\ e # "ok" => r.h = h /\ r.ec = e
    /\ /\ Sound(h) \/ h.st # "raw"
       /\ IF i.first_result_stored THEN ~h.unread ELSE e = "ok"
       => r.h.unread = FALSE
    /\ r.ec = "no_more_results" =>
          \/ ~i.first_result_stored /\ e = "no_more_results"
          \/ /\ i.first_result_stored /\ ~has_more_results(i, h)
             /\ r.h = h

(* The outcomes of store_result() are of that kind.                        *)
LEMMA StoreHandle ==
    ASSUME NEW i, NEW h \in Handle, NEW e \in ErrorCodes,
           NEW r \in StoreResult(i, h, e)
    PROVE  Stores(i, h, e, r)
<1> USE DEF Stores
<1> DEFINE j == [i EXCEPT !.first_result_stored = TRUE,
                    !.last_result = @ /\ ~i.first_result_stored]
<1>1. PICK a \in Advanced(i, h, e) :
          r \in IF a.ec = "ok" THEN Stored(j, a.h)
                ELSE {[i |-> j, h |-> a.h, ec |-> a.ec]}
  BY DEF StoreResult
<1> HIDE DEF j
<1>2. Advances(i, h, e, a)
  BY AdvancedHandle
<1> USE DEF Advances
<1>3. CASE a.ec # "ok"
  <2>1. r.h = a.h /\ r.ec = a.ec
    BY <1>1, <1>3
  <2>2. Leaves_h(h, r)
    BY <1>2, <2>1 DEF Leaves_h, KeepsInit
  <2> QED
    BY <1>2, <1>3, <2>1, <2>2
<1>4. CASE a.ec = "ok"
  <2>1. PICK s \in mysql_store_result(a.h) :
            /\ r.h = s.h
            /\ r.ec \in IF s.res THEN mysql_fetch_row(s.h, s.ec) ELSE {s.ec}
    BY <1>1, <1>4 DEF Stored
  <2>2. a.h \in Handle /\ KeepsConnection(h, a.h) /\ KeepsInit(h, a)
    BY <1>2 DEF Leaves_h
  <2>3. s \in CallResult /\ KeepsInit(a.h, s)
    BY <2>1, <2>2, CallType
  <2>4. /\ KeepsConnection(a.h, s.h)
        /\ a.h.st # "raw" \/ Sound(a.h) => s.h.unread = FALSE
    BY <2>1, <2>2, StoreKeeps
  <2>5. r.ec \in {"ok", "client"}
    BY <2>1, <2>3 DEF CallResult, mysql_fetch_row, error_wrapper
  <2>6. Leaves_h(h, r)
    BY <2>1, <2>2, <2>3, <2>4
    DEF Leaves_h, KeepsConnection, KeepsInit, CallResult
  <2>7. Sound(h) \/ h.st # "raw" => r.h.unread = FALSE
    BY <2>1, <2>2, <2>4 DEF KeepsConnection, KeepsInit
  <2> QED
    BY <1>2, <1>4, <2>5, <2>6, <2>7 DEF ErrorCodes
<1> QED
  BY <1>3, <1>4

(* connect() opens the connection if need be; if that succeeds it goes on  *)
(* to the library.                                                         *)
LEMMA ConnectParts ==
    ASSUME NEW i, NEW h, NEW flags, NEW r \in Connect(i, h, flags)
    PROVE  \E o \in Open(i, h) :
              \/ o.ec # "ok" /\ r = o
              \/ /\ o.ec = "ok" /\ r.i = [o.i EXCEPT !.flags = flags]
                 /\ \E s \in mysql_real_connect(o.h, flags) :
                       r.h = s.h /\ r.ec = s.ec
<1>1. PICK o \in Open(i, h) :
          r \in IF o.ec # "ok" THEN {o}
                ELSE Outcomes([o.i EXCEPT !.flags = flags],
                              mysql_real_connect(o.h, flags))
  BY DEF Connect
<1>2. CASE o.ec # "ok"
  BY <1>1, <1>2
<1>3. CASE o.ec = "ok"
  <2> DEFINE j == [o.i EXCEPT !.flags = flags]
  <2>1. r \in Outcomes(j, mysql_real_connect(o.h, flags))
    BY <1>1, <1>3
  <2> HIDE DEF j
  <2>2. PICK s \in mysql_real_connect(o.h, flags) :
            r.i = j /\ r.h = s.h /\ r.ec = s.ec
    BY <2>1 DEF Outcomes
  <2> QED
    BY <1>3, <2>2 DEF j
<1> QED
  BY <1>2, <1>3
=============================================================================
