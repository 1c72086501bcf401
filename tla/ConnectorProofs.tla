-------------------------- MODULE ConnectorProofs ---------------------------
(***************************************************************************)
(* Proofs about the calls of a connector, for statements with any number   *)
(* of result sets: every invariant of Connector.                           *)
(***************************************************************************)
EXTENDS Connector, BlockingCallsProofs

(***************************************************************************)
(* The inductive invariant: what impl and the handle know of each other.   *)
(***************************************************************************)
OpenIsInit ==
    /\ impl.initialized => mysql.st # "raw"
    /\ ~impl.initialized => mysql.st # "up"

(* The flags are those the connection was made with, unless a connect() on *)
(* a connected connector replaced them.                                    *)
FlagsAgree ==
    mysql.st = "up" /\ "reconnect" \notin careless => impl.flags = mysql.multi

CInv == TypeOK /\ OpenIsInit /\ Sound(mysql) /\ FlagsAgree /\ FirstResultStored

(* An operation that is queued and was not cancelled has an open           *)
(* connector; no other call has told the user anything since.              *)
ExecInv ==
    /\ exec = "queued" =>
          impl.initialized /\ told.call = "none" /\ told.ec = "ok"
    /\ exec # "no_more_results"

(* What the last call told the user.                                       *)
ToldInv == IterationComplete /\ NoMoreResults /\ LibraryNeedsHandle

(* has_more_results() is right whenever the user was careful: when it says *)
(* no, every result of the statement was taken.                            *)
LEMMA MoreIsExact ==
    ASSUME CInv, careless = {}, mysql.st = "up", ~has_more_results(impl, mysql)
    PROVE  Consumed
<1>1. /\ impl.initialized /\ impl.flags = mysql.multi
      /\ impl.first_result_stored => ~mysql.unread
  BY DEF CInv, OpenIsInit, FlagsAgree, FirstResultStored
<1>2. mysql.more \in Nat
  BY MaxMoreAssumption DEF CInv, TypeOK, Handle
<1>3. CASE impl.flags
  <2>1. impl.first_result_stored /\ ~(mysql.more > 0)
    BY <1>1, <1>3 DEF has_more_results, mysql_more_results
  <2> QED
    BY <1>1, <2>1 DEF Consumed, mysql_more_results
<1>4. CASE ~impl.flags
  <2>1. impl.first_result_stored \/ ~mysql.columns
    BY <1>1, <1>4 DEF has_more_results, mysql_field_count
  <2>2. mysql.more = 0 /\ (~mysql.columns => ~mysql.unread)
    BY <1>1, <1>4 DEF CInv, Sound
  <2> QED
    BY <1>1, <1>2, <2>1, <2>2 DEF Consumed, mysql_more_results
<1> QED
  BY <1>3, <1>4

(* The calls that may take a raw handle to the library.                    *)
RawCall(t) ==
    \/ t.call \in {"set_option", "store_result", "autocommit", "affected_rows"}
    \/ t.call = "async_execute" /\ t.ec # "ok"

(* A call that neither opens, closes nor connects.                         *)
LEMMA CallKeeps ==
    ASSUME CInv, TypeOK',
           KeepsConnection(mysql, mysql'),
           mysql.st # "raw" => mysql'.st # "raw",
           impl'.initialized = impl.initialized,
           impl'.flags = impl.flags,
           careless \subseteq careless',
           impl'.first_result_stored /\ "stale_ec" \notin careless' =>
               ~mysql'.unread,
           told'.ec = "no_more_results" /\ careless' = {} =>
               mysql' = mysql /\ ~has_more_results(impl, mysql),
           told'.call = "increment" =>
               /\ mysql' = mysql /\ careless' = careless
               /\ ~has_more_results(impl, mysql),
           entered' => RawCall(told')
    PROVE  CInv' /\ ToldInv'
<1>1. OpenIsInit'
  BY DEF CInv, OpenIsInit, KeepsConnection
<1>2. Sound(mysql)'
  BY DEF CInv, KeepsConnection, Sound
<1>3. FlagsAgree'
  BY DEF CInv, FlagsAgree, KeepsConnection
<1>4. FirstResultStored'
  BY DEF FirstResultStored
<1>5. careless' = {} => careless = {}
  OBVIOUS
<1>6. mysql' = mysql => (Consumed' <=> Consumed)
  BY DEF Consumed, mysql_more_results
<1>7. IterationComplete' /\ NoMoreResults'
  BY <1>5, <1>6, MoreIsExact DEF IterationComplete, NoMoreResults
<1>8. LibraryNeedsHandle'
  BY DEF LibraryNeedsHandle, RawCall
<1> QED
  BY <1>1, <1>2, <1>3, <1>4, <1>7, <1>8 DEF CInv, ToldInv

(* A call that opens, closes or connects tells the user nothing of         *)
(* results.                                                                *)
LEMMA SilentCall ==
    ASSUME told'.call \in {"open", "close", "connect"},
           told'.ec # "no_more_results", entered' = FALSE
    PROVE  ToldInv'
BY DEF ToldInv, IterationComplete, NoMoreResults, LibraryNeedsHandle

(* What the user is told has its type.                                     *)
LEMMA TellsType ==
    ASSUME CInv, NEW call \in Calls, NEW own \in BOOLEAN,
           NEW e \in ErrorCodes, NEW n \in Rows, Tells(call, own, e, n)
    PROVE  /\ ec' \in ErrorCodes
           /\ told' \in [call : Calls, ec : ErrorCodes, rows : Rows]
           /\ told'.call = call /\ told'.ec = e
BY DEF Tells, CInv, TypeOK

(* open() leaves a connector that is open as it is, or initialises the     *)
(* handle of one that is not.                                              *)
Opens(i, h, o) ==
    /\ o.i \in Implementation /\ o.h \in Handle
    /\ o.ec \in {"ok", "initialization_error"}
    /\ o.i.flags = i.flags
    /\ o.i.first_result_stored = i.first_result_stored
    /\ i.initialized => o.i = i /\ o.h = h /\ o.ec = "ok"
    /\ ~i.initialized /\ o.ec = "ok" =>
          /\ o.i.initialized
          /\ o.h.st = "init" /\ o.h.unread = FALSE /\ o.h.more = 0
    /\ o.ec # "ok" => ~o.i.initialized /\ o.h = h

(* The outcomes of open() are of that kind.                                *)
LEMMA OpenOutcome ==
    ASSUME NEW i \in Implementation, NEW h \in Handle, NEW o \in Open(i, h)
    PROVE  Opens(i, h, o)
<1> USE DEF Opens
<1>1. CASE i.initialized
  <2>1. o = [i |-> i, h |-> h, ec |-> "ok"]
    BY <1>1 DEF Open
  <2> QED
    BY <1>1, <2>1
<1>2. CASE ~i.initialized
  <2>1. PICK s \in mysql_init(h) :
            o = [i |-> [i EXCEPT !.initialized = (s.ec = "ok")], h |-> s.h,
                 ec |-> s.ec]
    BY <1>2 DEF Open
  <2> DEFINE b == s.ec = "ok"
             j == [i EXCEPT !.initialized = b]
  <2>2. b \in BOOLEAN /\ o.i = j /\ o.h = s.h /\ o.ec = s.ec
    BY <2>1
  <2>3. j \in Implementation /\ j.initialized = b /\ j.flags = i.flags
        /\ j.first_result_stored = i.first_result_stored
    BY <2>2 DEF Implementation
  <2>4. \/ s.ec = "ok" /\ s.h = FreshHandle
        \/ s.ec = "initialization_error" /\ s.h = h
    BY DEF mysql_init
  <2>5. /\ FreshHandle \in Handle /\ FreshHandle.st = "init"
        /\ FreshHandle.unread = FALSE /\ FreshHandle.more = 0
    BY FreshType DEF FreshHandle, RawHandle
  <2> HIDE DEF j
  <2> QED
    BY <1>2, <2>2, <2>3, <2>4, <2>5
<1> QED
  BY <1>1, <1>2

(* open() keeps the invariant.                                             *)
LEMMA OpenKeeps ==
    ASSUME CInv, UNCHANGED exec, NEW own \in BOOLEAN, open(own)
    PROVE  CInv' /\ ToldInv'
<1>1. PICK r \in Open(impl, mysql) :
          /\ mysql' = r.h /\ impl' = r.i
          /\ Tells("open", own, r.ec, "0")
          /\ entered' = FALSE
          /\ UNCHANGED <<rows, it, careless>>
  BY DEF open
<1>2. impl \in Implementation /\ mysql \in Handle
  BY DEF CInv, TypeOK
<1>3. Opens(impl, mysql, r)
  BY <1>2, OpenOutcome
<1>4. r.ec \in ErrorCodes /\ "0" \in Rows /\ "open" \in Calls
  BY <1>3 DEF ErrorCodes, Rows, Calls, Opens
<1>5. /\ ec' \in ErrorCodes
      /\ told' \in [call : Calls, ec : ErrorCodes, rows : Rows]
      /\ told'.call = "open" /\ told'.ec = r.ec
  BY <1>1, <1>4, TellsType
<1>6. ToldInv'
  BY <1>1, <1>3, <1>5, SilentCall DEF Opens
<1>7. TypeOK'
  BY <1>1, <1>3, <1>5 DEF CInv, TypeOK, Opens
<1>8. OpenIsInit' /\ Sound(mysql)' /\ FlagsAgree' /\ FirstResultStored'
  <2>1. CASE impl.initialized \/ r.ec # "ok"
    BY <1>1, <1>3, <2>1
    DEF CInv, OpenIsInit, Sound, FlagsAgree, FirstResultStored, Opens
  <2>2. CASE ~impl.initialized /\ r.ec = "ok"
    BY <1>1, <1>3, <2>2
    DEF OpenIsInit, Sound, FlagsAgree, FirstResultStored, Opens
  <2> QED
    BY <2>1, <2>2
<1> QED
  BY <1>6, <1>7, <1>8 DEF CInv

(* close() keeps the invariant: nothing of the connection is left.         *)
LEMMA CloseKeeps ==
    ASSUME CInv, close
    PROVE  CInv' /\ ToldInv'
<1>1. impl' = Closed(impl) /\ mysql' = RawHandle
  BY DEF close
<1>2. /\ impl' \in Implementation /\ impl'.initialized = FALSE
      /\ impl'.first_result_stored = FALSE
  BY <1>1 DEF Closed, CInv, TypeOK, Implementation
<1>3. /\ mysql' \in Handle /\ mysql'.st = "raw"
      /\ mysql'.unread = FALSE /\ mysql'.more = 0
  BY <1>1, FreshType DEF RawHandle
<1>4. "ok" \in ErrorCodes /\ "0" \in Rows /\ "close" \in Calls
      /\ FALSE \in BOOLEAN
  BY DEF ErrorCodes, Rows, Calls
<1>5. /\ ec' \in ErrorCodes
      /\ told' \in [call : Calls, ec : ErrorCodes, rows : Rows]
      /\ told'.call = "close" /\ told'.ec = "ok"
  BY <1>4, TellsType DEF close
<1>6. ToldInv'
  BY <1>5, SilentCall DEF close
<1>7. TypeOK'
  BY <1>2, <1>3, <1>5 DEF close, Expire, CInv, TypeOK
<1>8. OpenIsInit' /\ Sound(mysql)' /\ FlagsAgree' /\ FirstResultStored'
  BY <1>2, <1>3 DEF OpenIsInit, Sound, FlagsAgree, FirstResultStored
<1> QED
  BY <1>6, <1>7, <1>8 DEF CInv

(* connect() keeps the invariant.  A connection it makes has the flags it  *)
(* keeps; on one that is made already it is careless.                      *)
LEMMA ConnectStep ==
    ASSUME CInv, UNCHANGED exec, NEW flags \in BOOLEAN, NEW own \in BOOLEAN,
           connect(flags, own)
    PROVE  CInv' /\ ToldInv'
<1>1. PICK r \in Connect(impl, mysql, flags) :
          /\ mysql' = r.h /\ impl' = r.i
          /\ Tells("connect", own, r.ec, "0")
          /\ entered' = FALSE
          /\ UNCHANGED <<rows, it>>
  BY DEF connect
<1>2. careless' = careless \cup {k \in {"reconnect"} : mysql.st = "up"}
  BY DEF connect
<1>3. impl \in Implementation /\ mysql \in Handle /\ careless \subseteq Habits
  BY DEF CInv, TypeOK
<1>4. PICK o \in Open(impl, mysql) :
          \/ o.ec # "ok" /\ r = o
          \/ /\ o.ec = "ok" /\ r.i = [o.i EXCEPT !.flags = flags]
             /\ \E s \in mysql_real_connect(o.h, flags) :
                   r.h = s.h /\ r.ec = s.ec
  BY ConnectParts
<1>5. Opens(impl, mysql, o)
  BY <1>3, OpenOutcome
<1>6. /\ careless \subseteq careless' /\ careless' \subseteq Habits
      /\ "stale_ec" \notin careless' => "stale_ec" \notin careless
      /\ "reconnect" \notin careless' =>
            "reconnect" \notin careless /\ mysql.st # "up"
  BY <1>2, <1>3 DEF Habits
<1>7. ASSUME r.i \in Implementation, r.h \in Handle,
             r.ec \in ErrorCodes \ {"no_more_results"}
      PROVE  TypeOK' /\ ToldInv'
  <2>1. "connect" \in Calls /\ "0" \in Rows
    BY DEF Calls, Rows
  <2>2. /\ ec' \in ErrorCodes
        /\ told' \in [call : Calls, ec : ErrorCodes, rows : Rows]
        /\ told'.call = "connect" /\ told'.ec = r.ec
    BY <1>1, <1>7, <2>1, TellsType
  <2>3. ToldInv'
    BY <1>1, <1>7, <2>2, SilentCall
  <2>4. TypeOK'
    BY <1>1, <1>6, <1>7, <2>2 DEF CInv, TypeOK
  <2> QED
    BY <2>3, <2>4
<1>8. CASE o.ec # "ok" /\ r = o
  <2>1. TypeOK' /\ ToldInv'
    BY <1>5, <1>7, <1>8 DEF Opens, ErrorCodes
  <2>2. /\ ~impl.initialized /\ ~impl'.initialized /\ mysql' = mysql
        /\ impl'.first_result_stored = impl.first_result_stored
    BY <1>1, <1>5, <1>8 DEF Opens
  <2>3. OpenIsInit' /\ Sound(mysql)' /\ FlagsAgree' /\ FirstResultStored'
    BY <1>6, <2>2 DEF CInv, OpenIsInit, Sound, FlagsAgree, FirstResultStored
  <2> QED
    BY <2>1, <2>3 DEF CInv
<1>9. CASE /\ o.ec = "ok" /\ r.i = [o.i EXCEPT !.flags = flags]
           /\ \E s \in mysql_real_connect(o.h, flags) :
                 r.h = s.h /\ r.ec = s.ec
  <2>1. PICK s \in mysql_real_connect(o.h, flags) :
            r.h = s.h /\ r.ec = s.ec
    BY <1>9
  <2>2. o.i \in Implementation /\ o.h \in Handle /\ o.i.initialized
    BY <1>5, <1>9 DEF Opens
  <2>3. s \in CallResult /\ KeepsInit(o.h, s)
    BY <2>1, <2>2, CallType
  <2>4. /\ r.i \in Implementation /\ r.i.initialized = o.i.initialized
        /\ r.i.flags = flags
        /\ r.i.first_result_stored = o.i.first_result_stored
    BY <1>9, <2>2 DEF Implementation
  <2>5. /\ Sound(o.h) => Sound(s.h)
        /\ s.h.unread => o.h.unread
        /\ o.h.st = "init" /\ s.h.st = "up" => s.h.multi = flags
    BY <2>1, <2>2, ConnectKeeps
  <2>6. TypeOK' /\ ToldInv'
    BY <1>7, <2>1, <2>3, <2>4 DEF CallResult, ErrorCodes
  <2>7. /\ Sound(o.h) /\ o.h.st # "raw"
        /\ mysql.st # "up" => o.h.st = "init"
        /\ o.h.unread => impl.initialized /\ mysql.unread
    <3>1. CASE impl.initialized
      <4>1. o.h = mysql /\ mysql.st # "raw"
        BY <1>5, <3>1 DEF Opens, CInv, OpenIsInit
      <4> QED
        BY <1>3, <3>1, <4>1 DEF CInv, Handle
    <3>2. CASE ~impl.initialized
      BY <1>5, <1>9, <3>2 DEF Opens, Sound
    <3> QED
      BY <3>1, <3>2
  <2>8. OpenIsInit' /\ Sound(mysql)'
    BY <1>1, <2>1, <2>2, <2>3, <2>4, <2>5, <2>7 DEF OpenIsInit, KeepsInit
  <2>9. FlagsAgree'
    BY <1>1, <1>6, <2>1, <2>4, <2>5, <2>7 DEF FlagsAgree
  <2>10. FirstResultStored'
    <3>1. o.i.first_result_stored = impl.first_result_stored
      BY <1>5 DEF Opens
    <3> QED
      BY <1>1, <1>6, <2>1, <2>4, <2>5, <2>7, <3>1 DEF CInv, FirstResultStored
  <2> QED
    BY <2>6, <2>8, <2>9, <2>10 DEF CInv
<1> QED
  BY <1>4, <1>8, <1>9

(* What query() leaves of the implementation.                              *)
LEMMA QueryForgetsResults ==
    ASSUME NEW i \in Implementation, NEW j,
           j = [i EXCEPT !.last_result = FALSE, !.first_result_stored = FALSE]
    PROVE  /\ j \in Implementation /\ j.initialized = i.initialized
           /\ j.flags = i.flags /\ j.first_result_stored = FALSE
BY DEF Implementation

(* query() on this connector, whichever call makes it.                     *)
Queried(q) ==
    /\ Leaves_h(mysql, q) /\ q.i \in Implementation
    /\ q.i.initialized = impl.initialized /\ q.i.flags = impl.flags
    /\ q.ec \in {"ok", "client", "not_initialized"}
    /\ mysql.st = "raw" => q.ec = "not_initialized"
    /\ q.ec = "not_initialized" => q.i = impl /\ q.h = mysql
    /\ q.ec # "not_initialized" => q.i.first_result_stored = FALSE
    /\ LibAffected(q) \subseteq Rows

(* The outcomes of query() are of that kind.                               *)
LEMMA QueryOutcome ==
    ASSUME CInv, NEW q \in QueryResult(impl, mysql)
    PROVE  Queried(q)
<1>1. impl \in Implementation /\ mysql \in Handle /\ rows \in Rows
  BY DEF CInv, TypeOK
<1>2. /\ Leaves_h(mysql, q)
      /\ ~impl.initialized => q.i = impl /\ q.h = mysql
                              /\ q.ec = "not_initialized"
      /\ impl.initialized =>
            /\ q.i = [impl EXCEPT !.last_result = FALSE,
                                  !.first_result_stored = FALSE]
            /\ q.ec \in {"ok", "client"}
  BY <1>1, QueryHandle
<1>3. LibAffected(q) \subseteq Rows
  BY <1>1 DEF LibAffected, Rows
<1>4. CASE ~impl.initialized
  BY <1>1, <1>2, <1>3, <1>4 DEF Queried
<1>5. CASE impl.initialized
  <2>1. /\ q.i \in Implementation /\ q.i.initialized = impl.initialized
        /\ q.i.flags = impl.flags /\ q.i.first_result_stored = FALSE
    BY <1>1, <1>2, <1>5, QueryForgetsResults
  <2>2. mysql.st # "raw"
    BY <1>5 DEF CInv, OpenIsInit
  <2> QED
    BY <1>2, <1>3, <1>5, <2>1, <2>2 DEF Queried
<1> QED
  BY <1>4, <1>5

(* query() and execute() keep the invariant.                               *)
LEMMA QueryStep ==
    ASSUME CInv, UNCHANGED exec, NEW own \in BOOLEAN, query(own) \/ execute(own)
    PROVE  CInv' /\ ToldInv'
<1>1. PICK r \in QueryResult(impl, mysql),
           call \in {"query", "execute"},
           b \in BOOLEAN, n \in {"0", rows'} :
          /\ mysql' = r.h /\ impl' = r.i
          /\ rows' \in LibAffected(r)
          /\ Tells(call, b, r.ec, n)
          /\ entered' = (mysql.st = "raw" /\ r.ec # "not_initialized")
          /\ UNCHANGED <<it, careless>>
  <2>1. CASE query(own)
    BY <2>1 DEF query
  <2>2. CASE execute(own)
    BY <2>2 DEF execute
  <2> QED
    BY <2>1, <2>2
<1>2. Queried(r)
  BY QueryOutcome
<1>3. /\ call \in Calls /\ r.ec \in ErrorCodes \ {"no_more_results"}
      /\ n \in Rows /\ rows' \in Rows
  BY <1>1, <1>2 DEF Calls, ErrorCodes, Rows, Queried
<1>4. /\ ec' \in ErrorCodes
      /\ told' \in [call : Calls, ec : ErrorCodes, rows : Rows]
      /\ told'.call = call /\ told'.ec = r.ec
  BY <1>1, <1>3, TellsType
<1>5. entered' = FALSE
  BY <1>1, <1>2 DEF Queried
<1>6. TypeOK'
  BY <1>1, <1>2, <1>3, <1>4, <1>5 DEF CInv, TypeOK, Queried, Leaves_h
<1>7. impl'.first_result_stored /\ "stale_ec" \notin careless' => ~mysql'.unread
  BY <1>1, <1>2 DEF CInv, FirstResultStored, Queried
<1>8. /\ KeepsConnection(mysql, mysql') /\ careless \subseteq careless'
      /\ mysql.st # "raw" => mysql'.st # "raw"
      /\ impl'.initialized = impl.initialized /\ impl'.flags = impl.flags
  BY <1>1, <1>2 DEF Queried, Leaves_h, KeepsInit
<1>9. told'.ec # "no_more_results" /\ told'.call # "increment"
  BY <1>1, <1>3, <1>4
<1> QED
  BY <1>5, <1>6, <1>7, <1>8, <1>9, CallKeeps

(* What store_result() leaves of the implementation.                       *)
Marks(i, r) ==
    /\ r.i \in Implementation /\ r.i.initialized = i.initialized
    /\ r.i.flags = i.flags /\ r.i.first_result_stored = TRUE

(* The outcomes of store_result() are of that kind.                        *)
LEMMA StoreMarks ==
    ASSUME NEW i \in Implementation, NEW h \in Handle, NEW e \in ErrorCodes,
           NEW r \in StoreResult(i, h, e)
    PROVE  Marks(i, r)
<1> USE DEF Marks
<1> DEFINE b == i.last_result /\ ~i.first_result_stored
           j == [i EXCEPT !.first_result_stored = TRUE, !.last_result = b]
<1>1. PICK a \in Advanced(i, h, e) :
          r \in IF a.ec = "ok" THEN Stored(j, a.h)
                ELSE {[i |-> j, h |-> a.h, ec |-> a.ec]}
  BY DEF StoreResult
<1>2. b \in BOOLEAN
  OBVIOUS
<1> HIDE DEF b
<1>3. /\ j \in Implementation /\ j.initialized = i.initialized
      /\ j.flags = i.flags /\ j.first_result_stored = TRUE
  BY <1>2 DEF Implementation
<1> HIDE DEF j
<1>4. CASE a.ec # "ok"
  BY <1>1, <1>3, <1>4
<1>5. CASE a.ec = "ok"
  <2>1. PICK s \in mysql_store_result(a.h) :
            r.i = [j EXCEPT !.last_result = s.res]
    BY <1>1, <1>5 DEF Stored
  <2>2. a.h \in Handle
    BY AdvancedHandle DEF Advances, Leaves_h
  <2>3. s \in CallResult
    BY <2>1, <2>2, CallType
  <2> DEFINE k == [j EXCEPT !.last_result = s.res]
  <2>4. /\ k \in Implementation /\ k.initialized = j.initialized
        /\ k.flags = j.flags /\ k.first_result_stored = j.first_result_stored
    BY <1>3, <2>3 DEF Implementation, CallResult
  <2>5. r.i = k
    BY <2>1
  <2> HIDE DEF k
  <2> QED
    BY <1>3, <2>4, <2>5
<1> QED
  BY <1>4, <1>5

(* A step that stores a result, given the error code e: a stale one is     *)
(* careless.                                                               *)
LEMMA StoreStep ==
    ASSUME CInv, UNCHANGED exec, NEW own \in BOOLEAN, NEW e \in ErrorCodes,
           Store(own, e),
           careless \subseteq careless', careless' \subseteq Habits,
           e # "ok" => "stale_ec" \in careless', it' \in BOOLEAN
    PROVE  CInv' /\ ToldInv'
<1>1. PICK r \in StoreResult(impl, mysql, e) :
          /\ mysql' = r.h /\ impl' = r.i
          /\ Tells("store_result", own, r.ec, "0")
          /\ entered' = (mysql.st = "raw" /\ ~impl.first_result_stored
                         /\ e = "ok")
          /\ UNCHANGED rows
  BY DEF Store
<1>2. impl \in Implementation /\ mysql \in Handle
  BY DEF CInv, TypeOK
<1>3. Marks(impl, r)
  BY <1>2, StoreMarks
<1>4. Stores(impl, mysql, e, r)
  BY <1>2, StoreHandle
<1>5. "store_result" \in Calls /\ "0" \in Rows /\ r.ec \in ErrorCodes
  BY <1>4 DEF Calls, Rows, Stores
<1>6. /\ ec' \in ErrorCodes
      /\ told' \in [call : Calls, ec : ErrorCodes, rows : Rows]
      /\ told'.call = "store_result" /\ told'.ec = r.ec
  BY <1>1, <1>5, TellsType
<1>7. entered' \in BOOLEAN
  BY <1>1
<1>8. TypeOK'
  BY <1>1, <1>3, <1>4, <1>6, <1>7 DEF CInv, TypeOK, Marks, Stores, Leaves_h
<1>9. ASSUME "stale_ec" \notin careless'
      PROVE  ~mysql'.unread
  <2>1. e = "ok" /\ "stale_ec" \notin careless
    BY <1>9
  <2>2. impl.first_result_stored => ~mysql.unread
    BY <2>1 DEF CInv, FirstResultStored
  <2>3. IF impl.first_result_stored THEN ~mysql.unread ELSE e = "ok"
    BY <2>1, <2>2
  <2>4. Sound(mysql)
    BY DEF CInv
  <2> QED
    BY <1>1, <1>4, <2>3, <2>4 DEF Stores
<1>10. /\ KeepsConnection(mysql, mysql')
       /\ mysql.st # "raw" => mysql'.st # "raw"
       /\ impl'.initialized = impl.initialized /\ impl'.flags = impl.flags
  BY <1>1, <1>3, <1>4 DEF Marks, Stores, Leaves_h, KeepsInit
<1>11. told'.ec = "no_more_results" /\ careless' = {} =>
           mysql' = mysql /\ ~has_more_results(impl, mysql)
  BY <1>1, <1>4, <1>6 DEF Stores
<1>12. told'.call # "increment"
       /\ told'.call \in {"set_option", "store_result", "autocommit"}
  BY <1>6
<1> QED
  BY <1>8, <1>9, <1>10, <1>11, <1>12, CallKeeps DEF RawCall

(* store_result() keeps the invariant.                                     *)
LEMMA StoreResultStep ==
    ASSUME CInv, UNCHANGED exec, NEW own \in BOOLEAN, store_result(own)
    PROVE  CInv' /\ ToldInv'
<1> DEFINE e == IF own THEN ec ELSE "ok"
<1>1. e \in ErrorCodes
  BY DEF CInv, TypeOK, ErrorCodes
<1>2. /\ Store(own, e)
      /\ careless' = careless \cup {k \in {"stale_ec"} : own /\ ec # "ok"}
      /\ it' = it
  BY DEF store_result
<1>3. /\ careless \subseteq careless' /\ careless' \subseteq Habits
      /\ e # "ok" => "stale_ec" \in careless'
      /\ it' \in BOOLEAN
  BY <1>2 DEF CInv, TypeOK, Habits
<1> HIDE DEF e
<1> QED
  BY <1>1, <1>2, <1>3, StoreStep

(* query_result() keeps the invariant: it stores the first result of its   *)
(* own query, so there is no earlier error to mislead it.                  *)
LEMMA QueryResultStep ==
    ASSUME CInv, UNCHANGED exec, NEW own \in BOOLEAN, query_result(own)
    PROVE  CInv' /\ ToldInv'
<1>1. PICK q \in QueryResult(impl, mysql) :
      \E r \in IF q.ec = "ok" THEN StoreResult(q.i, q.h, "ok") ELSE {q} :
          /\ mysql' = r.h /\ impl' = r.i
          /\ rows' \in LibAffected(q)
          /\ Tells("query_result", own, r.ec, "0")
          /\ entered' = (mysql.st = "raw" /\ r.ec # "not_initialized")
          /\ UNCHANGED <<it, careless>>
  BY DEF query_result
<1>2. PICK r \in IF q.ec = "ok" THEN StoreResult(q.i, q.h, "ok") ELSE {q} :
          /\ mysql' = r.h /\ impl' = r.i
          /\ rows' \in LibAffected(q)
          /\ Tells("query_result", own, r.ec, "0")
          /\ entered' = (mysql.st = "raw" /\ r.ec # "not_initialized")
          /\ UNCHANGED <<it, careless>>
  BY <1>1
<1>3. Queried(q)
  BY QueryOutcome
<1>4. /\ Leaves_h(mysql, r) /\ r.i \in Implementation
      /\ r.i.initialized = impl.initialized /\ r.i.flags = impl.flags
      /\ r.ec \in ErrorCodes \ {"no_more_results"}
      /\ mysql.st = "raw" => r.ec = "not_initialized"
      /\ r.i.first_result_stored /\ "stale_ec" \notin careless => ~r.h.unread
  <2>1. CASE q.ec # "ok"
    <3>1. r = q
      BY <1>2, <2>1
    <3> QED
      BY <1>3, <3>1 DEF Queried, ErrorCodes, CInv, FirstResultStored
  <2>2. CASE q.ec = "ok"
    <3>1. r \in StoreResult(q.i, q.h, "ok") /\ "ok" \in ErrorCodes
      BY <1>2, <2>2 DEF ErrorCodes
    <3>2. /\ q.i \in Implementation /\ q.h \in Handle
          /\ q.i.first_result_stored = FALSE /\ mysql.st # "raw"
          /\ KeepsConnection(mysql, q.h) /\ KeepsInit(mysql, q)
          /\ q.i.initialized = impl.initialized /\ q.i.flags = impl.flags
      BY <1>3, <2>2 DEF Queried, Leaves_h
    <3>3. Marks(q.i, r)
      BY <3>1, <3>2, StoreMarks
    <3>4. Stores(q.i, q.h, "ok", r)
      BY <3>1, <3>2, StoreHandle
    <3>5. r.h.unread = FALSE
      BY <3>2, <3>4 DEF Stores, KeepsInit
    <3>6. r.ec \in ErrorCodes \ {"no_more_results"}
      BY <3>2, <3>4 DEF Stores
    <3>7. Leaves_h(mysql, r)
      BY <3>2, <3>4 DEF Stores, Leaves_h, KeepsConnection, KeepsInit
    <3> QED
      BY <3>2, <3>3, <3>5, <3>6, <3>7 DEF Marks
  <2> QED
    BY <2>1, <2>2
<1>5. "query_result" \in Calls /\ "0" \in Rows /\ rows' \in Rows
  BY <1>2, <1>3 DEF Calls, Rows, Queried
<1>6. /\ ec' \in ErrorCodes
      /\ told' \in [call : Calls, ec : ErrorCodes, rows : Rows]
      /\ told'.call = "query_result" /\ told'.ec = r.ec
  BY <1>2, <1>4, <1>5, TellsType
<1>7. entered' = FALSE
  BY <1>2, <1>4
<1>8. TypeOK'
  BY <1>2, <1>4, <1>5, <1>6, <1>7 DEF CInv, TypeOK, Leaves_h
<1>9. /\ KeepsConnection(mysql, mysql') /\ careless \subseteq careless'
      /\ mysql.st # "raw" => mysql'.st # "raw"
      /\ impl'.initialized = impl.initialized /\ impl'.flags = impl.flags
      /\ impl'.first_result_stored /\ "stale_ec" \notin careless' =>
            ~mysql'.unread
  BY <1>2, <1>4 DEF Leaves_h, KeepsInit
<1>10. told'.ec # "no_more_results" /\ told'.call # "increment"
  BY <1>4, <1>6
<1> QED
  BY <1>7, <1>8, <1>9, <1>10, CallKeeps

(* set_option() keeps the invariant.                                       *)
LEMMA OptionStep ==
    ASSUME CInv, UNCHANGED exec, NEW own \in BOOLEAN, set_option(own)
    PROVE  CInv' /\ ToldInv'
<1>1. PICK r \in mysql_options(mysql) :
          mysql' = r.h /\ Tells("set_option", own, r.ec, "0")
  BY DEF set_option
<1>2. /\ entered' = (mysql.st = "raw")
      /\ UNCHANGED <<impl, rows, it, careless>> /\ mysql \in Handle
  BY DEF set_option, CInv, TypeOK
<1>3. /\ Leaves_h(mysql, r) /\ r.h.unread = mysql.unread
      /\ r.ec \in {"ok", "client"}
  BY <1>2, OptionsHandle
<1>4. "set_option" \in Calls /\ "0" \in Rows /\ r.ec \in ErrorCodes
  BY <1>3 DEF Calls, Rows, ErrorCodes
<1>5. /\ ec' \in ErrorCodes
      /\ told' \in [call : Calls, ec : ErrorCodes, rows : Rows]
      /\ told'.call = "set_option" /\ told'.ec = r.ec
  BY <1>1, <1>4, TellsType
<1>6. entered' \in BOOLEAN
  BY <1>2
<1>7. TypeOK'
  BY <1>1, <1>2, <1>3, <1>5, <1>6 DEF CInv, TypeOK, Leaves_h
<1>8. /\ KeepsConnection(mysql, mysql') /\ careless \subseteq careless'
      /\ mysql.st # "raw" => mysql'.st # "raw"
      /\ impl' = impl
      /\ impl'.first_result_stored /\ "stale_ec" \notin careless' =>
            ~mysql'.unread
  BY <1>1, <1>2, <1>3 DEF Leaves_h, KeepsInit, CInv, FirstResultStored
<1>9. told'.ec # "no_more_results" /\ told'.call # "increment"
      /\ told'.call \in {"set_option", "store_result", "autocommit"}
  BY <1>3, <1>5
<1> QED
  BY <1>7, <1>8, <1>9, CallKeeps DEF RawCall

(* autocommit(), commit() and rollback() keep the invariant: the result    *)
(* state of the implementation is not theirs to change, and the library    *)
(* refuses them while a result waits.                                      *)
LEMMA TransactStep ==
    ASSUME CInv, UNCHANGED exec, NEW own \in BOOLEAN,
           autocommit(own) \/ commit(own) \/ rollback(own)
    PROVE  CInv' /\ ToldInv'
<1>1. PICK call \in {"autocommit", "commit", "rollback"},
           r \in Autocommit(impl, mysql) \cup Commit(impl, mysql)
                 \cup Rollback(impl, mysql) :
          /\ call # "autocommit" =>
                r \in Commit(impl, mysql) \cup Rollback(impl, mysql)
          /\ mysql' = r.h /\ impl' = r.i
          /\ rows' = IF r.ec = "not_initialized" THEN rows
                     ELSE IF r.ec = "ok" THEN "0" ELSE "~0"
          /\ Tells(call, own, r.ec, "0")
          /\ entered' = (mysql.st = "raw" /\ r.ec # "not_initialized")
          /\ UNCHANGED <<it, careless>>
  <2>1. CASE autocommit(own)
    BY <2>1 DEF autocommit, Transact
  <2>2. CASE commit(own)
    BY <2>2 DEF commit, Transact
  <2>3. CASE rollback(own)
    BY <2>3 DEF rollback, Transact
  <2> QED
    BY <2>1, <2>2, <2>3
<1>2. mysql \in Handle /\ impl \in Implementation /\ rows \in Rows
  BY DEF CInv, TypeOK
<1>3. /\ r.i = impl /\ Leaves_h(mysql, r)
      /\ r.h.unread => mysql.unread
      /\ r.ec \in ErrorCodes \ {"no_more_results"}
      /\ ~impl.initialized /\ r \in Commit(impl, mysql) \cup Rollback(impl, mysql)
            => r.ec = "not_initialized"
  BY <1>2, CommandHandle
<1>4. call \in Calls /\ "0" \in Rows /\ rows' \in Rows
  BY <1>1, <1>2 DEF Calls, Rows
<1>5. /\ ec' \in ErrorCodes
      /\ told' \in [call : Calls, ec : ErrorCodes, rows : Rows]
      /\ told'.call = call /\ told'.ec = r.ec
  BY <1>1, <1>3, <1>4, TellsType
<1>6. entered' \in BOOLEAN
  BY <1>1
<1>7. TypeOK'
  BY <1>1, <1>2, <1>3, <1>4, <1>5, <1>6 DEF CInv, TypeOK, Leaves_h
<1>8. /\ KeepsConnection(mysql, mysql') /\ careless \subseteq careless'
      /\ mysql.st # "raw" => mysql'.st # "raw"
      /\ impl' = impl
      /\ impl'.first_result_stored /\ "stale_ec" \notin careless' =>
            ~mysql'.unread
  BY <1>1, <1>3 DEF Leaves_h, KeepsInit, CInv, FirstResultStored
<1>9. told'.ec # "no_more_results" /\ told'.call # "increment"
  BY <1>3, <1>5
<1>10. entered' => told'.call \in {"set_option", "store_result", "autocommit"}
  <2>1. entered' => mysql.st = "raw" /\ r.ec # "not_initialized"
    BY <1>1
  <2>2. mysql.st = "raw" => ~impl.initialized
    BY DEF CInv, OpenIsInit
  <2> QED
    BY <1>1, <1>3, <1>5, <2>1, <2>2
<1> QED
  BY <1>7, <1>8, <1>9, <1>10, CallKeeps DEF RawCall

(* The iterator keeps the invariant; at its end has_more_results() said    *)
(* that there is nothing more.                                             *)
LEMMA IncrementStep ==
    ASSUME CInv, UNCHANGED exec, increment
    PROVE  CInv' /\ ToldInv'
<1>1. CASE has_more_results(impl, mysql)
  <2>1. /\ Store(FALSE, "ok") /\ it' = (told'.ec = "ok")
        /\ careless' = careless
    BY <1>1 DEF increment
  <2>2. /\ careless \subseteq careless' /\ careless' \subseteq Habits
        /\ it' \in BOOLEAN /\ "ok" \in ErrorCodes /\ FALSE \in BOOLEAN
    BY <2>1 DEF CInv, TypeOK, ErrorCodes
  <2> QED
    BY <2>1, <2>2, StoreStep
<1>2. CASE ~has_more_results(impl, mysql)
  <2>1. /\ it' = FALSE /\ Tells("increment", FALSE, "ok", "0")
        /\ entered' = FALSE /\ UNCHANGED <<impl, mysql, rows, careless>>
    BY <1>2 DEF increment
  <2>2. /\ "increment" \in Calls /\ "0" \in Rows /\ "ok" \in ErrorCodes
        /\ FALSE \in BOOLEAN
    BY DEF Calls, Rows, ErrorCodes
  <2>3. /\ ec' \in ErrorCodes
        /\ told' \in [call : Calls, ec : ErrorCodes, rows : Rows]
        /\ told'.ec = "ok"
    BY <2>1, <2>2, TellsType
  <2>4. TypeOK'
    BY <2>1, <2>3 DEF CInv, TypeOK
  <2>5. KeepsConnection(mysql, mysql')
    BY <2>1 DEF KeepsConnection, Sound
  <2>6. impl'.first_result_stored /\ "stale_ec" \notin careless' =>
            ~mysql'.unread
    BY <2>1 DEF CInv, FirstResultStored
  <2> QED
    BY <1>2, <2>1, <2>3, <2>4, <2>5, <2>6, CallKeeps
<1> QED
  BY <1>1, <1>2

(* A call that leaves the connector and its handle alone.                  *)
LEMMA IdleCall ==
    ASSUME CInv, UNCHANGED <<impl, mysql, rows, it, careless>>,
           NEW call \in Calls, NEW e \in ErrorCodes, NEW n \in Rows,
           Tells(call, FALSE, e, n),
           call # "increment", e # "no_more_results",
           exec' \in {"idle", "queued", "expired"} \cup ErrorCodes,
           entered' \in BOOLEAN, entered' => RawCall([call |-> call, ec |-> e])
    PROVE  /\ CInv' /\ ToldInv'
           /\ told'.call = call /\ told'.ec = e
<1>1. /\ ec' \in ErrorCodes
      /\ told' \in [call : Calls, ec : ErrorCodes, rows : Rows]
      /\ told'.call = call /\ told'.ec = e
  <2>1. FALSE \in BOOLEAN
    OBVIOUS
  <2> QED
    BY <2>1, TellsType
<1>2. TypeOK'
  BY <1>1 DEF CInv, TypeOK
<1>3. KeepsConnection(mysql, mysql')
  BY DEF KeepsConnection, Sound
<1>4. impl'.first_result_stored /\ "stale_ec" \notin careless' => ~mysql'.unread
  BY DEF CInv, FirstResultStored
<1>5. entered' => RawCall(told')
  BY <1>1 DEF RawCall
<1> QED
  BY <1>1, <1>2, <1>3, <1>4, <1>5, CallKeeps

(* affected_rows() keeps the invariant.                                    *)
LEMMA AffectedStep ==
    ASSUME CInv, UNCHANGED exec, affected_rows
    PROVE  CInv' /\ ToldInv'
<1>1. /\ rows \in Rows /\ exec \in {"idle", "queued", "expired"} \cup ErrorCodes
      /\ "affected_rows" \in Calls /\ "ok" \in ErrorCodes
  BY DEF CInv, TypeOK, Calls, ErrorCodes
<1>2. RawCall([call |-> "affected_rows", ec |-> "ok"])
  BY DEF RawCall
<1> QED
  BY <1>1, <1>2, IdleCall DEF affected_rows

(* A results_iterator keeps the invariant, whether it can be made or not.  *)
LEMMA BeginStep ==
    ASSUME CInv, UNCHANGED exec, IteratorBegin
    PROVE  CInv' /\ ToldInv'
<1>1. CASE increment
  BY <1>1, IncrementStep
<1>2. CASE /\ Tells("results_iterator", FALSE, "not_initialized", "0")
           /\ entered' = FALSE
           /\ UNCHANGED <<impl, mysql, rows, it, careless>>
  <2>1. /\ exec \in {"idle", "queued", "expired"} \cup ErrorCodes
        /\ "results_iterator" \in Calls /\ "not_initialized" \in ErrorCodes
        /\ "0" \in Rows
    BY DEF CInv, TypeOK, Calls, ErrorCodes, Rows
  <2> QED
    BY <1>2, <2>1, IdleCall
<1> QED
  BY <1>1, <1>2 DEF IteratorBegin

(* cancel() keeps the invariant, and leaves nothing queued that is not     *)
(* cancelled.                                                              *)
LEMMA CancelStep ==
    ASSUME CInv, ExecInv, cancel
    PROVE  CInv' /\ ToldInv' /\ ExecInv'
<1>1. /\ "cancel" \in Calls /\ "ok" \in ErrorCodes /\ "0" \in Rows
      /\ exec' \in {"idle", "queued", "expired"} \cup ErrorCodes
      /\ exec' # "queued" /\ exec' # "no_more_results"
  BY DEF cancel, Expire, ExecInv, CInv, TypeOK, Calls, ErrorCodes, Rows
<1>2. CInv' /\ ToldInv'
  BY <1>1, IdleCall DEF cancel
<1> QED
  BY <1>1, <1>2 DEF ExecInv

(* async_execute() keeps the invariant.                                    *)
LEMMA AsyncStep ==
    ASSUME CInv, async_execute
    PROVE  CInv' /\ ToldInv' /\ ExecInv'
<1>1. /\ "none" \in Calls /\ "ok" \in ErrorCodes /\ "0" \in Rows
      /\ exec' = IF impl.initialized THEN "queued" ELSE "not_initialized"
      /\ exec' \in {"idle", "queued", "expired"} \cup ErrorCodes
      /\ impl' = impl
  BY DEF async_execute, Calls, ErrorCodes, Rows
<1>2. CInv' /\ ToldInv' /\ told'.call = "none" /\ told'.ec = "ok"
  BY <1>1, IdleCall DEF async_execute
<1> QED
  BY <1>1, <1>2 DEF ExecInv

(* The work thread keeps the invariant, and finds the handle initialised   *)
(* when it uses it.                                                        *)
LEMMA WorkStep ==
    ASSUME CInv, ToldInv, ExecInv, query_handler
    PROVE  CInv' /\ ToldInv' /\ ExecInv'
<1>1. CASE exec = "expired"
  <2>1. /\ exec' = "aborted" /\ entered' = FALSE
        /\ UNCHANGED <<impl, mysql, rows, ec, told, it, careless>>
    BY <1>1 DEF query_handler
  <2>2. CInv'
    BY <2>1 DEF CInv, TypeOK, ErrorCodes, OpenIsInit, Sound, FlagsAgree,
                FirstResultStored
  <2>3. ToldInv'
    BY <2>1 DEF ToldInv, IterationComplete, NoMoreResults, LibraryNeedsHandle,
                Consumed, mysql_more_results
  <2> QED
    BY <2>1, <2>2, <2>3 DEF ExecInv
<1>2. CASE exec = "queued"
  <2>1. PICK r \in QueryResult(impl, mysql) :
            /\ mysql' = r.h /\ impl' = r.i
            /\ rows' \in LibAffected(r) /\ exec' = r.ec
    BY <1>2 DEF query_handler
  <2>2. /\ entered' = (mysql.st = "raw")
        /\ UNCHANGED <<ec, told, it, careless>>
    BY <1>2 DEF query_handler
  <2>3. impl.initialized /\ told.call = "none" /\ told.ec = "ok"
    BY <1>2 DEF ExecInv
  <2>4. entered' = FALSE
    BY <2>2, <2>3 DEF CInv, OpenIsInit
  <2>5. Queried(r)
    BY QueryOutcome
  <2>6. r.ec \in ErrorCodes \ {"queued", "no_more_results"} /\ rows' \in Rows
    BY <2>1, <2>5 DEF ErrorCodes, Queried
  <2>7. TypeOK'
    BY <2>1, <2>2, <2>4, <2>5, <2>6 DEF CInv, TypeOK, Queried, Leaves_h
  <2>8. impl'.first_result_stored /\ "stale_ec" \notin careless' =>
            ~mysql'.unread
    BY <2>1, <2>2, <2>5 DEF CInv, FirstResultStored, Queried
  <2>9. /\ KeepsConnection(mysql, mysql') /\ careless \subseteq careless'
        /\ mysql.st # "raw" => mysql'.st # "raw"
        /\ impl'.initialized = impl.initialized /\ impl'.flags = impl.flags
    BY <2>1, <2>2, <2>5 DEF Queried, Leaves_h, KeepsInit
  <2>10. told'.ec # "no_more_results" /\ told'.call # "increment"
    BY <2>2, <2>3
  <2>11. CInv' /\ ToldInv'
    BY <2>4, <2>7, <2>8, <2>9, <2>10, CallKeeps
  <2> QED
    BY <2>1, <2>6, <2>11 DEF ExecInv
<1> QED
  BY <1>1, <1>2 DEF query_handler

(* execute_handler keeps the invariant; no error it is given is            *)
(* no_more_results.                                                        *)
LEMMA HandlerStep ==
    ASSUME CInv, ExecInv, execute_handler
    PROVE  CInv' /\ ToldInv' /\ ExecInv'
<1> DEFINE n == IF exec # "ok" THEN rows ELSE "0"
<1>1. /\ exec \in ErrorCodes /\ exec' = "idle" /\ n \in Rows
      /\ "async_execute" \in Calls
  BY DEF execute_handler, CInv, TypeOK, Calls, Rows
<1>2. /\ ec' = ec /\ told' = [call |-> "async_execute", ec |-> exec, rows |-> n]
      /\ entered' = (mysql.st = "raw" /\ exec # "ok")
      /\ UNCHANGED <<impl, mysql, rows, it, careless>>
  BY DEF execute_handler, Tells
<1> HIDE DEF n
<1>3. /\ told' \in [call : Calls, ec : ErrorCodes, rows : Rows]
      /\ told'.call = "async_execute" /\ told'.ec = exec
      /\ entered' \in BOOLEAN
  BY <1>1, <1>2
<1>4. TypeOK'
  BY <1>1, <1>2, <1>3 DEF CInv, TypeOK
<1>5. CInv'
  BY <1>2, <1>4 DEF CInv, OpenIsInit, Sound, FlagsAgree, FirstResultStored
<1>6. exec # "no_more_results"
  BY DEF ExecInv
<1>7. ToldInv'
  BY <1>2, <1>3, <1>6 DEF ToldInv, IterationComplete, NoMoreResults,
                          LibraryNeedsHandle
<1> QED
  BY <1>1, <1>5, <1>7 DEF ExecInv

(* The connector is not open to begin with.                                *)
LEMMA InitCInv == Init => CInv /\ ToldInv /\ ExecInv
<1> SUFFICES ASSUME Init PROVE CInv /\ ToldInv /\ ExecInv
  OBVIOUS
<1>1. /\ impl \in Implementation /\ ~impl.initialized
      /\ ~impl.first_result_stored
  BY DEF Init, NewImplementation, Implementation
<1>2. mysql \in Handle /\ mysql.st = "raw" /\ ~mysql.unread /\ mysql.more = 0
  BY FreshType DEF Init, RawHandle
<1>3. told \in [call : Calls, ec : ErrorCodes, rows : Rows]
      /\ told.call = "none" /\ told.ec = "ok"
  BY DEF Init, Calls, ErrorCodes, Rows
<1>4. TypeOK
  BY <1>1, <1>2, <1>3 DEF Init, TypeOK, ErrorCodes
<1>5. OpenIsInit /\ Sound(mysql) /\ FlagsAgree /\ FirstResultStored
  BY <1>1, <1>2 DEF OpenIsInit, Sound, FlagsAgree, FirstResultStored
<1>6. ToldInv
  BY <1>3 DEF Init, ToldInv, IterationComplete, NoMoreResults,
              LibraryNeedsHandle
<1>7. ExecInv
  BY DEF Init, ExecInv
<1> QED
  BY <1>4, <1>5, <1>6, <1>7 DEF CInv

(* Every step keeps the invariant.                                         *)
LEMMA NextCInv ==
    CInv /\ ToldInv /\ ExecInv /\ [Next]_vars => CInv' /\ ToldInv' /\ ExecInv'
<1> SUFFICES ASSUME CInv, ToldInv, ExecInv, [Next]_vars
             PROVE  CInv' /\ ToldInv' /\ ExecInv'
  OBVIOUS
<1>1. CASE UNCHANGED vars
  <2> USE <1>1 DEF vars
  <2>1. TypeOK' /\ OpenIsInit' /\ Sound(mysql)' /\ FlagsAgree'
        /\ FirstResultStored'
    BY DEF CInv, TypeOK, OpenIsInit, Sound, FlagsAgree, FirstResultStored
  <2>2. ToldInv' /\ ExecInv'
    BY DEF ToldInv, IterationComplete, NoMoreResults, LibraryNeedsHandle,
           Consumed, mysql_more_results, ExecInv
  <2> QED
    BY <2>1, <2>2 DEF CInv
<1>2. CASE close
  <2>1. exec' # "queued" /\ exec' # "no_more_results"
    BY <1>2 DEF close, Expire, ExecInv
  <2> QED
    BY <1>2, <2>1, CloseKeeps DEF ExecInv
<1>3. CASE cancel \/ async_execute \/ query_handler \/ execute_handler
  BY <1>3, CancelStep, AsyncStep, WorkStep, HandlerStep
<1>4. CASE exec = "idle" /\ UNCHANGED exec /\ BlockingCall
  <2>1. UNCHANGED exec /\ ExecInv'
    BY <1>4 DEF ExecInv
  <2>2. CASE affected_rows \/ IteratorBegin \/ IteratorIncrement
    BY <2>1, <2>2, AffectedStep, BeginStep, IncrementStep DEF IteratorIncrement
  <2>3. ASSUME NEW own \in BOOLEAN,
               \/ open(own) \/ query(own) \/ execute(own) \/ store_result(own)
               \/ query_result(own) \/ set_option(own)
               \/ autocommit(own) \/ commit(own) \/ rollback(own)
               \/ \E flags \in BOOLEAN : connect(flags, own)
        PROVE  CInv' /\ ToldInv'
    BY <2>1, <2>3, OpenKeeps, ConnectStep, QueryStep, StoreResultStep,
       QueryResultStep, OptionStep, TransactStep
  <2> QED
    BY <1>4, <2>1, <2>2, <2>3 DEF BlockingCall
<1> QED
  BY <1>1, <1>2, <1>3, <1>4 DEF Next

(* The invariant holds whatever the user calls, in whatever order.         *)
THEOREM ConnectorInvariant == Spec => [](CInv /\ ToldInv /\ ExecInv)
BY InitCInv, NextCInv, PTL DEF Spec

(* The state of a connector has its types.                                 *)
THEOREM ConnectorTypes == Spec => []TypeOK
<1>1. CInv => TypeOK
  BY DEF CInv
<1> QED
  BY <1>1, ConnectorInvariant, PTL

(* An iterator that ends has taken every result of the statement.          *)
THEOREM IterationIsComplete == Spec => []IterationComplete
<1>1. ToldInv => IterationComplete
  BY DEF ToldInv
<1> QED
  BY <1>1, ConnectorInvariant, PTL

(* first_result_stored is true to its name.                                *)
THEOREM FirstResultIsStored == Spec => []FirstResultStored
<1>1. CInv => FirstResultStored
  BY DEF CInv
<1> QED
  BY <1>1, ConnectorInvariant, PTL

(* no_more_results is only reported when there are none.                   *)
THEOREM NoMoreMeansNone == Spec => []NoMoreResults
<1>1. ToldInv => NoMoreResults
  BY DEF ToldInv
<1> QED
  BY <1>1, ConnectorInvariant, PTL

(* Four calls, and the handler of async_execute() when it is given an      *)
(* error, alone can take a handle to the library that is not initialised.  *)
THEOREM LibraryGetsHandle == Spec => []LibraryNeedsHandle
<1>1. ToldInv => LibraryNeedsHandle
  BY DEF ToldInv
<1> QED
  BY <1>1, ConnectorInvariant, PTL
=============================================================================
