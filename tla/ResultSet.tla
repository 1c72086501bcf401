----------------------------- MODULE ResultSet ------------------------------
(***************************************************************************)
(* result_set, row and field: what the user can read of a result, and for  *)
(* how long.                                                               *)
(*                                                                         *)
(* The MYSQL_RES that mysql_store_result() returns is owned by the         *)
(* implementation's last_result and, while assign() copies its rows, by    *)
(* the parameter of assign().  A result_set refers to it weakly, and keeps *)
(* rows whose fields point into it.  In mysql_service assign() runs in the *)
(* work thread, so that the user's close() may come between any two steps  *)
(* of it.  The columns hold numbers, which the server sends as text.       *)
(***************************************************************************)
EXTENDS ValueCast, Sequences, FiniteSets

CONSTANTS
    Results,        \* MYSQL_RES objects the library can return
    Objects,        \* result_set objects of the user
    None,
    Fields,         \* number of columns
    Contents        \* results of the server: sequences of rows, each with
                    \* the number in every column, or None for NULL

ASSUME FieldsAssumption == Fields \in Nat \ {0}
ASSUME NoneAssumption == None \notin Results \cup Objects \cup Int

(* The numbers that occur, and a row as the server sends it.               *)
Numbers == -9999..9999

Sent == [1..Fields -> Numbers \cup {None}]

ASSUME ContentsAssumption == Contents \subseteq Seq(Sent)

VARIABLES
    res,            \* [Results -> MYSQL_RES]
    last_result,    \* implementation::last_result
    mysql,          \* implementation::mysql
    rs,             \* [Objects -> result_set]
    call,           \* the store_result() under way
    revoked         \* history: objects whose result the user gave up

vars == <<res, last_result, mysql, rs, call, revoked>>

Errors == {"ok", "client"}

(* lengths is the array of mysql_fetch_lengths(), which every call fills   *)
(* anew; next the row mysql_fetch_row() returns next.                      *)
NewResult(content) ==
    [st |-> "live", rows |-> content, next |-> 1,
     lengths |-> [j \in 1..Fields |-> 0]]

NoResult == [NewResult(<<>>) EXCEPT !.st = "unused"]

(* field: value_str_ is the address of the text, or None for NULL.         *)
Texts == (Results \X Nat \X (1..Fields)) \cup {None}

Rows == [1..Fields -> [value_str_ : Texts, length_ : Nat]]

(* A null pointer points to no vector.                                     *)
ASSUME NullAssumption == None \notin Seq(Rows) \cup Seq(Results)

(* result_set::result_set()                                                *)
NewResultSet ==
    [result_set_ |-> None, values_ |-> <<>>, fields_info_ |-> <<>>, ec |-> "ok"]

NoCall == [pc |-> "idle", obj |-> None, rs |-> None, ec |-> "ok"]

TypeOK ==
    /\ \A r \in Results :
          /\ res[r].st \in {"unused", "live", "freed"}
          /\ res[r].rows \in Contents \cup {<<>>}
          /\ res[r].next \in 1..(Len(res[r].rows) + 1)
          /\ res[r].lengths \in [1..Fields -> Nat]
    /\ last_result \in Results \cup {None}
    /\ mysql \in [st : {"open", "closing", "closed"}, errno : BOOLEAN]
    /\ \A o \in Objects :
          /\ rs[o].result_set_ \in Results \cup {None}
          /\ rs[o].values_ = None \/ \A i \in DOMAIN rs[o].values_ :
                                        rs[o].values_[i] \in Rows
          /\ rs[o].fields_info_ = None \/ \A j \in DOMAIN rs[o].fields_info_ :
                                        rs[o].fields_info_[j] \in Results
          /\ rs[o].ec \in Errors
    /\ call \in [pc : {"idle", "assign", "rows"}, obj : Objects \cup {None},
                 rs : Results \cup {None}, ec : Errors]
    /\ revoked \subseteq Objects

Init ==
    /\ res = [r \in Results |-> NoResult]
    /\ last_result = None
    /\ mysql = [st |-> "closed", errno |-> FALSE]
    /\ rs = [o \in Objects |-> NewResultSet]
    /\ call = NoCall
    /\ revoked = {}

(* result_set_deleter: a result without an owner is freed.                 *)
Owned(R, owners) ==
    [r \in Results |-> IF R[r].st = "live" /\ r \notin owners
                       THEN [NoResult EXCEPT !.st = "freed"] ELSE R[r]]

(* The objects that refer to r.                                            *)
Referring(r) == {o \in Objects : r # None /\ rs[o].result_set_ = r}

-----------------------------------------------------------------------------
(***************************************************************************)
(* The connection.  All but close() are called, or executed by the work    *)
(* thread, while no other call is under way.                               *)
(***************************************************************************)
Idle == call.pc = "idle" /\ mysql.st = "open"

open ==
    /\ mysql.st = "closed" /\ call.pc = "idle"
    /\ mysql' = [st |-> "open", errno |-> FALSE]
    /\ UNCHANGED <<res, last_result, rs, call, revoked>>

(* Calls that fail leave an error in the handle, of a set_option() say.    *)
set_option ==
    /\ Idle
    /\ mysql' = [mysql EXCEPT !.errno = TRUE]
    /\ UNCHANGED <<res, last_result, rs, call, revoked>>

(* free_result()                                                           *)
free_result(owners) ==
    /\ last_result' = None
    /\ res' = Owned(res, owners)

query ==
    /\ Idle
    /\ free_result({})
    /\ \E e \in BOOLEAN : mysql' = [mysql EXCEPT !.errno = e]
    /\ revoked' = revoked \cup Referring(last_result)
    /\ UNCHANGED <<rs, call>>

(* mysql_close() and free_result() of implementation::close().             *)
close ==
    /\ mysql.st = "open"
    /\ mysql' = [st |-> "closing", errno |-> FALSE]
    /\ UNCHANGED <<res, last_result, rs, call, revoked>>

(* Mutant: assign() takes its parameter by reference, and owns nothing.    *)
CloseFree_unowned ==
    /\ mysql.st = "closing"
    /\ mysql' = [mysql EXCEPT !.st = "closed"]
    /\ free_result({})
    /\ revoked' = revoked \cup Referring(last_result) \cup ({call.obj} \ {None})
    /\ UNCHANGED <<rs, call>>

CloseFree ==
    /\ mysql.st = "closing"
    /\ mysql' = [mysql EXCEPT !.st = "closed"]
    /\ free_result({call.rs})
    /\ revoked' = revoked \cup Referring(last_result) \cup ({call.obj} \ {None})
    /\ UNCHANGED <<rs, call>>

(* store_result(): the implementation owns what the library returned, and  *)
(* no longer what it owned before.                                         *)
store_result(o) ==
    /\ Idle
    /\ \/ \E r \in Results, content \in Contents :
             /\ res[r].st = "unused"
             /\ last_result' = r
             /\ res' = Owned([res EXCEPT ![r] = NewResult(content)], {r})
             /\ call' = [NoCall EXCEPT !.pc = "assign", !.obj = o]
             /\ UNCHANGED mysql
       \/ /\ free_result({})
          /\ \E e \in BOOLEAN :
                /\ mysql' = [mysql EXCEPT !.errno = e]
                /\ call' = [NoCall EXCEPT !.pc = "assign", !.obj = o,
                               !.ec = IF e THEN "client" ELSE "ok"]
    /\ rs' = [rs EXCEPT ![o] = NewResultSet]
    /\ revoked' = (revoked \cup Referring(last_result)) \ {o}

-----------------------------------------------------------------------------
(***************************************************************************)
(* result_set::assign()                                                    *)
(***************************************************************************)
(* The object is handed to the user, and the parameter goes out of scope.  *)
Return(o, object, ec, R) ==
    /\ rs' = [rs EXCEPT ![o] = [object EXCEPT !.ec = ec]]
    /\ res' = Owned(R, {last_result})
    /\ call' = NoCall

(* A result without rows is not asked for its fields.                      *)
assign ==
    LET o == call.obj
        r == last_result
    IN
    /\ call.pc = "assign"
    /\ IF r = None \/ res[r].rows = <<>>
       THEN Return(o, [rs[o] EXCEPT !.result_set_ = r], call.ec, res)
       ELSE /\ rs' = [rs EXCEPT ![o].result_set_ = r,
                         ![o].fields_info_ = [j \in 1..Fields |-> r]]
            /\ call' = [call EXCEPT !.pc = "rows", !.rs = r]
            /\ UNCHANGED res
    /\ UNCHANGED <<last_result, mysql, revoked>>

(* The length of the text of a number: its sign and its digits.            *)
TextLength(n) ==
    LET abs == IF n < 0 THEN -n ELSE n
    IN  (IF n < 0 THEN 2 ELSE 1) + Cardinality({p \in {10, 100, 1000} : p <= abs})

mysql_fetch_lengths(row) ==
    [j \in 1..Fields |-> IF row[j] = None THEN 0 ELSE TextLength(row[j])]

(* Mutant: the length is that of the text, which NULL does not have.       *)
build_fields_text(r, i, row, lengths) ==
    [j \in 1..Fields |->
        [value_str_ |-> IF row[j] = None THEN None ELSE <<r, i, j>>,
         length_ |-> IF row[j] = None THEN None ELSE TextLength(row[j])]]

(* row::build_fields()                                                     *)
build_fields(r, i, row, lengths) ==
    [j \in 1..Fields |->
        [value_str_ |-> IF row[j] = None THEN None ELSE <<r, i, j>>,
         length_ |-> lengths[j]]]

(* Mutant: the lengths are taken before the row is fetched.                *)
FetchRow_before ==
    LET r == call.rs
        i == res[r].next
        row == res[r].rows[i]
    IN
    /\ call.pc = "rows" /\ i <= Len(res[r].rows)
    /\ res' = [res EXCEPT ![r].next = i + 1,
                          ![r].lengths = mysql_fetch_lengths(row)]
    /\ rs' = [rs EXCEPT ![call.obj].values_ =
                 Append(@, build_fields(r, i, row, res[r].lengths))]
    /\ UNCHANGED <<last_result, mysql, call, revoked>>

FetchRow ==
    LET r == call.rs
        i == res[r].next
        row == res[r].rows[i]
    IN
    /\ call.pc = "rows" /\ i <= Len(res[r].rows)
    /\ res' = [res EXCEPT ![r].next = i + 1,
                          ![r].lengths = mysql_fetch_lengths(row)]
    /\ rs' = [rs EXCEPT ![call.obj].values_ =
                 Append(@, build_fields(r, i, row, mysql_fetch_lengths(row)))]
    /\ UNCHANGED <<last_result, mysql, call, revoked>>

(* Past the last row the error is what the handle holds; a handle that is  *)
(* closed may say anything.                                                *)
EndErrors ==
    IF mysql.st = "open" THEN {IF mysql.errno THEN "client" ELSE "ok"}
                         ELSE Errors

(* Mutant: after an error the weak reference is kept.                      *)
FetchEnd_keeps ==
    LET o == call.obj IN
    /\ call.pc = "rows" /\ res[call.rs].next > Len(res[call.rs].rows)
    /\ \E ec \in EndErrors :
          Return(o, IF ec = "ok" THEN rs[o]
                    ELSE [rs[o] EXCEPT !.values_ = None, !.fields_info_ = None],
                 ec, res)
    /\ UNCHANGED <<last_result, mysql, revoked>>

FetchEnd ==
    LET o == call.obj IN
    /\ call.pc = "rows" /\ res[call.rs].next > Len(res[call.rs].rows)
    /\ \E ec \in EndErrors :
          Return(o, IF ec = "ok" THEN rs[o]
                    ELSE [rs[o] EXCEPT !.values_ = None, !.fields_info_ = None,
                                       !.result_set_ = None],
                 ec, res)
    /\ UNCHANGED <<last_result, mysql, revoked>>

(* The copy constructor and the assignment.                                *)
copy(o, p) ==
    /\ o # p /\ call.obj \notin {o, p}
    /\ rs' = [rs EXCEPT ![p] = rs[o]]
    /\ revoked' = IF o \in revoked THEN revoked \cup {p} ELSE revoked \ {p}
    /\ UNCHANGED <<res, last_result, mysql, call>>

-----------------------------------------------------------------------------
Next ==
    \/ open \/ set_option \/ query \/ close \/ CloseFree
    \/ \E o \in Objects : store_result(o)
    \/ assign \/ FetchRow \/ FetchEnd
    \/ \E o, p \in Objects : copy(o, p)

Spec == Init /\ [][Next]_vars

-----------------------------------------------------------------------------
(***************************************************************************)
(* What the user reads.                                                    *)
(***************************************************************************)
Live(r) == r # None /\ res[r].st = "live"

expired(o) == ~Live(rs[o].result_set_)

size(o) == IF expired(o) THEN 0 ELSE Len(res[rs[o].result_set_].rows)

empty(o) == expired(o) \/ size(o) = 0

(* Mutant: the reference is not looked at.                                 *)
Checked_unasserted(o, pointer) == IF pointer = None THEN "null" ELSE "value"

(* BOOST_ASSERT(!expired()) comes before the pointer is followed.          *)
Checked(o, pointer) ==
    IF expired(o) THEN "assert" ELSE IF pointer = None THEN "null" ELSE "value"

(* values_->at(i) throws past the end.                                     *)
at(o, i) ==
    LET v == rs[o].values_
        c == Checked(o, v)
    IN  IF c = "value" /\ i \notin DOMAIN v THEN "throw" ELSE c

fields_info(o) == Checked(o, rs[o].fields_info_)

(* field::as(), of a field that is not NULL: the number at the address is  *)
(* converted.                                                              *)
as(f, type) ==
    LET p == f.value_str_ IN value_cast(type, res[p[1]].rows[p[2]][p[3]])

Delivered == Objects \ {call.obj}

-----------------------------------------------------------------------------
(***************************************************************************)
(* Properties.                                                             *)
(***************************************************************************)
(* assign() only reads a result that is not freed, though the user's       *)
(* close() may drop last_result between any two rows.                      *)
FetchUnderOwner == call.pc = "rows" => Live(call.rs)

(* A result set that is not empty() has a row for every number below       *)
(* size(), with the columns the server sent: NULL where it sent NULL, the  *)
(* length of each value and not that of another row, and texts in memory   *)
(* that is not freed.  It describes every column.                          *)
NonemptyIsReadable ==
    \A o \in Delivered : ~empty(o) =>
        LET r == rs[o].result_set_ IN
        /\ Len(rs[o].fields_info_) = Fields
        /\ Len(rs[o].values_) = size(o)
        /\ \A i \in 1..size(o), j \in 1..Fields :
              LET f == rs[o].values_[i][j]
                  sent == res[r].rows[i][j]
              IN  IF sent = None THEN f.value_str_ = None
                  ELSE f = [value_str_ |-> <<r, i, j>>,
                            length_ |-> TextLength(sent)]

(* at() and fields_info() follow no null pointer and hand out no text of a *)
(* freed result, whatever was closed, stored or copied since: the weak     *)
(* reference tells.                                                        *)
CheckedAccess ==
    \A o \in Delivered :
        /\ fields_info(o) # "null"
        /\ \A i \in 1..(size(o) + 1) :
              /\ at(o, i) # "null"
              /\ at(o, i) = "value" => \A j \in 1..Fields :
                    LET f == rs[o].values_[i][j]
                    IN  f.value_str_ = None \/ Live(f.value_str_[1])

(* All or nothing: with an error no row is handed out, and a result that   *)
(* was stored without one is complete until the user queries, stores or    *)
(* closes.                                                                 *)
AllOrNothing ==
    \A o \in Delivered :
        /\ rs[o].ec # "ok" => empty(o)
        /\ rs[o].ec = "ok" /\ o \notin revoked /\ rs[o].values_ # <<>> =>
              ~expired(o) /\ size(o) = Len(rs[o].values_)

(* What as() makes of a column is a value of the type asked for, and the   *)
(* very number the server sent if the type has it, though the number is    *)
(* saturated, narrowed and, for uint16_t, taken through a signed type.     *)
ConversionExact ==
    \A o \in Delivered : ~empty(o) =>
        \A i \in 1..size(o), j \in 1..Fields, type \in Types :
            LET f == rs[o].values_[i][j]
                sent == res[rs[o].result_set_].rows[i][j]
            IN  f.value_str_ # None =>
                    /\ as(f, type) \in Values(type)
                    /\ sent \in Values(type) => as(f, type) = sent
=============================================================================
