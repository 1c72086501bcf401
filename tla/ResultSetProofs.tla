-------------------------- MODULE ResultSetProofs ---------------------------
(***************************************************************************)
(* Proofs about result sets, for any number of results, objects, rows and  *)
(* columns, and about the conversions of their fields.                     *)
(***************************************************************************)
EXTENDS ResultSet, TLAPS, FiniteSetTheorems

-----------------------------------------------------------------------------
(***************************************************************************)
(* The conversions to integral types are exact, for types of any width.    *)
(***************************************************************************)
(* The remainder of a number that is at most one period away.              *)
LEMMA Remainder ==
    ASSUME NEW m \in Nat, m > 0, NEW n \in Int
    PROVE  /\ n % m \in 0..(m - 1)
           /\ 0 <= n /\ n < m => n % m = n
           /\ m <= n /\ n < 2 * m => n % m = n - m
           /\ -m <= n /\ n < 0 => n % m = n + m
<1>1. n % m \in 0..(m - 1)
  OBVIOUS
<1>2. 0 <= n /\ n < m => n % m = n
  OBVIOUS
<1>3. m <= n /\ n < 2 * m => n % m = n - m
  OBVIOUS
<1>4. -m <= n /\ n < 0 => n % m = n + m
  OBVIOUS
<1> QED
  BY <1>1, <1>2, <1>3, <1>4

(* A number is narrowed to one of the type, and one of the type is kept.   *)
LEMMA Narrow ==
    ASSUME NEW half \in Nat \ {0}, NEW n \in Int
    PROVE  /\ ToSigned(n, half) \in Signed(half)
           /\ n \in Signed(half) => ToSigned(n, half) = n
           /\ ToUnsigned(n, half) \in Unsigned(half)
           /\ n \in Unsigned(half) => ToUnsigned(n, half) = n
<1> DEFINE m == 2 * half
<1>1. m \in Nat /\ m > 0 /\ n + half \in Int
  OBVIOUS
<1>2. /\ (n + half) % m \in 0..(m - 1)
      /\ 0 <= n + half /\ n + half < m => (n + half) % m = n + half
      /\ n % m \in 0..(m - 1)
      /\ 0 <= n /\ n < m => n % m = n
  BY <1>1, Remainder
<1>3. ToSigned(n, half) = ((n + half) % m) - half /\ ToUnsigned(n, half) = n % m
  BY DEF ToSigned, ToUnsigned
<1>4. m = half + half
  OBVIOUS
<1> HIDE DEF m
<1>5. /\ Signed(half) = -half..(half - 1)
      /\ Unsigned(half) = 0..(m - 1)
  BY DEF Signed, Unsigned, m
<1> QED
  BY <1>1, <1>2, <1>3, <1>4, <1>5

(* An unsigned number survives the way through the signed type of its      *)
(* width.                                                                  *)
LEMMA ThroughSigned ==
    ASSUME NEW half \in Nat \ {0}, NEW n \in Unsigned(half)
    PROVE  ToUnsigned(ToSigned(n, half), half) = n
<1> DEFINE m == 2 * half
           x == n + half
           y == (x % m) - half
<1>1. m \in Nat /\ m > 0 /\ m = half + half /\ n \in Int /\ 0 <= n /\ n < m
  BY DEF Unsigned
<1>2. ToUnsigned(ToSigned(n, half), half) = y % m
  BY DEF ToUnsigned, ToSigned
<1> HIDE DEF m
<1>3. x \in Int
  BY <1>1
<1>4. CASE n < half
  <2>1. x % m = x
    BY <1>1, <1>3, <1>4, Remainder
  <2>2. y = n
    BY <1>1, <2>1
  <2> HIDE DEF x, y
  <2> QED
    BY <1>1, <1>2, <2>2, Remainder
<1>5. CASE half <= n
  <2>1. x % m = x - m
    <3>1. m <= x /\ x < 2 * m
      BY <1>1, <1>5
    <3> HIDE DEF x
    <3> QED
      BY <1>1, <1>3, <3>1, Remainder
  <2>2. y = n - m
    BY <1>1, <2>1
  <2>3. y \in Int /\ -m <= y /\ y < 0
    BY <1>1, <2>2
  <2> HIDE DEF x, y
  <2>4. y % m = y + m
    BY <1>1, <2>3, Remainder
  <2> QED
    BY <1>1, <1>2, <2>2, <2>4
<1> QED
  BY <1>1, <1>4, <1>5

(* The C library returns a value in range, and the number itself if it is. *)
LEMMA Parse ==
    ASSUME NEW n \in Int
    PROVE  /\ strtol(n) \in Signed(Long)
           /\ n \in Signed(Long) => strtol(n) = n
           /\ strtoul(n) \in Unsigned(Long)
           /\ n \in Unsigned(Long) => strtoul(n) = n
BY WidthAssumption DEF strtol, strtoul, Signed, Unsigned

(* A narrower type has no value that a wider one lacks.                    *)
LEMMA Wider ==
    ASSUME NEW half \in {Char, Short, Int32, Long}
    PROVE  /\ half \in Nat \ {0}
           /\ Signed(half) \subseteq Signed(Long) /\ Signed(half) \subseteq Int
           /\ Unsigned(half) \subseteq Unsigned(Long)
           /\ Unsigned(half) \subseteq Int
BY WidthAssumption DEF Signed, Unsigned

(* The conversion to a signed type narrower than long.                     *)
LEMMA SignedCast ==
    ASSUME NEW half \in {Char, Short, Int32}, NEW n \in Int
    PROVE  /\ ToSigned(strtol(n), half) \in Signed(half)
           /\ n \in Signed(half) => ToSigned(strtol(n), half) = n
<1>1. strtol(n) \in Int
  BY Parse, Wider
<1>2. half \in Nat \ {0} /\ Signed(half) \subseteq Signed(Long)
  BY Wider
<1> QED
  BY <1>1, <1>2, Narrow, Parse

(* The conversion to an unsigned type narrower than long.                  *)
LEMMA UnsignedCast ==
    ASSUME NEW half \in {Char, Short, Int32}, NEW n \in Int
    PROVE  /\ ToUnsigned(strtoul(n), half) \in Unsigned(half)
           /\ n \in Unsigned(half) => ToUnsigned(strtoul(n), half) = n
           /\ ToUnsigned(ToSigned(strtoul(n), half), half) \in Unsigned(half)
           /\ n \in Unsigned(half) =>
                 ToUnsigned(ToSigned(strtoul(n), half), half) = n
<1>1. strtoul(n) \in Int
  BY Parse, Wider
<1>2. half \in Nat \ {0} /\ Unsigned(half) \subseteq Unsigned(Long)
      /\ Signed(half) \subseteq Int
  BY Wider
<1>3. ToSigned(strtoul(n), half) \in Int
  BY <1>1, <1>2, Narrow
<1>4. n \in Unsigned(half) => strtoul(n) = n
  BY <1>2, Parse
<1> QED
  BY <1>1, <1>2, <1>3, <1>4, Narrow, ThroughSigned

(* Whatever the text, a conversion yields a value of the type asked for,   *)
(* and the very number if the type has it: for widths of any size, of      *)
(* which long is the largest.                                              *)
THEOREM CastIsExact ==
    ASSUME NEW type \in Types, NEW n \in Int
    PROVE  /\ value_cast(type, n) \in Values(type)
           /\ n \in Values(type) => value_cast(type, n) = n
<1>1. CASE type \in {"long long", "long"}
  BY <1>1, Parse DEF value_cast, Values
<1>2. CASE type = "int32_t"
  BY <1>2, SignedCast DEF value_cast, Values
<1>3. CASE type = "int16_t"
  BY <1>3, SignedCast DEF value_cast, Values
<1>4. CASE type = "int8_t"
  BY <1>4, SignedCast DEF value_cast, Values
<1>5. CASE type \in {"unsigned long long", "unsigned long"}
  BY <1>5, Parse DEF value_cast, Values
<1>6. CASE type = "uint32_t"
  BY <1>6, UnsignedCast DEF value_cast, Values
<1>7. CASE type = "uint16_t"
  BY <1>7, UnsignedCast DEF value_cast, Values
<1>8. CASE type = "uint8_t"
  BY <1>8, UnsignedCast DEF value_cast, Values
<1> QED
  BY <1>1, <1>2, <1>3, <1>4, <1>5, <1>6, <1>7, <1>8 DEF Types

-----------------------------------------------------------------------------

(***************************************************************************)
(* The types, as sets.                                                     *)
(***************************************************************************)
MysqlRes == [st : {"unused", "live", "freed"}, rows : Seq(Sent), next : Nat,
             lengths : [1..Fields -> Nat]]

Object == [result_set_ : Results \cup {None}, values_ : Seq(Rows) \cup {None},
           fields_info_ : Seq(Results) \cup {None}, ec : Errors]

CallRecord == [pc : {"idle", "assign", "rows"}, obj : Objects \cup {None},
               rs : Results \cup {None}, ec : Errors]

Types0 ==
    /\ res \in [Results -> MysqlRes]
    /\ \A r \in Results : /\ res[r].rows \in Contents \cup {<<>>}
                          /\ res[r].next \in 1..(Len(res[r].rows) + 1)
    /\ last_result \in Results \cup {None}
    /\ mysql \in [st : {"open", "closing", "closed"}, errno : BOOLEAN]
    /\ rs \in [Objects -> Object]
    /\ call \in CallRecord
    /\ revoked \subseteq Objects

(* The object x has copies of the first n rows of the result r.            *)
Copied(x, r, rows, n) ==
    /\ x.values_ \in Seq(Rows) /\ Len(x.values_) = n
    /\ \A i \in 1..n :
          x.values_[i] = build_fields(r, i, rows[i], mysql_fetch_lengths(rows[i]))

Described(x) ==
    x.fields_info_ \in Seq(Results) /\ Len(x.fields_info_) = Fields

(* The object x has all of the result r.                                   *)
Complete(x, r, rows) ==
    /\ Copied(x, r, rows, Len(rows))
    /\ IF rows = <<>> THEN x.fields_info_ = <<>> ELSE Described(x) /\ x.ec = "ok"

(* The implementation's result is not freed, and no object refers to a     *)
(* result that the library has not returned yet.                           *)
OwnerInv ==
    /\ last_result # None => res[last_result].st = "live"
    /\ \A o \in Objects : rs[o].result_set_ # None =>
          res[rs[o].result_set_].st # "unused"

(* What assign() has done so far.                                          *)
CallInv ==
    /\ call.pc = "idle" => call = NoCall
    /\ call.pc = "assign" =>
          /\ call.obj \in Objects /\ call.rs = None
          /\ rs[call.obj] = NewResultSet
          /\ call.ec # "ok" => last_result = None
          /\ last_result # None => res[last_result].next = 1
    /\ call.pc = "rows" =>
          /\ call.obj \in Objects /\ call.rs \in Results
          /\ res[call.rs].st = "live" /\ res[call.rs].rows # <<>>
          /\ rs[call.obj].result_set_ = call.rs
          /\ Described(rs[call.obj])
          /\ Copied(rs[call.obj], call.rs, res[call.rs].rows,
                    res[call.rs].next - 1)
          /\ call.obj \notin revoked => last_result = call.rs

(* What an object holds that the user was given: all of its result while   *)
(* that is not freed, which it is not before the user gives it up.         *)
Held(o) ==
    /\ Live(rs[o].result_set_) =>
          Complete(rs[o], rs[o].result_set_, res[rs[o].result_set_].rows)
    /\ o \notin revoked /\ rs[o].result_set_ # None =>
          last_result = rs[o].result_set_
    /\ rs[o].result_set_ = None => rs[o].values_ = <<>> \/ rs[o].ec # "ok"

HeldInv == \A o \in Objects \ {call.obj} : Held(o)

RInv == Types0 /\ OwnerInv /\ CallInv /\ HeldInv

-----------------------------------------------------------------------------
(* The numbers of the server are integers.                                 *)
LEMMA NumbersAreIntegers == Numbers \subseteq Int
BY DEF Numbers

(* The length of a text is a number.                                       *)
LEMMA TextLengthType == ASSUME NEW n \in Int PROVE TextLength(n) \in Nat
<1> DEFINE abs == IF n < 0 THEN -n ELSE n
           S == {p \in {10, 100, 1000} : p <= abs}
           lo == 10
           hi == 1000
<1>2. S \subseteq lo..hi /\ lo \in Int /\ hi \in Int
  OBVIOUS
<1> HIDE DEF S, lo, hi
<1>1. IsFiniteSet(lo..hi)
  BY <1>2, FS_Interval
<1>3. Cardinality(S) \in Nat
  BY <1>1, <1>2, FS_Subset, FS_CardinalityType
<1>4. TextLength(n) = (IF n < 0 THEN 2 ELSE 1) + Cardinality(S)
  BY DEF TextLength, S
<1> QED
  BY <1>3, <1>4

(* Lengths and fields of a row have their types.                           *)
LEMMA RowType ==
    ASSUME NEW r \in Results, NEW i \in Nat, NEW row \in Sent
    PROVE  /\ mysql_fetch_lengths(row) \in [1..Fields -> Nat]
           /\ build_fields(r, i, row, mysql_fetch_lengths(row)) \in Rows
<1>1. mysql_fetch_lengths(row) \in [1..Fields -> Nat]
  <2>1. \A j \in 1..Fields : row[j] \in Numbers \cup {None}
    BY DEF Sent
  <2>2. \A j \in 1..Fields : row[j] # None => row[j] \in Int
    BY <2>1, NumbersAreIntegers
  <2>3. \A j \in 1..Fields : row[j] # None => TextLength(row[j]) \in Nat
    BY <2>2, TextLengthType
  <2> QED
    BY <2>3 DEF mysql_fetch_lengths
<1>2. \A j \in 1..Fields : <<r, i, j>> \in Texts
  BY DEF Texts
<1>3. None \in Texts
  BY DEF Texts
<1> QED
  BY <1>1, <1>2, <1>3 DEF build_fields, Rows

(* A new MYSQL_RES, one that is freed and one that was not used.           *)
LEMMA NewResultType ==
    /\ \A content \in Contents :
          /\ NewResult(content) \in MysqlRes
          /\ NewResult(content).st = "live" /\ NewResult(content).next = 1
          /\ NewResult(content).rows = content
    /\ NoResult \in MysqlRes
    /\ [NoResult EXCEPT !.st = "freed"] \in MysqlRes
    /\ NoResult.rows = <<>> /\ NoResult.next = 1
    /\ [NoResult EXCEPT !.st = "freed"].rows = <<>>
    /\ [NoResult EXCEPT !.st = "freed"].next = 1
    /\ NoResult.st = "unused" /\ [NoResult EXCEPT !.st = "freed"].st = "freed"
<1>1. Contents \subseteq Seq(Sent)
  BY ContentsAssumption
<1>2. <<>> \in Seq(Sent)
  OBVIOUS
<1> QED
  BY <1>1, <1>2 DEF NewResult, NoResult, MysqlRes

RowsInRange(R) ==
    \A r \in Results : /\ R[r].rows \in Contents \cup {<<>>}
                       /\ R[r].next \in 1..(Len(R[r].rows) + 1)

(* Owned() frees the results without owner and changes no other.           *)
LEMMA OwnedFacts ==
    ASSUME NEW R \in [Results -> MysqlRes], RowsInRange(R), NEW owners
    PROVE  /\ Owned(R, owners) \in [Results -> MysqlRes]
           /\ RowsInRange(Owned(R, owners))
           /\ \A r \in Results :
                 /\ r \in owners => Owned(R, owners)[r] = R[r]
                 /\ Owned(R, owners)[r].st = "live" =>
                       r \in owners /\ Owned(R, owners)[r] = R[r]
                 /\ Owned(R, owners)[r].st = "unused" => R[r].st = "unused"
<1> DEFINE F == [NoResult EXCEPT !.st = "freed"]
<1>1. F \in MysqlRes /\ F.st = "freed" /\ F.rows = <<>> /\ F.next = 1
  BY NewResultType
<1>2. Owned(R, owners) = [r \in Results |->
          IF R[r].st = "live" /\ r \notin owners THEN F ELSE R[r]]
  BY DEF Owned
<1> HIDE DEF F
<1> QED
  BY <1>1, <1>2 DEF RowsInRange

(* An object keeps what it holds as long as its result is what it was, or  *)
(* freed.                                                                  *)
LEMMA HeldKept ==
    ASSUME NEW o \in Objects, Types0, Held(o), rs'[o] = rs[o],
           \A r \in Results : rs[o].result_set_ = r /\ res'[r].st = "live" =>
                 res[r].st = "live" /\ res'[r].rows = res[r].rows,
           o \notin revoked' /\ rs[o].result_set_ # None =>
                 o \notin revoked /\ last_result' = last_result
    PROVE  Held(o)'
<1>1. rs[o].result_set_ \in Results \cup {None}
  BY DEF Types0, Object
<1>2. ASSUME Live(rs[o].result_set_)'
      PROVE  /\ Live(rs[o].result_set_)
             /\ res'[rs[o].result_set_].rows = res[rs[o].result_set_].rows
  BY <1>1, <1>2 DEF Live
<1>3. Live(rs[o].result_set_)' =>
          Complete(rs'[o], rs'[o].result_set_, res'[rs'[o].result_set_].rows)
  BY <1>2 DEF Held
<1>4. o \notin revoked' /\ rs'[o].result_set_ # None =>
          last_result' = rs'[o].result_set_
  BY DEF Held
<1>5. rs'[o].result_set_ = None => rs'[o].values_ = <<>> \/ rs'[o].ec # "ok"
  BY DEF Held
<1> QED
  BY <1>3, <1>4, <1>5 DEF Held

(* A new result_set holds nothing.                                         *)
LEMMA NewObject ==
    NewResultSet \in Object /\ NewResultSet.result_set_ = None
    /\ NewResultSet.values_ = <<>> /\ NewResultSet.fields_info_ = <<>>
BY DEF NewResultSet, Object, Errors

(* Assigning to a member of an object leaves the others alone.             *)
LEMMA SetReference ==
    ASSUME NEW x \in Object, NEW r \in Results \cup {None}
    PROVE  LET y == [x EXCEPT !.result_set_ = r] IN
           /\ y \in Object /\ y.result_set_ = r /\ y.values_ = x.values_
           /\ y.fields_info_ = x.fields_info_ /\ y.ec = x.ec
BY DEF Object

(* Assigning the values.                                                   *)
LEMMA SetValues ==
    ASSUME NEW x \in Object, NEW v \in Seq(Rows) \cup {None}
    PROVE  LET y == [x EXCEPT !.values_ = v] IN
           /\ y \in Object /\ y.result_set_ = x.result_set_ /\ y.values_ = v
           /\ y.fields_info_ = x.fields_info_ /\ y.ec = x.ec
BY DEF Object

(* Assigning the description of the fields.                                *)
LEMMA SetInfo ==
    ASSUME NEW x \in Object, NEW f \in Seq(Results) \cup {None}
    PROVE  LET y == [x EXCEPT !.fields_info_ = f] IN
           /\ y \in Object /\ y.result_set_ = x.result_set_
           /\ y.values_ = x.values_ /\ y.fields_info_ = f /\ y.ec = x.ec
BY DEF Object

(* Appending to a sequence.                                                *)
LEMMA AppendFacts ==
    ASSUME NEW S, NEW s \in Seq(S), NEW e \in S
    PROVE  /\ Append(s, e) \in Seq(S) /\ Len(Append(s, e)) = Len(s) + 1
           /\ Append(s, e)[Len(s) + 1] = e
           /\ \A k \in 1..Len(s) : Append(s, e)[k] = s[k]
OBVIOUS

Fetched(m, n, l) == [m EXCEPT !.next = n, !.lengths = l]

(* Fetching a row moves the cursor and fills the array of lengths.         *)
LEMMA SetCursor ==
    ASSUME NEW m \in MysqlRes, NEW n \in Nat, NEW l \in [1..Fields -> Nat]
    PROVE  LET y == Fetched(m, n, l) IN
           /\ y \in MysqlRes /\ y.st = m.st /\ y.rows = m.rows /\ y.next = n
<1> DEFINE D == [1..Fields -> Nat]
<1>1. l \in D
  OBVIOUS
<1>2. MysqlRes = [st : {"unused", "live", "freed"}, rows : Seq(Sent),
                  next : Nat, lengths : D]
  BY DEF MysqlRes
<1> HIDE DEF D
<1> QED
  BY <1>1, <1>2 DEF Fetched

(* Reporting an error.                                                     *)
LEMMA SetError ==
    ASSUME NEW x \in Object, NEW e \in Errors
    PROVE  LET y == [x EXCEPT !.ec = e] IN
           /\ y \in Object /\ y.result_set_ = x.result_set_
           /\ y.values_ = x.values_ /\ y.fields_info_ = x.fields_info_
           /\ y.ec = e
BY DEF Object

-----------------------------------------------------------------------------
(* Nothing is stored at first.                                             *)
LEMMA InitRInv == Init => RInv
<1> SUFFICES ASSUME Init PROVE RInv
  OBVIOUS
<1>1. Types0
  BY NewResultType, NewObject DEF Init, Types0, NoCall, CallRecord, Errors
<1>2. OwnerInv
  BY NewObject DEF Init, OwnerInv
<1>3. CallInv
  BY DEF Init, CallInv, NoCall
<1>4. HeldInv
  BY NewObject DEF Init, HeldInv, Held, Live
<1> QED
  BY <1>1, <1>2, <1>3, <1>4 DEF RInv

(* Steps that change the handle only.                                      *)
LEMMA HandleStepKeeps ==
    ASSUME RInv, UNCHANGED <<res, last_result, rs, call, revoked>>,
           mysql' \in [st : {"open", "closing", "closed"}, errno : BOOLEAN]
    PROVE  RInv'
<1>1. Types0'
  BY DEF RInv, Types0
<1>2. OwnerInv'
  BY DEF RInv, OwnerInv
<1>3. CallInv'
  BY DEF RInv, CallInv
<1>4. HeldInv'
  BY DEF RInv, HeldInv, Held, Live
<1> QED
  BY <1>1, <1>2, <1>3, <1>4 DEF RInv

(* free_result(): what the implementation owned is freed, unless assign()  *)
(* owns it too, and the objects that refer to it are given up.             *)
LEMMA FreeKeeps ==
    ASSUME RInv, NEW owners, call.rs \in Results => call.rs \in owners,
           NEW given \in SUBSET Objects,
           call.obj \in Objects => call.obj \in given,
           free_result(owners), UNCHANGED <<rs, call>>,
           revoked' = revoked \cup Referring(last_result) \cup given,
           mysql' \in [st : {"open", "closing", "closed"}, errno : BOOLEAN]
    PROVE  RInv'
<1>1. Types0 /\ RowsInRange(res)
  BY DEF RInv, Types0, RowsInRange
<1>2. res' = Owned(res, owners) /\ last_result' = None
  BY DEF free_result
<1>3. /\ res' \in [Results -> MysqlRes] /\ RowsInRange(res')
      /\ \A r \in Results :
            /\ r \in owners => res'[r] = res[r]
            /\ res'[r].st = "live" => res'[r] = res[r]
            /\ res'[r].st = "unused" => res[r].st = "unused"
  <2>1. res \in [Results -> MysqlRes]
    BY <1>1 DEF Types0
  <2> QED
    BY <1>1, <1>2, <2>1, OwnedFacts
<1>4. Types0'
  BY <1>1, <1>2, <1>3 DEF Types0, RowsInRange, Referring
<1>5. OwnerInv'
  <2>1. \A o \in Objects : rs[o].result_set_ \in Results \cup {None}
    BY <1>1 DEF Types0, Object
  <2> QED
    BY <1>2, <1>3, <2>1 DEF RInv, OwnerInv
<1>6. CallInv'
  <2>1. call.pc = "rows" => res'[call.rs] = res[call.rs]
    BY <1>3 DEF RInv, CallInv
  <2>2. call.obj \in Objects => call.obj \in revoked'
    OBVIOUS
  <2> QED
    BY <1>2, <2>1, <2>2 DEF RInv, CallInv
<1>7. HeldInv'
  <2> SUFFICES ASSUME NEW o \in Objects \ {call.obj} PROVE Held(o)'
    BY DEF HeldInv
  <2>1. Held(o)
    BY DEF RInv, HeldInv
  <2>2. \A r \in Results : res'[r].st = "live" =>
           res[r].st = "live" /\ res'[r].rows = res[r].rows
    BY <1>3
  <2>3. rs[o].result_set_ # None => o \in revoked'
    BY <2>1 DEF Held, Referring
  <2> QED
    BY <1>1, <2>1, <2>2, <2>3, HeldKept
<1> QED
  BY <1>4, <1>5, <1>6, <1>7 DEF RInv

(* store_result() is called with no other call under way: a new result is  *)
(* owned in place of the old one, or none is.                              *)
LEMMA StoreKeeps ==
    ASSUME RInv, NEW o \in Objects, store_result(o)
    PROVE  RInv'
<1>1. Types0 /\ RowsInRange(res) /\ call = NoCall
  BY DEF RInv, Types0, RowsInRange, CallInv, store_result, Idle
<1>2. call.obj = None
  BY <1>1 DEF NoCall
<1>3. /\ rs' = [rs EXCEPT ![o] = NewResultSet]
      /\ revoked' = (revoked \cup Referring(last_result)) \ {o}
  BY DEF store_result
<1>4. /\ rs' \in [Objects -> Object] /\ rs'[o] = NewResultSet
      /\ \A p \in Objects \ {o} : rs'[p] = rs[p]
      /\ revoked' \subseteq Objects
  BY <1>1, <1>3, NewObject DEF Types0, Referring
<1>5. ASSUME res' \in [Results -> MysqlRes], RowsInRange(res'),
             last_result' \in Results \cup {None},
             last_result' # None => /\ res'[last_result'].st = "live"
                                    /\ res'[last_result'].next = 1,
             mysql' \in [st : {"open", "closing", "closed"}, errno : BOOLEAN],
             call' \in CallRecord, call'.pc = "assign", call'.obj = o,
             call'.rs = None, call'.ec # "ok" => last_result' = None,
             \A r \in Results :
                /\ res[r].st # "unused" /\ res'[r].st = "live" => res'[r] = res[r]
                /\ res'[r].st = "unused" => res[r].st = "unused"
      PROVE  RInv'
  <2>1. Types0'
    BY <1>4, <1>5 DEF Types0, RowsInRange
  <2>2. \A p \in Objects : rs[p].result_set_ \in Results \cup {None}
    BY <1>1 DEF Types0, Object
  <2>3. OwnerInv'
    BY <1>4, <1>5, <2>2, NewObject DEF RInv, OwnerInv
  <2>4. CallInv'
    BY <1>4, <1>5 DEF CallInv
  <2>5. HeldInv'
    <3> SUFFICES ASSUME NEW p \in Objects \ {o} PROVE Held(p)'
      BY <1>5 DEF HeldInv
    <3>1. Held(p)
      BY <1>2, NoneAssumption DEF RInv, HeldInv
    <3>2. \A r \in Results : rs[p].result_set_ = r /\ res'[r].st = "live" =>
             res[r].st = "live" /\ res'[r].rows = res[r].rows
      BY <1>5, NoneAssumption DEF RInv, OwnerInv
    <3>3. rs[p].result_set_ # None => p \in revoked'
      BY <1>3, <3>1 DEF Held, Referring
    <3> QED
      BY <1>1, <1>4, <3>1, <3>2, <3>3, HeldKept
  <2> QED
    BY <2>1, <2>3, <2>4, <2>5 DEF RInv
<1>6. ASSUME NEW r \in Results, NEW content \in Contents, res[r].st = "unused",
             last_result' = r,
             res' = Owned([res EXCEPT ![r] = NewResult(content)], {r}),
             call' = [NoCall EXCEPT !.pc = "assign", !.obj = o],
             UNCHANGED mysql
      PROVE  RInv'
  <2> DEFINE R == [res EXCEPT ![r] = NewResult(content)]
  <2>1. /\ NewResult(content) \in MysqlRes /\ NewResult(content).st = "live"
        /\ NewResult(content).next = 1 /\ NewResult(content).rows = content
        /\ content \in Seq(Sent)
    BY NewResultType, ContentsAssumption
  <2> HIDE DEF NewResult
  <2>2. /\ R \in [Results -> MysqlRes] /\ R[r] = NewResult(content)
        /\ \A q \in Results \ {r} : R[q] = res[q]
    BY <1>1, <2>1 DEF Types0
  <2> HIDE DEF R
  <2>3. RowsInRange(R)
    <3>1. Len(content) \in Nat
      BY <2>1
    <3> QED
      BY <1>1, <2>1, <2>2, <3>1 DEF RowsInRange
  <2>4. /\ res' \in [Results -> MysqlRes] /\ RowsInRange(res')
        /\ res'[r] = R[r]
        /\ \A q \in Results :
              /\ res'[q].st = "live" => q = r /\ res'[q] = R[q]
              /\ res'[q].st = "unused" => R[q].st = "unused"
    <3>1. res' = Owned(R, {r})
      BY <1>6 DEF R
    <3> QED
      BY <2>2, <2>3, <3>1, OwnedFacts
  <2>5. /\ call' \in CallRecord /\ call'.pc = "assign" /\ call'.obj = o
        /\ call'.rs = None /\ call'.ec = "ok"
    BY <1>6 DEF NoCall, CallRecord, Errors
  <2>6. mysql' \in [st : {"open", "closing", "closed"}, errno : BOOLEAN]
    BY <1>1, <1>6 DEF Types0
  <2>7. \A q \in Results :
           /\ res[q].st # "unused" /\ res'[q].st = "live" => res'[q] = res[q]
           /\ res'[q].st = "unused" => res[q].st = "unused"
    BY <1>6, <2>1, <2>2, <2>4
  <2>8. /\ last_result' \in Results
        /\ res'[last_result'].st = "live" /\ res'[last_result'].next = 1
    BY <1>6, <2>1, <2>2, <2>4
  <2> QED
    BY <1>5, <2>4, <2>5, <2>6, <2>7, <2>8
<1>7. ASSUME free_result({}), NEW e \in BOOLEAN,
             mysql' = [mysql EXCEPT !.errno = e],
             call' = [NoCall EXCEPT !.pc = "assign", !.obj = o,
                         !.ec = IF e THEN "client" ELSE "ok"]
      PROVE  RInv'
  <2>1. res' = Owned(res, {}) /\ last_result' = None
    BY <1>7 DEF free_result
  <2>2. /\ res' \in [Results -> MysqlRes] /\ RowsInRange(res')
        /\ \A q \in Results :
              /\ res'[q].st = "live" => res'[q] = res[q]
              /\ res'[q].st = "unused" => res[q].st = "unused"
    <3>1. res \in [Results -> MysqlRes]
      BY <1>1 DEF Types0
    <3> QED
      BY <1>1, <2>1, <3>1, OwnedFacts
  <2>3. /\ call' \in CallRecord /\ call'.pc = "assign" /\ call'.obj = o
        /\ call'.rs = None
    BY <1>7 DEF NoCall, CallRecord, Errors
  <2>4. mysql' \in [st : {"open", "closing", "closed"}, errno : BOOLEAN]
    BY <1>1, <1>7 DEF Types0
  <2> QED
    BY <1>5, <2>1, <2>2, <2>3, <2>4
<1> QED
  BY <1>6, <1>7 DEF store_result

-----------------------------------------------------------------------------
(* assign() returns with the object x: the parameter goes out of scope,    *)
(* and the result lives on only if the implementation still owns it.       *)
LEMMA ReturnKeeps ==
    ASSUME RInv, call.obj \in Objects, NEW x \in Object,
           rs' = [rs EXCEPT ![call.obj] = x],
           res' = Owned(res, {last_result}), call' = NoCall,
           UNCHANGED <<last_result, mysql, revoked>>,
           x.result_set_ # None => res[x.result_set_].st # "unused",
           x.result_set_ # None /\ x.result_set_ = last_result =>
               Complete(x, last_result, res[last_result].rows),
           x.result_set_ # None /\ call.obj \notin revoked =>
               x.result_set_ = last_result,
           x.result_set_ = None => x.values_ = <<>> \/ x.ec # "ok"
    PROVE  RInv'
<1>1. Types0 /\ RowsInRange(res) /\ res \in [Results -> MysqlRes]
  BY DEF RInv, Types0, RowsInRange
<1>2. /\ res' \in [Results -> MysqlRes] /\ RowsInRange(res')
      /\ \A r \in Results :
            /\ r = last_result => res'[r] = res[r]
            /\ res'[r].st = "live" => r = last_result /\ res'[r] = res[r]
            /\ res'[r].st = "unused" => res[r].st = "unused"
  BY <1>1, OwnedFacts
<1>3. /\ rs' \in [Objects -> Object] /\ rs'[call.obj] = x
      /\ \A p \in Objects \ {call.obj} : rs'[p] = rs[p]
  BY <1>1 DEF Types0
<1>4. /\ \A p \in Objects : rs[p].result_set_ \in Results \cup {None}
      /\ x.result_set_ \in Results \cup {None}
  BY <1>1 DEF Types0, Object
<1>5. NoCall \in CallRecord /\ NoCall.pc = "idle" /\ NoCall.obj = None
  BY DEF NoCall, CallRecord, Errors
<1>6. Types0'
  BY <1>1, <1>2, <1>3, <1>5 DEF Types0, RowsInRange
<1>7. OwnerInv'
  <2>1. last_result \in Results \cup {None}
    BY <1>1 DEF Types0
  <2>2. last_result # None => res'[last_result].st = "live"
    BY <1>2, <2>1 DEF RInv, OwnerInv
  <2>3. \A p \in Objects : rs'[p].result_set_ # None =>
           res'[rs'[p].result_set_].st # "unused"
    BY <1>2, <1>3, <1>4 DEF RInv, OwnerInv
  <2> QED
    BY <2>2, <2>3 DEF OwnerInv
<1>8. CallInv'
  BY <1>5 DEF CallInv
<1>9. ASSUME NEW p \in Objects PROVE Held(p)'
  <2>1. CASE p = call.obj
    <3>1. Live(x.result_set_)' =>
             /\ x.result_set_ = last_result /\ x.result_set_ # None
             /\ res'[x.result_set_] = res[last_result]
      BY <1>2, <1>4 DEF Live
    <3>2. Live(rs[p].result_set_)' => Live(x.result_set_)'
      BY <1>3, <2>1 DEF Live
    <3>3. Live(rs[p].result_set_)' =>
             Complete(rs'[p], rs'[p].result_set_, res'[rs'[p].result_set_].rows)
      BY <1>3, <2>1, <3>1, <3>2
    <3> QED
      BY <1>3, <2>1, <3>3 DEF Held
  <2>2. CASE p # call.obj
    <3>1. Held(p) /\ rs'[p] = rs[p]
      BY <1>3, <2>2 DEF RInv, HeldInv
    <3>2. \A r \in Results : res'[r].st = "live" =>
             res[r].st = "live" /\ res'[r].rows = res[r].rows
      BY <1>2
    <3> QED
      BY <1>1, <3>1, <3>2, HeldKept
  <2> QED
    BY <2>1, <2>2
<1> QED
  BY <1>6, <1>7, <1>8, <1>9 DEF RInv, HeldInv

(* The first step of assign(): there is nothing to copy, or the fields are *)
(* described and the rows are yet to come.                                 *)
LEMMA AssignKeeps == RInv /\ assign => RInv'
<1> SUFFICES ASSUME RInv, assign PROVE RInv'
  OBVIOUS
<1> DEFINE o == call.obj
           r == last_result
<1>1. /\ o \in Objects /\ call.rs = None /\ rs[o] = NewResultSet
      /\ call.ec # "ok" => r = None
      /\ r # None => res[r].next = 1
  BY DEF RInv, CallInv, assign
<1>2. Types0 /\ r \in Results \cup {None} /\ call.ec \in Errors
  BY DEF RInv, Types0, CallRecord
<1>3. r # None => res[r].st = "live" /\ r \in Results
  BY <1>2 DEF RInv, OwnerInv
<1>4. CASE r = None \/ res[r].rows = <<>>
  <2> DEFINE y == [rs[o] EXCEPT !.result_set_ = r]
             x == [y EXCEPT !.ec = call.ec]
  <2>1. /\ x \in Object /\ x.result_set_ = r
        /\ x.values_ = <<>> /\ x.fields_info_ = <<>>
    <3>1. /\ y \in Object /\ y.result_set_ = r
          /\ y.values_ = <<>> /\ y.fields_info_ = <<>>
      BY <1>1, <1>2, NewObject, SetReference
    <3> HIDE DEF y
    <3> QED
      BY <1>2, <3>1, SetError
  <2>2. /\ rs' = [rs EXCEPT ![o] = x] /\ res' = Owned(res, {last_result})
        /\ call' = NoCall /\ UNCHANGED <<last_result, mysql, revoked>>
    BY <1>4 DEF assign, Return
  <2> HIDE DEF x
  <2>3. r # None => Complete(x, r, res[r].rows)
    <3>1. Copied(x, r, <<>>, 0)
      BY <2>1 DEF Copied
    <3> QED
      BY <1>4, <2>1, <3>1 DEF Complete
  <2> QED
    BY <1>1, <1>3, <2>1, <2>2, <2>3, ReturnKeeps
<1>5. CASE ~(r = None \/ res[r].rows = <<>>)
  <2> DEFINE f == [j \in 1..Fields |-> r]
             y == [rs[o] EXCEPT !.result_set_ = r]
             x == [y EXCEPT !.fields_info_ = f]
  <2>1. r \in Results /\ res[r].st = "live" /\ res[r].next = 1
    BY <1>1, <1>3, <1>5
  <2>2. f \in Seq(Results) /\ Len(f) = Fields
    BY <2>1, FieldsAssumption
  <2> HIDE DEF f
  <2>3. x \in Object /\ x.result_set_ = r /\ x.fields_info_ = f /\ x.values_ = <<>>
    <3>1. /\ y \in Object /\ y.result_set_ = r /\ y.values_ = <<>>
      BY <1>1, <1>2, NewObject, SetReference
    <3> HIDE DEF y
    <3> QED
      BY <2>2, <3>1, SetInfo
  <2>4. /\ rs' = [rs EXCEPT ![o].result_set_ = r, ![o].fields_info_ = f]
        /\ call' = [call EXCEPT !.pc = "rows", !.rs = r]
        /\ UNCHANGED <<res, last_result, mysql, revoked>>
    BY <1>5 DEF assign, f
  <2>5. /\ rs' \in [Objects -> Object] /\ rs'[o] = x
        /\ \A p \in Objects \ {o} : rs'[p] = rs[p]
    BY <1>1, <1>2, <2>3, <2>4 DEF Types0
  <2> HIDE DEF x
  <2>6. /\ call' \in CallRecord /\ call'.pc = "rows" /\ call'.rs = r
        /\ call'.obj = o
    BY <1>2, <2>1, <2>4 DEF Types0, CallRecord
  <2>7. Types0'
    BY <1>2, <2>4, <2>5, <2>6 DEF Types0
  <2>8. OwnerInv'
    BY <2>1, <2>3, <2>4, <2>5 DEF RInv, OwnerInv
  <2>9. CallInv'
    <3>1. Described(x) /\ Copied(x, r, res[r].rows, res[r].next - 1)
      BY <2>1, <2>2, <2>3 DEF Described, Copied
    <3> QED
      BY <1>1, <1>5, <2>1, <2>3, <2>4, <2>5, <2>6, <3>1 DEF CallInv
  <2>10. HeldInv'
    <3> SUFFICES ASSUME NEW p \in Objects \ {o} PROVE Held(p)'
      BY <2>6 DEF HeldInv
    <3>1. Held(p)
      BY DEF RInv, HeldInv
    <3> QED
      BY <1>2, <2>4, <2>5, <3>1, HeldKept
  <2> QED
    BY <2>7, <2>8, <2>9, <2>10 DEF RInv
<1> QED
  BY <1>4, <1>5

(* What is known of the call while it copies rows.                         *)
LEMMA Copying ==
    ASSUME RInv, call.pc = "rows"
    PROVE  /\ call.obj \in Objects /\ call.rs \in Results
           /\ res[call.rs].st = "live" /\ res[call.rs].rows # <<>>
           /\ res[call.rs] \in MysqlRes
           /\ res[call.rs].rows \in Seq(Sent)
           /\ res[call.rs].next \in 1..(Len(res[call.rs].rows) + 1)
           /\ rs[call.obj] \in Object
           /\ rs[call.obj].result_set_ = call.rs
           /\ Described(rs[call.obj])
           /\ Copied(rs[call.obj], call.rs, res[call.rs].rows,
                     res[call.rs].next - 1)
           /\ call.obj \notin revoked => last_result = call.rs
BY DEF RInv, CallInv, Types0, MysqlRes

(* One more row is copied, with the lengths of that row.                   *)
LEMMA FetchRowKeeps == RInv /\ FetchRow => RInv'
<1> SUFFICES ASSUME RInv, FetchRow PROVE RInv'
  OBVIOUS
<1> DEFINE o == call.obj
           r == call.rs
           i == res[r].next
           row == res[r].rows[i]
           L == mysql_fetch_lengths(row)
           b == build_fields(r, i, row, L)
           v == Append(rs[o].values_, b)
           x == [rs[o] EXCEPT !.values_ = v]
           R == [res[r] EXCEPT !.next = i + 1, !.lengths = L]
<1>1. /\ call.pc = "rows" /\ i <= Len(res[r].rows)
      /\ res' = [res EXCEPT ![r].next = i + 1, ![r].lengths = L]
      /\ rs' = [rs EXCEPT ![o].values_ = v]
      /\ UNCHANGED <<last_result, mysql, call, revoked>>
  BY DEF FetchRow
<1>2. /\ o \in Objects /\ r \in Results
      /\ res[r].st = "live" /\ res[r].rows # <<>> /\ res[r] \in MysqlRes
      /\ res[r].rows \in Seq(Sent)
      /\ i \in 1..(Len(res[r].rows) + 1)
      /\ rs[o] \in Object /\ rs[o].result_set_ = r /\ Described(rs[o])
      /\ Copied(rs[o], r, res[r].rows, i - 1)
      /\ o \notin revoked => last_result = r
  BY <1>1, Copying
<1>3. i \in Nat /\ i \in 1..Len(res[r].rows) /\ row \in Sent
  BY <1>1, <1>2
<1>4. L \in [1..Fields -> Nat] /\ b \in Rows
  BY <1>2, <1>3, RowType
<1>5. Types0
  BY DEF RInv
<1>6. /\ R \in MysqlRes /\ R.st = "live" /\ R.next = i + 1
      /\ R.rows = res[r].rows
  <2>1. i + 1 \in Nat
    BY <1>3
  <2>2. R = Fetched(res[r], i + 1, L)
    BY DEF Fetched
  <2> HIDE DEF L, R
  <2> QED
    BY <1>2, <1>4, <2>1, <2>2, SetCursor
<1>7. Copied(x, r, res[r].rows, i) /\ x \in Object /\ x.result_set_ = r
      /\ x.fields_info_ = rs[o].fields_info_
  <2>1. /\ rs[o].values_ \in Seq(Rows) /\ Len(rs[o].values_) = i - 1
        /\ \A k \in 1..(i - 1) :
              rs[o].values_[k] = build_fields(r, k, res[r].rows[k],
                                     mysql_fetch_lengths(res[r].rows[k]))
    BY <1>2 DEF Copied
  <2> HIDE DEF b
  <2>2. /\ v \in Seq(Rows) /\ Len(v) = i
        /\ v[i] = b
        /\ \A k \in 1..(i - 1) : v[k] = rs[o].values_[k]
    <3>1. i = Len(rs[o].values_) + 1
      BY <1>3, <2>1
    <3> QED
      BY <1>4, <2>1, <3>1, AppendFacts
  <2> HIDE DEF v
  <2>3. x \in Object /\ x.result_set_ = r /\ x.values_ = v
        /\ x.fields_info_ = rs[o].fields_info_
    BY <1>2, <2>2, SetValues
  <2>4. \A k \in 1..i : k \in 1..(i - 1) \/ k = i
    BY <1>3
  <2>5. \A k \in 1..i :
           v[k] = build_fields(r, k, res[r].rows[k],
                               mysql_fetch_lengths(res[r].rows[k]))
    BY <2>1, <2>2, <2>4 DEF b
  <2> QED
    BY <2>2, <2>3, <2>5 DEF Copied
<1>8. /\ res' \in [Results -> MysqlRes] /\ res'[r] = R
      /\ \A q \in Results \ {r} : res'[q] = res[q]
  BY <1>1, <1>2, <1>5, <1>6 DEF Types0
<1>9. /\ rs' \in [Objects -> Object] /\ rs'[o] = x
      /\ \A p \in Objects \ {o} : rs'[p] = rs[p]
  BY <1>1, <1>2, <1>5, <1>7 DEF Types0
<1> HIDE DEF R, x, v, b, L, row
<1>10. Types0'
  <2>1. \A q \in Results : /\ res'[q].rows \in Contents \cup {<<>>}
                           /\ res'[q].next \in 1..(Len(res'[q].rows) + 1)
    <3> SUFFICES ASSUME NEW q \in Results
                 PROVE  /\ res'[q].rows \in Contents \cup {<<>>}
                        /\ res'[q].next \in 1..(Len(res'[q].rows) + 1)
      OBVIOUS
    <3>1. CASE q = r
      <4>1. i + 1 \in 1..(Len(res[r].rows) + 1)
        BY <1>2, <1>3
      <4> QED
        BY <1>2, <1>5, <1>6, <1>8, <3>1, <4>1 DEF Types0
    <3>2. CASE q # r
      BY <1>5, <1>8, <3>2 DEF Types0
    <3> QED
      BY <3>1, <3>2
  <2> QED
    BY <1>1, <1>5, <1>8, <1>9, <2>1 DEF Types0
<1>11. \A q \in Results : res'[q].st = res[q].st /\ res'[q].rows = res[q].rows
  BY <1>2, <1>6, <1>8
<1>12. OwnerInv'
  <2>1. \A p \in Objects : /\ rs'[p].result_set_ = rs[p].result_set_
                           /\ rs[p].result_set_ \in Results \cup {None}
    BY <1>2, <1>5, <1>7, <1>9 DEF Types0, Object
  <2>2. last_result \in Results \cup {None}
    BY <1>5 DEF Types0
  <2> QED
    BY <1>1, <1>11, <2>1, <2>2 DEF RInv, OwnerInv
<1>13. CallInv'
  <2>1. Described(rs'[o])
    BY <1>2, <1>7, <1>9 DEF Described
  <2>2. Copied(rs'[o], r, res'[r].rows, res'[r].next - 1)
    <3>1. res'[r].next - 1 = i
      BY <1>3, <1>6, <1>8
    <3> QED
      BY <1>6, <1>7, <1>8, <1>9, <3>1
  <2> QED
    BY <1>1, <1>2, <1>6, <1>7, <1>8, <1>9, <2>1, <2>2 DEF CallInv
<1>14. HeldInv'
  <2> SUFFICES ASSUME NEW p \in Objects \ {o} PROVE Held(p)'
    BY <1>1 DEF HeldInv
  <2>1. Held(p)
    BY DEF RInv, HeldInv
  <2> QED
    BY <1>1, <1>5, <1>9, <1>11, <2>1, HeldKept
<1> QED
  BY <1>10, <1>12, <1>13, <1>14 DEF RInv

(* Past the last row: the object has every row, or nothing.                *)
LEMMA FetchEndKeeps == RInv /\ FetchEnd => RInv'
<1> SUFFICES ASSUME RInv, FetchEnd PROVE RInv'
  OBVIOUS
<1> DEFINE o == call.obj
           r == call.rs
<1>1. call.pc = "rows" /\ res[r].next > Len(res[r].rows)
      /\ UNCHANGED <<last_result, mysql, revoked>>
  BY DEF FetchEnd
<1>2. /\ o \in Objects /\ r \in Results
      /\ res[r].st = "live" /\ res[r].rows # <<>>
      /\ res[r].rows \in Seq(Sent)
      /\ res[r].next \in 1..(Len(res[r].rows) + 1)
      /\ rs[o] \in Object /\ rs[o].result_set_ = r /\ Described(rs[o])
      /\ Copied(rs[o], r, res[r].rows, res[r].next - 1)
      /\ o \notin revoked => last_result = r
  BY <1>1, Copying
<1>3. PICK ec \in Errors :
         Return(o, IF ec = "ok" THEN rs[o]
                   ELSE [rs[o] EXCEPT !.values_ = None, !.fields_info_ = None,
                                      !.result_set_ = None], ec, res)
  BY DEF FetchEnd, EndErrors, Errors
<1>4. CASE ec = "ok"
  <2> DEFINE x == [rs[o] EXCEPT !.ec = ec]
  <2>1. /\ rs' = [rs EXCEPT ![o] = x] /\ res' = Owned(res, {last_result})
        /\ call' = NoCall
    BY <1>3, <1>4 DEF Return
  <2>2. /\ x \in Object /\ x.result_set_ = r /\ x.values_ = rs[o].values_
        /\ x.fields_info_ = rs[o].fields_info_ /\ x.ec = "ok"
    BY <1>2, <1>4, SetError
  <2> HIDE DEF x
  <2>3. Complete(x, r, res[r].rows)
    <3>1. res[r].next - 1 = Len(res[r].rows)
      BY <1>1, <1>2
    <3> QED
      BY <1>2, <2>2, <3>1 DEF Complete, Copied, Described
  <2>4. /\ x.result_set_ # None /\ res[x.result_set_].st # "unused"
        /\ x.result_set_ = last_result =>
              Complete(x, last_result, res[last_result].rows)
        /\ o \notin revoked => x.result_set_ = last_result
    BY <1>2, <2>2, <2>3, NoneAssumption
  <2> QED
    BY <1>1, <1>2, <2>1, <2>2, <2>4, ReturnKeeps
<1>5. CASE ec # "ok"
  <2> DEFINE u == [rs[o] EXCEPT !.values_ = None]
             w == [u EXCEPT !.fields_info_ = None]
             y == [w EXCEPT !.result_set_ = None]
             x == [y EXCEPT !.ec = ec]
  <2>1. /\ rs' = [rs EXCEPT ![o] = x] /\ res' = Owned(res, {last_result})
        /\ call' = NoCall
    BY <1>3, <1>5 DEF Return
  <2>2. u \in Object
    BY <1>2, SetValues
  <2> HIDE DEF u
  <2>3. w \in Object
    BY <2>2, SetInfo
  <2> HIDE DEF w
  <2>4. y \in Object /\ y.result_set_ = None
    BY <2>3, SetReference
  <2> HIDE DEF y
  <2>5. x \in Object /\ x.result_set_ = None /\ x.ec # "ok"
    BY <1>5, <2>4, SetError
  <2> HIDE DEF x
  <2> QED
    BY <1>1, <1>2, <2>1, <2>5, ReturnKeeps
<1> QED
  BY <1>4, <1>5

(* A copy holds what the original holds, and is given up with it.          *)
LEMMA CopyKeeps ==
    ASSUME RInv, NEW o \in Objects, NEW p \in Objects, copy(o, p)
    PROVE  RInv'
<1>1. /\ o # p /\ call.obj \notin {o, p}
      /\ rs' = [rs EXCEPT ![p] = rs[o]]
      /\ revoked' = IF o \in revoked THEN revoked \cup {p} ELSE revoked \ {p}
      /\ UNCHANGED <<res, last_result, mysql, call>>
  BY DEF copy
<1>2. Types0
  BY DEF RInv
<1>3. /\ rs' \in [Objects -> Object] /\ rs'[p] = rs[o]
      /\ \A q \in Objects \ {p} : rs'[q] = rs[q]
  BY <1>1, <1>2 DEF Types0
<1>4. Types0'
  BY <1>1, <1>2, <1>3 DEF Types0
<1>5. OwnerInv'
  BY <1>1, <1>3 DEF RInv, OwnerInv
<1>6. CallInv'
  <2>1. call.obj \in Objects => rs'[call.obj] = rs[call.obj]
    BY <1>1, <1>3
  <2>2. call.obj \notin revoked' => call.obj \notin revoked
    BY <1>1
  <2> QED
    BY <1>1, <2>1, <2>2 DEF RInv, CallInv
<1>7. HeldInv'
  <2> SUFFICES ASSUME NEW q \in Objects \ {call.obj} PROVE Held(q)'
    BY <1>1 DEF HeldInv
  <2>1. CASE q = p
    <3>1. Held(o)
      BY <1>1 DEF RInv, HeldInv
    <3>2. rs'[q] = rs[o] /\ (q \in revoked' <=> o \in revoked)
      BY <1>1, <1>3, <2>1
    <3>3. Live(rs[q].result_set_)' => Live(rs[o].result_set_)
      BY <1>1, <3>2 DEF Live
    <3> QED
      BY <1>1, <3>1, <3>2, <3>3 DEF Held
  <2>2. CASE q # p
    <3>1. Held(q) /\ rs'[q] = rs[q] /\ (q \in revoked' <=> q \in revoked)
      BY <1>1, <1>3, <2>2 DEF RInv, HeldInv
    <3> QED
      BY <1>1, <1>2, <3>1, HeldKept
  <2> QED
    BY <2>1, <2>2
<1> QED
  BY <1>4, <1>5, <1>6, <1>7 DEF RInv

-----------------------------------------------------------------------------
(* RInv is inductive.                                                      *)
LEMMA NextRInv == RInv /\ [Next]_vars => RInv'
<1> SUFFICES ASSUME RInv, [Next]_vars PROVE RInv'
  OBVIOUS
<1> USE DEF RInv
<1>1. mysql \in [st : {"open", "closing", "closed"}, errno : BOOLEAN]
  BY DEF Types0
<1>2. CASE open \/ set_option \/ close \/ UNCHANGED vars
  <2>1. UNCHANGED <<res, last_result, rs, call, revoked>>
    BY <1>2 DEF open, set_option, close, vars
  <2>2. mysql' \in [st : {"open", "closing", "closed"}, errno : BOOLEAN]
    <3>1. \/ mysql' = [st |-> "open", errno |-> FALSE]
          \/ mysql' = [mysql EXCEPT !.errno = TRUE]
          \/ mysql' = [st |-> "closing", errno |-> FALSE]
          \/ mysql' = mysql
      BY <1>2 DEF open, set_option, close, vars
    <3>2. [mysql EXCEPT !.errno = TRUE] \in
             [st : {"open", "closing", "closed"}, errno : BOOLEAN]
      BY <1>1
    <3>3. /\ [st |-> "open", errno |-> FALSE] \in
                [st : {"open", "closing", "closed"}, errno : BOOLEAN]
          /\ [st |-> "closing", errno |-> FALSE] \in
                [st : {"open", "closing", "closed"}, errno : BOOLEAN]
      OBVIOUS
    <3> QED
      BY <1>1, <3>1, <3>2, <3>3, Zenon
  <2> HIDE DEF RInv
  <2> QED
    BY <2>1, <2>2, HandleStepKeeps
<1>3. CASE query
  <2>1. call.rs = None /\ call.obj = None
    BY <1>3 DEF CallInv, query, Idle, NoCall
  <2>2. mysql' \in [st : {"open", "closing", "closed"}, errno : BOOLEAN]
    BY <1>1, <1>3 DEF query
  <2>3. /\ free_result({}) /\ UNCHANGED <<rs, call>>
        /\ revoked' = revoked \cup Referring(last_result) \cup {}
    BY <1>3 DEF query
  <2> HIDE DEF RInv
  <2> QED
    BY <2>1, <2>2, <2>3, FreeKeeps, NoneAssumption
<1>4. CASE CloseFree
  <2>1. mysql' \in [st : {"open", "closing", "closed"}, errno : BOOLEAN]
    BY <1>1, <1>4 DEF CloseFree
  <2>2. /\ {call.obj} \ {None} \in SUBSET Objects
        /\ call.obj \in Objects => call.obj \in {call.obj} \ {None}
    BY NoneAssumption DEF Types0, CallRecord
  <2>3. /\ free_result({call.rs}) /\ UNCHANGED <<rs, call>>
        /\ revoked' = revoked \cup Referring(last_result)
                              \cup ({call.obj} \ {None})
    BY <1>4 DEF CloseFree
  <2> HIDE DEF RInv
  <2> QED
    BY <2>1, <2>2, <2>3, FreeKeeps
<1> HIDE DEF RInv
<1>5. CASE \E o \in Objects : store_result(o)
  BY <1>5, StoreKeeps
<1>6. CASE \E o, p \in Objects : copy(o, p)
  BY <1>6, CopyKeeps
<1> QED
  BY <1>2, <1>3, <1>4, <1>5, <1>6, AssignKeeps, FetchRowKeeps, FetchEndKeeps
     DEF Next

(* The invariant of results and objects holds in every reachable state.    *)
THEOREM Invariant == Spec => []RInv
BY InitRInv, NextRInv, PTL DEF Spec

(* The types are right, those of the fields of every copied row included.  *)
THEOREM TypeCorrect == Spec => []TypeOK
<1>1. RInv => TypeOK
  <2> SUFFICES ASSUME RInv PROVE TypeOK
    OBVIOUS
  <2>1. Types0
    BY DEF RInv
  <2>2. \A r \in Results :
           /\ res[r].st \in {"unused", "live", "freed"}
           /\ res[r].rows \in Contents \cup {<<>>}
           /\ res[r].next \in 1..(Len(res[r].rows) + 1)
           /\ res[r].lengths \in [1..Fields -> Nat]
    <3>1. \A r \in Results : res[r] \in MysqlRes
      BY <2>1 DEF Types0
    <3> QED
      BY <2>1, <3>1 DEF Types0, MysqlRes
  <2>3. \A o \in Objects : rs[o] \in Object
    BY <2>1 DEF Types0
  <2>4. ASSUME NEW o \in Objects
        PROVE  /\ rs[o].result_set_ \in Results \cup {None}
               /\ rs[o].values_ = None \/ \A i \in DOMAIN rs[o].values_ :
                                             rs[o].values_[i] \in Rows
               /\ rs[o].fields_info_ = None \/ \A j \in DOMAIN rs[o].fields_info_ :
                                             rs[o].fields_info_[j] \in Results
               /\ rs[o].ec \in Errors
    <3>1. /\ rs[o].result_set_ \in Results \cup {None}
          /\ rs[o].values_ \in Seq(Rows) \cup {None}
          /\ rs[o].fields_info_ \in Seq(Results) \cup {None}
          /\ rs[o].ec \in Errors
      BY <2>3 DEF Object
    <3>2. ASSUME NEW S, NEW s \in Seq(S), NEW i \in DOMAIN s PROVE s[i] \in S
      OBVIOUS
    <3> QED
      BY <3>1, <3>2
  <2> QED
    BY <2>1, <2>2, <2>4 DEF Types0, TypeOK, CallRecord
<1> QED
  BY <1>1, Invariant, PTL

(* Rows are copied only from a result that is not freed, with close()      *)
(* between any two of them.                                                *)
THEOREM FetchIsSafe == Spec => []FetchUnderOwner
<1>1. RInv => FetchUnderOwner
  BY NoneAssumption DEF RInv, CallInv, FetchUnderOwner, Live
<1> QED
  BY <1>1, Invariant, PTL

(* What a delivered object holds of a result that is not freed.            *)
LEMMA Delivery ==
    ASSUME RInv, NEW o \in Delivered, ~expired(o)
    PROVE  LET r == rs[o].result_set_ IN
           /\ r \in Results /\ res[r].st = "live" /\ res[r].rows \in Seq(Sent)
           /\ size(o) = Len(res[r].rows)
           /\ Complete(rs[o], r, res[r].rows)
<1> DEFINE r == rs[o].result_set_
<1>1. Live(r) /\ Held(o)
  BY DEF expired, RInv, HeldInv, Delivered
<1>2. r \in Results /\ res[r].st = "live"
  BY <1>1 DEF Live, RInv, Types0, Object, Delivered
<1>3. res[r].rows \in Seq(Sent)
  BY <1>2 DEF RInv, Types0, MysqlRes
<1>4. size(o) = Len(res[r].rows)
  BY DEF size
<1>5. Complete(rs[o], r, res[r].rows)
  BY <1>1 DEF Held
<1> QED
  BY <1>2, <1>3, <1>4, <1>5

(* The field for a number that was sent, or for NULL.                      *)
FieldOf(r, i, j, sent) ==
    [value_str_ |-> IF sent = None THEN None ELSE <<r, i, j>>,
     length_ |-> IF sent = None THEN 0 ELSE TextLength(sent)]

(* A field that was copied, in terms of what the server sent.              *)
LEMMA FieldFacts ==
    ASSUME RInv, NEW o \in Delivered, ~expired(o),
           NEW i \in 1..size(o), NEW j \in 1..Fields
    PROVE  LET r == rs[o].result_set_
               sent == res[r].rows[i][j]
               f == rs[o].values_[i][j]
           IN  /\ sent \in Numbers \cup {None}
               /\ f = FieldOf(r, i, j, sent)
<1> DEFINE r == rs[o].result_set_
           row == res[r].rows[i]
<1>1. /\ res[r].rows \in Seq(Sent) /\ size(o) = Len(res[r].rows)
      /\ Complete(rs[o], r, res[r].rows)
  BY Delivery
<1>2. rs[o].values_[i] = build_fields(r, i, row, mysql_fetch_lengths(row))
  BY <1>1 DEF Complete, Copied
<1>3. row \in Sent
  BY <1>1
<1>4. row[j] \in Numbers \cup {None}
  BY <1>3 DEF Sent
<1>5. mysql_fetch_lengths(row)[j] = IF row[j] = None THEN 0 ELSE TextLength(row[j])
  BY DEF mysql_fetch_lengths
<1>6. build_fields(r, i, row, mysql_fetch_lengths(row))[j] =
          [value_str_ |-> IF row[j] = None THEN None ELSE <<r, i, j>>,
           length_ |-> mysql_fetch_lengths(row)[j]]
  BY DEF build_fields
<1> QED
  BY <1>2, <1>4, <1>5, <1>6 DEF FieldOf

(* A result set that is not empty has every row and column that was sent,  *)
(* with the length of each value and not that of another row.              *)
THEOREM RowsAreReadable == Spec => []NonemptyIsReadable
<1>1. ASSUME RInv, NEW o \in Delivered, ~empty(o)
      PROVE  LET r == rs[o].result_set_ IN
             /\ Len(rs[o].fields_info_) = Fields
             /\ Len(rs[o].values_) = size(o)
             /\ \A i \in 1..size(o), j \in 1..Fields :
                   LET f == rs[o].values_[i][j]
                       sent == res[r].rows[i][j]
                   IN  IF sent = None THEN f.value_str_ = None
                       ELSE f = [value_str_ |-> <<r, i, j>>,
                                 length_ |-> TextLength(sent)]
  <2> DEFINE r == rs[o].result_set_
  <2>1. ~expired(o) /\ size(o) # 0
    BY <1>1 DEF empty
  <2>2. /\ res[r].rows \in Seq(Sent) /\ size(o) = Len(res[r].rows)
        /\ Complete(rs[o], r, res[r].rows)
    BY <1>1, <2>1, Delivery
  <2>3. Len(rs[o].fields_info_) = Fields /\ Len(rs[o].values_) = size(o)
    BY <2>1, <2>2 DEF Complete, Copied, Described
  <2>4. ASSUME NEW i \in 1..size(o), NEW j \in 1..Fields
        PROVE  LET f == rs[o].values_[i][j]
                   sent == res[r].rows[i][j]
               IN  IF sent = None THEN f.value_str_ = None
                   ELSE f = [value_str_ |-> <<r, i, j>>,
                             length_ |-> TextLength(sent)]
    <3>1. rs[o].values_[i][j] = FieldOf(r, i, j, res[r].rows[i][j])
      BY <1>1, <2>1, FieldFacts
    <3> QED
      BY <3>1 DEF FieldOf
  <2> QED
    BY <2>3, <2>4
<1>2. RInv => NonemptyIsReadable
  BY <1>1 DEF NonemptyIsReadable
<1> QED
  BY <1>2, Invariant, PTL

(* The tests in at() and fields_info() are enough: no null pointer and no  *)
(* freed text is followed.                                                 *)
THEOREM AccessIsChecked == Spec => []CheckedAccess
<1>1. ASSUME RInv, NEW o \in Delivered, ~expired(o)
      PROVE  /\ rs[o].fields_info_ # None /\ rs[o].values_ # None
             /\ DOMAIN rs[o].values_ = 1..size(o)
             /\ Live(rs[o].result_set_)
  <2> DEFINE r == rs[o].result_set_
  <2>1. /\ res[r].rows \in Seq(Sent) /\ size(o) = Len(res[r].rows)
        /\ Complete(rs[o], r, res[r].rows)
    BY <1>1, Delivery
  <2>2. rs[o].values_ \in Seq(Rows) /\ Len(rs[o].values_) = size(o)
    BY <2>1 DEF Complete, Copied
  <2>3. rs[o].fields_info_ \in Seq(Results)
    BY <2>1 DEF Complete, Described
  <2> QED
    BY <1>1, <2>2, <2>3, NullAssumption DEF expired
<1>2. ASSUME RInv, NEW o \in Delivered, ~expired(o), NEW i \in 1..size(o),
             NEW j \in 1..Fields
      PROVE  LET f == rs[o].values_[i][j]
             IN  f.value_str_ = None \/ Live(f.value_str_[1])
  <2> DEFINE r == rs[o].result_set_
             f == rs[o].values_[i][j]
  <2>1. f.value_str_ = None \/ f.value_str_ = <<r, i, j>>
    <3>1. f = FieldOf(r, i, j, res[r].rows[i][j])
      BY <1>2, FieldFacts
    <3> HIDE DEF f
    <3> QED
      BY <3>1 DEF FieldOf
  <2>2. <<r, i, j>>[1] = r /\ Live(r)
    BY <1>1, <1>2
  <2> HIDE DEF f, r
  <2> QED
    BY <2>1, <2>2 DEF f
<1>3. ASSUME RInv, NEW o \in Delivered
      PROVE  /\ fields_info(o) # "null"
             /\ \A i \in 1..(size(o) + 1) :
                   /\ at(o, i) # "null"
                   /\ at(o, i) = "value" => ~expired(o) /\ i \in DOMAIN rs[o].values_
  BY <1>1, <1>3 DEF fields_info, at, Checked
<1>4. RInv => CheckedAccess
  BY <1>1, <1>2, <1>3 DEF CheckedAccess
<1> QED
  BY <1>4, Invariant, PTL

(* An error comes with no rows, and a result without error is complete     *)
(* until the user gives it up.                                             *)
THEOREM ResultIsWhole == Spec => []AllOrNothing
<1>1. ASSUME RInv, NEW o \in Delivered, rs[o].ec # "ok"
      PROVE  empty(o)
  <2> SUFFICES ASSUME ~expired(o) PROVE size(o) = 0
    BY DEF empty
  <2>1. /\ size(o) = Len(res[rs[o].result_set_].rows)
        /\ Complete(rs[o], rs[o].result_set_, res[rs[o].result_set_].rows)
    BY <1>1, Delivery
  <2>2. res[rs[o].result_set_].rows = <<>>
    BY <1>1, <2>1 DEF Complete
  <2> QED
    BY <2>1, <2>2
<1>2. ASSUME RInv, NEW o \in Delivered, rs[o].ec = "ok", o \notin revoked,
             rs[o].values_ # <<>>
      PROVE  ~expired(o) /\ size(o) = Len(rs[o].values_)
  <2>1. Held(o)
    BY <1>2 DEF RInv, HeldInv, Delivered
  <2>2. rs[o].result_set_ # None /\ last_result = rs[o].result_set_
    BY <1>2, <2>1 DEF Held
  <2>3. ~expired(o)
    BY <1>2, <2>2 DEF expired, Live, RInv, OwnerInv
  <2> QED
    BY <1>2, <2>3, Delivery DEF Complete, Copied
<1>3. RInv => AllOrNothing
  BY <1>1, <1>2 DEF AllOrNothing
<1> QED
  BY <1>3, Invariant, PTL

(* as() yields a value of the type asked for, and the number the server    *)
(* sent if the type has it.                                                *)
THEOREM ConversionIsExact == Spec => []ConversionExact
<1>1. ASSUME RInv, NEW o \in Delivered, ~empty(o),
             NEW i \in 1..size(o), NEW j \in 1..Fields, NEW type \in Types,
             rs[o].values_[i][j].value_str_ # None
      PROVE  LET f == rs[o].values_[i][j]
                 sent == res[rs[o].result_set_].rows[i][j]
             IN  /\ as(f, type) \in Values(type)
                 /\ sent \in Values(type) => as(f, type) = sent
  <2> DEFINE r == rs[o].result_set_
             f == rs[o].values_[i][j]
             sent == res[r].rows[i][j]
  <2>1. ~expired(o)
    BY <1>1 DEF empty
  <2>2. /\ sent \in Numbers \cup {None}
        /\ f.value_str_ = IF sent = None THEN None ELSE <<r, i, j>>
    <3>1. sent \in Numbers \cup {None} /\ f = FieldOf(r, i, j, sent)
      BY <1>1, <2>1, FieldFacts
    <3> HIDE DEF f, sent
    <3> QED
      BY <3>1 DEF FieldOf
  <2>3. sent \in Int /\ f.value_str_ = <<r, i, j>>
    BY <1>1, <2>2, NumbersAreIntegers
  <2> HIDE DEF f
  <2>4. as(f, type) = value_cast(type, sent)
    BY <2>3 DEF as
  <2> HIDE DEF sent
  <2>5. as(f, type) \in Values(type) /\ (sent \in Values(type) => as(f, type) = sent)
    BY <2>3, <2>4, CastIsExact
  <2> QED
    BY <2>5 DEF f, sent
<1>2. RInv => ConversionExact
  BY <1>1 DEF ConversionExact
<1> QED
  BY <1>2, Invariant, PTL
=============================================================================
