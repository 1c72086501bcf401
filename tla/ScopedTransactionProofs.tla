---------------------- MODULE ScopedTransactionProofs -----------------------
(***************************************************************************)
(* Proofs about basic_scoped_transaction, for any number of statements.    *)
(***************************************************************************)
EXTENDS ScopedTransaction, MySQLOpsProofs

Fates == {"new", "pending", "durable", "undone"}

NoEc == "commit(ec)" \notin tried

(* A scope that was not entered saw no statement.                          *)
BeforeInv ==
    scope = "before" =>
        /\ \A s \in Statements : stmt[s] = "new"
        /\ promised = {} /\ ~discarded

(* Inside the scope a lost connection leaves nothing pending, and while    *)
(* commit(ec) was not called a set committed_ leaves nothing pending but   *)
(* the statements that followed the commit, what is durable was asked for, *)
(* and while the connection is up it was promised too.  After the loss of  *)
(* the connection that is not known: a commit may have arrived whose       *)
(* answer was lost.                                                        *)
AskedOnly == \A s \in Statements \ late : stmt[s] = "durable" => s \in asked

Covered ==
    /\ mysql.st # "up" => Pending = {}
    /\ NoEc => (committed_ => Pending \subseteq late) /\ AskedOnly
    /\ NoEc /\ mysql.st = "up" => Exact

ScopeInv == scope = "in" => ~autocommit /\ ~discarded /\ Covered

TInv ==
    /\ TypeOK /\ mysql.st # "raw" /\ BeforeInv /\ ScopeInv
    /\ DurableWithoutEc /\ TerminationIsSafe /\ OnlyAskedIsDurable

-----------------------------------------------------------------------------
(* What becomes of the pending statements in a command that is done, that  *)
(* loses the connection, or that is refused by the library or the server.  *)
CommandDone(h, now, fate, r) ==
    /\ ~r.failed /\ h.st = "up" /\ r.h.st = "up"
    /\ \A s \in Statements : now[s] = "pending" => r.stmt[s] = fate

CommandLost(now, fate, r) ==
    /\ r.failed /\ r.h.st # "up"
    /\ \A s \in Statements :
          now[s] = "pending" => r.stmt[s] \in {"undone", fate} \ {"pending"}

CommandRefused(h, now, r) ==
    /\ r.failed /\ h.st = "up" /\ r.h.st = "up"
    /\ \A s \in Statements :
          now[s] = "pending" => r.stmt[s] \in {"pending", "undone"}

CommandKeeps(now, r) ==
    \A s \in Statements : now[s] # "pending" => r.stmt[s] = now[s]

(* A command that is done found and left the connection up.                *)
LEMMA LibCommandDone ==
    ASSUME NEW h \in Handle, h.st # "raw", NEW o \in LibCommand(h)
    PROVE  /\ o.failed \in BOOLEAN
           /\ ~o.failed => h.st = "up" /\ o.h.st = "up"
<1>0. h.st \in {"init", "up"}
  BY DEF Handle
<1>1. CASE h.st = "init" \/ h.unread \/ h.more > 0
  <2>1. o \in {Refused(h)}
    BY <1>1 DEF LibCommand
  <2> QED
    BY <2>1, RefusedFields
<1>2. CASE ~(h.st = "init" \/ h.unread \/ h.more > 0)
  <2>1. PICK g : g = [h EXCEPT !.columns = FALSE]
    OBVIOUS
  <2>2. g \in Handle
    BY <2>1, ClearedFields
  <2>3. o \in Failures(g) \/ o = Outcome(Answered(h, FALSE, 0), FALSE, FALSE)
    BY <1>2, <2>1 DEF LibCommand
  <2>4. CASE o \in Failures(g)
    BY <2>2, <2>4, FailureFields
  <2>5. CASE o = Outcome(Answered(h, FALSE, 0), FALSE, FALSE)
    <3>1. PICK a : a = Answered(h, FALSE, 0)
      OBVIOUS
    <3>2. o.h = a /\ o.failed = FALSE
      BY <2>5, <3>1 DEF Outcome
    <3> QED
      BY <1>0, <1>2, <3>1, <3>2, DoneFields
  <2> QED
    BY <2>3, <2>4, <2>5
<1> QED
  BY <1>1, <1>2

(* ServerCommand() does one of the three, touches no statement that was    *)
(* not pending, and leaves states of the right types.                      *)
LEMMA CommandFacts ==
    ASSUME NEW h \in Handle, h.st # "raw", NEW now \in [Statements -> Fates],
           NEW fate \in Fates, NEW r \in ServerCommand(h, now, fate)
    PROVE  /\ r.h \in Handle /\ r.h.st # "raw"
           /\ r.stmt \in [Statements -> Fates] /\ r.failed \in BOOLEAN
           /\ CommandKeeps(now, r)
           /\ \/ CommandDone(h, now, fate, r) \/ CommandLost(now, fate, r)
              \/ CommandRefused(h, now, r)
<1> DEFINE settled(f) == [s \in Statements |-> IF now[s] = "pending" THEN f
                                                                     ELSE now[s]]
           fates(o) == IF ~o.failed THEN {fate}
                       ELSE IF o.h.st # "up" THEN {"undone"} \cup ({fate} \ {"pending"})
                       ELSE IF h.unread \/ h.more > 0 THEN {"pending"}
                       ELSE {"pending", "undone"}
<1>1. PICK o \in LibCommand(h) : \E f \in fates(o) :
         r = [h |-> o.h, stmt |-> settled(f), failed |-> o.failed]
  BY DEF ServerCommand
<1>2. PICK f \in fates(o) :
         r = [h |-> o.h, stmt |-> settled(f), failed |-> o.failed]
  BY <1>1
<1>3. /\ r.h = o.h /\ r.stmt = settled(f) /\ r.failed = o.failed
      /\ f \in fates(o)
  BY <1>2
<1>4. /\ o.h \in Handle /\ o.h.st # "raw" /\ (o.h.st = "up" => h.st = "up")
      /\ o.failed \in BOOLEAN
      /\ ~o.failed => h.st = "up" /\ o.h.st = "up"
  BY LibCommandKeeps, LibCommandDone DEF KeepsConnection, KeepsInit
<1>5. f \in Fates
  BY <1>3 DEF Fates
<1>6. /\ settled(f) \in [Statements -> Fates]
      /\ \A s \in Statements : now[s] # "pending" => settled(f)[s] = now[s]
      /\ \A s \in Statements : now[s] = "pending" => settled(f)[s] = f
  BY <1>5
<1>7. CASE ~o.failed
  <2>1. f = fate
    BY <1>3, <1>7
  <2> HIDE DEF settled, fates
  <2> QED
    BY <1>3, <1>4, <1>6, <1>7, <2>1 DEF CommandKeeps, CommandDone
<1>8. CASE o.failed /\ o.h.st # "up"
  <2>1. f \in {"undone", fate} \ {"pending"}
    BY <1>3, <1>8
  <2> HIDE DEF settled, fates
  <2> QED
    BY <1>3, <1>4, <1>6, <1>8, <2>1 DEF CommandKeeps, CommandLost
<1>9. CASE o.failed /\ o.h.st = "up"
  <2>1. f \in {"pending", "undone"}
    BY <1>3, <1>9
  <2> HIDE DEF settled, fates
  <2> QED
    BY <1>3, <1>4, <1>6, <1>9, <2>1 DEF CommandKeeps, CommandRefused
<1> QED
  BY <1>4, <1>7, <1>8, <1>9

(* A call of the user's leaves a handle, and does not bring a lost         *)
(* connection back.                                                        *)
LEMMA CallFacts ==
    ASSUME NEW h \in Handle, h.st # "raw",
           NEW r \in mysql_real_query(h) \cup mysql_store_result(h)
                     \cup mysql_next_result(h)
    PROVE  /\ r.h \in Handle /\ r.h.st # "raw"
           /\ r.h.st = "up" => h.st = "up"
<1>1. r.h \in Handle /\ r.h.st # "raw"
  <2>1. r \in mysql_real_connect(h, TRUE) \cup mysql_real_query(h)
              \cup mysql_store_result(h) \cup mysql_next_result(h)
    OBVIOUS
  <2>2. r \in CallResult /\ KeepsInit(h, r)
    BY <2>1, CallType
  <2> QED
    BY <2>2 DEF CallResult, KeepsInit
<1>2. KeepsConnection(h, r.h)
  BY QueryKeeps, StoreKeeps, NextKeeps
<1> QED
  BY <1>1, <1>2 DEF KeepsConnection

-----------------------------------------------------------------------------
(* The server starts with no statement executed.                           *)
LEMMA InitTInv == Init => TInv
<1> SUFFICES ASSUME Init PROVE TInv
  OBVIOUS
<1>1. PICK m \in BOOLEAN : mysql = [FreshHandle EXCEPT !.st = "up", !.multi = m]
  BY DEF Init
<1>2. mysql \in Handle /\ mysql.st = "up"
  <2> DEFINE u == [FreshHandle EXCEPT !.st = "up"]
  <2>1. u \in Handle /\ u.st = "up"
    BY FreshType, Update_st
  <2>2. mysql = [u EXCEPT !.multi = m]
    BY <1>1
  <2> HIDE DEF u
  <2> QED
    BY <2>1, <2>2, Update_multi
<1>3. TypeOK
  BY <1>2 DEF Init, TypeOK
<1> QED
  BY <1>2, <1>3 DEF Init, TInv, BeforeInv, ScopeInv, DurableWithoutEc,
              DurableIffCommitted, TerminationIsSafe, OnlyAskedIsDurable

(* The constructor executes nothing; when it succeeds autocommit is off.   *)
LEMMA BeginKeeps == TInv /\ Begin => TInv'
<1> SUFFICES ASSUME TInv, Begin PROVE TInv'
  OBVIOUS
<1>1. TypeOK /\ mysql.st # "raw" /\ BeforeInv /\ scope = "before"
  BY DEF TInv, Begin
<1>2. PICK r \in ServerCommand(mysql, stmt, "pending") :
         /\ mysql' = r.h /\ stmt' = r.stmt
         /\ scope' = IF r.failed THEN "before" ELSE "in"
         /\ autocommit' = (autocommit /\ r.failed)
  BY DEF Begin, Server, server_autocommit
<1>3. /\ r.h \in Handle /\ r.h.st # "raw" /\ r.stmt \in [Statements -> Fates]
      /\ r.failed \in BOOLEAN /\ CommandKeeps(stmt, r)
  BY <1>1, CommandFacts DEF TypeOK, Fates
<1>4. \A s \in Statements : stmt'[s] = "new"
  BY <1>1, <1>2, <1>3 DEF BeforeInv, CommandKeeps
<1>5. promised' = {} /\ committed_' = FALSE /\ ~discarded'
  BY <1>1 DEF Begin, BeforeInv
<1>6. TypeOK'
  BY <1>1, <1>2, <1>3 DEF Begin, TypeOK, Fates
<1>7. scope' = "in" => ~autocommit'
  BY <1>1, <1>2, <1>3 DEF TypeOK
<1>8. Covered'
  BY <1>4, <1>5 DEF Covered, AskedOnly, Exact, Pending
<1>9. scope' \in {"before", "in"} /\ mysql'.st # "raw"
  BY <1>2, <1>3
<1>10. OnlyAskedIsDurable'
  BY <1>4 DEF OnlyAskedIsDurable
<1> QED
  BY <1>4, <1>5, <1>6, <1>7, <1>8, <1>9, <1>10
     DEF TInv, BeforeInv, ScopeInv, DurableWithoutEc,
         DurableIffCommitted, TerminationIsSafe

(* What TInv says inside the scope.                                        *)
LEMMA InScope ==
    ASSUME TInv, scope = "in"
    PROVE  TypeOK /\ mysql.st # "raw" /\ ~autocommit /\ ~discarded /\ Covered
BY DEF TInv, ScopeInv

(* Inside the scope only these parts of TInv say something.                *)
LEMMA StayInScope ==
    ASSUME TypeOK', mysql'.st # "raw", scope' = "in", ~autocommit',
           ~discarded', Covered'
    PROVE  TInv'
BY DEF TInv, BeforeInv, ScopeInv, Covered, AskedOnly, NoEc, DurableWithoutEc,
       DurableIffCommitted, TerminationIsSafe, OnlyAskedIsDurable

(* A statement becomes pending, and late if it follows a commit; when the  *)
(* connection is lost, what was pending is undone.                         *)
LEMMA ExecuteKeeps ==
    ASSUME TInv, NEW x \in Statements, Execute(x)
    PROVE  TInv'
<1>1. TypeOK /\ mysql.st # "raw" /\ ~autocommit /\ ~discarded /\ Covered
  BY InScope DEF Execute
<1>2. PICK r \in mysql_real_query(mysql) :
         /\ mysql' = r.h
         /\ stmt' = IF r.h.st # "up" THEN Settle("undone")
                    ELSE IF r.ec # "ok" THEN stmt
                    ELSE [stmt EXCEPT ![x] = IF autocommit THEN "durable"
                                                           ELSE "pending"]
  BY DEF Execute
<1>3. mysql \in Handle
  BY <1>1 DEF TypeOK
<1>4. /\ mysql' \in Handle /\ mysql'.st # "raw"
      /\ mysql'.st = "up" => mysql.st = "up"
  BY <1>1, <1>2, <1>3, CallFacts
<1>5. \/ /\ mysql'.st # "up"
         /\ stmt' = [s \in Statements |-> IF stmt[s] = "pending" THEN "undone"
                                                                 ELSE stmt[s]]
      \/ mysql'.st = "up" /\ stmt' = stmt
      \/ mysql'.st = "up" /\ stmt' = [stmt EXCEPT ![x] = "pending"]
  BY <1>1, <1>2 DEF Settle, Pending
<1>6. /\ scope = "in" /\ scope' = "in" /\ stmt[x] = "new"
      /\ late' = IF committed_ THEN late \cup {x} ELSE late
      /\ UNCHANGED <<autocommit, promised, tried, asked, discarded, scope,
                     committed_>>
  BY DEF Execute
<1>7. TypeOK'
  <2>1. stmt' \in [Statements -> Fates]
    BY <1>1, <1>5 DEF TypeOK, Fates
  <2> QED
    BY <1>1, <1>4, <1>6, <2>1 DEF TypeOK, Fates
<1>8. Covered'
  <2>1. \A s \in Statements : stmt'[s] = "durable" => stmt[s] = "durable"
    BY <1>1, <1>5 DEF TypeOK
  <2>2. \A s \in Statements : stmt[s] = "durable" => stmt'[s] = "durable"
    BY <1>1, <1>5, <1>6 DEF TypeOK
  <2>3. \A s \in Statements : stmt'[s] = "pending" => stmt[s] = "pending" \/ s = x
    BY <1>1, <1>5 DEF TypeOK
  <2>4. (mysql.st # "up" => Pending = {})'
    BY <1>1, <1>5 DEF TypeOK, Pending
  <2>5. ASSUME NoEc' PROVE (committed_ => Pending \subseteq late)' /\ AskedOnly'
    <3>1. (committed_ => Pending \subseteq late) /\ AskedOnly
      BY <1>1, <1>6, <2>5 DEF Covered, NoEc
    <3>2. (committed_ => Pending \subseteq late)'
      BY <1>6, <2>3, <3>1 DEF Pending
    <3>3. AskedOnly'
      BY <1>6, <2>1, <3>1 DEF AskedOnly
    <3> QED
      BY <3>2, <3>3
  <2>6. ASSUME NoEc', mysql'.st = "up" PROVE Exact'
    <3>1. Exact
      BY <1>1, <1>4, <1>6, <2>6 DEF Covered, NoEc
    <3> QED
      BY <1>6, <2>1, <2>2, <3>1 DEF Exact
  <2> QED
    BY <2>4, <2>5, <2>6 DEF Covered
<1> QED
  BY <1>1, <1>4, <1>6, <1>7, <1>8, StayInScope

(* Storing a result changes no statement unless the connection is lost.    *)
LEMMA StoreResultKeeps == TInv /\ StoreResult => TInv'
<1> SUFFICES ASSUME TInv, StoreResult PROVE TInv'
  OBVIOUS
<1>1. TypeOK /\ mysql.st # "raw" /\ ~autocommit /\ ~discarded /\ Covered
  BY InScope DEF StoreResult
<1>2. PICK r \in mysql_store_result(mysql) \cup mysql_next_result(mysql) :
         /\ mysql' = r.h
         /\ stmt' = IF r.h.st # "up" THEN Settle("undone") ELSE stmt
  BY DEF StoreResult
<1>3. mysql \in Handle
  BY <1>1 DEF TypeOK
<1>4. /\ mysql' \in Handle /\ mysql'.st # "raw"
      /\ mysql'.st = "up" => mysql.st = "up"
  BY <1>1, <1>2, <1>3, CallFacts
<1>5. \/ /\ mysql'.st # "up"
         /\ stmt' = [s \in Statements |-> IF stmt[s] = "pending" THEN "undone"
                                                                 ELSE stmt[s]]
      \/ mysql'.st = "up" /\ stmt' = stmt
  BY <1>1, <1>2 DEF Settle, Pending
<1>6. /\ scope = "in" /\ scope' = "in"
      /\ UNCHANGED <<autocommit, promised, tried, asked, discarded, late, scope,
                     committed_>>
  BY DEF StoreResult
<1>7. TypeOK'
  <2>1. stmt' \in [Statements -> Fates]
    BY <1>1, <1>5 DEF TypeOK, Fates
  <2> QED
    BY <1>1, <1>4, <1>6, <2>1 DEF TypeOK, Fates
<1>8. Covered'
  <2>1. \A s \in Statements : stmt'[s] = "durable" <=> stmt[s] = "durable"
    BY <1>1, <1>5 DEF TypeOK
  <2>2. \A s \in Statements : stmt'[s] = "pending" => stmt[s] = "pending"
    BY <1>1, <1>5 DEF TypeOK
  <2>3. (mysql.st # "up" => Pending = {})'
    BY <1>1, <1>5 DEF TypeOK, Pending
  <2> QED
    BY <1>1, <1>4, <1>6, <2>1, <2>2, <2>3
       DEF Covered, NoEc, AskedOnly, Exact, Pending
<1> QED
  BY <1>1, <1>4, <1>6, <1>7, <1>8, StayInScope

(* A commit that is done leaves nothing pending; one that fails makes      *)
(* nothing durable, or loses the connection.                               *)
LEMMA CommitKeeps ==
    ASSUME TInv, NEW overload \in {"commit()", "commit(ec)"},
           NEW done \in BOOLEAN, NEW failed \in BOOLEAN,
           overload = "commit()" => done = TRUE /\ failed = committed_,
           Commit(overload, done, failed)
    PROVE  TInv'
<1>1. TypeOK /\ mysql.st # "raw" /\ ~autocommit /\ ~discarded /\ Covered
  BY InScope DEF Commit
<1>2. PICK r \in ServerCommand(mysql, stmt, "durable") :
         /\ mysql' = r.h /\ stmt' = r.stmt
         /\ promised' = IF r.failed THEN promised ELSE promised \cup Pending
         /\ committed_' = IF r.failed THEN failed ELSE done
  BY DEF Commit, Server, server_commit
<1>3. /\ r.h \in Handle /\ r.h.st # "raw" /\ r.stmt \in [Statements -> Fates]
      /\ r.failed \in BOOLEAN /\ CommandKeeps(stmt, r)
      /\ \/ CommandDone(mysql, stmt, "durable", r)
         \/ CommandLost(stmt, "durable", r) \/ CommandRefused(mysql, stmt, r)
  BY <1>1, CommandFacts DEF TypeOK, Fates
<1>4. /\ scope' = "in" /\ tried' = tried \cup {overload}
      /\ asked' = asked \cup Pending /\ UNCHANGED <<autocommit, discarded, late>>
  BY DEF Commit
<1>5. TypeOK'
  <2>1. promised' \subseteq Statements /\ committed_' \in BOOLEAN
        /\ asked' \subseteq Statements
    BY <1>1, <1>2, <1>3, <1>4 DEF TypeOK, Pending
  <2> QED
    BY <1>1, <1>2, <1>3, <1>4, <2>1 DEF TypeOK, Fates
<1>6. \A s \in Statements :
         /\ stmt'[s] = "durable" => stmt[s] = "durable" \/ s \in Pending
         /\ stmt[s] = "durable" => stmt'[s] = "durable"
         /\ stmt'[s] = "pending" => CommandRefused(mysql, stmt, r) /\ s \in Pending
  BY <1>2, <1>3 DEF Pending, CommandKeeps, CommandDone, CommandLost, Fates
<1>7. (mysql.st # "up" => Pending = {})'
  BY <1>2, <1>6 DEF Pending, CommandRefused
<1>8. ASSUME NoEc' PROVE (committed_ => Pending \subseteq late)' /\ AskedOnly'
  <2>1. NoEc /\ overload = "commit()"
    BY <1>4, <1>8 DEF NoEc
  <2>2. (committed_ => Pending \subseteq late) /\ AskedOnly
    BY <1>1, <2>1 DEF Covered
  <2>3. AskedOnly'
    BY <1>4, <1>6, <2>2 DEF AskedOnly
  <2>4. CASE CommandRefused(mysql, stmt, r)
    <3>1. committed_' = committed_
      BY <1>2, <2>1, <2>4 DEF CommandRefused
    <3>2. Pending' \subseteq Pending
      BY <1>6 DEF Pending
    <3> QED
      BY <1>4, <2>2, <2>3, <3>1, <3>2
  <2>5. CASE ~CommandRefused(mysql, stmt, r)
    <3>1. Pending' = {}
      BY <1>6, <2>5 DEF Pending
    <3> QED
      BY <2>3, <3>1
  <2> QED
    BY <2>4, <2>5
<1>9. ASSUME NoEc', mysql'.st = "up" PROVE Exact'
  <2>1. NoEc
    BY <1>4, <1>9 DEF NoEc
  <2>2. ~CommandLost(stmt, "durable", r) /\ mysql.st = "up"
    BY <1>2, <1>3, <1>9 DEF CommandDone, CommandLost, CommandRefused
  <2>3. Exact
    BY <1>1, <2>1, <2>2 DEF Covered
  <2>4. CASE CommandDone(mysql, stmt, "durable", r)
    <3>1. promised' = promised \cup Pending
      BY <1>2, <2>4 DEF CommandDone
    <3>2. \A s \in Statements : stmt'[s] = "durable" <=>
             stmt[s] = "durable" \/ s \in Pending
      BY <1>2, <1>6, <2>4 DEF Pending, CommandDone
    <3>3. Pending \subseteq Statements
      BY DEF Pending
    <3> QED
      BY <1>4, <2>3, <3>1, <3>2, <3>3 DEF Exact
  <2>5. CASE CommandRefused(mysql, stmt, r)
    <3>1. promised' = promised
      BY <1>2, <2>5 DEF CommandRefused
    <3>2. \A s \in Statements : stmt'[s] = "durable" <=> stmt[s] = "durable"
      BY <1>2, <1>3, <2>5 DEF CommandRefused, CommandKeeps
    <3> QED
      BY <1>4, <2>3, <3>1, <3>2 DEF Exact
  <2> QED
    BY <1>3, <2>2, <2>4, <2>5
<1>10. Covered'
  BY <1>7, <1>8, <1>9 DEF Covered
<1> QED
  BY <1>1, <1>2, <1>3, <1>4, <1>5, <1>10, StayInScope

(* rollback() makes nothing durable; refused, it leaves what was pending.  *)
LEMMA RollbackKeeps == TInv /\ rollback => TInv'
<1> SUFFICES ASSUME TInv, rollback PROVE TInv'
  OBVIOUS
<1>1. TypeOK /\ mysql.st # "raw" /\ ~autocommit /\ ~discarded /\ Covered
  BY InScope DEF rollback
<1>2. PICK r \in ServerCommand(mysql, stmt, "undone") :
         mysql' = r.h /\ stmt' = r.stmt
  BY DEF rollback, Server, server_rollback
<1>3. /\ r.h \in Handle /\ r.h.st # "raw" /\ r.stmt \in [Statements -> Fates]
      /\ r.failed \in BOOLEAN /\ CommandKeeps(stmt, r)
      /\ \/ CommandDone(mysql, stmt, "undone", r)
         \/ CommandLost(stmt, "undone", r) \/ CommandRefused(mysql, stmt, r)
  BY <1>1, CommandFacts DEF TypeOK, Fates
<1>4. /\ scope' = "in"
      /\ UNCHANGED <<autocommit, promised, tried, asked, discarded, late,
                     committed_>>
  BY DEF rollback
<1>5. TypeOK'
  BY <1>1, <1>2, <1>3, <1>4 DEF TypeOK, Fates
<1>6. \A s \in Statements :
         /\ stmt'[s] = "durable" <=> stmt[s] = "durable"
         /\ stmt'[s] = "pending" => s \in Pending
  BY <1>2, <1>3 DEF Pending, CommandKeeps, CommandDone, CommandLost, CommandRefused
<1>7. (mysql.st # "up" => Pending = {})'
  BY <1>2, <1>3 DEF Pending, CommandKeeps, CommandDone, CommandLost, CommandRefused
<1>8. mysql'.st = "up" => mysql.st = "up"
  BY <1>2, <1>3 DEF CommandDone, CommandLost, CommandRefused
<1>9. Covered'
  BY <1>1, <1>4, <1>6, <1>7, <1>8 DEF Covered, NoEc, AskedOnly, Exact, Pending
<1> QED
  BY <1>1, <1>2, <1>3, <1>4, <1>5, <1>9, StayInScope

(* Turning autocommit on commits what is pending: that is right when only  *)
(* late statements are; refused, it makes nothing durable.                 *)
LEMMA RestoreKeeps ==
    ASSUME TypeOK, NEW h \in Handle, h.st # "raw",
           NEW now \in [Statements -> Fates],
           NoEc => \A s \in Statements \ late : now[s] = "durable" => s \in asked,
           NoEc /\ h.st = "up" =>
              \A s \in Statements \ late : now[s] = "durable" <=> s \in promised,
           NoEc /\ ~discarded' =>
              \A s \in Statements : now[s] = "pending" => s \in late,
           Restore(h, now), UNCHANGED <<promised, tried, asked, late, committed_>>,
           discarded' \in BOOLEAN
    PROVE  TInv'
<1>1. PICK r \in ServerCommand(h, now, "durable") :
         /\ mysql' = r.h /\ stmt' = r.stmt
         /\ autocommit' = (autocommit \/ ~r.failed)
         /\ scope' = IF r.failed THEN "terminated" ELSE "left"
  BY DEF Restore, Server, server_autocommit
<1>2. /\ r.h \in Handle /\ r.h.st # "raw" /\ r.stmt \in [Statements -> Fates]
      /\ r.failed \in BOOLEAN /\ CommandKeeps(now, r)
      /\ \/ CommandDone(h, now, "durable", r) \/ CommandLost(now, "durable", r)
         \/ CommandRefused(h, now, r)
  BY CommandFacts DEF Fates
<1>3. TypeOK' /\ mysql'.st # "raw"
  BY <1>1, <1>2 DEF TypeOK, Fates
<1>4. scope' \in {"terminated", "left"}
  BY <1>1
<1>5. \A s \in Statements :
         stmt'[s] = "durable" => now[s] = "durable" \/ now[s] = "pending"
  BY <1>1, <1>2 DEF CommandKeeps
<1>6. OnlyAskedIsDurable'
  BY <1>5 DEF OnlyAskedIsDurable, NoEc
<1>7. DurableWithoutEc'
  <2> SUFFICES ASSUME NoEc', scope' = "left", ~discarded' PROVE Exact'
    BY DEF DurableWithoutEc, DurableIffCommitted, NoEc
  <2>1. h.st = "up"
    BY <1>1, <1>2 DEF CommandDone, CommandLost, CommandRefused
  <2>2. \A s \in Statements \ late :
           now[s] # "pending" /\ (now[s] = "durable" <=> s \in promised)
    BY <2>1 DEF NoEc
  <2> QED
    BY <1>1, <1>2, <2>2 DEF Exact, CommandKeeps
<1>8. TerminationIsSafe'
  <2> SUFFICES ASSUME scope' = "terminated", mysql'.st = "up", NoEc'
               PROVE  Exact'
    BY DEF TerminationIsSafe, NoEc
  <2>1. CommandRefused(h, now, r) /\ h.st = "up"
    BY <1>1, <1>2 DEF CommandDone, CommandLost, CommandRefused
  <2>2. \A s \in Statements : stmt'[s] = "durable" <=> now[s] = "durable"
    BY <1>1, <1>2, <2>1 DEF CommandRefused, CommandKeeps
  <2> QED
    BY <2>1, <2>2 DEF Exact, NoEc
<1> QED
  BY <1>3, <1>4, <1>6, <1>7, <1>8 DEF TInv, BeforeInv, ScopeInv

(* The destructor rolls back first, unless committed_ is set.              *)
LEMMA EndKeeps == TInv /\ End => TInv'
<1> SUFFICES ASSUME TInv, End PROVE TInv'
  OBVIOUS
<1>1. TypeOK /\ mysql.st # "raw" /\ ~autocommit /\ ~discarded /\ Covered
  BY InScope DEF End
<1>2. UNCHANGED <<promised, tried, asked, late, committed_>>
  BY DEF End
<1>3. mysql \in Handle /\ stmt \in [Statements -> Fates]
  BY <1>1 DEF TypeOK, Fates
<1>4. CASE committed_
  <2>1. Restore(mysql, stmt) /\ discarded' = discarded
    BY <1>4 DEF End
  <2>2. NoEc => \A s \in Statements \ late : stmt[s] = "durable" => s \in asked
    BY <1>1 DEF Covered, AskedOnly
  <2>3. NoEc /\ mysql.st = "up" =>
           \A s \in Statements \ late : stmt[s] = "durable" <=> s \in promised
    BY <1>1 DEF Covered, Exact
  <2>4. NoEc => \A s \in Statements : stmt[s] = "pending" => s \in late
    BY <1>1, <1>4 DEF Covered, Pending
  <2>5. discarded' \in BOOLEAN
    BY <1>1, <2>1 DEF TypeOK
  <2> QED
    BY <1>1, <1>2, <1>3, <2>1, <2>2, <2>3, <2>4, <2>5, RestoreKeeps
<1>5. CASE ~committed_
  <2>1. PICK r \in ServerCommand(mysql, stmt, "undone") :
           Restore(r.h, r.stmt) /\ discarded' = (r.failed /\ r.h.st = "up")
    BY <1>5 DEF End, server_rollback
  <2>2. /\ r.h \in Handle /\ r.h.st # "raw" /\ r.stmt \in [Statements -> Fates]
        /\ r.failed \in BOOLEAN /\ CommandKeeps(stmt, r)
        /\ \/ CommandDone(mysql, stmt, "undone", r)
           \/ CommandLost(stmt, "undone", r) \/ CommandRefused(mysql, stmt, r)
    BY <1>1, <1>3, CommandFacts DEF Fates
  <2>3. \A s \in Statements : r.stmt[s] = "durable" <=> stmt[s] = "durable"
    BY <2>2 DEF CommandKeeps, CommandDone, CommandLost, CommandRefused
  <2>4. ~discarded' => \A s \in Statements : r.stmt[s] # "pending"
    BY <2>1, <2>2 DEF CommandKeeps, CommandDone, CommandLost, CommandRefused
  <2>5. NoEc => \A s \in Statements \ late : r.stmt[s] = "durable" => s \in asked
    BY <1>1, <2>3 DEF Covered, AskedOnly
  <2>6. NoEc /\ r.h.st = "up" =>
           \A s \in Statements \ late : r.stmt[s] = "durable" <=> s \in promised
    <3>1. r.h.st = "up" => mysql.st = "up"
      BY <2>2 DEF CommandDone, CommandLost, CommandRefused
    <3> QED
      BY <1>1, <2>3, <3>1 DEF Covered, Exact
  <2>7. discarded' \in BOOLEAN
    BY <2>1, <2>2
  <2> QED
    BY <1>1, <1>2, <2>1, <2>2, <2>4, <2>5, <2>6, <2>7, RestoreKeeps
<1> QED
  BY <1>4, <1>5

-----------------------------------------------------------------------------
(* TInv is inductive.                                                      *)
LEMMA NextTInv == TInv /\ [Next]_vars => TInv'
<1> SUFFICES ASSUME TInv, [Next]_vars PROVE TInv'
  OBVIOUS
<1>1. CASE commit
  <2>1. committed_ \in BOOLEAN
    BY DEF TInv, TypeOK
  <2> QED
    BY <1>1, <2>1, CommitKeeps DEF commit
<1>2. CASE commit_ec
  BY <1>2, CommitKeeps DEF commit_ec
<1>3. CASE UNCHANGED vars
  BY <1>3 DEF vars, TInv, TypeOK, BeforeInv, ScopeInv, Covered, AskedOnly,
              NoEc, Exact, Pending, DurableWithoutEc, DurableIffCommitted,
              TerminationIsSafe, OnlyAskedIsDurable
<1> QED
  BY <1>1, <1>2, <1>3, BeginKeeps, ExecuteKeeps, StoreResultKeeps,
     RollbackKeeps, EndKeeps DEF Next

(* The invariant of the scope holds in every reachable state.              *)
THEOREM Invariant == Spec => []TInv
BY InitTInv, NextTInv, PTL DEF Spec

(* The types are right: a constructor that throws leaves no scope behind.  *)
THEOREM TypeCorrect == Spec => []TypeOK
<1>1. TInv => TypeOK
  BY DEF TInv
<1> QED
  BY <1>1, Invariant, PTL

(* However many statements the scope has, and whatever the library and the *)
(* server refuse: a scope that was left without commit(ec) made durable    *)
(* what its commits covered and nothing else, the statements after a       *)
(* commit and a discarded error of the destructor's rollback apart.        *)
THEOREM ScopeIsExact == Spec => []DurableWithoutEc
<1>1. TInv => DurableWithoutEc
  BY DEF TInv
<1> QED
  BY <1>1, Invariant, PTL

(* A destructor that terminates the program while the connection is up has *)
(* made nothing durable that no commit covered.                            *)
THEOREM TerminationSafe == Spec => []TerminationIsSafe
<1>1. TInv => TerminationIsSafe
  BY DEF TInv
<1> QED
  BY <1>1, Invariant, PTL

(* Wherever the connection is lost, nothing becomes durable that the user  *)
(* never asked to commit, with the same exceptions.                        *)
THEOREM NothingUnasked == Spec => []OnlyAskedIsDurable
<1>1. TInv => OnlyAskedIsDurable
  BY DEF TInv
<1> QED
  BY <1>1, Invariant, PTL
=============================================================================
