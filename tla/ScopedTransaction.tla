------------------------- MODULE ScopedTransaction --------------------------
(***************************************************************************)
(* basic_scoped_transaction: a scope that turns autocommit off when it is  *)
(* entered, and that rolls back what was not committed and turns           *)
(* autocommit on again when it is left.  The calls are those of MySQLOps;  *)
(* the server's transaction behind them is external: a statement is        *)
(* pending until it is committed or rolled back, turning autocommit on     *)
(* commits what is pending, and a lost connection rolls it back.           *)
(***************************************************************************)
EXTENDS MySQLOps

CONSTANT Statements         \* statements that the user executes in the scope

VARIABLES
    mysql,          \* the handle of the open connector
    autocommit,     \* the server's autocommit mode
    stmt,           \* [Statements -> what the server did with it]
    promised,       \* statements covered by a commit reported as done
    tried,          \* history: the overloads of commit() that were called
    asked,          \* history: statements that were pending at a commit
    discarded,      \* history: the destructor's rollback failed on a live
                    \* connection, and its error was discarded
    late,           \* history: statements executed while committed_ was set
    scope,          \* "before", "in", "left" or "terminated"
    committed_      \* basic_scoped_transaction::committed_

vars == <<mysql, autocommit, stmt, promised, tried, asked, discarded, late,
          scope, committed_>>

TypeOK ==
    /\ mysql \in Handle
    /\ autocommit \in BOOLEAN
    /\ stmt \in [Statements -> {"new", "pending", "durable", "undone"}]
    /\ promised \subseteq Statements
    /\ tried \subseteq {"commit()", "commit(ec)"}
    /\ asked \subseteq Statements
    /\ discarded \in BOOLEAN
    /\ late \subseteq Statements
    /\ scope \in {"before", "in", "left", "terminated"}
    /\ committed_ \in BOOLEAN

Init ==
    /\ \E m \in BOOLEAN : mysql = [FreshHandle EXCEPT !.st = "up", !.multi = m]
    /\ autocommit = TRUE
    /\ stmt = [s \in Statements |-> "new"]
    /\ promised = {} /\ tried = {} /\ asked = {} /\ late = {}
    /\ discarded = FALSE
    /\ scope = "before"
    /\ committed_ = FALSE

Pending == {s \in Statements : stmt[s] = "pending"}

Settle(fate) == [s \in Statements |-> IF s \in Pending THEN fate ELSE stmt[s]]

-----------------------------------------------------------------------------
(***************************************************************************)
(* autocommit(), commit() and rollback() are the library's command, and    *)
(* what becomes of the pending statements: their fate if it is done; if    *)
(* the connection is lost on the way there or back they are rolled back,   *)
(* or the command had arrived; a command that the library refuses, because *)
(* results are still to be read, leaves them; one that the server refuses  *)
(* leaves them or has rolled them back.                                    *)
(***************************************************************************)
ServerCommand(h, now, fate) ==
    LET settled(f) == [s \in Statements |-> IF now[s] = "pending" THEN f
                                                                  ELSE now[s]]
        fates(r) == IF ~r.failed THEN {fate}
                    ELSE IF r.h.st # "up" THEN {"undone"} \cup ({fate} \ {"pending"})
                    ELSE IF h.unread \/ h.more > 0 THEN {"pending"}
                    ELSE {"pending", "undone"}
    IN  UNION {{[h |-> r.h, stmt |-> settled(f), failed |-> r.failed] :
                   f \in fates(r)} : r \in LibCommand(h)}

server_autocommit(h, now, mode) ==
    ServerCommand(h, now, IF mode THEN "durable" ELSE "pending")

server_commit(h, now) == ServerCommand(h, now, "durable")

server_rollback(h, now) == ServerCommand(h, now, "undone")

Server(r) == mysql' = r.h /\ stmt' = r.stmt

-----------------------------------------------------------------------------
(* Mutant: a constructor that throws leaves half a scope behind.           *)
Begin_half ==
    /\ scope = "before"
    /\ \E r \in server_autocommit(mysql, stmt, FALSE) :
          /\ Server(r)
          /\ scope' = IF r.failed THEN "half" ELSE "in"
          /\ autocommit' = (autocommit /\ r.failed)
    /\ committed_' = FALSE
    /\ UNCHANGED <<promised, tried, asked, discarded, late>>

(* Mutant: a constructor that leaves autocommit on.                        *)
Begin_autocommit ==
    /\ scope = "before"
    /\ scope' = "in"
    /\ committed_' = FALSE
    /\ UNCHANGED <<mysql, stmt, autocommit, promised, tried, asked, discarded,
                   late>>

(* The constructor; when it throws there is no scope.                      *)
Begin ==
    /\ scope = "before"
    /\ \E r \in server_autocommit(mysql, stmt, FALSE) :
          /\ Server(r)
          /\ scope' = IF r.failed THEN "before" ELSE "in"
          /\ autocommit' = (autocommit /\ r.failed)
    /\ committed_' = FALSE
    /\ UNCHANGED <<promised, tried, asked, discarded, late>>

(* A statement of the user's, before a commit or after it; it may leave a  *)
(* result to be stored.                                                    *)
Execute(s) ==
    /\ scope = "in" /\ stmt[s] = "new"
    /\ \E r \in mysql_real_query(mysql) :
          /\ mysql' = r.h
          /\ stmt' = IF r.h.st # "up" THEN Settle("undone")
                     ELSE IF r.ec # "ok" THEN stmt
                     ELSE [stmt EXCEPT ![s] = IF autocommit THEN "durable"
                                                            ELSE "pending"]
    /\ late' = IF committed_ THEN late \cup {s} ELSE late
    /\ UNCHANGED <<autocommit, promised, tried, asked, discarded, scope,
                   committed_>>

(* The user reads the results of a statement.                              *)
StoreResult ==
    /\ scope = "in" /\ (mysql.unread \/ mysql.more > 0)
    /\ \E r \in IF mysql.unread THEN mysql_store_result(mysql)
                                ELSE mysql_next_result(mysql) :
          /\ mysql' = r.h
          /\ stmt' = IF r.h.st # "up" THEN Settle("undone") ELSE stmt
    /\ UNCHANGED <<autocommit, promised, tried, asked, discarded, late, scope,
                   committed_>>

(* committed_ becomes done or failed, as the commit went.                  *)
Commit(overload, done, failed) ==
    /\ scope = "in"
    /\ \E r \in server_commit(mysql, stmt) :
          /\ Server(r)
          /\ promised' = IF r.failed THEN promised ELSE promised \cup Pending
          /\ committed_' = IF r.failed THEN failed ELSE done
    /\ tried' = tried \cup {overload}
    /\ asked' = asked \cup Pending
    /\ UNCHANGED <<autocommit, discarded, late, scope>>

(* Mutant: committed_ is set before the commit is tried.                   *)
commit_early == Commit("commit()", TRUE, TRUE)

(* commit() throws before it gets to set committed_.                       *)
commit == Commit("commit()", TRUE, committed_)

(* commit(ec): committed_ = !!ec.                                          *)
commit_ec == Commit("commit(ec)", FALSE, TRUE)

rollback ==
    /\ scope = "in"
    /\ \E r \in server_rollback(mysql, stmt) : Server(r)
    /\ UNCHANGED <<autocommit, promised, tried, asked, discarded, late, scope,
                   committed_>>

(* The end of the destructor: when autocommit(true) throws, the program is *)
(* terminated.                                                             *)
Restore(h, now) ==
    \E r \in server_autocommit(h, now, TRUE) :
       /\ Server(r)
       /\ autocommit' = (autocommit \/ ~r.failed)
       /\ scope' = IF r.failed THEN "terminated" ELSE "left"

(* Mutant: a destructor that does not roll back.                           *)
End_without_rollback ==
    /\ scope = "in"
    /\ Restore(mysql, stmt)
    /\ UNCHANGED <<promised, tried, asked, discarded, late, committed_>>

(* The destructor: the error of its rollback is discarded, and autocommit  *)
(* is turned on all the same.                                              *)
End ==
    /\ scope = "in"
    /\ IF committed_
       THEN Restore(mysql, stmt) /\ UNCHANGED discarded
       ELSE \E r \in server_rollback(mysql, stmt) :
               /\ Restore(r.h, r.stmt)
               /\ discarded' = (r.failed /\ r.h.st = "up")
    /\ UNCHANGED <<promised, tried, asked, late, committed_>>

Next ==
    \/ Begin \/ StoreResult \/ commit \/ commit_ec \/ rollback \/ End
    \/ \E s \in Statements : Execute(s)

Spec == Init /\ [][Next]_vars

-----------------------------------------------------------------------------
(* What is durable is what a successful commit covered.  Statements that   *)
(* are executed after a commit, in the same scope, are another matter:     *)
(* committed_ stays set, and the destructor commits them.                  *)
Exact == \A s \in Statements \ late : stmt[s] = "durable" <=> s \in promised

(* When the scope was left, what is durable is what a successful commit    *)
(* covered: the destructor, which turns autocommit on and thereby commits, *)
(* has rolled back the rest before, unless it discarded the error of its   *)
(* rollback.                                                               *)
DurableIffCommitted == scope = "left" /\ ~discarded => Exact

(* With commit(), which throws, that is so, however often it is called, is *)
(* refused by the library or the server and is followed by more            *)
(* statements.                                                             *)
DurableWithoutEc == "commit(ec)" \notin tried => DurableIffCommitted

(* A destructor that terminates the program with the connection up,        *)
(* because the library or the server refuses autocommit(true), has         *)
(* committed nothing on the way: what is durable is what commit() covered, *)
(* whether its rollback was refused too or not.                            *)
TerminationIsSafe ==
    scope = "terminated" /\ mysql.st = "up" /\ "commit(ec)" \notin tried => Exact

(* Wherever the connection is lost, in a commit whose answer never came or *)
(* in the middle of the destructor, no statement becomes durable that the  *)
(* user never asked to commit, unless the destructor discarded the error   *)
(* of its rollback on a live connection.                                   *)
OnlyAskedIsDurable ==
    "commit(ec)" \notin tried /\ ~discarded =>
        \A s \in Statements \ late : stmt[s] = "durable" => s \in asked
=============================================================================
