---------------------------- MODULE MySqlClient -----------------------------
(***************************************************************************)
(* mysql_client of src/wjp/mysql_client.hpp as mysql_client_pool uses it:   *)
(* one client runs one request after the other, each a plain query or a     *)
(* statement that is executed for every row of parameters, inside           *)
(* begin/commit or not.  After a request the pool keeps the client unless   *)
(* getConnState() says the connection is gone.  Each call to the server     *)
(* succeeds, fails, or fails because the connection broke (then the server  *)
(* rolls back what is not committed, but may have done what it was asked).  *)
(***************************************************************************)
EXTENDS Integers, Sequences

CONSTANTS
    SqlReqs,     \* requests
    SqlMixes     \* what they may be: functions to records with the fields form
                 \* ("query", "select" or "statement"), transaction, and rows (a
                 \* sequence that tells whether a row has paramCols parameters)

VARIABLES
    sqlMix,      \* the requests
    sqlLink,     \* the connection: "none", "up", "broken"
    connState,   \* _connState
    sqlOpen, sqlPending, \* server: a transaction is open on the connection; its writes
    sqlTable,    \* server: the committed writes <<request, row>>, in order
    sqlPc, sqlReq, sqlRow,  \* the call in progress, its request and row
    sqlRc,       \* return codes; NotRun before
    sqlDoubt     \* requests whose commit or rollback was not confirmed

sqlVars == <<sqlMix, sqlLink, connState, sqlOpen, sqlPending, sqlTable,
             sqlPc, sqlReq, sqlRow, sqlRc, sqlDoubt>>

NotRun == 100
QueryError == 1

SqlInit ==
    /\ sqlMix \in SqlMixes
    /\ sqlLink = "none" /\ connState = FALSE
    /\ sqlOpen = FALSE /\ sqlPending = <<>> /\ sqlTable = <<>>
    /\ sqlPc = "idle" /\ sqlReq = 0 /\ sqlRow = 0
    /\ sqlRc = [r \in SqlReqs |-> NotRun] /\ sqlDoubt = {}

\* validParams: the rows with paramCols parameters; a query has one "row".
ValidRows(r) ==
    LET rows == sqlMix[r].rows IN
    IF sqlMix[r].form # "statement" THEN <<1>> ELSE SelectSeq([i \in DOMAIN rows |-> i], LAMBDA i : rows[i])

Writes(r) == [i \in DOMAIN ValidRows(r) |-> <<r, ValidRows(r)[i]>>]

-----------------------------------------------------------------------------
(* How a call to the server can go wrong.                                  *)

\* flushConnState() sees the error: lost connections only.
Lose(seen) ==
    /\ sqlLink' = "broken" /\ connState' = (connState /\ ~seen)
    /\ sqlOpen' = FALSE /\ sqlPending' = <<>>

\* On a broken connection every call fails as lost.
Answers(outcome) == sqlLink = "broken" => outcome = "lost"

Verdict_Commit(r) == "commit"

Verdict(r) == IF sqlRc'[r] = 0 THEN "commit" ELSE "rollback"

\* exit: a transaction is committed or rolled back unless "begin;" failed.
Leave(rc) ==
    /\ sqlRc' = [sqlRc EXCEPT ![sqlReq] = rc]
    /\ sqlPc' = IF sqlMix[sqlReq].transaction /\ rc # -2 THEN Verdict(sqlReq) ELSE "done"

-----------------------------------------------------------------------------
(* The pool.                                                               *)

\* getIdleClient(): a new client connects, or fails to.
SqlConnect ==
    /\ sqlPc = "idle" /\ sqlLink = "none"
    /\ sqlLink' = "up" /\ connState' = TRUE
    /\ UNCHANGED <<sqlMix, sqlOpen, sqlPending, sqlTable, sqlPc, sqlReq, sqlRow, sqlRc, sqlDoubt>>

\* handleRequest() enters execQuery() or execStatement().
SqlHandle(r) ==
    /\ sqlPc = "idle" /\ connState /\ sqlRc[r] = NotRun
    /\ sqlReq' = r /\ sqlRow' = 1
    /\ sqlPc' = IF sqlMix[r].transaction THEN "begin"
                ELSE CASE sqlMix[r].form = "query" -> "execute"
                       [] sqlMix[r].form = "select" -> "select"
                       [] sqlMix[r].form = "statement" -> "prepare"
    /\ UNCHANGED <<sqlMix, sqlLink, connState, sqlOpen, sqlPending, sqlTable, sqlRc, sqlDoubt>>

\* worker(): the client is idle again, or closeClient() when it is not connected.
SqlGiveBack ==
    /\ sqlPc = "done" /\ sqlPc' = "idle"
    /\ IF connState THEN UNCHANGED <<sqlLink, sqlOpen, sqlPending>>
       ELSE sqlLink' = "none" /\ sqlOpen' = FALSE /\ sqlPending' = <<>>
    /\ UNCHANGED <<sqlMix, connState, sqlTable, sqlReq, sqlRow, sqlRc, sqlDoubt>>

-----------------------------------------------------------------------------
(* execQuery()/rawQuery() and execStatement().                             *)

\* "begin;" commits what an open transaction has pending.
SqlBegin ==
    /\ sqlPc = "begin"
    /\ \E outcome \in {"ok", "fails", "lost"}, did \in BOOLEAN :
         /\ Answers(outcome) /\ (outcome = "ok" => did) /\ (outcome = "fails" => ~did)
         /\ sqlTable' = IF did /\ sqlOpen THEN sqlTable \o sqlPending ELSE sqlTable
         /\ CASE outcome = "ok" -> /\ sqlOpen' = TRUE /\ sqlPending' = <<>>
                                   /\ sqlPc' = IF sqlMix[sqlReq].form = "query" THEN "execute" ELSE "prepare"
                                   /\ UNCHANGED <<sqlLink, connState, sqlRc>>
              [] outcome = "fails" -> Leave(-2) /\ UNCHANGED <<sqlLink, connState, sqlOpen, sqlPending>>
              [] outcome = "lost" -> Leave(-2) /\ Lose(TRUE)
    /\ UNCHANGED <<sqlMix, sqlReq, sqlRow, sqlDoubt>>

\* mysql_stmt_init() (-3), mysql_stmt_prepare() (-4), and no valid row (-11).
SqlPrepare ==
    /\ sqlPc = "prepare"
    /\ \/ Leave(-3) /\ UNCHANGED <<sqlLink, connState, sqlOpen, sqlPending>>
       \/ Answers("fails") /\ Leave(-4) /\ UNCHANGED <<sqlLink, connState, sqlOpen, sqlPending>>
       \/ Leave(-4) /\ Lose(TRUE)
       \/ /\ Answers("ok")
          /\ IF ValidRows(sqlReq) = <<>> THEN Leave(-11) ELSE sqlPc' = "execute" /\ UNCHANGED sqlRc
          /\ UNCHANGED <<sqlLink, connState, sqlOpen, sqlPending>>
    /\ UNCHANGED <<sqlMix, sqlTable, sqlReq, sqlRow, sqlDoubt>>

\* The server's part of an execution: the write is pending or committed at once.
Apply(did) ==
    LET w == IF did THEN <<Writes(sqlReq)[sqlRow]>> ELSE <<>> IN
    /\ sqlTable' = IF sqlOpen THEN sqlTable ELSE sqlTable \o w
    /\ sqlPending' = IF sqlOpen THEN sqlPending \o w ELSE sqlPending

\* One row: bind (-5, -6), execute (-7, -10), then the result set (-8, -9): an
\* error there is not shown to flushConnState().  execQuery() returns 1.
SqlExecute ==
    LET fail == IF sqlMix[sqlReq].form = "query" THEN QueryError ELSE -7
        late == IF sqlMix[sqlReq].form = "query" THEN 0 ELSE -8
    IN
    /\ sqlPc = "execute"
    /\ \/ /\ Answers("ok") /\ Apply(TRUE)
          /\ IF sqlRow < Len(Writes(sqlReq))
               THEN sqlRow' = sqlRow + 1 /\ UNCHANGED <<sqlPc, sqlRc>>
               ELSE Leave(0) /\ UNCHANGED sqlRow
          /\ UNCHANGED <<sqlLink, connState, sqlOpen>>
       \/ /\ Leave(fail) /\ Answers("fails")
          /\ UNCHANGED <<sqlTable, sqlPending, sqlRow, sqlLink, connState, sqlOpen>>
       \/ /\ Leave(fail) /\ Lose(TRUE)
          /\ \E did \in BOOLEAN : sqlTable' = IF did /\ ~sqlOpen /\ sqlLink = "up"
                                              THEN Append(sqlTable, Writes(sqlReq)[sqlRow]) ELSE sqlTable
          /\ UNCHANGED sqlRow
       \/ /\ Answers("ok") /\ late # 0 /\ Leave(late) /\ Lose(FALSE)
          /\ sqlTable' = IF sqlOpen THEN sqlTable ELSE Append(sqlTable, Writes(sqlReq)[sqlRow])
          /\ UNCHANGED sqlRow
    /\ UNCHANGED <<sqlMix, sqlReq, sqlDoubt>>

\* execQuery() for a result set: an error while the rows are read is flushed,
\* but the return code stays that of mysql_query(), 0.
SqlSelect ==
    /\ sqlPc = "select"
    /\ \/ \E rc \in {0, QueryError} : /\ Answers("ok") /\ Leave(rc)
                                     /\ UNCHANGED <<sqlLink, connState, sqlOpen, sqlPending>>
       \/ \E rc \in {0, QueryError} : (rc = 0 => Answers("ok")) /\ Leave(rc) /\ Lose(TRUE)
    /\ UNCHANGED <<sqlMix, sqlTable, sqlReq, sqlRow, sqlDoubt>>

\* "commit;" or "rollback;".  A failed one turns success into its own code.
SqlEnd ==
    /\ sqlPc \in {"commit", "rollback"}
    /\ \E outcome \in {"ok", "fails", "lost"}, did \in BOOLEAN :
         /\ Answers(outcome) /\ (outcome = "ok" => did) /\ (outcome = "fails" => ~did)
         /\ sqlTable' = IF did /\ sqlPc = "commit" /\ sqlLink = "up" THEN sqlTable \o sqlPending ELSE sqlTable
         /\ CASE outcome = "ok" -> sqlOpen' = FALSE /\ sqlPending' = <<>> /\ UNCHANGED <<sqlLink, connState>>
              [] outcome = "fails" -> UNCHANGED <<sqlLink, connState, sqlOpen, sqlPending>>
              [] outcome = "lost" -> Lose(TRUE)
         /\ sqlRc' = IF outcome # "ok" /\ sqlRc[sqlReq] = 0 THEN [sqlRc EXCEPT ![sqlReq] = QueryError] ELSE sqlRc
         /\ sqlDoubt' = IF outcome = "ok" THEN sqlDoubt ELSE sqlDoubt \cup {sqlReq}
    /\ sqlPc' = "done"
    /\ UNCHANGED <<sqlMix, sqlReq, sqlRow>>

SqlNext ==
    \/ SqlConnect \/ SqlGiveBack \/ SqlBegin \/ SqlPrepare \/ SqlExecute \/ SqlSelect \/ SqlEnd
    \/ \E r \in SqlReqs : SqlHandle(r)

-----------------------------------------------------------------------------
\* A transaction is all or nothing for its caller: return code 0 means that
\* every valid row is committed, once; another code means that none is, unless
\* the commit or the rollback itself was not confirmed.  And no other request
\* finds a transaction open on its client, or commits rows of this one by its
\* own "begin;", unless that happened (execStatement(), rawQuery()).
SqlAtomic ==
    \A r \in SqlReqs :
        LET mine == SelectSeq(sqlTable, LAMBDA x : x[1] = r)
            over == sqlRc[r] # NotRun /\ (r = sqlReq => sqlPc \in {"idle", "done"})
        IN sqlMix[r].transaction =>
              /\ over /\ sqlRc[r] = 0 => mine = Writes(r)
              /\ over /\ sqlRc[r] # 0 /\ r \notin sqlDoubt => mine = <<>>
              /\ ~over => mine = <<>>
              /\ over /\ sqlOpen /\ (\E w \in 1..Len(sqlPending) : sqlPending[w][1] = r) => r \in sqlDoubt
=============================================================================
