----------------------------- MODULE MongoPool ------------------------------
(***************************************************************************)
(* mongo_client_pool and mongo_client of src/wjp/mongo_client.hpp: workers  *)
(* borrow a connection from the driver's own pool, attach one of the pool's *)
(* wrapper objects to it, run the request and give both back.  A wrapper    *)
(* keeps collection handles that belong to the connection it is attached    *)
(* to.  A request is one write, a bulk operation or a transaction.          *)
(***************************************************************************)
EXTENDS Naturals, Sequences, FiniteSets

CONSTANTS
    MongoWorkers,   \* worker threads, as many as _poolSize
    MongoReqs,      \* requests
    MongoMixes,     \* what the requests may be: functions to "write", "bulk", "transaction"
    RawClts,        \* connections of mongoc_client_pool_t
    MongoClts,      \* wrapper objects
    MongoOps,       \* operations chained to a bulk operation or a transaction
    MongoMaxRetry,  \* MaxRetryTimes
    MongoMaxPending,  \* MaxPendingReq, the cap of _queue
    NoMongo         \* no request, connection or wrapper

ASSUME MongoMixesAssumption == MongoMixes \subseteq [MongoReqs -> {"write", "bulk", "transaction"}]
ASSUME MongoOpsAssumption == MongoOps \in Nat \ {0} /\ MongoMaxRetry \in Nat /\ MongoMaxPending \in Nat
ASSUME NoMongoAssumption == NoMongo \notin MongoReqs \cup RawClts \cup MongoClts

\* Wrappers are allocated one by one, at most one for each worker.
ASSUME MongoCltsAssumption ==
    /\ Cardinality(MongoWorkers) \in Nat /\ Cardinality(MongoClts) \in Nat
    /\ Cardinality(MongoWorkers) <= Cardinality(MongoClts)

VARIABLES
    mongoKind,                 \* type of a request
    mongoUp,                   \* start(): "no", "failed", "up"; "joined" in the end
    mongoQueue, mongoExit,     \* _queue
    mongoRetry,                \* retry_times of a request
    mongoPc, mongoReq, rawClt, dbClt,  \* the workers
    rawPool,                   \* connections in the driver's pool
    mongoMap, mongoIdle,       \* wrappers in _clt2idle; those marked idle
    attached, handles,         \* a wrapper's _client; the connections its _name2coll is of
    mongoDone,                 \* operations run, or added to the bulk operation
    stored,                    \* stored[r]: the operations the server applied, in order
    mongoRc                    \* answers given to onResponse()

mongoReqVars == <<mongoKind, mongoRetry, mongoDone, stored, mongoRc>>
mongoCltVars == <<rawPool, mongoMap, mongoIdle, attached, handles>>
mongoVars == <<mongoUp, mongoQueue, mongoExit, mongoReqVars, mongoCltVars,
               mongoPc, mongoReq, rawClt, dbClt>>

Ops(r) == IF mongoKind[r] = "write" THEN 1 ELSE MongoOps

MongoInit ==
    /\ mongoKind \in MongoMixes
    /\ mongoUp = "no" /\ mongoQueue = <<>> /\ mongoExit = FALSE
    /\ mongoRetry = [r \in MongoReqs |-> 0] /\ mongoDone = [r \in MongoReqs |-> 0]
    /\ stored = [r \in MongoReqs |-> <<>>] /\ mongoRc = [r \in MongoReqs |-> "none"]
    /\ rawPool = RawClts /\ mongoMap = {} /\ mongoIdle = {}
    /\ attached = [d \in MongoClts |-> NoMongo] /\ handles = [d \in MongoClts |-> {}]
    /\ mongoPc = [w \in MongoWorkers |-> "pop"] /\ mongoReq = [w \in MongoWorkers |-> NoMongo]
    /\ rawClt = [w \in MongoWorkers |-> NoMongo] /\ dbClt = [w \in MongoWorkers |-> NoMongo]

MongoGoto(w, label) == mongoPc' = [mongoPc EXCEPT ![w] = label]

-----------------------------------------------------------------------------
\* start(): without a usable URI and driver pool no worker is created.
MongoStart ==
    /\ mongoUp = "no" /\ mongoUp' \in {"failed", "up"}
    /\ UNCHANGED <<mongoQueue, mongoExit, mongoReqVars, mongoCltVars, mongoPc, mongoReq, rawClt, dbClt>>

\* submit(), once for each request; DBProxyMongo submits to a failed pool, too.  A
\* full queue takes no request: the pool is busy.
MongoSubmit(r) ==
    /\ mongoUp \in {"failed", "up"} /\ mongoRc[r] = "none"
    /\ IF Len(mongoQueue) < MongoMaxPending
         THEN mongoRc' = [mongoRc EXCEPT ![r] = "queued"] /\ mongoQueue' = Append(mongoQueue, r)
         ELSE mongoRc' = [mongoRc EXCEPT ![r] = "busy"] /\ UNCHANGED mongoQueue
    /\ UNCHANGED <<mongoUp, mongoExit, mongoKind, mongoRetry, mongoDone, stored, mongoCltVars,
                   mongoPc, mongoReq, rawClt, dbClt>>

\* stop(), and serveUtilStop() once the workers are gone.
MongoStop ==
    /\ mongoUp \in {"failed", "up"}
    /\ \/ ~mongoExit /\ mongoExit' = TRUE /\ UNCHANGED <<mongoUp, mongoQueue, mongoMap, mongoIdle>>
       \/ /\ mongoExit /\ (mongoUp = "failed" \/ \A w \in MongoWorkers : mongoPc[w] = "exit")
          /\ mongoUp' = "joined" /\ mongoQueue' = <<>> /\ mongoMap' = {} /\ mongoIdle' = {}
          /\ UNCHANGED mongoExit
    /\ UNCHANGED <<mongoReqVars, rawPool, attached, handles, mongoPc, mongoReq, rawClt, dbClt>>

-----------------------------------------------------------------------------
(* worker(): the connection, the wrapper, and the two together.            *)

MongoPop(w) ==
    /\ mongoUp = "up" /\ mongoPc[w] = "pop"
    /\ \/ mongoExit /\ MongoGoto(w, "exit") /\ UNCHANGED <<mongoQueue, mongoReq>>
       \/ /\ ~mongoExit /\ mongoQueue # <<>>
          /\ mongoReq' = [mongoReq EXCEPT ![w] = Head(mongoQueue)]
          /\ mongoQueue' = Tail(mongoQueue)
          /\ MongoGoto(w, "raw")
    /\ UNCHANGED <<mongoUp, mongoExit, mongoReqVars, mongoCltVars, rawClt, dbClt>>

\* mongoc_client_pool_try_pop() gives a connection or none.
TryPop(w) ==
    /\ mongoPc[w] = "raw"
    /\ \/ \E c \in rawPool : /\ rawClt' = [rawClt EXCEPT ![w] = c]
                             /\ rawPool' = rawPool \ {c} /\ MongoGoto(w, "clt")
       \/ MongoGoto(w, "retry") /\ UNCHANGED <<rawPool, rawClt>>
    /\ UNCHANGED <<mongoUp, mongoQueue, mongoExit, mongoReqVars, mongoMap, mongoIdle, attached,
                   handles, mongoReq, dbClt>>

\* getIdleClient(), under _lockClients: an idle wrapper, else a new one, else none.
MongoGetIdle(w) ==
    LET fresh == IF Cardinality(mongoMap) < Cardinality(MongoWorkers)
                 THEN {CHOOSE d \in MongoClts : d \notin mongoMap} ELSE {}
        from == IF mongoIdle # {} THEN mongoIdle ELSE fresh
    IN /\ mongoPc[w] = "clt"
       /\ \/ \E d \in from : /\ dbClt' = [dbClt EXCEPT ![w] = d]
                             /\ mongoMap' = mongoMap \cup {d} /\ mongoIdle' = mongoIdle \ {d}
                             /\ MongoGoto(w, "attach")
          \/ from = {} /\ MongoGoto(w, "push") /\ UNCHANGED <<dbClt, mongoMap, mongoIdle>>
       /\ UNCHANGED <<mongoUp, mongoQueue, mongoExit, mongoReqVars, rawPool, attached, handles,
                      mongoReq, rawClt>>

\* attach(): the wrapper takes the connection and opens the database, or fails
\* to and keeps the pointer.
Attach(w) ==
    /\ mongoPc[w] = "attach"
    /\ attached' = [attached EXCEPT ![dbClt[w]] = rawClt[w]]
    /\ \/ MongoGoto(w, IF mongoKind[mongoReq[w]] = "transaction" THEN "session" ELSE "run")
       \/ MongoGoto(w, "idle")
    /\ UNCHANGED <<mongoUp, mongoQueue, mongoExit, mongoReqVars, rawPool, mongoMap, mongoIdle,
                   handles, mongoReq, rawClt, dbClt>>

-----------------------------------------------------------------------------
(* handleRequest() on mongo_client.                                        *)

Reply(w, rc) ==
    /\ mongoRc' = [mongoRc EXCEPT ![mongoReq[w]] = rc]
    /\ MongoGoto(w, "detach")

\* execTransaction(): createSession() (rc -1) and startTransaction() (rc -2).
StartTransaction(w) ==
    /\ mongoPc[w] = "session"
    /\ \/ MongoGoto(w, "run") /\ UNCHANGED mongoRc
       \/ Reply(w, "nosession") \/ Reply(w, "notstarted")
    /\ UNCHANGED <<mongoUp, mongoQueue, mongoExit, mongoKind, mongoRetry, mongoDone, stored, mongoCltVars,
                   mongoReq, rawClt, dbClt>>

MongoApply(r, op) == stored' = [stored EXCEPT ![r] = Append(@, op)]

\* One operation on getCollection()'s handle: insertOne() ... deleteMany(), or
\* bulkInsert() ... bulkRemoveMany(), which only add to the bulk operation.
\* transaction_proc() does not pass the session on, so the server applies the
\* operations of a transaction at once.  An operation that fails may have been
\* applied all the same: its answer was lost.
RunOp(w) ==
    LET r == mongoReq[w]
        d == dbClt[w]
        i == mongoDone[r] + 1
    IN /\ mongoPc[w] = "run"
       /\ handles' = [handles EXCEPT ![d] = @ \cup {attached[d]}]
       /\ \/ /\ mongoDone' = [mongoDone EXCEPT ![r] = i]
             /\ IF mongoKind[r] = "bulk" THEN UNCHANGED stored ELSE MongoApply(r, i)
             /\ IF i < Ops(r) THEN UNCHANGED <<mongoPc, mongoRc>>
                ELSE CASE mongoKind[r] = "write" -> Reply(w, "ok")
                       [] mongoKind[r] = "bulk" -> MongoGoto(w, "execute") /\ UNCHANGED mongoRc
                       [] OTHER -> MongoGoto(w, "commit") /\ UNCHANGED mongoRc
          \/ /\ UNCHANGED mongoDone
             /\ UNCHANGED stored \/ (mongoKind[r] # "bulk" /\ MongoApply(r, i))
             /\ IF mongoKind[r] = "transaction"
                THEN MongoGoto(w, "rollback") /\ UNCHANGED mongoRc ELSE Reply(w, "failed")
       /\ UNCHANGED <<mongoUp, mongoQueue, mongoExit, mongoKind, mongoRetry, rawPool, mongoMap, mongoIdle,
                      attached, mongoReq, rawClt, dbClt>>

\* bulkExecute(): the server applies the operations in order up to a failing one,
\* or up to the loss of its answer.
ExecuteBulk(w) ==
    LET r == mongoReq[w] IN
    /\ mongoPc[w] = "execute"
    /\ \E n \in 0..Ops(r) :
         /\ stored' = [stored EXCEPT ![r] = @ \o [i \in 1..n |-> i]]
         /\ (n = Ops(r) /\ Reply(w, "ok")) \/ Reply(w, "failed")
    /\ UNCHANGED <<mongoUp, mongoQueue, mongoExit, mongoKind, mongoRetry, mongoDone, mongoCltVars,
                   mongoReq, rawClt, dbClt>>

\* execTransaction(): commit, and rollback when an operation or the commit fails.
EndTransaction(w) ==
    /\ \/ /\ mongoPc[w] = "commit"
          /\ Reply(w, "ok") \/ (MongoGoto(w, "rollback") /\ UNCHANGED mongoRc)
       \/ /\ mongoPc[w] = "rollback"
          /\ Reply(w, "rollbackfailed") \/ Reply(w, "rolledback")
    /\ UNCHANGED <<mongoUp, mongoQueue, mongoExit, mongoKind, mongoRetry, mongoDone, stored, mongoCltVars,
                   mongoReq, rawClt, dbClt>>

-----------------------------------------------------------------------------
(* worker(): giving back, and the requests that were not handled.          *)

Handled_Never(w) == FALSE

\* handled, once handleRequest() has returned.
Handled(w) == mongoRc[mongoReq[w]] # "queued"

Detach_KeepsHandles(w) ==
    /\ mongoPc[w] = "detach"
    /\ attached' = [attached EXCEPT ![dbClt[w]] = NoMongo]
    /\ MongoGoto(w, "idle")
    /\ UNCHANGED <<mongoUp, mongoQueue, mongoExit, mongoReqVars, rawPool, mongoMap, mongoIdle,
                   handles, mongoReq, rawClt, dbClt>>

\* detach(): close() destroys the cached collections and the database.
Detach(w) ==
    /\ mongoPc[w] = "detach"
    /\ attached' = [attached EXCEPT ![dbClt[w]] = NoMongo]
    /\ handles' = [handles EXCEPT ![dbClt[w]] = {}]
    /\ MongoGoto(w, "idle")
    /\ UNCHANGED <<mongoUp, mongoQueue, mongoExit, mongoReqVars, rawPool, mongoMap, mongoIdle,
                   mongoReq, rawClt, dbClt>>

MongoMarkIdle(w) ==
    /\ mongoPc[w] = "idle"
    /\ mongoIdle' = mongoIdle \cup {dbClt[w]}
    /\ dbClt' = [dbClt EXCEPT ![w] = NoMongo]
    /\ MongoGoto(w, "push")
    /\ UNCHANGED <<mongoUp, mongoQueue, mongoExit, mongoReqVars, rawPool, mongoMap, attached,
                   handles, mongoReq, rawClt>>

\* mongoc_client_pool_push().
PushRaw(w) ==
    /\ mongoPc[w] = "push"
    /\ rawPool' = rawPool \cup {rawClt[w]}
    /\ rawClt' = [rawClt EXCEPT ![w] = NoMongo]
    /\ MongoGoto(w, IF Handled(w) THEN "pop" ELSE "retry")
    /\ UNCHANGED <<mongoUp, mongoQueue, mongoExit, mongoReqVars, mongoMap, mongoIdle, attached,
                   handles, mongoReq, dbClt>>

MongoRetryOrFail(w) ==
    LET r == mongoReq[w] IN
    /\ mongoPc[w] = "retry"
    /\ IF mongoRetry[r] >= MongoMaxRetry
         THEN /\ mongoRc' = [mongoRc EXCEPT ![r] = "noclient"]
              /\ UNCHANGED <<mongoRetry, mongoQueue>>
         ELSE /\ mongoRetry' = [mongoRetry EXCEPT ![r] = @ + 1]
              /\ mongoQueue' = <<r>> \o mongoQueue
              /\ UNCHANGED mongoRc
    /\ MongoGoto(w, "pop")
    /\ UNCHANGED <<mongoUp, mongoExit, mongoKind, mongoDone, stored, mongoCltVars, mongoReq, rawClt, dbClt>>

MongoNext ==
    \/ MongoStart \/ MongoStop
    \/ \E r \in MongoReqs : MongoSubmit(r)
    \/ \E w \in MongoWorkers :
          \/ MongoPop(w) \/ TryPop(w) \/ MongoGetIdle(w) \/ Attach(w)
          \/ StartTransaction(w) \/ RunOp(w) \/ ExecuteBulk(w) \/ EndTransaction(w)
          \/ Detach(w) \/ MongoMarkIdle(w) \/ PushRaw(w) \/ MongoRetryOrFail(w)

-----------------------------------------------------------------------------
\* The collection handles of a wrapper belong to the connection it is attached
\* to, and one worker at a time has both: no worker uses a handle of a
\* connection that was given back to the driver and that another one may have
\* borrowed (detach() in worker(), getCollection()'s cache).
HandlesOwned ==
    /\ \A d \in MongoClts : handles[d] # {} =>
          \E w \in MongoWorkers : dbClt[w] = d /\ handles[d] = {rawClt[w]} /\ attached[d] = rawClt[w]
    /\ \A v, w \in MongoWorkers : v # w =>
          /\ rawClt[v] = rawClt[w] => rawClt[v] = NoMongo
          /\ dbClt[v] = dbClt[w] => dbClt[v] = NoMongo

\* What the server applied of a request is always a beginning of its operations,
\* each once, however often the request was queued again; all of them when it
\* is answered with success, none when the pool was busy or no client, session or
\* transaction could be had (submit(), retryFailure(), execTransaction(),
\* bulkExecute()).  RollbackUndoes is about the transactions that are rolled back.
AppliedAsAnswered ==
    \A r \in MongoReqs :
        /\ stored[r] \in {[i \in 1..n |-> i] : n \in 0..Ops(r)}
        /\ mongoRc[r] = "ok" => Len(stored[r]) = Ops(r)
        /\ mongoRc[r] \in {"busy", "noclient", "nosession", "notstarted"} => stored[r] = <<>>

\* execTransaction() says of its answer -4 "transaction is rollback": the server keeps
\* nothing of the operations.
RollbackUndoes == \A r \in MongoReqs : mongoRc[r] = "rolledback" => stored[r] = <<>>
=============================================================================
