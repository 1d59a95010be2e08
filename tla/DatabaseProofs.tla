--------------------------- MODULE DatabaseProofs ---------------------------
(***************************************************************************)
(* Proofs about the two database components that are not DbPool.            *)
(* MongoPool, for any number of workers, requests, connections and          *)
(* operations: no handle outlives its connection (HandlesAreOwned), and     *)
(* what the server applied agrees with the answer (AppliedIsAnswered).      *)
(* DBProxy, for any number of users, workers, pool threads, requests and    *)
(* shards: the contexts are not destroyed while a thread is between a       *)
(* request and its context (ContextsAreSafe), and a context outlives its    *)
(* result only when the result overtook its saving (OrphansAreOvertaken).   *)
(***************************************************************************)
EXTENDS DBProxy, MongoPool, TLAPS

-----------------------------------------------------------------------------
(* MongoPool, for any number of workers, requests, connections and          *)
(* operations.                                                              *)

\* The steps at which handleRequest() runs, at which a worker has a wrapper, a
\* connection, a request.
Attached == {"session", "run", "execute", "commit", "rollback", "detach"}
Wrapped  == Attached \cup {"attach", "idle"}
Borrowed == Wrapped \cup {"clt", "push"}
Taken    == Borrowed \cup {"raw", "retry"}

\* What a request is answered with.
Rcs == {"none", "queued", "busy", "ok", "failed", "noclient", "nosession", "notstarted",
        "rolledback", "rollbackfailed"}

\* The types of the cells of the pool, the requests and the workers.
MongoTypes ==
    /\ mongoKind \in [MongoReqs -> {"write", "bulk", "transaction"}]
    /\ mongoUp \in {"no", "failed", "up", "joined"} /\ mongoExit \in BOOLEAN
    /\ mongoRetry \in [MongoReqs -> Nat] /\ mongoRc \in [MongoReqs -> Rcs]
    /\ rawPool \subseteq RawClts /\ mongoMap \subseteq MongoClts /\ mongoIdle \subseteq mongoMap
    /\ attached \in [MongoClts -> RawClts \cup {NoMongo}]
    /\ handles \in [MongoClts -> SUBSET (RawClts \cup {NoMongo})]
    /\ mongoPc \in [MongoWorkers -> Taken \cup {"pop", "exit"}]
    /\ mongoReq \in [MongoWorkers -> MongoReqs \cup {NoMongo}]
    /\ \A w \in MongoWorkers : mongoPc[w] \in Taken => mongoReq[w] \in MongoReqs
    /\ rawClt \in [MongoWorkers -> RawClts \cup {NoMongo}]
    /\ dbClt \in [MongoWorkers -> MongoClts \cup {NoMongo}]
    /\ mongoQueue \in Seq(MongoReqs)

\* Only the workers of a pool that is up do anything.
UpInv == mongoUp # "up" => \A w \in MongoWorkers : mongoPc[w] \in {"pop", "exit"}

\* A connection is in the driver's pool or with one worker, a wrapper is idle or
\* with one worker.
LoanInv ==
    /\ \A w \in MongoWorkers :
          /\ rawClt[w] # NoMongo <=> mongoPc[w] \in Borrowed
          /\ dbClt[w] # NoMongo <=> mongoPc[w] \in Wrapped
          /\ rawClt[w] \notin rawPool /\ dbClt[w] \notin mongoIdle
          /\ dbClt[w] # NoMongo => dbClt[w] \in mongoMap
    /\ \A v, w \in MongoWorkers : v # w =>
          /\ rawClt[v] = rawClt[w] => rawClt[v] = NoMongo
          /\ dbClt[v] = dbClt[w] => dbClt[v] = NoMongo

\* Between attach() and detach() the wrapper's pointer is the worker's
\* connection; at any other time the wrapper has no handles.
AttachInv ==
    /\ \A w \in MongoWorkers : mongoPc[w] \in Attached =>
          attached[dbClt[w]] = rawClt[w] /\ handles[dbClt[w]] \subseteq {rawClt[w]}
    /\ \A d \in MongoClts : handles[d] # {} =>
          \E w \in MongoWorkers : dbClt[w] = d /\ mongoPc[w] \in Attached

\* The inductive invariant of HandlesOwned.
PoolInv == MongoTypes /\ UpInv /\ LoanInv /\ AttachInv

\* The first n operations of a request, in order.
Prefix(n) == [i \in 1..n |-> i]

\* Nothing of a request was run.
Untouched(r) == stored[r] = Prefix(0) /\ mongoDone[r] = 0

\* A request that is not answered is in the queue or with one worker, once.
TokenInv ==
    /\ \A i \in 1..Len(mongoQueue) : mongoRc[mongoQueue[i]] = "queued"
    /\ \A i, j \in 1..Len(mongoQueue) : mongoQueue[i] = mongoQueue[j] => i = j
    /\ \A w \in MongoWorkers : mongoPc[w] \in Taken => \A i \in 1..Len(mongoQueue) : mongoQueue[i] # mongoReq[w]
    /\ \A v, w \in MongoWorkers : v # w /\ mongoPc[v] \in Taken /\ mongoPc[w] \in Taken => mongoReq[v] # mongoReq[w]
    /\ \A w \in MongoWorkers :
          /\ mongoPc[w] \in Taken \ {"detach", "idle", "push"} => mongoRc[mongoReq[w]] = "queued"
          /\ mongoPc[w] \in Taken => mongoRc[mongoReq[w]] # "none"
          /\ mongoPc[w] = "detach" => mongoRc[mongoReq[w]] # "queued"

\* What the server has of a request, by where the request is.
StoredInv ==
    /\ mongoDone \in [MongoReqs -> Nat]
    /\ stored \in [MongoReqs -> {Prefix(n) : n \in Nat}]
    /\ \A r \in MongoReqs : \E n \in 0..Ops(r) : stored[r] = Prefix(n)
    /\ \A r \in MongoReqs :
          /\ mongoRc[r] \in {"none", "busy", "noclient"} => Untouched(r)
          /\ mongoRc[r] \in {"nosession", "notstarted"} => stored[r] = Prefix(0)
          /\ mongoRc[r] = "ok" => stored[r] = Prefix(Ops(r))
    /\ \A i \in 1..Len(mongoQueue) : Untouched(mongoQueue[i])
    /\ \A w \in MongoWorkers :
          LET r == mongoReq[w] IN
          /\ mongoPc[w] \in {"raw", "clt", "attach", "session", "retry"} => Untouched(r)
          /\ mongoPc[w] \in {"idle", "push"} /\ mongoRc[r] = "queued" => Untouched(r)
          /\ mongoPc[w] = "run" =>
                /\ mongoDone[r] < Ops(r)
                /\ stored[r] = Prefix(IF mongoKind[r] = "bulk" THEN 0 ELSE mongoDone[r])
          /\ mongoPc[w] = "execute" => mongoKind[r] = "bulk" /\ stored[r] = Prefix(0)
          /\ mongoPc[w] = "commit" => mongoKind[r] = "transaction" /\ stored[r] = Prefix(Ops(r))

\* The inductive invariant of AppliedAsAnswered.
MongoInv == PoolInv /\ TokenInv /\ StoredInv
-----------------------------------------------------------------------------
\* There is a wrapper that is not allocated when getIdleClient() makes one.
LEMMA FreshClt ==
    ASSUME mongoMap \subseteq MongoClts, Cardinality(mongoMap) < Cardinality(MongoWorkers)
    PROVE  (CHOOSE d \in MongoClts : d \notin mongoMap) \in MongoClts \ mongoMap
<1>1. mongoMap # MongoClts
  <2>1. SUFFICES ASSUME mongoMap = MongoClts PROVE FALSE
    BY Zenon
  <2>2. Cardinality(MongoClts) < Cardinality(MongoWorkers)
    BY <2>1, Zenon
  <2> HIDE <2>1
  <2> QED  BY <2>2, MongoCltsAssumption
<1> QED  BY <1>1, Zenon

\* getIdleClient() gives a worker a wrapper that no worker has and that is idle
\* or new, or none.
GetsClt(w, d) ==
    /\ d \in mongoIdle \/ d \notin mongoMap
    /\ dbClt' = [dbClt EXCEPT ![w] = d]
    /\ mongoMap' = mongoMap \cup {d} /\ mongoIdle' = mongoIdle \ {d}
    /\ mongoPc' = [mongoPc EXCEPT ![w] = "attach"]

\* getIdleClient() lends a wrapper nobody else has.
LEMMA GetIdleClt ==
    ASSUME PoolInv, NEW w \in MongoWorkers, MongoGetIdle(w)
    PROVE  \/ \E d \in MongoClts : GetsClt(w, d)
           \/ mongoPc' = [mongoPc EXCEPT ![w] = "push"] /\ UNCHANGED <<dbClt, mongoMap, mongoIdle>>
<1>0. mongoMap \subseteq MongoClts /\ mongoIdle \subseteq mongoMap
  BY Zenon DEF PoolInv, MongoTypes
<1> DEFINE fresh == IF Cardinality(mongoMap) < Cardinality(MongoWorkers)
                    THEN {CHOOSE d \in MongoClts : d \notin mongoMap} ELSE {}
           from == IF mongoIdle # {} THEN mongoIdle ELSE fresh
<1>1. \A d \in from : d \in MongoClts /\ (d \in mongoIdle \/ d \notin mongoMap)
  BY <1>0, FreshClt, Zenon
<1>2. \/ \E d \in from : /\ dbClt' = [dbClt EXCEPT ![w] = d]
                         /\ mongoMap' = mongoMap \cup {d} /\ mongoIdle' = mongoIdle \ {d}
                         /\ mongoPc' = [mongoPc EXCEPT ![w] = "attach"]
      \/ mongoPc' = [mongoPc EXCEPT ![w] = "push"] /\ UNCHANGED <<dbClt, mongoMap, mongoIdle>>
  BY Zenon DEF MongoGetIdle, MongoGoto
<1> HIDE DEF from
<1> QED  BY <1>1, <1>2, Zenon DEF GetsClt

\* The queue stays a queue of requests when one is added.
LEMMA AppendType == ASSUME NEW S, NEW q \in Seq(S), NEW x \in S PROVE Append(q, x) \in Seq(S)
  OBVIOUS

\* Every variable keeps its type.
LEMMA MongoTypesStep ==
    ASSUME PoolInv, [MongoNext]_mongoVars
    PROVE  MongoTypes'
<1>0. MongoTypes /\ LoanInv
  BY Zenon DEF PoolInv
<1> USE DEF MongoTypes, mongoReqVars, mongoCltVars, MongoGoto, Attached, Wrapped, Borrowed, Taken, Rcs
<1>1. CASE MongoStart \/ MongoStop
  <2>1. mongoUp' \in {"no", "failed", "up", "joined"} /\ mongoExit' \in BOOLEAN
    BY <1>0, <1>1, Zenon DEF MongoStart, MongoStop
  <2>2. mongoMap' \subseteq MongoClts /\ mongoIdle' \subseteq mongoMap' /\ mongoQueue' \in Seq(MongoReqs)
    <3>1. \/ mongoMap' = {} /\ mongoIdle' = {} /\ mongoQueue' = <<>>
          \/ UNCHANGED <<mongoMap, mongoIdle, mongoQueue>>
      BY <1>1, Zenon DEF MongoStart, MongoStop
    <3>2. <<>> \in Seq(MongoReqs)
      OBVIOUS
    <3> QED  BY <1>0, <3>1, <3>2, Zenon
  <2>3. UNCHANGED <<mongoReqVars, rawPool, attached, handles, mongoPc, mongoReq, rawClt, dbClt>>
    BY <1>1, Zenon DEF MongoStart, MongoStop
  <2> QED  BY <1>0, <2>1, <2>2, <2>3, Zenon
<1>2. ASSUME NEW r \in MongoReqs, MongoSubmit(r) PROVE MongoTypes'
  <2>1. mongoQueue' \in Seq(MongoReqs)
    <3>1. mongoQueue' = Append(mongoQueue, r) \/ mongoQueue' = mongoQueue
      BY <1>2, Zenon DEF MongoSubmit
    <3>2. mongoQueue \in Seq(MongoReqs)
      BY <1>0, Zenon
    <3> QED  BY <3>1, <3>2, AppendType, Zenon
  <2>2. mongoRc' \in [MongoReqs -> Rcs]
    <3>1. PICK rc \in {"queued", "busy"} : mongoRc' = [mongoRc EXCEPT ![r] = rc]
      BY <1>2, Zenon DEF MongoSubmit
    <3> QED  BY <1>0, <3>1
  <2>3. UNCHANGED <<mongoUp, mongoExit, mongoKind, mongoRetry, mongoDone, stored, mongoCltVars,
                    mongoPc, mongoReq, rawClt, dbClt>>
    BY <1>2, Zenon DEF MongoSubmit
  <2> QED  BY <1>0, <2>1, <2>2, <2>3, Zenon
<1>3. ASSUME NEW w \in MongoWorkers, MongoPop(w) PROVE MongoTypes'
  <2>1. CASE mongoQueue = <<>> \/ mongoExit
    BY <1>0, <1>3, <2>1 DEF MongoPop
  <2>2. CASE mongoQueue # <<>> /\ ~mongoExit
    <3>1. Head(mongoQueue) \in MongoReqs /\ Tail(mongoQueue) \in Seq(MongoReqs)
      BY <1>0, <2>2
    <3>2. /\ mongoReq' = [mongoReq EXCEPT ![w] = Head(mongoQueue)] /\ mongoQueue' = Tail(mongoQueue)
          /\ mongoPc' = [mongoPc EXCEPT ![w] = "raw"]
          /\ UNCHANGED <<mongoUp, mongoExit, mongoReqVars, mongoCltVars, rawClt, dbClt>>
      BY <1>3, <2>2, Zenon DEF MongoPop
    <3> QED  BY <1>0, <3>1, <3>2, Zenon
  <2> QED  BY <1>0, <2>1, <2>2, Zenon
<1>4. ASSUME NEW w \in MongoWorkers, TryPop(w) PROVE MongoTypes'
  BY <1>0, <1>4, Zenon DEF TryPop
<1>5. ASSUME NEW w \in MongoWorkers, MongoGetIdle(w) PROVE MongoTypes'
  <2>0. mongoPc[w] = "clt" /\ UNCHANGED <<mongoUp, mongoQueue, mongoExit, mongoReqVars, rawPool, attached,
                                          handles, mongoReq, rawClt>>
    BY <1>5, Zenon DEF MongoGetIdle
  <2>1. CASE /\ mongoPc' = [mongoPc EXCEPT ![w] = "push"]
             /\ UNCHANGED <<dbClt, mongoMap, mongoIdle>>
    BY <1>0, <2>0, <2>1, Zenon
  <2>2. ASSUME NEW d \in MongoClts, GetsClt(w, d) PROVE MongoTypes'
    BY <1>0, <2>0, <2>2, Zenon DEF GetsClt
  <2> QED  BY <1>0, <1>5, <2>1, <2>2, GetIdleClt, Zenon DEF PoolInv
<1>6. ASSUME NEW w \in MongoWorkers, Attach(w) PROVE MongoTypes'
  BY <1>0, <1>6, Zenon DEF Attach
<1>7. ASSUME NEW w \in MongoWorkers, StartTransaction(w) PROVE MongoTypes'
  <2>0. mongoReq[w] \in MongoReqs
    BY <1>0, <1>7, Zenon DEF StartTransaction
  <2>1. /\ \E l \in Taken : mongoPc' = [mongoPc EXCEPT ![w] = l]
        /\ \E rc \in Rcs : mongoRc' = [mongoRc EXCEPT ![mongoReq[w]] = rc]
    BY <1>0, <1>7, <2>0 DEF StartTransaction, Reply
  <2> QED  BY <1>0, <1>7, <2>0, <2>1 DEF StartTransaction
<1>8. ASSUME NEW w \in MongoWorkers, RunOp(w) PROVE MongoTypes'
  <2>0. mongoReq[w] \in MongoReqs /\ dbClt[w] \in MongoClts
    BY <1>0, <1>8, Zenon DEF RunOp, LoanInv
  <2>1. /\ \E l \in Taken : mongoPc' = [mongoPc EXCEPT ![w] = l]
        /\ \E rc \in Rcs : mongoRc' = [mongoRc EXCEPT ![mongoReq[w]] = rc]
    BY <1>0, <1>8, <2>0 DEF RunOp, Reply
  <2>2. handles' \in [MongoClts -> SUBSET (RawClts \cup {NoMongo})]
    BY <1>0, <1>8, <2>0, Zenon DEF RunOp
  <2> QED  BY <1>0, <1>8, <2>0, <2>1, <2>2 DEF RunOp
<1>9. ASSUME NEW w \in MongoWorkers, ExecuteBulk(w) \/ EndTransaction(w) PROVE MongoTypes'
  <2>0. mongoReq[w] \in MongoReqs
    BY <1>0, <1>9, Zenon DEF ExecuteBulk, EndTransaction
  <2>1. /\ \E l \in Taken : mongoPc' = [mongoPc EXCEPT ![w] = l]
        /\ \E rc \in Rcs : mongoRc' = [mongoRc EXCEPT ![mongoReq[w]] = rc]
    BY <1>0, <1>9, <2>0 DEF ExecuteBulk, EndTransaction, Reply
  <2> QED  BY <1>0, <1>9, <2>0, <2>1 DEF ExecuteBulk, EndTransaction
<1>10. ASSUME NEW w \in MongoWorkers, Detach(w) PROVE MongoTypes'
  BY <1>0, <1>10, Zenon DEF Detach
<1>11. ASSUME NEW w \in MongoWorkers, MongoMarkIdle(w) PROVE MongoTypes'
  BY <1>0, <1>11, Zenon DEF MongoMarkIdle, LoanInv
<1>12. ASSUME NEW w \in MongoWorkers, PushRaw(w) PROVE MongoTypes'
  BY <1>0, <1>12, Zenon DEF PushRaw, LoanInv
<1>13. ASSUME NEW w \in MongoWorkers, MongoRetryOrFail(w) PROVE MongoTypes'
  <2>0. mongoReq[w] \in MongoReqs
    BY <1>0, <1>13, Zenon DEF MongoRetryOrFail
  <2>1. /\ mongoRc' \in [MongoReqs -> Rcs] /\ mongoRetry' \in [MongoReqs -> Nat]
        /\ mongoPc' = [mongoPc EXCEPT ![w] = "pop"]
    <3>1. mongoRc' \in {mongoRc, [mongoRc EXCEPT ![mongoReq[w]] = "noclient"]}
      BY <1>13, Zenon DEF MongoRetryOrFail
    <3>2. mongoRetry' \in {mongoRetry, [mongoRetry EXCEPT ![mongoReq[w]] = @ + 1]}
      BY <1>13, Zenon DEF MongoRetryOrFail
    <3> QED  BY <1>0, <1>13, <2>0, <3>1, <3>2 DEF MongoRetryOrFail
  <2>2. mongoQueue' \in Seq(MongoReqs)
    <3>1. mongoQueue' \in {mongoQueue, <<mongoReq[w]>> \o mongoQueue}
      BY <1>13, Zenon DEF MongoRetryOrFail
    <3>2. <<mongoReq[w]>> \in Seq(MongoReqs) /\ mongoQueue \in Seq(MongoReqs)
      BY <1>0, <2>0
    <3> QED  BY <3>1, <3>2
  <2> QED  BY <1>0, <1>13, <2>1, <2>2, Zenon DEF MongoRetryOrFail
<1>14. CASE UNCHANGED mongoVars
  BY <1>0, <1>14, Zenon DEF mongoVars
<1> QED
  BY <1>1, <1>2, <1>3, <1>4, <1>5, <1>6, <1>7, <1>8, <1>9, <1>10, <1>11, <1>12, <1>13, <1>14, Zenon DEF MongoNext

\* A pool that is not up stays so without its workers: start() is called once.
LEMMA UpStep ==
    ASSUME MongoTypes, UpInv, [MongoNext]_mongoVars
    PROVE  UpInv'
<1> USE DEF MongoTypes, UpInv, mongoReqVars, mongoCltVars, MongoGoto, Reply
<1>1. CASE MongoStart \/ MongoStop \/ \E r \in MongoReqs : MongoSubmit(r)
  BY <1>1, Zenon DEF MongoStart, MongoStop, MongoSubmit
<1>2. ASSUME NEW w \in MongoWorkers,
             MongoPop(w) \/ TryPop(w) \/ MongoGetIdle(w) \/ Attach(w) \/ StartTransaction(w) \/ RunOp(w)
      PROVE  UNCHANGED mongoUp /\ (mongoUp = "up" \/ mongoPc[w] \notin {"pop", "exit"})
  BY <1>2, Zenon DEF MongoPop, TryPop, MongoGetIdle, Attach, StartTransaction, RunOp
<1>3. ASSUME NEW w \in MongoWorkers,
             \/ ExecuteBulk(w) \/ EndTransaction(w) \/ Detach(w) \/ MongoMarkIdle(w) \/ PushRaw(w)
             \/ MongoRetryOrFail(w)
      PROVE  UNCHANGED mongoUp /\ mongoPc[w] \notin {"pop", "exit"}
  BY <1>3, Zenon DEF ExecuteBulk, EndTransaction, Detach, MongoMarkIdle, PushRaw, MongoRetryOrFail
<1>4. CASE UNCHANGED mongoVars
  BY <1>4, Zenon DEF mongoVars
<1> QED  BY <1>1, <1>2, <1>3, <1>4, Zenon DEF MongoNext

\* The steps that move no connection and no wrapper.
LoansKept(w) ==
    /\ UNCHANGED <<mongoCltVars, rawClt, dbClt>>
    /\ \E l \in Taken \cup {"pop", "exit"} :
          /\ mongoPc' = [mongoPc EXCEPT ![w] = l]
          /\ l \in Borrowed <=> mongoPc[w] \in Borrowed
          /\ l \in Wrapped <=> mongoPc[w] \in Wrapped
          /\ l \in Attached <=> mongoPc[w] \in Attached

\* Steps that neither take a connection or a wrapper nor give one back.
LEMMA LoanSteps ==
    ASSUME MongoTypes, NEW w \in MongoWorkers,
           \/ MongoPop(w) \/ StartTransaction(w) \/ ExecuteBulk(w) \/ EndTransaction(w) \/ MongoRetryOrFail(w)
    PROVE  LoansKept(w)
<1> USE DEF LoansKept, MongoTypes, Taken, Borrowed, Wrapped, Attached, MongoGoto, Reply
<1>1. CASE MongoPop(w)  BY <1>1 DEF MongoPop
<1>2. CASE StartTransaction(w)  BY <1>2, Zenon DEF StartTransaction
<1>3. CASE ExecuteBulk(w)  BY <1>3, Zenon DEF ExecuteBulk
<1>4. CASE EndTransaction(w)  BY <1>4, Zenon DEF EndTransaction
<1>5. CASE MongoRetryOrFail(w)  BY <1>5 DEF MongoRetryOrFail
<1> QED  BY <1>1, <1>2, <1>3, <1>4, <1>5, Zenon

\* The handling of a request changes the handles only.
LEMMA RunOpLoans ==
    ASSUME MongoTypes, NEW w \in MongoWorkers, RunOp(w)
    PROVE  /\ UNCHANGED <<rawPool, mongoMap, mongoIdle, attached, rawClt, dbClt>>
           /\ handles' = [handles EXCEPT ![dbClt[w]] = @ \cup {attached[dbClt[w]]}]
           /\ mongoPc[w] = "run" /\ \E l \in Attached : mongoPc' = [mongoPc EXCEPT ![w] = l]
BY DEF MongoTypes, RunOp, MongoGoto, Reply, Attached, Taken, Borrowed, Wrapped

\* Each connection and each wrapper stays with one borrower.
LEMMA LoanStep ==
    ASSUME PoolInv, [MongoNext]_mongoVars
    PROVE  LoanInv'
<1>0. /\ MongoTypes /\ LoanInv
      /\ NoMongo \notin RawClts /\ NoMongo \notin MongoClts
  BY NoMongoAssumption, Zenon DEF PoolInv
<1> USE DEF MongoTypes, LoanInv, mongoReqVars, mongoCltVars, Taken, Borrowed, Wrapped, Attached
<1>1. CASE MongoStart \/ \E r \in MongoReqs : MongoSubmit(r)
  BY <1>0, <1>1 DEF MongoStart, MongoSubmit
<1>2. CASE MongoStop
  <2>1. mongoMap' = mongoMap \/ \A w \in MongoWorkers : mongoPc[w] \in {"pop", "exit"}
    BY <1>2, Zenon DEF MongoStop, PoolInv, UpInv
  <2>2. mongoIdle' \subseteq mongoIdle /\ UNCHANGED <<mongoPc, rawClt, dbClt, rawPool>>
    BY <1>2, Zenon DEF MongoStop
  <2> QED  BY <1>0, <2>1, <2>2, Zenon
<1>3. ASSUME NEW w \in MongoWorkers,
             \/ MongoPop(w) \/ StartTransaction(w) \/ ExecuteBulk(w) \/ EndTransaction(w) \/ MongoRetryOrFail(w)
      PROVE  LoanInv'
  <2>1. LoansKept(w)
    BY <1>0, <1>3, LoanSteps, Zenon
  <2> QED  BY <1>0, <2>1 DEF LoansKept
<1>4. ASSUME NEW w \in MongoWorkers, TryPop(w) PROVE LoanInv'
  <2>0. mongoPc[w] = "raw" /\ UNCHANGED <<dbClt, mongoMap, mongoIdle>>
    BY <1>4, Zenon DEF TryPop
  <2>1. CASE mongoPc' = [mongoPc EXCEPT ![w] = "retry"] /\ UNCHANGED <<rawPool, rawClt>>
    BY <1>0, <2>0, <2>1, Zenon
  <2>2. ASSUME NEW c \in rawPool, mongoPc' = [mongoPc EXCEPT ![w] = "clt"],
               rawClt' = [rawClt EXCEPT ![w] = c], rawPool' = rawPool \ {c}
        PROVE  LoanInv'
    BY <1>0, <2>0, <2>2, Zenon
  <2> QED  BY <1>4, <2>1, <2>2, Zenon DEF TryPop, MongoGoto
<1>5. ASSUME NEW w \in MongoWorkers, MongoGetIdle(w) PROVE LoanInv'
  <2>0. mongoPc[w] = "clt" /\ UNCHANGED <<rawPool, rawClt>>
    BY <1>5, Zenon DEF MongoGetIdle
  <2>1. CASE /\ mongoPc' = [mongoPc EXCEPT ![w] = "push"]
             /\ UNCHANGED <<dbClt, mongoMap, mongoIdle>>
    BY <1>0, <2>0, <2>1, Zenon
  <2>2. ASSUME NEW d \in MongoClts, GetsClt(w, d) PROVE LoanInv'
    BY <1>0, <2>0, <2>2, Zenon DEF GetsClt
  <2> QED  BY <1>5, <2>1, <2>2, GetIdleClt, Zenon
<1>6. ASSUME NEW w \in MongoWorkers, Attach(w) \/ Detach(w) PROVE LoanInv'
  BY <1>0, <1>6 DEF Attach, Detach, MongoGoto
<1>7. ASSUME NEW w \in MongoWorkers, RunOp(w) PROVE LoanInv'
  <2>1. PICK l \in Attached : mongoPc' = [mongoPc EXCEPT ![w] = l]
    BY <1>0, <1>7, RunOpLoans, Zenon
  <2>2. mongoPc[w] = "run" /\ UNCHANGED <<rawPool, mongoMap, mongoIdle, rawClt, dbClt>>
    BY <1>0, <1>7, RunOpLoans, Zenon
  <2> QED  BY <1>0, <2>1, <2>2, Zenon
<1>8. ASSUME NEW w \in MongoWorkers, MongoMarkIdle(w) PROVE LoanInv'
  BY <1>0, <1>8, Zenon DEF MongoMarkIdle, MongoGoto
<1>9. ASSUME NEW w \in MongoWorkers, PushRaw(w) PROVE LoanInv'
  <2>1. \E l \in {"pop", "retry"} : mongoPc' = [mongoPc EXCEPT ![w] = l]
    BY <1>9, Zenon DEF PushRaw, MongoGoto
  <2> QED  BY <1>0, <1>9, <2>1 DEF PushRaw
<1>10. CASE UNCHANGED mongoVars
  BY <1>0, <1>10, Zenon DEF mongoVars
<1> QED  BY <1>1, <1>2, <1>3, <1>4, <1>5, <1>6, <1>7, <1>8, <1>9, <1>10, Zenon DEF MongoNext

\* A step of worker w that leaves the other workers and their wrappers alone.
Apart(w) ==
    /\ \A v \in MongoWorkers \ {w} :
          mongoPc'[v] = mongoPc[v] /\ rawClt'[v] = rawClt[v] /\ dbClt'[v] = dbClt[v]
    /\ \A d \in MongoClts \ {dbClt[w]} : handles'[d] = handles[d] /\ attached'[d] = attached[d]

\* Such a step keeps AttachInv when it does so for w and its wrapper.
LEMMA AttachApart ==
    ASSUME PoolInv, NEW w \in MongoWorkers, Apart(w),
           mongoPc'[w] \in Attached =>
              /\ dbClt[w] \in MongoClts /\ dbClt'[w] = dbClt[w] /\ rawClt'[w] = rawClt[w]
              /\ attached'[dbClt[w]] = rawClt[w] /\ handles'[dbClt[w]] \subseteq {rawClt[w]},
           mongoPc'[w] \notin Attached /\ dbClt[w] \in MongoClts => handles'[dbClt[w]] = {}
    PROVE  AttachInv'
<1>0. /\ LoanInv /\ AttachInv /\ NoMongo \notin MongoClts /\ Attached \subseteq Wrapped
      /\ dbClt \in [MongoWorkers -> MongoClts \cup {NoMongo}]
  BY NoMongoAssumption, Zenon DEF PoolInv, MongoTypes, Wrapped
<1>1. ASSUME NEW v \in MongoWorkers, mongoPc'[v] \in Attached
      PROVE  attached'[dbClt'[v]] = rawClt'[v] /\ handles'[dbClt'[v]] \subseteq {rawClt'[v]}
  <2>1. CASE v = w
    BY <1>1, <2>1, Zenon
  <2>2. CASE v # w
    <3>1. /\ mongoPc[v] \in Attached /\ rawClt'[v] = rawClt[v] /\ dbClt'[v] = dbClt[v]
      BY <1>1, <2>2, Zenon DEF Apart
    <3>2. dbClt[v] \in MongoClts \ {dbClt[w]}
      BY <1>0, <2>2, <3>1, Zenon DEF LoanInv
    <3> QED  BY <1>0, <3>1, <3>2, Zenon DEF Apart, AttachInv
  <2> QED  BY <2>1, <2>2, Zenon
<1>2. ASSUME NEW d \in MongoClts, handles'[d] # {}
      PROVE  \E v \in MongoWorkers : dbClt'[v] = d /\ mongoPc'[v] \in Attached
  <2>1. CASE d = dbClt[w]
    BY <1>2, <2>1, Zenon
  <2>2. CASE d # dbClt[w]
    <3>1. PICK v \in MongoWorkers : dbClt[v] = d /\ mongoPc[v] \in Attached
      BY <1>0, <1>2, <2>2, Zenon DEF Apart, AttachInv
    <3> QED  BY <2>2, <3>1, Zenon DEF Apart
  <2> QED  BY <2>1, <2>2, Zenon
<1> QED  BY <1>1, <1>2, Zenon DEF AttachInv

\* A wrapper has no handles while its worker does not run handleRequest().
LEMMA NoHandles ==
    ASSUME PoolInv, NEW w \in MongoWorkers, mongoPc[w] \notin Attached, dbClt[w] \in MongoClts
    PROVE  handles[dbClt[w]] = {}
BY NoMongoAssumption DEF PoolInv, AttachInv, LoanInv

\* The handles of a wrapper are always of the connection of its worker.
LEMMA AttachStep ==
    ASSUME PoolInv, [MongoNext]_mongoVars
    PROVE  AttachInv'
<1>0. /\ MongoTypes /\ LoanInv /\ AttachInv
      /\ NoMongo \notin RawClts /\ NoMongo \notin MongoClts
  BY NoMongoAssumption, Zenon DEF PoolInv
<1> DEFINE Held(w) == mongoPc[w] \in Attached =>
                        /\ dbClt[w] \in MongoClts
                        /\ attached[dbClt[w]] = rawClt[w] /\ handles[dbClt[w]] \subseteq {rawClt[w]}
<1>a. \A w \in MongoWorkers : Held(w)
  BY <1>0, Zenon DEF MongoTypes, LoanInv, AttachInv, Wrapped
<1>b. \A w \in MongoWorkers : mongoPc[w] \notin Attached /\ dbClt[w] \in MongoClts => handles[dbClt[w]] = {}
  BY NoHandles, Zenon
<1> USE DEF MongoTypes, mongoReqVars, mongoCltVars, Taken, Borrowed, Wrapped, Attached
<1>1. CASE MongoStart \/ MongoStop \/ \E r \in MongoReqs : MongoSubmit(r)
  <2>1. UNCHANGED <<attached, handles, mongoPc, rawClt, dbClt>>
    BY <1>1, Zenon DEF MongoStart, MongoStop, MongoSubmit
  <2> QED  BY <1>0, <2>1, Zenon DEF AttachInv
<1>2. ASSUME NEW w \in MongoWorkers,
             \/ MongoPop(w) \/ StartTransaction(w) \/ ExecuteBulk(w) \/ EndTransaction(w) \/ MongoRetryOrFail(w)
      PROVE  AttachInv'
  <2>1. LoansKept(w)
    BY <1>0, <1>2, LoanSteps, Zenon
  <2>2. Apart(w) /\ (mongoPc'[w] \in Attached <=> mongoPc[w] \in Attached)
    BY <1>0, <2>1, Zenon DEF LoansKept, Apart
  <2> QED  BY <1>a, <1>b, <2>1, <2>2, AttachApart, Zenon DEF LoansKept
<1>3. ASSUME NEW w \in MongoWorkers, TryPop(w) PROVE AttachInv'
  <2>1. Apart(w) /\ mongoPc'[w] \notin Attached /\ mongoPc[w] = "raw" /\ UNCHANGED <<dbClt, handles>>
    BY <1>0, <1>3, Zenon DEF TryPop, MongoGoto, Apart
  <2> QED  BY <1>b, <2>1, AttachApart, Zenon
<1>4. ASSUME NEW w \in MongoWorkers, MongoGetIdle(w) PROVE AttachInv'
  <2>0. mongoPc[w] = "clt" /\ UNCHANGED <<attached, handles, rawClt>>
    BY <1>4, Zenon DEF MongoGetIdle
  <2>1. Apart(w) /\ mongoPc'[w] \notin Attached
    BY <1>0, <1>4, <2>0, GetIdleClt DEF GetsClt, Apart
  <2> QED  BY <1>b, <2>0, <2>1, AttachApart, Zenon
<1>5. ASSUME NEW w \in MongoWorkers, Attach(w) PROVE AttachInv'
  <2>0. dbClt[w] \in MongoClts
    BY <1>0, <1>5, Zenon DEF Attach, LoanInv
  <2>1. /\ \E l \in Attached \cup {"idle"} : mongoPc' = [mongoPc EXCEPT ![w] = l]
        /\ attached' = [attached EXCEPT ![dbClt[w]] = rawClt[w]]
        /\ mongoPc[w] = "attach" /\ UNCHANGED <<handles, rawClt, dbClt>>
    BY <1>5, Zenon DEF Attach, MongoGoto
  <2>2. Apart(w) /\ attached'[dbClt[w]] = rawClt[w]
    BY <1>0, <2>0, <2>1, Zenon DEF Apart
  <2>3. handles'[dbClt[w]] = {}
    BY <1>b, <2>0, <2>1, Zenon
  <2> QED  BY <2>0, <2>1, <2>2, <2>3, AttachApart, Zenon
<1>6. ASSUME NEW w \in MongoWorkers, RunOp(w) PROVE AttachInv'
  <2>1. mongoPc[w] \in Attached /\ mongoPc'[w] \in Attached /\ UNCHANGED <<rawClt, dbClt, attached>>
    BY <1>0, <1>6, RunOpLoans, Zenon
  <2>2. handles'[dbClt[w]] = handles[dbClt[w]] \cup {attached[dbClt[w]]} /\ Apart(w)
    BY <1>0, <1>a, <1>6, <2>1, RunOpLoans DEF Apart
  <2> QED  BY <1>a, <2>1, <2>2, AttachApart, Zenon
<1>7. ASSUME NEW w \in MongoWorkers, Detach(w) PROVE AttachInv'
  <2>1. Apart(w) /\ mongoPc'[w] \notin Attached /\ (dbClt[w] \in MongoClts => handles'[dbClt[w]] = {})
    BY <1>0, <1>7, Zenon DEF Detach, MongoGoto, Apart
  <2> QED  BY <2>1, AttachApart, Zenon
<1>8. ASSUME NEW w \in MongoWorkers, MongoMarkIdle(w) PROVE AttachInv'
  <2>1. /\ Apart(w) /\ mongoPc'[w] \notin Attached /\ mongoPc[w] \notin Attached /\ UNCHANGED handles
    BY <1>0, <1>8, Zenon DEF MongoMarkIdle, MongoGoto, Apart
  <2> QED  BY <1>b, <2>1, AttachApart, Zenon
<1>9. ASSUME NEW w \in MongoWorkers, PushRaw(w) PROVE AttachInv'
  <2>1. \E l \in {"pop", "retry"} : mongoPc' = [mongoPc EXCEPT ![w] = l]
    BY <1>9, Zenon DEF PushRaw, MongoGoto
  <2>2. /\ Apart(w) /\ mongoPc'[w] \notin Attached /\ mongoPc[w] \notin Attached /\ UNCHANGED handles
    BY <1>0, <1>9, <2>1, Zenon DEF PushRaw, Apart
  <2> QED  BY <1>b, <2>2, AttachApart, Zenon
<1>10. CASE UNCHANGED mongoVars
  BY <1>0, <1>10, Zenon DEF mongoVars, AttachInv
<1> QED  BY <1>1, <1>2, <1>3, <1>4, <1>5, <1>6, <1>7, <1>8, <1>9, <1>10, Zenon DEF MongoNext
-----------------------------------------------------------------------------
\* Worker w moves to l with its request, whose answer, count of operations and
\* operations at the server become rc, n and s.
Moves(w, l, rc, n, s) ==
    /\ mongoPc[w] \in Taken /\ mongoPc' = [mongoPc EXCEPT ![w] = l]
    /\ mongoRc' = [mongoRc EXCEPT ![mongoReq[w]] = rc]
    /\ mongoDone' = [mongoDone EXCEPT ![mongoReq[w]] = n]
    /\ stored' = [stored EXCEPT ![mongoReq[w]] = s]
    /\ UNCHANGED <<mongoKind, mongoQueue, mongoReq>>

\* What TokenInv and StoredInv ask of such a move.
TokenFits(l, rc) ==
    /\ l \in Taken \ {"detach", "idle", "push"} => rc = "queued"
    /\ l \in Taken => rc # "none"
    /\ l = "detach" => rc # "queued"

StoredFits(r, l, rc, n, s) ==
    /\ n \in Nat /\ \E k \in 0..Ops(r) : s = Prefix(k)
    /\ rc \in {"none", "busy", "noclient"} => s = Prefix(0) /\ n = 0
    /\ rc \in {"nosession", "notstarted"} => s = Prefix(0)
    /\ rc = "ok" => s = Prefix(Ops(r))
    /\ l \in {"raw", "clt", "attach", "session", "retry"} => s = Prefix(0) /\ n = 0
    /\ l \in {"idle", "push"} /\ rc = "queued" => s = Prefix(0) /\ n = 0
    /\ l = "run" => n < Ops(r) /\ s = Prefix(IF mongoKind[r] = "bulk" THEN 0 ELSE n)
    /\ l = "execute" => mongoKind[r] = "bulk" /\ s = Prefix(0)
    /\ l = "commit" => mongoKind[r] = "transaction" /\ s = Prefix(Ops(r))

\* A worker that moves on with its request keeps the requests apart.
LEMMA TokenMoves ==
    ASSUME MongoTypes, TokenInv, NEW w \in MongoWorkers, NEW l, NEW rc, NEW n, NEW s,
           Moves(w, l, rc, n, s), TokenFits(l, rc)
    PROVE  TokenInv'
<1>1. /\ \A v \in MongoWorkers : mongoPc'[v] = IF v = w THEN l ELSE mongoPc[v]
      /\ \A r \in MongoReqs : mongoRc'[r] = IF r = mongoReq[w] THEN rc ELSE mongoRc[r]
      /\ mongoQueue' = mongoQueue /\ mongoReq' = mongoReq
      /\ mongoPc[w] \in Taken /\ mongoReq[w] \in MongoReqs
      /\ \A v \in MongoWorkers : mongoPc[v] \in Taken => mongoReq[v] \in MongoReqs
      /\ \A i \in 1..Len(mongoQueue) : mongoQueue[i] \in MongoReqs
  BY DEF MongoTypes, Moves
<1>2. \A i \in 1..Len(mongoQueue) : mongoRc'[mongoQueue[i]] = "queued"
  BY <1>1, Zenon DEF TokenInv
<1>3. ASSUME NEW v \in MongoWorkers, v # w, mongoPc[v] \in Taken
      PROVE  mongoRc'[mongoReq[v]] = mongoRc[mongoReq[v]]
  BY <1>1, <1>3, Zenon DEF TokenInv
<1>4. ASSUME NEW v \in MongoWorkers
      PROVE  /\ mongoPc'[v] \in Taken \ {"detach", "idle", "push"} => mongoRc'[mongoReq[v]] = "queued"
             /\ mongoPc'[v] \in Taken => mongoRc'[mongoReq[v]] # "none"
             /\ mongoPc'[v] = "detach" => mongoRc'[mongoReq[v]] # "queued"
  <2>1. CASE v = w
    BY <1>1, <2>1, Zenon DEF TokenFits
  <2>2. CASE v # w
    BY <1>1, <1>3, <2>2, Zenon DEF TokenInv, Taken, Borrowed, Wrapped, Attached
  <2> QED  BY <2>1, <2>2, Zenon
<1>5. \A v \in MongoWorkers : mongoPc'[v] \in Taken => mongoPc[v] \in Taken
  BY <1>1, Zenon
<1> QED  BY <1>1, <1>2, <1>4, <1>5, Zenon DEF TokenInv

\* A worker that moves on keeps what is known of the stored operations.
LEMMA StoredMoves ==
    ASSUME MongoTypes, TokenInv, StoredInv, NEW w \in MongoWorkers, NEW l, NEW rc, NEW n, NEW s,
           Moves(w, l, rc, n, s), StoredFits(mongoReq[w], l, rc, n, s)
    PROVE  StoredInv'
<1>1. /\ \A v \in MongoWorkers : mongoPc'[v] = IF v = w THEN l ELSE mongoPc[v]
      /\ \A r \in MongoReqs : mongoRc'[r] = IF r = mongoReq[w] THEN rc ELSE mongoRc[r]
      /\ \A r \in MongoReqs : mongoDone'[r] = IF r = mongoReq[w] THEN n ELSE mongoDone[r]
      /\ \A r \in MongoReqs : stored'[r] = IF r = mongoReq[w] THEN s ELSE stored[r]
      /\ mongoQueue' = mongoQueue /\ mongoReq' = mongoReq /\ mongoKind' = mongoKind
      /\ mongoPc[w] \in Taken /\ mongoReq[w] \in MongoReqs
      /\ \A v \in MongoWorkers : mongoPc[v] \in Taken => mongoReq[v] \in MongoReqs
      /\ \A i \in 1..Len(mongoQueue) : mongoQueue[i] \in MongoReqs /\ mongoQueue[i] # mongoReq[w]
      /\ \A v \in MongoWorkers : v # w /\ mongoPc[v] \in Taken => mongoReq[v] # mongoReq[w]
  <2>1. /\ mongoPc[w] \in Taken /\ mongoReq[w] \in MongoReqs
        /\ \A v \in MongoWorkers : mongoPc[v] \in Taken => mongoReq[v] \in MongoReqs
        /\ \A i \in 1..Len(mongoQueue) : mongoQueue[i] \in MongoReqs
    BY DEF MongoTypes, Moves
  <2>2. /\ \A i \in 1..Len(mongoQueue) : mongoQueue[i] # mongoReq[w]
        /\ \A v \in MongoWorkers : v # w /\ mongoPc[v] \in Taken => mongoReq[v] # mongoReq[w]
    BY <2>1, Zenon DEF TokenInv
  <2>3. /\ mongoPc \in [MongoWorkers -> Taken \cup {"pop", "exit"}] /\ mongoRc \in [MongoReqs -> Rcs]
        /\ mongoDone \in [MongoReqs -> Nat] /\ stored \in [MongoReqs -> {Prefix(k) : k \in Nat}]
    BY Zenon DEF MongoTypes, StoredInv
  <2> QED  BY <2>1, <2>2, <2>3, Zenon DEF Moves
<1>2. \A r \in MongoReqs : Ops(r) = (Ops(r))' /\ (IF mongoKind[r] = "write" THEN 1 ELSE MongoOps) = Ops(r)
  BY <1>1, Zenon DEF Ops
<1>3. /\ mongoDone' \in [MongoReqs -> Nat]
      /\ stored' \in [MongoReqs -> {Prefix(k) : k \in Nat}]
  <2>1. \A r \in MongoReqs : Ops(r) \in Nat
    BY MongoOpsAssumption, Zenon DEF Ops
  <2>2. s \in {Prefix(k) : k \in Nat} /\ n \in Nat
    BY <1>1, <2>1 DEF StoredFits
  <2> QED  BY <2>2, Zenon DEF StoredInv, Moves
<1>4. ASSUME NEW r \in MongoReqs
      PROVE  /\ \E k \in 0..Ops(r) : stored'[r] = Prefix(k)
             /\ mongoRc'[r] \in {"none", "busy", "noclient"} => stored'[r] = Prefix(0) /\ mongoDone'[r] = 0
             /\ mongoRc'[r] \in {"nosession", "notstarted"} => stored'[r] = Prefix(0)
             /\ mongoRc'[r] = "ok" => stored'[r] = Prefix(Ops(r))
  <2>1. CASE r = mongoReq[w]
    BY <1>1, <2>1, Zenon DEF StoredFits
  <2>2. CASE r # mongoReq[w]
    <3>1. mongoRc'[r] = mongoRc[r] /\ mongoDone'[r] = mongoDone[r] /\ stored'[r] = stored[r]
      BY <1>1, <2>2, Zenon
    <3> QED  BY <3>1, Zenon DEF StoredInv, Untouched
  <2> QED  BY <2>1, <2>2, Zenon
<1>5. \A i \in 1..Len(mongoQueue) : stored'[mongoQueue[i]] = Prefix(0) /\ mongoDone'[mongoQueue[i]] = 0
  BY <1>1, Zenon DEF StoredInv, Untouched
<1>6. ASSUME NEW v \in MongoWorkers, NEW r, r = mongoReq[v]
      PROVE  /\ mongoPc'[v] \in {"raw", "clt", "attach", "session", "retry"} =>
                   stored'[r] = Prefix(0) /\ mongoDone'[r] = 0
             /\ mongoPc'[v] \in {"idle", "push"} /\ mongoRc'[r] = "queued" =>
                   stored'[r] = Prefix(0) /\ mongoDone'[r] = 0
             /\ mongoPc'[v] = "run" =>
                   /\ mongoDone'[r] < Ops(r)
                   /\ stored'[r] = Prefix(IF mongoKind[r] = "bulk" THEN 0 ELSE mongoDone'[r])
             /\ mongoPc'[v] = "execute" => mongoKind[r] = "bulk" /\ stored'[r] = Prefix(0)
             /\ mongoPc'[v] = "commit" => mongoKind[r] = "transaction" /\ stored'[r] = Prefix(Ops(r))
  <2>1. CASE v = w
    BY <1>1, <1>6, <2>1, Zenon DEF StoredFits
  <2>2. CASE v # w /\ mongoPc[v] \in Taken
    <3>1. stored'[r] = stored[r] /\ mongoDone'[r] = mongoDone[r] /\ mongoRc'[r] = mongoRc[r] /\ mongoPc'[v] = mongoPc[v]
      BY <1>1, <1>6, <2>2, Zenon
    <3> QED  BY <1>6, <3>1, Zenon DEF StoredInv, Untouched
  <2>3. CASE v # w /\ mongoPc[v] \notin Taken
    BY <1>1, <2>3, Zenon DEF Taken, Borrowed, Wrapped, Attached
  <2> QED  BY <2>1, <2>2, <2>3, Zenon
<1>7. \A v \in MongoWorkers : mongoPc'[v] = "run" => mongoReq[v] \in MongoReqs
  BY <1>1, Zenon DEF Taken, Borrowed, Wrapped, Attached
<1>8. \A v \in MongoWorkers : mongoPc'[v] = "commit" => mongoReq[v] \in MongoReqs
  BY <1>1, Zenon DEF Taken, Borrowed, Wrapped, Attached
<1>9. ASSUME NEW v \in MongoWorkers, NEW r, r = mongoReq[v]
      PROVE  /\ mongoPc'[v] = "run" => mongoDone'[r] < (Ops(r))'
             /\ mongoPc'[v] = "commit" => stored'[r] = Prefix((Ops(r))')
  BY <1>2, <1>6, <1>7, <1>8, <1>9, Zenon
<1> QED  BY <1>1, <1>2, <1>3, <1>4, <1>5, <1>6, <1>9 DEF StoredInv, Untouched

\* The operations a request runs, one after the other.
LEMMA PrefixFacts ==
    /\ Prefix(0) = <<>>
    /\ \A n \in Nat : Len(Prefix(n)) = n /\ Append(Prefix(n), n + 1) = Prefix(n + 1)
    /\ \A n \in Nat : Prefix(0) \o [i \in 1..n |-> i] = Prefix(n)
<1>1. Prefix(0) = <<>>
  BY DEF Prefix
<1>2. ASSUME NEW n \in Nat PROVE Prefix(n) \in Seq(Nat) /\ Len(Prefix(n)) = n
  BY DEF Prefix
<1>3. ASSUME NEW n \in Nat PROVE Append(Prefix(n), n + 1) = Prefix(n + 1)
  <2>1. Len(Append(Prefix(n), n + 1)) = n + 1 /\ Append(Prefix(n), n + 1) \in Seq(Nat)
    BY <1>2
  <2>2. \A i \in 1..(n + 1) : Append(Prefix(n), n + 1)[i] = i
    BY <1>2 DEF Prefix
  <2> QED  BY <2>1, <2>2 DEF Prefix
<1>4. ASSUME NEW n \in Nat PROVE Prefix(0) \o [i \in 1..n |-> i] = Prefix(n)
  <2>1. Prefix(n) \in Seq(Nat)
    BY <1>2, Zenon
  <2>2. <<>> \o Prefix(n) = Prefix(n)
    BY <2>1
  <2> QED  BY <1>1, <2>2, Zenon DEF Prefix
<1> QED  BY <1>1, <1>2, <1>3, <1>4, Zenon

\* A request has at least one operation.
LEMMA OpsType == ASSUME NEW r PROVE Ops(r) \in Nat /\ Ops(r) >= 1
BY MongoOpsAssumption DEF Ops

\* A cell that is set to its own value.
LEMMA KeptCell ==
    ASSUME NEW S, NEW T, NEW f \in [S -> T], NEW x \in S
    PROVE  f = [f EXCEPT ![x] = f[x]]
BY Zenon

\* A worker that only moves on.
LEMMA MovesOn ==
    ASSUME MongoTypes, StoredInv, NEW w \in MongoWorkers, NEW l, mongoPc[w] \in Taken, MongoGoto(w, l),
           UNCHANGED <<mongoKind, mongoQueue, mongoReq, mongoRc, mongoDone, stored>>
    PROVE  Moves(w, l, mongoRc[mongoReq[w]], mongoDone[mongoReq[w]], stored[mongoReq[w]])
<1> DEFINE r == mongoReq[w]
<1>1. r \in MongoReqs /\ mongoRc \in [MongoReqs -> Rcs]
  BY Zenon DEF MongoTypes
<1>2. mongoDone \in [MongoReqs -> Nat] /\ stored \in [MongoReqs -> {Prefix(n) : n \in Nat}]
  BY Zenon DEF StoredInv
<1>3. mongoRc' = [mongoRc EXCEPT ![r] = mongoRc[r]]
  BY <1>1, KeptCell, Zenon
<1>4. mongoDone' = [mongoDone EXCEPT ![r] = mongoDone[r]] /\ stored' = [stored EXCEPT ![r] = stored[r]]
  BY <1>1, <1>2, KeptCell, Zenon
<1> QED  BY <1>3, <1>4, Zenon DEF Moves, MongoGoto

\* A worker that answers its request.
LEMMA AnswersOn ==
    ASSUME MongoTypes, StoredInv, NEW w \in MongoWorkers, NEW rc, mongoPc[w] \in Taken, Reply(w, rc),
           UNCHANGED <<mongoKind, mongoQueue, mongoReq, mongoDone, stored>>
    PROVE  Moves(w, "detach", rc, mongoDone[mongoReq[w]], stored[mongoReq[w]])
<1> DEFINE r == mongoReq[w]
<1>1. r \in MongoReqs
  BY Zenon DEF MongoTypes
<1>2. mongoDone \in [MongoReqs -> Nat] /\ stored \in [MongoReqs -> {Prefix(n) : n \in Nat}]
  BY Zenon DEF StoredInv
<1>3. mongoDone' = [mongoDone EXCEPT ![r] = mongoDone[r]] /\ stored' = [stored EXCEPT ![r] = stored[r]]
  BY <1>1, <1>2, KeptCell, Zenon
<1> QED  BY <1>3, Zenon DEF Moves, Reply, MongoGoto

\* A request of which nothing was run yet may be at any step before the first
\* operation, or on its way back to the queue.
LEMMA FreshFits ==
    ASSUME NEW r, NEW l \in {"clt", "attach", "session", "run", "idle", "push", "retry"}
    PROVE  TokenFits(l, "queued") /\ StoredFits(r, l, "queued", 0, Prefix(0))
<1>1. Ops(r) \in Nat /\ 0 < Ops(r) /\ 0 \in 0..Ops(r)
  BY OpsType
<1>2. TokenFits(l, "queued")
  BY Zenon DEF TokenFits
<1>3. Prefix(0) = Prefix(IF mongoKind[r] = "bulk" THEN 0 ELSE 0)
  BY Zenon
<1> QED  BY <1>1, <1>2, <1>3, Zenon DEF StoredFits

\* What a request may be answered with when the server has its first k operations.
LEMMA AnswerFits ==
    ASSUME NEW r, NEW rc, NEW n \in Nat, NEW k \in 0..Ops(r), rc \notin {"none", "busy", "noclient", "queued"},
           rc \in {"nosession", "notstarted"} => k = 0, rc = "ok" => k = Ops(r)
    PROVE  TokenFits("detach", rc) /\ StoredFits(r, "detach", rc, n, Prefix(k))
<1>1. TokenFits("detach", rc)
  BY Zenon DEF TokenFits
<1> QED  BY <1>1, Zenon DEF StoredFits

\* A transaction may be rolled back whatever the server has of it.
LEMMA RollbackFits ==
    ASSUME NEW r, NEW n \in Nat, NEW k \in 0..Ops(r)
    PROVE  TokenFits("rollback", "queued") /\ StoredFits(r, "rollback", "queued", n, Prefix(k))
<1>1. TokenFits("rollback", "queued")
  BY Zenon DEF TokenFits
<1> QED  BY <1>1, Zenon DEF StoredFits

\* What is known of the request of a worker.
LEMMA RequestOf ==
    ASSUME MongoTypes, TokenInv, StoredInv, NEW w \in MongoWorkers, mongoPc[w] \in Taken
    PROVE  LET r == mongoReq[w] IN
           /\ r \in MongoReqs /\ mongoDone[r] \in Nat /\ \E k \in 0..Ops(r) : stored[r] = Prefix(k)
           /\ mongoPc[w] \notin {"detach", "idle", "push"} => mongoRc[r] = "queued"
           /\ mongoRc[r] # "none"
           /\ mongoPc[w] \in {"raw", "clt", "attach", "session", "retry"} =>
                 stored[r] = Prefix(0) /\ mongoDone[r] = 0
<1> DEFINE r == mongoReq[w]
<1>1. r \in MongoReqs
  BY Zenon DEF MongoTypes
<1>2. mongoDone[r] \in Nat /\ \E k \in 0..Ops(r) : stored[r] = Prefix(k)
  BY <1>1, Zenon DEF StoredInv
<1>3. mongoRc[r] # "none" /\ (mongoPc[w] \notin {"detach", "idle", "push"} => mongoRc[r] = "queued")
  BY Zenon DEF TokenInv
<1>4. mongoPc[w] \in {"raw", "clt", "attach", "session", "retry"} =>
         stored[r] = Prefix(0) /\ mongoDone[r] = 0
  BY Zenon DEF StoredInv, Untouched
<1> QED  BY <1>1, <1>2, <1>3, <1>4, Zenon

\* An answered request, or one that goes back to the queue, is let go.
LEMMA BackFits ==
    ASSUME StoredInv, NEW r \in MongoReqs, NEW l \in {"idle", "push", "pop", "retry"}, mongoRc[r] # "none",
           mongoRc[r] = "queued" => Untouched(r), l = "retry" => mongoRc[r] = "queued"
    PROVE  TokenFits(l, mongoRc[r]) /\ StoredFits(r, l, mongoRc[r], mongoDone[r], stored[r])
<1>1. TokenFits(l, mongoRc[r])
  BY Zenon DEF TokenFits, Taken, Borrowed, Wrapped, Attached
<1>2. mongoDone[r] \in Nat
  BY Zenon DEF StoredInv
<1>3. /\ \E k \in 0..Ops(r) : stored[r] = Prefix(k)
      /\ mongoRc[r] \in {"none", "busy", "noclient"} => stored[r] = Prefix(0) /\ mongoDone[r] = 0
      /\ mongoRc[r] \in {"nosession", "notstarted"} => stored[r] = Prefix(0)
      /\ mongoRc[r] = "ok" => stored[r] = Prefix(Ops(r))
  BY Zenon DEF StoredInv, Untouched
<1> QED  BY <1>1, <1>2, <1>3, Zenon DEF StoredFits, Untouched

\* Each step of a worker with its request is a move that fits.
LEMMA WorkerMoves ==
    ASSUME MongoTypes, TokenInv, StoredInv, NEW w \in MongoWorkers,
           \/ TryPop(w) \/ MongoGetIdle(w) \/ Attach(w) \/ StartTransaction(w) \/ RunOp(w)
           \/ ExecuteBulk(w) \/ EndTransaction(w) \/ Detach(w) \/ MongoMarkIdle(w) \/ PushRaw(w)
    PROVE  \E l, rc, n, s : /\ Moves(w, l, rc, n, s) /\ TokenFits(l, rc)
                            /\ StoredFits(mongoReq[w], l, rc, n, s)
<1> DEFINE r == mongoReq[w]
           Fits(l, rc, n, s) == TokenFits(l, rc) /\ StoredFits(r, l, rc, n, s)
<1>0. mongoPc[w] \in Taken
  BY Zenon DEF TryPop, MongoGetIdle, Attach, StartTransaction, RunOp, ExecuteBulk, EndTransaction, Detach,
         MongoMarkIdle, PushRaw, Taken, Borrowed, Wrapped, Attached
<1>r. /\ r \in MongoReqs /\ mongoDone[r] \in Nat /\ mongoRc[r] # "none"
      /\ mongoPc[w] \notin {"detach", "idle", "push"} => mongoRc[r] = "queued"
      /\ mongoPc[w] \in {"raw", "clt", "attach", "session", "retry"} =>
            stored[r] = Prefix(0) /\ mongoDone[r] = 0
  BY <1>0, RequestOf, Zenon
<1>k. PICK k \in 0..Ops(r) : stored[r] = Prefix(k)
  BY <1>0, RequestOf, Zenon
<1> HIDE DEF r
<1>1. CASE TryPop(w) \/ MongoGetIdle(w) \/ Attach(w)
  <2>1. mongoPc[w] \in {"raw", "clt", "attach"}
    BY <1>1, Zenon DEF TryPop, MongoGetIdle, Attach
  <2>2. mongoRc[r] = "queued" /\ stored[r] = Prefix(0) /\ mongoDone[r] = 0
    BY <1>r, <2>1, Zenon
  <2>3. UNCHANGED <<mongoKind, mongoQueue, mongoReq, mongoRc, mongoDone, stored>>
    BY <1>1, Zenon DEF TryPop, MongoGetIdle, Attach, mongoReqVars
  <2>4. PICK l \in {"clt", "attach", "session", "run", "idle", "push", "retry"} : MongoGoto(w, l)
    BY <1>1, Zenon DEF TryPop, MongoGetIdle, Attach
  <2>5. Moves(w, l, mongoRc[r], mongoDone[r], stored[r])
    BY <1>0, <2>3, <2>4, MovesOn, Zenon DEF r
  <2>6. Fits(l, mongoRc[r], mongoDone[r], stored[r])
    BY <2>2, FreshFits, Zenon
  <2> QED  BY <2>5, <2>6, Zenon DEF r
<1>2. CASE StartTransaction(w)
  <2>1. mongoRc[r] = "queued" /\ stored[r] = Prefix(0) /\ mongoDone[r] = 0
    BY <1>r, <1>2, Zenon DEF StartTransaction
  <2>2. UNCHANGED <<mongoKind, mongoQueue, mongoReq, mongoDone, stored>>
    BY <1>2, Zenon DEF StartTransaction
  <2>3. CASE MongoGoto(w, "run") /\ UNCHANGED mongoRc
    <3>1. Moves(w, "run", mongoRc[r], mongoDone[r], stored[r])
      BY <1>0, <2>2, <2>3, MovesOn, Zenon DEF r
    <3>2. Fits("run", mongoRc[r], mongoDone[r], stored[r])
      BY <2>1, FreshFits, Zenon
    <3> QED  BY <3>1, <3>2, Zenon DEF r
  <2>4. ASSUME NEW rc \in {"nosession", "notstarted"}, Reply(w, rc)
        PROVE  Moves(w, "detach", rc, mongoDone[r], stored[r]) /\ Fits("detach", rc, mongoDone[r], stored[r])
    <3>1. Moves(w, "detach", rc, mongoDone[r], stored[r])
      BY <1>0, <2>2, <2>4, AnswersOn, Zenon DEF r
    <3>2. 0 \in 0..Ops(r) /\ rc \notin {"none", "busy", "noclient", "queued"} /\ rc # "ok"
      BY OpsType
    <3>3. Fits("detach", rc, mongoDone[r], stored[r])
      BY <1>r, <2>1, <3>2, AnswerFits, Zenon
    <3> QED  BY <3>1, <3>3, Zenon
  <2> QED  BY <1>2, <2>3, <2>4, Zenon DEF StartTransaction, r
<1>3. CASE ExecuteBulk(w)
  <2>1. stored[r] = Prefix(0) /\ UNCHANGED <<mongoKind, mongoQueue, mongoReq, mongoDone>>
    BY <1>3, Zenon DEF ExecuteBulk, StoredInv, r
  <2>2. PICK n \in 0..Ops(r) :
           /\ stored' = [stored EXCEPT ![r] = @ \o [i \in 1..n |-> i]]
           /\ (n = Ops(r) /\ Reply(w, "ok")) \/ Reply(w, "failed")
    BY <1>3, Zenon DEF ExecuteBulk, r
  <2>3. n \in Nat
    BY OpsType
  <2>4. stored' = [stored EXCEPT ![r] = Prefix(n)]
    BY <2>1, <2>2, <2>3, PrefixFacts, Zenon
  <2>r. PICK rc \in {"ok", "failed"} : Reply(w, rc) /\ (rc = "ok" => n = Ops(r))
    BY <2>2, Zenon
  <2>5. Moves(w, "detach", rc, mongoDone[r], Prefix(n))
    <3>1. mongoDone' = [mongoDone EXCEPT ![r] = mongoDone[r]]
      BY <1>r, <2>1, KeptCell, Zenon DEF StoredInv
    <3> QED  BY <1>0, <2>1, <2>r, <2>4, <3>1, Zenon DEF Moves, Reply, MongoGoto, r
  <2>6. rc \notin {"none", "busy", "noclient", "queued", "nosession", "notstarted"} /\ (rc = "ok" => n = Ops(r))
    BY <2>r, Zenon
  <2>7. Fits("detach", rc, mongoDone[r], Prefix(n))
    BY <1>r, <2>6, AnswerFits, Zenon
  <2> QED  BY <2>5, <2>7, Zenon DEF r
<1>4. CASE EndTransaction(w)
  <2>1. mongoPc[w] \in {"commit", "rollback"} /\ UNCHANGED <<mongoKind, mongoQueue, mongoReq, mongoDone, stored>>
    BY <1>4, Zenon DEF EndTransaction
  <2>2. CASE MongoGoto(w, "rollback") /\ UNCHANGED mongoRc
    <3>1. Moves(w, "rollback", mongoRc[r], mongoDone[r], stored[r])
      BY <1>0, <2>1, <2>2, MovesOn, Zenon DEF r
    <3>2. mongoRc[r] = "queued"
      BY <1>r, <2>1, Zenon
    <3>3. Fits("rollback", mongoRc[r], mongoDone[r], stored[r])
      BY <1>r, <1>k, <3>2, RollbackFits, Zenon
    <3> QED  BY <3>1, <3>3, Zenon DEF r
  <2>3. ASSUME NEW rc \in {"ok", "rollbackfailed", "rolledback"}, Reply(w, rc),
               rc = "ok" => mongoPc[w] = "commit"
        PROVE  Moves(w, "detach", rc, mongoDone[r], stored[r]) /\ Fits("detach", rc, mongoDone[r], stored[r])
    <3>1. Moves(w, "detach", rc, mongoDone[r], stored[r])
      BY <1>0, <2>1, <2>3, AnswersOn, Zenon DEF r
    <3>2. PICK j \in 0..Ops(r) : stored[r] = Prefix(j) /\ (rc = "ok" => j = Ops(r))
      <4>1. rc = "ok" => stored[r] = Prefix(Ops(r))
        BY <2>3, Zenon DEF StoredInv, r
      <4>2. Ops(r) \in 0..Ops(r)
        BY OpsType
      <4> QED  BY <1>k, <4>1, <4>2, Zenon
    <3>3. rc \notin {"none", "busy", "noclient", "queued", "nosession", "notstarted"}
      BY Zenon
    <3>4. Fits("detach", rc, mongoDone[r], stored[r])
      BY <1>r, <3>2, <3>3, AnswerFits, Zenon
    <3> QED  BY <3>1, <3>4, Zenon
  <2> QED  BY <1>4, <2>2, <2>3, Zenon DEF EndTransaction, r
<1>5. CASE Detach(w) \/ MongoMarkIdle(w) \/ PushRaw(w)
  <2>1. UNCHANGED <<mongoKind, mongoQueue, mongoReq, mongoRc, mongoDone, stored>>
    BY <1>5, Zenon DEF Detach, MongoMarkIdle, PushRaw, mongoReqVars
  <2>2. mongoPc[w] \in {"detach", "idle", "push"}
    BY <1>5, Zenon DEF Detach, MongoMarkIdle, PushRaw
  <2>3. mongoRc[r] = "queued" => Untouched(r)
    BY <2>2, Zenon DEF TokenInv, StoredInv, r
  <2>4. PICK l \in {"idle", "push", "pop", "retry"} : MongoGoto(w, l) /\ (l = "retry" => mongoRc[r] = "queued")
    BY <1>5, Zenon DEF Detach, MongoMarkIdle, PushRaw, Handled, r
  <2>5. Moves(w, l, mongoRc[r], mongoDone[r], stored[r])
    BY <1>0, <2>1, <2>4, MovesOn, Zenon DEF r
  <2>6. Fits(l, mongoRc[r], mongoDone[r], stored[r])
    BY <1>r, <2>3, <2>4, BackFits, Zenon
  <2> QED  BY <2>5, <2>6, Zenon DEF r
<1>6. CASE RunOp(w)
  <2> DEFINE i == mongoDone[r] + 1
             s == Prefix(IF mongoKind[r] = "bulk" THEN 0 ELSE i)
  <2>1. mongoPc[w] = "run" /\ UNCHANGED <<mongoKind, mongoQueue, mongoReq>>
    BY <1>6, Zenon DEF RunOp
  <2>2. mongoRc[r] = "queued" /\ mongoKind[r] \in {"write", "bulk", "transaction"}
    BY <1>r, <2>1, Zenon DEF MongoTypes
  <2>3. /\ mongoDone[r] < Ops(r)
        /\ stored[r] = Prefix(IF mongoKind[r] = "bulk" THEN 0 ELSE mongoDone[r])
    BY <2>1, Zenon DEF StoredInv, r
  <2>4. i \in Nat /\ Ops(r) \in Nat /\ i <= Ops(r) /\ 0 \in 0..Ops(r)
    BY <1>r, <2>3, OpsType
  <2>f. ASSUME UNCHANGED mongoDone, UNCHANGED stored \/ (mongoKind[r] # "bulk" /\ MongoApply(r, i))
        PROVE  /\ mongoDone' = [mongoDone EXCEPT ![r] = mongoDone[r]]
               /\ \E j \in 0..Ops(r) : stored' = [stored EXCEPT ![r] = Prefix(j)]
    <3>1. mongoDone' = [mongoDone EXCEPT ![r] = mongoDone[r]] /\ stored = [stored EXCEPT ![r] = stored[r]]
      BY <1>r, <2>f, KeptCell, Zenon DEF StoredInv
    <3>2. CASE UNCHANGED stored
      BY <1>k, <3>1, <3>2, Zenon
    <3>3. CASE mongoKind[r] # "bulk" /\ MongoApply(r, i)
      <4>1. Append(stored[r], i) = Prefix(i) /\ i \in 0..Ops(r)
        <5>1. i \in 0..Ops(r)
          BY <2>4
        <5> QED  BY <1>r, <2>3, <3>3, <5>1, PrefixFacts, Zenon
      <4> QED  BY <3>1, <3>3, <4>1, Zenon DEF MongoApply
    <3> QED  BY <2>f, <3>1, <3>2, <3>3, Zenon
  <2>5. CASE /\ UNCHANGED mongoDone /\ (UNCHANGED stored \/ (mongoKind[r] # "bulk" /\ MongoApply(r, i)))
             /\ MongoGoto(w, "rollback") /\ UNCHANGED mongoRc
    <3>1. PICK j \in 0..Ops(r) : stored' = [stored EXCEPT ![r] = Prefix(j)]
      BY <2>5, <2>f, Zenon
    <3>2. Moves(w, "rollback", mongoRc[r], mongoDone[r], Prefix(j))
      <4>1. mongoRc' = [mongoRc EXCEPT ![r] = mongoRc[r]] /\ mongoDone' = [mongoDone EXCEPT ![r] = mongoDone[r]]
        BY <1>r, <2>5, <2>f, KeptCell, Zenon DEF MongoTypes
      <4> QED  BY <1>0, <2>1, <2>5, <3>1, <4>1, Zenon DEF Moves, MongoGoto, r
    <3>3. Fits("rollback", mongoRc[r], mongoDone[r], Prefix(j))
      BY <1>r, <2>2, RollbackFits, Zenon
    <3> QED  BY <3>2, <3>3, Zenon DEF r
  <2>6. CASE /\ UNCHANGED mongoDone /\ (UNCHANGED stored \/ (mongoKind[r] # "bulk" /\ MongoApply(r, i)))
             /\ Reply(w, "failed")
    <3>1. PICK j \in 0..Ops(r) : stored' = [stored EXCEPT ![r] = Prefix(j)]
      BY <2>6, <2>f, Zenon
    <3>2. Moves(w, "detach", "failed", mongoDone[r], Prefix(j))
      <4>1. mongoDone' = [mongoDone EXCEPT ![r] = mongoDone[r]]
        BY <2>6, <2>f, Zenon
      <4> QED  BY <1>0, <2>1, <2>6, <3>1, <4>1, Zenon DEF Moves, Reply, MongoGoto, r
    <3>3. Fits("detach", "failed", mongoDone[r], Prefix(j))
      BY <1>r, AnswerFits, Zenon
    <3> QED  BY <3>2, <3>3, Zenon DEF r
  <2>7. CASE /\ mongoDone' = [mongoDone EXCEPT ![r] = i]
             /\ IF mongoKind[r] = "bulk" THEN UNCHANGED stored ELSE MongoApply(r, i)
    <3>1. stored' = [stored EXCEPT ![r] = s]
      <4>1. CASE mongoKind[r] = "bulk"
        <5>1. stored = [stored EXCEPT ![r] = stored[r]]
          BY <1>r, KeptCell, Zenon DEF StoredInv
        <5> QED  BY <2>3, <2>7, <4>1, <5>1, Zenon
      <4>2. CASE mongoKind[r] # "bulk"
        <5>1. Append(stored[r], i) = Prefix(i)
          BY <1>r, <2>3, <4>2, PrefixFacts, Zenon
        <5> QED  BY <2>7, <4>2, <5>1, Zenon DEF MongoApply
      <4> QED  BY <4>1, <4>2, Zenon
    <3>2. ASSUME NEW l, NEW rc, mongoPc' = [mongoPc EXCEPT ![w] = l], mongoRc' = [mongoRc EXCEPT ![r] = rc]
          PROVE  Moves(w, l, rc, i, s)
      BY <1>0, <2>1, <2>7, <3>1, <3>2, Zenon DEF Moves, r
    <3>3. mongoRc = [mongoRc EXCEPT ![r] = "queued"] /\ mongoPc = [mongoPc EXCEPT ![w] = "run"]
      <4>1. mongoRc = [mongoRc EXCEPT ![r] = mongoRc[r]] /\ mongoPc = [mongoPc EXCEPT ![w] = mongoPc[w]]
        BY <1>r, KeptCell, Zenon DEF MongoTypes
      <4> QED  BY <2>1, <2>2, <4>1, Zenon
    <3>4. i \in 0..Ops(r) /\ IF mongoKind[r] = "bulk" THEN s = Prefix(0) ELSE s = Prefix(i)
      BY <2>4
    <3>s. \E j \in 0..Ops(r) : s = Prefix(j)
      BY <2>4, <3>4, Zenon
    <3> HIDE DEF i, s
    <3>5. CASE i < Ops(r) /\ UNCHANGED <<mongoPc, mongoRc>>
      <4>1. Moves(w, "run", "queued", i, s)
        BY <3>2, <3>3, <3>5, Zenon
      <4>2. Fits("run", "queued", i, s)
        <5>1. s = Prefix(IF mongoKind[r] = "bulk" THEN 0 ELSE i)
          BY Zenon DEF s
        <5>2. TokenFits("run", "queued")
          BY Zenon DEF TokenFits
        <5> QED  BY <2>4, <3>s, <3>5, <5>1, <5>2, Zenon DEF StoredFits
      <4> QED  BY <4>1, <4>2, Zenon DEF r
    <3>6. CASE ~(i < Ops(r)) /\ mongoKind[r] = "write" /\ Reply(w, "ok")
      <4>1. i = Ops(r) /\ s = Prefix(i)
        BY <2>4, <3>4, <3>6
      <4>2. Moves(w, "detach", "ok", i, s)
        BY <3>2, <3>6, Zenon DEF Reply, MongoGoto, r
      <4>3. Fits("detach", "ok", i, s)
        BY <2>4, <3>4, <4>1, AnswerFits, Zenon
      <4> QED  BY <4>2, <4>3, Zenon DEF r
    <3>7. CASE mongoKind[r] = "bulk" /\ MongoGoto(w, "execute") /\ UNCHANGED mongoRc
      <4>1. Moves(w, "execute", "queued", i, s)
        BY <3>2, <3>3, <3>7, Zenon DEF MongoGoto
      <4>2. s = Prefix(0)
        BY <3>4, <3>7, Zenon
      <4>3. TokenFits("execute", "queued")
        BY Zenon DEF TokenFits
      <4>4. Fits("execute", "queued", i, s)
        BY <2>4, <3>s, <3>7, <4>2, <4>3, Zenon DEF StoredFits
      <4> QED  BY <4>1, <4>4, Zenon DEF r
    <3>8. CASE ~(i < Ops(r)) /\ mongoKind[r] = "transaction" /\ MongoGoto(w, "commit") /\ UNCHANGED mongoRc
      <4>1. Moves(w, "commit", "queued", i, s)
        BY <3>2, <3>3, <3>8, Zenon DEF MongoGoto
      <4>2. s = Prefix(Ops(r))
        BY <2>4, <3>4, <3>8
      <4>3. TokenFits("commit", "queued")
        BY Zenon DEF TokenFits
      <4>4. Fits("commit", "queued", i, s)
        BY <2>4, <3>s, <3>8, <4>2, <4>3, Zenon DEF StoredFits
      <4> QED  BY <4>1, <4>4, Zenon DEF r
    <3>9. CASE UNCHANGED mongoDone
      <4>1. mongoDone'[r] = i /\ i # mongoDone[r]
        BY <1>r, <2>7 DEF StoredInv, i
      <4> QED  BY <3>9, <4>1, Zenon
    <3> QED  BY <1>6, <2>2, <3>5, <3>6, <3>7, <3>8, <3>9, Zenon DEF RunOp, r, i
  <2> QED  BY <1>6, <2>5, <2>6, <2>7, Zenon DEF RunOp, r
<1> QED  BY <1>1, <1>2, <1>3, <1>4, <1>5, <1>6, Zenon

\* What the three changes of _queue make of its elements.
LEMMA QueueSteps ==
    ASSUME NEW S, NEW q \in Seq(S), NEW r \in S
    PROVE  /\ Len(q) \in Nat
           /\ /\ Len(Append(q, r)) = Len(q) + 1
              /\ \A i \in 1..Len(q) + 1 : Append(q, r)[i] = IF i <= Len(q) THEN q[i] ELSE r
           /\ /\ Len(<<r>> \o q) = Len(q) + 1
              /\ \A i \in 1..Len(q) + 1 : (<<r>> \o q)[i] = IF i = 1 THEN r ELSE q[i - 1]
           /\ q # <<>> =>
                /\ Len(q) >= 1 /\ Head(q) = q[1] /\ Len(Tail(q)) = Len(q) - 1
                /\ \A i \in 1..Len(q) - 1 : Tail(q)[i] = q[i + 1]
<1>1. /\ Len(Append(q, r)) = Len(q) + 1
      /\ \A i \in 1..Len(q) + 1 : Append(q, r)[i] = IF i <= Len(q) THEN q[i] ELSE r
  OBVIOUS
<1>2. Len(<<r>> \o q) = Len(q) + 1
  OBVIOUS
<1>3. \A i \in 1..Len(q) + 1 : (<<r>> \o q)[i] = IF i = 1 THEN r ELSE q[i - 1]
  OBVIOUS
<1>4. q # <<>> =>
        /\ Len(q) >= 1 /\ Head(q) = q[1] /\ Len(Tail(q)) = Len(q) - 1
        /\ \A i \in 1..Len(q) - 1 : Tail(q)[i] = q[i + 1]
  OBVIOUS
<1> QED  BY <1>1, <1>2, <1>3, <1>4

\* A request the pool is too busy for is nowhere, and nothing of it was run.
LEMMA BusyStep ==
    ASSUME MongoTypes, TokenInv, StoredInv, NEW r \in MongoReqs, MongoSubmit(r),
           mongoRc' = [mongoRc EXCEPT ![r] = "busy"], UNCHANGED mongoQueue
    PROVE  TokenInv' /\ StoredInv'
<1>1. /\ mongoRc[r] = "none" /\ UNCHANGED <<mongoKind, mongoDone, stored, mongoPc, mongoReq>>
      /\ \A t \in MongoReqs : mongoRc'[t] = IF t = r THEN "busy" ELSE mongoRc[t]
  BY Zenon DEF MongoSubmit, MongoTypes
<1>2. /\ \A i \in 1..Len(mongoQueue) : mongoQueue[i] # r /\ mongoQueue[i] \in MongoReqs
      /\ \A w \in MongoWorkers : mongoPc[w] \in Taken => mongoReq[w] # r /\ mongoReq[w] \in MongoReqs
  <2>1. \A i \in 1..Len(mongoQueue) : mongoQueue[i] \in MongoReqs
    BY DEF MongoTypes
  <2> QED  BY <1>1, <2>1, Zenon DEF TokenInv, MongoTypes
<1>3. /\ \A i \in 1..Len(mongoQueue) : mongoRc'[mongoQueue[i]] = mongoRc[mongoQueue[i]]
      /\ \A w \in MongoWorkers : mongoPc[w] \in Taken => mongoRc'[mongoReq[w]] = mongoRc[mongoReq[w]]
  BY <1>1, <1>2, Zenon
<1>4. \A w \in MongoWorkers : mongoPc[w] \in {"detach", "idle", "push"} => mongoPc[w] \in Taken
  BY Zenon DEF Taken, Borrowed, Wrapped, Attached
<1>5. TokenInv'
  BY <1>1, <1>3, <1>4 DEF TokenInv
<1>6. StoredInv'
  <2>1. \A t : (Ops(t))' = Ops(t) /\ (Untouched(t))' = Untouched(t)
    BY <1>1, Zenon DEF Ops, Untouched
  <2>2. \A w \in MongoWorkers : mongoPc[w] \in {"idle", "push"} => mongoRc'[mongoReq[w]] = mongoRc[mongoReq[w]]
    BY <1>3, <1>4, Zenon
  <2>3. \A t \in MongoReqs : mongoRc'[t] = mongoRc[t] \/ (mongoRc'[t] = "busy" /\ Untouched(t))
    BY <1>1, Zenon DEF StoredInv
  <2>4. \A t \in MongoReqs :
           /\ mongoRc'[t] \in {"none", "busy", "noclient"} => Untouched(t)
           /\ mongoRc'[t] \in {"nosession", "notstarted"} => stored[t] = Prefix(0)
           /\ mongoRc'[t] = "ok" => stored[t] = Prefix(Ops(t))
    BY <2>3, Zenon DEF StoredInv
  <2>5. \A w \in MongoWorkers :
          /\ mongoPc[w] \in {"raw", "clt", "attach", "session", "retry"} => Untouched(mongoReq[w])
          /\ mongoPc[w] \in {"idle", "push"} /\ mongoRc'[mongoReq[w]] = "queued" => Untouched(mongoReq[w])
          /\ mongoPc[w] = "run" =>
                /\ mongoDone[mongoReq[w]] < Ops(mongoReq[w])
                /\ stored[mongoReq[w]] = Prefix(IF mongoKind[mongoReq[w]] = "bulk" THEN 0 ELSE mongoDone[mongoReq[w]])
          /\ mongoPc[w] = "execute" => mongoKind[mongoReq[w]] = "bulk" /\ stored[mongoReq[w]] = Prefix(0)
          /\ mongoPc[w] = "commit" => mongoKind[mongoReq[w]] = "transaction" /\ stored[mongoReq[w]] = Prefix(Ops(mongoReq[w]))
    BY <2>2, Zenon DEF StoredInv
  <2>6. /\ mongoDone \in [MongoReqs -> Nat]
        /\ stored \in [MongoReqs -> {Prefix(n) : n \in Nat}]
        /\ \A t \in MongoReqs : \E n \in 0..Ops(t) : stored[t] = Prefix(n)
    BY Zenon DEF StoredInv
  <2>7. \A i \in 1..Len(mongoQueue) : Untouched(mongoQueue[i])
    BY Zenon DEF StoredInv
  <2> QED  BY <1>1, <2>1, <2>4, <2>5, <2>6, <2>7, Zenon DEF StoredInv
<1> QED  BY <1>5, <1>6, Zenon

\* submit() queues a request that is nowhere else.
LEMMA SubmitStep ==
    ASSUME MongoTypes, TokenInv, StoredInv, NEW r \in MongoReqs, MongoSubmit(r)
    PROVE  TokenInv' /\ StoredInv'
<1> SUFFICES ASSUME mongoRc' = [mongoRc EXCEPT ![r] = "queued"], mongoQueue' = Append(mongoQueue, r)
             PROVE  TokenInv' /\ StoredInv'
  BY BusyStep, Zenon DEF MongoSubmit
<1>1. /\ mongoRc[r] = "none" /\ mongoQueue' = Append(mongoQueue, r)
      /\ \A t \in MongoReqs : mongoRc'[t] = IF t = r THEN "queued" ELSE mongoRc[t]
      /\ UNCHANGED <<mongoKind, mongoDone, stored, mongoPc, mongoReq>>
  BY Zenon DEF MongoSubmit, MongoTypes
<1>2. /\ Len(mongoQueue) \in Nat /\ Len(mongoQueue') = Len(mongoQueue) + 1
      /\ \A i \in 1..Len(mongoQueue') : mongoQueue'[i] = IF i <= Len(mongoQueue) THEN mongoQueue[i] ELSE r
      /\ \A i \in 1..Len(mongoQueue) : mongoQueue[i] \in MongoReqs
  BY <1>1, QueueSteps DEF MongoTypes
<1>3. /\ \A i \in 1..Len(mongoQueue) : mongoQueue[i] # r
      /\ \A w \in MongoWorkers : mongoPc[w] \in Taken => mongoReq[w] # r /\ mongoReq[w] \in MongoReqs
  BY <1>1, Zenon DEF TokenInv, MongoTypes
<1>4. ASSUME NEW i \in 1..Len(mongoQueue')
      PROVE  \/ i \in 1..Len(mongoQueue) /\ mongoQueue'[i] = mongoQueue[i]
             \/ i = Len(mongoQueue) + 1 /\ mongoQueue'[i] = r
  BY <1>2
<1>5. TokenInv'
  <2>1. \A i \in 1..Len(mongoQueue') : mongoRc'[mongoQueue'[i]] = "queued"
    BY <1>1, <1>2, <1>3, <1>4 DEF TokenInv
  <2>2. \A i, j \in 1..Len(mongoQueue') : mongoQueue'[i] = mongoQueue'[j] => i = j
    BY <1>3, <1>4 DEF TokenInv
  <2>3. \A w \in MongoWorkers : mongoPc[w] \in Taken => \A i \in 1..Len(mongoQueue') : mongoQueue'[i] # mongoReq[w]
    BY <1>3, <1>4 DEF TokenInv
  <2>4. \A w \in MongoWorkers : mongoPc[w] \in Taken => mongoRc'[mongoReq[w]] = mongoRc[mongoReq[w]]
    BY <1>1, <1>3, Zenon
  <2>5. \A w \in MongoWorkers : mongoPc[w] = "detach" => mongoPc[w] \in Taken
    BY Zenon DEF Taken, Borrowed, Wrapped, Attached
  <2> QED  BY <1>1, <2>1, <2>2, <2>3, <2>4, <2>5 DEF TokenInv
<1>6. StoredInv'
  <2>1. \A t : (Ops(t))' = Ops(t) /\ (Untouched(t))' = Untouched(t)
    BY <1>1, Zenon DEF Ops, Untouched
  <2>2. \A i \in 1..Len(mongoQueue') : (Untouched(mongoQueue[i]))'
    <3>1. \A i \in 1..Len(mongoQueue') : stored[mongoQueue'[i]] = Prefix(0) /\ mongoDone[mongoQueue'[i]] = 0
      BY <1>1, <1>4 DEF StoredInv, Untouched
    <3> QED  BY <1>1, <3>1, Zenon DEF Untouched
  <2>3. \A w \in MongoWorkers : mongoPc[w] \in {"idle", "push"} => mongoRc'[mongoReq[w]] = mongoRc[mongoReq[w]]
    BY <1>1, <1>3, Zenon DEF Taken, Borrowed, Wrapped
  <2>4. \A t \in MongoReqs : mongoRc'[t] = mongoRc[t] \/ mongoRc'[t] = "queued"
    BY <1>1, Zenon
  <2>5. \A t \in MongoReqs :
           /\ mongoRc'[t] \in {"none", "busy", "noclient"} => Untouched(t)
           /\ mongoRc'[t] \in {"nosession", "notstarted"} => stored[t] = Prefix(0)
           /\ mongoRc'[t] = "ok" => stored[t] = Prefix(Ops(t))
    BY <2>4, Zenon DEF StoredInv
  <2>6. \A w \in MongoWorkers :
          /\ mongoPc[w] \in {"raw", "clt", "attach", "session", "retry"} => Untouched(mongoReq[w])
          /\ mongoPc[w] \in {"idle", "push"} /\ mongoRc'[mongoReq[w]] = "queued" => Untouched(mongoReq[w])
          /\ mongoPc[w] = "run" =>
                /\ mongoDone[mongoReq[w]] < Ops(mongoReq[w])
                /\ stored[mongoReq[w]] = Prefix(IF mongoKind[mongoReq[w]] = "bulk" THEN 0 ELSE mongoDone[mongoReq[w]])
          /\ mongoPc[w] = "execute" => mongoKind[mongoReq[w]] = "bulk" /\ stored[mongoReq[w]] = Prefix(0)
          /\ mongoPc[w] = "commit" => mongoKind[mongoReq[w]] = "transaction" /\ stored[mongoReq[w]] = Prefix(Ops(mongoReq[w]))
    BY <2>3, Zenon DEF StoredInv
  <2>7. /\ mongoDone \in [MongoReqs -> Nat]
        /\ stored \in [MongoReqs -> {Prefix(n) : n \in Nat}]
        /\ \A t \in MongoReqs : \E n \in 0..Ops(t) : stored[t] = Prefix(n)
    BY Zenon DEF StoredInv
  <2> QED  BY <1>1, <2>1, <2>2, <2>5, <2>6, <2>7, Zenon DEF StoredInv
<1> QED  BY <1>5, <1>6, Zenon

\* A worker takes the first request of the queue, or leaves.
LEMMA PopStep ==
    ASSUME MongoTypes, TokenInv, StoredInv, NEW w \in MongoWorkers, MongoPop(w)
    PROVE  TokenInv' /\ StoredInv'
<1>0. UNCHANGED <<mongoKind, mongoDone, stored, mongoRc>>
  BY Zenon DEF MongoPop, mongoReqVars
<1>1. \A t : (Ops(t))' = Ops(t) /\ (Untouched(t))' = Untouched(t)
  BY <1>0, Zenon DEF Ops, Untouched
<1>2. CASE mongoPc' = [mongoPc EXCEPT ![w] = "exit"] /\ UNCHANGED <<mongoQueue, mongoReq>>
  <2>1. \A v \in MongoWorkers : mongoPc'[v] = IF v = w THEN "exit" ELSE mongoPc[v]
    BY <1>2, Zenon DEF MongoTypes
  <2>2. TokenInv'
    BY <1>0, <1>2, <2>1 DEF TokenInv, Taken, Borrowed, Wrapped, Attached
  <2>3. StoredInv'
    BY <1>0, <1>1, <1>2, <2>1 DEF StoredInv
  <2> QED  BY <2>2, <2>3, Zenon
<1>3. CASE /\ mongoQueue # <<>> /\ mongoReq' = [mongoReq EXCEPT ![w] = Head(mongoQueue)]
           /\ mongoQueue' = Tail(mongoQueue) /\ mongoPc' = [mongoPc EXCEPT ![w] = "raw"]
  <2> DEFINE r == mongoQueue[1]
  <2>1. /\ Len(mongoQueue) \in Nat /\ Len(mongoQueue) >= 1 /\ Len(mongoQueue') = Len(mongoQueue) - 1
        /\ Head(mongoQueue) = r
        /\ \A i \in 1..Len(mongoQueue') : mongoQueue'[i] = mongoQueue[i + 1]
    <3>1. mongoQueue \in Seq(MongoReqs)
      BY Zenon DEF MongoTypes
    <3>2. mongoQueue[1] \in MongoReqs
      BY <1>3, <3>1
    <3> QED  BY <1>3, <3>1, <3>2, QueueSteps
  <2>2. /\ \A v \in MongoWorkers : mongoPc'[v] = IF v = w THEN "raw" ELSE mongoPc[v]
        /\ \A v \in MongoWorkers : mongoReq'[v] = IF v = w THEN r ELSE mongoReq[v]
    BY <1>3, <2>1, Zenon DEF MongoTypes
  <2>3. \A i \in 1..Len(mongoQueue') : i + 1 \in 1..Len(mongoQueue) /\ mongoQueue'[i] = mongoQueue[i + 1] /\ i + 1 # 1
    BY <2>1
  <2>4. 1 \in 1..Len(mongoQueue) /\ mongoRc[r] = "queued" /\ Untouched(r)
    <3>1. 1 \in 1..Len(mongoQueue)
      BY <2>1
    <3> QED  BY <3>1, Zenon DEF TokenInv, StoredInv
  <2>5. TokenInv'
    <3>1. \A i \in 1..Len(mongoQueue') : mongoRc'[mongoQueue'[i]] = "queued"
      BY <1>0, <2>3 DEF TokenInv
    <3>2. \A i, j \in 1..Len(mongoQueue') : mongoQueue'[i] = mongoQueue'[j] => i = j
      <4>1. \A i, j \in 1..Len(mongoQueue') : mongoQueue'[i] = mongoQueue'[j] => i + 1 = j + 1
        BY <2>3 DEF TokenInv
      <4> QED  BY <2>1, <4>1
    <3>3. \A i \in 1..Len(mongoQueue') : mongoQueue'[i] # r
      BY <2>3, <2>4 DEF TokenInv
    <3>4. \A v \in MongoWorkers : v # w /\ mongoPc[v] \in Taken =>
             mongoReq[v] # r /\ \A i \in 1..Len(mongoQueue') : mongoQueue'[i] # mongoReq[v]
      BY <2>3, <2>4 DEF TokenInv
    <3>5. \A v \in MongoWorkers : mongoPc'[v] \in Taken => \A i \in 1..Len(mongoQueue') : mongoQueue'[i] # mongoReq'[v]
      BY <2>2, <3>3, <3>4, Zenon
    <3>6. \A u, v \in MongoWorkers : u # v /\ mongoPc'[u] \in Taken /\ mongoPc'[v] \in Taken => mongoReq'[u] # mongoReq'[v]
      BY <2>2, <3>4 DEF TokenInv
    <3>7. \A v \in MongoWorkers :
             /\ mongoPc'[v] \in Taken \ {"detach", "idle", "push"} => mongoRc'[mongoReq'[v]] = "queued"
             /\ mongoPc'[v] \in Taken => mongoRc'[mongoReq'[v]] # "none"
             /\ mongoPc'[v] = "detach" => mongoRc'[mongoReq'[v]] # "queued"
      BY <1>0, <2>2, <2>4, Zenon DEF TokenInv
    <3> QED  BY <3>1, <3>2, <3>5, <3>6, <3>7, Zenon DEF TokenInv
  <2>6. StoredInv'
    <3>1. \A i \in 1..Len(mongoQueue') : (Untouched(mongoQueue[i]))'
      <4>1. \A i \in 1..Len(mongoQueue') : Untouched(mongoQueue[i + 1])
        BY <2>3, Zenon DEF StoredInv
      <4> QED  BY <1>0, <2>3, <4>1, Zenon DEF Untouched
    <3>2. ASSUME NEW v \in MongoWorkers, NEW t, t = mongoReq'[v]
          PROVE  /\ mongoPc'[v] \in {"raw", "clt", "attach", "session", "retry"} => Untouched(t)
                 /\ mongoPc'[v] \in {"idle", "push"} /\ mongoRc[t] = "queued" => Untouched(t)
                 /\ mongoPc'[v] = "run" =>
                       /\ mongoDone[t] < Ops(t)
                       /\ stored[t] = Prefix(IF mongoKind[t] = "bulk" THEN 0 ELSE mongoDone[t])
                 /\ mongoPc'[v] = "execute" => mongoKind[t] = "bulk" /\ stored[t] = Prefix(0)
                 /\ mongoPc'[v] = "commit" => mongoKind[t] = "transaction" /\ stored[t] = Prefix(Ops(t))
      <4>1. CASE v = w
        BY <2>2, <2>4, <3>2, <4>1, Zenon
      <4>2. CASE v # w
        BY <2>2, <3>2, <4>2, Zenon DEF StoredInv
      <4> QED  BY <4>1, <4>2, Zenon
    <3> QED  BY <1>0, <1>1, <3>1, <3>2, Zenon DEF StoredInv
  <2> QED  BY <2>5, <2>6, Zenon
<1> QED  BY <1>2, <1>3, Zenon DEF MongoPop, MongoGoto

\* retryFailure(): a request no client was had for goes back to the front of the
\* queue, or is answered; the server has nothing of it.
LEMMA RetryStep ==
    ASSUME MongoTypes, TokenInv, StoredInv, NEW w \in MongoWorkers, MongoRetryOrFail(w)
    PROVE  TokenInv' /\ StoredInv'
<1> DEFINE r == mongoReq[w]
<1>0. /\ mongoPc[w] = "retry" /\ mongoPc[w] \in Taken /\ r \in MongoReqs
      /\ \A v \in MongoWorkers : mongoPc'[v] = IF v = w THEN "pop" ELSE mongoPc[v]
      /\ UNCHANGED <<mongoKind, mongoDone, stored, mongoReq>>
  BY Zenon DEF MongoRetryOrFail, MongoGoto, MongoTypes, Taken
<1>1. /\ mongoRc[r] = "queued" /\ Untouched(r)
      /\ \A i \in 1..Len(mongoQueue) : mongoQueue[i] # r /\ mongoQueue[i] \in MongoReqs
      /\ \A v \in MongoWorkers : v # w /\ mongoPc[v] \in Taken => mongoReq[v] # r /\ mongoReq[v] \in MongoReqs
  <2>1. mongoRc[r] = "queued" /\ Untouched(r)
    BY <1>0, Zenon DEF TokenInv, StoredInv
  <2> QED  BY <1>0, <2>1 DEF TokenInv, MongoTypes
<1>2. \A t : (Ops(t))' = Ops(t) /\ (Untouched(t))' = Untouched(t)
  BY <1>0, Zenon DEF Ops, Untouched
<1>3. ASSUME NEW v \in MongoWorkers, mongoPc'[v] # "pop"
      PROVE  v # w /\ mongoPc'[v] = mongoPc[v]
  BY <1>0, <1>3, Zenon
<1>4. \A v \in MongoWorkers : mongoPc'[v] \in Taken => v # w /\ mongoPc'[v] = mongoPc[v] /\ mongoPc[v] \in Taken
  BY <1>3, Zenon DEF Taken, Borrowed, Wrapped, Attached
<1>5. CASE mongoRc' = [mongoRc EXCEPT ![r] = "noclient"] /\ UNCHANGED mongoQueue
  <2>1. \A t \in MongoReqs : mongoRc'[t] = IF t = r THEN "noclient" ELSE mongoRc[t]
    BY <1>5, Zenon DEF MongoTypes
  <2>2. TokenInv'
    <3>1. \A i \in 1..Len(mongoQueue) : mongoRc'[mongoQueue[i]] = "queued"
      BY <1>1, <2>1, Zenon DEF TokenInv
    <3>2. ASSUME NEW v \in MongoWorkers
          PROVE  /\ mongoPc'[v] \in Taken \ {"detach", "idle", "push"} => mongoRc'[mongoReq[v]] = "queued"
                 /\ mongoPc'[v] \in Taken => mongoRc'[mongoReq[v]] # "none"
                 /\ mongoPc'[v] = "detach" => mongoRc'[mongoReq[v]] # "queued"
      <4>1. mongoPc'[v] \in Taken => mongoRc'[mongoReq[v]] = mongoRc[mongoReq[v]] /\ mongoPc'[v] = mongoPc[v]
        BY <1>1, <1>4, <2>1, Zenon
      <4>2. mongoPc'[v] = "detach" => mongoPc'[v] \in Taken
        BY Zenon DEF Taken, Borrowed, Wrapped, Attached
      <4> QED  BY <4>1, <4>2, Zenon DEF TokenInv
    <3> QED  BY <1>0, <1>4, <1>5, <3>1, <3>2 DEF TokenInv
  <2>3. StoredInv'
    <3>1. \A v \in MongoWorkers : mongoPc'[v] \in {"idle", "push"} => mongoRc'[mongoReq[v]] = mongoRc[mongoReq[v]]
      BY <1>1, <1>3, <2>1, Zenon DEF Taken, Borrowed, Wrapped
    <3>2. \A t \in MongoReqs :
             /\ mongoRc'[t] \in {"none", "busy", "noclient"} => Untouched(t)
             /\ mongoRc'[t] \in {"nosession", "notstarted"} => stored[t] = Prefix(0)
             /\ mongoRc'[t] = "ok" => stored[t] = Prefix(Ops(t))
      BY <1>1, <2>1, Zenon DEF StoredInv
    <3>3. ASSUME NEW v \in MongoWorkers, NEW t, t = mongoReq[v]
          PROVE  /\ mongoPc'[v] \in {"raw", "clt", "attach", "session", "retry"} => Untouched(t)
                 /\ mongoPc'[v] \in {"idle", "push"} /\ mongoRc'[t] = "queued" => Untouched(t)
                 /\ mongoPc'[v] = "run" =>
                       /\ mongoDone[t] < Ops(t)
                       /\ stored[t] = Prefix(IF mongoKind[t] = "bulk" THEN 0 ELSE mongoDone[t])
                 /\ mongoPc'[v] = "execute" => mongoKind[t] = "bulk" /\ stored[t] = Prefix(0)
                 /\ mongoPc'[v] = "commit" => mongoKind[t] = "transaction" /\ stored[t] = Prefix(Ops(t))
      BY <1>3, <3>1, <3>3, Zenon DEF StoredInv
    <3> QED  BY <1>0, <1>2, <1>5, <3>2, <3>3, Zenon DEF StoredInv
  <2> QED  BY <2>2, <2>3, Zenon
<1>6. CASE mongoQueue' = <<r>> \o mongoQueue /\ UNCHANGED mongoRc
  <2>1. /\ Len(mongoQueue) \in Nat /\ Len(mongoQueue') = Len(mongoQueue) + 1
        /\ \A i \in 1..Len(mongoQueue') : mongoQueue'[i] = IF i = 1 THEN r ELSE mongoQueue[i - 1]
    BY <1>0, <1>6, QueueSteps DEF MongoTypes
  <2>2. ASSUME NEW i \in 1..Len(mongoQueue')
        PROVE  \/ i = 1 /\ mongoQueue'[i] = r
               \/ \E j \in 1..Len(mongoQueue) : i = j + 1 /\ mongoQueue'[i] = mongoQueue[j]
    <3>1. i = 1 \/ (i # 1 /\ i - 1 \in 1..Len(mongoQueue) /\ i = (i - 1) + 1)
      BY <2>1
    <3> QED  BY <2>1, <3>1, Zenon
  <2>3. TokenInv'
    <3>1. ASSUME NEW i \in 1..Len(mongoQueue') PROVE mongoRc'[mongoQueue'[i]] = "queued"
      <4>1. mongoQueue'[i] = r \/ \E j \in 1..Len(mongoQueue) : mongoQueue'[i] = mongoQueue[j]
        BY <2>2, Zenon
      <4>2. mongoRc[mongoQueue'[i]] = "queued"
        BY <1>1, <4>1, Zenon DEF TokenInv
      <4> QED  BY <1>6, <4>2, Zenon
    <3>2. ASSUME NEW i \in 1..Len(mongoQueue'), NEW j \in 1..Len(mongoQueue'), mongoQueue'[i] = mongoQueue'[j]
          PROVE  i = j
      <4>1. \A k \in 1..Len(mongoQueue) : mongoQueue[k] # r
        BY <1>1, Zenon DEF TokenInv
      <4>2. \A k, l \in 1..Len(mongoQueue) : mongoQueue[k] = mongoQueue[l] => k = l
        BY Zenon DEF TokenInv
      <4>3. CASE mongoQueue'[i] = r
        <5>1. \A k \in 1..Len(mongoQueue') : mongoQueue'[k] = r => k = 1
          BY <2>2, <4>1, Zenon
        <5> QED  BY <3>2, <4>3, <5>1, Zenon
      <4>4. CASE mongoQueue'[i] # r
        <5>1. PICK k \in 1..Len(mongoQueue) : i = k + 1 /\ mongoQueue'[i] = mongoQueue[k]
          BY <2>2, <4>4, Zenon
        <5>2. PICK l \in 1..Len(mongoQueue) : j = l + 1 /\ mongoQueue'[j] = mongoQueue[l]
          BY <2>2, <3>2, <4>4, Zenon
        <5> QED  BY <3>2, <4>2, <5>1, <5>2, Zenon
      <4> QED  BY <4>3, <4>4, Zenon
    <3>3. ASSUME NEW v \in MongoWorkers, mongoPc'[v] \in Taken, NEW i \in 1..Len(mongoQueue')
          PROVE  mongoQueue'[i] # mongoReq[v]
      <4>1. mongoReq[v] # r /\ \A j \in 1..Len(mongoQueue) : mongoQueue[j] # mongoReq[v]
        BY <1>1, <1>4, <3>3, Zenon DEF TokenInv
      <4> QED  BY <2>2, <4>1, Zenon
    <3>4. \A v \in MongoWorkers : mongoPc'[v] = "detach" => mongoPc[v] = "detach"
      BY <1>3, Zenon
    <3> QED  BY <1>0, <1>4, <1>6, <3>1, <3>2, <3>3, <3>4 DEF TokenInv
  <2>4. StoredInv'
    <3>1. \A i \in 1..Len(mongoQueue') : (Untouched(mongoQueue[i]))'
      <4>1. ASSUME NEW i \in 1..Len(mongoQueue')
            PROVE  stored[mongoQueue'[i]] = Prefix(0) /\ mongoDone[mongoQueue'[i]] = 0
        <5>1. mongoQueue'[i] = r \/ \E j \in 1..Len(mongoQueue) : mongoQueue'[i] = mongoQueue[j]
          BY <2>2, Zenon
        <5>2. Untouched(mongoQueue'[i])
          BY <1>1, <5>1, Zenon DEF StoredInv
        <5> QED  BY <5>2, Zenon DEF Untouched
      <4> QED  BY <1>0, <4>1, Zenon DEF Untouched
    <3>2. \A v \in MongoWorkers : mongoPc'[v] = "pop" \/ mongoPc'[v] = mongoPc[v]
      BY <1>3, Zenon
    <3> QED  BY <1>0, <1>2, <1>6, <3>1, <3>2 DEF StoredInv
  <2> QED  BY <2>3, <2>4, Zenon
<1> QED  BY <1>5, <1>6, Zenon DEF MongoRetryOrFail

\* Every step keeps the accounts of the requests.
LEMMA RequestStep ==
    ASSUME MongoTypes, TokenInv, StoredInv, [MongoNext]_mongoVars
    PROVE  TokenInv' /\ StoredInv'
<1>1. CASE MongoStart \/ MongoStop \/ UNCHANGED mongoVars
  <2>1. /\ UNCHANGED <<mongoKind, mongoDone, stored, mongoRc, mongoPc, mongoReq>>
        /\ mongoQueue' \in {mongoQueue, <<>>}
    BY <1>1, Zenon DEF MongoStart, MongoStop, mongoVars, mongoReqVars
  <2>2. \A t : (Ops(t))' = Ops(t) /\ (Untouched(t))' = Untouched(t)
    BY <2>1, Zenon DEF Ops, Untouched
  <2>3. CASE mongoQueue' = mongoQueue
    <3>1. TokenInv'
      BY <2>1, <2>3 DEF TokenInv
    <3>2. StoredInv'
      BY <2>1, <2>2, <2>3, Zenon DEF StoredInv
    <3> QED  BY <3>1, <3>2, Zenon
  <2>4. CASE mongoQueue' = <<>>
    <3>1. 1..Len(mongoQueue') = {}
      BY <2>4
    <3> QED  BY <2>1, <2>2, <3>1, Zenon DEF TokenInv, StoredInv
  <2> QED  BY <2>1, <2>3, <2>4, Zenon
<1>2. CASE \E r \in MongoReqs : MongoSubmit(r)
  BY <1>2, SubmitStep, Zenon
<1>3. ASSUME NEW w \in MongoWorkers,
             \/ TryPop(w) \/ MongoGetIdle(w) \/ Attach(w) \/ StartTransaction(w) \/ RunOp(w)
             \/ ExecuteBulk(w) \/ EndTransaction(w) \/ Detach(w) \/ MongoMarkIdle(w) \/ PushRaw(w)
      PROVE  TokenInv' /\ StoredInv'
  <2>1. PICK l, rc, n, s : /\ Moves(w, l, rc, n, s) /\ TokenFits(l, rc)
                           /\ StoredFits(mongoReq[w], l, rc, n, s)
    BY <1>3, WorkerMoves, Zenon
  <2> QED  BY <2>1, TokenMoves, StoredMoves, Zenon
<1> QED  BY <1>1, <1>2, <1>3, PopStep, RetryStep, Zenon DEF MongoNext

-----------------------------------------------------------------------------
\* What the pool does, alone.
MongoSpec == MongoInit /\ [][MongoNext]_mongoVars

\* The pool before init().
LEMMA MongoInitial == MongoInit => MongoInv
<1> SUFFICES ASSUME MongoInit PROVE MongoInv
  BY Zenon
<1>1. MongoTypes
  <2>1. \A w \in MongoWorkers : mongoPc[w] = "pop" /\ mongoPc[w] \notin Taken
    BY Zenon DEF MongoInit, Taken, Borrowed, Wrapped, Attached
  <2>2. mongoKind \in [MongoReqs -> {"write", "bulk", "transaction"}]
    BY MongoMixesAssumption, Zenon DEF MongoInit
  <2>3. /\ mongoRetry \in [MongoReqs -> Nat] /\ mongoRc \in [MongoReqs -> Rcs]
        /\ mongoPc \in [MongoWorkers -> Taken \cup {"pop", "exit"}]
        /\ mongoReq \in [MongoWorkers -> MongoReqs \cup {NoMongo}]
    BY Zenon DEF MongoInit, Rcs
  <2>4. /\ rawClt \in [MongoWorkers -> RawClts \cup {NoMongo}]
        /\ dbClt \in [MongoWorkers -> MongoClts \cup {NoMongo}]
        /\ attached \in [MongoClts -> RawClts \cup {NoMongo}]
    BY Zenon DEF MongoInit
  <2>5. handles \in [MongoClts -> SUBSET (RawClts \cup {NoMongo})]
    BY Zenon DEF MongoInit
  <2>6. /\ mongoUp \in {"no", "failed", "up", "joined"} /\ mongoExit \in BOOLEAN
        /\ mongoQueue \in Seq(MongoReqs)
    <3>1. mongoUp = "no" /\ mongoExit = FALSE /\ mongoQueue = <<>>
      BY Zenon DEF MongoInit
    <3>2. mongoExit \in BOOLEAN /\ mongoUp \in {"no", "failed", "up", "joined"}
      BY <3>1, Zenon
    <3>3. mongoQueue \in Seq(MongoReqs)
      BY <3>1
    <3> QED  BY <3>2, <3>3, Zenon
  <2>7. rawPool \subseteq RawClts /\ mongoMap \subseteq MongoClts /\ mongoIdle \subseteq mongoMap
    BY Zenon DEF MongoInit
  <2> QED  BY <2>1, <2>2, <2>3, <2>4, <2>5, <2>6, <2>7, Zenon DEF MongoTypes
<1>2. UpInv /\ AttachInv
  BY Zenon DEF MongoInit, UpInv, AttachInv, Attached
<1>3. LoanInv
  BY NoMongoAssumption, Zenon DEF MongoInit, LoanInv, Borrowed, Wrapped, Attached
<1>4. TokenInv
  BY DEF MongoInit, TokenInv, Taken, Borrowed, Wrapped, Attached
<1>5. StoredInv
  <2>1. \A r \in MongoReqs : stored[r] = Prefix(0) /\ mongoDone[r] = 0 /\ mongoRc[r] = "none"
    BY PrefixFacts, Zenon DEF MongoInit
  <2>2. mongoDone \in [MongoReqs -> Nat] /\ stored \in [MongoReqs -> {Prefix(n) : n \in Nat}]
    BY PrefixFacts, Zenon DEF MongoInit
  <2>3. \A r \in MongoReqs : 0 \in 0..Ops(r)
    BY OpsType
  <2>4. 1..Len(mongoQueue) = {} /\ \A w \in MongoWorkers : mongoPc[w] = "pop"
    BY DEF MongoInit
  <2> QED  BY <2>1, <2>2, <2>3, <2>4, Zenon DEF StoredInv, Untouched
<1> QED  BY <1>1, <1>2, <1>3, <1>4, <1>5, Zenon DEF MongoInv, PoolInv

\* The pool's invariant: connections and wrappers are lent to one worker, a
\* request is in one place, and what the server has of it fits that place.
THEOREM MongoInvariance == MongoSpec => []MongoInv
<1>1. MongoInv /\ [MongoNext]_mongoVars => MongoInv'
  BY MongoTypesStep, UpStep, LoanStep, AttachStep, RequestStep, Zenon DEF MongoInv, PoolInv
<1> QED  BY <1>1, MongoInitial, PTL DEF MongoSpec

\* The collection handles a wrapper keeps are always those of the connection
\* that the one worker using the wrapper has borrowed.
THEOREM HandlesAreOwned == MongoSpec => []HandlesOwned
<1>1. ASSUME MongoInv PROVE HandlesOwned
  <2>1. ASSUME NEW d \in MongoClts, handles[d] # {}
        PROVE  \E w \in MongoWorkers : dbClt[w] = d /\ handles[d] = {rawClt[w]} /\ attached[d] = rawClt[w]
    BY <1>1, <2>1 DEF MongoInv, PoolInv, AttachInv
  <2>2. \A v, w \in MongoWorkers : v # w =>
          /\ rawClt[v] = rawClt[w] => rawClt[v] = NoMongo
          /\ dbClt[v] = dbClt[w] => dbClt[v] = NoMongo
    BY <1>1, Zenon DEF MongoInv, PoolInv, LoanInv
  <2> QED  BY <2>1, <2>2, Zenon DEF HandlesOwned
<1> QED  BY <1>1, MongoInvariance, PTL

\* The server has a beginning of a request's operations, all of them when the
\* request was answered with success and none when no client, session or
\* transaction was had, whatever the retries and the number of operations.
THEOREM AppliedIsAnswered == MongoSpec => []AppliedAsAnswered
<1>1. ASSUME MongoInv PROVE AppliedAsAnswered
  <2>1. ASSUME NEW r \in MongoReqs
        PROVE  /\ \E n \in 0..Ops(r) : stored[r] = Prefix(n)
               /\ mongoRc[r] = "ok" => Len(stored[r]) = Ops(r)
               /\ mongoRc[r] \in {"busy", "noclient", "nosession", "notstarted"} => stored[r] = <<>>
    BY <1>1, OpsType, PrefixFacts, Zenon DEF MongoInv, StoredInv, Untouched
  <2> QED  BY <2>1, Zenon DEF AppliedAsAnswered, Prefix
<1> QED  BY <1>1, MongoInvariance, PTL

-----------------------------------------------------------------------------
Threads == Workers \cup PoolThreads

\* The steps of a worker inside onRecvMsg().
Handles == {"submit", "save", "done"}

Types ==
    /\ phase \in [Users -> {"none", "open", "closed", "notified", "gone"}]
    /\ pin \in [Threads -> Users \cup {NoUser}] /\ serving \subseteq Workers
    /\ mon \in Users \cup {NoUser} /\ shard \in 0..NumShards - 1
    /\ swept \subseteq Users /\ sweeping \subseteq Users
    /\ pc \in [Threads -> Handles \cup {"idle", "take", "lock", "post"}]
    /\ \A w \in Workers : pc[w] \in Handles \cup {"idle"}
    /\ \A c \in PoolThreads : pc[c] \notin Handles
    /\ req \in [Threads -> 0..MaxReqs] /\ reqId \in 0..MaxReqs
    /\ accepted \subseteq 1..reqId /\ answered \subseteq accepted /\ pending \subseteq accepted
    /\ sender \in [Requests -> Users \cup {NoUser}]
    /\ \A r \in 1..reqId : sender[r] \in Users
    /\ \A t \in Threads : pc[t] \in {"save", "take", "lock", "post"} => req[t] \in accepted

\* Some pool thread has the result of r and has not looked for its context.
Taking(r) == \E c \in PoolThreads : pc[c] = "take" /\ req[c] = r

\* A request whose context is not saved yet has no context, and no other thread
\* saves it.  If its result has come, it is about to miss the context or has
\* missed it; the same holds of a context that is saved after its result.
OrphanInv ==
    /\ \A w \in Workers : pc[w] = "save" => req[w] \notin pending
    /\ \A v, w \in Workers : v # w /\ pc[v] = "save" /\ pc[w] = "save" => req[v] # req[w]
    /\ \A w \in Workers : pc[w] = "save" /\ req[w] \in answered =>
          req[w] \in unmatched \/ Taking(req[w])
    /\ \A r \in pending \cap answered : r \in unmatched \/ Taking(r)

\* A user that a thread has locked exists; a worker that handles a request has
\* locked the user that sent it.
PinInv ==
    /\ \A t \in Threads : pin[t] # NoUser => phase[pin[t]] \in {"open", "closed", "notified"}
    /\ \A w \in Workers : pc[w] \in Handles => w \in serving /\ pin[w] # NoUser
    /\ \A w \in Workers : pc[w] = "save" => pin[w] = sender[req[w]]

\* The order of serveUtilStop(): no worker handles a request once the server is
\* down, no pool thread has a result once the pool is down, and the contexts
\* are destroyed after both.
StopInv ==
    /\ down => \A w \in Workers : pin[w] = NoUser
    /\ over => down /\ \A c \in PoolThreads : pc[c] = "idle"
    /\ released => over

\* A cleanup in progress has cleared the shards before shard of the users it
\* will have swept, and nothing can save a context of one of them.
SweepInv ==
    /\ mon = NoUser => sweeping = {}
    /\ mon # NoUser => ~down /\ phase[mon] = "notified"
    /\ \A u \in sweeping : u = mon \/ phase[u] = "gone"
    /\ \A u \in swept \cup sweeping :
          /\ phase[u] \in {"notified", "gone"}
          /\ \A w \in Workers : pc[w] \in {"submit", "save"} => pin[w] # u
    /\ \A r \in pending : sender[r] \in sweeping => ShardIdx(r) >= shard
    /\ \A r \in pending : sender[r] \notin swept

Inv == Types /\ OrphanInv /\ PinInv /\ StopInv /\ SweepInv
-----------------------------------------------------------------------------
\* The steps that neither move a request nor save or take a context.
Quiet ==
    /\ UNCHANGED <<pc, req, reqId, sender, accepted, answered, unmatched>>
    /\ pending' \subseteq pending

\* A step of the life of a user, as UserLifecycle has it.
LifeStep ==
    \/ \E u \in Users : Life!Connect(u) \/ Life!Close(u) \/ Life!Disconnect(u)
    \/ \E u \in Users : Life!Destroy(u) /\ mon # u
    \/ \E t \in Threads : Drop(t) /\ pc'[t] \notin Handles
    \/ \E t \in Threads, u \in Users : Life!Pin(t, u) /\ (t \in Workers => ~down)
    \/ \E w \in Workers : Life!Serve(w)
    \/ Life!Down /\ mon = NoUser
    \/ Life!DestroyAll
    \/ UNCHANGED lifeVars

\* Every step is quiet or one of the steps of a request.
LEMMA RequestSteps ==
    ASSUME [Next]_vars
    PROVE  \/ Quiet
           \/ \E w \in Workers : OnRecvMsg(w) \/ Submit(w) \/ SavePenddingReq(w) \/ Return(w)
           \/ \E c \in PoolThreads : OnResponse(c) \/ TakePending(c) \/ LockUser(c) \/ Post(c)
<1> USE DEF poolVars, monVars, outVars, lifeVars, Quiet
<1>1. CASE UserStep \/ ServerDown \/ CloseServer
  BY <1>1, Zenon DEF UserStep, ServerDown, CloseServer
<1>2. CASE CleanupPools \/ ReleaseContexts
  BY <1>2, Zenon DEF CleanupPools, ReleaseContexts, Pool!Finish
<1>3. ASSUME NEW w \in Workers, Skip(w) \/ \E u \in Users : Lock(w, u) PROVE Quiet
  BY <1>3, Zenon DEF Skip, Lock
<1>4. CASE CleanupShard \/ \E u \in Users : OnDisconnect(u)
  BY <1>4, Zenon DEF CleanupShard, OnDisconnect
<1>5. CASE UNCHANGED vars
  BY <1>5, Zenon DEF vars
<1> QED  BY <1>1, <1>2, <1>3, <1>4, <1>5, Zenon DEF Next, WorkerStep, PoolStep

\* A worker is not a pool thread.
LEMMA ThreadFacts ==
    /\ Workers \subseteq Threads /\ PoolThreads \subseteq Threads
    /\ \A w \in Workers : w \notin PoolThreads
    /\ NoUser \notin Users
BY ThreadsAssumption, UsersAssumption, Zenon DEF Threads

\* Every step is a step of the life of the users.
LEMMA LifeSteps ==
    ASSUME Types, StopInv, [Next]_vars
    PROVE  LifeStep
<1>0. /\ pc \in [Threads -> Handles \cup {"idle", "take", "lock", "post"}]
      /\ \A w \in Workers : pc[w] \in Handles \cup {"idle"}
  BY Zenon DEF Types
<1>1. CASE UserStep \/ ServerDown \/ CloseServer
  BY <1>1, Zenon DEF UserStep, ServerDown, CloseServer, LifeStep
<1>2. ASSUME NEW w \in Workers, Skip(w) \/ Return(w) PROVE LifeStep
  <2>1. w \in Threads /\ Drop(w) /\ pc'[w] \notin Handles
    BY <1>0, <1>2, ThreadFacts, Zenon DEF Skip, Return, At, Handles
  <2> QED  BY <2>1, Zenon DEF LifeStep
<1>3. ASSUME NEW w \in Workers, \/ OnRecvMsg(w) \/ Submit(w) \/ SavePenddingReq(w)
                                \/ \E u \in Users : Lock(w, u)
      PROVE  LifeStep
  BY <1>3, ThreadFacts, Zenon DEF OnRecvMsg, Submit, SavePenddingReq, Lock, LifeStep
<1>4. ASSUME NEW c \in PoolThreads, OnResponse(c) \/ TakePending(c) PROVE LifeStep
  BY <1>4, Zenon DEF OnResponse, TakePending, LifeStep
<1>5. ASSUME NEW c \in PoolThreads, LockUser(c) PROVE LifeStep
  <2>1. sender[req[c]] \in Users
    BY <1>5, ThreadFacts, Zenon DEF LockUser, Types
  <2> QED  BY <1>5, <2>1, ThreadFacts, Zenon DEF LockUser, LifeStep
<1>6. ASSUME NEW c \in PoolThreads, Post(c) PROVE LifeStep
  <2>1. c \in Threads /\ Drop(c) /\ pc'[c] \notin Handles
    BY <1>0, <1>6, ThreadFacts, Zenon DEF Post, At, Handles
  <2> QED  BY <2>1, Zenon DEF LifeStep
<1>7. CASE CleanupPools \/ ReleaseContexts \/ CleanupShard \/ \E u \in Users : OnDisconnect(u)
  BY <1>7, Zenon DEF CleanupPools, ReleaseContexts, CleanupShard, OnDisconnect, LifeStep
<1>8. CASE UNCHANGED vars
  BY <1>8, Zenon DEF vars, LifeStep
<1> QED
  BY <1>1, <1>2, <1>3, <1>4, <1>5, <1>6, <1>7, <1>8, Zenon DEF Next, WorkerStep, PoolStep

\* What a step of the life of the users never does: destroy a user that is
\* locked or that the monitor works on, take the lock from a worker that goes
\* on handling a request, lock a user for a worker of a server that is down, or
\* bring a user back.
LEMMA Alive ==
    ASSUME Types, PinInv, LifeStep
    PROVE  /\ \A t \in Threads : pin'[t] # NoUser => phase'[pin'[t]] \in {"open", "closed", "notified"}
           /\ \A u \in Users : phase[u] = "gone" => phase'[u] = "gone"
           /\ \A u \in Users : phase[u] = "notified" => phase'[u] \in {"notified", "gone"}
           /\ \A w \in Workers : pc'[w] \in Handles /\ w \in serving /\ pin[w] # NoUser =>
                 w \in serving' /\ pin'[w] = pin[w]
           /\ mon # NoUser /\ ~down /\ phase[mon] = "notified" => ~down' /\ phase'[mon] = "notified"
           /\ (down => \A w \in Workers : pin[w] = NoUser) =>
                 (down' => \A w \in Workers : pin'[w] = NoUser)
           /\ down => down'
<1>0. /\ phase \in [Users -> {"none", "open", "closed", "notified", "gone"}]
      /\ pin \in [Threads -> Users \cup {NoUser}] /\ mon \in Users \cup {NoUser}
      /\ NoUser \notin Users /\ Workers \subseteq Threads /\ PoolThreads \subseteq Threads
  BY ThreadFacts, Zenon DEF Types
<1>1. ASSUME NEW u \in Users, \/ Life!Connect(u) \/ Life!Close(u) \/ Life!Disconnect(u)
      PROVE  /\ UNCHANGED <<pin, serving, down>>
             /\ \A v \in Users : v # u => phase'[v] = phase[v]
             /\ phase[u] \notin {"notified", "gone"}
             /\ phase'[u] \in {"open", "closed", "notified"}
  BY <1>0, <1>1, Zenon DEF Life!Connect, Life!Close, Life!Disconnect, Life!Move
<1>2. ASSUME NEW u \in Users, Life!Destroy(u), mon # u
      PROVE  /\ UNCHANGED <<pin, serving, down>>
             /\ \A v \in Users : v # u => phase'[v] = phase[v]
             /\ phase'[u] = "gone" /\ \A t \in Threads : pin[t] # u
  BY <1>0, <1>2, Zenon DEF Life!Destroy, Life!Pinned, Life!Threads, Threads
<1>3. ASSUME NEW t \in Threads, Drop(t)
      PROVE  /\ \A s \in Threads : s # t => pin'[s] = pin[s]
             /\ pin'[t] = NoUser /\ serving' = serving \ {t} /\ down' = down
             /\ \/ UNCHANGED phase
                \/ /\ mon # pin[t] /\ pin[t] \in Users /\ \A s \in Threads \ {t} : pin[s] # pin[t]
                   /\ phase' = [phase EXCEPT ![pin[t]] = "gone"]
  BY <1>0, <1>3, Zenon DEF Drop, Life!Unpin, Life!Threads, Threads
<1>4. ASSUME NEW t \in Threads, NEW u \in Users, Life!Pin(t, u)
      PROVE  /\ UNCHANGED <<phase, serving, down>> /\ pin[t] = NoUser
             /\ phase[u] \in {"open", "closed", "notified"}
             /\ \A s \in Threads : pin'[s] = IF s = t THEN u ELSE pin[s]
  BY <1>0, <1>4, Zenon DEF Life!Pin
<1>5. ASSUME Life!DestroyAll
      PROVE  /\ UNCHANGED <<pin, serving, down>> /\ down
             /\ \A u \in Users : \/ phase'[u] = phase[u]
                                 \/ /\ phase[u] # "none" /\ phase'[u] = "gone"
                                    /\ \A t \in Threads : pin[t] # u
  BY <1>0, <1>5, Zenon DEF Life!DestroyAll, Life!Pinned, Life!Threads, Threads
<1>6. CASE \E u \in Users : Life!Connect(u) \/ Life!Close(u) \/ Life!Disconnect(u)
  BY <1>0, <1>1, <1>6 DEF PinInv
<1>7. CASE \E u \in Users : Life!Destroy(u) /\ mon # u
  BY <1>0, <1>2, <1>7 DEF PinInv
<1>8. CASE \E t \in Threads : Drop(t) /\ pc'[t] \notin Handles
  BY <1>0, <1>3, <1>8 DEF PinInv
<1>9. CASE \E t \in Threads, u \in Users : Life!Pin(t, u) /\ (t \in Workers => ~down)
  BY <1>0, <1>4, <1>9 DEF PinInv
<1>10. CASE \E w \in Workers : Life!Serve(w)
  BY <1>0, <1>10 DEF Life!Serve, PinInv
<1>11. CASE Life!Down /\ mon = NoUser
  BY <1>0, <1>11, Zenon DEF Life!Down, PinInv
<1>12. CASE Life!DestroyAll
  BY <1>0, <1>5, <1>12 DEF PinInv
<1>13. CASE UNCHANGED lifeVars
  BY <1>0, <1>13, Zenon DEF lifeVars, PinInv
<1> QED
  BY <1>6, <1>7, <1>8, <1>9, <1>10, <1>11, <1>12, <1>13, Zenon DEF LifeStep
-----------------------------------------------------------------------------
\* A step of the life of the users keeps its types.
LEMMA LifeTypes ==
    ASSUME Types, LifeStep
    PROVE  /\ phase' \in [Users -> {"none", "open", "closed", "notified", "gone"}]
           /\ pin' \in [Threads -> Users \cup {NoUser}] /\ serving' \subseteq Workers
<1> USE DEF Types
<1>1. CASE \E u \in Users : Life!Connect(u) \/ Life!Close(u) \/ Life!Disconnect(u)
  BY <1>1, Zenon DEF Life!Connect, Life!Close, Life!Disconnect, Life!Move
<1>2. CASE \E u \in Users : Life!Destroy(u) /\ mon # u
  BY <1>2, Zenon DEF Life!Destroy
<1>3. CASE \E t \in Threads : Drop(t) /\ pc'[t] \notin Handles
  BY <1>3, Zenon DEF Drop, Life!Unpin
<1>4. CASE \E t \in Threads, u \in Users : Life!Pin(t, u) /\ (t \in Workers => ~down)
  BY <1>4, Zenon DEF Life!Pin
<1>5. CASE (\E w \in Workers : Life!Serve(w)) \/ (Life!Down /\ mon = NoUser)
  BY <1>5, Zenon DEF Life!Serve, Life!Down
<1>6. CASE Life!DestroyAll \/ UNCHANGED lifeVars
  BY <1>6, Zenon DEF Life!DestroyAll, lifeVars
<1> QED  BY <1>1, <1>2, <1>3, <1>4, <1>5, <1>6, Zenon DEF LifeStep

\* Only the monitor changes the variables of the monitor.
LEMMA MonSteps ==
    ASSUME [Next]_vars
    PROVE  UNCHANGED monVars \/ CleanupShard \/ \E u \in Users : OnDisconnect(u)
<1>1. CASE UserStep \/ ServerDown \/ CleanupPools \/ ReleaseContexts \/ CloseServer
  BY <1>1, Zenon DEF UserStep, ServerDown, CleanupPools, ReleaseContexts, CloseServer
<1>2. ASSUME NEW w \in Workers, WorkerStep(w) \/ OnRecvMsg(w) \/ \E u \in Users : Lock(w, u)
      PROVE  UNCHANGED monVars
  BY <1>2, Zenon DEF WorkerStep, OnRecvMsg, Lock, Skip, Submit, SavePenddingReq, Return
<1>3. ASSUME NEW c \in PoolThreads, PoolStep(c) PROVE UNCHANGED monVars
  BY <1>3, Zenon DEF PoolStep, OnResponse, TakePending, LockUser, Post
<1>4. CASE UNCHANGED vars
  BY <1>4, Zenon DEF vars
<1> QED  BY <1>1, <1>2, <1>3, <1>4, Zenon DEF Next

\* The monitor keeps the types of its variables.
LEMMA MonTypes ==
    ASSUME Types, [Next]_vars
    PROVE  /\ mon' \in Users \cup {NoUser} /\ shard' \in 0..NumShards - 1
           /\ swept' \subseteq Users /\ sweeping' \subseteq Users
<1> USE BoundsAssumption DEF Types
<1>1. CASE UNCHANGED monVars
  BY <1>1, Zenon DEF monVars
<1>2. ASSUME NEW u \in Users, OnDisconnect(u)
      PROVE  /\ mon' \in Users \cup {NoUser} /\ shard' \in 0..NumShards - 1
             /\ swept' \subseteq Users /\ sweeping' \subseteq Users
  BY <1>2 DEF OnDisconnect
<1>3. CASE CleanupShard
  BY <1>3 DEF CleanupShard, LastShard
<1> QED  BY <1>1, <1>2, <1>3, MonSteps, Zenon

\* A step preserves the types.
LEMMA TypesStep ==
    ASSUME Types, StopInv, PinInv, [Next]_vars
    PROVE  Types'
<1> DEFINE T == /\ pc \in [Threads -> Handles \cup {"idle", "take", "lock", "post"}]
                /\ \A w \in Workers : pc[w] \in Handles \cup {"idle"}
                /\ \A c \in PoolThreads : pc[c] \notin Handles
                /\ req \in [Threads -> 0..MaxReqs] /\ reqId \in 0..MaxReqs
                /\ accepted \subseteq 1..reqId /\ answered \subseteq accepted /\ pending \subseteq accepted
                /\ sender \in [Requests -> Users \cup {NoUser}]
                /\ \A r \in 1..reqId : sender[r] \in Users
                /\ \A t \in Threads : pc[t] \in {"save", "take", "lock", "post"} => req[t] \in accepted
<1>0. T /\ pin \in [Threads -> Users \cup {NoUser}]
  BY Zenon DEF Types
<1> USE BoundsAssumption DEF At, Handles, NoReq, poolVars, outVars
<1>1. ASSUME Quiet PROVE T'
  <2>1. UNCHANGED <<pc, req, reqId, sender, accepted, answered>> /\ pending' \subseteq pending
    BY <1>1, Zenon DEF Quiet
  <2> QED  BY <1>0, <2>1, Zenon
<1>2. ASSUME NEW w \in Workers, OnRecvMsg(w) \/ Return(w) PROVE T'
  <2>1. /\ UNCHANGED <<reqId, sender, accepted, answered, pending>> /\ w \in Threads
        /\ pc' = [pc EXCEPT ![w] = "submit"] \/ pc' = [pc EXCEPT ![w] = "idle"]
        /\ req' = [req EXCEPT ![w] = 0]
    BY <1>2, ThreadFacts, Zenon DEF OnRecvMsg, Return
  <2> QED  BY <1>0, <2>1, ThreadFacts
<1>3. ASSUME NEW w \in Workers, Submit(w) PROVE T'
  <2>1. /\ UNCHANGED <<pending, answered>> /\ w \in Threads
        /\ reqId' = reqId + 1 /\ reqId' \in 1..MaxReqs /\ reqId' \notin 1..reqId
        /\ sender' = [sender EXCEPT ![reqId'] = pin[w]]
        /\ \/ /\ accepted' = accepted \cup {reqId'} /\ pc' = [pc EXCEPT ![w] = "save"]
              /\ req' = [req EXCEPT ![w] = reqId']
           \/ /\ UNCHANGED accepted /\ pc' = [pc EXCEPT ![w] = "done"]
              /\ req' = [req EXCEPT ![w] = 0]
    BY <1>0, <1>3, ThreadFacts DEF Submit, Pool!Accept
  <2>2. pin[w] \in Users
    BY <1>0, <1>3, <2>1 DEF Submit, PinInv
  <2>3. sender' \in [Requests -> Users \cup {NoUser}] /\ \A r \in 1..reqId' : sender'[r] \in Users
    BY <1>0, <2>1, <2>2 DEF Requests
  <2>4. accepted' \subseteq 1..reqId' /\ answered' \subseteq accepted' /\ pending' \subseteq accepted'
    <3>1. 1..reqId \subseteq 1..reqId' /\ reqId' \in 1..reqId'
      BY <1>0, <2>1
    <3>2. accepted' \subseteq accepted \cup {reqId'} /\ accepted \subseteq accepted'
      BY <2>1, Zenon
    <3> QED  BY <1>0, <2>1, <3>1, <3>2, Zenon
  <2>5. /\ pc' \in [Threads -> Handles \cup {"idle", "take", "lock", "post"}]
        /\ \A v \in Workers : pc'[v] \in Handles \cup {"idle"}
        /\ \A c \in PoolThreads : pc'[c] \notin Handles
    BY <1>0, <2>1, ThreadFacts, Zenon
  <2>6. /\ req' \in [Threads -> 0..MaxReqs] /\ reqId' \in 0..MaxReqs
        /\ \A t \in Threads : pc'[t] \in {"save", "take", "lock", "post"} => req'[t] \in accepted'
    BY <1>0, <2>1
  <2> QED  BY <2>3, <2>4, <2>5, <2>6, Zenon
<1>4. ASSUME NEW w \in Workers, SavePenddingReq(w) PROVE T'
  <2>1. /\ UNCHANGED <<reqId, sender, accepted, answered>> /\ w \in Threads
        /\ pending' = pending \cup {req[w]} /\ pc[w] = "save"
        /\ pc' = [pc EXCEPT ![w] = "done"] /\ req' = [req EXCEPT ![w] = 0]
    BY <1>4, ThreadFacts, Zenon DEF SavePenddingReq
  <2>2. pending' \subseteq accepted'
    BY <1>0, <2>1, Zenon
  <2>3. /\ req' \in [Threads -> 0..MaxReqs]
        /\ \A t \in Threads : pc'[t] \in {"save", "take", "lock", "post"} => req'[t] \in accepted'
    BY <1>0, <2>1
  <2>4. /\ pc' \in [Threads -> Handles \cup {"idle", "take", "lock", "post"}]
        /\ \A v \in Workers : pc'[v] \in Handles \cup {"idle"}
        /\ \A c \in PoolThreads : pc'[c] \notin Handles
    BY <1>0, <2>1, ThreadFacts, Zenon
  <2> QED  BY <1>0, <2>1, <2>2, <2>3, <2>4, Zenon
<1>5. ASSUME NEW c \in PoolThreads, OnResponse(c) PROVE T'
  <2>1. PICK r \in Requests :
          /\ UNCHANGED <<reqId, sender, accepted, pending>> /\ c \in Threads
          /\ r \in accepted /\ answered' = answered \cup {r}
          /\ pc' = [pc EXCEPT ![c] = "take"] /\ req' = [req EXCEPT ![c] = r]
    BY <1>5, ThreadFacts, Zenon DEF OnResponse, Pool!Respond
  <2>2. r \in 0..MaxReqs
    BY DEF Requests
  <2> QED  BY <1>0, <2>1, <2>2, ThreadFacts, Zenon
<1>6. ASSUME NEW c \in PoolThreads, TakePending(c) \/ LockUser(c) \/ Post(c) PROVE T'
  <2>1. /\ UNCHANGED <<reqId, sender, accepted, answered>> /\ c \in Threads
        /\ pending' \subseteq pending /\ pc[c] \in {"take", "lock", "post"}
        /\ \/ pc' = [pc EXCEPT ![c] = "idle"] /\ req' = [req EXCEPT ![c] = 0]
           \/ pc' = [pc EXCEPT ![c] = "lock"] /\ req' = [req EXCEPT ![c] = req[c]]
           \/ pc' = [pc EXCEPT ![c] = "post"] /\ req' = [req EXCEPT ![c] = req[c]]
    BY <1>6, ThreadFacts, Zenon DEF TakePending, LockUser, Post, Remaining
  <2> QED  BY <1>0, <2>1, ThreadFacts
<1>7. T'
  <2> HIDE DEF T
  <2> QED  BY <1>1, <1>2, <1>3, <1>4, <1>5, <1>6, RequestSteps, Zenon
<1> QED  BY <1>7, LifeSteps, LifeTypes, MonTypes, Zenon DEF Types
-----------------------------------------------------------------------------
\* A step preserves that a context whose result has come was overtaken by it.
LEMMA OrphanStep ==
    ASSUME Types, OrphanInv, [Next]_vars
    PROVE  OrphanInv'
<1>0. /\ pc \in [Threads -> Handles \cup {"idle", "take", "lock", "post"}] /\ DOMAIN req = Threads
      /\ accepted \subseteq 1..reqId /\ answered \subseteq accepted /\ pending \subseteq accepted
      /\ reqId \in Nat
      /\ \A t \in Threads : pc[t] = "save" => req[t] \in accepted
      /\ Workers \subseteq Threads /\ PoolThreads \subseteq Threads
      /\ \A w \in Workers : w \notin PoolThreads
  BY ThreadFacts DEF Types
<1> USE DEF At, Taking, NoReq, poolVars, outVars
<1>1. ASSUME Quiet PROVE OrphanInv'
  <2>1. UNCHANGED <<pc, req, answered, unmatched>> /\ pending' \subseteq pending
    BY <1>1, Zenon DEF Quiet
  <2> QED  BY <2>1, Zenon DEF OrphanInv
\* A step of a worker that saves no context.
<1>2. ASSUME NEW w \in Workers, pc'[w] # "save", pc[w] # "take",
             \A t \in Threads : t # w => pc'[t] = pc[t] /\ req'[t] = req[t],
             UNCHANGED <<answered, pending, unmatched>>
      PROVE  OrphanInv'
  BY <1>0, <1>2 DEF OrphanInv
<1>3. ASSUME NEW w \in Workers, OnRecvMsg(w) \/ Return(w) PROVE OrphanInv'
  <2>1. /\ pc'[w] # "save" /\ pc[w] # "take" /\ UNCHANGED <<answered, pending, unmatched>>
        /\ \A t \in Threads : t # w => pc'[t] = pc[t] /\ req'[t] = req[t]
    BY <1>0, <1>3, Zenon DEF OnRecvMsg, Return
  <2> QED  BY <1>2, <2>1, Zenon
<1>4. ASSUME NEW w \in Workers, Submit(w) PROVE OrphanInv'
  <2>1. /\ \A t \in Threads : t # w => pc'[t] = pc[t] /\ req'[t] = req[t]
        /\ UNCHANGED <<answered, pending, unmatched>> /\ pc[w] = "submit"
        /\ (pc'[w] = "save" /\ req'[w] = reqId + 1) \/ pc'[w] = "done"
    BY <1>0, <1>4, Zenon DEF Submit, Pool!Accept
  <2>2. CASE pc'[w] = "done"
    BY <1>2, <2>1, <2>2, Zenon
  <2>3. CASE pc'[w] = "save" /\ req'[w] = reqId + 1
    <3>1. req'[w] \notin accepted
      BY <1>0, <2>3
    <3>2. \A v \in Workers : v # w /\ pc'[v] = "save" =>
            pc[v] = "save" /\ req'[v] = req[v] /\ req[v] \in accepted
      BY <1>0, <2>1, Zenon
    <3>3. \A v \in Workers : pc'[v] = "save" => req'[v] \notin pending'
      BY <1>0, <2>1, <2>3, <3>1, <3>2, Zenon DEF OrphanInv
    <3>4. \A v \in Workers : pc'[v] = "save" /\ req'[v] \in answered' => v # w
      BY <1>0, <2>1, <2>3, <3>1, Zenon
    <3>5. \A v, x \in Workers : v # x /\ pc'[v] = "save" /\ pc'[x] = "save" => req'[v] # req'[x]
      BY <2>3, <3>1, <3>2 DEF OrphanInv
    <3>6. ASSUME NEW v \in Workers, pc'[v] = "save", req'[v] \in answered'
          PROVE  req'[v] \in unmatched' \/ \E c \in PoolThreads : pc'[c] = "take" /\ req'[c] = req'[v]
      BY <1>0, <2>1, <3>2, <3>4, <3>6 DEF OrphanInv, Taking
    <3>7. \A r \in pending' \cap answered' :
            r \in unmatched' \/ \E c \in PoolThreads : pc'[c] = "take" /\ req'[c] = r
      BY <1>0, <2>1 DEF OrphanInv, Taking
    <3> QED  BY <3>3, <3>5, <3>6, <3>7, Zenon DEF OrphanInv, Taking
  <2> QED  BY <2>1, <2>2, <2>3, Zenon
<1>5. ASSUME NEW w \in Workers, SavePenddingReq(w) PROVE OrphanInv'
  <2>1. /\ \A t \in Threads : t # w => pc'[t] = pc[t] /\ req'[t] = req[t]
        /\ UNCHANGED <<answered, unmatched>> /\ pc[w] = "save" /\ pc'[w] = "done"
        /\ pending' = pending \cup {req[w]}
    BY <1>0, <1>5, Zenon DEF SavePenddingReq
  <2>2. \A r : Taking(r) => Taking(r)'
    BY <1>0, <2>1, Zenon
  <2> HIDE DEF Taking
  <2>3. \A v \in Workers : pc'[v] = "save" => v # w /\ pc[v] = "save" /\ req'[v] = req[v]
    BY <1>0, <2>1, Zenon
  <2> QED  BY <2>1, <2>2, <2>3, Zenon DEF OrphanInv
<1>6. ASSUME NEW c \in PoolThreads, OnResponse(c) PROVE OrphanInv'
  <2>1. PICK r \in Requests :
          /\ UNCHANGED <<pending, unmatched>> /\ pc[c] = "idle"
          /\ answered' = answered \cup {r} /\ pc'[c] = "take" /\ req'[c] = r
          /\ \A t \in Threads : t # c => pc'[t] = pc[t] /\ req'[t] = req[t]
    BY <1>0, <1>6, Zenon DEF OnResponse, Pool!Respond
  <2>2. Taking(r)' /\ \A q : Taking(q) => Taking(q)'
    BY <1>0, <2>1, Zenon
  <2> HIDE DEF Taking
  <2>3. \A v \in Workers : pc'[v] = pc[v] /\ req'[v] = req[v]
    BY <1>0, <2>1, Zenon
  <2> QED  BY <2>1, <2>2, <2>3, Zenon DEF OrphanInv
<1>7. ASSUME NEW c \in PoolThreads, TakePending(c) PROVE OrphanInv'
  <2>1. /\ UNCHANGED answered /\ pc'[c] # "save"
        /\ \A t \in Threads : t # c => pc'[t] = pc[t] /\ req'[t] = req[t]
        /\ \/ req[c] \in pending /\ pending' = pending \ {req[c]} /\ UNCHANGED unmatched
           \/ UNCHANGED pending /\ unmatched' = unmatched \cup {req[c]}
    BY <1>0, <1>7, Zenon DEF TakePending, Remaining
  <2>2. \A q : Taking(q) /\ q # req[c] => Taking(q)'
    BY <1>0, <2>1, Zenon
  <2> HIDE DEF Taking
  <2>3. \A v \in Workers : pc'[v] = pc[v] /\ req'[v] = req[v]
    BY <1>0, <2>1, Zenon
  <2> QED  BY <2>1, <2>2, <2>3, Zenon DEF OrphanInv
<1>8. ASSUME NEW c \in PoolThreads, LockUser(c) \/ Post(c) PROVE OrphanInv'
  <2>1. /\ UNCHANGED <<answered, pending, unmatched>> /\ pc[c] # "take" /\ pc'[c] # "save"
        /\ \A t \in Threads : t # c => pc'[t] = pc[t] /\ req'[t] = req[t]
    BY <1>0, <1>8, Zenon DEF LockUser, Post
  <2>2. \A q : Taking(q) => Taking(q)'
    BY <1>0, <2>1, Zenon
  <2> HIDE DEF Taking
  <2>3. \A v \in Workers : pc'[v] = pc[v] /\ req'[v] = req[v]
    BY <1>0, <2>1, Zenon
  <2> QED  BY <2>1, <2>2, <2>3, Zenon DEF OrphanInv
<1> QED  BY <1>1, <1>3, <1>4, <1>5, <1>6, <1>7, <1>8, RequestSteps, Zenon

\* A worker begins to handle a request only in OnRecvMsg(), and goes on to save
\* a context only with the request it has submitted for the user it has locked.
LEMMA Handling ==
    ASSUME Types, PinInv, [Next]_vars
    PROVE  /\ \A w \in Workers : pc'[w] \in Handles => pc[w] \in Handles \/ OnRecvMsg(w)
           /\ \A w \in Workers : pc'[w] \in {"submit", "save"} =>
                 pc[w] \in {"submit", "save"} \/ OnRecvMsg(w)
           /\ \A w \in Workers : pc'[w] = "save" => sender'[req'[w]] = pin[w] /\ pc[w] \in Handles
           /\ \A r \in 1..reqId : sender'[r] = sender[r]
           /\ \A r \in pending' : r \in pending \/ \E w \in Workers : pc[w] = "save" /\ r = req[w]
<1> DEFINE Claim ==
           /\ \A w \in Workers : pc'[w] \in Handles => pc[w] \in Handles \/ OnRecvMsg(w)
           /\ \A w \in Workers : pc'[w] \in {"submit", "save"} =>
                 pc[w] \in {"submit", "save"} \/ OnRecvMsg(w)
           /\ \A w \in Workers : pc'[w] = "save" => sender'[req'[w]] = pin[w] /\ pc[w] \in Handles
           /\ \A r \in 1..reqId : sender'[r] = sender[r]
           /\ \A r \in pending' : r \in pending \/ \E w \in Workers : pc[w] = "save" /\ r = req[w]
<1>0. /\ pc \in [Threads -> Handles \cup {"idle", "take", "lock", "post"}] /\ DOMAIN req = Threads
      /\ reqId \in 0..MaxReqs /\ MaxReqs \in Nat /\ DOMAIN sender = 1..MaxReqs
      /\ accepted \subseteq 1..reqId
      /\ \A t \in Threads : pc[t] = "save" => req[t] \in accepted
      /\ Workers \subseteq Threads /\ PoolThreads \subseteq Threads
      /\ \A w \in Workers : w \notin PoolThreads
      /\ \A w \in Workers : pc[w] = "save" => sender[req[w]] = pin[w]
  BY ThreadFacts, BoundsAssumption, Zenon DEF Types, PinInv, Requests
<1>n. reqId \in 0..MaxReqs /\ MaxReqs \in Nat
  BY <1>0, Zenon
<1> USE DEF At, NoReq, Handles
<1>1. ASSUME Quiet PROVE Claim
  <2>1. UNCHANGED <<pc, req, sender>> /\ pending' \subseteq pending
    BY <1>1, Zenon DEF Quiet
  <2> QED  BY <1>0, <2>1, Zenon
<1>2. ASSUME NEW w \in Workers, OnRecvMsg(w) \/ Return(w) PROVE Claim
  <2>1. /\ UNCHANGED <<sender, pending>>
        /\ pc'[w] = "idle" \/ (pc'[w] = "submit" /\ OnRecvMsg(w))
        /\ \A t \in Threads : t # w => pc'[t] = pc[t] /\ req'[t] = req[t]
    BY <1>0, <1>2, Zenon DEF OnRecvMsg, Return
  <2> HIDE DEF At
  <2> QED  BY <1>0, <2>1, Zenon
<1>3. ASSUME NEW w \in Workers, Submit(w) PROVE Claim
  <2>1. /\ \A t \in Threads : t # w => pc'[t] = pc[t] /\ req'[t] = req[t]
        /\ UNCHANGED pending /\ pc[w] = "submit"
        /\ sender' = [sender EXCEPT ![reqId + 1] = pin[w]] /\ reqId + 1 \in 1..MaxReqs
        /\ (pc'[w] = "save" /\ req'[w] = reqId + 1) \/ pc'[w] = "done"
    <3>1. reqId < MaxReqs
      BY <1>3, Zenon DEF Submit
    <3>2. reqId + 1 \in 1..MaxReqs
      BY <1>n, <3>1
    <3> QED  BY <1>0, <1>3, <3>2, Zenon DEF Submit
  <2>2. sender'[reqId + 1] = pin[w] /\ \A r \in 1..reqId : sender'[r] = sender[r]
    <3>1. \A r \in 1..reqId : r \in 1..MaxReqs /\ r # reqId + 1
      BY <1>n
    <3> QED  BY <1>0, <2>1, <3>1, Zenon
  <2>3. ASSUME NEW v \in Workers, v # w, pc'[v] = "save"
        PROVE  sender'[req'[v]] = pin[v] /\ pc[v] \in Handles
    <3>1. v \in Threads /\ pc[v] = "save" /\ req'[v] = req[v]
      BY <1>0, <2>1, <2>3, Zenon
    <3>2. req[v] \in 1..reqId /\ sender[req[v]] = pin[v]
      BY <1>0, <3>1, Zenon
    <3> QED  BY <2>2, <3>1, <3>2, Zenon
  <2> QED  BY <1>0, <2>1, <2>2, <2>3, Zenon
<1>4. ASSUME NEW w \in Workers, SavePenddingReq(w) PROVE Claim
  <2>1. /\ \A t \in Threads : t # w => pc'[t] = pc[t] /\ req'[t] = req[t]
        /\ UNCHANGED sender /\ pc[w] = "save" /\ pc'[w] = "done"
        /\ pending' = pending \cup {req[w]}
    BY <1>0, <1>4, Zenon DEF SavePenddingReq
  <2> QED  BY <1>0, <2>1, Zenon
<1>5. ASSUME NEW c \in PoolThreads, PoolStep(c) PROVE Claim
  <2>1. /\ \A t \in Threads : t # c => pc'[t] = pc[t] /\ req'[t] = req[t]
        /\ UNCHANGED sender /\ pending' \subseteq pending
    BY <1>0, <1>5, Zenon DEF PoolStep, OnResponse, TakePending, LockUser, Post, Remaining
  <2> QED  BY <1>0, <2>1, Zenon
<1>6. Claim
  <2> HIDE DEF Claim
  <2> QED  BY <1>1, <1>2, <1>3, <1>4, <1>5, RequestSteps, Zenon DEF PoolStep
<1> QED  BY <1>6, Zenon

\* A step preserves that locked users exist and workers have locked theirs.
LEMMA PinStep ==
    ASSUME Types, PinInv, StopInv, [Next]_vars
    PROVE  PinInv'
<1>1. LifeStep
  BY LifeSteps, Zenon
<1>2. ASSUME NEW w \in Workers, pc'[w] \in Handles
      PROVE  w \in serving' /\ pin'[w] = pin[w] /\ pin[w] # NoUser
  <2>1. CASE pc[w] \in Handles
    BY <1>1, <1>2, <2>1, Alive, Zenon DEF PinInv
  <2>2. CASE OnRecvMsg(w)
    BY <2>2, Zenon DEF OnRecvMsg, Life!Serve
  <2> QED  BY <1>2, <2>1, <2>2, Handling, Zenon
<1>3. ASSUME NEW w \in Workers, pc'[w] = "save" PROVE pin'[w] = sender'[req'[w]]
  BY <1>2, <1>3, Handling, Zenon DEF Handles
<1> QED  BY <1>1, <1>2, <1>3, Alive, Zenon DEF PinInv

\* A step preserves the order of serveUtilStop().
LEMMA StopStep ==
    ASSUME Types, PinInv, StopInv, [Next]_vars
    PROVE  StopInv'
<1>0. (down' => \A w \in Workers : pin'[w] = NoUser) /\ (down => down')
  BY LifeSteps, Alive, Zenon DEF StopInv
<1>1. CASE CleanupPools
  BY <1>0, <1>1, Zenon DEF CleanupPools, Pool!Finish, StopInv
<1>2. CASE ReleaseContexts
  BY <1>0, <1>2, Zenon DEF ReleaseContexts, StopInv, poolVars
<1>3. CASE UNCHANGED <<over, released>> /\ \A c \in PoolThreads : pc[c] = "idle" /\ over => pc'[c] = "idle"
  BY <1>0, <1>3, Zenon DEF StopInv
<1>4. ASSUME NEW c \in PoolThreads, PoolStep(c) PROVE StopInv'
  <2>1. UNCHANGED <<over, released>>
    BY <1>4, Zenon DEF PoolStep, OnResponse, TakePending, LockUser, Post, Pool!Respond, poolVars
  <2>2. ~over
    BY <1>4, Zenon DEF PoolStep, OnResponse, TakePending, LockUser, Post, Pool!Respond, StopInv
  <2> QED  BY <1>0, <2>1, <2>2, Zenon DEF StopInv
<1>5. ASSUME NEW w \in Workers, WorkerStep(w) \/ OnRecvMsg(w) \/ \E u \in Users : Lock(w, u)
      PROVE  StopInv'
  <2>1. UNCHANGED <<over, released>>
    BY <1>5, Zenon DEF WorkerStep, Skip, Submit, SavePenddingReq, Return, OnRecvMsg, Lock, Pool!Accept, poolVars
  <2>2. \A c \in PoolThreads : pc'[c] = pc[c]
    <3>1. \/ UNCHANGED pc
          \/ \E l \in {"idle", "submit", "save", "done"} : pc' = [pc EXCEPT ![w] = l]
      BY <1>5, Zenon DEF WorkerStep, Skip, Submit, SavePenddingReq, Return, OnRecvMsg, Lock, At
    <3>2. \A c \in PoolThreads : c \in DOMAIN pc /\ c # w
      BY ThreadFacts, Zenon DEF Types
    <3> QED  BY <3>1, <3>2, Zenon DEF Types
  <2> QED  BY <1>3, <2>1, <2>2, Zenon
<1>6. CASE UserStep \/ CleanupShard \/ (\E u \in Users : OnDisconnect(u)) \/ ServerDown \/ CloseServer
  BY <1>3, <1>6, Zenon DEF UserStep, CleanupShard, OnDisconnect, ServerDown, CloseServer, poolVars
<1>7. CASE UNCHANGED vars
  BY <1>3, <1>7, Zenon DEF vars, poolVars
<1> QED  BY <1>1, <1>2, <1>4, <1>5, <1>6, <1>7, Zenon DEF Next

\* The shard of a request is one of the shards.
LEMMA ShardRange ==
    ASSUME NEW i \in Nat
    PROVE  ShardIdx(i) \in 0..NumShards - 1
BY BoundsAssumption DEF ShardIdx

\* A step preserves the progress of the cleanup.
LEMMA SweepStep ==
    ASSUME Types, PinInv, StopInv, SweepInv, [Next]_vars
    PROVE  SweepInv'
<1>0. /\ \A u \in Users : phase[u] = "gone" => phase'[u] = "gone"
      /\ \A u \in Users : phase[u] = "notified" => phase'[u] \in {"notified", "gone"}
      /\ \A w \in Workers : pc'[w] \in Handles /\ w \in serving /\ pin[w] # NoUser =>
            w \in serving' /\ pin'[w] = pin[w]
      /\ mon # NoUser /\ ~down /\ phase[mon] = "notified" => ~down' /\ phase'[mon] = "notified"
  BY LifeSteps, Alive, Zenon
<1>1. /\ Workers \subseteq Threads /\ swept \subseteq Users /\ sweeping \subseteq Users
      /\ mon \in Users \cup {NoUser} /\ shard \in 0..NumShards - 1 /\ NumShards \in Nat \ {0}
      /\ \A r \in pending : r \in 1..reqId /\ r \in Nat /\ sender[r] \in Users
      /\ phase \in [Users -> {"none", "open", "closed", "notified", "gone"}]
      /\ NoUser \notin Users
  BY BoundsAssumption, ThreadFacts DEF Types
<1>2. CASE UNCHANGED monVars
  <2>0. UNCHANGED <<mon, shard, swept, sweeping>>
    BY <1>2, Zenon DEF monVars
  <2>1. ASSUME NEW u \in swept \cup sweeping
        PROVE  /\ phase'[u] \in {"notified", "gone"}
               /\ \A w \in Workers : pc'[w] \in {"submit", "save"} => pin'[w] # u
    <3>1. u \in Users /\ phase[u] \in {"notified", "gone"}
      BY <1>1, Zenon DEF SweepInv
    <3>2. ASSUME NEW w \in Workers, pc'[w] \in {"submit", "save"} PROVE pin'[w] # u
      <4>1. CASE pc[w] \in {"submit", "save"}
        <5>1. w \in serving /\ pin[w] # NoUser /\ pin[w] # u
          BY <4>1, Zenon DEF PinInv, SweepInv, Handles
        <5> QED  BY <1>0, <3>2, <5>1, Zenon DEF Handles
      <4>2. CASE OnRecvMsg(w)
        BY <3>1, <4>2, Zenon DEF OnRecvMsg, Life!Serve
      <4> QED  BY <3>2, <4>1, <4>2, Handling, Zenon
    <3> QED  BY <1>0, <3>1, <3>2, Zenon
  <2>2. ASSUME NEW r \in pending'
        PROVE  sender'[r] \notin swept /\ (sender'[r] \in sweeping => ShardIdx(r) >= shard)
    <3>1. CASE r \in pending
      <4>1. sender'[r] = sender[r]
        BY <1>1, <3>1, Handling, Zenon
      <4> QED  BY <3>1, <4>1, Zenon DEF SweepInv
    <3>2. ASSUME NEW w \in Workers, pc[w] = "save", r = req[w]
          PROVE  sender'[r] \notin swept \cup sweeping
      <4>1. r \in 1..reqId /\ sender[r] = pin[w]
        BY <1>1, <3>2, Zenon DEF PinInv, Types
      <4>2. sender'[r] = pin[w]
        BY <4>1, Handling, Zenon
      <4> QED  BY <3>2, <4>2, Zenon DEF SweepInv
    <3> QED  BY <3>1, <3>2, Handling, Zenon
  <2> QED  BY <1>0, <1>1, <2>0, <2>1, <2>2, Zenon DEF SweepInv
<1>3. ASSUME NEW u \in Users, OnDisconnect(u) PROVE SweepInv'
  <2>1. /\ phase[u] = "closed" /\ phase' = [phase EXCEPT ![u] = "notified"]
        /\ UNCHANGED <<pin, serving, down, pc, pending, sender, swept>> /\ ~down
        /\ mon' = u /\ shard' = 0 /\ mon = NoUser
    BY <1>3, Zenon DEF OnDisconnect, Life!Disconnect, Life!Move
  <2>2. \A v \in sweeping' :
          \/ v \in Users /\ phase[v] = "gone"
          \/ v = u /\ \A w \in serving : pin[w] # u
    BY <1>3, Zenon DEF OnDisconnect
  <2>3. ASSUME NEW v \in sweeping'
        PROVE  /\ phase'[v] \in {"notified", "gone"} /\ (v = u \/ phase'[v] = "gone")
               /\ \A w \in Workers : pc[w] \in {"submit", "save"} => pin[w] # v
    <3>1. ASSUME NEW w \in Workers, pc[w] \in {"submit", "save"} PROVE pin[w] # v
      <4>1. w \in serving /\ phase[pin[w]] # "gone"
        BY <1>1, <3>1, Zenon DEF PinInv, Handles
      <4> QED  BY <1>1, <2>2, <2>3, <4>1, Zenon
    <3> QED  BY <1>1, <2>1, <2>2, <2>3, <3>1, Zenon
  <2>4. \A v \in swept :
          /\ phase'[v] \in {"notified", "gone"}
          /\ \A w \in Workers : pc[w] \in {"submit", "save"} => pin[w] # v
    BY <1>1, <2>1, Zenon DEF SweepInv
  <2>5. \A r \in pending : ShardIdx(r) >= 0 /\ sender[r] \notin swept
    BY <1>1, ShardRange DEF SweepInv
  <2> QED  BY <1>1, <2>1, <2>3, <2>4, <2>5, Zenon DEF SweepInv
<1>4. CASE CleanupShard
  <2>1. /\ UNCHANGED <<phase, down, pc, pin, sender>> /\ mon # NoUser
        /\ pending' = {r \in pending : ~(ShardIdx(r) = shard /\ Stale(r))}
    BY <1>4, Zenon DEF CleanupShard, lifeVars
  <2>2. \A r \in pending' : r \in pending /\ (sender[r] \in sweeping => ShardIdx(r) >= shard + 1)
    <3>1. \A r \in pending : sender[r] \in sweeping => Stale(r)
      BY Zenon DEF SweepInv, Stale
    <3>2. \A r \in pending : ShardIdx(r) \in 0..NumShards - 1
      BY <1>1, ShardRange, Zenon
    <3> QED  BY <1>1, <2>1, <3>1, <3>2 DEF SweepInv
  <2>3. CASE shard < LastShard
    <3>1. shard' = shard + 1 /\ UNCHANGED <<mon, swept, sweeping>>
      BY <1>4, <2>3, Zenon DEF CleanupShard
    <3> QED  BY <1>1, <2>1, <2>2, <3>1, Zenon DEF SweepInv
  <2>4. CASE ~(shard < LastShard)
    <3>1. shard' = 0 /\ mon' = NoUser /\ swept' = swept \cup sweeping /\ sweeping' = {}
      BY <1>4, <2>4, Zenon DEF CleanupShard
    <3>2. \A r \in pending' : sender[r] \notin sweeping
      <4>1. shard = NumShards - 1
        BY <1>1, <2>4 DEF LastShard
      <4>2. \A r \in pending : ShardIdx(r) \in 0..NumShards - 1
        BY <1>1, ShardRange, Zenon
      <4> QED  BY <1>1, <2>2, <4>1, <4>2
    <3> QED  BY <1>1, <2>1, <2>2, <3>1, <3>2, Zenon DEF SweepInv
  <2> QED  BY <2>3, <2>4, Zenon
<1> QED  BY <1>2, <1>3, <1>4, MonSteps, Zenon
-----------------------------------------------------------------------------
\* The initial states satisfy the invariant.
LEMMA InitInv == Init => Inv
<1> SUFFICES ASSUME Init PROVE Inv
  BY Zenon
<1> USE BoundsAssumption DEF Init, Life!Init, Life!Threads, Pool!Init, Threads, NoReq
<1>1. Types
  BY DEF Types, Handles
<1>2. OrphanInv /\ StopInv
  BY Zenon DEF OrphanInv, StopInv
<1>3. PinInv
  BY Zenon DEF PinInv, Handles
<1>4. SweepInv
  BY Zenon DEF SweepInv
<1> QED  BY <1>1, <1>2, <1>3, <1>4, Zenon DEF Inv

\* The invariant is inductive.
LEMMA NextInv == Inv /\ [Next]_vars => Inv'
BY TypesStep, OrphanStep, PinStep, StopStep, SweepStep, Zenon DEF Inv

\* The invariant holds in every behaviour of the proxy.
LEMMA Invariance == Spec => []Inv
BY InitInv, NextInv, PTL DEF Spec

\* serveUtilStop() destroys the contexts when no thread can use one any more,
\* with any number of workers and of pool threads.
THEOREM ContextsAreSafe == Spec => []ContextsOutliveUse
<1>1. Inv => ContextsOutliveUse
  BY Zenon DEF Inv, StopInv, PinInv, Types, Handles, Threads, ContextsOutliveUse
<1> QED  BY <1>1, Invariance, PTL

\* A context whose result has been delivered is one whose saving the result
\* overtook; and no cleanup leaves a context that it should have removed.
THEOREM OrphansAreOvertaken == Spec => []OrphanWasOvertaken
<1>1. Inv => OrphanWasOvertaken
  BY Zenon DEF Inv, OrphanInv, SweepInv, Taking, OrphanWasOvertaken
<1> QED  BY <1>1, Invariance, PTL

=============================================================================
