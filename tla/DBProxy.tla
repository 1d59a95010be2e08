------------------------------- MODULE DBProxy -------------------------------
(***************************************************************************)
(* DBProxyBase of src/lygc/dbproxy_base.hpp with the submit() of a database *)
(* proxy (src/lygc/dbproxy_redis.hpp; MySQL and MongoDB are alike): a       *)
(* server worker hands a request to the client pool and then saves its      *)
(* context; a pool thread that has the result takes the context and posts   *)
(* the answer.  The connections are those of UserLifecycle, the pool that   *)
(* of RequestPool; requests are numbered by the ids the pool gives them.    *)
(***************************************************************************)
EXTENDS Naturals, FiniteSets

CONSTANTS
    Users,        \* DBProxyUserBase objects
    Workers,      \* worker threads of the server
    PoolThreads,  \* worker threads of the pool
    NoUser,       \* a null pointer
    NumShards,    \* SHARD_COUNT
    MaxReqs       \* bound: requests submitted in a behaviour

ASSUME BoundsAssumption == NumShards \in Nat \ {0} /\ MaxReqs \in Nat
ASSUME UsersAssumption == NoUser \notin Users
ASSUME ThreadsAssumption == Workers \cap PoolThreads = {}

Requests == 1..MaxReqs
NoReq == 0

VARIABLES
    phase, pin, serving, down,  \* UserLifecycle
    accepted, answered, over,   \* RequestPool
    reqId,     \* the pool's request counter
    sender,    \* sender[r]: the user that sent request r
    pending,   \* penddingReqs: the requests with a saved context
    released,  \* serveUtilStop() has destroyed the contexts
    pc, req,   \* pc[t], req[t]: step and request of thread t
    mon,       \* the user whose onDisconnect() the monitor runs, or NoUser
    shard,     \* the next shard it visits
    posted,    \* requests whose answer was posted
    busy,      \* requests refused with PoolIsBusy
    unmatched, \* requests whose result found no context
    swept, sweeping  \* users that can have no context any more, or soon

lifeVars == <<phase, pin, serving, down>>
poolVars == <<accepted, answered, over>>
monVars  == <<mon, shard, swept, sweeping>>
outVars  == <<posted, busy, unmatched>>
vars == <<lifeVars, poolVars, reqId, sender, pending, released, pc, req, monVars, outVars>>

Life == INSTANCE UserLifecycle WITH Others <- PoolThreads
Pool == INSTANCE RequestPool

Init ==
    /\ Life!Init /\ Pool!Init
    /\ reqId = 0 /\ sender = [r \in Requests |-> NoUser]
    /\ pending = {} /\ released = FALSE
    /\ pc = [t \in Workers \cup PoolThreads |-> "idle"]
    /\ req = [t \in Workers \cup PoolThreads |-> NoReq]
    /\ mon = NoUser /\ shard = 0 /\ swept = {} /\ sweeping = {}
    /\ posted = {} /\ busy = {} /\ unmatched = {}

At(t, label, r) ==
    /\ pc' = [pc EXCEPT ![t] = label]
    /\ req' = [req EXCEPT ![t] = r]

\* A thread drops its reference, which is the last one only if the monitor is
\* not running onDisconnect() of this user.
Drop(t) == Life!Unpin(t) /\ (mon = pin[t] => UNCHANGED phase)

-----------------------------------------------------------------------------
(* Connections.                                                            *)

UserStep ==
    /\ \E u \in Users : Life!Connect(u) \/ Life!Close(u) \/ (Life!Destroy(u) /\ mon # u)
    /\ UNCHANGED <<poolVars, reqId, sender, pending, released, pc, req, monVars, outVars>>

Lock(w, u) ==
    /\ pc[w] = "idle" /\ ~down
    /\ Life!Pin(w, u)
    /\ UNCHANGED <<poolVars, reqId, sender, pending, released, pc, req, monVars, outVars>>

\* The user is closed, or the message cannot be unpacked or has a wrong type.
Skip(w) ==
    /\ pc[w] = "idle"
    /\ Drop(w)
    /\ UNCHANGED <<poolVars, reqId, sender, pending, released, pc, req, monVars, outVars>>

-----------------------------------------------------------------------------
(* onRecvMsg() -> submit(): first the pool, then the context.              *)

OnRecvMsg(w) ==
    /\ pc[w] = "idle" /\ reqId < MaxReqs
    /\ Life!Serve(w)
    /\ At(w, "submit", NoReq)
    /\ UNCHANGED <<poolVars, reqId, sender, pending, released, monVars, outVars>>

\* pool->submit(): the pool takes the request, or is busy and the request is
\* only logged.
Submit(w) ==
    /\ pc[w] = "submit" /\ reqId < MaxReqs
    /\ reqId' = reqId + 1
    /\ sender' = [sender EXCEPT ![reqId'] = pin[w]]
    /\ \/ Pool!Accept(reqId') /\ At(w, "save", reqId') /\ UNCHANGED busy
       \/ /\ busy' = busy \cup {reqId'} /\ At(w, "done", NoReq)
          /\ UNCHANGED poolVars
    /\ UNCHANGED <<lifeVars, pending, released, monVars, posted, unmatched>>

SavePenddingReq(w) ==
    /\ pc[w] = "save"
    /\ pending' = pending \cup {req[w]}
    /\ At(w, "done", NoReq)
    /\ UNCHANGED <<lifeVars, poolVars, reqId, sender, released, monVars, outVars>>

\* The handler returns, without submitting when the slot is invalid or has no
\* database.
Return(w) ==
    /\ pc[w] \in {"submit", "done"}
    /\ Drop(w)
    /\ At(w, "idle", NoReq)
    /\ UNCHANGED <<poolVars, reqId, sender, pending, released, monVars, outVars>>

-----------------------------------------------------------------------------
(* onResponse() -> onResponseBase(), on a thread of the pool.              *)

OnResponse(c) ==
    /\ pc[c] = "idle"
    /\ \E r \in Requests : Pool!Respond(r) /\ At(c, "take", r)
    /\ UNCHANGED <<lifeVars, reqId, sender, pending, released, monVars, outVars>>

Remaining_Kept(r) == pending

\* erase() of the context that was found.
Remaining(r) == pending \ {r}

TakePending(c) ==
    /\ pc[c] = "take"
    /\ IF req[c] \in pending
         THEN /\ pending' = Remaining(req[c])
              /\ At(c, "lock", req[c]) /\ UNCHANGED unmatched
         ELSE /\ unmatched' = unmatched \cup {req[c]}
              /\ At(c, "idle", NoReq) /\ UNCHANGED pending
    /\ UNCHANGED <<lifeVars, poolVars, reqId, sender, released, monVars, posted, busy>>

LockUser(c) ==
    /\ pc[c] = "lock"
    /\ LET u == sender[req[c]] IN
       \/ Life!Pin(c, u) /\ At(c, "post", req[c])
       \/ phase[u] = "gone" /\ At(c, "idle", NoReq) /\ UNCHANGED lifeVars
    /\ UNCHANGED <<poolVars, reqId, sender, pending, released, monVars, outVars>>

\* post() queues the answer, unless the user's queue is full.
Post(c) ==
    /\ pc[c] = "post"
    /\ posted' = posted \cup {req[c]} \/ UNCHANGED posted
    /\ Drop(c)
    /\ At(c, "idle", NoReq)
    /\ UNCHANGED <<poolVars, reqId, sender, pending, released, monVars, busy, unmatched>>

-----------------------------------------------------------------------------
(* onDisconnect(): cleanupUserPending(), shard by shard.                   *)

OnDisconnect(u) ==
    /\ mon = NoUser /\ ~down
    /\ Life!Disconnect(u)
    /\ mon' = u /\ shard' = 0
    /\ sweeping' = {v \in Users : phase[v] = "gone"}
                   \cup (IF \E w \in serving : pin[w] = u THEN {} ELSE {u})
    /\ UNCHANGED <<poolVars, reqId, sender, pending, released, pc, req, swept, outVars>>

ShardIdx(r) == r % NumShards

LastShard == NumShards - 1

\* The user of the context is gone, or is the one that disconnects.
Stale(r) == phase[sender[r]] = "gone" \/ sender[r] = mon

CleanupShard ==
    /\ mon # NoUser
    /\ pending' = {r \in pending : ~(ShardIdx(r) = shard /\ Stale(r))}
    /\ IF shard < LastShard
         THEN shard' = shard + 1 /\ UNCHANGED <<mon, swept, sweeping>>
         ELSE /\ shard' = 0 /\ mon' = NoUser
              /\ swept' = swept \cup sweeping /\ sweeping' = {}
    /\ UNCHANGED <<lifeVars, poolVars, reqId, sender, released, pc, req, outVars>>

-----------------------------------------------------------------------------
(* serveUtilStop(): the server's threads are joined, then the pool's, then  *)
(* the contexts are destroyed.                                             *)

ServerDown ==
    /\ Life!Down /\ mon = NoUser
    /\ UNCHANGED <<poolVars, reqId, sender, pending, released, pc, req, monVars, outVars>>

CleanupPools ==
    /\ down /\ \A c \in PoolThreads : pc[c] = "idle"
    /\ Pool!Finish
    /\ UNCHANGED <<lifeVars, reqId, sender, pending, released, pc, req, monVars, outVars>>

ReleaseContexts_Early ==
    /\ down /\ ~released
    /\ released' = TRUE /\ pending' = {}
    /\ UNCHANGED <<lifeVars, poolVars, reqId, sender, pc, req, monVars, outVars>>

ReleaseContexts ==
    /\ over /\ ~released
    /\ released' = TRUE /\ pending' = {}
    /\ UNCHANGED <<lifeVars, poolVars, reqId, sender, pc, req, monVars, outVars>>

CloseServer ==
    /\ released
    /\ Life!DestroyAll
    /\ UNCHANGED <<poolVars, reqId, sender, pending, released, pc, req, monVars, outVars>>

-----------------------------------------------------------------------------
WorkerStep(w) == Skip(w) \/ Submit(w) \/ SavePenddingReq(w) \/ Return(w)
PoolStep(c) == OnResponse(c) \/ TakePending(c) \/ LockUser(c) \/ Post(c)

Next ==
    \/ UserStep
    \/ \E w \in Workers : WorkerStep(w) \/ OnRecvMsg(w) \/ \E u \in Users : Lock(w, u)
    \/ \E c \in PoolThreads : PoolStep(c)
    \/ CleanupShard \/ \E u \in Users : OnDisconnect(u)
    \/ ServerDown \/ CleanupPools \/ ReleaseContexts \/ CloseServer

Spec == Init /\ [][Next]_vars

\* Threads finish what they have begun, and the pool answers what it accepted
\* (the module DbPool shows that it does, unless it is stopped).
Fairness ==
    /\ \A w \in Workers : WF_vars(WorkerStep(w))
    /\ \A c \in PoolThreads : WF_vars(PoolStep(c))
    /\ WF_vars(CleanupShard) /\ WF_vars(ReleaseContexts)

FairSpec == Spec /\ Fairness

-----------------------------------------------------------------------------
(* Properties.                                                             *)

\* No thread is between taking a request and its context when the contexts are
\* destroyed: "workers may still reference contexts" until the pools are down.
ContextsOutliveUse ==
    released => \A t \in Workers \cup PoolThreads : pc[t] \notin {"submit", "save", "take"}

\* A context that is saved although its result has come and gone: this happens
\* only when the result overtook the saving, and in no other way.  Nor does a
\* cleanup leave a context of a user that was gone when it began, or of the
\* disconnected user if none of its requests was being handled.
OrphanWasOvertaken ==
    /\ \A r \in pending \cap answered :
         r \in unmatched \/ \E c \in PoolThreads : pc[c] = "take" /\ req[c] = r
    /\ \A r \in pending : sender[r] \notin swept

\* A saved context is taken by its result or cleaned up, unless it is such an
\* orphan.
PendingResolved ==
    \A r \in Requests : r \in pending ~> (r \notin pending \/ r \in unmatched)
=============================================================================
