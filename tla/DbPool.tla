------------------------------- MODULE DbPool -------------------------------
(***************************************************************************)
(* redis_client_pool of src/wjp/redis_client.hpp (mysql_client_pool has the *)
(* same threads): requests wait in a bounded queue; each worker pops one,   *)
(* takes an idle client or opens a new one, executes the request and calls  *)
(* onResponse().  A request for which no client can be had goes back to the *)
(* front of the queue, a limited number of times.                           *)
(***************************************************************************)
EXTENDS Naturals, Sequences, FiniteSets

CONSTANTS
    Workers,        \* worker threads; start() creates as many as _poolSize
    QueueCap,       \* MaxPendingReq
    MaxRetryTimes,
    MaxReqs         \* bound: requests submitted in a behaviour

ASSUME WorkersAssumption == IsFiniteSet(Workers) /\ Workers # {}
ASSUME BoundsAssumption == QueueCap \in Nat /\ MaxRetryTimes \in Nat /\ MaxReqs \in Nat

PoolSize == Cardinality(Workers)
Requests == 1..MaxReqs
Clients == 1..(PoolSize + 2)   \* client objects; a deleted one's number is used again
NoReq == 0
NoClient == 0

VARIABLES
    reqId,      \* _reqId
    accepted,   \* requests that submit() took
    queue,      \* _queue
    stopped,    \* _queue.stop() was called
    joined,     \* serveUtilStop() has joined the workers
    retryTimes, \* retryTimes[r]
    clt2idle,   \* the clients in _clt2idle
    idle,       \* those marked idle
    live,       \* client objects that exist, with their connections
    pc, req, client,  \* the workers: step, request, client
    responses,  \* responses[r]: calls of onResponse()
    gaveUp,     \* requests answered with RESP_RC_NO_AVAIL_CLT
    openFails,  \* openFails[r]: failed open() calls for r
    refused     \* some worker found no idle client and the pool full

reqVars == <<reqId, accepted, retryTimes, responses, gaveUp, openFails>>
cltVars == <<clt2idle, idle, live, refused>>
wkVars  == <<pc, req, client>>
dbVars == <<reqVars, cltVars, wkVars, queue, stopped, joined>>

DbInit ==
    /\ reqId = 0 /\ accepted = {} /\ queue = <<>> /\ stopped = FALSE /\ joined = FALSE
    /\ retryTimes = [r \in Requests |-> 0] /\ openFails = [r \in Requests |-> 0]
    /\ responses = [r \in Requests |-> 0] /\ gaveUp = {}
    /\ clt2idle = {} /\ idle = {} /\ live = {} /\ refused = FALSE
    /\ pc = [w \in Workers |-> "pop"]
    /\ req = [w \in Workers |-> NoReq] /\ client = [w \in Workers |-> NoClient]

Goto(w, label) == pc' = [pc EXCEPT ![w] = label]

-----------------------------------------------------------------------------
(* submit(): a new id, then SafeQueue::push(), which fails on a full queue. *)

HasRoom == Len(queue) < QueueCap

Submit ==
    /\ reqId < MaxReqs /\ ~joined
    /\ reqId' = reqId + 1
    /\ IF HasRoom
         THEN queue' = Append(queue, reqId') /\ accepted' = accepted \cup {reqId'}
         ELSE UNCHANGED <<queue, accepted>>
    /\ UNCHANGED <<retryTimes, responses, gaveUp, openFails, cltVars, wkVars, stopped, joined>>

-----------------------------------------------------------------------------
(* worker().                                                               *)

Pop_ExitUnseen(w) ==
    /\ pc[w] = "pop" /\ queue # <<>>
    /\ \/ stopped /\ Goto(w, "exit") /\ UNCHANGED <<queue, req>>
       \/ /\ ~stopped
          /\ req' = [req EXCEPT ![w] = Head(queue)]
          /\ queue' = Tail(queue)
          /\ Goto(w, "get")
    /\ UNCHANGED <<reqVars, cltVars, client, stopped, joined>>

\* pop_timeout(): the stop flag wins over waiting requests.
Pop(w) ==
    /\ pc[w] = "pop"
    /\ \/ stopped /\ Goto(w, "exit") /\ UNCHANGED <<queue, req>>
       \/ /\ ~stopped /\ queue # <<>>
          /\ req' = [req EXCEPT ![w] = Head(queue)]
          /\ queue' = Tail(queue)
          /\ Goto(w, "get")
    /\ UNCHANGED <<reqVars, cltVars, client, stopped, joined>>

TakeIdle(w) ==
    \E c \in idle :
        /\ idle' = idle \ {c}
        /\ client' = [client EXCEPT ![w] = c]
        /\ Goto(w, "handle")
        /\ UNCHANGED <<clt2idle, live, refused>>

CreateNew(w) ==
    /\ LET c == CHOOSE x \in Clients : x \notin live IN
       /\ live' = live \cup {c} /\ clt2idle' = clt2idle \cup {c}
       /\ client' = [client EXCEPT ![w] = c]
    /\ Goto(w, "open")
    /\ UNCHANGED <<idle, refused>>

GetIdleClient_CreateFirst(w) ==
    /\ pc[w] = "get"
    /\ IF Cardinality(clt2idle) < PoolSize THEN CreateNew(w) ELSE TakeIdle(w)
    /\ UNCHANGED <<reqVars, req, queue, stopped, joined>>

\* No client is idle and the pool is full.
Refuse(w) ==
    /\ refused' = TRUE
    /\ Goto(w, "fail")
    /\ UNCHANGED <<clt2idle, idle, live, client>>

\* getIdleClient(), first half, under _lockClients: an idle client, else a new
\* one, else none.
GetIdleClient(w) ==
    /\ pc[w] = "get"
    /\ IF idle # {} THEN TakeIdle(w)
       ELSE IF Cardinality(clt2idle) < PoolSize THEN CreateNew(w) ELSE Refuse(w)
    /\ UNCHANGED <<reqVars, req, queue, stopped, joined>>

\* getIdleClient(), second half: open() without the lock; a client that cannot
\* connect is taken out of the map and deleted.
Open(w) ==
    /\ pc[w] = "open"
    /\ \/ Goto(w, "handle") /\ UNCHANGED <<clt2idle, live, client, openFails>>
       \/ /\ Goto(w, "fail")
          /\ clt2idle' = clt2idle \ {client[w]} /\ live' = live \ {client[w]}
          /\ client' = [client EXCEPT ![w] = NoClient]
          /\ openFails' = [openFails EXCEPT ![req[w]] = @ + 1]
    /\ UNCHANGED <<reqId, accepted, retryTimes, responses, gaveUp, idle, refused, req, queue, stopped, joined>>

\* handleRequest() calls onResponse() whatever the outcome, and the connection
\* is usable afterwards or not.  (A client in the map is connected: the test of
\* getConnState() before handleRequest() never fails.)
HandleRequest(w) ==
    /\ pc[w] = "handle"
    /\ responses' = [responses EXCEPT ![req[w]] = @ + 1]
    /\ req' = [req EXCEPT ![w] = NoReq]
    /\ Goto(w, "mark") \/ Goto(w, "close")
    /\ UNCHANGED <<reqId, accepted, retryTimes, gaveUp, openFails, cltVars, client, queue, stopped, joined>>

MarkClientIdle(w) ==
    /\ pc[w] = "mark"
    /\ idle' = idle \cup {client[w]}
    /\ client' = [client EXCEPT ![w] = NoClient]
    /\ Goto(w, "pop")
    /\ UNCHANGED <<reqVars, clt2idle, live, refused, req, queue, stopped, joined>>

\* closeClient(): out of the map under the lock; closed and deleted after it.
CloseClient(w) ==
    /\ pc[w] = "close"
    /\ clt2idle' = clt2idle \ {client[w]}
    /\ Goto(w, "delete")
    /\ UNCHANGED <<reqVars, idle, live, refused, req, client, queue, stopped, joined>>

DeleteClient(w) ==
    /\ pc[w] = "delete"
    /\ live' = live \ {client[w]}
    /\ client' = [client EXCEPT ![w] = NoClient]
    /\ Goto(w, "pop")
    /\ UNCHANGED <<reqVars, clt2idle, idle, refused, req, queue, stopped, joined>>

LastTry(r) == retryTimes[r] >= MaxRetryTimes

RetryFailure_Silent(w) ==
    /\ pc[w] = "fail" /\ LastTry(req[w])
    /\ gaveUp' = gaveUp \cup {req[w]}
    /\ req' = [req EXCEPT ![w] = NoReq]
    /\ Goto(w, "pop")
    /\ UNCHANGED <<reqId, accepted, retryTimes, responses, openFails, cltVars, client, queue, stopped, joined>>

RetryFailure(w) ==
    /\ pc[w] = "fail" /\ LastTry(req[w])
    /\ responses' = [responses EXCEPT ![req[w]] = @ + 1]
    /\ gaveUp' = gaveUp \cup {req[w]}
    /\ req' = [req EXCEPT ![w] = NoReq]
    /\ Goto(w, "pop")
    /\ UNCHANGED <<reqId, accepted, retryTimes, openFails, cltVars, client, queue, stopped, joined>>

Requeue_OnlyIfRoom(w) ==
    /\ pc[w] = "fail" /\ ~LastTry(req[w])
    /\ retryTimes' = [retryTimes EXCEPT ![req[w]] = @ + 1]
    /\ queue' = IF HasRoom THEN <<req[w]>> \o queue ELSE queue
    /\ req' = [req EXCEPT ![w] = NoReq]
    /\ Goto(w, "sleep")
    /\ UNCHANGED <<reqId, accepted, responses, gaveUp, openFails, cltVars, client, stopped, joined>>

\* requeue() puts the request at the front, whatever the size of the queue, and
\* the worker backs off.
Requeue(w) ==
    /\ pc[w] = "fail" /\ ~LastTry(req[w])
    /\ retryTimes' = [retryTimes EXCEPT ![req[w]] = @ + 1]
    /\ queue' = <<req[w]>> \o queue
    /\ req' = [req EXCEPT ![w] = NoReq]
    /\ Goto(w, "sleep")
    /\ UNCHANGED <<reqId, accepted, responses, gaveUp, openFails, cltVars, client, stopped, joined>>

WakeUp(w) ==
    /\ pc[w] = "sleep"
    /\ Goto(w, "pop")
    /\ UNCHANGED <<reqVars, cltVars, req, client, queue, stopped, joined>>

-----------------------------------------------------------------------------
(* stop() and serveUtilStop(), which drops what is queued and the clients.  *)

Stop ==
    /\ ~stopped /\ stopped' = TRUE
    /\ UNCHANGED <<reqVars, cltVars, wkVars, queue, joined>>

ServeUtilStop_NotJoined ==
    /\ stopped /\ ~joined
    /\ joined' = TRUE
    /\ queue' = <<>>
    /\ clt2idle' = {} /\ idle' = {} /\ live' = live \ clt2idle
    /\ UNCHANGED <<reqVars, refused, wkVars, stopped>>

ServeUtilStop ==
    /\ stopped /\ ~joined /\ \A w \in Workers : pc[w] = "exit"
    /\ joined' = TRUE
    /\ queue' = <<>>
    /\ clt2idle' = {} /\ idle' = {} /\ live' = live \ clt2idle
    /\ UNCHANGED <<reqVars, refused, wkVars, stopped>>

-----------------------------------------------------------------------------
WorkerStep(w) ==
    \/ Pop(w) \/ GetIdleClient(w) \/ Open(w) \/ HandleRequest(w)
    \/ MarkClientIdle(w) \/ CloseClient(w) \/ DeleteClient(w)
    \/ RetryFailure(w) \/ Requeue(w) \/ WakeUp(w)

DbNext ==
    \/ Submit \/ Stop \/ ServeUtilStop
    \/ \E w \in Workers : WorkerStep(w)

DbSpec == DbInit /\ [][DbNext]_dbVars

-----------------------------------------------------------------------------
(* Properties.                                                             *)

DbTypeOK ==
    /\ reqId \in 0..MaxReqs /\ accepted \subseteq 1..reqId
    /\ queue \in Seq(accepted) /\ stopped \in BOOLEAN /\ joined \in BOOLEAN
    /\ retryTimes \in [Requests -> 0..MaxRetryTimes] /\ openFails \in [Requests -> Nat]
    /\ responses \in [Requests -> Nat] /\ gaveUp \subseteq accepted
    /\ clt2idle \subseteq live /\ idle \subseteq clt2idle /\ live \subseteq Clients
    /\ pc \in [Workers -> {"pop", "get", "open", "handle", "mark", "close", "delete",
                           "fail", "sleep", "exit"}]
    /\ req \in [Workers -> accepted \cup {NoReq}]
    /\ client \in [Workers -> live \cup {NoClient}]
    /\ refused \in BOOLEAN

\* An accepted request is in the queue, with one worker, or answered, and in
\* only one of these ways, once: retries neither lose nor duplicate a request.
\* Only a stopped pool drops what is still queued.  A request is given up only
\* after MaxRetryTimes retries, each of them a failed attempt to connect, and
\* retries take the queue over its capacity by at most one request per worker.
Conserved ==
    /\ ~joined => \A r \in accepted :
         Cardinality({i \in 1..Len(queue) : queue[i] = r})
           + Cardinality({w \in Workers : req[w] = r}) + responses[r] = 1
    /\ \A r \in gaveUp : openFails[r] = MaxRetryTimes + 1
    /\ Len(queue) <= QueueCap + PoolSize

\* Two workers never use the same client; a client that is not idle is with a
\* worker, so none leaks; even while workers close broken clients outside the
\* lock there are never more connections than the pool's size; and with as many
\* clients as workers no worker is ever refused one.
ClientsSound ==
    /\ \A v, w \in Workers : v # w /\ client[v] # NoClient => client[v] # client[w]
    /\ \A w \in Workers : client[w] \notin idle
    /\ live \subseteq idle \cup {client[w] : w \in Workers}
    /\ Cardinality(live) <= PoolSize
    /\ ~refused

\* Every accepted request is answered unless the pool is stopped.
Answered == \A r \in Requests : r \in accepted ~> (responses[r] = 1 \/ stopped)

\* stop() ends the workers, wherever they are.
StopCompletes == stopped ~> joined

Pool == INSTANCE RequestPool WITH
    answered <- {r \in Requests : responses[r] > 0},
    over <- joined

\* The pool implements RequestPool: at most one answer, only to what was
\* accepted, and none after the join.
ImplementsPool == Pool!Spec
=============================================================================
