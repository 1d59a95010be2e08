---------------------------- MODULE DbPoolProofs ----------------------------
(***************************************************************************)
(* Proofs about DbPool, for any number of workers, any capacity of the      *)
(* queue and any number of retries: clients are neither shared, leaked nor  *)
(* refused; requests are neither lost nor answered twice; and the pool      *)
(* implements RequestPool.                                                  *)
(***************************************************************************)
EXTENDS DbPool, FiniteSetTheorems, SequenceTheorems, TLAPS

\* What a worker holds at each step, and what the join finds.
ControlInv ==
    /\ \A w \in Workers :
         /\ req[w] # NoReq <=> pc[w] \in {"get", "open", "handle", "fail"}
         /\ client[w] # NoClient <=> pc[w] \in {"open", "handle", "mark", "close", "delete"}
    /\ joined => \A w \in Workers : pc[w] = "exit"

\* Every client object is idle in the map or with one worker, which alone may
\* take it out of the map.
ClientInv ==
    /\ \A v, w \in Workers : v # w /\ client[v] # NoClient => client[v] # client[w]
    /\ \A w \in Workers :
         /\ client[w] \notin idle
         /\ client[w] # NoClient => (client[w] \in clt2idle <=> pc[w] # "delete")
    /\ live \subseteq idle \cup {client[w] : w \in Workers}
    /\ Cardinality(live) <= PoolSize
    /\ ~refused

\* A request is in at most one place, and unanswered while it is in one.
PlaceInv ==
    /\ \A i, j \in 1..Len(queue) : i # j => queue[i] # queue[j]
    /\ \A i \in 1..Len(queue) : responses[queue[i]] = 0 /\ \A w \in Workers : req[w] # queue[i]
    /\ \A v, w \in Workers : v # w /\ req[v] # NoReq => req[v] # req[w]
    /\ \A w \in Workers : req[w] # NoReq => responses[req[w]] = 0
    /\ \A r \in Requests : responses[r] <= 1 /\ (responses[r] = 1 => r \in accepted)

\* An accepted request is in at least one place until the join.
LostInv ==
    ~joined => \A r \in accepted :
        responses[r] = 1 \/ (\E i \in 1..Len(queue) : queue[i] = r) \/ \E w \in Workers : req[w] = r

\* The failed attempts to connect for a request are its retries, and one more
\* between the last failure and what the worker does about it.
RetryInv ==
    /\ \A r \in Requests \ accepted : openFails[r] = 0 /\ retryTimes[r] = 0
    /\ \A i \in 1..Len(queue) : openFails[queue[i]] = retryTimes[queue[i]]
    /\ \A w \in Workers : req[w] # NoReq =>
         IF pc[w] = "fail" THEN openFails[req[w]] = retryTimes[req[w]] + 1
                           ELSE openFails[req[w]] = retryTimes[req[w]]
    /\ \A r \in gaveUp : openFails[r] = MaxRetryTimes + 1 /\ responses[r] = 1

\* Each worker may put one request back.
Busy == {w \in Workers : req[w] # NoReq}
SizeInv == Len(queue) + Cardinality(Busy) <= QueueCap + PoolSize

Inv == DbTypeOK /\ ControlInv /\ ClientInv /\ PlaceInv /\ LostInv /\ RetryInv /\ SizeInv
-----------------------------------------------------------------------------
\* The number of workers, and of clients.
LEMMA Sizes ==
    /\ PoolSize \in Nat /\ IsFiniteSet(Clients) /\ Cardinality(Clients) = PoolSize + 2
    /\ \A S \in SUBSET Clients : IsFiniteSet(S) /\ Cardinality(S) \in Nat
<1>1. PoolSize \in Nat
  BY WorkersAssumption, FS_CardinalityType, Zenon DEF PoolSize
<1>2. IsFiniteSet(Clients) /\ Cardinality(Clients) = PoolSize + 2
  BY <1>1, FS_Interval DEF Clients
<1>3. \A S \in SUBSET Clients : IsFiniteSet(S) /\ Cardinality(S) \in Nat
  BY <1>2, FS_Subset, FS_CardinalityType, Zenon
<1> QED  BY <1>1, <1>2, <1>3, Zenon

\* A worker that has a request and no client finds an idle client or room for
\* a new one: the other workers cannot hold them all.
LEMMA RoomForOne ==
    ASSUME DbTypeOK, ControlInv, ClientInv, NEW w \in Workers, pc[w] = "get", idle = {}
    PROVE  /\ Cardinality(live) < PoolSize /\ Cardinality(clt2idle) < PoolSize
           /\ \E c \in Clients : c \notin live
<1> DEFINE Others == {v \in Workers : client[v] # NoClient}
<1> DEFINE f == [v \in Others |-> client[v]]
<1> DEFINE T == {client[v] : v \in Others}
<1>1. IsFiniteSet(Others) /\ Cardinality(Others) <= PoolSize - 1
  <2>1. w \notin Others
    BY Zenon DEF ControlInv
  <2>2. IsFiniteSet(Workers \ {w}) /\ Cardinality(Workers \ {w}) = PoolSize - 1
    BY WorkersAssumption, FS_RemoveElement, Zenon DEF PoolSize
  <2>3. Others \in SUBSET (Workers \ {w})
    BY <2>1, Zenon
  <2> HIDE DEF Others
  <2> QED  BY <2>2, <2>3, FS_Subset
<1>2. f \in Surjection(Others, T)
  BY Zenon DEF Surjection
<1>3. IsFiniteSet(T) /\ Cardinality(T) <= Cardinality(Others)
  <2> HIDE DEF f, T, Others
  <2> QED  BY <1>1, <1>2, FS_Surjection, Zenon
<1>4. live \in SUBSET T /\ clt2idle \in SUBSET T
  BY DEF DbTypeOK, ClientInv, Clients, NoClient
<1>5. /\ Cardinality(live) <= Cardinality(T)
      /\ Cardinality(clt2idle) <= Cardinality(T)
  <2> HIDE DEF T
  <2> QED  BY <1>3, <1>4, FS_Subset, Zenon
<1>6. Cardinality(live) < PoolSize /\ Cardinality(clt2idle) < PoolSize
  <2>1. /\ Cardinality(live) \in Nat /\ Cardinality(clt2idle) \in Nat
        /\ Cardinality(T) \in Nat /\ Cardinality(Others) \in Nat /\ PoolSize \in Nat
    <3>1. clt2idle \in SUBSET Clients /\ live \in SUBSET Clients
      BY Zenon DEF DbTypeOK
    <3> HIDE DEF T, Others
    <3> QED  BY <1>1, <1>3, <3>1, Sizes, FS_CardinalityType, Zenon
  <2> HIDE DEF T, Others
  <2> QED  BY <1>1, <1>3, <1>5, <2>1
<1>7. \E c \in Clients : c \notin live
  <2> SUFFICES ASSUME Clients \subseteq live PROVE FALSE
    BY Zenon
  <2>1. live = Clients
    BY Zenon DEF DbTypeOK
  <2> QED  BY <2>1, <1>6, Sizes
<1> QED  BY <1>6, <1>7, Zenon

\* What a worker holds is an accepted request, and a live client.
LEMMA Held ==
    ASSUME DbTypeOK, ControlInv, NEW w \in Workers
    PROVE  /\ accepted \subseteq Requests
           /\ pc[w] \in {"get", "open", "handle", "fail"} =>
                 req[w] \in accepted /\ req[w] \in Requests /\ req[w] # NoReq
           /\ pc[w] \in {"open", "handle", "mark", "close", "delete"} =>
                 client[w] \in live /\ client[w] \in Clients
<1>1. accepted \subseteq Requests
  BY BoundsAssumption DEF DbTypeOK, Requests
<1>2. /\ req[w] \in accepted \cup {NoReq} /\ client[w] \in live \cup {NoClient}
      /\ live \subseteq Clients
  BY Zenon DEF DbTypeOK
<1> QED  BY <1>1, <1>2, Zenon DEF ControlInv

\* A step preserves the types.
LEMMA TypeStep ==
    ASSUME DbTypeOK, ControlInv, ClientInv, PlaceInv, [DbNext]_dbVars
    PROVE  DbTypeOK'
<1> USE BoundsAssumption DEF DbTypeOK, Requests, NoReq, NoClient, reqVars, cltVars, wkVars
<1>1. CASE Submit
  <2>1. reqId' \in 0..MaxReqs /\ accepted \subseteq 1..reqId'
    BY <1>1 DEF Submit
  <2>2. CASE HasRoom
    <3>1. accepted' = accepted \cup {reqId'} /\ queue' = Append(queue, reqId')
      BY <1>1, <2>2, Zenon DEF Submit
    <3>2. queue \in Seq(accepted')
      BY <3>1, SeqMonotonic, Zenon
    <3>3. queue' \in Seq(accepted')
      BY <3>1, <3>2, AppendProperties, Zenon
    <3>4. accepted' \subseteq 1..reqId'
      BY <1>1, <2>1, <3>1 DEF Submit
    <3> QED  BY <1>1, <2>1, <3>1, <3>3, <3>4, Zenon DEF Submit
  <2>3. CASE ~HasRoom
    BY <1>1, <2>1, <2>3, Zenon DEF Submit
  <2> QED  BY <2>2, <2>3, Zenon
<1>2. CASE Stop
  BY <1>2, Zenon DEF Stop
<1>3. CASE ServeUtilStop
  <2>1. \A w \in Workers : client[w] = NoClient
    BY <1>3, Zenon DEF ServeUtilStop, ControlInv
  <2> QED  BY <1>3, <2>1 DEF ServeUtilStop
<1>4. ASSUME NEW w \in Workers, WorkerStep(w) PROVE DbTypeOK'
  <2>1. CASE Pop(w)
    <3>1. CASE stopped
      BY <2>1, <3>1, Zenon DEF Pop, Goto
    <3>2. CASE ~stopped
      <4>1. Head(queue) \in accepted /\ Tail(queue) \in Seq(accepted)
        BY <2>1, <3>2, HeadTailProperties, Zenon DEF Pop
      <4> QED  BY <2>1, <3>2, <4>1, Zenon DEF Pop, Goto
    <3> QED  BY <3>1, <3>2, Zenon
  <2>2. CASE GetIdleClient(w)
    <3>1. CASE idle # {}
      BY <2>2, <3>1, Zenon DEF GetIdleClient, TakeIdle, Goto
    <3>2. CASE idle = {} /\ CreateNew(w)
      <4> DEFINE c == CHOOSE x \in Clients : x \notin live
      <4>1. c \in Clients
        BY <2>2, <3>2, RoomForOne, Zenon DEF GetIdleClient
      <4>2. /\ live' = live \cup {c} /\ clt2idle' = clt2idle \cup {c}
            /\ client' = [client EXCEPT ![w] = c]
        BY <3>2, Zenon DEF CreateNew
      <4> HIDE DEF c
      <4> QED  BY <2>2, <3>2, <4>1, <4>2, Zenon DEF GetIdleClient, CreateNew, Goto
    <3>3. CASE idle = {} /\ Refuse(w)
      BY <2>2, <3>3, Zenon DEF GetIdleClient, Refuse, Goto
    <3> QED  BY <2>2, <3>1, <3>2, <3>3, Zenon DEF GetIdleClient
  <2>3. CASE Open(w)
    <3>1. CASE UNCHANGED <<clt2idle, live, client, openFails>>
      BY <2>3, <3>1, Zenon DEF Open, Goto
    <3>2. CASE /\ Goto(w, "fail")
               /\ clt2idle' = clt2idle \ {client[w]} /\ live' = live \ {client[w]}
               /\ client' = [client EXCEPT ![w] = NoClient]
               /\ openFails' = [openFails EXCEPT ![req[w]] = @ + 1]
      <4>1. client' \in [Workers -> live' \cup {NoClient}]
        BY <2>3, <3>2, Zenon DEF Open, ClientInv, ControlInv
      <4>2. openFails' \in [Requests -> Nat]
        <5>1. req[w] \in Requests
          BY <2>3, Held, Zenon DEF Open
        <5> QED  BY <3>2, <5>1
      <4>3. idle' \subseteq clt2idle'
        BY <2>3, <3>2, Zenon DEF Open, ClientInv
      <4> QED  BY <2>3, <3>2, <4>1, <4>2, <4>3, Zenon DEF Open, Goto
    <3> QED  BY <2>3, <3>1, <3>2, Zenon DEF Open
  <2>4. CASE HandleRequest(w)
    <3>1. responses' \in [Requests -> Nat]
      <4>1. req[w] \in Requests
        BY <2>4, Held, Zenon DEF HandleRequest
      <4> QED  BY <2>4, <4>1 DEF HandleRequest
    <3>2. pc' \in [Workers -> {"pop", "get", "open", "handle", "mark", "close", "delete",
                               "fail", "sleep", "exit"}]
      BY <2>4, Zenon DEF HandleRequest, Goto
    <3> QED  BY <2>4, <3>1, <3>2, Zenon DEF HandleRequest
  <2>5. CASE MarkClientIdle(w)
    BY <2>5, Zenon DEF MarkClientIdle, Goto, ClientInv, ControlInv
  <2>6. CASE CloseClient(w)
    <3>1. idle \subseteq clt2idle \ {client[w]}
      BY Zenon DEF ClientInv
    <3> QED  BY <2>6, <3>1, Zenon DEF CloseClient, Goto
  <2>7. CASE DeleteClient(w)
    <3>1. client' \in [Workers -> live' \cup {NoClient}]
      BY <2>7, Zenon DEF DeleteClient, ClientInv, ControlInv
    <3>2. clt2idle' \subseteq live'
      BY <2>7, Zenon DEF DeleteClient, ClientInv, ControlInv
    <3> QED  BY <2>7, <3>1, <3>2, Zenon DEF DeleteClient, Goto
  <2>8. CASE RetryFailure(w)
    <3>1. req[w] \in accepted /\ req[w] \in Requests
      BY <2>8, Held, Zenon DEF RetryFailure
    <3>2. responses' \in [Requests -> Nat]
      BY <2>8, <3>1 DEF RetryFailure
    <3> QED  BY <2>8, <3>1, <3>2, Zenon DEF RetryFailure, Goto
  <2>9. CASE Requeue(w)
    <3>1. req[w] \in accepted /\ req[w] \in Requests
      BY <2>9, Held, Zenon DEF Requeue
    <3>2. <<req[w]>> \o queue \in Seq(accepted)
      BY <3>1
    <3>3. retryTimes' \in [Requests -> 0..MaxRetryTimes]
      <4>1. retryTimes[req[w]] \in 0..MaxRetryTimes /\ retryTimes[req[w]] < MaxRetryTimes
        BY <2>9, <3>1 DEF Requeue, LastTry
      <4>2. retryTimes[req[w]] + 1 \in 0..MaxRetryTimes
        BY <4>1
      <4> QED  BY <2>9, <3>1, <4>2, Zenon DEF Requeue
    <3> QED  BY <2>9, <3>2, <3>3, Zenon DEF Requeue, Goto
  <2>10. CASE WakeUp(w)
    BY <2>10, Zenon DEF WakeUp, Goto
  <2> QED
    BY <1>4, <2>1, <2>2, <2>3, <2>4, <2>5, <2>6, <2>7, <2>8, <2>9, <2>10, Zenon DEF WorkerStep
<1>5. CASE UNCHANGED dbVars
  BY <1>5, Zenon DEF dbVars
<1> QED  BY <1>1, <1>2, <1>3, <1>4, <1>5, Zenon DEF DbNext

\* A step preserves the control invariant.
LEMMA ControlStep ==
    ASSUME DbTypeOK, ControlInv, ClientInv, [DbNext]_dbVars
    PROVE  ControlInv'
<1> USE DEF ControlInv, Goto, reqVars, cltVars, wkVars
<1>1. CASE Submit
  BY <1>1, Zenon DEF Submit
<1>2. CASE Stop
  BY <1>2, Zenon DEF Stop
<1>3. CASE ServeUtilStop
  BY <1>3, Zenon DEF ServeUtilStop
<1>4. ASSUME NEW w \in Workers, WorkerStep(w) PROVE ControlInv'
  <2>0. /\ pc \in [Workers -> {"pop", "get", "open", "handle", "mark", "close", "delete",
                               "fail", "sleep", "exit"}]
        /\ DOMAIN req = Workers /\ DOMAIN client = Workers
        /\ queue \in Seq(accepted) /\ accepted \subseteq Requests
        /\ NoReq \notin Requests /\ NoClient \notin Clients
        /\ idle \subseteq Clients
    BY Held DEF DbTypeOK, NoReq, NoClient, Requests, Clients
  <2>1. CASE Pop(w)
    <3>1. CASE stopped
      BY <2>0, <2>1, <3>1, Zenon DEF Pop
    <3>2. CASE ~stopped
      <4>1. Head(queue) # NoReq
        BY <2>0, <2>1, <3>2, HeadTailProperties DEF Pop
      <4> QED  BY <2>0, <2>1, <3>2, <4>1, Zenon DEF Pop
    <3> QED  BY <3>1, <3>2, Zenon
  <2>2. CASE GetIdleClient(w)
    <3>1. CASE idle # {}
      BY <2>0, <2>2, <3>1, Zenon DEF GetIdleClient, TakeIdle
    <3>2. CASE idle = {} /\ CreateNew(w)
      <4> DEFINE c == CHOOSE x \in Clients : x \notin live
      <4>1. c \in Clients
        BY <2>2, <3>2, RoomForOne, Zenon DEF GetIdleClient
      <4>2. client' = [client EXCEPT ![w] = c]
        BY <3>2, Zenon DEF CreateNew
      <4> HIDE DEF c
      <4> QED  BY <2>0, <2>2, <3>2, <4>1, <4>2, Zenon DEF GetIdleClient, CreateNew
    <3>3. CASE idle = {} /\ Refuse(w)
      BY <2>0, <2>2, <3>3, Zenon DEF GetIdleClient, Refuse
    <3> QED  BY <2>2, <3>1, <3>2, <3>3, Zenon DEF GetIdleClient
  <2>3. CASE Open(w)
    BY <2>0, <2>3, Zenon DEF Open
  <2>4. CASE HandleRequest(w)
    BY <2>0, <2>4, Zenon DEF HandleRequest
  <2>5. CASE MarkClientIdle(w)
    BY <2>0, <2>5, Zenon DEF MarkClientIdle
  <2>6. CASE CloseClient(w)
    BY <2>0, <2>6, Zenon DEF CloseClient
  <2>7. CASE DeleteClient(w)
    BY <2>0, <2>7, Zenon DEF DeleteClient
  <2>8. CASE RetryFailure(w)
    BY <2>0, <2>8, Zenon DEF RetryFailure
  <2>9. CASE Requeue(w)
    BY <2>0, <2>9, Zenon DEF Requeue
  <2>10. CASE WakeUp(w)
    BY <2>0, <2>10, Zenon DEF WakeUp
  <2> QED
    BY <1>4, <2>1, <2>2, <2>3, <2>4, <2>5, <2>6, <2>7, <2>8, <2>9, <2>10, Zenon DEF WorkerStep
<1>5. CASE UNCHANGED dbVars
  BY <1>5, Zenon DEF dbVars
<1> QED  BY <1>1, <1>2, <1>3, <1>4, <1>5, Zenon DEF DbNext

\* A step preserves the invariant of the clients.
LEMMA ClientStep ==
    ASSUME DbTypeOK, ControlInv, ClientInv, [DbNext]_dbVars
    PROVE  ClientInv'
<1> USE DEF Goto, reqVars, cltVars, wkVars
<1>0. /\ pc \in [Workers -> {"pop", "get", "open", "handle", "mark", "close", "delete",
                             "fail", "sleep", "exit"}]
      /\ client \in [Workers -> live \cup {NoClient}] /\ NoClient \notin live
      /\ clt2idle \subseteq live /\ idle \subseteq clt2idle /\ live \subseteq Clients
      /\ PoolSize \in Nat
      /\ \A S \in SUBSET Clients : IsFiniteSet(S) /\ Cardinality(S) \in Nat
  BY Sizes DEF DbTypeOK, NoClient, Clients
\* Taking an object away cannot make the pool too large.
<1>s. ASSUME NEW S \in SUBSET live PROVE Cardinality(S) <= PoolSize
  <2>1. IsFiniteSet(live) /\ Cardinality(live) \in Nat /\ Cardinality(live) <= PoolSize
    BY <1>0, Zenon DEF ClientInv
  <2>2. Cardinality(S) <= Cardinality(live) /\ Cardinality(S) \in Nat
    BY <2>1, <1>0, FS_Subset, Zenon
  <2> QED  BY <1>0, <2>1, <2>2
<1>1. CASE Submit
  BY <1>1, Zenon DEF Submit, ClientInv
<1>2. CASE Stop
  BY <1>2, Zenon DEF Stop, ClientInv
<1>3. CASE ServeUtilStop
  <2>1. \A w \in Workers : client[w] = NoClient
    BY <1>3, Zenon DEF ServeUtilStop, ControlInv
  <2>2. live' = {} /\ live' \in SUBSET live
    BY <1>0, <1>3, <2>1 DEF ServeUtilStop, ClientInv
  <2> QED  BY <1>0, <1>3, <1>s, <2>1, <2>2, Zenon DEF ServeUtilStop, ClientInv
<1>4. ASSUME NEW w \in Workers, WorkerStep(w) PROVE ClientInv'
  <2>1. CASE Pop(w)
    BY <1>0, <2>1 DEF Pop, ClientInv, ControlInv
  <2>2. CASE GetIdleClient(w)
    <3>0. client[w] = NoClient
      BY <2>2, Zenon DEF GetIdleClient, ControlInv
    <3>1. CASE idle # {}
      <4>1. PICK c \in idle :
              /\ idle' = idle \ {c} /\ client' = [client EXCEPT ![w] = c]
              /\ pc' = [pc EXCEPT ![w] = "handle"] /\ UNCHANGED <<clt2idle, live, refused>>
        BY <2>2, <3>1, Zenon DEF GetIdleClient, TakeIdle
      <4>2. \A v \in Workers : client'[v] = (IF v = w THEN c ELSE client[v])
        BY <1>0, <4>1, Zenon
      <4> QED  BY <1>0, <3>0, <4>1, <4>2 DEF ClientInv
    <3>2. CASE idle = {} /\ CreateNew(w)
      <4> DEFINE c == CHOOSE x \in Clients : x \notin live
      <4>1. c \in Clients /\ c \notin live /\ Cardinality(live) < PoolSize
        BY <2>2, <3>2, RoomForOne, Zenon DEF GetIdleClient
      <4>2. /\ live' = live \cup {c} /\ clt2idle' = clt2idle \cup {c} /\ UNCHANGED <<idle, refused>>
            /\ client' = [client EXCEPT ![w] = c] /\ pc' = [pc EXCEPT ![w] = "open"]
        BY <3>2, Zenon DEF CreateNew
      <4> HIDE DEF c
      <4>3. \A v \in Workers : client'[v] = (IF v = w THEN c ELSE client[v])
        BY <1>0, <4>2, Zenon
      <4>4. Cardinality(live') <= PoolSize
        <5>1. Cardinality(live') = Cardinality(live) + 1
          BY <1>0, <4>1, <4>2, FS_AddElement, Zenon
        <5> QED  BY <1>0, <4>1, <5>1
      <4> QED  BY <1>0, <3>0, <4>1, <4>2, <4>3, <4>4 DEF ClientInv
    <3>3. CASE idle = {} /\ Refuse(w)
      BY <2>2, <3>3, RoomForOne, Zenon DEF GetIdleClient, CreateNew, Refuse
    <3> QED  BY <2>2, <3>1, <3>2, <3>3, Zenon DEF GetIdleClient
  <2>3. CASE Open(w)
    <3>1. CASE UNCHANGED <<clt2idle, live, client, openFails>>
      BY <1>0, <2>3, <3>1 DEF Open, ClientInv
    <3>2. CASE clt2idle' = clt2idle \ {client[w]} /\ live' = live \ {client[w]}
               /\ client' = [client EXCEPT ![w] = NoClient] /\ pc' = [pc EXCEPT ![w] = "fail"]
      <4>1. \A v \in Workers : client'[v] = (IF v = w THEN NoClient ELSE client[v])
        BY <1>0, <3>2, Zenon
      <4>2. Cardinality(live') <= PoolSize
        BY <1>s, <3>2, Zenon
      <4> QED  BY <1>0, <2>3, <3>2, <4>1, <4>2 DEF Open, ClientInv
    <3> QED  BY <2>3, <3>1, <3>2, Zenon DEF Open
  <2>4. CASE HandleRequest(w)
    BY <1>0, <2>4, Zenon DEF HandleRequest, ClientInv
  <2>5. CASE MarkClientIdle(w)
    <3>1. \A v \in Workers : client'[v] = (IF v = w THEN NoClient ELSE client[v])
      BY <1>0, <2>5, Zenon DEF MarkClientIdle
    <3>2. client[w] # NoClient
      BY <2>5, Zenon DEF MarkClientIdle, ControlInv
    <3> QED  BY <1>0, <2>5, <3>1, <3>2 DEF MarkClientIdle, ClientInv
  <2>6. CASE CloseClient(w)
    <3>1. client[w] # NoClient
      BY <2>6, Zenon DEF CloseClient, ControlInv
    <3> QED  BY <1>0, <2>6, <3>1, Zenon DEF CloseClient, ClientInv
  <2>7. CASE DeleteClient(w)
    <3>1. \A v \in Workers : client'[v] = (IF v = w THEN NoClient ELSE client[v])
      BY <1>0, <2>7, Zenon DEF DeleteClient
    <3>2. Cardinality(live') <= PoolSize
      BY <1>s, <2>7, Zenon DEF DeleteClient
    <3> QED  BY <1>0, <2>7, <3>1, <3>2 DEF DeleteClient, ClientInv
  <2>8. CASE RetryFailure(w)
    BY <1>0, <2>8 DEF RetryFailure, ClientInv, ControlInv
  <2>9. CASE Requeue(w)
    BY <1>0, <2>9 DEF Requeue, ClientInv, ControlInv
  <2>10. CASE WakeUp(w)
    BY <1>0, <2>10, Zenon DEF WakeUp, ClientInv, ControlInv
  <2> QED
    BY <1>4, <2>1, <2>2, <2>3, <2>4, <2>5, <2>6, <2>7, <2>8, <2>9, <2>10, Zenon DEF WorkerStep
<1>5. CASE UNCHANGED dbVars
  BY <1>5, Zenon DEF dbVars, ClientInv
<1> QED  BY <1>1, <1>2, <1>3, <1>4, <1>5, Zenon DEF DbNext

\* What the operations of the queue do to its entries.
LEMMA PushedBack ==
    ASSUME NEW S, NEW q \in Seq(S), NEW x \in S
    PROVE  /\ Len(Append(q, x)) = Len(q) + 1
           /\ \A i \in 1..Len(q) + 1 : Append(q, x)[i] = IF i = Len(q) + 1 THEN x ELSE q[i]
BY AppendProperties, LenProperties

\* requeue(): the element comes first and the others move up by one.
LEMMA PutInFront ==
    ASSUME NEW S, NEW q \in Seq(S), NEW x \in S
    PROVE  /\ Len(<<x>> \o q) = Len(q) + 1
           /\ \A i \in 1..Len(q) + 1 : (<<x>> \o q)[i] = IF i = 1 THEN x ELSE q[i - 1]
<1>1. <<x>> \in Seq(S) /\ Len(<<x>>) = 1 /\ <<x>>[1] = x
  OBVIOUS
<1>2. Len(q) \in Nat
  BY LenProperties, Zenon
<1> QED  BY <1>1, <1>2, ConcatProperties

\* pop_timeout(): the first element goes and the others move down by one.
LEMMA TakenOff ==
    ASSUME NEW S, NEW q \in Seq(S), q # <<>>
    PROVE  /\ Len(q) \in Nat \ {0} /\ Len(Tail(q)) = Len(q) - 1 /\ Head(q) = q[1]
           /\ \A i \in 1..Len(q) - 1 : Tail(q)[i] = q[i + 1]
<1>1. Len(q) \in Nat \ {0}
  BY EmptySeq, Zenon
<1>2. Head(q) = q[1]
  OBVIOUS
<1> QED  BY <1>1, <1>2, HeadTailProperties, Zenon

\* The types that the invariants about requests rest on.
LEMMA RequestTypes ==
    ASSUME DbTypeOK
    PROVE  /\ queue \in Seq(accepted) /\ Len(queue) \in Nat
           /\ \A i \in 1..Len(queue) : queue[i] \in accepted
           /\ accepted \subseteq Requests /\ NoReq \notin Requests
           /\ req \in [Workers -> accepted \cup {NoReq}]
           /\ responses \in [Requests -> Nat] /\ openFails \in [Requests -> Nat]
           /\ retryTimes \in [Requests -> 0..MaxRetryTimes]
           /\ retryTimes \in [Requests -> Nat]
<1>1. queue \in Seq(accepted)
  BY Zenon DEF DbTypeOK
<1>2. Len(queue) \in Nat /\ \A i \in 1..Len(queue) : queue[i] \in accepted
  BY <1>1, LenProperties, ElementOfSeq, Zenon
<1>3. accepted \subseteq Requests /\ NoReq \notin Requests
  BY BoundsAssumption DEF DbTypeOK, Requests, NoReq
<1>4. /\ req \in [Workers -> accepted \cup {NoReq}]
      /\ responses \in [Requests -> Nat] /\ openFails \in [Requests -> Nat]
      /\ retryTimes \in [Requests -> 0..MaxRetryTimes]
  BY Zenon DEF DbTypeOK
<1>5. retryTimes \in [Requests -> Nat]
  BY <1>4, BoundsAssumption
<1> QED  BY <1>1, <1>2, <1>3, <1>4, <1>5, Zenon

\* What a step does to the places of a request: a step of the pool adds a new
\* request at the end, takes the first, answers a held one, puts a held one
\* back in front, drops all at the join, or leaves the places alone.
NewRequest ==
    /\ ~joined /\ reqId' \in Requests \ accepted /\ HasRoom
    /\ queue' = Append(queue, reqId') /\ accepted' = accepted \cup {reqId'}
    /\ UNCHANGED <<req, responses, openFails, retryTimes, gaveUp, joined, pc>>
TakeRequest(w) ==
    /\ queue # <<>> /\ req[w] = NoReq
    /\ queue' = Tail(queue) /\ req' = [req EXCEPT ![w] = Head(queue)]
    /\ pc' = [pc EXCEPT ![w] = "get"]
    /\ UNCHANGED <<accepted, responses, openFails, retryTimes, gaveUp, joined>>
AnswerRequest(w) ==
    /\ req[w] \in accepted /\ req' = [req EXCEPT ![w] = NoReq] /\ ~joined
    /\ responses' = [responses EXCEPT ![req[w]] = @ + 1]
    /\ \/ gaveUp' = gaveUp
       \/ /\ pc[w] = "fail" /\ retryTimes[req[w]] = MaxRetryTimes
          /\ gaveUp' = gaveUp \cup {req[w]}
    /\ \E l \in {"mark", "close", "pop"} : pc' = [pc EXCEPT ![w] = l]
    /\ UNCHANGED <<queue, accepted, openFails, retryTimes, joined>>
ReturnRequest(w) ==
    /\ req[w] \in accepted /\ req' = [req EXCEPT ![w] = NoReq] /\ pc[w] = "fail"
    /\ queue' = <<req[w]>> \o queue
    /\ retryTimes' = [retryTimes EXCEPT ![req[w]] = @ + 1]
    /\ pc' = [pc EXCEPT ![w] = "sleep"]
    /\ UNCHANGED <<accepted, responses, openFails, gaveUp, joined>>
FailRequest(w) ==
    /\ req[w] \in accepted /\ pc[w] = "open" /\ pc' = [pc EXCEPT ![w] = "fail"]
    /\ openFails' = [openFails EXCEPT ![req[w]] = @ + 1]
    /\ UNCHANGED <<queue, req, accepted, responses, retryTimes, gaveUp, joined>>
DropAll ==
    /\ joined' = TRUE /\ ~joined /\ queue' = <<>> /\ \A w \in Workers : req[w] = NoReq
    /\ UNCHANGED <<req, accepted, responses, openFails, retryTimes, gaveUp, pc>>
LeaveRequests(w) ==
    /\ \E l \in {"pop", "open", "handle", "delete", "exit"} : pc' = [pc EXCEPT ![w] = l]
    /\ pc[w] # "fail"
    /\ UNCHANGED <<queue, req, accepted, responses, openFails, retryTimes, gaveUp, joined>>
SameRequests == UNCHANGED <<queue, req, accepted, responses, openFails, retryTimes, gaveUp, joined, pc>>

\* Every step of the pool is one of these as far as requests are concerned.
LEMMA RequestSteps ==
    ASSUME DbTypeOK, ControlInv, ClientInv, [DbNext]_dbVars
    PROVE  \/ NewRequest \/ DropAll \/ SameRequests
           \/ \E w \in Workers : \/ TakeRequest(w) \/ AnswerRequest(w) \/ ReturnRequest(w)
                                 \/ FailRequest(w) \/ LeaveRequests(w)
<1> USE DEF Goto, reqVars, cltVars, wkVars
<1>1. CASE Submit
  <2>1. CASE HasRoom
    <3>1. reqId' \in Requests \ accepted
      BY <1>1, BoundsAssumption DEF Submit, DbTypeOK, Requests
    <3> QED  BY <1>1, <2>1, <3>1, Zenon DEF Submit, NewRequest
  <2>2. CASE ~HasRoom
    BY <1>1, <2>2, Zenon DEF Submit, SameRequests
  <2> QED  BY <2>1, <2>2, Zenon
<1>2. CASE Stop
  BY <1>2, Zenon DEF Stop, SameRequests
<1>3. CASE ServeUtilStop
  BY <1>3, Zenon DEF ServeUtilStop, DropAll, ControlInv
<1>4. ASSUME NEW w \in Workers, WorkerStep(w)
      PROVE  \/ TakeRequest(w) \/ AnswerRequest(w) \/ ReturnRequest(w)
             \/ FailRequest(w) \/ LeaveRequests(w)
  <2>0. pc[w] # "exit" => ~joined
    BY Zenon DEF ControlInv
  <2>1. CASE Pop(w)
    BY <2>1, Zenon DEF Pop, TakeRequest, LeaveRequests, ControlInv
  <2>2. CASE GetIdleClient(w)
    <3>1. TakeIdle(w) \/ CreateNew(w)
      <4>1. idle = {} => Cardinality(clt2idle) < PoolSize
        BY <2>2, RoomForOne, Zenon DEF GetIdleClient
      <4> QED  BY <2>2, <4>1, Zenon DEF GetIdleClient
    <3> QED  BY <2>2, <3>1, Zenon DEF GetIdleClient, TakeIdle, CreateNew, LeaveRequests
  <2>3. CASE Open(w)
    BY <2>3, Held, Zenon DEF Open, FailRequest, LeaveRequests
  <2>4. CASE HandleRequest(w)
    BY <2>4, <2>0, Held, Zenon DEF HandleRequest, AnswerRequest
  <2>5. CASE MarkClientIdle(w)
    BY <2>5, Zenon DEF MarkClientIdle, LeaveRequests
  <2>6. CASE CloseClient(w)
    BY <2>6, Zenon DEF CloseClient, LeaveRequests
  <2>7. CASE DeleteClient(w)
    BY <2>7, Zenon DEF DeleteClient, LeaveRequests
  <2>8. CASE RetryFailure(w)
    <3>1. req[w] \in accepted /\ req[w] \in Requests
      BY <2>8, Held, Zenon DEF RetryFailure
    <3>2. retryTimes[req[w]] = MaxRetryTimes
      BY <2>8, <3>1, RequestTypes, BoundsAssumption DEF RetryFailure, LastTry
    <3> QED  BY <2>8, <2>0, <3>1, <3>2, Zenon DEF RetryFailure, AnswerRequest
  <2>9. CASE Requeue(w)
    BY <2>9, Held, Zenon DEF Requeue, ReturnRequest
  <2>10. CASE WakeUp(w)
    BY <2>10, Zenon DEF WakeUp, LeaveRequests
  <2> QED
    BY <1>4, <2>1, <2>2, <2>3, <2>4, <2>5, <2>6, <2>7, <2>8, <2>9, <2>10, Zenon DEF WorkerStep
<1>5. CASE UNCHANGED dbVars
  BY <1>5, Zenon DEF dbVars, SameRequests
<1> QED  BY <1>1, <1>2, <1>3, <1>4, <1>5, Zenon DEF DbNext

\* A step preserves that a request is in at most one place.
LEMMA PlaceStep ==
    ASSUME DbTypeOK, ControlInv, ClientInv, PlaceInv, [DbNext]_dbVars
    PROVE  PlaceInv'
<1>0. /\ queue \in Seq(accepted) /\ Len(queue) \in Nat
      /\ \A i \in 1..Len(queue) : queue[i] \in accepted
      /\ accepted \subseteq Requests /\ NoReq \notin Requests
      /\ req \in [Workers -> accepted \cup {NoReq}] /\ responses \in [Requests -> Nat]
  BY RequestTypes, Zenon
<1>1. CASE NewRequest
  <2>1. /\ Len(queue') = Len(queue) + 1
        /\ \A i \in 1..Len(queue) + 1 : queue'[i] = IF i = Len(queue) + 1 THEN reqId' ELSE queue[i]
    <3>1. queue \in Seq(Requests) /\ reqId' \in Requests
      BY <1>0, <1>1, SeqMonotonic, Zenon DEF NewRequest
    <3> QED  BY <1>1, <3>1, PushedBack DEF NewRequest
  <2>2. responses[reqId'] = 0 /\ reqId' \notin accepted /\ reqId' # NoReq
    BY <1>0, <1>1 DEF NewRequest, PlaceInv
  <2> QED  BY <1>0, <1>1, <2>1, <2>2, SMTT(60) DEF NewRequest, PlaceInv
<1>2. CASE DropAll
  <2>1. Len(queue') = 0
    BY <1>2, Zenon DEF DropAll
  <2> QED  BY <1>0, <1>2, <2>1 DEF DropAll, PlaceInv
<1>3. CASE SameRequests
  BY <1>3, Zenon DEF SameRequests, PlaceInv
<1>4. ASSUME NEW w \in Workers, TakeRequest(w) PROVE PlaceInv'
  <2>1. /\ Len(queue) \in Nat \ {0} /\ Len(queue') = Len(queue) - 1 /\ Head(queue) = queue[1]
        /\ \A i \in 1..Len(queue) - 1 : queue'[i] = queue[i + 1]
    BY <1>0, <1>4, TakenOff, Zenon DEF TakeRequest
  <2>2. \A v \in Workers : req'[v] = IF v = w THEN queue[1] ELSE req[v]
    BY <1>0, <1>4, <2>1, Zenon DEF TakeRequest
  <2> QED  BY <1>0, <1>4, <2>1, <2>2 DEF TakeRequest, PlaceInv
<1>5. ASSUME NEW w \in Workers, AnswerRequest(w) PROVE PlaceInv'
  <2>1. \A v \in Workers : req'[v] = IF v = w THEN NoReq ELSE req[v]
    BY <1>0, <1>5, Zenon DEF AnswerRequest
  <2>2. \A r \in Requests : responses'[r] = IF r = req[w] THEN responses[r] + 1 ELSE responses[r]
    BY <1>0, <1>5, Zenon DEF AnswerRequest
  <2>3. responses[req[w]] = 0 /\ req[w] \in accepted /\ req[w] # NoReq
    BY <1>0, <1>5, Zenon DEF AnswerRequest, PlaceInv
  <2> QED  BY <1>0, <1>5, <2>1, <2>2, <2>3 DEF AnswerRequest, PlaceInv
<1>6. ASSUME NEW w \in Workers, ReturnRequest(w) PROVE PlaceInv'
  <2>1. /\ Len(queue') = Len(queue) + 1
        /\ \A i \in 1..Len(queue) + 1 : queue'[i] = IF i = 1 THEN req[w] ELSE queue[i - 1]
    BY <1>0, <1>6, PutInFront DEF ReturnRequest
  <2>2. \A v \in Workers : req'[v] = IF v = w THEN NoReq ELSE req[v]
    BY <1>0, <1>6, Zenon DEF ReturnRequest
  <2>3. req[w] \in accepted /\ req[w] # NoReq
    BY <1>0, <1>6, Zenon DEF ReturnRequest
  <2>4. \A i, j \in 1..Len(queue)' : i # j => queue'[i] # queue'[j]
    <3> SUFFICES ASSUME NEW i \in 1..Len(queue) + 1, NEW j \in 1..Len(queue) + 1, i # j
                 PROVE  queue'[i] # queue'[j]
      BY <2>1, Zenon
    <3>1. \A k \in 1..Len(queue) + 1 : k # 1 => k - 1 \in 1..Len(queue) /\ queue'[k] = queue[k - 1]
      BY <1>0, <2>1
    <3>2. queue'[1] = req[w] /\ \A k \in 1..Len(queue) : queue[k] # req[w]
      BY <1>0, <2>1 DEF PlaceInv
    <3>3. CASE i = 1
      BY <3>1, <3>2, <3>3, Zenon
    <3>4. CASE j = 1
      BY <3>1, <3>2, <3>4, Zenon
    <3>5. CASE i # 1 /\ j # 1
      <4>1. i - 1 # j - 1
        BY <1>0
      <4> QED  BY <3>1, <3>5, <4>1 DEF PlaceInv
    <3> QED  BY <3>3, <3>4, <3>5, Zenon
  <2>5. \A i \in 1..Len(queue)' : responses[queue'[i]] = 0 /\ \A v \in Workers : req'[v] # queue'[i]
    BY <1>0, <2>1, <2>2, <2>3 DEF PlaceInv
  <2> QED  BY <1>0, <1>6, <2>2, <2>3, <2>4, <2>5 DEF ReturnRequest, PlaceInv
<1>7. ASSUME NEW w \in Workers, FailRequest(w) \/ LeaveRequests(w) PROVE PlaceInv'
  BY <1>7, Zenon DEF FailRequest, LeaveRequests, PlaceInv
<1> QED  BY <1>1, <1>2, <1>3, <1>4, <1>5, <1>6, <1>7, RequestSteps, Zenon

\* A step preserves that no accepted request is lost.
LEMMA LostStep ==
    ASSUME DbTypeOK, ControlInv, ClientInv, PlaceInv, LostInv, [DbNext]_dbVars
    PROVE  LostInv'
<1>0. /\ queue \in Seq(accepted) /\ Len(queue) \in Nat
      /\ \A i \in 1..Len(queue) : queue[i] \in accepted
      /\ accepted \subseteq Requests /\ NoReq \notin Requests
      /\ req \in [Workers -> accepted \cup {NoReq}] /\ responses \in [Requests -> Nat]
  BY RequestTypes, Zenon
<1>1. CASE NewRequest
  <2>1. /\ Len(queue') = Len(queue) + 1
        /\ \A i \in 1..Len(queue) + 1 : queue'[i] = IF i = Len(queue) + 1 THEN reqId' ELSE queue[i]
    <3>1. queue \in Seq(Requests) /\ reqId' \in Requests
      BY <1>0, <1>1, SeqMonotonic, Zenon DEF NewRequest
    <3> QED  BY <1>1, <3>1, PushedBack DEF NewRequest
  <2>2. \A i \in 1..Len(queue) : i \in 1..Len(queue') /\ queue'[i] = queue[i]
    BY <1>0, <2>1
  <2>3. Len(queue) + 1 \in 1..Len(queue') /\ queue'[Len(queue) + 1] = reqId'
    BY <1>0, <2>1
  <2> QED  BY <1>0, <1>1, <2>2, <2>3 DEF NewRequest, LostInv
<1>2. CASE DropAll
  BY <1>2, Zenon DEF DropAll, LostInv
<1>3. CASE SameRequests
  BY <1>3, Zenon DEF SameRequests, LostInv
<1>4. ASSUME NEW w \in Workers, TakeRequest(w) PROVE LostInv'
  <2>1. /\ Len(queue) \in Nat \ {0} /\ Len(queue') = Len(queue) - 1 /\ Head(queue) = queue[1]
        /\ \A i \in 1..Len(queue) - 1 : queue'[i] = queue[i + 1]
    BY <1>0, <1>4, TakenOff, Zenon DEF TakeRequest
  <2>2. req'[w] = queue[1] /\ \A v \in Workers : req[v] # NoReq => req'[v] = req[v]
    BY <1>0, <1>4, <2>1, Zenon DEF TakeRequest
  <2>3. \A i \in 1..Len(queue) : i # 1 => i - 1 \in 1..Len(queue') /\ queue'[i - 1] = queue[i]
    BY <1>0, <2>1
  <2> SUFFICES ASSUME ~joined, NEW r \in accepted
               PROVE  \/ responses[r] = 1 \/ (\E i \in 1..Len(queue') : queue'[i] = r)
                      \/ \E v \in Workers : req'[v] = r
    BY <1>4, Zenon DEF TakeRequest, LostInv
  <2>a. CASE responses[r] = 1
    BY <2>a, Zenon
  <2>b. ASSUME NEW i \in 1..Len(queue), queue[i] = r
        PROVE  (\E j \in 1..Len(queue') : queue'[j] = r) \/ \E v \in Workers : req'[v] = r
    BY <2>b, <2>2, <2>3, Zenon
  <2>c. ASSUME NEW v \in Workers, req[v] = r
        PROVE  (\E j \in 1..Len(queue') : queue'[j] = r) \/ \E u \in Workers : req'[u] = r
    BY <1>0, <2>c, <2>2, Zenon
  <2> QED  BY <2>a, <2>b, <2>c, Zenon DEF LostInv
<1>5. ASSUME NEW w \in Workers, AnswerRequest(w) PROVE LostInv'
  <2>1. \A v \in Workers : v # w => req'[v] = req[v]
    BY <1>0, <1>5, Zenon DEF AnswerRequest
  <2>2. \A r \in Requests : responses'[r] = IF r = req[w] THEN responses[r] + 1 ELSE responses[r]
    BY <1>0, <1>5, Zenon DEF AnswerRequest
  <2>3. responses[req[w]] = 0
    BY <1>0, <1>5, Zenon DEF AnswerRequest, PlaceInv
  <2> QED  BY <1>0, <1>5, <2>1, <2>2, <2>3 DEF AnswerRequest, LostInv
<1>6. ASSUME NEW w \in Workers, ReturnRequest(w) PROVE LostInv'
  <2>1. /\ Len(queue') = Len(queue) + 1
        /\ \A i \in 1..Len(queue) + 1 : queue'[i] = IF i = 1 THEN req[w] ELSE queue[i - 1]
    BY <1>0, <1>6, PutInFront DEF ReturnRequest
  <2>2. \A v \in Workers : v # w => req'[v] = req[v]
    BY <1>0, <1>6, Zenon DEF ReturnRequest
  <2>3. \A i \in 1..Len(queue) : i + 1 \in 1..Len(queue') /\ queue'[i + 1] = queue[i]
    BY <1>0, <2>1
  <2>4. 1 \in 1..Len(queue') /\ queue'[1] = req[w]
    BY <1>0, <2>1
  <2> SUFFICES ASSUME ~joined, NEW r \in accepted
               PROVE  \/ responses[r] = 1 \/ (\E i \in 1..Len(queue') : queue'[i] = r)
                      \/ \E v \in Workers : req'[v] = r
    BY <1>6, Zenon DEF ReturnRequest, LostInv
  <2>a. CASE responses[r] = 1
    BY <2>a, Zenon
  <2>b. ASSUME NEW i \in 1..Len(queue), queue[i] = r
        PROVE  (\E j \in 1..Len(queue') : queue'[j] = r) \/ \E v \in Workers : req'[v] = r
    BY <2>b, <2>3, Zenon
  <2>c. ASSUME NEW v \in Workers, req[v] = r
        PROVE  (\E j \in 1..Len(queue') : queue'[j] = r) \/ \E u \in Workers : req'[u] = r
    BY <1>0, <2>c, <2>2, <2>4, Zenon
  <2> QED  BY <2>a, <2>b, <2>c, Zenon DEF LostInv
<1>7. ASSUME NEW w \in Workers, FailRequest(w) \/ LeaveRequests(w) PROVE LostInv'
  BY <1>7, Zenon DEF FailRequest, LeaveRequests, LostInv
<1> QED  BY <1>1, <1>2, <1>3, <1>4, <1>5, <1>6, <1>7, RequestSteps, Zenon

\* A step preserves the count of the failed attempts.
LEMMA RetryStep ==
    ASSUME DbTypeOK, ControlInv, ClientInv, PlaceInv, RetryInv, [DbNext]_dbVars
    PROVE  RetryInv'
<1>0. /\ queue \in Seq(accepted) /\ Len(queue) \in Nat
      /\ \A i \in 1..Len(queue) : queue[i] \in accepted
      /\ accepted \subseteq Requests /\ NoReq \notin Requests /\ gaveUp \subseteq accepted
      /\ req \in [Workers -> accepted \cup {NoReq}] /\ responses \in [Requests -> Nat]
      /\ openFails \in [Requests -> Nat] /\ retryTimes \in [Requests -> Nat]
      /\ DOMAIN pc = Workers
  BY RequestTypes, Zenon DEF DbTypeOK
<1>1. CASE NewRequest
  <2>1. /\ Len(queue') = Len(queue) + 1
        /\ \A i \in 1..Len(queue) + 1 : queue'[i] = IF i = Len(queue) + 1 THEN reqId' ELSE queue[i]
    <3>1. queue \in Seq(Requests) /\ reqId' \in Requests
      BY <1>0, <1>1, SeqMonotonic, Zenon DEF NewRequest
    <3> QED  BY <1>1, <3>1, PushedBack DEF NewRequest
  <2>2. ASSUME NEW i \in 1..Len(queue') PROVE openFails[queue'[i]] = retryTimes[queue'[i]]
    <3>1. i = Len(queue) + 1 \/ (i \in 1..Len(queue) /\ i # Len(queue) + 1)
      BY <1>0, <2>1
    <3>2. queue'[i] = reqId' \/ (i \in 1..Len(queue) /\ queue'[i] = queue[i])
      BY <2>1, <3>1, Zenon
    <3>3. openFails[reqId'] = 0 /\ retryTimes[reqId'] = 0
      BY <1>1, Zenon DEF NewRequest, RetryInv
    <3> QED  BY <3>2, <3>3, Zenon DEF RetryInv
  <2> QED  BY <1>0, <1>1, <2>2, Zenon DEF NewRequest, RetryInv
<1>2. CASE DropAll
  <2>1. Len(queue') = 0
    BY <1>2, Zenon DEF DropAll
  <2> QED  BY <1>0, <1>2, <2>1 DEF DropAll, RetryInv
<1>3. CASE SameRequests
  BY <1>3, Zenon DEF SameRequests, RetryInv
<1>4. ASSUME NEW w \in Workers, TakeRequest(w) PROVE RetryInv'
  <2>1. /\ Len(queue) \in Nat \ {0} /\ Len(queue') = Len(queue) - 1 /\ Head(queue) = queue[1]
        /\ \A i \in 1..Len(queue) - 1 : queue'[i] = queue[i + 1]
    BY <1>0, <1>4, TakenOff, Zenon DEF TakeRequest
  <2>2. \A v \in Workers : /\ req'[v] = (IF v = w THEN queue[1] ELSE req[v])
                           /\ pc'[v] = (IF v = w THEN "get" ELSE pc[v])
    BY <1>0, <1>4, <2>1, Zenon DEF TakeRequest
  <2>3. \A i \in 1..Len(queue)' : openFails[queue'[i]] = retryTimes[queue'[i]]
    <3>1. \A i \in 1..Len(queue') : i + 1 \in 1..Len(queue) /\ queue'[i] = queue[i + 1]
      <4> SUFFICES ASSUME NEW i \in 1..Len(queue') PROVE i + 1 \in 1..Len(queue) /\ queue'[i] = queue[i + 1]
        BY Zenon
      <4>1. i \in 1..Len(queue) - 1
        BY <2>1, Zenon
      <4> QED  BY <2>1, <4>1
    <3> QED  BY <3>1, SMTT(60) DEF RetryInv
  <2>4. openFails[queue[1]] = retryTimes[queue[1]]
    BY <1>0, <2>1 DEF RetryInv
  <2> QED  BY <1>0, <1>4, <2>2, <2>3, <2>4, Zenon DEF TakeRequest, RetryInv
<1>5. ASSUME NEW w \in Workers, AnswerRequest(w) PROVE RetryInv'
  <2>1. \A v \in Workers : /\ req'[v] = (IF v = w THEN NoReq ELSE req[v])
                           /\ v # w => pc'[v] = pc[v]
    BY <1>0, <1>5, Zenon DEF AnswerRequest
  <2>2. \A r \in Requests : responses'[r] = IF r = req[w] THEN responses[r] + 1 ELSE responses[r]
    BY <1>0, <1>5, Zenon DEF AnswerRequest
  <2>3. responses[req[w]] = 0 /\ req[w] \in accepted /\ req[w] # NoReq
    BY <1>0, <1>5, Zenon DEF AnswerRequest, PlaceInv
  <2>4. \A r \in gaveUp' : openFails[r] = MaxRetryTimes + 1 /\ responses'[r] = 1
    <3>1. \A r \in gaveUp : r # req[w] /\ openFails[r] = MaxRetryTimes + 1 /\ responses'[r] = 1
      BY <1>0, <2>2, <2>3 DEF RetryInv
    <3>2. responses'[req[w]] = 1
      BY <1>0, <2>2, <2>3
    <3>3. pc[w] = "fail" /\ retryTimes[req[w]] = MaxRetryTimes
             => openFails[req[w]] = MaxRetryTimes + 1
      BY <1>0, <2>3, Zenon DEF RetryInv
    <3> QED  BY <1>5, <3>1, <3>2, <3>3, Zenon DEF AnswerRequest
  <2> QED  BY <1>0, <1>5, <2>1, <2>4 DEF AnswerRequest, RetryInv
<1>6. ASSUME NEW w \in Workers, ReturnRequest(w) PROVE RetryInv'
  <2>1. /\ Len(queue') = Len(queue) + 1
        /\ \A i \in 1..Len(queue) + 1 : queue'[i] = IF i = 1 THEN req[w] ELSE queue[i - 1]
    BY <1>0, <1>6, PutInFront DEF ReturnRequest
  <2>2. \A v \in Workers : /\ req'[v] = (IF v = w THEN NoReq ELSE req[v])
                           /\ v # w => pc'[v] = pc[v]
    BY <1>0, <1>6, Zenon DEF ReturnRequest
  <2>3. req[w] \in accepted /\ req[w] # NoReq /\ openFails[req[w]] = retryTimes[req[w]] + 1
    BY <1>0, <1>6, Zenon DEF ReturnRequest, RetryInv
  <2>4. \A r \in Requests : retryTimes'[r] = IF r = req[w] THEN retryTimes[r] + 1 ELSE retryTimes[r]
    BY <1>0, <1>6, Zenon DEF ReturnRequest
  <2>5. \A i \in 1..Len(queue) : queue[i] # req[w]
    BY <1>0, Zenon DEF PlaceInv
  <2>6. \A i \in 1..Len(queue)' : openFails[queue'[i]] = retryTimes'[queue'[i]]
    <3>1. \A i \in 1..Len(queue') : i # 1 => i - 1 \in 1..Len(queue) /\ queue'[i] = queue[i - 1]
      BY <1>0, <2>1
    <3>2. Len(queue') # 0 /\ queue'[1] = req[w]
      BY <1>0, <2>1
    <3>3. openFails[req[w]] = retryTimes'[req[w]]
      BY <1>0, <2>3, <2>4, Zenon
    <3>4. \A i \in 1..Len(queue) : openFails[queue[i]] = retryTimes'[queue[i]]
      BY <1>0, <2>4, <2>5, Zenon DEF RetryInv
    <3> QED  BY <3>1, <3>2, <3>3, <3>4
  <2>7. \A v \in Workers : v # w /\ req[v] # NoReq => req[v] # req[w]
    BY <2>3, Zenon DEF PlaceInv
  <2>8. \A v \in Workers : req'[v] # NoReq =>
           IF pc'[v] = "fail" THEN openFails[req'[v]] = retryTimes'[req'[v]] + 1
                              ELSE openFails[req'[v]] = retryTimes'[req'[v]]
    BY <1>0, <2>2, <2>4, <2>7, SMTT(60) DEF RetryInv
  <2> QED  BY <1>0, <1>6, <2>3, <2>4, <2>6, <2>8, SMTT(60) DEF ReturnRequest, RetryInv
<1>7. ASSUME NEW w \in Workers, FailRequest(w) PROVE RetryInv'
  <2>1. \A r \in Requests : openFails'[r] = IF r = req[w] THEN openFails[r] + 1 ELSE openFails[r]
    BY <1>0, <1>7, Zenon DEF FailRequest
  <2>2. req[w] \in accepted /\ req[w] # NoReq /\ openFails[req[w]] = retryTimes[req[w]]
    BY <1>0, <1>7, Zenon DEF FailRequest, RetryInv
  <2>3. responses[req[w]] = 0 /\ \A i \in 1..Len(queue) : queue[i] # req[w]
    BY <1>0, <2>2, Zenon DEF PlaceInv
  <2>4. \A v \in Workers : pc'[v] = IF v = w THEN "fail" ELSE pc[v]
    BY <1>0, <1>7, Zenon DEF FailRequest
  <2>5. \A v \in Workers : v # w /\ req[v] # NoReq => req[v] # req[w]
    BY <2>2, Zenon DEF PlaceInv
  <2>6. \A v \in Workers : req[v] # NoReq =>
           IF pc'[v] = "fail" THEN openFails'[req[v]] = retryTimes[req[v]] + 1
                              ELSE openFails'[req[v]] = retryTimes[req[v]]
    BY <1>0, <2>1, <2>2, <2>4, <2>5, SMTT(60) DEF RetryInv
  <2> QED  BY <1>0, <1>7, <2>1, <2>2, <2>3, <2>6, SMTT(60) DEF FailRequest, RetryInv
<1>8. ASSUME NEW w \in Workers, LeaveRequests(w) PROVE RetryInv'
  <2>1. \A v \in Workers : pc'[v] = "fail" <=> pc[v] = "fail"
    BY <1>0, <1>8, Zenon DEF LeaveRequests
  <2> QED  BY <1>8, <2>1, Zenon DEF LeaveRequests, RetryInv
<1> QED  BY <1>1, <1>2, <1>3, <1>4, <1>5, <1>6, <1>7, <1>8, RequestSteps, Zenon

\* The busy workers are finitely many.
LEMMA BusySize ==
    /\ IsFiniteSet(Busy) /\ Cardinality(Busy) \in Nat /\ Cardinality(Busy) <= PoolSize
    /\ IsFiniteSet(Busy') /\ Cardinality(Busy') \in Nat /\ Cardinality(Busy') <= PoolSize
BY WorkersAssumption, FS_Subset, FS_CardinalityType, Zenon DEF Busy, PoolSize

\* A step preserves the bound of the queue.
LEMMA SizeStep ==
    ASSUME DbTypeOK, ControlInv, ClientInv, SizeInv, [DbNext]_dbVars
    PROVE  SizeInv'
<1>0. /\ queue \in Seq(accepted) /\ Len(queue) \in Nat
      /\ accepted \subseteq Requests /\ NoReq \notin Requests
      /\ req \in [Workers -> accepted \cup {NoReq}]
      /\ QueueCap \in Nat /\ PoolSize \in Nat
  BY RequestTypes, Sizes, BoundsAssumption, Zenon
<1>1. CASE NewRequest
  <2>1. Len(queue') = Len(queue) + 1 /\ Len(queue) < QueueCap
    <3>1. queue \in Seq(Requests) /\ reqId' \in Requests
      BY <1>0, <1>1, SeqMonotonic, Zenon DEF NewRequest
    <3> QED  BY <1>1, <3>1, PushedBack, Zenon DEF NewRequest, HasRoom
  <2> QED  BY <1>0, <2>1, BusySize DEF SizeInv
<1>2. CASE DropAll
  <2>1. Len(queue') = 0
    BY <1>2, Zenon DEF DropAll
  <2> QED  BY <1>0, <2>1, BusySize DEF SizeInv
<1>3. CASE SameRequests
  BY <1>3, Zenon DEF SameRequests, SizeInv, Busy
<1>4. ASSUME NEW w \in Workers, TakeRequest(w) PROVE SizeInv'
  <2>1. Len(queue') = Len(queue) - 1 /\ Len(queue) \in Nat \ {0} /\ Head(queue) \in accepted
    BY <1>0, <1>4, TakenOff, HeadTailProperties, Zenon DEF TakeRequest
  <2>2. Busy' = Busy \cup {w} /\ w \notin Busy
    BY <1>0, <1>4, <2>1, Zenon DEF TakeRequest, Busy
  <2>3. Cardinality(Busy') = Cardinality(Busy) + 1
    BY <2>2, BusySize, FS_AddElement, Zenon
  <2> QED  BY <1>0, <2>1, <2>3, BusySize DEF SizeInv
<1>5. ASSUME NEW w \in Workers, AnswerRequest(w) \/ ReturnRequest(w) PROVE SizeInv'
  <2>1. Len(queue') \in Nat /\ Len(queue') <= Len(queue) + 1
    BY <1>0, <1>5, PutInFront DEF AnswerRequest, ReturnRequest
  <2>2. Busy' = Busy \ {w} /\ w \in Busy
    BY <1>0, <1>5, Zenon DEF AnswerRequest, ReturnRequest, Busy
  <2>3. Cardinality(Busy') = Cardinality(Busy) - 1
    BY <2>2, BusySize, FS_RemoveElement, Zenon
  <2> QED  BY <1>0, <2>1, <2>3, BusySize DEF SizeInv
<1>6. ASSUME NEW w \in Workers, FailRequest(w) \/ LeaveRequests(w) PROVE SizeInv'
  BY <1>6, Zenon DEF FailRequest, LeaveRequests, SizeInv, Busy
<1> QED  BY <1>1, <1>2, <1>3, <1>4, <1>5, <1>6, RequestSteps, Zenon

\* The initial states satisfy the invariant.
LEMMA InitInv == DbInit => Inv
<1> SUFFICES ASSUME DbInit PROVE Inv
  BY Zenon
<1> USE BoundsAssumption DEF DbInit, NoReq, NoClient, Requests
<1>1. DbTypeOK
  <2>1. retryTimes \in [Requests -> 0..MaxRetryTimes] /\ reqId \in 0..MaxReqs
    OBVIOUS
  <2>2. pc \in [Workers -> {"pop", "get", "open", "handle", "mark", "close", "delete",
                            "fail", "sleep", "exit"}]
    BY Zenon
  <2>3. queue \in Seq(accepted)
    BY EmptySeq, Zenon
  <2> QED  BY <2>1, <2>2, <2>3, Zenon DEF DbTypeOK
<1>2. ControlInv /\ LostInv
  BY Zenon DEF ControlInv, LostInv
<1>3. ClientInv
  <2>1. Cardinality(live) = 0 /\ PoolSize \in Nat
    BY FS_EmptySet, Sizes, Zenon
  <2> QED  BY <2>1 DEF ClientInv
<1>4. PlaceInv /\ RetryInv
  BY DEF PlaceInv, RetryInv
<1>5. SizeInv
  <2>1. Busy = {} /\ Len(queue) = 0
    BY Zenon DEF Busy
  <2> QED  BY <2>1, FS_EmptySet, Sizes DEF SizeInv
<1> QED  BY <1>1, <1>2, <1>3, <1>4, <1>5, Zenon DEF Inv

\* The invariant is inductive.
LEMMA NextInv == Inv /\ [DbNext]_dbVars => Inv'
BY TypeStep, ControlStep, ClientStep, PlaceStep, LostStep, RetryStep, SizeStep, Zenon DEF Inv

\* The invariant holds in every behaviour of the pool.
LEMMA Invariance == DbSpec => []Inv
BY InitInv, NextInv, PTL DEF DbSpec

\* No client is shared, leaked or refused, and there are never more connections
\* than the pool's size, for any number of workers: popping, opening without
\* the lock, marking idle and closing keep every client in one place.
THEOREM ClientsAreSound == DbSpec => []ClientsSound
<1>1. Inv => ClientsSound
  BY Zenon DEF Inv, ClientInv, ClientsSound
<1> QED  BY <1>1, Invariance, PTL

\* An accepted request is in the queue, with one worker or answered, once; one
\* that is given up has had its MaxRetryTimes retries; and requeue() takes the
\* queue past its capacity by at most the number of workers.
THEOREM RequestsConserved == DbSpec => []Conserved
<1>1. ASSUME Inv PROVE Conserved
  <2>0. DbTypeOK /\ PlaceInv /\ LostInv /\ RetryInv /\ SizeInv
    BY <1>1, Zenon DEF Inv
  <2>1. /\ Len(queue) \in Nat /\ accepted \subseteq Requests /\ NoReq \notin Requests
        /\ responses \in [Requests -> Nat]
    BY <2>0, RequestTypes, Zenon
  <2>2. ASSUME ~joined, NEW r \in accepted
        PROVE  Cardinality({i \in 1..Len(queue) : queue[i] = r})
                 + Cardinality({w \in Workers : req[w] = r}) + responses[r] = 1
    <3> DEFINE Q == {i \in 1..Len(queue) : queue[i] = r}
               W == {w \in Workers : req[w] = r}
    <3>0. r \in Requests /\ r # NoReq /\ responses[r] \in Nat
      BY <2>1, Zenon
    <3>1. ASSUME responses[r] = 1
          PROVE  Cardinality(Q) + Cardinality(W) + responses[r] = 1
      <4>1. Q = {} /\ W = {}
        BY <2>0, <2>1, <3>0, <3>1 DEF PlaceInv
      <4> HIDE DEF Q, W
      <4> QED  BY <3>1, <4>1, FS_EmptySet
    <3>2. ASSUME NEW i \in 1..Len(queue), queue[i] = r
          PROVE  Cardinality(Q) + Cardinality(W) + responses[r] = 1
      <4>1. Q = {i} /\ W = {} /\ responses[r] = 0
        BY <2>0, <2>1, <3>0, <3>2, Zenon DEF PlaceInv
      <4>2. Cardinality({i}) = 1 /\ Cardinality({}) = 0
        BY FS_EmptySet, FS_Singleton, Zenon
      <4> HIDE DEF Q, W
      <4> QED  BY <4>1, <4>2
    <3>3. ASSUME NEW w \in Workers, req[w] = r
          PROVE  Cardinality(Q) + Cardinality(W) + responses[r] = 1
      <4>1. Q = {} /\ W = {w} /\ responses[r] = 0
        BY <2>0, <2>1, <3>0, <3>3, Zenon DEF PlaceInv
      <4>2. Cardinality({w}) = 1 /\ Cardinality({}) = 0
        BY FS_EmptySet, FS_Singleton, Zenon
      <4> HIDE DEF Q, W
      <4> QED  BY <4>1, <4>2
    <3>4. Cardinality(Q) + Cardinality(W) + responses[r] = 1
      BY <2>0, <2>2, <3>1, <3>2, <3>3, Zenon DEF LostInv
    <3> QED  BY <3>4, Zenon
  <2>3. \A r \in gaveUp : openFails[r] = MaxRetryTimes + 1
    BY <2>0, Zenon DEF RetryInv
  <2>4. Len(queue) <= QueueCap + PoolSize
    BY <2>0, <2>1, BusySize, Sizes, BoundsAssumption DEF SizeInv
  <2> QED  BY <2>2, <2>3, <2>4, Zenon DEF Conserved
<1> QED  BY <1>1, Invariance, PTL

\* The pool implements RequestPool: a step accepts a request, answers an
\* accepted one for the first time, ends the pool, or changes nothing that
\* RequestPool sees.
THEOREM PoolImplemented == DbSpec => ImplementsPool
<1> DEFINE answered == {r \in Requests : responses[r] > 0}
<1>1. DbInit => Pool!Init
  BY DEF DbInit, Pool!Init
<1>2. ASSUME Inv, [DbNext]_dbVars PROVE [Pool!Next]_(Pool!poolVars)
  <2> USE DEF Pool!Next, Pool!Accept, Pool!Respond, Pool!Finish, Pool!poolVars
  <2>0. /\ responses \in [Requests -> Nat] /\ accepted \subseteq Requests
        /\ DbTypeOK /\ ControlInv /\ ClientInv /\ PlaceInv
        /\ req \in [Workers -> accepted \cup {NoReq}] /\ NoReq \notin Requests
        /\ joined \in BOOLEAN
    BY <1>2, RequestTypes, Zenon DEF Inv, DbTypeOK
  <2>1. CASE NewRequest
    <3>1. Pool!Accept(reqId')
      BY <2>1, Zenon DEF NewRequest
    <3> QED  BY <2>1, <3>1, Zenon DEF NewRequest
  <2>2. CASE DropAll
    BY <2>2, Zenon DEF DropAll
  <2>3. CASE SameRequests
    BY <2>3, Zenon DEF SameRequests
  <2>4. ASSUME NEW w \in Workers, AnswerRequest(w) PROVE Pool!Next
    <3>1. req[w] \in Requests /\ responses[req[w]] = 0
      BY <2>0, <2>4, Zenon DEF AnswerRequest, PlaceInv
    <3>2. \A r \in Requests : responses'[r] = IF r = req[w] THEN responses[r] + 1 ELSE responses[r]
      BY <2>0, <2>4, Zenon DEF AnswerRequest
    <3>3. answered' = answered \cup {req[w]} /\ req[w] \notin answered
      BY <2>0, <3>1, <3>2
    <3>4. Pool!Respond(req[w])
      BY <2>4, <3>1, <3>3, Zenon DEF AnswerRequest
    <3> QED  BY <3>1, <3>4, Zenon
  <2>5. ASSUME NEW w \in Workers,
               TakeRequest(w) \/ ReturnRequest(w) \/ FailRequest(w) \/ LeaveRequests(w)
        PROVE  UNCHANGED Pool!poolVars
    BY <2>5, Zenon DEF TakeRequest, ReturnRequest, FailRequest, LeaveRequests
  <2> QED  BY <1>2, <2>0, <2>1, <2>2, <2>3, <2>4, <2>5, RequestSteps, Zenon
<1> QED  BY <1>1, <1>2, Invariance, PTL DEF DbSpec, ImplementsPool, Pool!Spec
=============================================================================
