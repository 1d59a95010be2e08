--------------------------- MODULE NetServerProofs ---------------------------
(***************************************************************************)
(* Proofs about NetServer, for any number of users, workers, responders and *)
(* shards, and any number of duplicated or late answers of the backends: a  *)
(* request is answered at most once, with its own result, to its own user;  *)
(* and what cleanupUserContext() has cleaned up stays clean.                *)
(***************************************************************************)
EXTENDS NetServer, SequenceTheorems, TLAPS

Threads == Workers \cup Responders
Labels == {"idle", "handle", "save", "call", "done", "take", "lock", "post"}
PostedAnswer == [user : Users \cup {NoUser}, about : 0..MaxReqs]

Types ==
    /\ phase \in [Users -> {"none", "open", "closed", "notified", "gone"}]
    /\ pin \in [Threads -> Users \cup {NoUser}] /\ serving \subseteq Workers
    /\ pc \in [Threads -> Labels]
    /\ job \in [Threads -> [id: Nat, user: Users \cup {NoUser}, req: 0..MaxReqs]]
    /\ about \in [Responders -> 0..MaxReqs]
    /\ reqSeq \in Nat /\ ctxs \subseteq [id: Nat, user: Users, req: Reqs]
    /\ mon \in Users \cup {NoUser} /\ shard \in 0..NumShards - 1
    /\ swept \subseteq Users /\ sweeping \subseteq Users
    /\ reqs \in Seq(Users) /\ Len(reqs) <= MaxReqs
    /\ calls \subseteq [id: Nat, req: Reqs]
    /\ replies \in [Reqs -> Nat] /\ answers \in [Reqs -> Seq(PostedAnswer)]

\* The request of thread t may still be answered by t: it has neither saved
\* the context nor answered, or has taken the context out of the map.
Carries(t) == pc[t] \in {"handle", "save", "lock", "post"}

\* A context belongs to the user that sent its request.
OwnerInv ==
    /\ \A t \in Threads : Carries(t) =>
          job[t].req \in 1..Len(reqs) /\ job[t].user = reqs[job[t].req]
    /\ \A ctx \in ctxs : ctx.req \in 1..Len(reqs) /\ ctx.user = reqs[ctx.req]
    /\ \A c \in Responders : pc[c] \in {"lock", "post"} => about[c] = job[c].req

\* The ids in use, with the requests they stand for.
Pairs ==
    {<<job[w].id, job[w].req>> : w \in {v \in Threads : pc[v] \in {"save", "call"}}}
    \cup {<<ctx.id, ctx.req>> : ctx \in ctxs}
    \cup {<<call.id, call.req>> : call \in calls}
    \cup {<<job[c].id, about[c]>> : c \in {d \in Responders : pc[d] = "take"}}

\* No id ever stands for two requests, so the answer to one is not taken for
\* the answer to another.
PairInv ==
    /\ Pairs \subseteq (1..reqSeq) \X (1..Len(reqs))
    /\ \A p, q \in Pairs : p[1] = q[1] => p[2] = q[2]

\* At most one of the threads, the contexts and the posted answers has the
\* right to answer a request, or has used it.
TokenInv ==
    /\ \A s, t \in Threads : s # t /\ Carries(s) /\ Carries(t) => job[s].req # job[t].req
    /\ \A t \in Threads, ctx \in ctxs : Carries(t) => job[t].req # ctx.req
    /\ \A c, d \in ctxs : c # d => c.req # d.req
    /\ \A t \in Threads : Carries(t) => answers[job[t].req] = <<>>
    /\ \A ctx \in ctxs : answers[ctx.req] = <<>>
    /\ \A n \in Reqs : n > Len(reqs) => answers[n] = <<>>
    /\ AnsweredOnce

\* A user that a thread has locked exists; a request under way is handled by a
\* thread that has locked its user.
PinInv ==
    /\ \A t \in Threads : pin[t] # NoUser => phase[pin[t]] \in {"open", "closed", "notified"}
    /\ \A t \in Threads : pc[t] \in {"handle", "save"} => t \in serving /\ pin[t] = job[t].user

\* A cleanup in progress has cleared the shards before shard of the users it
\* will have swept, and nothing can add a context for one of them.
SweepInv ==
    /\ mon = NoUser => sweeping = {}
    /\ mon # NoUser => ~down /\ phase[mon] = "notified"
    /\ \A u \in sweeping : u = mon \/ phase[u] = "gone"
    /\ \A u \in swept \cup sweeping :
          /\ phase[u] \in {"notified", "gone"}
          /\ \A t \in Threads : pc[t] \in {"handle", "save"} => job[t].user # u
    /\ \A ctx \in ctxs : ctx.user \in sweeping => ShardIdx(ctx.id) >= shard
    /\ SweptStaysClean

Inv == Types /\ OwnerInv /\ PairInv /\ TokenInv /\ PinInv /\ SweepInv
-----------------------------------------------------------------------------
\* The steps of the connections, of the monitor and of threads that lock or
\* drop a user without handling a request, as the requests see them.
Quiet ==
    /\ UNCHANGED <<pc, job, about, reqSeq, reqs, calls, replies, answers>>
    /\ ctxs' \subseteq ctxs

\* A step of the life of a user, as UserLifecycle has it.
LifeStep ==
    \/ \E u \in Users : Life!Connect(u) \/ Life!Close(u) \/ Life!Disconnect(u)
    \/ \E u \in Users : Life!Destroy(u) /\ mon # u
    \/ \E t \in Threads : \/ Drop(t) /\ pc[t] \notin {"handle", "save"}
                          \/ \E u \in Users : Life!Pin(t, u)
    \/ \E w \in Workers : Life!Serve(w)
    \/ Life!Down /\ mon = NoUser
    \/ Life!DestroyAll
    \/ UNCHANGED lifeVars

\* Every step is a step of the life of the users.
LEMMA LifeSteps ==
    ASSUME Types, OwnerInv, [Next]_vars
    PROVE  LifeStep
<1>1. CASE UserStep \/ GoDown \/ CloseServer
  BY <1>1, Zenon DEF UserStep, GoDown, CloseServer, LifeStep
<1>2. ASSUME NEW w \in Workers, \/ WorkerStep(w) \/ OnRequest(w) \/ \E u \in Users : Lock(w, u)
      PROVE  LifeStep
  <2>1. w \in Threads
    BY Zenon DEF Threads
  <2>2. CASE Skip(w) \/ Return(w)
    BY <2>1, <2>2, Zenon DEF Skip, Return, LifeStep
  <2>3. CASE Answer(w) \/ GenRequestId(w) \/ SaveReqContext(w) \/ CallBackend(w)
    BY <2>3, Zenon DEF Answer, GenRequestId, SaveReqContext, CallBackend, LifeStep
  <2>4. CASE OnRequest(w) \/ \E u \in Users : Lock(w, u)
    BY <2>1, <2>4, Zenon DEF OnRequest, Lock, LifeStep
  <2> QED  BY <1>2, <2>2, <2>3, <2>4, Zenon DEF WorkerStep
<1>3. ASSUME NEW c \in Responders, ResponderStep(c) \/ Reply(c) PROVE LifeStep
  <2>1. c \in Threads
    BY Zenon DEF Threads
  <2>2. CASE TakeContext(c) \/ Reply(c)
    BY <2>2, Zenon DEF TakeContext, Reply, LifeStep
  <2>3. CASE LockUser(c)
    <3>1. job[c].user \in Users
      <4>1. job[c].req \in 1..Len(reqs) /\ job[c].user = reqs[job[c].req]
        BY <2>1, <2>3, Zenon DEF LockUser, OwnerInv, Carries
      <4> QED  BY <4>1, ElementOfSeq, Zenon DEF Types
    <3> QED  BY <2>1, <2>3, <3>1, Zenon DEF LockUser, LifeStep
  <2>4. CASE PostResponse(c)
    BY <2>1, <2>4, Zenon DEF PostResponse, LifeStep
  <2> QED  BY <1>3, <2>2, <2>3, <2>4, Zenon DEF ResponderStep
<1>4. CASE CleanupShard
  BY <1>4, Zenon DEF CleanupShard, LifeStep
<1>5. ASSUME NEW u \in Users, OnDisconnect(u) PROVE LifeStep
  BY <1>5, Zenon DEF OnDisconnect, LifeStep
<1>6. CASE UNCHANGED vars
  BY <1>6, Zenon DEF vars, LifeStep
<1> QED  BY <1>1, <1>2, <1>3, <1>4, <1>5, <1>6, Zenon DEF Next

\* Every step is quiet or one of the steps of a request.
LEMMA RequestSteps ==
    ASSUME [Next]_vars
    PROVE  \/ Quiet
           \/ \E w \in Workers : \/ OnRequest(w) \/ Answer(w) \/ GenRequestId(w)
                                 \/ SaveReqContext(w) \/ CallBackend(w) \/ Return(w)
           \/ \E c \in Responders : Reply(c) \/ TakeContext(c) \/ LockUser(c) \/ PostResponse(c)
<1> USE DEF ctxVars, monVars, outVars, lifeVars, Quiet
<1>1. CASE UserStep \/ GoDown \/ CloseServer
  BY <1>1, Zenon DEF UserStep, GoDown, CloseServer
<1>2. ASSUME NEW w \in Workers, Skip(w) \/ \E u \in Users : Lock(w, u) PROVE Quiet
  BY <1>2, Zenon DEF Skip, Lock
<1>3. CASE CleanupShard \/ \E u \in Users : OnDisconnect(u)
  BY <1>3, Zenon DEF CleanupShard, OnDisconnect
<1>4. CASE UNCHANGED vars
  BY <1>4, Zenon DEF vars
<1> QED
  BY <1>1, <1>2, <1>3, <1>4, Zenon DEF Next, WorkerStep, ResponderStep

\* The life of the users keeps their types.
LEMMA LifeTypes ==
    ASSUME Types, LifeStep
    PROVE  /\ phase' \in [Users -> {"none", "open", "closed", "notified", "gone"}]
           /\ pin' \in [Threads -> Users \cup {NoUser}] /\ serving' \subseteq Workers
<1> USE DEF Types
<1>1. ASSUME NEW u \in Users, \/ Life!Connect(u) \/ Life!Close(u) \/ Life!Disconnect(u)
                              \/ Life!Destroy(u)
      PROVE  /\ phase' \in [Users -> {"none", "open", "closed", "notified", "gone"}]
             /\ UNCHANGED <<pin, serving>>
  BY <1>1, Zenon DEF Life!Connect, Life!Close, Life!Disconnect, Life!Destroy, Life!Move
<1>2. ASSUME NEW t \in Threads, Drop(t)
      PROVE  /\ phase' \in [Users -> {"none", "open", "closed", "notified", "gone"}]
             /\ pin' \in [Threads -> Users \cup {NoUser}] /\ serving' \subseteq Workers
  BY <1>2, Zenon DEF Drop, Life!Unpin
<1>3. ASSUME NEW t \in Threads, NEW u \in Users, Life!Pin(t, u)
      PROVE  pin' \in [Threads -> Users \cup {NoUser}] /\ UNCHANGED <<phase, serving>>
  BY <1>3, Zenon DEF Life!Pin
<1>4. ASSUME NEW w \in Workers, Life!Serve(w)
      PROVE  serving' \subseteq Workers /\ UNCHANGED <<phase, pin>>
  BY <1>4, Zenon DEF Life!Serve
<1>5. CASE Life!Down \/ UNCHANGED lifeVars
  BY <1>5, Zenon DEF Life!Down, lifeVars
<1>6. CASE Life!DestroyAll
  <2>1. phase' \in [Users -> {"none", "open", "closed", "notified", "gone"}]
    BY <1>6, Zenon DEF Life!DestroyAll
  <2> QED  BY <1>6, <2>1, Zenon DEF Life!DestroyAll
<1> QED  BY <1>1, <1>2, <1>3, <1>4, <1>5, <1>6, Zenon DEF LifeStep

\* The monitor's variables keep their types.
LEMMA MonTypes ==
    ASSUME Types, [Next]_vars
    PROVE  /\ mon' \in Users \cup {NoUser} /\ shard' \in 0..NumShards - 1
           /\ swept' \subseteq Users /\ sweeping' \subseteq Users
<1> USE DEF Types
<1>1. CASE CleanupShard
  <2>1. shard' \in 0..NumShards - 1
    BY <1>1, BoundsAssumption DEF CleanupShard, LastShard
  <2> QED  BY <1>1, <2>1, Zenon DEF CleanupShard
<1>2. ASSUME NEW u \in Users, OnDisconnect(u)
      PROVE  /\ mon' \in Users \cup {NoUser} /\ shard' \in 0..NumShards - 1
             /\ swept' \subseteq Users /\ sweeping' \subseteq Users
  <2>1. shard' \in 0..NumShards - 1
    BY <1>2, BoundsAssumption DEF OnDisconnect
  <2> QED  BY <1>2, <2>1, Zenon DEF OnDisconnect
<1>3. ASSUME ~CleanupShard, \A u \in Users : ~OnDisconnect(u) PROVE UNCHANGED monVars
  BY <1>3, Zenon DEF Next, UserStep, GoDown, CloseServer, WorkerStep, ResponderStep, OnRequest, Lock,
     Skip, Answer, GenRequestId, SaveReqContext, CallBackend, Return, Reply, TakeContext,
     LockUser, PostResponse, vars
<1> QED  BY <1>1, <1>2, <1>3, Zenon DEF monVars

\* A step preserves the types.
LEMMA TypesStep ==
    ASSUME Types, OwnerInv, PairInv, [Next]_vars
    PROVE  Types'
<1> DEFINE T2 ==
      /\ pc \in [Threads -> Labels]
      /\ job \in [Threads -> [id: Nat, user: Users \cup {NoUser}, req: 0..MaxReqs]]
      /\ about \in [Responders -> 0..MaxReqs]
      /\ reqSeq \in Nat /\ ctxs \subseteq [id: Nat, user: Users, req: Reqs]
      /\ reqs \in Seq(Users) /\ Len(reqs) <= MaxReqs
      /\ calls \subseteq [id: Nat, req: Reqs]
      /\ replies \in [Reqs -> Nat] /\ answers \in [Reqs -> Seq(PostedAnswer)]
<1>0. T2 /\ MaxReqs \in Nat /\ Len(reqs) \in Nat
  BY BoundsAssumption, LenProperties, Zenon DEF Types
<1>n. NoCtx \in [id: Nat, user: Users \cup {NoUser}, req: 0..MaxReqs]
  BY <1>0 DEF NoCtx
<1> USE DEF Goto, ctxVars, outVars, Labels, Reqs
\* post() keeps the type of the answers.
<1>p. ASSUME NEW ctx, ctx.user \in Users \cup {NoUser}, ctx.req \in Reqs,
             NEW what \in 0..MaxReqs, Post(ctx, what)
      PROVE  answers' \in [Reqs -> Seq(PostedAnswer)]
  <2>1. CASE UNCHANGED answers
    BY <1>0, <2>1, Zenon
  <2>2. CASE answers' = [answers EXCEPT ![ctx.req] = Append(@, [user |-> ctx.user, about |-> what])]
    <3>1. [user |-> ctx.user, about |-> what] \in PostedAnswer
      BY <1>p, Zenon DEF PostedAnswer
    <3>2. answers[ctx.req] \in Seq(PostedAnswer)
      BY <1>0, <1>p, Zenon
    <3>3. Append(answers[ctx.req], [user |-> ctx.user, about |-> what]) \in Seq(PostedAnswer)
      BY <3>1, <3>2, AppendProperties, Zenon
    <3> QED  BY <1>0, <1>p, <2>2, <3>3, Zenon
  <2> QED  BY <1>p, <2>1, <2>2, Zenon DEF Post
<1>1. ASSUME Quiet PROVE T2'
  BY <1>0, <1>1, Zenon DEF Quiet
<1>2. ASSUME NEW w \in Workers, OnRequest(w) PROVE T2'
  <2>1. w \in Threads /\ pin[w] \in Users
    BY <1>2, Zenon DEF Threads, OnRequest, Life!Serve, Types
  <2>2. reqs' \in Seq(Users) /\ Len(reqs') = Len(reqs) + 1
    BY <1>0, <1>2, <2>1, AppendProperties, Zenon DEF OnRequest
  <2>3. job' \in [Threads -> [id: Nat, user: Users \cup {NoUser}, req: 0..MaxReqs]]
    BY <1>0, <1>2, <2>1 DEF OnRequest
  <2>4. pc' \in [Threads -> Labels] /\ Len(reqs') <= MaxReqs
    BY <1>0, <1>2, <2>1, <2>2 DEF OnRequest
  <2> QED  BY <1>0, <1>2, <2>2, <2>3, <2>4, Zenon DEF OnRequest
<1>3. ASSUME NEW w \in Workers, Answer(w) PROVE T2'
  <2>1. w \in Threads
    BY Zenon DEF Threads
  <2>2. job[w].user \in Users \cup {NoUser} /\ job[w].req \in Reqs /\ job[w].req \in 0..MaxReqs
    BY <1>0, <1>3, <2>1 DEF Answer, OwnerInv, Carries
  <2>3. answers' \in [Reqs -> Seq(PostedAnswer)]
    BY <1>3, <1>p, <2>2, Zenon DEF Answer
  <2> QED  BY <1>0, <1>3, <2>1, <2>3, Zenon DEF Answer
<1>4. ASSUME NEW w \in Workers, GenRequestId(w) PROVE T2'
  <2>1. w \in Threads /\ NextId \in Nat
    BY <1>0 DEF Threads, NextId
  <2>2. job' \in [Threads -> [id: Nat, user: Users \cup {NoUser}, req: 0..MaxReqs]]
    BY <1>0, <1>4, <2>1, Zenon DEF GenRequestId
  <2> QED  BY <1>0, <1>4, <2>1, <2>2, Zenon DEF GenRequestId
<1>5. ASSUME NEW w \in Workers, SaveReqContext(w) PROVE T2'
  <2>1. w \in Threads
    BY Zenon DEF Threads
  <2>2. job[w].req \in 1..Len(reqs) /\ job[w].user = reqs[job[w].req]
    BY <1>5, <2>1, Zenon DEF SaveReqContext, OwnerInv, Carries
  <2>3. job[w].user \in Users
    BY <1>0, <2>2, ElementOfSeq, Zenon
  <2>4. job[w] \in [id: Nat, user: Users, req: Reqs]
    BY <1>0, <2>1, <2>2, <2>3
  <2> QED  BY <1>0, <1>5, <2>1, <2>4, Zenon DEF SaveReqContext
<1>6. ASSUME NEW w \in Workers, CallBackend(w) PROVE T2'
  <2>1. w \in Threads
    BY Zenon DEF Threads
  <2>2. <<job[w].id, job[w].req>> \in Pairs
    BY <1>6, <2>1, Zenon DEF CallBackend, Pairs
  <2>3. job[w].id \in Nat /\ job[w].req \in Reqs
    BY <1>0, <2>2 DEF PairInv
  <2>4. calls' \subseteq [id: Nat, req: Reqs] /\ pc' \in [Threads -> Labels]
    BY <1>0, <1>6, <2>1, <2>3 DEF CallBackend
  <2> QED  BY <1>0, <1>6, <2>4, Zenon DEF CallBackend
<1>7. ASSUME NEW w \in Workers, Return(w) PROVE T2'
  BY <1>0, <1>n, <1>7, Zenon DEF Return, Threads
<1>8. ASSUME NEW c \in Responders, Reply(c) PROVE T2'
  <2>1. PICK call \in calls :
          /\ replies' = [replies EXCEPT ![call.req] = @ + 1]
          /\ job' = [job EXCEPT ![c] = [NoCtx EXCEPT !.id = call.id]]
          /\ about' = [about EXCEPT ![c] = call.req]
    BY <1>8, Zenon DEF Reply
  <2>2. call.id \in Nat /\ call.req \in Reqs /\ c \in Threads
    BY <1>0, Zenon DEF Threads
  <2>3. [NoCtx EXCEPT !.id = call.id] \in [id: Nat, user: Users \cup {NoUser}, req: 0..MaxReqs]
    BY <1>n, <2>2, Zenon
  <2>4. replies' \in [Reqs -> Nat] /\ about' \in [Responders -> 0..MaxReqs]
    BY <1>0, <2>1, <2>2
  <2> QED  BY <1>0, <1>8, <2>1, <2>2, <2>3, <2>4, Zenon DEF Reply
<1>9. ASSUME NEW c \in Responders, Idle(c)
      PROVE  /\ pc' \in [Threads -> Labels]
             /\ job' \in [Threads -> [id: Nat, user: Users \cup {NoUser}, req: 0..MaxReqs]]
             /\ about' \in [Responders -> 0..MaxReqs]
  BY <1>0, <1>n, <1>9 DEF Idle, Threads
<1>10. ASSUME NEW c \in Responders, TakeContext(c) PROVE T2'
  <2>1. CASE Idle(c) /\ UNCHANGED ctxs
    BY <1>0, <1>9, <1>10, <2>1, Zenon DEF TakeContext
  <2>2. ASSUME NEW ctx \in ctxs, job' = [job EXCEPT ![c] = ctx], ctxs' = ctxs \ {ctx},
               pc' = [pc EXCEPT ![c] = "lock"], UNCHANGED about
        PROVE  T2'
    <3>1. ctx \in [id: Nat, user: Users \cup {NoUser}, req: 0..MaxReqs] /\ c \in Threads
      BY <1>0 DEF Threads
    <3> QED  BY <1>0, <1>10, <2>2, <3>1, Zenon DEF TakeContext
  <2> QED  BY <1>10, <2>1, <2>2, Zenon DEF TakeContext, Remaining
<1>11. ASSUME NEW c \in Responders, LockUser(c) PROVE T2'
  BY <1>0, <1>9, <1>11, Zenon DEF LockUser, Threads
<1>12. ASSUME NEW c \in Responders, PostResponse(c) PROVE T2'
  <2>1. c \in Threads
    BY Zenon DEF Threads
  <2>2. job[c].user \in Users \cup {NoUser} /\ job[c].req \in Reqs /\ about[c] \in 0..MaxReqs
    BY <1>0, <1>12, <2>1 DEF PostResponse, OwnerInv, Carries
  <2>3. answers' \in [Reqs -> Seq(PostedAnswer)]
    BY <1>12, <1>p, <2>2, Zenon DEF PostResponse
  <2> QED  BY <1>0, <1>9, <1>12, <2>3, Zenon DEF PostResponse
<1>13. T2'
  <2> HIDE DEF T2
  <2> QED
    BY <1>1, <1>2, <1>3, <1>4, <1>5, <1>6, <1>7, <1>8, <1>10, <1>11, <1>12, RequestSteps, Zenon
<1> QED  BY <1>13, LifeSteps, LifeTypes, MonTypes, Zenon DEF Types

\* The types that the invariants about requests rest on.
LEMMA RequestTypes ==
    ASSUME Types
    PROVE  /\ pc \in [Threads -> Labels] /\ DOMAIN job = Threads /\ DOMAIN about = Responders
           /\ \A t \in Threads : job[t].id \in Nat /\ job[t].req \in 0..MaxReqs
           /\ \A ctx \in ctxs : ctx.id \in Nat /\ ctx.req \in Reqs
           /\ reqs \in Seq(Users) /\ Len(reqs) \in Nat /\ Len(reqs) <= MaxReqs
           /\ MaxReqs \in Nat /\ reqSeq \in Nat /\ Workers \subseteq Threads /\ Responders \subseteq Threads
           /\ DOMAIN answers = Reqs /\ 1..Len(reqs) \subseteq Reqs
<1>1. reqs \in Seq(Users) /\ Len(reqs) \in Nat /\ Len(reqs) <= MaxReqs /\ MaxReqs \in Nat
  BY LenProperties, BoundsAssumption, Zenon DEF Types
<1>2. 1..Len(reqs) \subseteq Reqs
  BY <1>1 DEF Reqs
<1> QED  BY <1>1, <1>2, Zenon DEF Types, Threads

\* A new request is appended to the requests.
LEMMA NewRequest ==
    ASSUME Types, NEW w \in Workers, OnRequest(w)
    PROVE  /\ Len(reqs') = Len(reqs) + 1 /\ reqs'[Len(reqs) + 1] = pin[w]
           /\ \A i \in 1..Len(reqs) : reqs'[i] = reqs[i]
<1>1. pin[w] \in Users
  BY Zenon DEF OnRequest, Life!Serve, Types, Threads
<1> QED  BY <1>1, RequestTypes, AppendProperties DEF OnRequest

\* A step preserves that contexts belong to the users of their requests.
LEMMA OwnerStep ==
    ASSUME Types, OwnerInv, PairInv, [Next]_vars
    PROVE  OwnerInv'
<1> USE DEF Goto, Carries, ctxVars, outVars
<1>0. /\ pc \in [Threads -> Labels] /\ DOMAIN job = Threads /\ DOMAIN about = Responders
      /\ reqs \in Seq(Users) /\ Len(reqs) \in Nat
      /\ Workers \subseteq Threads /\ Responders \subseteq Threads
  BY RequestTypes, Zenon
<1>1. CASE Quiet
  BY <1>1, Zenon DEF Quiet, OwnerInv
<1>2. ASSUME NEW w \in Workers, OnRequest(w) PROVE OwnerInv'
  <2>1. /\ Len(reqs') = Len(reqs) + 1 /\ reqs'[Len(reqs) + 1] = pin[w]
        /\ \A i \in 1..Len(reqs) : i \in 1..Len(reqs)' /\ reqs'[i] = reqs[i]
    BY <1>0, <1>2, NewRequest
  <2>2. /\ job'[w].req = Len(reqs) + 1 /\ job'[w].user = pin[w] /\ pc'[w] = "handle"
        /\ \A t \in Threads : t # w => job'[t] = job[t] /\ pc'[t] = pc[t]
    BY <1>0, <1>2, Zenon DEF OnRequest
  <2>3. Len(reqs) + 1 \in 1..Len(reqs)'
    BY <1>0, <2>1
  <2>4. \A t \in Threads : Carries(t)' =>
          job'[t].req \in 1..Len(reqs)' /\ job'[t].user = reqs'[job'[t].req]
    BY <1>0, <2>1, <2>2, <2>3 DEF OwnerInv
  <2>5. \A ctx \in ctxs : ctx.req \in 1..Len(reqs)' /\ ctx.user = reqs'[ctx.req]
    BY <2>1, Zenon DEF OwnerInv
  <2>6. \A c \in Responders : pc'[c] \in {"lock", "post"} => about[c] = job'[c].req
    BY <1>0, <2>2, Zenon DEF OwnerInv
  <2> QED  BY <1>2, <2>4, <2>5, <2>6, Zenon DEF OwnerInv, OnRequest
<1>3. ASSUME NEW w \in Workers, Answer(w) \/ CallBackend(w) PROVE OwnerInv'
  BY <1>0, <1>3, Zenon DEF Answer, CallBackend, OwnerInv
<1>4. ASSUME NEW w \in Workers, GenRequestId(w) PROVE OwnerInv'
  <2>1. /\ \A t \in Threads : job'[t].req = job[t].req /\ job'[t].user = job[t].user
        /\ \A t \in Threads : t # w => pc'[t] = pc[t]
        /\ pc[w] = "handle" /\ pc'[w] = "save"
    BY <1>0, <1>4, Zenon DEF GenRequestId, Types
  <2> QED  BY <1>0, <1>4, <2>1 DEF GenRequestId, OwnerInv
<1>5. ASSUME NEW w \in Workers, SaveReqContext(w) PROVE OwnerInv'
  <2>1. ctxs' \subseteq ctxs \cup {job[w]}
    BY <1>5, Zenon DEF SaveReqContext
  <2>2. job[w].req \in 1..Len(reqs) /\ job[w].user = reqs[job[w].req]
    BY <1>0, <1>5, Zenon DEF SaveReqContext, OwnerInv
  <2> QED  BY <1>0, <1>5, <2>1, <2>2, Zenon DEF SaveReqContext, OwnerInv
<1>6. ASSUME NEW w \in Workers, Return(w) PROVE OwnerInv'
  BY <1>0, <1>6, Zenon DEF Return, OwnerInv
<1>7. ASSUME NEW c \in Responders, Reply(c) PROVE OwnerInv'
  BY <1>0, <1>7 DEF Reply, OwnerInv
<1>8. ASSUME NEW c \in Responders, TakeContext(c) PROVE OwnerInv'
  <2>1. CASE Idle(c) /\ UNCHANGED ctxs
    BY <1>0, <1>8, <2>1, Zenon DEF TakeContext, Idle, OwnerInv
  <2>2. ASSUME NEW ctx \in ctxs, ctx.id = job[c].id, job' = [job EXCEPT ![c] = ctx],
               ctxs' = ctxs \ {ctx}, pc' = [pc EXCEPT ![c] = "lock"], UNCHANGED about
        PROVE  OwnerInv'
    <3>1. <<ctx.id, ctx.req>> \in Pairs /\ <<job[c].id, about[c]>> \in Pairs
      BY <1>8, Zenon DEF TakeContext, Pairs
    <3>2. about[c] = ctx.req
      BY <2>2, <3>1, Zenon DEF PairInv
    <3> QED  BY <1>0, <1>8, <2>2, <3>2, Zenon DEF TakeContext, OwnerInv
  <2> QED  BY <1>8, <2>1, <2>2, Zenon DEF TakeContext, Remaining
<1>9. ASSUME NEW c \in Responders, LockUser(c) \/ PostResponse(c) PROVE OwnerInv'
  BY <1>0, <1>9, SMTT(60) DEF LockUser, PostResponse, Idle, OwnerInv
<1> QED
  BY <1>1, <1>2, <1>3, <1>4, <1>5, <1>6, <1>7, <1>8, <1>9, RequestSteps, Zenon

\* A step adds at most one pair, with an id that was never used.
LEMMA PairStep ==
    ASSUME Types, OwnerInv, PairInv, [Next]_vars
    PROVE  PairInv'
<1> USE DEF Goto, ctxVars, outVars
<1>0. /\ pc \in [Threads -> Labels] /\ DOMAIN job = Threads /\ DOMAIN about = Responders
      /\ reqs \in Seq(Users) /\ Len(reqs) \in Nat /\ reqSeq \in Nat
      /\ Workers \subseteq Threads /\ Responders \subseteq Threads
  BY RequestTypes, Zenon
<1>s. ASSUME Pairs' \subseteq Pairs, Len(reqs)' \in Nat, Len(reqs) <= Len(reqs)', reqSeq' = reqSeq
      PROVE  PairInv'
  <2>1. (1..reqSeq) \X (1..Len(reqs)) \subseteq (1..reqSeq') \X (1..Len(reqs)')
    BY <1>0, <1>s
  <2> QED  BY <1>s, <2>1, Zenon DEF PairInv
<1>u. ASSUME Pairs' \subseteq Pairs, UNCHANGED <<reqs, reqSeq>> PROVE PairInv'
  <2>1. Len(reqs)' \in Nat /\ Len(reqs) <= Len(reqs)' /\ reqSeq' = reqSeq
    BY <1>0, <1>u
  <2> QED  BY <1>s, <1>u, <2>1, Zenon
<1>1. CASE Quiet
  <2>1. Pairs' \subseteq Pairs
    BY <1>1, Zenon DEF Quiet, Pairs
  <2>9. UNCHANGED <<reqs, reqSeq>>
    BY <1>1, Zenon DEF Quiet
  <2> QED  BY <1>u, <2>1, <2>9, Zenon
<1>2. ASSUME NEW w \in Workers, OnRequest(w) PROVE PairInv'
  <2>1. Pairs' \subseteq Pairs
    BY <1>0, <1>2, Zenon DEF OnRequest, Pairs
  <2>2. Len(reqs)' \in Nat /\ Len(reqs) <= Len(reqs)'
    BY <1>0, <1>2, NewRequest
  <2> QED  BY <1>2, <1>s, <2>1, <2>2, Zenon DEF OnRequest
<1>3. ASSUME NEW w \in Workers, Answer(w) \/ Return(w) PROVE PairInv'
  <2>1. Pairs' \subseteq Pairs
    BY <1>0, <1>3, Zenon DEF Answer, Return, Pairs
  <2>9. UNCHANGED <<reqs, reqSeq>>
    BY <1>3, Zenon DEF Answer, Return
  <2> QED  BY <1>u, <2>1, <2>9, Zenon
<1>4. ASSUME NEW w \in Workers, GenRequestId(w) PROVE PairInv'
  <2>1. /\ job'[w].id = reqSeq + 1 /\ job'[w].req = job[w].req /\ pc'[w] = "save"
        /\ \A t \in Threads : t # w => job'[t] = job[t] /\ pc'[t] = pc[t]
    BY <1>0, <1>4, Zenon DEF GenRequestId, NextId, Types
  <2>2. Pairs' \subseteq Pairs \cup {<<reqSeq + 1, job[w].req>>}
    BY <1>0, <1>4, <2>1 DEF GenRequestId, Pairs
  <2>3. job[w].req \in 1..Len(reqs)
    BY <1>0, <1>4, Zenon DEF GenRequestId, OwnerInv, Carries
  <2>4. reqSeq' = reqSeq + 1 /\ reqs' = reqs
    BY <1>4, Zenon DEF GenRequestId, NextId
  <2>5. \A p \in Pairs : p \in (1..reqSeq') \X (1..Len(reqs)) /\ p[1] # reqSeq + 1
    BY <1>0, <2>4 DEF PairInv
  <2>6. <<reqSeq + 1, job[w].req>> \in (1..reqSeq') \X (1..Len(reqs))
    BY <1>0, <2>3, <2>4
  <2> QED  BY <2>2, <2>4, <2>5, <2>6 DEF PairInv
<1>5. ASSUME NEW w \in Workers, SaveReqContext(w) PROVE PairInv'
  <2>1. Pairs' \subseteq Pairs
    BY <1>0, <1>5, Zenon DEF SaveReqContext, Pairs
  <2>9. UNCHANGED <<reqs, reqSeq>>
    BY <1>5, Zenon DEF SaveReqContext
  <2> QED  BY <1>u, <2>1, <2>9, Zenon
<1>6. ASSUME NEW w \in Workers, CallBackend(w) PROVE PairInv'
  <2>1. Pairs' \subseteq Pairs
    BY <1>0, <1>6 DEF CallBackend, Pairs
  <2>9. UNCHANGED <<reqs, reqSeq>>
    BY <1>6, Zenon DEF CallBackend
  <2> QED  BY <1>u, <2>1, <2>9, Zenon
<1>7. ASSUME NEW c \in Responders, Reply(c) PROVE PairInv'
  <2>1. PICK call \in calls : /\ job' = [job EXCEPT ![c] = [NoCtx EXCEPT !.id = call.id]]
                              /\ about' = [about EXCEPT ![c] = call.req]
    BY <1>7, Zenon DEF Reply
  <2>2. job'[c].id = call.id /\ about'[c] = call.req
    BY <1>0, <2>1, Zenon DEF NoCtx
  <2>3. Pairs' \subseteq Pairs
    BY <1>0, <1>7, <2>1, <2>2 DEF Reply, Pairs
  <2>9. UNCHANGED <<reqs, reqSeq>>
    BY <1>7, Zenon DEF Reply
  <2> QED  BY <1>u, <2>3, <2>9, Zenon
<1>8. ASSUME NEW c \in Responders, TakeContext(c) PROVE PairInv'
  <2>1. Pairs' \subseteq Pairs
    BY <1>0, <1>8, Zenon DEF TakeContext, Remaining, Idle, Pairs
  <2>9. UNCHANGED <<reqs, reqSeq>>
    BY <1>8, Zenon DEF TakeContext
  <2> QED  BY <1>u, <2>1, <2>9, Zenon
<1>9. ASSUME NEW c \in Responders, LockUser(c) \/ PostResponse(c) PROVE PairInv'
  <2>1. Pairs' \subseteq Pairs
    BY <1>0, <1>9, Zenon DEF LockUser, PostResponse, Idle, Pairs
  <2>9. UNCHANGED <<reqs, reqSeq>>
    BY <1>9, Zenon DEF LockUser, PostResponse
  <2> QED  BY <1>u, <2>1, <2>9, Zenon
<1> QED
  BY <1>1, <1>2, <1>3, <1>4, <1>5, <1>6, <1>7, <1>8, <1>9, RequestSteps, Zenon

\* A step passes the right to answer a request on, or uses it.
LEMMA TokenStep ==
    ASSUME Types, OwnerInv, TokenInv, [Next]_vars
    PROVE  TokenInv'
<1> USE DEF Goto, Carries, ctxVars, outVars
<1>0. /\ pc \in [Threads -> Labels] /\ DOMAIN job = Threads /\ DOMAIN about = Responders
      /\ reqs \in Seq(Users) /\ Len(reqs) \in Nat /\ Len(reqs) <= MaxReqs /\ MaxReqs \in Nat
      /\ Workers \subseteq Threads /\ Responders \subseteq Threads
      /\ DOMAIN answers = Reqs /\ 1..Len(reqs) \subseteq Reqs /\ Reqs \subseteq Nat
  BY RequestTypes DEF Reqs
<1>1. CASE Quiet
  BY <1>1, Zenon DEF Quiet, TokenInv, AnsweredOnce
<1>2. ASSUME NEW w \in Workers, OnRequest(w) PROVE TokenInv'
  <2>1. /\ Len(reqs') = Len(reqs) + 1 /\ \A i \in 1..Len(reqs) : reqs'[i] = reqs[i]
    BY <1>0, <1>2, NewRequest, Zenon
  <2>2. /\ job'[w].req = Len(reqs) + 1 /\ pc'[w] = "handle"
        /\ \A t \in Threads : t # w => job'[t] = job[t] /\ pc'[t] = pc[t]
    BY <1>0, <1>2, Zenon DEF OnRequest
  <2>3. /\ \A t \in Threads : Carries(t) => job[t].req # Len(reqs) + 1
        /\ \A ctx \in ctxs : ctx.req # Len(reqs) + 1
    BY <1>0 DEF OwnerInv
  <2>4. Len(reqs) + 1 \in Reqs /\ answers[Len(reqs) + 1] = <<>>
    BY <1>0, <1>2 DEF OnRequest, TokenInv, Reqs
  <2>5. \A n \in Reqs : n > Len(reqs)' => answers[n] = <<>>
    BY <1>0, <2>1, SMTT(60) DEF TokenInv
  <2>6. \A n \in Reqs : answers[n] = <<>> \/ answers[n] = <<[user |-> reqs'[n], about |-> n]>>
    <3>1. \A n \in Reqs : n \in 1..Len(reqs) \/ answers[n] = <<>>
      BY <1>0 DEF TokenInv, Reqs
    <3> QED  BY <2>1, <3>1, Zenon DEF TokenInv, AnsweredOnce
  <2>7. UNCHANGED <<answers, ctxs>>
    BY <1>2, Zenon DEF OnRequest
  <2>8. \A s, t \in Threads : s # t /\ Carries(s)' /\ Carries(t)' => job'[s].req # job'[t].req
    BY <2>2, <2>3 DEF TokenInv
  <2>9. \A t \in Threads : Carries(t)' =>
           answers[job'[t].req] = <<>> /\ \A ctx \in ctxs : job'[t].req # ctx.req
    BY <2>2, <2>3, <2>4 DEF TokenInv
  <2> QED  BY <2>5, <2>6, <2>7, <2>8, <2>9, Zenon DEF TokenInv, AnsweredOnce
\* A thread that has the right posts, or finds the queue full, and gives it up.
<1>p. ASSUME NEW t \in Threads, Carries(t), Post(job[t], job[t].req), ~Carries(t)',
             \A s \in Threads : s # t => job'[s] = job[s] /\ pc'[s] = pc[s],
             UNCHANGED <<ctxs, reqs>>
      PROVE  TokenInv'
  <2> DEFINE n == job[t].req
  <2>1. n \in 1..Len(reqs) /\ job[t].user = reqs[n] /\ n \in Reqs /\ answers[n] = <<>>
    BY <1>0, <1>p, Zenon DEF OwnerInv, TokenInv
  <2>2. /\ answers'[n] = <<>> \/ answers'[n] = <<[user |-> reqs[n], about |-> n]>>
        /\ \A k \in Reqs : k # n => answers'[k] = answers[k]
    <3>1. CASE UNCHANGED answers
      BY <2>1, <3>1, Zenon
    <3>2. CASE answers' = [answers EXCEPT ![n] = Append(@, [user |-> job[t].user, about |-> n])]
      <4>1. Append(<<>>, [user |-> job[t].user, about |-> n]) = <<[user |-> job[t].user, about |-> n]>>
        OBVIOUS
      <4> QED  BY <1>0, <2>1, <3>2, <4>1, Zenon
    <3> QED  BY <1>p, <3>1, <3>2, Zenon DEF Post
  <2>3. \A s \in Threads : Carries(s)' => s # t /\ job[s].req # n /\ job[s].req \in Reqs
                                          /\ job'[s].req = job[s].req /\ Carries(s)
    BY <1>0, <1>p, Zenon DEF TokenInv, OwnerInv
  <2>4. \A ctx \in ctxs : ctx.req # n /\ ctx.req \in Reqs
    BY <1>0, <1>p, Zenon DEF TokenInv, OwnerInv
  <2>5. \A k \in Reqs : k > Len(reqs) => answers'[k] = <<>>
    BY <1>0, <2>1, <2>2, SMTT(60) DEF TokenInv
  <2>6. \A k \in Reqs : answers'[k] = <<>> \/ answers'[k] = <<[user |-> reqs[k], about |-> k]>>
    BY <2>2, Zenon DEF TokenInv, AnsweredOnce
  <2>7. /\ \A s \in Threads : Carries(s)' => answers'[job'[s].req] = <<>>
        /\ \A ctx \in ctxs : answers'[ctx.req] = <<>>
    BY <2>2, <2>3, <2>4 DEF TokenInv
  <2>8. \A r, s \in Threads : r # s /\ Carries(r)' /\ Carries(s)' => job'[r].req # job'[s].req
    BY <2>3 DEF TokenInv
  <2>9. \A s \in Threads, ctx \in ctxs : Carries(s)' => job'[s].req # ctx.req
    BY <2>3 DEF TokenInv
  <2> QED  BY <1>p, <2>5, <2>6, <2>7, <2>8, <2>9, Zenon DEF TokenInv, AnsweredOnce
<1>3. ASSUME NEW w \in Workers, Answer(w) PROVE TokenInv'
  <2>1. /\ w \in Threads /\ Carries(w) /\ ~Carries(w)' /\ Post(job[w], job[w].req)
        /\ \A s \in Threads : s # w => job'[s] = job[s] /\ pc'[s] = pc[s]
    BY <1>0, <1>3, Zenon DEF Answer
  <2> QED  BY <1>3, <1>p, <2>1, Zenon DEF Answer
<1>4. ASSUME NEW w \in Workers, GenRequestId(w) PROVE TokenInv'
  <2>1. \A t \in Threads : job'[t].req = job[t].req /\ (Carries(t)' <=> Carries(t))
    BY <1>0, <1>4, Zenon DEF GenRequestId, Types
  <2> QED  BY <1>0, <1>4, <2>1 DEF GenRequestId, TokenInv, AnsweredOnce
<1>5. ASSUME NEW w \in Workers, SaveReqContext(w) PROVE TokenInv'
  <2>1. ctxs' \subseteq ctxs \cup {job[w]} /\ UNCHANGED <<job, answers, reqs>>
    BY <1>5, Zenon DEF SaveReqContext
  <2>2. Carries(w) /\ \A t \in Threads : Carries(t)' => t # w /\ Carries(t)
    BY <1>0, <1>5, Zenon DEF SaveReqContext
  <2> QED  BY <1>0, <2>1, <2>2, SMTT(60) DEF TokenInv, AnsweredOnce
<1>6. ASSUME NEW w \in Workers, CallBackend(w) \/ Return(w) PROVE TokenInv'
  <2>1. \A t \in Threads : Carries(t)' => Carries(t) /\ job'[t] = job[t]
    BY <1>0, <1>6, Zenon DEF CallBackend, Return
  <2> QED  BY <1>0, <1>6, <2>1, SMTT(60) DEF CallBackend, Return, TokenInv, AnsweredOnce
<1>7. ASSUME NEW c \in Responders, Reply(c) PROVE TokenInv'
  <2>1. \A t \in Threads : Carries(t)' => Carries(t) /\ job'[t] = job[t]
    BY <1>0, <1>7, Zenon DEF Reply
  <2> QED  BY <1>0, <1>7, <2>1 DEF Reply, TokenInv, AnsweredOnce
<1>8. ASSUME NEW c \in Responders, TakeContext(c) PROVE TokenInv'
  <2>1. CASE Idle(c) /\ UNCHANGED ctxs
    <3>1. \A t \in Threads : Carries(t)' => Carries(t) /\ job'[t] = job[t]
      BY <1>0, <2>1, Zenon DEF Idle
    <3> QED  BY <1>0, <1>8, <2>1, <3>1 DEF TakeContext, TokenInv, AnsweredOnce
  <2>2. ASSUME NEW ctx \in ctxs, job' = [job EXCEPT ![c] = ctx], ctxs' = ctxs \ {ctx},
               pc' = [pc EXCEPT ![c] = "lock"]
        PROVE  TokenInv'
    <3>1. /\ \A t \in Threads : t # c /\ Carries(t)' => Carries(t) /\ job'[t] = job[t]
          /\ job'[c] = ctx /\ UNCHANGED <<answers, reqs>>
      BY <1>0, <1>8, <2>2, Zenon DEF TakeContext
    <3>2. \A s, t \in Threads : s # t /\ Carries(s)' /\ Carries(t)' => job'[s].req # job'[t].req
      BY <3>1, SMTT(60) DEF TokenInv
    <3>3. \A t \in Threads, d \in ctxs' : Carries(t)' => job'[t].req # d.req
      BY <2>2, <3>1 DEF TokenInv
    <3> QED  BY <2>2, <3>1, <3>2, <3>3 DEF TokenInv, AnsweredOnce
  <2> QED  BY <1>8, <2>1, <2>2, Zenon DEF TakeContext, Remaining
<1>9. ASSUME NEW c \in Responders, LockUser(c) PROVE TokenInv'
  <2>1. \A t \in Threads : Carries(t)' => Carries(t) /\ job'[t] = job[t]
    BY <1>0, <1>9, Zenon DEF LockUser, Idle
  <2> QED  BY <1>0, <1>9, <2>1, SMTT(60) DEF LockUser, TokenInv, AnsweredOnce
<1>10. ASSUME NEW c \in Responders, PostResponse(c) PROVE TokenInv'
  <2>1. /\ c \in Threads /\ Carries(c) /\ ~Carries(c)' /\ about[c] = job[c].req
        /\ \A s \in Threads : s # c => job'[s] = job[s] /\ pc'[s] = pc[s]
    BY <1>0, <1>10, Zenon DEF PostResponse, Idle, OwnerInv
  <2> QED  BY <1>10, <1>p, <2>1, Zenon DEF PostResponse
<1> QED
  BY <1>1, <1>2, <1>3, <1>4, <1>5, <1>6, <1>7, <1>8, <1>9, <1>10, RequestSteps, Zenon

\* What a step of the life of the users never does: destroy a user that is
\* locked or that the monitor works on, take a lock from a thread that handles
\* a request, or bring a user back.
LEMMA Alive ==
    ASSUME Types, OwnerInv, PinInv, LifeStep
    PROVE  /\ \A t \in Threads : pin'[t] # NoUser => phase'[pin'[t]] \in {"open", "closed", "notified"}
           /\ \A u \in Users : phase[u] = "gone" => phase'[u] = "gone"
           /\ \A u \in Users : phase[u] = "notified" => phase'[u] \in {"notified", "gone"}
           /\ \A t \in Threads : pc[t] \in {"handle", "save"} => t \in serving' /\ pin'[t] = pin[t]
           /\ mon # NoUser /\ ~down /\ phase[mon] = "notified" => ~down' /\ phase'[mon] = "notified"
<1>0. /\ phase \in [Users -> {"none", "open", "closed", "notified", "gone"}]
      /\ pin \in [Threads -> Users \cup {NoUser}] /\ mon \in Users \cup {NoUser}
      /\ NoUser \notin Users
  BY UsersAssumption, Zenon DEF Types
<1>1. \A t \in Threads : pc[t] \in {"handle", "save"} => t \in serving /\ pin[t] \in Users
  <2> SUFFICES ASSUME NEW t \in Threads, pc[t] \in {"handle", "save"}
               PROVE  t \in serving /\ pin[t] \in Users
    BY Zenon
  <2>1. job[t].req \in 1..Len(reqs) /\ job[t].user = reqs[job[t].req]
    BY Zenon DEF OwnerInv, Carries
  <2>2. job[t].user \in Users
    BY <2>1, ElementOfSeq, Zenon DEF Types
  <2> QED  BY <2>2, Zenon DEF PinInv
<1>2. ASSUME NEW u \in Users, \/ Life!Connect(u) \/ Life!Close(u) \/ Life!Disconnect(u)
      PROVE  /\ UNCHANGED <<pin, serving, down>>
             /\ \A v \in Users : v # u => phase'[v] = phase[v]
             /\ phase[u] \notin {"notified", "gone"}
             /\ phase'[u] \in {"open", "closed", "notified"}
  BY <1>0, <1>2, Zenon DEF Life!Connect, Life!Close, Life!Disconnect, Life!Move
<1>3. ASSUME NEW u \in Users, Life!Destroy(u), mon # u
      PROVE  /\ UNCHANGED <<pin, serving, down>>
             /\ \A v \in Users : v # u => phase'[v] = phase[v]
             /\ phase'[u] = "gone" /\ \A t \in Threads : pin[t] # u
  BY <1>0, <1>3, Zenon DEF Life!Destroy, Life!Pinned, Life!Threads, Threads
<1>4. ASSUME NEW t \in Threads, Drop(t), pc[t] \notin {"handle", "save"}
      PROVE  /\ \A s \in Threads : s # t => pin'[s] = pin[s]
             /\ pin'[t] = NoUser /\ serving' = serving \ {t} /\ down' = down
             /\ \/ UNCHANGED phase
                \/ /\ mon # pin[t] /\ pin[t] \in Users /\ \A s \in Threads \ {t} : pin[s] # pin[t]
                   /\ phase' = [phase EXCEPT ![pin[t]] = "gone"]
  BY <1>0, <1>4, Zenon DEF Drop, Life!Unpin, Life!Threads, Threads
<1>5. ASSUME NEW t \in Threads, NEW u \in Users, Life!Pin(t, u)
      PROVE  /\ UNCHANGED <<phase, serving, down>> /\ pin[t] = NoUser
             /\ phase[u] \in {"open", "closed", "notified"}
             /\ \A s \in Threads : pin'[s] = IF s = t THEN u ELSE pin[s]
  BY <1>0, <1>5, Zenon DEF Life!Pin
<1>6. ASSUME NEW w \in Workers, Life!Serve(w)
      PROVE  UNCHANGED <<phase, pin, down>> /\ serving' = serving \cup {w}
  BY <1>6, Zenon DEF Life!Serve
<1>7. ASSUME Life!DestroyAll
      PROVE  /\ UNCHANGED <<pin, serving, down>> /\ down
             /\ \A u \in Users : \/ phase'[u] = phase[u]
                                 \/ /\ phase[u] # "none" /\ phase'[u] = "gone"
                                    /\ \A t \in Threads : pin[t] # u
  BY <1>0, <1>7, Zenon DEF Life!DestroyAll, Life!Pinned, Life!Threads, Threads
<1>8. CASE \E u \in Users : Life!Connect(u) \/ Life!Close(u) \/ Life!Disconnect(u)
  BY <1>0, <1>1, <1>2, <1>8 DEF PinInv
<1>9. CASE \E u \in Users : Life!Destroy(u) /\ mon # u
  BY <1>0, <1>1, <1>3, <1>9 DEF PinInv
<1>10. ASSUME NEW t \in Threads, Drop(t), pc[t] \notin {"handle", "save"}
       PROVE  /\ \A s \in Threads : pin'[s] # NoUser => phase'[pin'[s]] \in {"open", "closed", "notified"}
              /\ \A u \in Users : phase[u] = "gone" => phase'[u] = "gone"
              /\ \A u \in Users : phase[u] = "notified" => phase'[u] \in {"notified", "gone"}
              /\ \A s \in Threads : pc[s] \in {"handle", "save"} => s \in serving' /\ pin'[s] = pin[s]
              /\ mon # NoUser /\ ~down /\ phase[mon] = "notified" => ~down' /\ phase'[mon] = "notified"
  BY <1>0, <1>1, <1>4, <1>10 DEF PinInv
<1>11. CASE \E t \in Threads, u \in Users : Life!Pin(t, u)
  BY <1>0, <1>1, <1>5, <1>11 DEF PinInv
<1>12. CASE \E w \in Workers : Life!Serve(w)
  BY <1>0, <1>1, <1>6, <1>12, Zenon DEF PinInv
<1>13. CASE Life!Down /\ mon = NoUser
  BY <1>0, <1>1, <1>13, Zenon DEF Life!Down, PinInv
<1>14. CASE Life!DestroyAll
  BY <1>0, <1>1, <1>7, <1>14 DEF PinInv
<1>15. CASE UNCHANGED lifeVars
  BY <1>0, <1>1, <1>15, Zenon DEF lifeVars, PinInv
<1> QED
  BY <1>8, <1>9, <1>10, <1>11, <1>12, <1>13, <1>14, <1>15, Zenon DEF LifeStep

\* A thread begins to handle a request only in OnRequest(), and a context
\* comes only from a thread that saves it.
LEMMA Handling ==
    ASSUME Types, [Next]_vars
    PROVE  /\ \A t \in Threads : pc'[t] \in {"handle", "save"} =>
                \/ pc[t] \in {"handle", "save"} /\ job'[t].user = job[t].user
                \/ t \in Workers /\ OnRequest(t) /\ job'[t].user = pin[t]
           /\ \A ctx \in ctxs' : ctx \in ctxs \/ \E w \in Workers : pc[w] = "save" /\ ctx = job[w]
<1> USE DEF Goto, ctxVars, outVars
<1> DEFINE Claim == /\ \A t \in Threads : pc'[t] \in {"handle", "save"} =>
                         \/ pc[t] \in {"handle", "save"} /\ job'[t].user = job[t].user
                         \/ t \in Workers /\ OnRequest(t) /\ job'[t].user = pin[t]
                    /\ \A ctx \in ctxs' : ctx \in ctxs \/ \E w \in Workers : pc[w] = "save" /\ ctx = job[w]
<1>0. /\ pc \in [Threads -> Labels] /\ DOMAIN job = Threads
      /\ Workers \subseteq Threads /\ Responders \subseteq Threads
  BY RequestTypes, Zenon
<1>1. ASSUME Quiet PROVE Claim
  BY <1>1, Zenon DEF Quiet
<1>2. ASSUME NEW w \in Workers, OnRequest(w) PROVE Claim
  <2>1. /\ job'[w].user = pin[w] /\ UNCHANGED ctxs
        /\ \A t \in Threads : t # w => job'[t] = job[t] /\ pc'[t] = pc[t]
    BY <1>0, <1>2, Zenon DEF OnRequest
  <2> QED  BY <1>2, <2>1, Zenon
<1>3. ASSUME NEW w \in Workers, Answer(w) \/ CallBackend(w) \/ Return(w) PROVE Claim
  BY <1>0, <1>3, Zenon DEF Answer, CallBackend, Return
<1>4. ASSUME NEW w \in Workers, GenRequestId(w) PROVE Claim
  <2>1. /\ \A t \in Threads : job'[t].user = job[t].user
        /\ \A t \in Threads : t # w => pc'[t] = pc[t]
        /\ pc[w] = "handle" /\ UNCHANGED ctxs
    BY <1>0, <1>4, Zenon DEF GenRequestId, Types
  <2> QED  BY <2>1, Zenon
<1>5. ASSUME NEW w \in Workers, SaveReqContext(w) PROVE Claim
  BY <1>0, <1>5, Zenon DEF SaveReqContext
<1>6. ASSUME NEW c \in Responders, Reply(c) \/ TakeContext(c) PROVE Claim
  BY <1>0, <1>6, Zenon DEF Reply, TakeContext, Remaining, Idle
<1>7. ASSUME NEW c \in Responders, LockUser(c) \/ PostResponse(c) PROVE Claim
  BY <1>0, <1>7, Zenon DEF LockUser, PostResponse, Idle
<1>8. Claim
  <2> HIDE DEF Claim
  <2> QED  BY <1>1, <1>2, <1>3, <1>4, <1>5, <1>6, <1>7, RequestSteps, Zenon
<1> QED  BY <1>8, Zenon

\* A step preserves that locked users exist and handlers have locked theirs.
LEMMA PinStep ==
    ASSUME Types, OwnerInv, PinInv, [Next]_vars
    PROVE  PinInv'
<1>1. LifeStep
  BY LifeSteps, Zenon
<1>2. ASSUME NEW t \in Threads, pc'[t] \in {"handle", "save"}
      PROVE  t \in serving' /\ pin'[t] = job'[t].user
  <2>1. CASE pc[t] \in {"handle", "save"} /\ job'[t].user = job[t].user
    BY <1>1, <2>1, Alive, Zenon DEF PinInv
  <2>2. CASE OnRequest(t) /\ job'[t].user = pin[t]
    BY <2>2, Zenon DEF OnRequest, Life!Serve
  <2> QED  BY <1>2, <2>1, <2>2, Handling, Zenon
<1> QED  BY <1>1, <1>2, Alive, Zenon DEF PinInv

\* The shard of an id is one of the shards.
LEMMA ShardRange ==
    ASSUME NEW i \in Nat
    PROVE  ShardIdx(i) \in 0..NumShards - 1
BY BoundsAssumption DEF ShardIdx

\* A step preserves the progress of the cleanup.
LEMMA SweepStep ==
    ASSUME Types, OwnerInv, PinInv, SweepInv, [Next]_vars
    PROVE  SweepInv'
<1> USE DEF SweptStaysClean
<1>0. /\ \A t \in Threads : pin'[t] # NoUser => phase'[pin'[t]] \in {"open", "closed", "notified"}
      /\ \A u \in Users : phase[u] = "gone" => phase'[u] = "gone"
      /\ \A u \in Users : phase[u] = "notified" => phase'[u] \in {"notified", "gone"}
      /\ mon # NoUser /\ ~down /\ phase[mon] = "notified" => ~down' /\ phase'[mon] = "notified"
  BY LifeSteps, Alive, Zenon
<1>1. /\ Workers \subseteq Threads /\ swept \subseteq Users /\ sweeping \subseteq Users
      /\ mon \in Users \cup {NoUser} /\ shard \in 0..NumShards - 1 /\ NumShards \in Nat \ {0}
      /\ \A ctx \in ctxs : ctx.id \in Nat /\ ctx.user \in Users
      /\ phase \in [Users -> {"none", "open", "closed", "notified", "gone"}]
      /\ NoUser \notin Users
  BY BoundsAssumption, UsersAssumption, Zenon DEF Types, Threads
<1>2. CASE UNCHANGED monVars
  <2>0. UNCHANGED <<mon, shard, swept, sweeping>>
    BY <1>2, Zenon DEF monVars
  <2>1. ASSUME NEW u \in swept \cup sweeping
        PROVE  /\ phase'[u] \in {"notified", "gone"}
               /\ \A t \in Threads : pc'[t] \in {"handle", "save"} => job'[t].user # u
    <3>1. u \in Users /\ phase[u] \in {"notified", "gone"}
      BY <1>1, Zenon DEF SweepInv
    <3>2. ASSUME NEW t \in Threads, pc'[t] \in {"handle", "save"} PROVE job'[t].user # u
      <4>1. CASE pc[t] \in {"handle", "save"} /\ job'[t].user = job[t].user
        BY <4>1, Zenon DEF SweepInv
      <4>2. CASE OnRequest(t) /\ job'[t].user = pin[t]
        BY <3>1, <4>2, Zenon DEF OnRequest, Life!Serve
      <4> QED  BY <3>2, <4>1, <4>2, Handling, Zenon
    <3> QED  BY <1>0, <3>1, <3>2, Zenon
  <2>2. ASSUME NEW ctx \in ctxs'
        PROVE  ctx.user \notin swept /\ (ctx.user \in sweeping => ShardIdx(ctx.id) >= shard)
    <3>1. CASE ctx \in ctxs
      BY <3>1, Zenon DEF SweepInv
    <3>2. ASSUME NEW w \in Workers, pc[w] = "save", ctx = job[w]
          PROVE  ctx.user \notin swept \cup sweeping
      BY <1>1, <3>2, Zenon DEF SweepInv
    <3> QED  BY <3>1, <3>2, Handling, Zenon
  <2> QED  BY <1>0, <1>1, <2>0, <2>1, <2>2, Zenon DEF SweepInv
<1>3. ASSUME NEW u \in Users, OnDisconnect(u) PROVE SweepInv'
  <2>1. /\ phase[u] = "closed" /\ phase' = [phase EXCEPT ![u] = "notified"]
        /\ UNCHANGED <<pin, serving, down, pc, job, ctxs, swept>> /\ ~down
        /\ mon' = u /\ shard' = 0 /\ mon = NoUser
    BY <1>3, Zenon DEF OnDisconnect, Life!Disconnect, Life!Move, ctxVars
  <2>2. \A v \in sweeping' :
          \/ v \in Users /\ phase[v] = "gone"
          \/ v = u /\ \A w \in serving : pin[w] # u
    BY <1>3, Zenon DEF OnDisconnect
  <2>3. ASSUME NEW v \in sweeping'
        PROVE  /\ phase'[v] \in {"notified", "gone"} /\ (v = u \/ phase'[v] = "gone")
               /\ \A t \in Threads : pc[t] \in {"handle", "save"} => job[t].user # v
    <3>1. ASSUME NEW t \in Threads, pc[t] \in {"handle", "save"} PROVE job[t].user # v
      <4>1. t \in serving /\ pin[t] = job[t].user
        BY <3>1, Zenon DEF PinInv
      <4>2. pin[t] # NoUser => phase[pin[t]] # "gone"
        BY Zenon DEF PinInv
      <4> QED  BY <1>1, <2>2, <2>3, <4>1, <4>2, Zenon
    <3> QED  BY <1>1, <2>1, <2>2, <2>3, <3>1, Zenon
  <2>4. \A v \in swept :
          /\ phase'[v] \in {"notified", "gone"}
          /\ \A t \in Threads : pc[t] \in {"handle", "save"} => job[t].user # v
    BY <1>1, <2>1, Zenon DEF SweepInv
  <2>5. \A ctx \in ctxs : ShardIdx(ctx.id) >= 0 /\ ctx.user \notin swept
    BY <1>1, ShardRange DEF SweepInv
  <2> QED  BY <1>1, <2>1, <2>3, <2>4, <2>5, Zenon DEF SweepInv
<1>4. CASE CleanupShard
  <2>1. /\ UNCHANGED <<phase, down, pc, job>> /\ mon # NoUser
        /\ ctxs' = {ctx \in ctxs : ~(ShardIdx(ctx.id) = shard /\ Stale(ctx))}
    BY <1>4, Zenon DEF CleanupShard, lifeVars
  <2>2. \A ctx \in ctxs' : ctx \in ctxs /\ (ctx.user \in sweeping => ShardIdx(ctx.id) >= shard + 1)
    <3>1. \A ctx \in ctxs : ctx.user \in sweeping => Stale(ctx)
      BY Zenon DEF SweepInv, Stale
    <3>2. \A ctx \in ctxs : ShardIdx(ctx.id) \in 0..NumShards - 1
      BY <1>1, ShardRange, Zenon
    <3> QED  BY <1>1, <2>1, <3>1, <3>2 DEF SweepInv
  <2>3. CASE shard < LastShard
    <3>1. shard' = shard + 1 /\ UNCHANGED <<mon, swept, sweeping>>
      BY <1>4, <2>3, Zenon DEF CleanupShard
    <3> QED  BY <1>1, <2>1, <2>2, <3>1, Zenon DEF SweepInv
  <2>4. CASE ~(shard < LastShard)
    <3>1. shard' = 0 /\ mon' = NoUser /\ swept' = swept \cup sweeping /\ sweeping' = {}
      BY <1>4, <2>4, Zenon DEF CleanupShard
    <3>2. \A ctx \in ctxs' : ctx.user \notin sweeping
      <4>1. shard = NumShards - 1
        BY <1>1, <2>4 DEF LastShard
      <4>2. \A ctx \in ctxs : ShardIdx(ctx.id) \in 0..NumShards - 1
        BY <1>1, ShardRange, Zenon
      <4> QED  BY <1>1, <2>2, <4>1, <4>2
    <3> QED  BY <1>1, <2>1, <2>2, <3>1, <3>2, Zenon DEF SweepInv
  <2> QED  BY <2>3, <2>4, Zenon
<1>5. UNCHANGED monVars \/ CleanupShard \/ \E u \in Users : OnDisconnect(u)
  BY Zenon DEF Next, UserStep, GoDown, CloseServer, WorkerStep, ResponderStep, OnRequest, Lock,
     Skip, Answer, GenRequestId, SaveReqContext, CallBackend, Return, Reply, TakeContext,
     LockUser, PostResponse, vars
<1> QED  BY <1>2, <1>3, <1>4, <1>5, Zenon
-----------------------------------------------------------------------------
\* The initial states satisfy the invariant.
LEMMA InitInv == Init => Inv
<1> SUFFICES ASSUME Init PROVE Inv
  BY Zenon
<1> USE BoundsAssumption DEF Init, Life!Init, Life!Threads, Threads, Reqs
<1>1. Types
  <2>1. NoCtx \in [id: Nat, user: Users \cup {NoUser}, req: 0..MaxReqs]
    BY DEF NoCtx
  <2>2. shard \in 0..NumShards - 1 /\ about \in [Responders -> 0..MaxReqs]
    OBVIOUS
  <2>3. answers \in [Reqs -> Seq(PostedAnswer)] /\ reqs \in Seq(Users) /\ Len(reqs) <= MaxReqs
    BY EmptySeq
  <2> QED  BY <2>1, <2>2, <2>3, Zenon DEF Types, Labels
<1>2. OwnerInv /\ PinInv
  BY Zenon DEF OwnerInv, PinInv, Carries
<1>3. PairInv
  <2>1. Pairs = {}
    BY Zenon DEF Pairs
  <2> QED  BY <2>1, Zenon DEF PairInv
<1>4. TokenInv
  BY Zenon DEF TokenInv, Carries, AnsweredOnce
<1>5. SweepInv
  BY Zenon DEF SweepInv, SweptStaysClean
<1> QED  BY <1>1, <1>2, <1>3, <1>4, <1>5, Zenon DEF Inv

\* The invariant is inductive.
LEMMA NextInv == Inv /\ [Next]_vars => Inv'
BY TypesStep, OwnerStep, PairStep, TokenStep, PinStep, SweepStep, Zenon DEF Inv

\* The invariant holds in every behaviour of the server.
LEMMA Invariance == Spec => []Inv
BY InitInv, NextInv, PTL DEF Spec

\* However often and however late the backends answer, and whatever threads
\* call response() at the same time, a request is answered at most once, to
\* the user that sent it and with its own result.
THEOREM ResponsesAreOwn == Spec => []AnsweredOnce
<1>1. Inv => AnsweredOnce
  BY Zenon DEF Inv, TokenInv
<1> QED  BY <1>1, Invariance, PTL

\* After cleanupUserContext() no context of a user that it has swept is in the
\* map, and none comes back, for any number of shards.
THEOREM CleanupIsFinal == Spec => []SweptStaysClean
<1>1. Inv => SweptStaysClean
  BY Zenon DEF Inv, SweepInv
<1> QED  BY <1>1, Invariance, PTL
=============================================================================
