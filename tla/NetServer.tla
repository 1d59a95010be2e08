------------------------------ MODULE NetServer ------------------------------
(***************************************************************************)
(* NetServer and NetUser of src/lygc/net_server.hpp: requests that are      *)
(* answered at once, and requests whose context is saved in a sharded map   *)
(* until a backend's answer comes back and response() posts it.  The        *)
(* connections live as UserLifecycle says: this module adds to each of its  *)
(* steps what the NetServer does in it.                                     *)
(*                                                                         *)
(* Workers run onRequest().  The monitor runs onDisconnect(), that is       *)
(* cleanupUserContext(), one shard after the other.  Responders are the     *)
(* threads that call response() when a backend has answered; a backend may  *)
(* answer late, twice or never.                                             *)
(***************************************************************************)
EXTENDS Naturals, Sequences, FiniteSets

CONSTANTS
    Users,       \* NetUser objects
    Workers,     \* worker threads of the server
    Responders,  \* threads that call response()
    NoUser,      \* a null pointer
    NumShards,   \* REQ_SHARD_COUNT
    MaxReqs,     \* bound: requests handled in a behaviour
    MaxReplies   \* bound: answers of the backend to one call

ASSUME BoundsAssumption == NumShards \in Nat \ {0} /\ MaxReqs \in Nat /\ MaxReplies \in Nat
ASSUME UsersAssumption == NoUser \notin Users

Reqs == 1..MaxReqs   \* the requests, numbered as they are handled
Ids == 1..MaxReqs    \* request ids
NoCtx == [id |-> 0, user |-> NoUser, req |-> 0]

VARIABLES
    phase, pin, serving, down,  \* UserLifecycle
    pc,       \* pc[t]: the step of thread t
    job,      \* job[t]: the context a worker builds or a responder has taken
    about,    \* about[c]: the request whose result responder c carries
    reqSeq,   \* _reqIdCreator
    ctxs,     \* _reqShards: the saved contexts
    mon,      \* the user whose onDisconnect() the monitor runs, or NoUser
    shard,    \* the next shard it visits
    reqs,     \* reqs[n]: the user that sent request n
    calls,    \* requests forwarded to the backend: [id, req]
    replies,  \* replies[n]: answers of the backend to request n
    answers,  \* answers[n]: what was posted for request n: [user, about]
    swept,    \* users that can have no context any more
    sweeping  \* users that will be swept when the cleanup is complete

lifeVars == <<phase, pin, serving, down>>
ctxVars  == <<reqSeq, ctxs>>
monVars  == <<mon, shard, swept, sweeping>>
outVars  == <<reqs, calls, replies, answers>>
vars == <<lifeVars, pc, job, about, ctxVars, monVars, outVars>>

Life == INSTANCE UserLifecycle WITH Others <- Responders

Init ==
    /\ Life!Init
    /\ pc = [t \in Workers \cup Responders |-> "idle"]
    /\ job = [t \in Workers \cup Responders |-> NoCtx]
    /\ about = [c \in Responders |-> 0]
    /\ reqSeq = 0 /\ ctxs = {}
    /\ mon = NoUser /\ shard = 0 /\ swept = {} /\ sweeping = {}
    /\ reqs = <<>> /\ calls = {}
    /\ replies = [n \in Reqs |-> 0] /\ answers = [n \in Reqs |-> <<>>]

Goto(t, label) == pc' = [pc EXCEPT ![t] = label]

\* A thread drops its reference, which is the last one only if the monitor is
\* not running onDisconnect() of this user.
Drop(t) == Life!Unpin(t) /\ (mon = pin[t] => UNCHANGED phase)

-----------------------------------------------------------------------------
(* Connections.                                                            *)

UserStep ==
    /\ \E u \in Users : Life!Connect(u) \/ Life!Close(u) \/ (Life!Destroy(u) /\ mon # u)
    /\ UNCHANGED <<pc, job, about, ctxVars, monVars, outVars>>

\* serveUtilStop() joins the monitor and the workers; close() drops the users.
GoDown ==
    /\ Life!Down /\ mon = NoUser
    /\ UNCHANGED <<pc, job, about, ctxVars, monVars, outVars>>

CloseServer ==
    /\ Life!DestroyAll
    /\ UNCHANGED <<pc, job, about, ctxVars, monVars, outVars>>

-----------------------------------------------------------------------------
(* NetUser::onRequest(), run by a worker that has locked the user.         *)

Lock(w, u) ==
    /\ pc[w] = "idle" /\ ~down
    /\ Life!Pin(w, u)
    /\ UNCHANGED <<pc, job, about, ctxVars, monVars, outVars>>

\* The user is closed, or the message is a heartbeat or not for a handler.
Skip(w) ==
    /\ pc[w] = "idle"
    /\ Drop(w)
    /\ UNCHANGED <<pc, job, about, ctxVars, monVars, outVars>>

OnRequest(w) ==
    /\ pc[w] = "idle" /\ Len(reqs) < MaxReqs
    /\ Life!Serve(w)
    /\ reqs' = Append(reqs, pin[w])
    /\ job' = [job EXCEPT ![w] = [id |-> 0, user |-> pin[w], req |-> Len(reqs) + 1]]
    /\ Goto(w, "handle")
    /\ UNCHANGED <<about, ctxVars, monVars, calls, replies, answers>>

\* post(): the message is queued for the user, or its queue is full.
Post(ctx, what) ==
    \/ answers' = [answers EXCEPT ![ctx.req] = Append(@, [user |-> ctx.user, about |-> what])]
    \/ UNCHANGED answers

\* SYNC_RESPONSE, or NO_RESPONSE, which posts an empty answer.
Answer(w) ==
    /\ pc[w] = "handle"
    /\ Post(job[w], job[w].req)
    /\ Goto(w, "done")
    /\ UNCHANGED <<lifeVars, job, about, ctxVars, monVars, reqs, calls, replies>>

\* A counter that hands out the numbers of finished requests again.
NextId_Reused == CHOOSE i \in Ids : \A c \in ctxs : c.id # i

\* genRequestId(): an atomic increment.
NextId == reqSeq + 1

GenRequestId(w) ==
    /\ pc[w] = "handle"
    /\ reqSeq' = NextId
    /\ job' = [job EXCEPT ![w].id = NextId]
    /\ Goto(w, "save")
    /\ UNCHANGED <<lifeVars, about, ctxs, monVars, outVars>>

\* saveReqContext(): insert() keeps an entry that exists.
SaveReqContext(w) ==
    /\ pc[w] = "save"
    /\ ctxs' = IF \E c \in ctxs : c.id = job[w].id THEN ctxs ELSE ctxs \cup {job[w]}
    /\ Goto(w, "call")
    /\ UNCHANGED <<lifeVars, job, about, reqSeq, monVars, outVars>>

\* The handler forwards the request under the new id.
CallBackend(w) ==
    /\ pc[w] = "call"
    /\ calls' = calls \cup {[id |-> job[w].id, req |-> job[w].req]}
    /\ Goto(w, "done")
    /\ UNCHANGED <<lifeVars, job, about, ctxVars, monVars, reqs, replies, answers>>

Return(w) ==
    /\ pc[w] = "done"
    /\ Drop(w)
    /\ Goto(w, "idle")
    /\ job' = [job EXCEPT ![w] = NoCtx]
    /\ UNCHANGED <<about, ctxVars, monVars, outVars>>

-----------------------------------------------------------------------------
(* response(reqId, respData).                                              *)

\* The backend's answer to a call arrives.
Reply(c) ==
    /\ pc[c] = "idle"
    /\ \E call \in calls :
          /\ replies[call.req] < MaxReplies
          /\ replies' = [replies EXCEPT ![call.req] = @ + 1]
          /\ job' = [job EXCEPT ![c] = [NoCtx EXCEPT !.id = call.id]]
          /\ about' = [about EXCEPT ![c] = call.req]
    /\ Goto(c, "take")
    /\ UNCHANGED <<lifeVars, ctxVars, monVars, reqs, calls, answers>>

Idle(c) ==
    /\ Goto(c, "idle")
    /\ job' = [job EXCEPT ![c] = NoCtx]
    /\ about' = [about EXCEPT ![c] = 0]

Remaining_Kept(ctx) == ctxs

\* erase() of the context that was found.
Remaining(ctx) == ctxs \ {ctx}

\* Move the context out of its shard, or "ctx not found".
TakeContext(c) ==
    /\ pc[c] = "take"
    /\ \/ \E ctx \in ctxs :
             /\ ctx.id = job[c].id
             /\ job' = [job EXCEPT ![c] = ctx]
             /\ ctxs' = Remaining(ctx)
             /\ Goto(c, "lock") /\ UNCHANGED about
       \/ /\ \A ctx \in ctxs : ctx.id # job[c].id
          /\ Idle(c) /\ UNCHANGED ctxs
    /\ UNCHANGED <<lifeVars, reqSeq, monVars, outVars>>

\* userWeak.lock(), or "user gone".
LockUser(c) ==
    /\ pc[c] = "lock"
    /\ \/ Life!Pin(c, job[c].user) /\ Goto(c, "post") /\ UNCHANGED <<job, about>>
       \/ phase[job[c].user] = "gone" /\ Idle(c) /\ UNCHANGED lifeVars
    /\ UNCHANGED <<ctxVars, monVars, outVars>>

PostResponse(c) ==
    /\ pc[c] = "post"
    /\ Post(job[c], about[c])
    /\ Drop(c)
    /\ Idle(c)
    /\ UNCHANGED <<ctxVars, monVars, reqs, calls, replies>>

-----------------------------------------------------------------------------
(* onDisconnect(): cleanupUserContext(user).                               *)

OnDisconnect(u) ==
    /\ mon = NoUser /\ ~down
    /\ Life!Disconnect(u)
    /\ mon' = u /\ shard' = 0
    /\ sweeping' = {v \in Users : phase[v] = "gone"}
                   \cup (IF \E w \in serving : pin[w] = u THEN {} ELSE {u})
    /\ UNCHANGED <<pc, job, about, ctxVars, swept, outVars>>

ShardIdx(id) == id % NumShards

Stale_OwnOnly(ctx) == ctx.user = mon

\* The user of the context is gone, or is the one that disconnects.
Stale(ctx) == phase[ctx.user] = "gone" \/ ctx.user = mon

LastShard == NumShards - 1

CleanupShard ==
    /\ mon # NoUser
    /\ ctxs' = {ctx \in ctxs : ~(ShardIdx(ctx.id) = shard /\ Stale(ctx))}
    /\ IF shard < LastShard
         THEN shard' = shard + 1 /\ UNCHANGED <<mon, swept, sweeping>>
         ELSE /\ shard' = 0 /\ mon' = NoUser
              /\ swept' = swept \cup sweeping /\ sweeping' = {}
    /\ UNCHANGED <<lifeVars, pc, job, about, reqSeq, outVars>>

-----------------------------------------------------------------------------
WorkerStep(w) ==
    Skip(w) \/ Answer(w) \/ GenRequestId(w) \/ SaveReqContext(w) \/ CallBackend(w) \/ Return(w)
ResponderStep(c) == TakeContext(c) \/ LockUser(c) \/ PostResponse(c)

Next ==
    \/ UserStep \/ GoDown \/ CloseServer
    \/ \E w \in Workers : WorkerStep(w) \/ OnRequest(w) \/ \E u \in Users : Lock(w, u)
    \/ \E c \in Responders : ResponderStep(c) \/ Reply(c)
    \/ CleanupShard \/ \E u \in Users : OnDisconnect(u)

Spec == Init /\ [][Next]_vars

\* Threads finish what they have begun; backends and peers need do nothing.
Fairness ==
    /\ \A w \in Workers : WF_vars(WorkerStep(w))
    /\ \A c \in Responders : WF_vars(ResponderStep(c))
    /\ WF_vars(CleanupShard)

FairSpec == Spec /\ Fairness

-----------------------------------------------------------------------------
(* Properties.                                                             *)

\* A request is answered at most once, even if the backend answers twice and
\* two threads call response() with the same id at the same time; and what is
\* posted for it goes to the user that sent it and is the result of that request:
\* a late answer to a request that was cleaned up is never taken for the answer
\* to a newer one.
AnsweredOnce ==
    \A n \in Reqs : answers[n] = <<>> \/ answers[n] = <<[user |-> reqs[n], about |-> n]>>

\* What cleanupUserContext() achieves: after the cleanup no context is left of
\* a user that was already gone when it began, nor of the disconnected user
\* itself if none of its requests was being handled at that moment.
SweptStaysClean == \A ctx \in ctxs : ctx.user \notin swept

\* A context does not stay in the map once the backend has answered its request.
ReplyResolves ==
    \A n \in Reqs : replies[n] > 0 ~> \A ctx \in ctxs : ctx.req # n
=============================================================================
