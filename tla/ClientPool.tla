----------------------------- MODULE ClientPool -----------------------------
(***************************************************************************)
(* The synchronous clients of src/zbf/socket_tcp_v5.hpp: tcpsock_client     *)
(* (request and answer on one blocking socket), tcpsock_cltpool (clients    *)
(* shared by threads) and tcpsock_ha_cltpool (round robin over the pools    *)
(* that are not marked invalid).  Each sender makes one call of             *)
(* tcpsock_ha_cltpool::send() with an ack; one more thread calls keepAlive(). *)
(***************************************************************************)
EXTENDS Naturals, Sequences, SequencesExt, FiniteSets

CONSTANTS
    Senders,     \* threads that call send()
    NumPools,    \* pools of the HA pool, one per server
    CltPoolSize, \* _poolSize of each pool
    ClientIds,   \* tcpsock_client objects that can exist at a time
    MaxRounds    \* bound: rounds of keepAlive()

Pools == 1..NumPools

ASSUME PoolsAssumption == NumPools \in Nat \ {0} /\ CltPoolSize \in Nat \ {0}
ASSUME IdsAssumption == "none" \notin ClientIds

VARIABLES
    clients,    \* [Pools]: _clients, as a set
    idleList,   \* [Pools]: _idleList
    invalid,    \* [Pools]: _poolInvalid
    cursor,     \* _poolCursor
    conn,       \* [ClientIds]: _fd is a socket
    at,         \* [Senders]: pc, pool, clt and rc of the call
    alive,      \* keepAlive(): pc, pool and the list of clients taken out
    rounds,
    link,       \* external, [ClientIds]: requests and answers on the connection
    executed,   \* external, [Senders]: times the server has executed the request
    ack         \* [Senders]: the request the returned answer belongs to

cltPoolVars == <<clients, idleList, invalid, cursor, conn, at, alive, rounds, link, executed, ack>>
poolVars == <<clients, idleList, invalid, cursor>>
aliveVars == <<alive, rounds>>

NoLink == [req |-> <<>>, ans |-> <<>>, silent |-> FALSE]
Owned == UNION {clients[p] : p \in Pools}
SenderGoto(t, label) == at' = [at EXCEPT ![t].pc = label]
Finish(t, rc) == at' = [at EXCEPT ![t].pc = "done", ![t].rc = rc, ![t].clt = "none"]

\* open() has created one client per pool, connected or not.
CltInit ==
    LET first == CHOOSE f \in [Pools -> ClientIds] : \A p, q \in Pools : p # q => f[p] # f[q]
    IN \E ok \in [Pools -> BOOLEAN] :
        /\ clients = [p \in Pools |-> {first[p]}] /\ idleList = [p \in Pools |-> <<first[p]>>]
        /\ invalid = [p \in Pools |-> ~ok[p]]
        /\ conn = [c \in ClientIds |-> \E p \in Pools : c = first[p] /\ ok[p]]
        /\ cursor = 0
        /\ at = [t \in Senders |-> [pc |-> "idle", pool |-> 1, clt |-> "none", rc |-> "none"]]
        /\ alive = [pc |-> "idle", pool |-> 1, list |-> <<>>] /\ rounds = 0
        /\ link = [c \in ClientIds |-> NoLink]
        /\ executed = [t \in Senders |-> 0] /\ ack = [t \in Senders |-> "none"]
-----------------------------------------------------------------------------
(* tcpsock_ha_cltpool::getPool() and tcpsock_cltpool::popIdleClient()       *)

GetPool(t) ==
    /\ at[t].pc = "idle"
    /\ LET nth(k) == ((cursor + k) % NumPools) + 1
           ks == {k \in 0..NumPools - 1 : ~invalid[nth(k)]}
           first == CHOOSE k \in ks : \A j \in ks : k <= j
       IN IF ks = {} THEN Finish(t, "POOL_INVALID") /\ cursor' = nth(NumPools - 1)
          ELSE at' = [at EXCEPT ![t].pc = "reserve", ![t].pool = nth(first)]
               /\ cursor' = nth(first)
    /\ UNCHANGED <<clients, idleList, invalid, conn, aliveVars, link, executed, ack>>

Room_OneMore(p) == Cardinality(clients[p]) <= CltPoolSize
Room(p) == Cardinality(clients[p]) < CltPoolSize

\* A placeholder, some object not in use, is entered under the lock; it connects
\* without it.
Reserve(t) ==
    LET p == at[t].pool IN
    /\ at[t].pc = "reserve"
    /\ IF Room(p) /\ idleList[p] = <<>>
         THEN LET c == CHOOSE i \in ClientIds \ Owned : TRUE
              IN /\ clients' = [clients EXCEPT ![p] = @ \cup {c}]
                 /\ at' = [at EXCEPT ![t].pc = "connect", ![t].clt = c]
         ELSE SenderGoto(t, "take") /\ UNCHANGED clients
    /\ UNCHANGED <<idleList, invalid, cursor, conn, aliveVars, link, executed, ack>>

Connect(t) ==
    /\ at[t].pc = "connect"
    /\ \E ok \in BOOLEAN :
         /\ conn' = [conn EXCEPT ![at[t].clt] = ok]
         /\ invalid' = [invalid EXCEPT ![at[t].pool] = ~ok]
    /\ SenderGoto(t, "enter")
    /\ UNCHANGED <<clients, idleList, cursor, aliveVars, link, executed, ack>>

\* The connected client joins the idle list, where any thread may take it; a
\* client that failed to connect is erased and deleted.
Enter(t) ==
    LET p == at[t].pool c == at[t].clt IN
    /\ at[t].pc = "enter"
    /\ IF conn[c]
         THEN idleList' = [idleList EXCEPT ![p] = Append(@, c)] /\ UNCHANGED clients
         ELSE clients' = [clients EXCEPT ![p] = @ \ {c}] /\ UNCHANGED idleList
    /\ at' = [at EXCEPT ![t].pc = "take", ![t].clt = "none"]
    /\ UNCHANGED <<invalid, cursor, conn, aliveVars, link, executed, ack>>

PopFront(p) == [idleList EXCEPT ![p] = Tail(@)]

\* Take the first idle client, at once or after wait_for(): its predicate is
\* tested when the waiter is notified and once more when the time is over.
Take(t) ==
    LET p == at[t].pool IN
    /\ at[t].pc \in {"take", "wait"} /\ idleList[p] # <<>>
    /\ at' = [at EXCEPT ![t].pc = "send", ![t].clt = Head(idleList[p])]
    /\ idleList' = PopFront(p)
    /\ UNCHANGED <<clients, invalid, cursor, conn, aliveVars, link, executed, ack>>

Wait(t) ==
    /\ at[t].pc = "take" /\ idleList[at[t].pool] = <<>>
    /\ SenderGoto(t, "wait")
    /\ UNCHANGED <<poolVars, conn, aliveVars, link, executed, ack>>

WaitOver_Never(t) == FALSE /\ UNCHANGED cltPoolVars
WaitOver(t) ==
    /\ at[t].pc = "wait" /\ idleList[at[t].pool] = <<>>
    /\ Finish(t, "SEND_TIMEOUT")
    /\ UNCHANGED <<poolVars, conn, aliveVars, link, executed, ack>>
-----------------------------------------------------------------------------
(* tcpsock_client::send() and innerSend()                                   *)

Disconnect(c) == link' = [link EXCEPT ![c] = NoLink]

\* send_with_retry() hands the whole request to the kernel.
SendAll(t) ==
    LET c == at[t].clt IN
    /\ at[t].pc \in {"send", "resend"} /\ conn[c]
    /\ link' = [link EXCEPT ![c].req = Append(@, t)]
    /\ SenderGoto(t, "recv")
    /\ UNCHANGED <<poolVars, conn, aliveVars, executed, ack>>

\* Not connected, or only a part was taken: SEND_FAIL and disconnect(), then
\* send() connects and tries once more.
SendFail(t) ==
    LET c == at[t].clt IN
    /\ at[t].pc \in {"send", "resend"}
    /\ Disconnect(c)
    /\ \E ok \in BOOLEAN :
          /\ conn' = [conn EXCEPT ![c] = ok /\ at[t].pc = "send"]
          /\ at' = IF at[t].pc = "send" /\ ok
                     THEN [at EXCEPT ![t].pc = "resend"]
                     ELSE [at EXCEPT ![t].pc = "back", ![t].rc = "SEND_FAIL"]
    /\ UNCHANGED <<poolVars, aliveVars, executed, ack>>

RecvAck(t) ==
    LET c == at[t].clt IN
    /\ at[t].pc = "recv" /\ link[c].ans # <<>>
    /\ ack' = [ack EXCEPT ![t] = Head(link[c].ans)]
    /\ link' = [link EXCEPT ![c].ans = Tail(@)]
    /\ at' = [at EXCEPT ![t].pc = "back", ![t].rc = "SEND_SUCCESS"]
    /\ UNCHANGED <<poolVars, conn, aliveVars, executed>>

AfterRecvFail_Retried(t) == [at EXCEPT ![t].pc = "send"]
AfterRecvFail(t) == [at EXCEPT ![t].pc = "back", ![t].rc = "RECV_FAIL"]

\* The peer closes, an error, or a header with an invalid size: disconnect().
\* The server may or may not have executed the request, or may do so yet.
RecvFail(t) ==
    LET c == at[t].clt IN
    /\ at[t].pc = "recv"
    /\ \E late \in SUBSET ToSet(link[c].req) :
          executed' = [s \in Senders |-> executed[s] + IF s \in late THEN 1 ELSE 0]
    /\ Disconnect(c)
    /\ conn' = [conn EXCEPT ![c] = FALSE]
    /\ at' = AfterRecvFail(t)
    /\ UNCHANGED <<poolVars, aliveVars, ack>>

\* updatePoolState() and pushClientBack().
Back(t) ==
    LET p == at[t].pool IN
    /\ at[t].pc = "back"
    /\ invalid' = [invalid EXCEPT ![p] = at[t].rc # "SEND_SUCCESS"]
    /\ idleList' = [idleList EXCEPT ![p] = Append(@, at[t].clt)]
    /\ Finish(t, at[t].rc)
    /\ UNCHANGED <<clients, cursor, conn, aliveVars, link, executed, ack>>
-----------------------------------------------------------------------------
(* keepAlive() of the HA pool: the pools in turn.                           *)

\* The idle clients that have been quiet are taken out under the lock.
AliveTake ==
    LET p == alive.pool IN
    /\ alive.pc = "idle" /\ rounds < MaxRounds
    /\ rounds' = rounds + 1
    /\ \E quiet \in SUBSET ToSet(idleList[p]) :
          /\ alive' = [alive EXCEPT !.pc = "beat", !.list = SelectSeq(idleList[p], LAMBDA c : c \in quiet)]
          /\ idleList' = [idleList EXCEPT ![p] = SelectSeq(@, LAMBDA c : c \notin quiet)]
    /\ UNCHANGED <<clients, invalid, cursor, conn, at, link, executed, ack>>

\* send(_heartbeat, nullptr) on each: on failure it connects again.  Nothing
\* is received: the server does not answer heartbeats.
AliveBeat ==
    /\ alive.pc = "beat"
    /\ \E ok \in [ToSet(alive.list) -> BOOLEAN], broken \in SUBSET ToSet(alive.list) :
          /\ conn' = [c \in ClientIds |-> IF c \in DOMAIN ok THEN ok[c] ELSE conn[c]]
          /\ \A c \in DOMAIN ok : ok[c] /\ ~conn[c] => c \in broken
          /\ \A c \in DOMAIN ok : ~ok[c] => c \in broken
          /\ link' = [c \in ClientIds |-> IF c \in broken THEN NoLink ELSE link[c]]
    /\ alive' = [alive EXCEPT !.pc = "back"]
    /\ UNCHANGED <<poolVars, at, rounds, executed, ack>>

AliveBack ==
    /\ alive.pc = "back"
    /\ idleList' = [idleList EXCEPT ![alive.pool] = @ \o alive.list]
    /\ alive' = [pc |-> "idle", pool |-> (alive.pool % NumPools) + 1, list |-> <<>>]
    /\ UNCHANGED <<clients, invalid, cursor, conn, at, rounds, link, executed, ack>>

\* clearPools(), when no call is in progress: every client is deleted.
ClearPools ==
    /\ \A t \in Senders : at[t].pc = "done"
    /\ alive.pc = "idle" /\ rounds = MaxRounds
    /\ clients' = [p \in Pools |-> {}] /\ idleList' = [p \in Pools |-> <<>>]
    /\ conn' = [c \in ClientIds |-> FALSE] /\ link' = [c \in ClientIds |-> NoLink]
    /\ UNCHANGED <<invalid, cursor, at, aliveVars, executed, ack>>
-----------------------------------------------------------------------------
\* External: the server executes a request and answers it, or drops it (a full
\* worker queue) and stays silent.
Serve(c) ==
    /\ link[c].req # <<>>
    /\ \/ /\ executed' = [executed EXCEPT ![Head(link[c].req)] = @ + 1]
          /\ link' = [link EXCEPT ![c].req = Tail(@), ![c].ans = Append(@, Head(link[c].req))]
       \/ /\ link' = [link EXCEPT ![c].req = Tail(@), ![c].silent = TRUE]
          /\ UNCHANGED executed
    /\ UNCHANGED <<poolVars, conn, at, aliveVars, ack>>

SenderStep(t) ==
    \/ Reserve(t) \/ Connect(t) \/ Enter(t) \/ Take(t) \/ Wait(t) \/ WaitOver(t)
    \/ SendAll(t) \/ SendFail(t) \/ RecvAck(t) \/ Back(t)

CltNext ==
    \/ \E t \in Senders : GetPool(t) \/ SenderStep(t) \/ RecvFail(t)
    \/ AliveTake \/ AliveBeat \/ AliveBack \/ ClearPools
    \/ \E c \in ClientIds : Serve(c)

CltSpec == CltInit /\ [][CltNext]_cltPoolVars
-----------------------------------------------------------------------------
(* Properties.                                                             *)

\* The places a client of pool p is in: the idle list, a sender's hands, or
\* the list of keepAlive().
Holders(p, c) ==
    {<<"idle", i>> : i \in {j \in DOMAIN idleList[p] : idleList[p][j] = c}}
    \cup {<<"sender", t>> : t \in {s \in Senders : at[s].clt = c /\ at[s].pool = p}}
    \cup {<<"alive", i>> : i \in {j \in DOMAIN alive.list : alive.list[j] = c /\ alive.pool = p}}

\* No two threads ever use one socket, and no client is lost: every client of
\* a pool is in exactly one place, whoever creates, connects, discards, takes,
\* returns or beats clients meanwhile, and there are at most _poolSize.
ClientsCounted ==
    \A p \in Pools :
        /\ Cardinality(clients[p]) <= CltPoolSize
        /\ \A c \in ClientIds : Cardinality(Holders(p, c)) = IF c \in clients[p] THEN 1 ELSE 0

\* An answer is the answer to the request it is returned for, also after
\* failed receives, resends and heartbeats on the same client; and a request
\* is executed at most once: send() repeats a request only when the server
\* cannot have got all of it.
AckIsOwn ==
    \A t \in Senders :
        /\ executed[t] <= 1
        /\ at[t].rc = "SEND_SUCCESS" => ack[t] = t /\ executed[t] = 1
        /\ at[t].rc \in {"SEND_FAIL", "SEND_TIMEOUT", "POOL_INVALID"} => executed[t] = 0

\* Every call returns, unless the server swallowed its request: then recv()
\* has no time-out.
SendReturns ==
    \A t \in Senders :
        at[t].pc = "reserve" ~> (at[t].pc = "done" \/ (at[t].pc = "recv" /\ link[at[t].clt].silent))
=============================================================================
