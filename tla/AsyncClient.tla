----------------------------- MODULE AsyncClient -----------------------------
(***************************************************************************)
(* The asynchronous client side of src/zbf/socket_tcp_v5.hpp: the           *)
(* connections of one tcpsock_ha_asynclt, the IO, monitor and worker threads *)
(* of async_client_manager, and on top of them the handler map of NetClient *)
(* (src/lygc/net_server.hpp).  Connections break and are made again by the  *)
(* monitor; _wrQueue and _recvCache belong to the client object and outlive *)
(* the connection.                                                          *)
(*                                                                         *)
(* A message is two units on the wire, <<id, 1>> (its header) and <<id, 2>>. *)
(* Headers announce legal sizes and the cache stays below its limit: the    *)
(* error onRecv() returns for a cache too long, which ends the connection,  *)
(* and the cache _PopMsg() drops for a body too large are in Framing.       *)
(***************************************************************************)
EXTENDS Naturals, Sequences, Functions

CONSTANTS
    NumClients,     \* connections of the HA client
    Requests,       \* calls of NetClient::request(), each from its own thread
    MaxPendingMsg,  \* limit of _wrQueue
    MaxRecvMsg,     \* limit of the worker's SafeQueue
    MaxBreaks,      \* bound: connections that break
    MaxExtras       \* bound: heartbeats, and messages the server sends unasked

ASSUME CountAssumption == NumClients \in Nat \ {0}
ASSUME RequestsAssumption == {"monitor", "push", "free"} \cap Requests = {}

Clients == 1..NumClients
Threads == Requests \cup {"monitor"}

VARIABLES
    wrQueue, inflight,         \* [Clients]: _wrQueue; the message _SendData holds
    recvCache,                 \* [Clients]: _recvCache
    enableWrite, efd,          \* [Clients]: _enableWrite; _efd is set
    closed, fd,                \* [Clients]: _closed; _fd is a socket
    monitored,                 \* [Clients]: in _monitorColl and _fd2client
    interest,                  \* [Clients]: the epoll registration of _fd
    lockWRQ, lockMon,          \* holders of _lockWRQ and of _lockMonitorColl
    at, io, worker,            \* where the threads are
    scan,                      \* the client the monitor looks at next
    cursor,                    \* _cltCursor
    handlers,                  \* keys of _msgHandlers
    recvQueue, shutdown,       \* the worker's queue; _shutdown
    up, toServer, toClient,    \* external: connection alive, bytes in flight
    breaks, extras,             \* bounded counters
    called, lost, cut, garbled, unowned   \* history, for the properties

queueVars == <<wrQueue, inflight, recvCache>>
armVars   == <<enableWrite, efd, interest>>
linkVars  == <<closed, fd, monitored>>
netVars   == <<up, toServer, toClient, breaks>>
runVars   == <<worker, recvQueue, shutdown, handlers>>
monVars   == <<scan, cursor, extras>>
ghosts    == <<called, lost, cut, garbled, unowned>>
vars == <<queueVars, armVars, linkVars, netVars, runVars, monVars, ghosts,
          lockWRQ, lockMon, at, io>>

Ids(units) == {u[1] : u \in Range(units)}
Whole(pair) == pair = << <<pair[1][1], 1>>, <<pair[1][1], 2>> >>

\* addConnect() has connected every client, or failed to; start() has run and
\* the monitor has not looked at any client yet.
Init ==
    /\ wrQueue = [c \in Clients |-> <<>>] /\ inflight = [c \in Clients |-> <<>>]
    /\ recvCache = [c \in Clients |-> <<>>]
    /\ enableWrite = [c \in Clients |-> FALSE] /\ efd = [c \in Clients |-> FALSE]
    /\ interest = [c \in Clients |-> "none"]
    /\ closed = [c \in Clients |-> FALSE] /\ monitored = [c \in Clients |-> FALSE]
    /\ fd \in [Clients -> BOOLEAN] /\ up = fd
    /\ toServer = [c \in Clients |-> <<>>] /\ toClient = [c \in Clients |-> <<>>]
    /\ breaks = 0 /\ extras = 0 /\ scan = 1 /\ cursor = 0
    /\ worker = "run" /\ recvQueue = <<>> /\ shutdown = FALSE /\ handlers = {}
    /\ called = [r \in Requests |-> 0] /\ lost = {} /\ cut = {} /\ garbled = {}
    /\ unowned = FALSE
    /\ lockWRQ = [c \in Clients |-> "free"] /\ lockMon = "free"
    /\ at = [t \in Threads |-> [pc |-> "idle", clt |-> 1]]
    /\ io = [pc |-> "wait", clt |-> 1]

Goto(t, pc) == at' = [at EXCEPT ![t].pc = pc]
-----------------------------------------------------------------------------
(* NetClient::request(), tcpsock_ha_asynclt::post(), tcpsock_asynclt::post() *)

\* The handler is entered before the message is posted.
Insert(r) == handlers' = handlers \cup {r}

Request(r) ==
    /\ at[r].pc = "idle" /\ ~(shutdown /\ worker = "joined")
    /\ Insert(r)
    /\ Goto(r, "get")
    /\ UNCHANGED <<queueVars, armVars, linkVars, netVars, worker, recvQueue, shutdown,
                   monVars, ghosts, lockWRQ, lockMon, io>>

Usable(c) == fd[c] /\ ~closed[c]

\* getClient(): the first usable client from the cursor on, round robin.
GetClient(r) ==
    LET nth(k) == ((cursor + k) % NumClients) + 1
        turns == 0..NumClients - 1
    IN
    /\ at[r].pc = "get"
    /\ \/ /\ \A k \in turns : ~Usable(nth(k))
          /\ Goto(r, "erase") /\ cursor' = nth(NumClients - 1)
       \/ \E k \in turns :
             /\ Usable(nth(k)) /\ \A j \in turns : j < k => ~Usable(nth(j))
             /\ at' = [at EXCEPT ![r] = [pc |-> "push", clt |-> nth(k)]]
             /\ cursor' = nth(k)
    /\ UNCHANGED <<queueVars, armVars, linkVars, netVars, runVars, scan, extras, ghosts,
                   lockWRQ, lockMon, io>>

\* post() failed: the handler is removed again.
EraseHandler(r) ==
    /\ at[r].pc = "erase"
    /\ handlers' = handlers \ {r}
    /\ Goto(r, "refused")
    /\ UNCHANGED <<queueVars, armVars, linkVars, netVars, worker, recvQueue, shutdown,
                   monVars, ghosts, lockWRQ, lockMon, io>>

Rest(t) == IF t = "monitor" THEN "idle" ELSE "posted"

\* post() of a request, or of a heartbeat by the monitor: append under
\* _lockWRQ, then enableWrite(true), which loads _efd first.
PostPush(t) ==
    LET c == at[t].clt IN
    /\ at[t].pc = "push" /\ lockWRQ[c] = "free"
    /\ IF Len(wrQueue[c]) > MaxPendingMsg
         THEN Goto(t, IF t = "monitor" THEN "idle" ELSE "erase")
              /\ UNCHANGED <<wrQueue, lockWRQ>>
         ELSE /\ wrQueue' = [wrQueue EXCEPT ![c] = Append(@, << <<t, 1>>, <<t, 2>> >>)]
              /\ IF fd[c] /\ efd[c]
                   THEN Goto(t, "cas") /\ lockWRQ' = [lockWRQ EXCEPT ![c] = t]
                   ELSE Goto(t, Rest(t)) /\ UNCHANGED lockWRQ
    /\ UNCHANGED <<inflight, recvCache, armVars, linkVars, netVars, runVars, monVars,
                   ghosts, lockMon, io>>

PostCas(t) ==
    LET c == at[t].clt IN
    /\ at[t].pc = "cas"
    /\ IF enableWrite[c]
         THEN Goto(t, Rest(t)) /\ lockWRQ' = [lockWRQ EXCEPT ![c] = "free"]
              /\ UNCHANGED enableWrite
         ELSE Goto(t, "mod") /\ enableWrite' = [enableWrite EXCEPT ![c] = TRUE]
              /\ UNCHANGED lockWRQ
    /\ UNCHANGED <<queueVars, efd, interest, linkVars, netVars, runVars, monVars, ghosts,
                   lockMon, io>>

\* sp_enable(): no effect on a socket that is not registered.
PostMod(t) ==
    LET c == at[t].clt IN
    /\ at[t].pc = "mod"
    /\ interest' = [interest EXCEPT ![c] = IF @ = "none" THEN @ ELSE "inout"]
    /\ lockWRQ' = [lockWRQ EXCEPT ![c] = "free"]
    /\ Goto(t, Rest(t))
    /\ UNCHANGED <<queueVars, enableWrite, efd, linkVars, netVars, runVars, monVars, ghosts,
                   lockMon, io>>
-----------------------------------------------------------------------------
(* monitor(): visit the clients in turn.                                   *)

NextScan == scan' = (scan % NumClients) + 1

\* One visit.  connect() clears _closed before it gives up the old socket.
\* checkAlive() posts a heartbeat when the connection has been quiet.
MonVisit ==
    LET c == scan IN
    /\ at["monitor"].pc = "idle" /\ ~shutdown /\ lockMon = "free"
    /\ \/ /\ ~monitored[c] /\ Usable(c)
          /\ Goto("monitor", "add")
          /\ UNCHANGED <<closed, scan, extras>>
       \/ /\ ~monitored[c] /\ ~Usable(c)
          /\ closed' = [closed EXCEPT ![c] = FALSE]
          /\ Goto("monitor", "connect")
          /\ UNCHANGED <<scan, extras>>
       \/ /\ monitored[c]
          /\ \/ UNCHANGED <<at, extras>>
             \/ /\ Usable(c) /\ extras < MaxExtras
                /\ extras' = extras + 1
                /\ at' = [at EXCEPT !["monitor"] = [pc |-> "push", clt |-> c]]
          /\ NextScan
          /\ UNCHANGED closed
    /\ UNCHANGED <<queueVars, armVars, fd, monitored, netVars, runVars, cursor, ghosts,
                   lockWRQ, lockMon, io>>

\* A partial message is pending when a connection begins.
Partial(c) == recvCache[c] # <<>> \/ (wrQueue[c] # <<>> /\ Len(Head(wrQueue[c])) = 1)

\* The old socket is closed, then the new one connects or does not.  Neither
\* _wrQueue nor _recvCache is touched.
MonConnect(ok) ==
    LET c == scan IN
    /\ at["monitor"].pc = "connect"
    /\ fd' = [fd EXCEPT ![c] = ok] /\ up' = [up EXCEPT ![c] = ok]
    /\ toServer' = [toServer EXCEPT ![c] = <<>>] /\ toClient' = [toClient EXCEPT ![c] = <<>>]
    /\ cut' = IF ok /\ Partial(c) THEN cut \cup {c} ELSE cut
    /\ IF ok THEN Goto("monitor", "add") /\ UNCHANGED scan
             ELSE Goto("monitor", "idle") /\ NextScan
    /\ UNCHANGED <<queueVars, armVars, closed, monitored, breaks, runVars, cursor, extras,
                   called, lost, garbled, unowned, lockWRQ, lockMon, io>>

\* addMonitored() holds _lockMonitorColl over both steps.
LockMon_Not == UNCHANGED lockMon
LockMon == lockMon' = "monitor"

MonAdd ==
    /\ at["monitor"].pc = "add" /\ lockMon = "free"
    /\ LockMon
    /\ interest' = [interest EXCEPT ![scan] = "in"]
    /\ Goto("monitor", "join")
    /\ UNCHANGED <<queueVars, enableWrite, efd, linkVars, netVars, runVars, monVars, ghosts,
                   lockWRQ, io>>

\* sp_add() fails: the client is tried again in the next round.
MonAddFail ==
    /\ at["monitor"].pc = "add" /\ lockMon = "free"
    /\ Goto("monitor", "idle") /\ NextScan
    /\ UNCHANGED <<queueVars, armVars, linkVars, netVars, runVars, cursor, extras, ghosts,
                   lockWRQ, lockMon, io>>

Rearm_Never(c) == FALSE

\* joinMonitor() re-arms EPOLLOUT when messages are waiting.
Rearm(c) == wrQueue[c] # <<>>

MonJoin ==
    LET c == scan IN
    /\ at["monitor"].pc = "join" /\ lockWRQ[c] = "free"
    /\ efd' = [efd EXCEPT ![c] = TRUE]
    /\ enableWrite' = [enableWrite EXCEPT ![c] = Rearm(c)]
    /\ interest' = [interest EXCEPT ![c] = IF Rearm(c) THEN "inout" ELSE @]
    /\ monitored' = [monitored EXCEPT ![c] = TRUE]
    /\ lockMon' = "free"
    /\ Goto("monitor", "idle") /\ NextScan
    /\ UNCHANGED <<queueVars, closed, fd, netVars, runVars, cursor, extras, ghosts, lockWRQ, io>>
-----------------------------------------------------------------------------
(* ioprocessor()                                                            *)

\* The whole messages at the front of the cache, by _PopMsg(), and the rest.
Frames(cache) == [i \in 1..Len(cache) \div 2 |-> SubSeq(cache, 2 * i - 1, 2 * i)]
Remainder(cache) == SubSeq(cache, Len(cache) - (Len(cache) % 2) + 1, Len(cache))

\* recv(), then getClientByFd() and isMonitored() under _lockMonitorColl,
\* onRecv(), and dispatchAsyncMsg() for each message; a full queue drops it.
IoRead(c) ==
    /\ io.pc = "wait" /\ ~shutdown /\ lockMon = "free"
    /\ interest[c] # "none" /\ toClient[c] # <<>>
    /\ \E n \in 1..Len(toClient[c]) :
         LET cache == recvCache[c] \o SubSeq(toClient[c], 1, n)
             new == Frames(cache)
             room == MaxRecvMsg - Len(recvQueue)
             kept == SubSeq(new, 1, IF Len(new) < room THEN Len(new) ELSE room)
             bad == {p \in Range(new) : ~Whole(p)}
         IN /\ toClient' = [toClient EXCEPT ![c] = SubSeq(@, n + 1, Len(@))]
            /\ IF monitored[c]
                 THEN /\ recvCache' = [recvCache EXCEPT ![c] = Remainder(cache)]
                      /\ recvQueue' = recvQueue \o kept
                      /\ lost' = lost \cup UNION {Ids(p) : p \in bad \cup (Range(new) \ Range(kept))}
                      /\ garbled' = IF bad = {} THEN garbled ELSE garbled \cup {c}
                      /\ UNCHANGED unowned
                 ELSE unowned' = TRUE /\ UNCHANGED <<recvCache, recvQueue, lost, garbled>>
    /\ UNCHANGED <<wrQueue, inflight, armVars, linkVars, up, toServer, breaks, worker, shutdown,
                   handlers, monVars, called, cut, lockWRQ, lockMon, at, io>>

\* recv() returns 0 or an error: removeMonitored() takes _lockMonitorColl.
IoBroken(c) ==
    /\ io.pc = "wait" /\ ~shutdown /\ lockMon = "free"
    /\ interest[c] # "none" /\ ~up[c] /\ monitored[c]
    /\ io' = [pc |-> "leave", clt |-> c] /\ lockMon' = "io"
    /\ UNCHANGED <<queueVars, armVars, linkVars, netVars, runVars, monVars, ghosts, lockWRQ, at>>

IoWriteEvent(c) ==
    /\ io.pc = "wait" /\ ~shutdown /\ lockMon = "free"
    /\ interest[c] = "inout" /\ up[c] /\ toClient[c] = <<>> /\ monitored[c]
    /\ io' = [pc |-> IF closed[c] THEN "wait" ELSE "pop", clt |-> c]
    /\ UNCHANGED <<queueVars, armVars, linkVars, netVars, runVars, monVars, ghosts, lockWRQ,
                   lockMon, at>>

\* _SendData() takes the front message, or finds none.
IoPop ==
    LET c == io.clt IN
    /\ io.pc = "pop" /\ lockWRQ[c] = "free"
    /\ IF wrQueue[c] = <<>>
         THEN io' = [io EXCEPT !.pc = "recheck"] /\ UNCHANGED <<wrQueue, inflight>>
         ELSE /\ inflight' = [inflight EXCEPT ![c] = Head(wrQueue[c])]
              /\ wrQueue' = [wrQueue EXCEPT ![c] = Tail(@)]
              /\ io' = [io EXCEPT !.pc = "send"]
    /\ UNCHANGED <<recvCache, armVars, linkVars, netVars, runVars, monVars, ghosts, lockWRQ,
                   lockMon, at>>

\* What the kernel did not take goes back to the front of the queue.
PutBack_AtTheEnd(rest, q) == Append(q, rest)
PutBack(rest, q) == <<rest>> \o q

\* send() takes n units (0 for EAGAIN); the rest is put back under _lockWRQ.
IoSend ==
    LET c == io.clt IN
    /\ io.pc = "send" /\ up[c] /\ lockWRQ[c] = "free"
    /\ \E n \in 0..Len(inflight[c]) :
          /\ toServer' = [toServer EXCEPT ![c] = @ \o SubSeq(inflight[c], 1, n)]
          /\ wrQueue' = IF n = Len(inflight[c]) THEN wrQueue
                        ELSE [wrQueue EXCEPT ![c] =
                                PutBack(SubSeq(inflight[c], n + 1, Len(inflight[c])), @)]
    /\ inflight' = [inflight EXCEPT ![c] = <<>>]
    /\ io' = [io EXCEPT !.pc = "wait"]
    /\ UNCHANGED <<recvCache, armVars, linkVars, up, toClient, breaks, runVars, monVars, ghosts,
                   lockWRQ, lockMon, at>>

\* SEND_FAIL: the message is dropped and the client leaves the monitor.
IoSendFail ==
    LET c == io.clt IN
    /\ io.pc = "send" /\ ~up[c] /\ lockMon = "free"
    /\ lost' = lost \cup Ids(inflight[c])
    /\ inflight' = [inflight EXCEPT ![c] = <<>>]
    /\ io' = [io EXCEPT !.pc = "leave"] /\ lockMon' = "io"
    /\ UNCHANGED <<wrQueue, recvCache, armVars, linkVars, netVars, runVars, monVars, called, cut,
                   garbled, unowned, lockWRQ, at>>

Drained(c) == wrQueue[c] = <<>>

\* QUEUE_EMPTY: look again under the lock and disarm.
IoRecheck ==
    LET c == io.clt IN
    /\ io.pc = "recheck" /\ lockWRQ[c] = "free"
    /\ IF Drained(c) /\ enableWrite[c] /\ efd[c]
         THEN enableWrite' = [enableWrite EXCEPT ![c] = FALSE]
              /\ interest' = [interest EXCEPT ![c] = "in"]
         ELSE UNCHANGED <<enableWrite, interest>>
    /\ io' = [io EXCEPT !.pc = "wait"]
    /\ UNCHANGED <<queueVars, efd, linkVars, netVars, runVars, monVars, ghosts, lockWRQ,
                   lockMon, at>>

\* leaveMonitor() is two stores without _lockWRQ.
IoLeave ==
    LET c == io.clt IN
    /\ \/ io.pc = "leave" /\ efd' = [efd EXCEPT ![c] = FALSE]
          /\ io' = [io EXCEPT !.pc = "flag"] /\ UNCHANGED enableWrite
       \/ io.pc = "flag" /\ enableWrite' = [enableWrite EXCEPT ![c] = FALSE]
          /\ io' = [io EXCEPT !.pc = "remove"] /\ UNCHANGED efd
    /\ UNCHANGED <<queueVars, interest, linkVars, netVars, runVars, monVars, ghosts, lockWRQ,
                   lockMon, at>>

\* sp_del(), the two erases and setClose(); _lockMonitorColl is released.
IoRemove ==
    LET c == io.clt IN
    /\ io.pc = "remove"
    /\ interest' = [interest EXCEPT ![c] = "none"]
    /\ monitored' = [monitored EXCEPT ![c] = FALSE]
    /\ closed' = [closed EXCEPT ![c] = TRUE]
    /\ lockMon' = "free" /\ io' = [io EXCEPT !.pc = "wait"]
    /\ UNCHANGED <<queueVars, enableWrite, efd, fd, netVars, runVars, monVars, ghosts, lockWRQ, at>>
-----------------------------------------------------------------------------
(* worker() and NetClient::onResponse(); start, stop and serveUtilStop().   *)

\* The handler is taken out of the map before it is called; an answer without
\* a handler goes to the default responder.
TakeHandler(r) == handlers \ {r}

WorkerPop ==
    /\ worker = "run" /\ ~shutdown /\ recvQueue # <<>>
    /\ LET m == Head(recvQueue) r == m[1][1] IN
         IF Whole(m) /\ r \in handlers
           THEN handlers' = TakeHandler(r) /\ called' = [called EXCEPT ![r] = @ + 1]
           ELSE UNCHANGED <<handlers, called>>
    /\ recvQueue' = Tail(recvQueue)
    /\ UNCHANGED <<queueVars, armVars, linkVars, netVars, worker, shutdown, monVars, lost, cut,
                   garbled, unowned, lockWRQ, lockMon, at, io>>

Stop ==
    /\ ~shutdown /\ shutdown' = TRUE
    /\ UNCHANGED <<queueVars, armVars, linkVars, netVars, worker, recvQueue, handlers, monVars,
                   ghosts, lockWRQ, lockMon, at, io>>

\* epoll_wait() fails (EINTR included): the IO thread leaves its loop for good.
IoWaitFail ==
    /\ io.pc = "wait" /\ ~shutdown
    /\ io' = [io EXCEPT !.pc = "exit"]
    /\ UNCHANGED <<queueVars, armVars, linkVars, netVars, runVars, monVars, ghosts, lockWRQ, lockMon, at>>

\* Each thread leaves where its loop tests the flag or its queue is stopped.
ThreadExit ==
    /\ shutdown
    /\ \/ io.pc = "wait" /\ io' = [io EXCEPT !.pc = "exit"] /\ UNCHANGED <<at, worker>>
       \/ at["monitor"].pc = "idle" /\ Goto("monitor", "exit") /\ UNCHANGED <<io, worker>>
       \/ worker = "run" /\ worker' = "exit" /\ UNCHANGED <<io, at>>
    /\ UNCHANGED <<queueVars, armVars, linkVars, netVars, recvQueue, shutdown, handlers, monVars,
                   ghosts, lockWRQ, lockMon>>

\* serveUtilStop(): join, drain the queue, clearClients().  The application
\* has no call in progress then: the clients are deleted.
Join ==
    /\ io.pc = "exit" /\ at["monitor"].pc = "exit" /\ worker = "exit"
    /\ \A r \in Requests : at[r].pc \in {"idle", "posted", "refused"}
    /\ worker' = "joined" /\ recvQueue' = <<>>
    /\ fd' = [c \in Clients |-> FALSE] /\ monitored' = [c \in Clients |-> FALSE]
    /\ interest' = [c \in Clients |-> "none"] /\ up' = [c \in Clients |-> FALSE]
    /\ toServer' = [c \in Clients |-> <<>>] /\ toClient' = [c \in Clients |-> <<>>]
    /\ wrQueue' = [c \in Clients |-> <<>>] /\ recvCache' = [c \in Clients |-> <<>>]
    /\ handlers' = {}
    /\ UNCHANGED <<inflight, enableWrite, efd, closed, breaks, shutdown, monVars, ghosts,
                   lockWRQ, lockMon, at, io>>
-----------------------------------------------------------------------------
(* External: the server answers each whole message; connections break.     *)

ServerTake(c) ==
    /\ up[c] /\ Len(toServer[c]) >= 2
    /\ LET p == SubSeq(toServer[c], 1, 2) IN
         /\ toServer' = [toServer EXCEPT ![c] = SubSeq(@, 3, Len(@))]
         /\ toClient' = IF Whole(p) /\ p[1][1] \in Requests
                          THEN [toClient EXCEPT ![c] = @ \o p] ELSE toClient
         /\ garbled' = IF Whole(p) THEN garbled ELSE garbled \cup {c}
         /\ lost' = IF Whole(p) THEN lost ELSE lost \cup Ids(p)
    /\ UNCHANGED <<queueVars, armVars, linkVars, up, breaks, runVars, monVars, called, cut,
                   unowned, lockWRQ, lockMon, at, io>>

ServerPush(c) ==
    /\ up[c] /\ extras < MaxExtras
    /\ extras' = extras + 1
    /\ toClient' = [toClient EXCEPT ![c] = @ \o << <<"push", 1>>, <<"push", 2>> >>]
    /\ UNCHANGED <<queueVars, armVars, linkVars, up, toServer, breaks, runVars, scan, cursor, ghosts,
                   lockWRQ, lockMon, at, io>>

Break(c) ==
    /\ up[c] /\ breaks < MaxBreaks
    /\ breaks' = breaks + 1
    /\ up' = [up EXCEPT ![c] = FALSE]
    /\ lost' = lost \cup Ids(toServer[c]) \cup Ids(toClient[c])
    /\ toServer' = [toServer EXCEPT ![c] = <<>>] /\ toClient' = [toClient EXCEPT ![c] = <<>>]
    /\ UNCHANGED <<queueVars, armVars, linkVars, runVars, monVars, called, cut, garbled, unowned,
                   lockWRQ, lockMon, at, io>>
-----------------------------------------------------------------------------
RequestStep(r) == GetClient(r) \/ EraseHandler(r)
PostStep(t) == PostPush(t) \/ PostCas(t) \/ PostMod(t)
MonStep == MonVisit \/ MonConnect(TRUE) \/ MonConnect(FALSE) \/ MonAdd \/ MonAddFail \/ MonJoin
IoEvent(c) == IoRead(c) \/ IoBroken(c) \/ IoWriteEvent(c)
IoStep == IoPop \/ IoSend \/ IoSendFail \/ IoRecheck \/ IoLeave \/ IoRemove

Next ==
    \/ \E r \in Requests : Request(r) \/ RequestStep(r)
    \/ \E t \in Threads : PostStep(t)
    \/ MonStep \/ (\E c \in Clients : IoEvent(c)) \/ IoStep
    \/ WorkerPop \/ Stop \/ IoWaitFail \/ ThreadExit \/ Join
    \/ \E c \in Clients : ServerTake(c) \/ ServerPush(c) \/ Break(c)

Spec == Init /\ [][Next]_vars

\* Threads run, and the IO thread gets to the events of every socket;
\* connecting and registering succeed if they are tried for ever; a socket
\* offered a message for ever takes all of it; the server answers.
Fairness ==
    /\ \A t \in Threads : WF_vars(PostStep(t) \/ (t \in Requests /\ RequestStep(t)))
    /\ WF_vars(MonStep) /\ SF_vars(MonConnect(TRUE) \/ MonAdd)
    /\ WF_vars(IoStep) /\ SF_vars(IoSend /\ wrQueue' = wrQueue)
    /\ WF_vars(WorkerPop) /\ WF_vars(ThreadExit \/ Join)
    /\ \A c \in Clients : SF_vars(IoEvent(c)) /\ WF_vars(ServerTake(c))

FairSpec == Spec /\ Fairness
-----------------------------------------------------------------------------
(* Properties.                                                             *)

\* No wake-up is lost across reconnections: while a client is monitored and no
\* thread is inside its _lockWRQ or removes it, waiting messages have EPOLLOUT
\* armed.  post() may run between sp_del(), connect(), sp_add() and
\* joinMonitor(), with a stale _efd or with none.
WriteArmed ==
    \A c \in Clients :
        monitored[c] /\ lockWRQ[c] = "free" /\ lockMon = "free" /\ wrQueue[c] # <<>>
            => enableWrite[c] /\ interest[c] = "inout"

\* The "unidentified read" branch of ioprocessor(), which throws received
\* bytes away, is never taken: addMonitored() registers the socket before it
\* enters the client in the maps, but the IO thread cannot look in between.
ReadsAreOwned == ~unowned

\* The registration in the poll, the maps and the queues agree, whatever the
\* monitor's reconnecting, the IO thread and post() interleave.
EventsSound == WriteArmed /\ ReadsAreOwned

\* A message that is not one message of the peer is parsed, on either side,
\* only on a connection that began with the rest of a message of an earlier
\* one in _wrQueue or in _recvCache.
GarbledOnlyIfCut == garbled \subseteq cut

\* A handler is called at most once, never after its request was refused, and
\* it stays in the map only while its request is under way or was lost: what
\* is posted, in flight, or answered and queued still finds its handler.
Travelling(r) ==
    \/ \E c \in Clients :
          \/ r \in Ids(inflight[c]) \cup Ids(toServer[c]) \cup Ids(toClient[c]) \cup Ids(recvCache[c])
          \/ \E i \in 1..Len(wrQueue[c]) : r \in Ids(wrQueue[c][i])
    \/ \E i \in 1..Len(recvQueue) : r \in Ids(recvQueue[i])
HandlerOnce ==
    \A r \in Requests :
        /\ called[r] <= 1
        /\ at[r].pc = "refused" => r \notin handlers /\ called[r] = 0
        /\ r \in handlers => called[r] = 0 /\ (at[r].pc = "posted" => Travelling(r) \/ r \in lost)
        /\ Travelling(r) /\ r \notin lost => r \in handlers

\* Every accepted request is answered to its handler, unless its bytes were
\* lost with a connection, with a failed send or in a full worker queue, the
\* IO thread has left its loop, or the manager is stopped: a message queued on
\* a broken client is sent after the monitor has connected it again.
Resolved ==
    \A r \in Requests :
        at[r].pc = "posted" ~> (called[r] = 1 \/ r \in lost \/ io.pc = "exit" \/ shutdown)

\* So a request's handler is called exactly once, or its request was lost.
ResolvedOnce == []HandlerOnce /\ Resolved
=============================================================================
