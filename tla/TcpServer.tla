------------------------------ MODULE TcpServer ------------------------------
(***************************************************************************)
(* Class tcpsock_server of src/zbf/socket_tcp_v5.hpp: the IO thread that    *)
(* accepts, reads and closes connections, the monitor thread that expires   *)
(* users and reports their end, the worker threads that run the handlers,   *)
(* and the start and stop of the whole.  The write path of a user is the    *)
(* module WriteChannel; here a write event matters only when its send fails. *)
(*                                                                         *)
(* User objects are reference counted.  The references are the map          *)
(* _fd2user, the list _users, the local variables of the threads, and the   *)
(* locks other threads take on a weak_ptr.  A user's descriptor is closed   *)
(* by its destructor, that is when the last reference goes, and the kernel  *)
(* may then give the same descriptor number to another connection.          *)
(***************************************************************************)
EXTENDS Naturals, Sequences, FiniteSets

CONSTANTS
    MaxUsers,        \* bound: connections in a behaviour
    Fds,             \* descriptor numbers that accept() can return
    NumWorkers,      \* worker threads of the lane that the messages go to
    Others,          \* threads that lock a user to post to it
    MaxConnections,  \* _maxConnections
    QueueCap,        \* capacity of a worker's queue
    MaxMsgs,         \* bound: messages each peer sends
    ErrorOnly,       \* TRUE: epoll may report an error without the read flag
    EarlyClients     \* TRUE: clients may connect before start() has returned

ASSUME BoundsAssumption ==
    /\ MaxUsers \in Nat /\ MaxConnections \in Nat /\ QueueCap \in Nat /\ MaxMsgs \in Nat
    /\ NumWorkers \in Nat \ {0}
ASSUME FlagsAssumption == ErrorOnly \in BOOLEAN /\ EarlyClients \in BOOLEAN

Users == 1..MaxUsers   \* _userSeq numbers them
Workers == 1..NumWorkers
NoUser == 0
NoFd == "nofd"
Listen == "listen"     \* the listening socket

ASSUME FdsAssumption == IsFiniteSet(Fds) /\ NoFd \notin Fds /\ Listen \notin Fds
ASSUME ThreadsAssumption == Workers \cap Others = {}

VARIABLES
    main,       \* the thread that calls start(), stop(), serveUtilStop(), close()
    lanes,      \* configSwimlanes() has filled _msgTyp2WkIdGrp
    shutdown,   \* _shutdown
    stopped,    \* SafeQueue::stop() was called on the workers' queues
    userSeq,    \* users created so far
    fdOf,       \* fdOf[u]: _fd of user u
    closed,     \* users whose _closed is set
    fd2user,    \* _fd2user
    users,      \* _users
    lockF2U,    \* the thread inside closeUser() with _lockF2U, or "free"
    batch,      \* events returned by sp_wait() and not handled yet
    ioPc, ioFd, ioUser,  \* the IO thread: step, ev[i].fd, local shared_ptr
    cursor,     \* the worker that the next message goes to
    monPc, monUser,      \* the monitor: step, its shared_ptr
    recvQueue,  \* recvQueue[w]: weak references with their messages
    wkPc, wkUser,        \* the workers: step, locked user
    held,       \* held[o]: the user that another thread has locked
    backlog,    \* kernel: connections waiting for accept()
    conns,      \* connections attempted so far
    peer,       \* peer[u]: "up", or "broken" once the peer reset or closed
    data,       \* kernel: data[u]: messages received and not read
    sent,       \* sent[u]: messages the peer has sent
    expired,    \* users that the monitor found expired
    notified,   \* notified[u]: calls of onDisconnect()
    misrouted   \* dispatchMsg() ran with an empty lane table

mainVars == <<main, lanes, shutdown, stopped>>
userVars == <<userSeq, fdOf, closed, fd2user, users, lockF2U>>
ioVars   == <<batch, ioPc, ioFd, ioUser, cursor, misrouted>>
monVars  == <<monPc, monUser, expired, notified>>
wkVars   == <<recvQueue, wkPc, wkUser>>
envVars  == <<backlog, conns, peer, data, sent>>
vars == <<mainVars, userVars, ioVars, monVars, wkVars, held, envVars>>

-----------------------------------------------------------------------------
InList(u) == \E i \in 1..Len(users) : users[i] = u

\* The shared_ptrs to u that exist.
Alive(u) ==
    \/ \E f \in Fds : fd2user[f] = u
    \/ InList(u)
    \/ monUser = u \/ ioUser = u
    \/ \E w \in Workers : wkUser[w] = u
    \/ \E o \in Others : held[o] = u

\* The socket behind a descriptor number: it is open while its user is alive.
Owners_ClosedEarly(f) == {u \in Users : Alive(u) /\ fdOf[u] = f /\ u \notin closed}

Owners(f) == {u \in Users : Alive(u) /\ fdOf[u] = f}

Connections == Cardinality({f \in Fds : fd2user[f] # NoUser})

Init ==
    /\ main = "starting" /\ lanes = FALSE /\ shutdown = FALSE /\ stopped = FALSE
    /\ userSeq = 0 /\ fdOf = [u \in Users |-> NoFd] /\ closed = {}
    /\ fd2user = [f \in Fds |-> NoUser] /\ users = <<>> /\ lockF2U = "free"
    /\ batch = {} /\ ioPc = "wait" /\ ioFd = NoFd /\ ioUser = NoUser
    /\ cursor = 1 /\ misrouted = FALSE
    /\ monPc = "pop" /\ monUser = NoUser /\ expired = {}
    /\ notified = [u \in Users |-> 0]
    /\ recvQueue = [w \in Workers |-> <<>>]
    /\ wkPc = [w \in Workers |-> "pop"] /\ wkUser = [w \in Workers |-> NoUser]
    /\ held = [o \in Others |-> NoUser]
    /\ backlog = 0 /\ conns = 0
    /\ peer = [u \in Users |-> "up"] /\ data = [u \in Users |-> 0] /\ sent = [u \in Users |-> 0]

-----------------------------------------------------------------------------
(* The environment: clients, and the threads that lock a user (through the *)
(* weak_ptr of a pending request) in order to post a response.             *)

ClientConnect ==
    /\ conns < MaxUsers
    /\ main = "serving" \/ (main = "starting" /\ EarlyClients)
    /\ conns' = conns + 1 /\ backlog' = backlog + 1
    /\ UNCHANGED <<mainVars, userVars, ioVars, monVars, wkVars, held, peer, data, sent>>

PeerSend(u) ==
    /\ Alive(u) /\ peer[u] = "up" /\ sent[u] < MaxMsgs
    /\ sent' = [sent EXCEPT ![u] = @ + 1]
    /\ data' = [data EXCEPT ![u] = @ + 1]
    /\ UNCHANGED <<mainVars, userVars, ioVars, monVars, wkVars, held, backlog, conns, peer>>

PeerBreak(u) ==
    /\ Alive(u) /\ peer[u] = "up"
    /\ peer' = [peer EXCEPT ![u] = "broken"]
    /\ UNCHANGED <<mainVars, userVars, ioVars, monVars, wkVars, held, backlog, conns, data, sent>>

Hold(o, u) ==
    /\ held[o] = NoUser /\ Alive(u)
    /\ held' = [held EXCEPT ![o] = u]
    /\ UNCHANGED <<mainVars, userVars, ioVars, monVars, wkVars, envVars>>

Release(o) ==
    /\ held[o] # NoUser
    /\ held' = [held EXCEPT ![o] = NoUser]
    /\ UNCHANGED <<mainVars, userVars, ioVars, monVars, wkVars, envVars>>

-----------------------------------------------------------------------------
(* closeUser(fd) under _lockF2U, in two steps: the user is marked closed,  *)
(* which other threads may see at once, and then removed from epoll and    *)
(* from the map.                                                           *)

CloseTarget(f) == fd2user[f]

\* The user is found open: setClose().  The branch "already closed" exists in
\* the code; it is reachable here if a closed user can be found in the map.
SetClose(f) ==
    /\ lockF2U = "free"
    /\ CloseTarget(f) # NoUser /\ CloseTarget(f) \notin closed
    /\ closed' = closed \cup {CloseTarget(f)}

NothingToClose(f) ==
    /\ lockF2U = "free"
    /\ CloseTarget(f) = NoUser \/ CloseTarget(f) \in closed

Erase_StaysMapped(f) == UNCHANGED fd2user /\ lockF2U' = "free"

Erase(f) ==
    /\ fd2user' = [fd2user EXCEPT ![f] = NoUser]
    /\ lockF2U' = "free"

-----------------------------------------------------------------------------
(* ioprocessor().                                                          *)

\* An event with the read flag is handled as a read, whatever else is set.
\* epoll sets it for a failed connection too; WSAPoll may report only the error.
Readable(f) ==
    fd2user[f] # NoUser /\ (data[fd2user[f]] > 0 \/ peer[fd2user[f]] = "broken")

Event(f, k) == [fd |-> f, kind |-> k]

ReadFds == {f \in Fds : Readable(f)}
IdleFds == {f \in Fds : fd2user[f] # NoUser /\ ~Readable(f)}

\* The flag with which each readable descriptor is reported.
Flags ==
    {k \in [ReadFds -> {"read", "error"}] :
        \A f \in ReadFds : k[f] = "error" => ErrorOnly /\ peer[fd2user[f]] = "broken"}

BatchOf(k, w) ==
    {e \in {Event(Listen, "read")} : backlog > 0}
    \cup {Event(f, k[f]) : f \in ReadFds} \cup {Event(f, "write") : f \in w}

\* sp_wait() reports every descriptor with something to read, and those that
\* are armed for writing and writable: any of the healthy ones.
Batches == {BatchOf(k, w) : k \in Flags, w \in SUBSET IdleFds}

IoExit == ioPc' = "exit" /\ batch' = {}

IoWait ==
    /\ ioPc = "wait"
    /\ \/ /\ shutdown
          /\ IoExit
       \/ /\ ~shutdown
          /\ batch' \in Batches \ {{}}
          /\ ioPc' = "next"
    /\ UNCHANGED <<mainVars, userVars, ioFd, ioUser, cursor, misrouted, monVars, wkVars, held, envVars>>

\* epoll_wait() fails (EINTR included): the loop is left for good.
IoWaitFail ==
    /\ ioPc = "wait" /\ ~shutdown
    /\ IoExit
    /\ UNCHANGED <<mainVars, userVars, ioFd, ioUser, cursor, misrouted, monVars, wkVars, held, envVars>>

\* The next event of the batch, unless the server was stopped meanwhile.
IoNext ==
    /\ ioPc = "next"
    /\ \/ shutdown /\ IoExit /\ UNCHANGED ioFd
       \/ ~shutdown /\ batch = {} /\ ioPc' = "wait" /\ UNCHANGED <<batch, ioFd>>
       \/ /\ ~shutdown
          /\ \E e \in batch :
                /\ e.fd # Listen
                /\ batch' = batch \ {e}
                /\ ioFd' = e.fd
                /\ ioPc' = CASE e.kind = "read"  -> "recv"
                             [] e.kind = "write" -> "findw"
                             [] e.kind = "error" -> "close"
    /\ UNCHANGED <<mainVars, userVars, ioUser, cursor, misrouted, monVars, wkVars, held, envVars>>

LimitReached == Connections >= MaxConnections

\* accept(): the kernel picks a descriptor that is not open.  It fails when
\* there is none, and the connection is closed at once over the limit.
IoAccept ==
    /\ ioPc = "next" /\ ~shutdown /\ lockF2U = "free"
    /\ \E e \in batch : e.fd = Listen /\ batch' = batch \ {e}
    /\ LET free == {f \in Fds : Owners(f) = {}} IN
       \/ free = {} /\ UNCHANGED <<backlog, ioPc, ioFd>>
       \/ \E f \in free :
             /\ backlog' = backlog - 1
             /\ IF LimitReached THEN UNCHANGED <<ioPc, ioFd>>
                                ELSE ioPc' = "create" /\ ioFd' = f
    /\ UNCHANGED <<mainVars, userVars, ioUser, cursor, misrouted, monVars, wkVars, held, conns, peer, data, sent>>

\* createUser(fd): parseAddr() or sp_add() fails and the socket is closed, or
\* the user is published in the map and in the list.
IoCreate ==
    /\ ioPc = "create" /\ lockF2U = "free"
    /\ \/ UNCHANGED userVars
       \/ /\ userSeq' = userSeq + 1
          /\ fdOf' = [fdOf EXCEPT ![userSeq'] = ioFd]
          /\ fd2user' = [fd2user EXCEPT ![ioFd] = userSeq']
          /\ users' = Append(users, userSeq')
          /\ UNCHANGED <<closed, lockF2U>>
    /\ ioPc' = "next"
    /\ UNCHANGED <<mainVars, batch, ioFd, ioUser, cursor, misrouted, monVars, wkVars, held, envVars>>

IoRecv_AgainIsError ==
    /\ ioPc = "recv"
    /\ \/ Owners(ioFd) = {} /\ ioPc' = "close" /\ UNCHANGED data
       \/ \E u \in Owners(ioFd) :
             \/ /\ data[u] > 0
                /\ data' = [data EXCEPT ![u] = @ - 1]
                /\ ioPc' = "findr"
             \/ /\ data[u] = 0
                /\ ioPc' = "close"
                /\ UNCHANGED data
    /\ UNCHANGED <<mainVars, userVars, batch, ioFd, ioUser, cursor, misrouted, monVars, wkVars, held, backlog, conns, peer, sent>>

\* recv() on the descriptor number of the event, before any lookup: the socket
\* may be gone, may be that of a closed user, or of a newer one.
IoRecv ==
    /\ ioPc = "recv"
    /\ \/ Owners(ioFd) = {} /\ ioPc' = "close" /\ UNCHANGED data
       \/ \E u \in Owners(ioFd) :
             \/ /\ data[u] > 0
                /\ data' = [data EXCEPT ![u] = @ - 1]
                /\ ioPc' = "findr"
             \/ /\ data[u] = 0
                /\ ioPc' = IF peer[u] = "broken" THEN "close" ELSE "next"
                /\ UNCHANGED data
    /\ UNCHANGED <<mainVars, userVars, batch, ioFd, ioUser, cursor, misrouted, monVars, wkVars, held, backlog, conns, peer, sent>>

\* findUser(fd), for a read and for a write event.
IoFind ==
    /\ ioPc \in {"findr", "findw"} /\ lockF2U = "free"
    /\ ioUser' = fd2user[ioFd]
    /\ ioPc' = CASE fd2user[ioFd] = NoUser -> "next"
                 [] fd2user[ioFd] # NoUser /\ ioPc = "findr" -> "handle"
                 [] fd2user[ioFd] # NoUser /\ ioPc = "findw" -> "send"
    /\ UNCHANGED <<mainVars, userVars, batch, ioFd, cursor, misrouted, monVars, wkVars, held, envVars>>

NextWorker == (cursor % NumWorkers) + 1

\* dispatchMsg(): to the next worker's queue, with a weak reference to the user,
\* or dropped when that queue is full.  Without a lane table it indexes an empty
\* vector, and the model stops the IO thread.
DispatchMsg(u) ==
    \/ /\ lanes
       /\ recvQueue' = IF Len(recvQueue[cursor]) < QueueCap
                       THEN [recvQueue EXCEPT ![cursor] = Append(@, u)]
                       ELSE recvQueue
       /\ cursor' = NextWorker
       /\ ioPc' = "next" /\ UNCHANGED misrouted
    \/ /\ ~lanes
       /\ misrouted' = TRUE
       /\ ioPc' = "exit" /\ UNCHANGED <<cursor, recvQueue>>

\* onRecv() fails on a closed user, or when the cache cannot take what a
\* broken peer sent.  Else getRecvMsg() finds no complete message yet, or one
\* that is dispatched.
IoHandle ==
    /\ ioPc = "handle"
    /\ \/ /\ ioUser \in closed \/ peer[ioUser] = "broken"
          /\ ioPc' = "close"
          /\ UNCHANGED <<ioUser, cursor, misrouted, recvQueue>>
       \/ /\ ioUser \notin closed
          /\ ioPc' = "next" /\ ioUser' = NoUser
          /\ UNCHANGED <<cursor, misrouted, recvQueue>>
       \/ /\ ioUser \notin closed
          /\ DispatchMsg(ioUser)
          /\ ioUser' = NoUser
    /\ UNCHANGED <<mainVars, userVars, batch, ioFd, monVars, wkPc, wkUser, held, envVars>>

\* sendData(): SOCK_CLOSED on a closed user; SEND_FAIL when there was something
\* to send and the peer is gone.
IoSend ==
    /\ ioPc = "send"
    /\ \/ /\ ioUser \notin closed /\ peer[ioUser] = "broken"
          /\ ioPc' = "close" /\ UNCHANGED ioUser
       \/ ioPc' = "next" /\ ioUser' = NoUser
    /\ UNCHANGED <<mainVars, userVars, batch, ioFd, cursor, misrouted, monVars, wkVars, held, envVars>>

\* onIOError(fd).
IoClose ==
    /\ ioPc = "close"
    /\ \/ /\ SetClose(ioFd)
          /\ lockF2U' = "io" /\ ioPc' = "erase"
          /\ UNCHANGED ioUser
       \/ /\ NothingToClose(ioFd)
          /\ ioPc' = "next" /\ ioUser' = NoUser
          /\ UNCHANGED <<closed, lockF2U>>
    /\ UNCHANGED <<mainVars, userSeq, fdOf, fd2user, users, batch, ioFd, cursor, misrouted, monVars, wkVars, held, envVars>>

IoErase ==
    /\ ioPc = "erase"
    /\ Erase(ioFd)
    /\ ioPc' = "next" /\ ioUser' = NoUser
    /\ UNCHANGED <<mainVars, userSeq, fdOf, closed, users, batch, ioFd, cursor, misrouted, monVars, wkVars, held, envVars>>

-----------------------------------------------------------------------------
(* monitor(): its variable user keeps the last user alive until the next   *)
(* popFrontUser() returns.                                                 *)

MonPop ==
    /\ monPc = "pop"
    /\ \/ /\ shutdown
          /\ monPc' = "exit" /\ monUser' = NoUser
          /\ UNCHANGED users
       \/ /\ ~shutdown /\ users = <<>> /\ monUser # NoUser
          /\ monUser' = NoUser
          /\ UNCHANGED <<monPc, users>>
       \/ /\ ~shutdown /\ users # <<>>
          /\ monUser' = Head(users) /\ users' = Tail(users)
          /\ monPc' = "expire"
    /\ UNCHANGED <<mainVars, userSeq, fdOf, closed, fd2user, lockF2U, ioVars, expired, notified, wkVars, held, envVars>>

\* isExpired(now): the clock decides.
MonExpire ==
    /\ monPc = "expire"
    /\ \/ monPc' = "close" /\ expired' = expired \cup {monUser}
       \/ monPc' = "check" /\ UNCHANGED expired
    /\ UNCHANGED <<mainVars, userVars, ioVars, monUser, notified, wkVars, held, envVars>>

\* closeUser(user->_fd): by descriptor number, not by user.
MonClose ==
    /\ monPc = "close"
    /\ \/ /\ SetClose(fdOf[monUser])
          /\ lockF2U' = "mon" /\ monPc' = "erase"
       \/ /\ NothingToClose(fdOf[monUser])
          /\ monPc' = "check"
          /\ UNCHANGED <<closed, lockF2U>>
    /\ UNCHANGED <<mainVars, userSeq, fdOf, fd2user, users, ioVars, monUser, expired, notified, wkVars, held, envVars>>

MonErase ==
    /\ monPc = "erase"
    /\ Erase(fdOf[monUser])
    /\ monPc' = "check"
    /\ UNCHANGED <<mainVars, userSeq, fdOf, closed, users, ioVars, monUser, expired, notified, wkVars, held, envVars>>

\* onDisconnect() for a closed user, which then leaves the list for good.
MonCheck ==
    /\ monPc = "check"
    /\ IF monUser \in closed
         THEN notified' = [notified EXCEPT ![monUser] = @ + 1] /\ UNCHANGED users
         ELSE users' = Append(users, monUser) /\ UNCHANGED notified
    /\ monPc' = "pop"
    /\ UNCHANGED <<mainVars, userSeq, fdOf, closed, fd2user, lockF2U, ioVars, monUser, expired, wkVars, held, envVars>>

-----------------------------------------------------------------------------
(* worker(): the stop flag of the queue wins over waiting messages.        *)

WkPop(w) ==
    /\ wkPc[w] = "pop"
    /\ \/ /\ stopped
          /\ wkPc' = [wkPc EXCEPT ![w] = "exit"]
          /\ UNCHANGED <<recvQueue, wkUser>>
       \/ /\ ~stopped /\ recvQueue[w] # <<>>
          /\ recvQueue' = [recvQueue EXCEPT ![w] = Tail(@)]
          /\ IF Alive(Head(recvQueue[w]))
               THEN /\ wkUser' = [wkUser EXCEPT ![w] = Head(recvQueue[w])]
                    /\ wkPc' = [wkPc EXCEPT ![w] = "check"]
               ELSE UNCHANGED <<wkUser, wkPc>>
    /\ UNCHANGED <<mainVars, userVars, ioVars, monVars, held, envVars>>

WkCheck_Unchecked(w) ==
    /\ wkPc[w] = "check"
    /\ wkPc' = [wkPc EXCEPT ![w] = "run"]
    /\ UNCHANGED <<mainVars, userVars, ioVars, monVars, recvQueue, wkUser, held, envVars>>

\* isClosed() is tested once, before onRecvMsg().
WkCheck(w) ==
    /\ wkPc[w] = "check"
    /\ IF wkUser[w] \in closed
         THEN /\ wkPc' = [wkPc EXCEPT ![w] = "pop"]
              /\ wkUser' = [wkUser EXCEPT ![w] = NoUser]
         ELSE /\ wkPc' = [wkPc EXCEPT ![w] = "run"]
              /\ UNCHANGED wkUser
    /\ UNCHANGED <<mainVars, userVars, ioVars, monVars, recvQueue, held, envVars>>

\* onRecvMsg() returns, or the message was a heartbeat.
WkDone(w) ==
    /\ wkPc[w] = "run"
    /\ wkPc' = [wkPc EXCEPT ![w] = "pop"]
    /\ wkUser' = [wkUser EXCEPT ![w] = NoUser]
    /\ UNCHANGED <<mainVars, userVars, ioVars, monVars, recvQueue, held, envVars>>

-----------------------------------------------------------------------------
(* start() launches the IO thread and the monitor first and fills the lane *)
(* table last.  stop() sets _shutdown, then stops the queues;              *)
(* serveUtilStop() joins every thread; close() drops the users.            *)

Started ==
    /\ main = "starting"
    /\ main' = "serving" /\ lanes' = TRUE
    /\ UNCHANGED <<shutdown, stopped, userVars, ioVars, monVars, wkVars, held, envVars>>

Stop ==
    /\ main = "serving"
    /\ main' = "stopping" /\ shutdown' = TRUE
    /\ UNCHANGED <<lanes, stopped, userVars, ioVars, monVars, wkVars, held, envVars>>

StopQueues_NotStopped ==
    /\ main = "stopping"
    /\ main' = "joining" 
    /\ UNCHANGED <<lanes, shutdown, stopped, userVars, ioVars, monVars, wkVars, held, envVars>>

StopQueues ==
    /\ main = "stopping"
    /\ main' = "joining" /\ stopped' = TRUE
    /\ UNCHANGED <<lanes, shutdown, userVars, ioVars, monVars, wkVars, held, envVars>>

Join ==
    /\ main = "joining"
    /\ ioPc = "exit" /\ monPc = "exit" /\ \A w \in Workers : wkPc[w] = "exit"
    /\ main' = "joined"
    /\ recvQueue' = [w \in Workers |-> <<>>]
    /\ UNCHANGED <<lanes, shutdown, stopped, userVars, ioVars, monVars, wkPc, wkUser, held, envVars>>

CloseServer ==
    /\ main = "joined"
    /\ main' = "closed"
    /\ fd2user' = [f \in Fds |-> NoUser]
    /\ users' = <<>>
    /\ UNCHANGED <<lanes, shutdown, stopped, userSeq, fdOf, closed, lockF2U, ioVars, monVars, wkVars, held, envVars>>

-----------------------------------------------------------------------------
IoStep ==
    IoWait \/ IoNext \/ IoAccept \/ IoCreate \/ IoRecv \/ IoFind \/ IoHandle
    \/ IoSend \/ IoClose \/ IoErase
MonStep == MonPop \/ MonExpire \/ MonClose \/ MonErase \/ MonCheck
WkStep(w) == WkPop(w) \/ WkCheck(w) \/ WkDone(w)
MainStep == StopQueues \/ Join \/ CloseServer

Next ==
    \/ ClientConnect \/ \E u \in Users : PeerSend(u) \/ PeerBreak(u)
    \/ \E o \in Others : Release(o) \/ \E u \in Users : Hold(o, u)
    \/ IoStep \/ IoWaitFail
    \/ MonStep
    \/ \E w \in Workers : WkStep(w)
    \/ Started \/ Stop \/ MainStep

Spec == Init /\ [][Next]_vars

\* Every thread of the server keeps running: the handlers return, and whoever
\* locked a user releases it.  Nothing forces clients, expiry or stop().
Fairness ==
    /\ WF_vars(IoStep) /\ WF_vars(MonStep)
    /\ \A w \in Workers : WF_vars(WkStep(w))
    /\ \A o \in Others : WF_vars(Release(o))
    /\ WF_vars(Started) /\ WF_vars(MainStep)

FairSpec == Spec /\ Fairness

-----------------------------------------------------------------------------
(* Properties.                                                             *)

\* Two live users never have the same descriptor, and the map leads from a
\* descriptor to its own user: although closeUser() works by descriptor number
\* and numbers are reused, the monitor and the IO thread never close a user
\* in the place of another one.  Nor are there ever more connections than allowed.
DescriptorOwned ==
    /\ Connections <= MaxConnections
    /\ \A u, v \in 1..userSeq : u # v /\ Alive(u) /\ Alive(v) => fdOf[u] # fdOf[v]
    /\ \A f \in Fds : fd2user[f] # NoUser => fdOf[fd2user[f]] = f
    /\ monPc \in {"close", "erase"} => fd2user[fdOf[monUser]] \in {NoUser, monUser}

\* A user is closed only because it expired or its own connection failed; an
\* event that is stale when it is handled never closes the user that got the
\* descriptor number next.
CloseJustified == \A u \in closed : u \in expired \/ peer[u] = "broken"

\* Every dispatched message goes through a configured lane to a worker.
Routed == ~misrouted

\* A user whose connection failed is closed, as long as the IO thread runs,
\* whatever the other events and the monitor do; and a closed user is reported
\* with onDisconnect() and then destroyed, which closes its socket, unless the
\* server is stopped before.
BrokenIsReclaimed ==
    \A u \in Users :
        /\ (u <= userSeq /\ peer[u] = "broken") ~> (u \in closed \/ ioPc = "exit")
        /\ u \in closed ~> (shutdown \/ (notified[u] = 1 /\ ~Alive(u)))

\* stop() ends every thread, serveUtilStop() and close() return, and no user
\* outlives them except while another thread has it locked.
StopCompletes == shutdown ~> (main = "closed" /\ \A u \in Users : ~Alive(u))

-----------------------------------------------------------------------------
(* The server implements UserLifecycle.                                    *)

PhaseOf(u) ==
    CASE u > userSeq -> "none"
      [] u <= userSeq /\ ~Alive(u) -> "gone"
      [] u <= userSeq /\ Alive(u) /\ notified[u] > 0 -> "notified"
      [] u <= userSeq /\ Alive(u) /\ notified[u] = 0 /\ u \in closed -> "closed"
      [] OTHER -> "open"

Phase == [u \in Users |-> PhaseOf(u)]
Pins == [t \in Workers \cup Others |-> IF t \in Workers THEN wkUser[t] ELSE held[t]]
Serving == {w \in Workers : wkPc[w] = "run"}
Down == main \in {"joined", "closed"}

Life == INSTANCE UserLifecycle WITH
    phase <- Phase, pin <- Pins, serving <- Serving, down <- Down

\* Every step of the server is a step that the lifecycle allows, or none.
ImplementsLifecycle == Life!Spec
=============================================================================
