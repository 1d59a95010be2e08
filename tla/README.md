# TLA+ verification of tszy-ult

tszy-ult is a C++17 network framework: a multi-threaded TCP server and client
library (`src/zbf`), database clients with thread pools (`src/wjp`), and the
servers built on them (`src/lygc`). This directory models the parts of it in
which threads, callbacks, peers and the kernel interleave, and the algorithms
they rest on; checks the models with TLC; and proves properties of the write
path, the server, the request contexts, the database pools and their proxies,
the asynchronous and the ASIO client and the gateway with TLAPS.

## 1. The system

| Part | Source | State | Operations |
|---|---|---|---|
| `tcpsock_user` | `zbf/socket_tcp_v5.hpp` 57-217, 1800-1841 | write queue, write flag, epoll descriptor, closed flag | `post`, `enableWrite`, `sendData`, `onRecv`, `leaveMonitor` |
| `tcpsock_server` | `zbf/socket_tcp_v5.hpp` 231-776 | map descriptor → user, list of users, worker queues, lanes | IO thread, monitor thread, workers, `start`, `stop`, `serveUtilStop`, `close` |
| `SafeQueue` | `zbf/safequeue.hpp` | bounded queue, stop flag | `push`, `pop_timeout`, `requeue`, `stop`, `raw_pop` |
| `NetServer`, `NetUser` | `lygc/net_server.hpp` | request contexts in 16 shards, handlers | `onRequest`, `savePenddingReq`, `response`, `cleanupUserContext` |
| `NetClient` | `lygc/net_server.hpp` 89-153 | handlers by serial number | `request`, `onResponse` |
| asynchronous clients | `zbf/socket_tcp_v5.hpp` 1261-1793 | connections, write queues, monitored set | connect, reconnect, heartbeat, send, receive |
| synchronous clients and pools | `zbf/socket_tcp_v5.hpp` 783-1253 | connections, idle list | request/response, borrow, return |
| database pools | `wjp/{redis,mysql,mongo}_client.hpp` | queue, clients, retry counters | `submit`, worker, `stop` |
| database clients | the same files | one connection each, cached handles | commands, statements, transactions |
| serialisation | `fszm/serialize_helper.hpp`, the request classes | | `serialize`, `deserialize` |
| DB proxies | `lygc/dbproxy_*.hpp` | pending contexts per slot and shard | `submit`, `onResponseBase`, clean-up, shutdown |
| framing | `_PopMsg`, `zbf/memchunk.hpp`, `lygc/lymsg_protocol.hpp` | receive cache | cut messages out of a byte stream |
| ASIO transport | `zbf/asio_socket_tcp.hpp` | as the epoll server, with strands | the same, asynchronously |
| timers, statistics | `zbf/timer_helper.hpp`, `zbf/request_stat.hpp` | wheel; histogram | tick; record, snapshot |
| gateway, handshake | `lygc/gate_server.hpp`, `handshake_helper_v2.hpp` | key exchange per user | handshake messages, encryption |
| central configuration | `lygc/central_*.hpp` | table of servers | query |

How they interact. The IO thread accepts connections, reads, cuts messages and
gives them to the queues of the workers together with a *weak* reference to the
user. A worker locks that reference and runs the handler. The handler answers at
once, or saves a context and lets another thread (an asynchronous client's, or a
database pool's) answer later; that thread takes the context, locks the weak
reference in it and posts. The monitor thread expires users, and calls
`onDisconnect()` when it finds one closed, which cleans up its contexts. The
socket is closed only when the last reference to the user goes, wherever that is.
A server that calls other servers does so through an asynchronous client, whose
`NetClient` finds the handler of an answer by its serial number, or through a
pool of blocking clients; both reconnect by themselves. The gateway is a
`NetServer` whose users agree on a key first and then encrypt.

What is hard here: four kinds of threads share each user; descriptor numbers are
reused while events for the old connection are still in a batch; closing is seen
by others half done; contexts are saved, taken and cleaned up concurrently; and
shutdown has to end all of it in the right order. `PROJECT.json` lists each such
hazard with its line.

## 2. Modules

```
  TcpServer --implements--> UserLifecycle <--builds on-- NetServer
                                          <--builds on-- DBProxy
  DbPool    --implements--> RequestPool   <--builds on-- DBProxy
  WriteChannelProofs, TcpServerProofs, NetServerProofs, DbPoolProofs, AsyncClientProofs
            --EXTENDS--> WriteChannel, TcpServer, NetServer, DbPool, AsyncClient
  DatabaseProofs --EXTENDS--> DBProxy, MongoPool
  GateProofs     --EXTENDS--> Gate, AsioConnect
  Cipher    --EXTENDS--> Codec
  MCPools   --EXTENDS--> WriteChannel, DbPool, ClientPool
  MCLibrary --EXTENDS--> MongoPool, MySqlClient, RedisClient, Gate, Cipher,
                         Framing, TimerWheel, RequestStat, AsioConnect
```

The threads of a server and of its clients:

| Module | Models | Correspondence |
|---|---|---|
| `WriteChannel` | the write path of one user | one action per step between which another thread can run; `post()` keeps `_lockWRQ`, `leaveMonitor()` does not take it. `enableWrite()` is three steps (load, exchange, `epoll_ctl`). Bytes are numbered, a message is an interval |
| `UserLifecycle` | what the server promises the applications about a user | abstract: none → open → closed → notified → gone, pins, running handlers |
| `TcpServer` | IO thread, monitor, workers, start and stop | references are explicit (`Alive`); a descriptor is open while its user is alive; `closeUser()` is two steps |
| `NetServer` | request contexts | the steps of `UserLifecycle`, each with what `NetServer` does in it; the clean-up visits the shards one by one |
| `AsyncClient` | `tcpsock_ha_asynclt` with its manager's three threads, and `NetClient` on top | a message is a header and a body unit, so that a connection can break in the middle of one; `post()` reads `_efd` in one step and uses it in another; queue and receive cache belong to the object and outlive the connection |
| `ClientPool` | `tcpsock_client`, `tcpsock_cltpool`, `tcpsock_ha_cltpool` | a sender makes one `send()` with an acknowledgement: choice of the pool, idle client or new connection, sending, waiting, second try; `keepAlive()` runs beside |
| `AsioServer` | the ASIO server and its users | an action is one handler of the IO strand or one callback of a worker strand, in FIFO order per strand; a raw stream's handshake calls its handler at once, a TLS handshake is an operation that the peer may never end; `stop()` is called from outside between any two |
| `AsioConnect` | `connect`, `async_connect` and `disconnect` of the ASIO client | the handlers of each attempt with its own `done` and timer, over the one `_user` that all attempts share; a call may come while an earlier attempt is under way |

Databases:

| Module | Models | Correspondence |
|---|---|---|
| `RequestPool` | what a pool promises its proxy | abstract: accept, respond once, finish |
| `DbPool` | `redis_client_pool` (MySQL's has the same threads) | one action per critical section or blocking call of `worker()` |
| `DBProxy` | the proxy's contexts and its shutdown | composes `UserLifecycle` and `RequestPool` |
| `MongoPool` | `mongo_client_pool`, `mongo_client` | the driver's pool is external; a wrapper is attached to one of its connections, caches handles and is detached; writes, bulks and transactions apply operation by operation, and those of a transaction at once, as they do not get its session; an answer may be lost |
| `MySqlClient` | `mysql_client` as its pool uses it | every call to the server succeeds, fails, or loses the connection (which rolls back); the server's state is explicit |
| `RedisClient` | `redis_client` | a command is sent at most twice; its reply is read by the form that the method uses; `handleRequest()` answers with it |

Algorithms and the gateway:

| Module | Models | Correspondence |
|---|---|---|
| `Framing` | `packMsg`, `unpackMsg`, `memchunk`, `onRecv`, `_PopMsg` | a stream of cells cut into chunks of any size; the first cell of a message is its header |
| `Codec` | `serialize_helper` and the fields of each message class | a class is the list of types that it writes and the list that it reads |
| `Cipher` | `symmetric_encrypt` with its tests of the key, its failures and its zero padding; chunked RSA, of which any chunk may fail | the primitives of OpenSSL are small invertible functions; an operator gives the set of results a call may have |
| `Gate` | gateway, `handshake_helper`, the example client | a key is named by the handshake that made it; workers share the one helper |
| `TimerWheel` | `timer_helper` | the real slot tables; the list of one interval with its tasks, run one by one; the others only take time |
| `RequestStat` | `RequestStat`, `Histogram`, the bill of `ReqStatLogger` | each atomic cell is its own variable; `observe()` and `snapshot()` go cell by cell; a bill that counts no request is not logged |

`MC*` modules give TLC small sets; each `.cfg` is a run of section 3.
`MCLibrary` and `MCPools` put parts that share no state beside each other:
`part` is chosen once, at the start, and only that part moves. The fairness of
the three parts of `MCPools` is stated there, each under its own `part`.
Definitions whose name ends in `_Something` are plausible bugs: variants of the
definition that follows them, used to see that a property can fail.

### Abstractions

* Message contents, logging and texts are left out, except in `Codec`, `Cipher`
  and `Framing`, which are about them. A message in `TcpServer` is a unit; that a
  read completes no message is a choice of `IoHandle`. Data the receive cache
  refuses is a failure of the peer; the cache itself, with its limit, is in
  `Framing`.
* Time is a choice: a user may be found expired whenever the monitor looks, a
  timed wait may end, a back-off may end, a heartbeat may be due. `TimerWheel`
  alone counts.
* The kernel: `accept()` returns any number that is not open; epoll reports
  every readable descriptor and any writable ones; `epoll_wait()` may fail.
* One listening socket and one lane. `start()` creates at least two workers, but
  a lane may have a single one.
* `createUser()` publishes a user in the map and in the list in one step: until
  both are done only the IO thread, which is the one that does it, can reach it.
* `NetServer` and `DBProxy` use the lifecycle and not the server itself;
  `ImplementsLifecycle`, checked by `server_live` and proved in
  `TcpServerProofs`, is what allows that. Unlike the lifecycle, they know that
  the monitor holds the user whose `onDisconnect()` it runs (`Drop`, `UserStep`).
  In the same way `DBProxy` relies on `ImplementsPool`.
* Widths and sizes are constants: a byte has `ByteValues` values, an `int` ends
  at `IntMax`, a block has `BlockLen` bytes. Each instance keeps the relations
  of the real values that matter, such as a body that is legal for the header
  and too large for the cache.
* `swept`, `sweeping`, `posted`, `wire`, `expired`, `answers`, `openFails` and
  the like are history: no action is guarded by them, except where they bound
  the behaviour.

## 3. Runs

| Run | Instance | Shows |
|---|---|---|
| `pools`, write queue | 2 posters, messages of 1 and 2 units, 5 units, `MaxPendingMsg` 1, 1 read event | no lost wake-up (`Armed`); bytes leave in order and none is lost (`StreamIntact`); all are delivered unless the user is closed (`Delivered`) |
| `pools`, database pool | 2 workers, 3 requests, queue of 1, 1 retry | requests are neither lost nor answered twice, retries and queue are bounded (`Conserved`); clients are exclusive and not leaked (`ClientsSound`); `Answered`, `StopCompletes`, `ImplementsPool` |
| `pools`, client pool | 2 senders, 2 pools of 2 that open with one client each, 2 rounds of `keepAlive()` | clients are in one place each and counted (`ClientsCounted`); an acknowledgement is the request's own, and a request is executed at most once (`AckIsOwn`); `send()` returns unless the server swallows the request (`SendReturns`) |
| `server_safety` | 3 connections over 2 descriptors, limit 2, no messages, 1 worker, 1 other thread | live users own their descriptors although numbers are reused, and the limit holds (`DescriptorOwned`); no user is closed for another's failure (`CloseJustified`) |
| `server_live` | 2 connections over 1 descriptor, 1 message, 1 worker, 1 other thread; the poll may report an error alone | a failed connection is closed, reported and destroyed (`BrokenIsReclaimed`); `stop()` ends the server (`StopCompletes`); `ImplementsLifecycle` |
| `net` | 2 users, 1 worker, 2 responders, 2 requests, 2 answers each, 2 shards | at most one answer per request, its own, to its own user (`AnsweredOnce`); what the clean-up guarantees (`SweptStaysClean`); an answered request leaves no context (`ReplyResolves`) |
| `proxy` | 2 users, 2 workers, 1 pool thread, 2 requests, 2 shards | contexts outlive their use at shutdown (`ContextsOutliveUse`); they are orphaned in one way only (`OrphanWasOvertaken`), and every other one is resolved (`PendingResolved`) |
| `async` | 1 client, 2 requests, queues of one message, 1 break at any unit, 1 heartbeat or unasked message | the poll, the maps and the queues agree across reconnections (`EventsSound`); garbling needs a message cut by a break (`GarbledOnlyIfCut`); each handler is called once unless its request was lost (`ResolvedOnce`) |
| `asio` | 2 connections, limit 1, with and without TLS; the first carries 2 messages, each in or out; batches and read queue of 1, write queue of 2 | order and number of callbacks (`CallbackOrder`); the chain of writes (`WriteGoesOn`); the set of users (`UserQueueSound`); what `stop()` achieves (`StopCompletes`) |
| `library` | nine parts, one at a time (below) | one or two properties of each |
| `server_early` | a client that connects while `start()` runs | violates `Routed` |
| `serial` | the framing part of `library` | violates `SerialKept` |
| `rollback` | the MongoDB part of `library` | violates `RollbackUndoes` |
| `period` | the timer part of `library` | violates `PeriodKept` |

The parts of `library`:

| Part | Instance | Property |
|---|---|---|
| MongoDB | 2 workers, 2 connections, a transaction of 2 operations beside a bulk of 2 or a write, queue of 1, 1 retry | `HandlesOwned`: no handle outlives its attachment. `AppliedAsAnswered`: what the server applied is a prefix of the request, all of it after success, nothing when the pool was busy or nothing was started |
| MySQL | 3 requests on one client, the middle one of six kinds, rows with a wrong column count among them | `SqlAtomic`: a transaction is all or nothing, and never reaches into the next request, unless commit or rollback was not confirmed |
| Redis | each method, every reply of up to 4 elements, integers around `IntMax` | `RedisCall`: executed as the caller is told, and the caller gets what the server sent |
| gateway | 2 clients, 2 workers, ECDH beside ECDH, DH or a short key, 2 requests and 1 reconnection of each; each step of a handshake may fail | `GateKeysAgree`: interleaved handshakes never mix keys. `RefusedForCause`: silent drops have one of two causes |
| wire | about a thousand messages of eight classes, plain texts of up to 5 bytes under every cipher and mode, keys of 0, 16 and 24 bytes, every failing call | `WireRoundTrip`: what is written is read back, zero padding aside, or a failure is reported: never a part of it, and, of the lengths that are passed, never under a key shorter than the cipher reads |
| framing | up to 3 messages, bodies of 0 to 7 cells, in chunks of 1 to 5, a cache that grows by blocks of 2 | `FramesIntact`: all messages before an oversized one are dispatched whole and in order (nothing is claimed of what follows it); the cache never holds more than was allocated; only a message that nearly fills it closes the connection |
| timer | every interval of the ten-second table, 1 or 2 tasks that may end, `stop()`, 125 ticks (two turns of the table) | `TimerRegular`: no task skips a due tick or runs twice, whichever others end; gaps are even except at the turn of the table |
| statistics | 3 buckets, costs in each, 2 requests, 2 snapshots | `StatSound`: each request is counted by one logged bill; each cost is in one snapshot, which is lost with it when it counts no request; an undisturbed bill is exact |
| ASIO client | 3 attempts, blocking or not, that may overlap, and `disconnect()` | `ConnectSound`: an attempt is answered at most once; one that no other overlaps uses no null `_user`, and starts and leaves its own user exactly when it succeeds |

The bounds are the smallest at which the cases meet: a limit of one makes a
queue full, over-full and put back into; two descriptors and three connections
give reuse while another connection is open; two shards let a context be saved
behind the clean-up; two answers to one request meet in two responders; pools
that open with one client of two make senders meet in creating the second; a
second request finds the queue that a broken connection has left. Symmetry is
used in runs without liveness only. Deadlock is not checked because every model
may stop: behaviours are bounded, clients may do nothing, and a stopped server
is final. The liveness properties say what must not get stuck instead.

### Fairness

Weak fairness for each thread: the operating system runs it, and locks are held
for a few statements. Handlers and database calls return (the clients set
timeouts), and whoever locks a user releases it. Nothing is assumed of the
peers of a server, of expiry, or of the call of `stop()`. Further:

* `WriteChannel` and `AsyncClient`: a socket that is offered data again and
  again takes some eventually (strong fairness of the send).
* `DBProxy`: the pool answers what it accepted; `pools` shows that for a pool
  that is not stopped, and a proxy stops its pools only after its own threads.
* `AsyncClient`: a server that can be reached again is reached eventually (the
  monitor tries at every round), epoll does not starve one descriptor, and the
  server answers whole messages. Connections may still break.
* `ClientPool`: a server gets to every request, and answers it or drops it. A
  failing `recv()` is not assumed: the socket is blocking, and waits for a
  silent server for ever.
* `AsioServer`, weak throughout: handlers posted to a strand run, a completed
  accept and an expired timer are handled, `stop()` goes on once it is called,
  and reads and writes on a closed socket complete. A peer owes nothing: a
  handshake, a read or a write on an open socket may stay outstanding for ever.

`epoll_wait()` may fail at any time in every run, so `BrokenIsReclaimed` and
`ResolvedOnce` allow for an IO thread that has ended.

### Where the code and its documents disagree

Four runs carry a violation:

| Run | Property | What happens |
|---|---|---|
| `server_early` | `Routed` | `start()` launches the IO thread before the lanes are configured: a message that comes first is dispatched through an empty table |
| `serial` | `SerialKept` | `htonll()` exchanges the halves of the serial and `ntohll()` does not: the receiver reads another number than was sent. An echoed serial is exchanged twice and matches again, which is why requests are answered (`FramesIntact`) |
| `rollback` | `RollbackUndoes` | `execTransaction()` calls the transaction's procedure without the session (`mongo_client.hpp` 411): the server applies each operation at once, and the answer -4, "transaction is rollback", leaves them applied |
| `period` | `PeriodKept` | the count starts again after 60 ticks, which 9 and 18 do not divide: a task documented to run every "1.5M" waits 15 ticks of ten seconds at the turn (`timer_helper.hpp` 114) |

Others are stated by what does hold:

* `lygc微服务架构说明.md` 257 limits the write queue to `MaxPendingMsg`; `post()`
  accepts one more and put-back adds another. Theorem `QueueBounded` proves
  `MaxPendingMsg + 2`.
* A handler that still runs when its user disconnects saves its context behind
  the clean-up (`net_server.hpp` 301). `SweptStaysClean`: the next clean-up
  after the user is gone removes it.
* A proxy gives the request to the pool before it saves the context
  (`dbproxy_redis.hpp` 58); a fast result finds none and is dropped.
  `OrphanWasOvertaken` and `PendingResolved`: this is the only way to an orphan.
* A reconnecting asynchronous client keeps half a message on either side
  (`socket_tcp_v5.hpp` 1595). `GarbledOnlyIfCut`: nothing else garbles.
* The ASIO server's `stop()` does not end the threads when a handler queued
  before it arms the acceptor or the timer again, or when a user was still in
  its handshake, which no timer covers (`LeftOver` in `StopCompletes`). Users
  that the timer stops stay in `_userQueue` and count against the limit
  (`UserQueueSound`).
* Calls of the ASIO client that overlap share `_user`: a handler of one attempt
  can go through a null `_user`, or start or drop the user of another.
  `ConnectSound` promises only the answers to such attempts; no document says
  more.
* The gateway answers a handshake with success although the share key was too
  short to set a key (`RefusedForCause`).

## 4. Proofs

| Module | Theorem | States |
|---|---|---|
| `WriteChannelProofs` | `TypeCorrect` | `WriteSpec => []WriteTypeOK` |
| | `NoLostWakeup` | `WriteSpec => []Armed` |
| | `StreamCorrect` | `WriteSpec => []StreamIntact` |
| | `QueueBounded` | `WriteSpec => []QueueBound` |
| `TcpServerProofs` | `DescriptorsAreOwn` | `Spec => []DescriptorOwned` |
| | `ClosesAreJustified` | `~ErrorOnly` implies `Spec => []CloseJustified` |
| | `LifecycleImplemented` | `Spec => ImplementsLifecycle` |
| `NetServerProofs` | `ResponsesAreOwn` | `Spec => []AnsweredOnce` |
| | `CleanupIsFinal` | `Spec => []SweptStaysClean` |
| `DbPoolProofs` | `ClientsAreSound` | `DbSpec => []ClientsSound` |
| | `RequestsConserved` | `DbSpec => []Conserved` |
| | `PoolImplemented` | `DbSpec => ImplementsPool` |
| `DatabaseProofs`, of `DBProxy` | `ContextsAreSafe` | `Spec => []ContextsOutliveUse` |
| | `OrphansAreOvertaken` | `Spec => []OrphanWasOvertaken` |
| `DatabaseProofs`, of `MongoPool` | `HandlesAreOwned` | `MongoSpec => []HandlesOwned` |
| | `AppliedIsAnswered` | `MongoSpec => []AppliedAsAnswered` |
| `GateProofs`, of `Gate` | `SessionKeysAgree` | `GateSpec => []GateKeysAgree` |
| | `RefusalsHaveCause` | `GateSpec => []RefusedForCause` |
| `GateProofs`, of `AsioConnect` | `ConnectIsSound` | `ConnectSpec => []ConnectSound` |
| `AsyncClientProofs` | `EventsAreSound` | `Spec => []EventsSound` |
| | `GarbledIsCut` | `Spec => []GarbledOnlyIfCut` |

They hold for every value of the constants that satisfies the named
assumptions of the modules: bounds are naturals (numbers of shards, of
asynchronous clients and of the operations of a MongoDB request positive), the
sets of descriptors and of pool workers are finite, messages are not empty,
workers are not among the other threads, there are as many MongoDB wrappers as
workers at least, the mixes of requests and of key exchanges are of the modelled
kinds, and the markers (`NoUser`, `NoFd`, `Listen`, `NoMongo`, `NoGate`,
`NoAttempt`, `"io"`, `"free"` and the like) are not members of the sets they stand
beside. TLC evaluates the assumptions in every run of the module. `MongoSpec`,
`GateSpec` and `ConnectSpec` are the parts of `MCLibrary` on their own.

None of the properties is inductive. Each is strengthened into an invariant
(`Inv`, or one named after the part), every action is proved to preserve every
conjunct, and the theorems follow.

**`WriteChannelProofs`.** `Inv` adds to `TypeOK`:

* `LockInv`: whoever is in the middle of `enableWrite()` owns `_lockWRQ`, and
  the owner is in the middle of it;
* `CloseInv`: which of closed, deregistered, descriptor and flag agree at each
  step of `closeUser()`;
* `ArmInv`: how the flag, the kernel's interest and the queue relate when the
  lock is free, and between the exchange and the `epoll_ctl` of either side. This
  is the argument for `Armed`: the IO thread disarms only while it holds the lock
  over an empty queue;
* `SizeInv`: the queue together with the message in flight is bounded. Put-back
  then cannot exceed the bound, as it returns what was counted before;
* `FailInv`: after a failed send the IO thread is on its way to close the user,
  so that nothing more is sent;
* `StreamInv`: the wire is `1..n`, and flight and queue continue it.

**`TcpServerProofs`.**

* `UserTypes`: every reference is to a user that was created;
* `ControlInv`: who owns `_lockF2U`, and what each thread holds at each label;
* `BacklogInv`: one accepted connection for each user created;
* `DescInv`: live users have distinct descriptors, and the number that an accept
  in progress has got belongs to none. Numbers are reused only after the
  last reference is gone (`AliveBefore`: a destroyed user does not come back),
  which is why closing by number cannot hit the wrong user;
* `LimitInv`: there is room while an accept is in progress;
* `ListInv`: the monitor has every unreported user exactly once, in the list or
  in its hand; so a user is destroyed only after its report, or by `close()`;
* `ReasonInv`, for `ClosesAreJustified`: the reason for which each thread that is
  about to close a user does so. With `ErrorOnly` (a poll that reports an error
  without the read flag) it is not inductive, and the property is false.

The refinement maps each user to its phase (`Phase`), and the references of
workers and other threads to pins (`Pins`). Each step is a step of
`UserLifecycle`, or a stutter: `closeUser()` is `Close` at its first half, and
dropping the last reference, by whichever thread, is `Destroy`.

**`NetServerProofs`.**

* `OwnerInv`: a context belongs to the user that sent its request;
* `PairInv`: an id in use, by a thread, a context, a call or an answer on its
  way, stands for one request, so that a late answer finds its own context or none;
* `TokenInv`: one thread, one context or one posted answer has the right to
  answer a request;
* `PinInv`: a locked user exists, and a request under way has its user locked;
* `SweepInv`: the clean-up in progress has cleared the shards before the current
  one, and no thread can add a context for a user it is sweeping.

**`DbPoolProofs`.**

* `ControlInv`: which request and client a worker has at each label;
* `ClientInv`: a client is idle or with one worker, which alone may remove it;
* `PlaceInv`, `LostInv`: an unanswered request is in one place, at most and, until
  the join, at least;
* `RetryInv`: failed attempts and retries count alike;
* `SizeInv`: the queue and the requests that could be put back are bounded.

The step that needs an argument is taking a client when none is idle: the other
workers hold fewer clients than the pool has places, so one can be created
(`RoomForOne`, by cardinality). As requests move in few ways, `RequestSteps`
first shows that every step is one of eight, and the invariants about requests
are proved for those.

**`DatabaseProofs`, the proxy.** `Inv` adds to the types:

* `OrphanInv`: a request whose context is not saved yet has none; if its result
  has come, the pool thread that took it is about to miss the context or has
  missed it;
* `PinInv`: a locked user exists, and a worker in a request has its sender locked;
* `StopInv`: the order of `serveUtilStop()`: server down, pool down, contexts
  destroyed;
* `SweepInv`: as in `NetServerProofs`. A context of a swept user cannot be saved,
  so the result that overtook it is the only way to an orphan.

**`DatabaseProofs`, the MongoDB pool.** `PoolInv`, for the handles:

* `UpInv`: workers act only while the pool is up;
* `LoanInv`: a connection, and a wrapper, is idle or with one worker;
* `AttachInv`: between `attach()` and `detach()` the wrapper points to its
  worker's connection and has only its handles; otherwise it has none.

`MongoInv` adds `TokenInv` (a request without an answer is in the queue or with
one worker, once) and `StoredInv` (what the server has of a request, by where the
request is: a prefix, and nothing of one that may still be queued again).

**`GateProofs`, the gateway.** `GateInv`:

* `JobInv`: the worker inside `onHandshake()` has the lock, the shared helper
  then holds the key of its user, and an answer has both parts of that key or
  neither. Two workers never have handshakes of one client;
* `SessionInv`: a client makes one handshake; before its answer neither side has
  a key (`Fresh`), and after it each message is encrypted with the one key.

Both properties follow from the order of events on one connection, which is why
the invariant speaks of what is in the channels.

**`GateProofs`, the ASIO client.** `ConnectInv` is the types and, for each
attempt, `AttemptInv`: one that is not done is not answered; an earlier one that
is not done overlaps the last; past the resolver `_user` is the attempt's own, and
it stays so after a success, unless another attempt overlaps it.

**`AsyncClientProofs`.** `EventInv`:

* `LockInv`: who is inside `enableWrite(true)` has `_lockWRQ`, over a queue that
  is not empty;
* `MonInv`: who has `_lockMonitorColl`, and that a registered socket has its
  client in the maps except inside `addMonitored()`;
* `ArmInv`: flag, poll and queue of a client in the maps agree, except between
  the steps of a `post()` that holds the lock; a `post()` that is late for a
  removed client arms the poll only with messages waiting.

`StreamInv`, relative to it: the queue holds whole messages, of which the first
may be the rest of one; on a connection that did not begin with such a rest, what
is on its way in either direction is a sequence of whole messages (`Aligned`,
`Even`), also while one of them is half sent.

Only model-checked: `ClientPool`, `AsioServer`, `MySqlClient`, `RedisClient`,
`Framing`, `TimerWheel` and `RequestStat`; all liveness (fairness and `ENABLED`
are out of the prover's reach); and what recursive definitions compute (`Codec`,
on which `Cipher` rests: induction over data and `RECURSIVE` operators are out of
reach as well).

## 5. Not modelled

Parts with little to check:

* logging, allocation counters, signals, random numbers, HTTP, server
  configuration files: input and output;
* `heartbeat_helper`: whether a connection has expired is a choice of
  `TcpServer`, `AsyncClient` and `AsioServer`;
* central configuration: one synchronous query of a map of strings that is
  filled before `start()`;
* the database clients of the proxies (`dbclient_*`): one call of
  `NetClient::request()` with a serialised request; `AsyncClient` and `Codec`
  model what they call;
* the MySQL and MongoDB proxies: the functions of the Redis proxy, which
  `DBProxy` models, with other types;
* examples, other than the gateway's client, and tests.

Left out of parts that are modelled: several listening sockets and lanes,
`SafeQueue` without its condition variable, `tcpsock_client` used without a
pool, the second target of a high-availability asynchronous client, `post()`, the
heartbeat timer and `stop()` of the ASIO client, conversion of MySQL column types,
contents of MongoDB documents, digests and signatures of OpenSSL. Moreover:

* `AsyncClient` assumes headers of legal sizes and a receive cache below its
  limit. The error that `onRecv()` returns for a cache too long (1330, 1646) and
  the cache that `_PopMsg()` drops for a body too large (1855) are in `Framing`;
* `Cipher` gives 3DES in a stream mode no key of 16 bytes: the code does not
  measure it there, reads 24, and no caller passes one;
* `Gate` has no temporary key of fewer than 16 characters, of which `substr(16)`
  would throw: `creatHSReq()` always makes 32. An empty one, before it is
  stored, is modelled.

Known about the code and covered by no property, some for want of a promise to
check (see also the hazards without properties in `PROJECT.json`):

* two messages of one user can be handled by two workers at once and out of
  order (`socket_tcp_v5.hpp` 730);
* `_poolInvalid` is set and cleared by whoever comes last (1146);
* a timer task added after `start()` races the timer thread, which reads the
  lists without a lock (`timer_helper.hpp` 120);
* the database name given to a Redis client is never selected
  (`redis_client.hpp` 610);
* `handshake_helper_v2.hpp` 275 overwrites a key without freeing it, and a lost
  handshake message leaves the example client waiting;
* an error of the ASIO acceptor ends accepting (`asio_socket_tcp.hpp` 582).
