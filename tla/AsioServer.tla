----------------------------- MODULE AsioServer -----------------------------
(***************************************************************************)
(* The ASIO transport of src/zbf/asio_socket_tcp.hpp and asio_worker.hpp:   *)
(* tcpsock_server and tcpsock_user.  One thread runs the IO strand, whose   *)
(* handlers (posted functions and completions of reads and writes) run one  *)
(* at a time in FIFO order; the worker strand of a user runs its callbacks  *)
(* in FIFO order on another thread.  The application posts messages, stops  *)
(* users and stops the server from threads of its own.                      *)
(***************************************************************************)
EXTENDS Naturals, Sequences, FiniteSets

CONSTANTS
    MaxUsers,        \* bound: connections that can be accepted
    MaxConnections,  \* _maxConnections
    MaxRdQueueSize, MaxWrQueueSize, MaxBatchSize,
    MaxMsgs          \* bound, [Users -> Nat]: messages of the peer and of the application

ASSUME LimitsAssumption == MaxUsers \in Nat /\ MaxConnections \in Nat /\ MaxBatchSize \in Nat \ {0}

\* The users, named in the order their connections are accepted.
Users == 1..MaxUsers

VARIABLES
    tls,                    \* the streams are ssl_stream, not raw_stream
    acceptor, timer,        \* "off", "armed", or "ready": its handler is queued
    accepted,               \* connections accepted so far
    ioq,                    \* the IO strand: <<task, user, argument>>
    wq,                     \* [Users]: the worker strand, as seen by one user
    stop,                   \* [Users]: _stop; the socket is closed
    userQueue,              \* _userQueue
    hs, rd, wr,             \* [Users]: a handshake, a read, a write is outstanding:
                            \* "none", "armed", or "queued": its handler is queued
    readQueue, pending,     \* [Users]: _readQueue, _pending
    writeQueue,             \* [Users]: _writeQueue
    sent, posted,           \* [Users]: messages the peer has sent, the application posted
    stopping,               \* how far stop() is: "no", "cancelled", "swapped"
    running,                \* threads that have not left run(): "io", "worker"
    log, why                \* history, [Users]: callbacks so far; how the user was stopped

vars == <<tls, acceptor, timer, accepted, ioq, wq, stop, userQueue, hs, rd, wr, readQueue, pending,
          writeQueue, sent, posted, stopping, running, log, why>>
strands == <<ioq, wq>>
shake   == <<tls, hs>>
data    == <<shake, rd, wr, readQueue, pending, writeQueue, sent, posted>>
server  == <<acceptor, timer, accepted, stopping, running>>

All(x) == [u \in Users |-> x]

\* The bound on the messages of a user, in and out.
MayMore(u) == sent[u] + posted[u] < MaxMsgs[u]

\* start(): listening, accepting, the scan timer armed.
Init ==
    /\ tls \in BOOLEAN /\ acceptor = "armed" /\ timer = "armed" /\ accepted = 0
    /\ ioq = <<>> /\ wq = All(<<>>) /\ stop = All(FALSE) /\ userQueue = {}
    /\ hs = All("none") /\ rd = All("none") /\ wr = All("none")
    /\ readQueue = All(<<>>) /\ pending = All(FALSE) /\ writeQueue = All(<<>>)
    /\ sent = All(0) /\ posted = All(0) /\ stopping = "no" /\ running = {"io", "worker"}
    /\ log = All(<<>>) /\ why = All("none")

Worker(u, call) == wq' = [wq EXCEPT ![u] = Append(@, call)]

\* The IO thread runs the first handler of its strand, which may post another.
Runs(task, u) == "io" \in running /\ ioq # <<>> /\ Head(ioq)[1] = task /\ Head(ioq)[2] = u
Arg == Head(ioq)[3]
Done == ioq' = Tail(ioq)
DoneThen(task, u) == ioq' = Append(Tail(ioq), <<task, u, 0>>)

\* try_stop(): the first caller wins and closes the socket.
TryStop(u, who) == /\ stop' = [stop EXCEPT ![u] = TRUE]
                   /\ why' = [why EXCEPT ![u] = IF stop[u] THEN @ ELSE who]
-----------------------------------------------------------------------------
(* Accepting, on the IO thread.                                             *)

AcceptReady ==
    /\ acceptor = "armed" /\ acceptor' = "ready"
    /\ UNCHANGED <<timer, accepted, strands, stop, userQueue, data, stopping, running, log, why>>

\* handle_accept(): the handshake is posted and the next accept is armed; a
\* transient error only arms it; after any other error nothing is armed.
HandleAccept ==
    /\ acceptor = "ready" /\ "io" \in running
    /\ \/ /\ accepted < MaxUsers /\ accepted' = accepted + 1 /\ acceptor' = "armed"
          /\ ioq' = Append(ioq, <<"handshake", accepted + 1, 0>>)
       \/ acceptor' \in {"armed", "off"} /\ UNCHANGED <<accepted, ioq>>
    /\ UNCHANGED <<timer, wq, stop, userQueue, data, stopping, running, log, why>>

Full_OneMore == Cardinality(userQueue) > MaxConnections
Full == Cardinality(userQueue) >= MaxConnections

\* The handshake's handler.  currentConnections() and the insert are not one
\* critical section, but only this handler inserts.
Admit(u, ok) ==
    IF ok /\ ~Full THEN /\ userQueue' = userQueue \cup {u} /\ Worker(u, <<"connect">>)
                        /\ UNCHANGED <<stop, why>>
    ELSE TryStop(u, "quiet") /\ UNCHANGED <<wq, userQueue>>

\* The posted async_handshake(): raw_stream calls the handler, ssl_stream starts
\* an operation that ends when the peer plays its part.
Handshake(u) ==
    /\ Runs("handshake", u) /\ Done
    /\ \/ ~tls /\ Admit(u, TRUE) /\ UNCHANGED hs
       \/ tls /\ hs' = [hs EXCEPT ![u] = "armed"] /\ UNCHANGED <<wq, stop, userQueue, why>>
    /\ UNCHANGED <<tls, server, rd, wr, readQueue, pending, writeQueue, sent, posted, log>>

HandshakeDone(u) ==
    /\ hs[u] = "armed" /\ hs' = [hs EXCEPT ![u] = "queued"]
    /\ \E ok \in BOOLEAN : ioq' = Append(ioq, <<"shaken", u, ok>>)
    /\ UNCHANGED <<tls, server, wq, stop, userQueue, rd, wr, readQueue, pending, writeQueue, sent,
                   posted, log, why>>

HandleHandshake(u) ==
    /\ Runs("shaken", u) /\ Done /\ Admit(u, Arg)
    /\ hs' = [hs EXCEPT ![u] = "none"]
    /\ UNCHANGED <<tls, server, rd, wr, readQueue, pending, writeQueue, sent, posted, log>>
-----------------------------------------------------------------------------
(* Reading.                                                                 *)

\* The outstanding read ends: a message, an error (or a message of invalid
\* size), or operation_aborted once the socket is closed.
ReadDone(u) ==
    /\ rd[u] = "armed"
    /\ \/ /\ ~stop[u] /\ MayMore(u)
          /\ sent' = [sent EXCEPT ![u] = @ + 1]
          /\ ioq' = Append(ioq, <<"read", u, <<"msg", sent[u] + 1>> >>)
       \/ ~stop[u] /\ ioq' = Append(ioq, <<"readError", u, 0>>) /\ UNCHANGED sent
       \/ stop[u] /\ ioq' = Append(ioq, <<"aborted", u, "rd">>) /\ UNCHANGED sent
    /\ rd' = [rd EXCEPT ![u] = "queued"]
    /\ UNCHANGED <<server, wq, stop, userQueue, shake, wr, readQueue, pending, writeQueue, posted, log, why>>

ArmRead(u) == rd' = [rd EXCEPT ![u] = IF stop[u] THEN "none" ELSE "armed"]

StartRead(u) ==
    /\ Runs("start", u) /\ Done /\ ArmRead(u)
    /\ UNCHANGED <<server, wq, stop, userQueue, shake, wr, readQueue, pending, writeQueue, sent, posted,
                   log, why>>

ScheduleDispatch(u) == IF pending[u] THEN Done ELSE DoneThen("dispatch", u)

\* handle_read(): queue the message, have the queue dispatched, read on.
HandleRead(u) ==
    /\ Runs("read", u) /\ ArmRead(u)
    /\ IF stop[u] \/ Len(readQueue[u]) >= MaxRdQueueSize
         THEN Done /\ UNCHANGED <<readQueue, pending>>
         ELSE /\ readQueue' = [readQueue EXCEPT ![u] = Append(@, Arg)]
              /\ pending' = [pending EXCEPT ![u] = TRUE]
              /\ ScheduleDispatch(u)
    /\ UNCHANGED <<server, wq, stop, userQueue, shake, wr, writeQueue, sent, posted, log, why>>

Chunks(q) == LET n == (Len(q) + MaxBatchSize - 1) \div MaxBatchSize
                 end(i) == IF i * MaxBatchSize < Len(q) THEN i * MaxBatchSize ELSE Len(q)
             IN [i \in 1..n |-> <<"recv", SubSeq(q, (i - 1) * MaxBatchSize + 1, end(i))>>]

\* The queue goes to the worker strand in chunks of MaxBatchSize.
Dispatch(u) ==
    /\ Runs("dispatch", u) /\ Done
    /\ wq' = [wq EXCEPT ![u] = @ \o Chunks(readQueue[u])]
    /\ readQueue' = [readQueue EXCEPT ![u] = <<>>]
    /\ pending' = [pending EXCEPT ![u] = FALSE]
    /\ UNCHANGED <<server, stop, userQueue, shake, rd, wr, writeQueue, sent, posted, log, why>>

Stopped_Ignored(u) == FALSE
Stopped(u) == stop[u]

\* handle_error(): only the caller that stops the user reports it.
HandleError(u) ==
    /\ \E k \in {"readError", "writeError"} : Runs(k, u)
    /\ Done
    /\ IF Stopped(u) THEN UNCHANGED <<stop, why, wq>>
       ELSE TryStop(u, "error") /\ Worker(u, <<"disconnect">>)
    /\ rd' = IF Head(ioq)[1] = "readError" THEN [rd EXCEPT ![u] = "none"] ELSE rd
    /\ wr' = IF Head(ioq)[1] = "writeError" THEN [wr EXCEPT ![u] = "none"] ELSE wr
    /\ UNCHANGED <<server, userQueue, shake, readQueue, pending, writeQueue, sent, posted, log>>

\* operation_aborted: nothing is reported.
Aborted(u) ==
    /\ Runs("aborted", u) /\ Done
    /\ rd' = IF Arg = "rd" THEN [rd EXCEPT ![u] = "none"] ELSE rd
    /\ wr' = IF Arg = "wr" THEN [wr EXCEPT ![u] = "none"] ELSE wr
    /\ UNCHANGED <<server, wq, stop, userQueue, shake, readQueue, pending, writeQueue, sent, posted, log, why>>
-----------------------------------------------------------------------------
(* Writing.                                                                 *)

\* post(), from any thread, once onConnect() has given the user away.
Post(u) ==
    /\ log[u] # <<>> /\ MayMore(u)
    /\ posted' = [posted EXCEPT ![u] = @ + 1]
    /\ ioq' = Append(ioq, <<"write", u, posted[u] + 1>>)
    /\ UNCHANGED <<server, wq, stop, userQueue, shake, rd, wr, readQueue, pending, writeQueue, sent, log, why>>

\* write_data(): the first message of an empty queue starts the writing.
WriteData(u) ==
    /\ Runs("write", u) /\ Done
    /\ IF Len(writeQueue[u]) < MaxWrQueueSize
         THEN /\ writeQueue' = [writeQueue EXCEPT ![u] = Append(@, Arg)]
              /\ wr' = IF writeQueue[u] = <<>> /\ ~stop[u] THEN [wr EXCEPT ![u] = "armed"] ELSE wr
         ELSE UNCHANGED <<writeQueue, wr>>
    /\ UNCHANGED <<server, wq, stop, userQueue, shake, rd, readQueue, pending, sent, posted, log, why>>

WriteDone(u) ==
    /\ wr[u] = "armed"
    /\ \/ ~stop[u] /\ \E k \in {"wrote", "writeError"} : ioq' = Append(ioq, <<k, u, 0>>)
       \/ stop[u] /\ ioq' = Append(ioq, <<"aborted", u, "wr">>)
    /\ wr' = [wr EXCEPT ![u] = "queued"]
    /\ UNCHANGED <<server, wq, stop, userQueue, shake, rd, readQueue, pending, writeQueue, sent, posted, log, why>>

WriteOn_TwoLeft(u) == Len(writeQueue[u]) > 2 /\ ~stop[u]
WriteOn(u) == Len(writeQueue[u]) > 1 /\ ~stop[u]

\* handle_write(): pop the message that was written and go on with the next.
HandleWrite(u) ==
    /\ Runs("wrote", u) /\ Done
    /\ writeQueue' = [writeQueue EXCEPT ![u] = Tail(@)]
    /\ wr' = [wr EXCEPT ![u] = IF WriteOn(u) THEN "armed" ELSE "none"]
    /\ UNCHANGED <<server, wq, stop, userQueue, shake, rd, readQueue, pending, sent, posted, log, why>>
-----------------------------------------------------------------------------
(* The worker strand, the scan timer, the application.                     *)

\* onConnect(), then start_read(); the messages of a chunk; onDisconnect(),
\* whose adapter erases the user from _userQueue.
Callback(u) ==
    /\ "worker" \in running /\ wq[u] # <<>>
    /\ LET call == Head(wq[u]) IN
         /\ log' = [log EXCEPT ![u] = @ \o IF call[1] = "recv" THEN call[2] ELSE <<call>>]
         /\ ioq' = IF call[1] = "connect" THEN Append(ioq, <<"start", u, 0>>) ELSE ioq
         /\ userQueue' = IF call[1] = "disconnect" THEN userQueue \ {u} ELSE userQueue
    /\ wq' = [wq EXCEPT ![u] = Tail(@)]
    /\ UNCHANGED <<server, stop, data, why>>

\* on_timer(): expired users are stopped with try_stop(2) and stay in
\* _userQueue; the timer is armed again.
OnTimer ==
    /\ timer = "ready" /\ "io" \in running
    /\ \E expired \in SUBSET {u \in userQueue : ~stop[u]} :
          /\ stop' = [u \in Users |-> stop[u] \/ u \in expired]
          /\ why' = [u \in Users |-> IF u \in expired THEN "quiet" ELSE why[u]]
    /\ timer' = "armed"
    /\ UNCHANGED <<acceptor, accepted, strands, userQueue, data, stopping, running, log>>

TimerReady ==
    /\ timer = "armed" /\ timer' = "ready"
    /\ UNCHANGED <<acceptor, accepted, strands, stop, userQueue, data, stopping, running, log, why>>

\* The application stops a user it was given.
AppStop(u) ==
    /\ log[u] # <<>> /\ ~stop[u]
    /\ TryStop(u, "quiet")
    /\ UNCHANGED <<server, strands, userQueue, data, log>>

\* stop(): cancel what is waiting; a handler that is queued runs all the same.
StopCancel ==
    /\ stopping = "no" /\ stopping' = "cancelled"
    /\ acceptor' = IF acceptor = "armed" THEN "off" ELSE acceptor
    /\ timer' = IF timer = "armed" THEN "off" ELSE timer
    /\ UNCHANGED <<accepted, strands, stop, userQueue, data, running, log, why>>

ToStop_None == {}
ToStop == userQueue

\* ... then stop the users of that moment and give up the work guards.
StopUsers ==
    /\ stopping = "cancelled" /\ stopping' = "swapped"
    /\ stop' = [u \in Users |-> stop[u] \/ u \in ToStop]
    /\ why' = [u \in Users |-> IF u \in ToStop /\ ~stop[u] THEN "quiet" ELSE why[u]]
    /\ userQueue' = {}
    /\ UNCHANGED <<acceptor, timer, accepted, strands, data, running, log>>

\* run() returns when the guard is gone and no work is left.
ThreadExit ==
    /\ stopping = "swapped"
    /\ \/ /\ "io" \in running /\ running' = running \ {"io"}
          /\ ioq = <<>> /\ acceptor = "off" /\ timer = "off"
          /\ \A u \in Users : hs[u] = "none" /\ rd[u] = "none" /\ wr[u] = "none"
       \/ /\ "worker" \in running /\ running' = running \ {"worker"}
          /\ \A u \in Users : wq[u] = <<>>
    /\ UNCHANGED <<acceptor, timer, accepted, stopping, strands, stop, userQueue, data, log, why>>
-----------------------------------------------------------------------------
IoHandler(u) ==
    \/ Handshake(u) \/ HandleHandshake(u) \/ StartRead(u) \/ HandleRead(u) \/ Dispatch(u)
    \/ HandleError(u) \/ Aborted(u) \/ WriteData(u) \/ HandleWrite(u)

Next ==
    \/ AcceptReady \/ HandleAccept \/ TimerReady \/ OnTimer
    \/ \E u \in Users : IoHandler(u) \/ Callback(u)
    \/ \E u \in Users : HandshakeDone(u) \/ ReadDone(u) \/ WriteDone(u)
    \/ \E u \in Users : Post(u) \/ AppStop(u)
    \/ StopCancel \/ StopUsers \/ ThreadExit

Spec == Init /\ [][Next]_vars

\* The threads run their handlers; an operation on a closed socket completes;
\* stop() goes on once it is called.  The peer owes nothing: a handshake, a read
\* or a write on an open socket may stay outstanding for ever.
Fairness ==
    /\ WF_vars(\E u \in Users : IoHandler(u)) /\ WF_vars(HandleAccept) /\ WF_vars(OnTimer)
    /\ \A u \in Users : WF_vars(Callback(u)) /\ WF_vars(stop[u] /\ (ReadDone(u) \/ WriteDone(u)))
    /\ WF_vars(StopUsers \/ ThreadExit)

FairSpec == Spec /\ Fairness
-----------------------------------------------------------------------------
(* Properties.                                                             *)

\* The listener sees a connection in order: onConnect() first and once, each
\* message at most once and in the order it was sent (messages are dropped
\* when _readQueue is full), and at most one onDisconnect(), although reads,
\* writes, the timer and the application race to stop the user; it is called only
\* for the user that handle_error() stopped ("if manually stop(), on_disconnect
\* would not fire").  Messages may follow onDisconnect().
CallbackOrder ==
    \A u \in Users :
        /\ log[u] # <<>> => log[u][1] = <<"connect">>
        /\ \A i \in 1..Len(log[u]) : log[u][i] = <<"disconnect">> => why[u] = "error"
        /\ \A i, j \in 1..Len(log[u]) : i < j =>
              /\ log[u][i][1] \in {"connect", "disconnect"} => log[u][i] # log[u][j]
              /\ log[u][i][1] = "msg" /\ log[u][j][1] = "msg" => log[u][i][2] < log[u][j][2]

\* No message waits in _writeQueue of an open connection without a write that
\* is under way, and never are two writes under way.
WriteGoesOn == \A u \in Users : ~stop[u] => (writeQueue[u] # <<>> <=> wr[u] # "none")

\* _userQueue never exceeds the limit; until the server is stopped it holds
\* every open connection that was announced, and a stopped one only while its
\* onDisconnect() is on the way or when the timer or the application stopped
\* it: those are never erased and count against the limit for good.
UserQueueSound ==
    /\ Cardinality(userQueue) <= MaxConnections
    /\ stopping # "swapped" => \A u \in Users :
          /\ log[u] # <<>> /\ ~stop[u] => u \in userQueue
          /\ u \in userQueue /\ stop[u] =>
                \/ why[u] = "quiet"
                \/ \E i \in 1..Len(wq[u]) : wq[u][i] = <<"disconnect">>

\* What keeps run() going after stop() has looked: a handler that was queued then
\* armed the acceptor or the timer again, or a user that was still in its
\* handshake, which is not in _userQueue, stays in it or is let in.
LeftOver == acceptor # "off" \/ timer # "off" \/ userQueue # {} \/ \E u \in Users : hs[u] # "none"

\* stop() ends both threads, unless something is left over for ever: run() does
\* not wait on any user that stop() closed, nor on one that a late error or a
\* failed handshake closes.
StopCompletes == stopping = "swapped" ~> (running = {} \/ []LeftOver)
=============================================================================
