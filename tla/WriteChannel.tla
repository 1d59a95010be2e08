---------------------------- MODULE WriteChannel ----------------------------
(***************************************************************************)
(* The write path of one server-side connection, class tcpsock_user of     *)
(* src/zbf/socket_tcp_v5.hpp.  Worker threads ("posters") append messages   *)
(* to _wrQueue and arm EPOLLOUT; the IO thread waits for the write event,   *)
(* pops one message, sends it without the lock, puts back what the kernel  *)
(* did not take, and disarms EPOLLOUT when the queue is empty.  The IO      *)
(* thread (on an IO error) or the monitor thread (on expiry) closes the     *)
(* user meanwhile; leaveMonitor() does so without taking _lockWRQ.          *)
(*                                                                         *)
(* The bytes are numbered 1, 2, 3, ... in the order in which post() accepts *)
(* them, so a message is an interval [lo, hi] of byte numbers and the       *)
(* remainder of a partly sent message is a shorter interval.               *)
(***************************************************************************)
EXTENDS Naturals, Sequences

CONSTANTS
    Posters,        \* threads that call post(): workers, response handlers
    MaxPendingMsg,  \* the limit post() compares the queue size with
    MsgLens,        \* lengths of the messages that are posted, in units
    MaxUnits,       \* bound: units accepted by post() in a behaviour
    MaxReads        \* bound: chunks the peer sends in a behaviour

ASSUME MaxPendingMsgAssumption == MaxPendingMsg \in Nat
ASSUME MsgLensAssumption == MsgLens \subseteq Nat \ {0}
ASSUME UnitsAssumption == MaxUnits \in Nat /\ MaxReads \in Nat
ASSUME PostersAssumption == "io" \notin Posters /\ "free" \notin Posters

VARIABLES
    wrQueue,      \* _wrQueue
    inflight,     \* <<msg>> while _SendData holds the popped message, or <<>>
    enableWrite,  \* _enableWrite
    efd,          \* TRUE while _efd holds the epoll descriptor
    closed,       \* _closed
    registered,   \* the user is in the server's _fd2user
    lockWRQ,      \* the owner of _lockWRQ across steps, or "free"
    postPc,       \* postPc[p]: where poster p is in post()
    ioPc,         \* where the IO thread is in ioprocessor()/sendData()
    closer,       \* the thread inside closeUser(), holder of _lockF2U, or "none"
    closePc,      \* where that thread is in closeUser()
    interest,     \* kernel: the epoll registration of the socket
    toRead,       \* kernel: chunks received and not read yet
    reads,        \* chunks the peer has sent so far
    posted,       \* units accepted by post() so far
    wire,         \* the byte numbers handed to the kernel, in order
    failed        \* a send failed and its message was dropped

queueVars == <<wrQueue, inflight, posted, wire, failed>>
armVars   == <<enableWrite, efd, interest>>
userVars  == <<closed, registered>>
readVars  == <<toRead, reads>>
pcVars    == <<lockWRQ, postPc, ioPc, closer, closePc>>
writeVars == <<queueVars, armVars, userVars, readVars, pcVars>>

Message == [lo: Nat, hi: Nat]
-----------------------------------------------------------------------------
\* createUser(): the socket is added to epoll for reading, joinMonitor() sets
\* _efd with an empty queue, and the user is published in _fd2user.
WriteInit ==
    /\ wrQueue = <<>> /\ inflight = <<>> /\ posted = 0 /\ wire = <<>> /\ failed = FALSE
    /\ enableWrite = FALSE /\ efd = TRUE /\ interest = "in"
    /\ closed = FALSE /\ registered = TRUE
    /\ toRead = 0 /\ reads = 0
    /\ lockWRQ = "free" /\ postPc = [p \in Posters |-> "idle"]
    /\ ioPc = "wait" /\ closer = "none" /\ closePc = "none"

-----------------------------------------------------------------------------
(* post(): everything under _lockWRQ.  enableWrite(true) loads _efd, then  *)
(* exchanges _enableWrite, then calls epoll_ctl: three steps, because      *)
(* leaveMonitor() may run between them.                                    *)

Full == Len(wrQueue) > MaxPendingMsg

\* Return 1; nothing changes.
PostFull(p) ==
    /\ postPc[p] = "idle" /\ lockWRQ = "free"
    /\ Full
    /\ UNCHANGED writeVars

PostPush(p) ==
    /\ postPc[p] = "idle" /\ lockWRQ = "free"
    /\ ~Full
    /\ \E len \in MsgLens :
          /\ posted + len <= MaxUnits
          /\ wrQueue' = Append(wrQueue, [lo |-> posted + 1, hi |-> posted + len])
          /\ posted' = posted + len
    /\ IF efd THEN lockWRQ' = p /\ postPc' = [postPc EXCEPT ![p] = "cas"]
              ELSE UNCHANGED <<lockWRQ, postPc>>
    /\ UNCHANGED <<inflight, wire, failed, armVars, userVars, readVars, ioPc, closer, closePc>>

PostCas(p) ==
    /\ postPc[p] = "cas"
    /\ IF enableWrite
         THEN /\ postPc' = [postPc EXCEPT ![p] = "idle"]
              /\ lockWRQ' = "free"
              /\ UNCHANGED enableWrite
         ELSE /\ postPc' = [postPc EXCEPT ![p] = "mod"]
              /\ enableWrite' = TRUE
              /\ UNCHANGED lockWRQ
    /\ UNCHANGED <<queueVars, efd, interest, userVars, readVars, ioPc, closer, closePc>>

SpEnable_Dropped(new) == interest

\* epoll_ctl(EPOLL_CTL_MOD): no effect on a socket that is not registered.
SpEnable(new) == IF interest = "none" THEN interest ELSE new

PostMod(p) ==
    /\ postPc[p] = "mod"
    /\ interest' = SpEnable("inout")
    /\ postPc' = [postPc EXCEPT ![p] = "idle"]
    /\ lockWRQ' = "free"
    /\ UNCHANGED <<queueVars, enableWrite, efd, userVars, readVars, ioPc, closer, closePc>>

-----------------------------------------------------------------------------
(* The IO thread.                                                          *)

\* The peer sends; the bytes wait in the kernel.
PeerSend ==
    /\ reads < MaxReads /\ interest # "none"
    /\ reads' = reads + 1 /\ toRead' = toRead + 1
    /\ UNCHANGED <<queueVars, armVars, userVars, pcVars>>

HasData == toRead > 0

\* An event with the read flag is handled as a read and as nothing else, even
\* when the write flag is set too.
IoRead ==
    /\ ioPc = "wait" /\ interest # "none" /\ HasData
    /\ toRead' = toRead - 1
    /\ UNCHANGED <<queueVars, armVars, userVars, reads, pcVars>>

\* recv() returns 0 or -1, or the event carries only an error: onIOError().
IoReadError ==
    /\ ioPc = "wait" /\ interest # "none"
    /\ ioPc' = "close"
    /\ UNCHANGED <<queueVars, armVars, userVars, readVars, lockWRQ, postPc, closer, closePc>>

IoWriteEvent ==
    /\ ioPc = "wait" /\ interest = "inout" /\ ~HasData
    /\ ioPc' = "find"
    /\ UNCHANGED <<queueVars, armVars, userVars, readVars, lockWRQ, postPc, closer, closePc>>

\* findUser() under _lockF2U.
IoFind ==
    /\ ioPc = "find" /\ closer = "none"
    /\ ioPc' = IF registered THEN "check" ELSE "wait"
    /\ UNCHANGED <<queueVars, armVars, userVars, readVars, lockWRQ, postPc, closer, closePc>>

\* sendData() begins: return SOCK_CLOSED when the user is closed.
IoCheck ==
    /\ ioPc = "check"
    /\ ioPc' = IF closed THEN "wait" ELSE "pop"
    /\ UNCHANGED <<queueVars, armVars, userVars, readVars, lockWRQ, postPc, closer, closePc>>

\* _SendData(): pop the front message under the lock, or return QUEUE_EMPTY.
IoPop ==
    /\ ioPc = "pop" /\ lockWRQ = "free"
    /\ IF wrQueue = <<>>
         THEN ioPc' = "recheck" /\ UNCHANGED <<wrQueue, inflight>>
         ELSE /\ inflight' = <<Head(wrQueue)>>
              /\ wrQueue' = Tail(wrQueue)
              /\ ioPc' = "send"
    /\ UNCHANGED <<posted, wire, failed, armVars, userVars, readVars, lockWRQ, postPc, closer, closePc>>

\* The kernel takes the first n units of the message: all of it, or a part
\* whose remainder will be put back.
IoSendSome ==
    /\ ioPc = "send"
    /\ LET m == inflight[1] IN
       \E n \in 1..(m.hi - m.lo + 1) :
          /\ wire' = wire \o [i \in 1..n |-> m.lo + i - 1]
          /\ IF m.lo + n > m.hi
               THEN inflight' = <<>> /\ ioPc' = "wait"
               ELSE inflight' = <<[lo |-> m.lo + n, hi |-> m.hi]>> /\ ioPc' = "requeue"
    /\ UNCHANGED <<wrQueue, posted, failed, armVars, userVars, readVars, lockWRQ, postPc, closer, closePc>>

\* EAGAIN: the whole message will be put back.
IoSendAgain ==
    /\ ioPc = "send"
    /\ ioPc' = "requeue"
    /\ UNCHANGED <<queueVars, armVars, userVars, readVars, lockWRQ, postPc, closer, closePc>>

\* SEND_FAIL: the message is dropped and onIOError() follows.
IoSendFail ==
    /\ ioPc = "send"
    /\ inflight' = <<>> /\ failed' = TRUE
    /\ ioPc' = "close"
    /\ UNCHANGED <<wrQueue, posted, wire, armVars, userVars, readVars, lockWRQ, postPc, closer, closePc>>

PutBack_AtTheEnd == wrQueue \o inflight

\* emplace_front(), whatever the size of the queue.
PutBack == inflight \o wrQueue

IoRequeue ==
    /\ ioPc = "requeue" /\ lockWRQ = "free"
    /\ wrQueue' = PutBack
    /\ inflight' = <<>>
    /\ ioPc' = "wait"
    /\ UNCHANGED <<posted, wire, failed, armVars, userVars, readVars, lockWRQ, postPc, closer, closePc>>

Drained_NotTested == TRUE

Drained == wrQueue = <<>>

\* sendData() after QUEUE_EMPTY: take the lock again, test the queue again,
\* and call enableWrite(false), which loads _efd.
IoRecheck ==
    /\ ioPc = "recheck" /\ lockWRQ = "free"
    /\ IF Drained /\ efd
         THEN lockWRQ' = "io" /\ ioPc' = "cas"
         ELSE ioPc' = "wait" /\ UNCHANGED lockWRQ
    /\ UNCHANGED <<queueVars, armVars, userVars, readVars, postPc, closer, closePc>>

IoCas ==
    /\ ioPc = "cas"
    /\ IF enableWrite
         THEN enableWrite' = FALSE /\ ioPc' = "mod" /\ UNCHANGED lockWRQ
         ELSE ioPc' = "wait" /\ lockWRQ' = "free" /\ UNCHANGED enableWrite
    /\ UNCHANGED <<queueVars, efd, interest, userVars, readVars, postPc, closer, closePc>>

IoMod ==
    /\ ioPc = "mod"
    /\ interest' = SpEnable("in")
    /\ ioPc' = "wait" /\ lockWRQ' = "free"
    /\ UNCHANGED <<queueVars, enableWrite, efd, userVars, readVars, postPc, closer, closePc>>

-----------------------------------------------------------------------------
(* closeUser(), under _lockF2U: setClose(), leaveMonitor() (two stores),   *)
(* then sp_del() and the erase.                                            *)

\* The IO thread finds no such user any more: rc = -1.
CloseNotFound ==
    /\ ioPc = "close" /\ closer = "none" /\ ~registered
    /\ ioPc' = "wait"
    /\ UNCHANGED <<queueVars, armVars, userVars, readVars, lockWRQ, postPc, closer, closePc>>

\* The IO thread after an error, or the monitor once the user has expired.
CloseBegin(c) ==
    /\ closer = "none" /\ registered /\ ~closed
    /\ c = "io" => ioPc = "close"
    /\ closer' = c /\ closePc' = "efd"
    /\ closed' = TRUE
    /\ UNCHANGED <<queueVars, armVars, registered, readVars, lockWRQ, postPc, ioPc>>

CloseEfd ==
    /\ closePc = "efd"
    /\ efd' = FALSE
    /\ closePc' = "flag"
    /\ UNCHANGED <<queueVars, enableWrite, interest, userVars, readVars, lockWRQ, postPc, ioPc, closer>>

CloseFlag ==
    /\ closePc = "flag"
    /\ enableWrite' = FALSE
    /\ closePc' = "del"
    /\ UNCHANGED <<queueVars, efd, interest, userVars, readVars, lockWRQ, postPc, ioPc, closer>>

CloseErase ==
    /\ closePc = "del"
    /\ interest' = "none" /\ registered' = FALSE
    /\ ioPc' = IF closer = "io" THEN "wait" ELSE ioPc
    /\ closer' = "none" /\ closePc' = "none"
    /\ UNCHANGED <<queueVars, enableWrite, efd, closed, readVars, lockWRQ, postPc>>

-----------------------------------------------------------------------------
IoStep ==
    \/ IoRead \/ IoWriteEvent \/ IoFind \/ IoCheck \/ IoPop
    \/ IoSendSome \/ IoSendAgain \/ IoRequeue \/ IoRecheck \/ IoCas \/ IoMod
    \/ CloseNotFound

PostStep(p) == PostCas(p) \/ PostMod(p)

CloseStep == CloseEfd \/ CloseFlag \/ CloseErase

WriteNext ==
    \/ \E p \in Posters : PostFull(p) \/ PostPush(p) \/ PostStep(p)
    \/ PeerSend \/ IoReadError \/ IoSendFail
    \/ IoStep
    \/ \E c \in {"io", "monitor"} : CloseBegin(c)
    \/ CloseStep

WriteSpec == WriteInit /\ [][WriteNext]_writeVars
-----------------------------------------------------------------------------
(* Properties.                                                             *)

WriteTypeOK ==
    /\ wrQueue \in Seq(Message) /\ inflight \in Seq(Message)
    /\ posted \in Nat /\ wire \in Seq(Nat) /\ failed \in BOOLEAN
    /\ enableWrite \in BOOLEAN /\ efd \in BOOLEAN
    /\ interest \in {"none", "in", "inout"}
    /\ closed \in BOOLEAN /\ registered \in BOOLEAN
    /\ toRead \in Nat /\ reads \in Nat
    /\ lockWRQ \in Posters \cup {"io", "free"}
    /\ postPc \in [Posters -> {"idle", "cas", "mod"}]
    /\ ioPc \in {"wait", "find", "check", "pop", "send", "requeue", "recheck",
                 "cas", "mod", "close"}
    /\ closer \in {"none", "io", "monitor"}
    /\ closePc \in {"none", "efd", "flag", "del"}

\* No lost wakeup: whenever _lockWRQ is free and the user is open, a non-empty
\* _wrQueue has EPOLLOUT armed in the kernel.  This is what the second test of
\* the queue in sendData() is for: the IO thread's disarming never overtakes a
\* post() that found the write event still armed.
Armed ==
    registered /\ ~closed /\ lockWRQ = "free" /\ wrQueue # <<>>
        => enableWrite /\ interest = "inout"

\* The queue never holds more than MaxPendingMsg + 2 messages: post() accepts
\* one message beyond the limit (it tests size() > MaxPendingMsg), and
\* _SendData() puts a message back in front without any test.
QueueBound == Len(wrQueue) <= MaxPendingMsg + 2

\* The peer receives the accepted bytes in order, with no gap and no byte
\* twice, through partial sends, EAGAIN and failed sends: what is on the wire
\* is always a prefix of the stream that post() accepted.
StreamInOrder == Len(wire) <= posted /\ \A i \in 1..Len(wire) : wire[i] = i

\* The messages s, in order, are exactly the bytes from + 1 .. to.
Chain(s, from, to) ==
    /\ \A i \in 1..Len(s) : s[i].lo <= s[i].hi /\ s[i].hi <= to
    /\ \A i \in 1..Len(s) - 1 : s[i + 1].lo = s[i].hi + 1
    /\ IF s = <<>> THEN from = to ELSE s[1].lo = from + 1 /\ s[Len(s)].hi = to

\* Until a send fails no accepted byte is lost: every byte is on the wire, in
\* the message that _SendData() holds, or in the queue, in this order.
NothingLost == ~failed => Chain(inflight \o wrQueue, Len(wire), posted)

\* Together: whatever post(), partial sends and put-backs do, the peer gets a
\* prefix of what post() accepted, and the rest is still there in order.
StreamIntact == StreamInOrder /\ NothingLost

\* Every accepted byte is sent unless the user gets closed.
Delivered ==
    \A n \in 1..MaxUnits : posted >= n ~> (Len(wire) >= n \/ closed)
=============================================================================
