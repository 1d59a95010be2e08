------------------------------ MODULE Framing -------------------------------
(***************************************************************************)
(* From bytes to messages: the peer packs requests (lymsg_helper::packMsg,  *)
(* src/lygc/lymsg_protocol.hpp), they arrive in chunks of any size, onRecv()*)
(* collects them in the memchunk _recvCache, _PopMsg() cuts complete        *)
(* messages out of it, and the request is unpacked and answered under its   *)
(* serial.  The stream is a sequence of cells; the first cell of a message  *)
(* holds its header, and the bytes of a body are zeros.                     *)
(***************************************************************************)
EXTENDS Integers, SequencesExt

CONSTANTS
    HeaderSize,       \* cells of a header
    MaxBodySize,      \* largest body _PopMsg() accepts
    MaxPendingSize,   \* largest _recvCache onRecv() accepts
    ChunkSize,        \* BufferSize of tcpsock_server: most cells of one recv()
    BlockSize,        \* BufferSize of tcpsock_user: the block of the cache
    FrameBodies,      \* body sizes of the messages sent
    FrameSerials,     \* serials: records of two words, hi and lo
    MaxFrames         \* bound: messages sent

VARIABLES
    frames,           \* the messages sent
    arriving,         \* cells not received yet
    recvCache,        \* cells in _recvCache
    bufferSize,       \* allocated size of _recvCache
    framePc,          \* "recv", "pop", or "closed" after onIOError()
    received,         \* messages dispatched: size and serial, as unpacked
    echoed            \* serials of the responses, as the sender unpacks them

frameVars == <<frames, arriving, recvCache, bufferSize, framePc, received, echoed>>

-----------------------------------------------------------------------------
(* Byte order of the 64-bit serial.  A word is a value and whether its bytes*)
(* are in network order; htonl() and ntohl() reverse them.                  *)

Swapped(w) == [w EXCEPT !.net = ~@]

htonll(host) == [hi |-> Swapped(host.lo), lo |-> Swapped(host.hi)]

ntohll(net) == [hi |-> Swapped(net.hi), lo |-> Swapped(net.lo)]

Byte == [size |-> 0, serial |-> [hi |-> [v |-> 0, net |-> FALSE], lo |-> [v |-> 0, net |-> FALSE]]]

\* packMsg(): the size of the body, the header converted by hton().
PackMsg(serial, n) == <<[size |-> n, serial |-> htonll(serial)]>> \o [i \in 1..(HeaderSize - 1 + n) |-> Byte]

\* unpackMsg(): the header converted by ntoh(), and the body.
UnpackMsg(cells) == [size |-> Len(cells) - HeaderSize, serial |-> ntohll(cells[1].serial)]

\* createResponse() answers with the serial it has unpacked; the sender unpacks it.
Echo(m) == UnpackMsg(PackMsg(m.serial, 0)).serial

-----------------------------------------------------------------------------
FrameInit ==
    /\ frames \in SeqOf([size : FrameBodies, serial : FrameSerials], MaxFrames)
    /\ arriving = FlattenSeq([i \in DOMAIN frames |-> PackMsg(frames[i].serial, frames[i].size)])
    /\ recvCache = <<>> /\ bufferSize = BlockSize /\ framePc = "recv"
    /\ received = <<>> /\ echoed = <<>>

Grown_Down(n) == IF n > bufferSize THEN (n \div BlockSize) * BlockSize ELSE bufferSize

\* memchunk::push().
Grown(n) == IF n > bufferSize THEN (n \div BlockSize + 1) * BlockSize ELSE bufferSize

\* recv() and onRecv(): an over-long cache closes the connection.
RecvChunk ==
    /\ framePc = "recv" /\ arriving # <<>>
    /\ \E n \in 1..(IF Len(arriving) < ChunkSize THEN Len(arriving) ELSE ChunkSize) :
         /\ recvCache' = recvCache \o SubSeq(arriving, 1, n)
         /\ arriving' = SubSeq(arriving, n + 1, Len(arriving))
    /\ bufferSize' = Grown(Len(recvCache'))
    /\ framePc' = IF Len(recvCache') > MaxPendingSize THEN "closed" ELSE "pop"
    /\ UNCHANGED <<frames, received, echoed>>

BodySize(cell) == cell.size

Complete == Len(recvCache) >= HeaderSize + BodySize(recvCache[1])

\* One call of _PopMsg(): no header yet; a body too large drops the cache; a
\* complete message is cut out and dispatched; an incomplete one waits.
PopMsg ==
    /\ framePc = "pop"
    /\ \/ /\ Len(recvCache) < HeaderSize
          /\ framePc' = "recv" /\ UNCHANGED <<recvCache, received, echoed>>
       \/ /\ Len(recvCache) >= HeaderSize /\ BodySize(recvCache[1]) > MaxBodySize
          /\ recvCache' = <<>> /\ framePc' = "recv" /\ UNCHANGED <<received, echoed>>
       \/ /\ Len(recvCache) >= HeaderSize /\ BodySize(recvCache[1]) <= MaxBodySize /\ Complete
          /\ LET total == HeaderSize + BodySize(recvCache[1])
                 cells == SubSeq(recvCache, 1, total)
             IN /\ recvCache' = SubSeq(recvCache, total + 1, Len(recvCache))
                /\ received' = Append(received, UnpackMsg(cells))
                /\ echoed' = Append(echoed, Echo(UnpackMsg(cells)))
          /\ UNCHANGED framePc
       \/ /\ Len(recvCache) >= HeaderSize /\ BodySize(recvCache[1]) <= MaxBodySize /\ ~Complete
          /\ framePc' = "recv" /\ UNCHANGED <<recvCache, received, echoed>>
    /\ UNCHANGED <<frames, arriving, bufferSize>>

FrameNext == RecvChunk \/ PopMsg

-----------------------------------------------------------------------------
Accepted == IF \A i \in DOMAIN frames : frames[i].size <= MaxBodySize THEN Len(frames)
            ELSE (CHOOSE i \in DOMAIN frames : frames[i].size > MaxBodySize
                      /\ \A j \in 1..(i - 1) : frames[j].size <= MaxBodySize) - 1

\* However the stream is cut into chunks, the messages before the first one with
\* a body over MaxBodySize are dispatched whole and in order, all of them once
\* they have arrived; their responses carry the sender's serials; the connection
\* is closed for its size only if a message nearly fills MaxPendingSize (onRecv()
\* counts what follows the message in the same chunk); and the cache never holds
\* more than was allocated for it.
FramesIntact ==
    /\ Len(recvCache) <= bufferSize
    /\ \A i \in 1..Accepted : i <= Len(received) =>
          received[i].size = frames[i].size /\ echoed[i] = frames[i].serial
    /\ arriving = <<>> /\ framePc = "recv" => Len(received) >= Accepted
    /\ framePc = "closed" => \E i \in DOMAIN frames : frames[i].size + HeaderSize > MaxPendingSize - ChunkSize

\* What the header's serial is for: the receiver unpacks the serial the sender
\* packed (hton() and ntoh() are each other's inverse).
SerialKept ==
    \A i \in 1..Accepted : i <= Len(received) => received[i].serial = frames[i].serial
=============================================================================
