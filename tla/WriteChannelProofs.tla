------------------------- MODULE WriteChannelProofs -------------------------
(***************************************************************************)
(* Proofs about WriteChannel, for any set of posters, any queue limit and   *)
(* any message lengths: type correctness, the absence of lost wakeups, the  *)
(* bound of the queue, and the order and completeness of the byte stream.   *)
(***************************************************************************)
EXTENDS WriteChannel, SequenceTheorems, TLAPS

\* Who holds _lockWRQ across steps: a poster inside enableWrite(true), or the
\* IO thread inside enableWrite(false).
LockInv ==
    /\ \A p \in Posters : postPc[p] \in {"cas", "mod"} <=> lockWRQ = p
    /\ lockWRQ = "io" <=> ioPc \in {"cas", "mod"}

\* The progress of closeUser(): the user is registered until the last step,
\* and whoever finds it registered outside closeUser() finds it open.
CloseInv ==
    /\ closer = "none" <=> closePc = "none"
    /\ closer = "io" => ioPc = "close"
    /\ closePc # "none" => closed /\ registered
    /\ closed /\ closePc = "none" => ~registered
    /\ ~closed => registered

\* While the user is open _enableWrite agrees with the kernel, except in the
\* step between the exchange and epoll_ctl, and a message that waits (in the
\* queue, or with the IO thread to be put back) keeps the event armed.
ArmInv ==
    ~closed =>
        /\ efd /\ interest # "none"
        /\ \A p \in Posters :
              /\ postPc[p] = "cas" => (enableWrite <=> interest = "inout")
              /\ postPc[p] = "mod" => enableWrite
        /\ ioPc = "cas" => wrQueue = <<>> /\ (enableWrite <=> interest = "inout")
        /\ ioPc = "mod" => wrQueue = <<>> /\ ~enableWrite
        /\ ioPc \in {"send", "requeue"} => enableWrite
        /\ lockWRQ = "free" =>
              /\ enableWrite <=> interest = "inout"
              /\ wrQueue # <<>> => enableWrite

\* The message that the IO thread holds counts: it will be put back.
SizeInv ==
    /\ ioPc \in {"send", "requeue"} => Len(inflight) = 1
    /\ ioPc \notin {"send", "requeue"} => inflight = <<>>
    /\ Len(wrQueue) + Len(inflight) <= MaxPendingMsg + 2

\* After a failed send the IO thread does nothing but close the user, or finds
\* it closed: the message after the dropped one is never sent.
FailInv == failed => ioPc \in {"close", "wait", "find"} /\ (ioPc # "close" => closed)

StreamInv == posted \in Nat /\ StreamInOrder /\ NothingLost

Inv == WriteTypeOK /\ LockInv /\ CloseInv /\ ArmInv /\ SizeInv /\ FailInv /\ StreamInv
-----------------------------------------------------------------------------
\* A sequence of one element.
LEMMA SingletonSeq ==
    ASSUME NEW S, NEW x \in S
    PROVE  <<x>> \in Seq(S) /\ Len(<<x>>) = 1 /\ <<x>>[1] = x
BY SMT

\* A function on 1..n is a sequence of length n.
LEMMA FunctionSeq ==
    ASSUME NEW S, NEW n \in Nat, NEW f \in [1..n -> S]
    PROVE  f \in Seq(S) /\ Len(f) = n
BY SMT

\* A step preserves the types.
LEMMA TypeStep ==
    ASSUME WriteTypeOK, SizeInv, [WriteNext]_writeVars
    PROVE  WriteTypeOK'
<1> USE DEF WriteTypeOK
<1>1. ASSUME NEW p \in Posters, PostFull(p) PROVE WriteTypeOK'
  BY <1>1 DEF PostFull, Full, writeVars, queueVars, armVars, userVars, readVars, pcVars
<1>2. ASSUME NEW p \in Posters, PostPush(p) PROVE WriteTypeOK'
  <2>1. PICK len \in MsgLens :
           /\ wrQueue' = Append(wrQueue, [lo |-> posted + 1, hi |-> posted + len])
           /\ posted' = posted + len
    BY <1>2, Zenon DEF PostPush
  <2>2. posted' \in Nat /\ wrQueue' \in Seq(Message)
    BY <2>1, MsgLensAssumption DEF Message
  <2>3. lockWRQ' \in Posters \cup {"io", "free"} /\ postPc' \in [Posters -> {"idle", "cas", "mod"}]
    <3>1. CASE efd  BY <1>2, <3>1, Zenon DEF PostPush
    <3>2. CASE ~efd  BY <1>2, <3>2, Zenon DEF PostPush
    <3> QED  BY <3>1, <3>2, Zenon
  <2> QED
    BY <1>2, <2>2, <2>3 DEF PostPush, armVars, userVars, readVars
<1>3. ASSUME NEW p \in Posters, PostCas(p) PROVE WriteTypeOK'
  <2>1. enableWrite' \in BOOLEAN
    BY <1>3, Zenon DEF PostCas
  <2>2. lockWRQ' \in Posters \cup {"io", "free"} /\ postPc' \in [Posters -> {"idle", "cas", "mod"}]
    <3>1. CASE enableWrite  BY <1>3, <3>1, Zenon DEF PostCas
    <3>2. CASE ~enableWrite  BY <1>3, <3>2, Zenon DEF PostCas
    <3> QED  BY <3>1, <3>2, Zenon
  <2> QED
    BY <1>3, <2>1, <2>2 DEF PostCas, queueVars, userVars, readVars
<1>4. ASSUME NEW p \in Posters, PostMod(p) PROVE WriteTypeOK'
  BY <1>4 DEF PostMod, queueVars, userVars, readVars, SpEnable
<1>5. CASE PeerSend
  BY <1>5 DEF PeerSend, queueVars, armVars, userVars, pcVars
<1>6. CASE IoReadError
  BY <1>6 DEF IoReadError, queueVars, armVars, userVars, readVars
<1>7. CASE IoSendFail
  BY <1>7 DEF IoSendFail, armVars, userVars, readVars
<1>8. CASE IoRead
  BY <1>8 DEF IoRead, queueVars, armVars, userVars, pcVars, HasData
<1>9. CASE IoWriteEvent
  BY <1>9, Zenon DEF IoWriteEvent, queueVars, armVars, userVars, readVars, HasData
<1>10. CASE IoFind
  BY <1>10, Zenon DEF IoFind, queueVars, armVars, userVars, readVars
<1>11. CASE IoCheck
  BY <1>11 DEF IoCheck, queueVars, armVars, userVars, readVars
<1>12. CASE IoPop
  <2>1. CASE wrQueue = <<>>
    BY <1>12, <2>1 DEF IoPop, armVars, userVars, readVars
  <2>2. CASE wrQueue # <<>>
    <3>1. Head(wrQueue) \in Message /\ Tail(wrQueue) \in Seq(Message)
      BY <2>2
    <3>2. <<Head(wrQueue)>> \in Seq(Message)
      BY <3>1, SingletonSeq, Zenon
    <3>3. inflight' \in Seq(Message) /\ wrQueue' \in Seq(Message) /\ ioPc' = "send"
      BY <1>12, <2>2, <3>1, <3>2, Zenon DEF IoPop
    <3>4. UNCHANGED <<posted, wire, failed, enableWrite, efd, interest, closed, registered,
                      toRead, reads, lockWRQ, postPc, closer, closePc>>
      BY <1>12, Zenon DEF IoPop, armVars, userVars, readVars
    <3> QED  BY <3>3, <3>4
  <2> QED  BY <2>1, <2>2, Zenon
<1>13. CASE IoSendSome
  <2> DEFINE m == inflight[1]
  <2>1. m \in Message
    <3>1. Len(inflight) = 1
      BY <1>13, Zenon DEF IoSendSome, SizeInv
    <3>2. inflight \in Seq(Message) /\ 1 \in 1..1
      OBVIOUS
    <3> HIDE DEF WriteTypeOK
    <3> QED  BY <3>1, <3>2, ElementOfSeq, Zenon
  <2>2. PICK n \in 1..(m.hi - m.lo + 1) :
           /\ wire' = wire \o [i \in 1..n |-> m.lo + i - 1]
           /\ IF m.lo + n > m.hi
                THEN inflight' = <<>> /\ ioPc' = "wait"
                ELSE inflight' = <<[lo |-> m.lo + n, hi |-> m.hi]>> /\ ioPc' = "requeue"
    BY <1>13, Zenon DEF IoSendSome
  <2>3. [i \in 1..n |-> m.lo + i - 1] \in Seq(Nat)
    <3>1. m.lo \in Nat /\ m.hi \in Nat
      BY <2>1, Zenon DEF Message
    <3>2. n \in Nat /\ \A i \in 1..n : m.lo + i - 1 \in Nat
      BY <3>1
    <3>3. [i \in 1..n |-> m.lo + i - 1] \in [1..n -> Nat]
      BY <3>2, Zenon
    <3> QED  BY <3>2, <3>3, FunctionSeq, Zenon
  <2>4. wire' \in Seq(Nat)
    BY <2>2, <2>3
  <2>5. [lo |-> m.lo + n, hi |-> m.hi] \in Message
    BY <2>1 DEF Message
  <2>6. inflight' \in Seq(Message) /\ ioPc' \in {"wait", "requeue"}
    <3> HIDE DEF WriteTypeOK, m
    <3>1. <<>> \in Seq(Message) /\ <<[lo |-> m.lo + n, hi |-> m.hi]>> \in Seq(Message)
      BY <2>5, SingletonSeq, EmptySeq, Zenon
    <3> QED  BY <2>2, <3>1, Zenon
  <2>7. UNCHANGED <<wrQueue, posted, failed, armVars, userVars, readVars, lockWRQ, postPc, closer, closePc>>
    BY <1>13, Zenon DEF IoSendSome
  <2> QED
    BY <2>4, <2>6, <2>7 DEF armVars, userVars, readVars
<1>14. CASE IoSendAgain
  BY <1>14 DEF IoSendAgain, queueVars, armVars, userVars, readVars
<1>15. CASE IoRequeue
  BY <1>15 DEF IoRequeue, armVars, userVars, readVars, PutBack
<1>16. CASE IoRecheck
  BY <1>16, Zenon DEF IoRecheck, queueVars, armVars, userVars, readVars, Drained
<1>17. CASE IoCas
  <2>1. enableWrite' \in BOOLEAN /\ ioPc' \in {"wait", "mod"} /\ lockWRQ' \in {lockWRQ, "free"}
    BY <1>17, Zenon DEF IoCas
  <2>2. UNCHANGED <<queueVars, efd, interest, userVars, readVars, postPc, closer, closePc>>
    BY <1>17, Zenon DEF IoCas
  <2> QED  BY <2>1, <2>2 DEF queueVars, userVars, readVars
<1>18. CASE IoMod
  BY <1>18, Zenon DEF IoMod, queueVars, userVars, readVars, SpEnable
<1>19. CASE CloseNotFound
  BY <1>19, Zenon DEF CloseNotFound, queueVars, armVars, userVars, readVars
<1>20. ASSUME NEW c \in {"io", "monitor"}, CloseBegin(c) PROVE WriteTypeOK'
  BY <1>20, Zenon DEF CloseBegin, queueVars, armVars, readVars
<1>21. CASE CloseEfd
  <2>1. efd' \in BOOLEAN
    BY <1>21, Zenon DEF CloseEfd
  <2> QED
    BY <1>21, <2>1 DEF CloseEfd, queueVars, userVars, readVars
<1>22. CASE CloseFlag
  <2>1. enableWrite' \in BOOLEAN
    BY <1>22, Zenon DEF CloseFlag
  <2> QED
    BY <1>22, <2>1 DEF CloseFlag, queueVars, userVars, readVars
<1>23. CASE CloseErase
  BY <1>23, Zenon DEF CloseErase, queueVars, readVars
<1>24. CASE UNCHANGED writeVars
  BY <1>24 DEF writeVars, queueVars, armVars, userVars, readVars, pcVars
<1> QED
  BY <1>1, <1>2, <1>3, <1>4, <1>5, <1>6, <1>7, <1>8, <1>9, <1>10, <1>11,
     <1>12, <1>13, <1>14, <1>15, <1>16, <1>17, <1>18, <1>19, <1>20, <1>21,
     <1>22, <1>23, <1>24, Zenon
  DEF WriteNext, IoStep, PostStep, CloseStep

\* A step preserves the ownership of _lockWRQ.
LEMMA LockStep ==
    ASSUME WriteTypeOK, LockInv, CloseInv, [WriteNext]_writeVars
    PROVE  LockInv'
<1> USE PostersAssumption DEF WriteTypeOK, LockInv
<1>1. ASSUME NEW p \in Posters, PostFull(p) PROVE LockInv'
  BY <1>1, Zenon DEF PostFull, Full, writeVars, queueVars, armVars, userVars, readVars, pcVars
<1>2. ASSUME NEW p \in Posters, PostPush(p) PROVE LockInv'
  <2>1. CASE efd
    <3>1. lockWRQ' = p /\ postPc' = [postPc EXCEPT ![p] = "cas"] /\ ioPc' = ioPc /\ lockWRQ = "free"
      BY <1>2, <2>1, Zenon DEF PostPush
    <3> QED  BY <3>1, Zenon
  <2>2. CASE ~efd
    <3>1. UNCHANGED <<lockWRQ, postPc, ioPc>>
      BY <1>2, <2>2, Zenon DEF PostPush
    <3> QED  BY <3>1, Zenon
  <2> QED  BY <2>1, <2>2, Zenon
<1>3. ASSUME NEW p \in Posters, PostCas(p) PROVE LockInv'
  <2>1. CASE enableWrite
    <3>1. postPc' = [postPc EXCEPT ![p] = "idle"] /\ lockWRQ' = "free" /\ ioPc' = ioPc /\ postPc[p] = "cas"
      BY <1>3, <2>1, Zenon DEF PostCas
    <3> QED  BY <3>1, Zenon
  <2>2. CASE ~enableWrite
    <3>1. postPc' = [postPc EXCEPT ![p] = "mod"] /\ lockWRQ' = lockWRQ /\ ioPc' = ioPc /\ postPc[p] = "cas"
      BY <1>3, <2>2, Zenon DEF PostCas
    <3> QED  BY <3>1, Zenon
  <2> QED  BY <2>1, <2>2, Zenon
<1>4. ASSUME NEW p \in Posters, PostMod(p) PROVE LockInv'
  <2>1. postPc' = [postPc EXCEPT ![p] = "idle"] /\ lockWRQ' = "free" /\ ioPc' = ioPc /\ postPc[p] = "mod"
    BY <1>4, Zenon DEF PostMod
  <2> QED  BY <2>1, Zenon
<1>5. CASE PeerSend
  BY <1>5, Zenon DEF PeerSend, queueVars, armVars, userVars, pcVars
<1>6. CASE IoReadError
  BY <1>6, Zenon DEF IoReadError, queueVars, armVars, userVars, readVars
<1>7. CASE IoSendFail
  BY <1>7, Zenon DEF IoSendFail, armVars, userVars, readVars
<1>8. CASE IoRead
  BY <1>8, Zenon DEF IoRead, queueVars, armVars, userVars, pcVars, HasData
<1>9. CASE IoWriteEvent
  BY <1>9, Zenon DEF IoWriteEvent, queueVars, armVars, userVars, readVars, HasData
<1>10. CASE IoFind
  BY <1>10, Zenon DEF IoFind, queueVars, armVars, userVars, readVars
<1>11. CASE IoCheck
  BY <1>11, Zenon DEF IoCheck, queueVars, armVars, userVars, readVars
<1>12. CASE IoPop
  BY <1>12, Zenon DEF IoPop, armVars, userVars, readVars
<1>13. CASE IoSendSome
  BY <1>13, Zenon DEF IoSendSome, armVars, userVars, readVars
<1>14. CASE IoSendAgain
  BY <1>14, Zenon DEF IoSendAgain, queueVars, armVars, userVars, readVars
<1>15. CASE IoRequeue
  BY <1>15, Zenon DEF IoRequeue, armVars, userVars, readVars, PutBack
<1>16. CASE IoRecheck
  BY <1>16, Zenon DEF IoRecheck, queueVars, armVars, userVars, readVars, Drained
<1>17. CASE IoCas
  BY <1>17, Zenon DEF IoCas, queueVars, userVars, readVars
<1>18. CASE IoMod
  BY <1>18, Zenon DEF IoMod, queueVars, userVars, readVars, SpEnable
<1>19. CASE CloseNotFound
  BY <1>19, Zenon DEF CloseNotFound, queueVars, armVars, userVars, readVars
<1>20. ASSUME NEW c \in {"io", "monitor"}, CloseBegin(c) PROVE LockInv'
  BY <1>20, Zenon DEF CloseBegin, queueVars, armVars, readVars
<1>21. CASE CloseEfd
  BY <1>21, Zenon DEF CloseEfd, queueVars, userVars, readVars
<1>22. CASE CloseFlag
  BY <1>22, Zenon DEF CloseFlag, queueVars, userVars, readVars
<1>23. CASE CloseErase
  BY <1>23, Zenon DEF CloseErase, queueVars, readVars, CloseInv
<1>24. CASE UNCHANGED writeVars
  BY <1>24, Zenon DEF writeVars, queueVars, armVars, userVars, readVars, pcVars
<1> QED
  BY <1>1, <1>2, <1>3, <1>4, <1>5, <1>6, <1>7, <1>8, <1>9, <1>10, <1>11,
     <1>12, <1>13, <1>14, <1>15, <1>16, <1>17, <1>18, <1>19, <1>20, <1>21,
     <1>22, <1>23, <1>24, Zenon
  DEF WriteNext, IoStep, PostStep, CloseStep

\* A step preserves the progress of closeUser().
LEMMA CloseStepInv ==
    ASSUME WriteTypeOK, CloseInv, [WriteNext]_writeVars
    PROVE  CloseInv'
<1> USE DEF WriteTypeOK, CloseInv
<1>1. ASSUME NEW p \in Posters, PostFull(p) PROVE CloseInv'
  BY <1>1, Zenon DEF PostFull, Full, writeVars, queueVars, armVars, userVars, readVars, pcVars
<1>2. ASSUME NEW p \in Posters, PostPush(p) PROVE CloseInv'
  BY <1>2, Zenon DEF PostPush, armVars, userVars, readVars
<1>3. ASSUME NEW p \in Posters, PostCas(p) PROVE CloseInv'
  BY <1>3, Zenon DEF PostCas, queueVars, userVars, readVars
<1>4. ASSUME NEW p \in Posters, PostMod(p) PROVE CloseInv'
  BY <1>4, Zenon DEF PostMod, queueVars, userVars, readVars, SpEnable
<1>5. CASE PeerSend
  BY <1>5, Zenon DEF PeerSend, queueVars, armVars, userVars, pcVars
<1>6. CASE IoReadError
  BY <1>6, Zenon DEF IoReadError, queueVars, armVars, userVars, readVars
<1>7. CASE IoSendFail
  BY <1>7, Zenon DEF IoSendFail, armVars, userVars, readVars
<1>8. CASE IoRead
  BY <1>8, Zenon DEF IoRead, queueVars, armVars, userVars, pcVars, HasData
<1>9. CASE IoWriteEvent
  BY <1>9, Zenon DEF IoWriteEvent, queueVars, armVars, userVars, readVars, HasData
<1>10. CASE IoFind
  BY <1>10, Zenon DEF IoFind, queueVars, armVars, userVars, readVars
<1>11. CASE IoCheck
  BY <1>11, Zenon DEF IoCheck, queueVars, armVars, userVars, readVars
<1>12. CASE IoPop
  BY <1>12, Zenon DEF IoPop, armVars, userVars, readVars
<1>13. CASE IoSendSome
  BY <1>13, Zenon DEF IoSendSome, armVars, userVars, readVars
<1>14. CASE IoSendAgain
  BY <1>14, Zenon DEF IoSendAgain, queueVars, armVars, userVars, readVars
<1>15. CASE IoRequeue
  BY <1>15, Zenon DEF IoRequeue, armVars, userVars, readVars, PutBack
<1>16. CASE IoRecheck
  BY <1>16, Zenon DEF IoRecheck, queueVars, armVars, userVars, readVars, Drained
<1>17. CASE IoCas
  BY <1>17, Zenon DEF IoCas, queueVars, userVars, readVars
<1>18. CASE IoMod
  BY <1>18, Zenon DEF IoMod, queueVars, userVars, readVars, SpEnable
<1>19. CASE CloseNotFound
  BY <1>19, Zenon DEF CloseNotFound, queueVars, armVars, userVars, readVars
<1>20. ASSUME NEW c \in {"io", "monitor"}, CloseBegin(c) PROVE CloseInv'
  BY <1>20, Zenon DEF CloseBegin, queueVars, armVars, readVars
<1>21. CASE CloseEfd
  BY <1>21, Zenon DEF CloseEfd, queueVars, userVars, readVars
<1>22. CASE CloseFlag
  BY <1>22, Zenon DEF CloseFlag, queueVars, userVars, readVars
<1>23. CASE CloseErase
  BY <1>23, Zenon DEF CloseErase, queueVars, readVars
<1>24. CASE UNCHANGED writeVars
  BY <1>24, Zenon DEF writeVars, queueVars, armVars, userVars, readVars, pcVars
<1> QED
  BY <1>1, <1>2, <1>3, <1>4, <1>5, <1>6, <1>7, <1>8, <1>9, <1>10, <1>11,
     <1>12, <1>13, <1>14, <1>15, <1>16, <1>17, <1>18, <1>19, <1>20, <1>21,
     <1>22, <1>23, <1>24, Zenon
  DEF WriteNext, IoStep, PostStep, CloseStep

\* A step preserves the agreement of flag, queue and kernel.
LEMMA ArmStep ==
    ASSUME WriteTypeOK, LockInv, CloseInv, ArmInv, SizeInv, [WriteNext]_writeVars
    PROVE  ArmInv'
<1> USE DEF WriteTypeOK, ArmInv
<1>1. ASSUME NEW p \in Posters, PostFull(p) PROVE ArmInv'
  BY <1>1, Zenon DEF PostFull, Full, writeVars, queueVars, armVars, userVars, readVars, pcVars
<1>2. ASSUME NEW p \in Posters, PostPush(p) PROVE ArmInv'
  <2> SUFFICES ASSUME ~closed PROVE ArmInv'
    BY <1>2, Zenon DEF PostPush, armVars, userVars, readVars
  <2>1. efd /\ lockWRQ = "free"
    BY <1>2, Zenon DEF PostPush
  <2>2. lockWRQ' = p /\ postPc' = [postPc EXCEPT ![p] = "cas"]
    BY <1>2, <2>1, Zenon DEF PostPush
  <2>3. UNCHANGED <<enableWrite, efd, interest, closed, ioPc>>
    BY <1>2, Zenon DEF PostPush, armVars, userVars, readVars
  <2>4. ioPc \notin {"cas", "mod"} /\ \A q \in Posters : postPc[q] \notin {"cas", "mod"}
    BY <2>1, PostersAssumption, Zenon DEF LockInv
  <2> QED
    BY <2>1, <2>2, <2>3, <2>4, PostersAssumption, Zenon
<1>3. ASSUME NEW p \in Posters, PostCas(p) PROVE ArmInv'
  <2>1. CASE enableWrite
    <3>1. postPc' = [postPc EXCEPT ![p] = "idle"] /\ lockWRQ' = "free" /\ postPc[p] = "cas" /\ lockWRQ = p
      BY <1>3, <2>1, Zenon DEF PostCas, LockInv
    <3>2. UNCHANGED <<enableWrite, efd, interest, closed, ioPc, wrQueue>>
      BY <1>3, <2>1, Zenon DEF PostCas, queueVars, userVars, readVars
    <3> QED  BY <2>1, <3>1, <3>2, Zenon
  <2>2. CASE ~enableWrite
    <3>1. postPc' = [postPc EXCEPT ![p] = "mod"] /\ lockWRQ' = lockWRQ /\ lockWRQ = p /\ enableWrite'
      BY <1>3, <2>2, Zenon DEF PostCas, LockInv
    <3>2. UNCHANGED <<efd, interest, closed, ioPc, wrQueue>>
      BY <1>3, <2>2, Zenon DEF PostCas, queueVars, userVars, readVars
    <3>3. ioPc \notin {"cas", "mod"} /\ lockWRQ # "free"
          /\ \A q \in Posters : q # p => postPc[q] \notin {"cas", "mod"}
      BY <3>1, PostersAssumption, Zenon DEF LockInv
    <3> QED  BY <3>1, <3>2, <3>3, Zenon
  <2> QED  BY <2>1, <2>2, Zenon
<1>4. ASSUME NEW p \in Posters, PostMod(p) PROVE ArmInv'
  <2>1. ioPc \notin {"cas", "mod"} /\ \A q \in Posters : q # p => postPc[q] \notin {"cas", "mod"}
    BY <1>4, PostersAssumption, Zenon DEF PostMod, LockInv
  <2> QED
    BY <1>4, <2>1, Zenon DEF PostMod, queueVars, userVars, readVars, SpEnable
<1>5. CASE PeerSend
  BY <1>5, Zenon DEF PeerSend, queueVars, armVars, userVars, pcVars
<1>6. CASE IoReadError
  BY <1>6, Zenon DEF IoReadError, queueVars, armVars, userVars, readVars
<1>7. CASE IoSendFail
  BY <1>7, Zenon DEF IoSendFail, armVars, userVars, readVars
<1>8. CASE IoRead
  BY <1>8, Zenon DEF IoRead, queueVars, armVars, userVars, pcVars, HasData
<1>9. CASE IoWriteEvent
  BY <1>9, Zenon DEF IoWriteEvent, queueVars, armVars, userVars, readVars, HasData
<1>10. CASE IoFind
  BY <1>10, Zenon DEF IoFind, queueVars, armVars, userVars, readVars
<1>11. CASE IoCheck
  BY <1>11, Zenon DEF IoCheck, queueVars, armVars, userVars, readVars
<1>12. CASE IoPop
  BY <1>12, Zenon DEF IoPop, armVars, userVars, readVars
<1>13. CASE IoSendSome
  BY <1>13, Zenon DEF IoSendSome, armVars, userVars, readVars
<1>14. CASE IoSendAgain
  BY <1>14, Zenon DEF IoSendAgain, queueVars, armVars, userVars, readVars
<1>15. CASE IoRequeue
  BY <1>15, Zenon DEF IoRequeue, armVars, userVars, readVars, PutBack
<1>16. CASE IoRecheck
  <2>1. \A q \in Posters : postPc[q] \notin {"cas", "mod"}
    BY <1>16, PostersAssumption, Zenon DEF IoRecheck, LockInv
  <2> QED
    BY <1>16, <2>1, Zenon DEF IoRecheck, queueVars, armVars, userVars, readVars, Drained
<1>17. CASE IoCas
  <2>1. CASE enableWrite
    <3>1. ioPc = "cas" /\ ioPc' = "mod" /\ lockWRQ' = lockWRQ /\ lockWRQ = "io" /\ ~enableWrite'
      BY <1>17, <2>1, Zenon DEF IoCas, LockInv
    <3>2. UNCHANGED <<efd, interest, closed, wrQueue, postPc>>
      BY <1>17, <2>1, Zenon DEF IoCas, queueVars, userVars, readVars
    <3>3. \A q \in Posters : postPc[q] \notin {"cas", "mod"}
      BY <3>1, PostersAssumption, Zenon DEF LockInv
    <3> QED  BY <3>1, <3>2, <3>3, Zenon
  <2>2. CASE ~enableWrite
    <3>1. ioPc = "cas" /\ ioPc' = "wait" /\ lockWRQ' = "free"
      BY <1>17, <2>2, Zenon DEF IoCas, LockInv
    <3>2. UNCHANGED <<enableWrite, efd, interest, closed, wrQueue, postPc>>
      BY <1>17, <2>2, Zenon DEF IoCas, queueVars, userVars, readVars
    <3> QED  BY <3>1, <3>2, Zenon
  <2> QED  BY <2>1, <2>2, Zenon
<1>18. CASE IoMod
  <2>1. \A q \in Posters : postPc[q] \notin {"cas", "mod"}
    BY <1>18, PostersAssumption, Zenon DEF IoMod, LockInv
  <2> QED
    BY <1>18, <2>1, Zenon DEF IoMod, queueVars, userVars, readVars, SpEnable
<1>19. CASE CloseNotFound
  BY <1>19, Zenon DEF CloseNotFound, queueVars, armVars, userVars, readVars
<1>20. ASSUME NEW c \in {"io", "monitor"}, CloseBegin(c) PROVE ArmInv'
  BY <1>20, Zenon DEF CloseBegin, queueVars, armVars, readVars
<1>21. CASE CloseEfd
  <2>1. closed'
    BY <1>21, Zenon DEF CloseEfd, CloseInv, userVars
  <2> QED  BY <2>1, Zenon
<1>22. CASE CloseFlag
  <2>1. closed'
    BY <1>22, Zenon DEF CloseFlag, CloseInv, userVars
  <2> QED  BY <2>1, Zenon
<1>23. CASE CloseErase
  <2>1. closed'
    BY <1>23, Zenon DEF CloseErase, CloseInv
  <2> QED  BY <2>1, Zenon
<1>24. CASE UNCHANGED writeVars
  BY <1>24, Zenon DEF writeVars, queueVars, armVars, userVars, readVars, pcVars
<1> QED
  BY <1>1, <1>2, <1>3, <1>4, <1>5, <1>6, <1>7, <1>8, <1>9, <1>10, <1>11,
     <1>12, <1>13, <1>14, <1>15, <1>16, <1>17, <1>18, <1>19, <1>20, <1>21,
     <1>22, <1>23, <1>24, Zenon
  DEF WriteNext, IoStep, PostStep, CloseStep

\* A step preserves the sizes.
LEMMA SizeStep ==
    ASSUME WriteTypeOK, SizeInv, CloseInv, [WriteNext]_writeVars
    PROVE  SizeInv'
<1> USE DEF WriteTypeOK, SizeInv
<1>1. ASSUME NEW p \in Posters, PostFull(p) PROVE SizeInv'
  BY <1>1, Zenon DEF PostFull, Full, writeVars, queueVars, armVars, userVars, readVars, pcVars
<1>2. ASSUME NEW p \in Posters, PostPush(p) PROVE SizeInv'
  <2>1. Len(wrQueue') = Len(wrQueue) + 1 /\ inflight' = inflight /\ ioPc' = ioPc
    BY <1>2 DEF PostPush
  <2> QED
    <3>1. Len(wrQueue) <= MaxPendingMsg /\ Len(wrQueue) \in Nat
      BY <1>2, MaxPendingMsgAssumption DEF PostPush, Full
    <3>2. Len(inflight) = 0 \/ Len(inflight) = 1
      BY EmptySeq, Zenon
    <3>3. Len(wrQueue') + Len(inflight') <= MaxPendingMsg + 2
      <4>1. CASE Len(inflight) = 0  BY <2>1, <3>1, <4>1, MaxPendingMsgAssumption
      <4>2. CASE Len(inflight) = 1  BY <2>1, <3>1, <4>2, MaxPendingMsgAssumption
      <4> QED  BY <3>2, <4>1, <4>2, Zenon
    <3> QED  BY <2>1, <3>3, Zenon
<1>3. ASSUME NEW p \in Posters, PostCas(p) PROVE SizeInv'
  BY <1>3, Zenon DEF PostCas, queueVars, userVars, readVars
<1>4. ASSUME NEW p \in Posters, PostMod(p) PROVE SizeInv'
  BY <1>4, Zenon DEF PostMod, queueVars, userVars, readVars, SpEnable
<1>5. CASE PeerSend
  BY <1>5, Zenon DEF PeerSend, queueVars, armVars, userVars, pcVars
<1>6. CASE IoReadError
  BY <1>6, Zenon DEF IoReadError, queueVars, armVars, userVars, readVars
<1>7. CASE IoSendFail
  <2>1. wrQueue' = wrQueue /\ Len(inflight) = 1 /\ Len(inflight') = 0 /\ ioPc' = "close"
    BY <1>7, Zenon DEF IoSendFail
  <2> QED
    BY <2>1, MaxPendingMsgAssumption
<1>8. CASE IoRead
  BY <1>8, Zenon DEF IoRead, queueVars, armVars, userVars, pcVars, HasData
<1>9. CASE IoWriteEvent
  BY <1>9, Zenon DEF IoWriteEvent, queueVars, armVars, userVars, readVars, HasData
<1>10. CASE IoFind
  BY <1>10, Zenon DEF IoFind, queueVars, armVars, userVars, readVars
<1>11. CASE IoCheck
  BY <1>11, Zenon DEF IoCheck, queueVars, armVars, userVars, readVars
<1>12. CASE IoPop
  <2>1. CASE wrQueue = <<>>
    BY <1>12, <2>1, Zenon DEF IoPop, armVars, userVars, readVars
  <2>2. CASE wrQueue # <<>>
    <3>1. Len(wrQueue') = Len(wrQueue) - 1 /\ Len(inflight') = 1 /\ ioPc' = "send" /\ Len(inflight) = 0
      BY <1>12, <2>2 DEF IoPop
    <3> QED  BY <3>1, MaxPendingMsgAssumption
  <2> QED  BY <2>1, <2>2, Zenon
<1>13. CASE IoSendSome
  <2>1. wrQueue' = wrQueue /\ Len(inflight) = 1
    BY <1>13, Zenon DEF IoSendSome
  <2>2. \/ inflight' = <<>> /\ Len(inflight') = 0 /\ ioPc' = "wait"
        \/ Len(inflight') = 1 /\ ioPc' = "requeue"
    BY <1>13 DEF IoSendSome
  <2> QED
    <3>1. Len(wrQueue) \in Nat /\ Len(wrQueue) + 1 <= MaxPendingMsg + 2
      BY <2>1
    <3>2. Len(wrQueue') + Len(inflight') <= MaxPendingMsg + 2
      <4>1. CASE Len(inflight') = 0  BY <2>1, <3>1, <4>1, MaxPendingMsgAssumption
      <4>2. CASE Len(inflight') = 1  BY <2>1, <3>1, <4>2, MaxPendingMsgAssumption, Zenon
      <4> QED  BY <2>2, <4>1, <4>2, Zenon
    <3> QED  BY <2>2, <3>2, Zenon
<1>14. CASE IoSendAgain
  BY <1>14, Zenon DEF IoSendAgain, queueVars, armVars, userVars, readVars
<1>15. CASE IoRequeue
  <2>1. Len(wrQueue') = Len(inflight) + Len(wrQueue) /\ Len(inflight') = 0 /\ ioPc' = "wait"
    <3>1. wrQueue' = inflight \o wrQueue /\ inflight' = <<>> /\ ioPc' = "wait"
      BY <1>15, Zenon DEF IoRequeue, PutBack
    <3> QED  BY <3>1, ConcatProperties, EmptySeq
  <2> QED
    BY <1>15, <2>1, MaxPendingMsgAssumption DEF IoRequeue
<1>16. CASE IoRecheck
  BY <1>16, Zenon DEF IoRecheck, queueVars, armVars, userVars, readVars, Drained
<1>17. CASE IoCas
  BY <1>17, Zenon DEF IoCas, queueVars, userVars, readVars
<1>18. CASE IoMod
  BY <1>18, Zenon DEF IoMod, queueVars, userVars, readVars, SpEnable
<1>19. CASE CloseNotFound
  BY <1>19, Zenon DEF CloseNotFound, queueVars, armVars, userVars, readVars
<1>20. ASSUME NEW c \in {"io", "monitor"}, CloseBegin(c) PROVE SizeInv'
  BY <1>20, Zenon DEF CloseBegin, queueVars, armVars, readVars
<1>21. CASE CloseEfd
  BY <1>21, Zenon DEF CloseEfd, queueVars, userVars, readVars
<1>22. CASE CloseFlag
  BY <1>22, Zenon DEF CloseFlag, queueVars, userVars, readVars
<1>23. CASE CloseErase
  BY <1>23, Zenon DEF CloseErase, queueVars, readVars, CloseInv
<1>24. CASE UNCHANGED writeVars
  BY <1>24, Zenon DEF writeVars, queueVars, armVars, userVars, readVars, pcVars
<1> QED
  BY <1>1, <1>2, <1>3, <1>4, <1>5, <1>6, <1>7, <1>8, <1>9, <1>10, <1>11,
     <1>12, <1>13, <1>14, <1>15, <1>16, <1>17, <1>18, <1>19, <1>20, <1>21,
     <1>22, <1>23, <1>24, Zenon
  DEF WriteNext, IoStep, PostStep, CloseStep

\* A step preserves what holds after a failed send.
LEMMA FailStep ==
    ASSUME WriteTypeOK, CloseInv, FailInv, [WriteNext]_writeVars
    PROVE  FailInv'
<1> USE DEF WriteTypeOK, CloseInv, FailInv
<1>1. ASSUME NEW p \in Posters, PostFull(p) PROVE FailInv'
  BY <1>1, Zenon DEF PostFull, Full, writeVars, queueVars, armVars, userVars, readVars, pcVars
<1>2. ASSUME NEW p \in Posters, PostPush(p) PROVE FailInv'
  BY <1>2, Zenon DEF PostPush, armVars, userVars, readVars
<1>3. ASSUME NEW p \in Posters, PostCas(p) PROVE FailInv'
  BY <1>3, Zenon DEF PostCas, queueVars, userVars, readVars
<1>4. ASSUME NEW p \in Posters, PostMod(p) PROVE FailInv'
  BY <1>4, Zenon DEF PostMod, queueVars, userVars, readVars, SpEnable
<1>5. CASE PeerSend
  BY <1>5, Zenon DEF PeerSend, queueVars, armVars, userVars, pcVars
<1>6. CASE IoReadError
  BY <1>6, Zenon DEF IoReadError, queueVars, armVars, userVars, readVars
<1>7. CASE IoSendFail
  BY <1>7, Zenon DEF IoSendFail, armVars, userVars, readVars
<1>8. CASE IoRead
  BY <1>8, Zenon DEF IoRead, queueVars, armVars, userVars, pcVars, HasData
<1>9. CASE IoWriteEvent
  BY <1>9, Zenon DEF IoWriteEvent, queueVars, armVars, userVars, readVars, HasData
<1>10. CASE IoFind
  BY <1>10, Zenon DEF IoFind, queueVars, armVars, userVars, readVars
<1>11. CASE IoCheck
  BY <1>11, Zenon DEF IoCheck, queueVars, armVars, userVars, readVars
<1>12. CASE IoPop
  BY <1>12, Zenon DEF IoPop, armVars, userVars, readVars
<1>13. CASE IoSendSome
  BY <1>13, Zenon DEF IoSendSome, armVars, userVars, readVars
<1>14. CASE IoSendAgain
  BY <1>14, Zenon DEF IoSendAgain, queueVars, armVars, userVars, readVars
<1>15. CASE IoRequeue
  BY <1>15, Zenon DEF IoRequeue, armVars, userVars, readVars, PutBack
<1>16. CASE IoRecheck
  BY <1>16, Zenon DEF IoRecheck, queueVars, armVars, userVars, readVars, Drained
<1>17. CASE IoCas
  BY <1>17, Zenon DEF IoCas, queueVars, userVars, readVars
<1>18. CASE IoMod
  BY <1>18, Zenon DEF IoMod, queueVars, userVars, readVars, SpEnable
<1>19. CASE CloseNotFound
  BY <1>19, Zenon DEF CloseNotFound, queueVars, armVars, userVars, readVars
<1>20. ASSUME NEW c \in {"io", "monitor"}, CloseBegin(c) PROVE FailInv'
  BY <1>20, Zenon DEF CloseBegin, queueVars, armVars, readVars
<1>21. CASE CloseEfd
  BY <1>21, Zenon DEF CloseEfd, queueVars, userVars, readVars
<1>22. CASE CloseFlag
  BY <1>22, Zenon DEF CloseFlag, queueVars, userVars, readVars
<1>23. CASE CloseErase
  BY <1>23, Zenon DEF CloseErase, queueVars, readVars
<1>24. CASE UNCHANGED writeVars
  BY <1>24, Zenon DEF writeVars, queueVars, armVars, userVars, readVars, pcVars
<1> QED
  BY <1>1, <1>2, <1>3, <1>4, <1>5, <1>6, <1>7, <1>8, <1>9, <1>10, <1>11,
     <1>12, <1>13, <1>14, <1>15, <1>16, <1>17, <1>18, <1>19, <1>20, <1>21,
     <1>22, <1>23, <1>24, Zenon
  DEF WriteNext, IoStep, PostStep, CloseStep

\* Appending the next len bytes extends a chain.
LEMMA ChainAppend ==
    ASSUME NEW s \in Seq(Message), NEW from \in Nat, NEW to \in Nat, NEW len \in Nat \ {0},
           from <= to, Chain(s, from, to)
    PROVE  Chain(Append(s, [lo |-> to + 1, hi |-> to + len]), from, to + len)
<1> DEFINE m == [lo |-> to + 1, hi |-> to + len]
           t == Append(s, m)
<1>1. m \in Message /\ m.lo = to + 1 /\ m.hi = to + len
  BY DEF Message
<1> HIDE DEF m
<1>2. /\ Len(t) = Len(s) + 1 /\ t # <<>>
      /\ \A i \in 1..Len(s) : t[i] = s[i]
      /\ t[Len(s) + 1] = m
  BY <1>1, AppendProperties
<1> HIDE DEF t
<1>3. \A i \in 1..Len(s) : s[i] \in Message
  BY ElementOfSeq, Zenon
<1>4. Len(s) \in Nat
  BY LenProperties, Zenon
<1>5. \A i \in 1..Len(t) : t[i].lo <= t[i].hi /\ t[i].hi <= to + len
  <2> SUFFICES ASSUME NEW i \in 1..Len(t) PROVE t[i].lo <= t[i].hi /\ t[i].hi <= to + len
    BY Zenon
  <2>1. CASE i \in 1..Len(s)
    <3>1. s[i].lo <= s[i].hi /\ s[i].hi <= to /\ s[i].hi \in Nat
      BY <1>3, <2>1, Zenon DEF Chain, Message
    <3> QED  BY <1>2, <2>1, <3>1
  <2>2. CASE i = Len(s) + 1
    BY <1>1, <1>2, <2>2
  <2> QED  BY <1>2, <1>4, <2>1, <2>2
<1>6. \A i \in 1..Len(t) - 1 : t[i + 1].lo = t[i].hi + 1
  <2> SUFFICES ASSUME NEW i \in 1..Len(s) PROVE t[i + 1].lo = t[i].hi + 1
    BY <1>2, <1>4
  <2>1. CASE i + 1 \in 1..Len(s)
    BY <1>2, <1>4, <2>1 DEF Chain
  <2>2. CASE i = Len(s)
    <3>1. s # <<>> /\ s[Len(s)].hi = to
      BY <2>2, EmptySeq DEF Chain
    <3> QED  BY <1>1, <1>2, <2>2, <3>1, Zenon
  <2> QED  BY <1>4, <2>1, <2>2
<1>7. t[1].lo = from + 1
  <2>1. CASE s = <<>>
    BY <1>1, <1>2, <2>1, EmptySeq DEF Chain
  <2>2. CASE s # <<>>
    <3>1. 1 \in 1..Len(s)
      BY <2>2, EmptySeq
    <3> QED  BY <1>2, <2>2, <3>1, Zenon DEF Chain
  <2> QED  BY <2>1, <2>2, Zenon
<1>8. t[Len(t)].hi = to + len
  BY <1>1, <1>2, Zenon
<1>9. Chain(t, from, to + len)
  BY <1>2, <1>5, <1>6, <1>7, <1>8, Zenon DEF Chain
<1> QED
  BY <1>9, Zenon DEF t, m

\* A message put in front of a queue.
LEMMA ConsProperties ==
    ASSUME NEW m \in Message, NEW q \in Seq(Message)
    PROVE  /\ <<m>> \o q \in Seq(Message)
           /\ Len(<<m>> \o q) = Len(q) + 1
           /\ <<m>> \o q # <<>>
           /\ (<<m>> \o q)[1] = m
           /\ \A i \in 1..Len(q) : (<<m>> \o q)[i + 1] = q[i]
<1>1. <<m>> \in Seq(Message) /\ Len(<<m>>) = 1 /\ <<m>>[1] = m
  BY SingletonSeq, Zenon
<1>2. Len(q) \in Nat
  BY LenProperties, Zenon
<1>3. /\ <<m>> \o q \in Seq(Message)
      /\ Len(<<m>> \o q) = 1 + Len(q)
      /\ \A i \in 1..1 + Len(q) : (<<m>> \o q)[i] = IF i <= 1 THEN <<m>>[i] ELSE q[i - 1]
  BY <1>1, ConcatProperties, Zenon
<1>4. <<m>> \o q # <<>>
  BY <1>2, <1>3, EmptySeq
<1> QED
  BY <1>1, <1>2, <1>3, <1>4

\* Sending the first message of a chain leaves the chain of the others.
LEMMA ChainSendAll ==
    ASSUME NEW m \in Message, NEW q \in Seq(Message), NEW from \in Nat, NEW to \in Nat,
           Chain(<<m>> \o q, from, to)
    PROVE  m.lo = from + 1 /\ m.lo <= m.hi /\ m.hi <= to /\ Chain(q, m.hi, to)
<1> DEFINE s == <<m>> \o q
<1>1. /\ Len(s) = Len(q) + 1 /\ s # <<>> /\ s[1] = m
      /\ \A i \in 1..Len(q) : s[i + 1] = q[i]
  BY ConsProperties, Zenon
<1>2. Len(q) \in Nat
  BY LenProperties, Zenon
<1>3. Chain(s, from, to)
  BY Zenon
<1> HIDE DEF s
<1>4. m.lo = from + 1 /\ m.lo <= m.hi /\ m.hi <= to
  BY <1>1, <1>2, <1>3 DEF Chain
<1>5. \A i \in 1..Len(q) : q[i].lo <= q[i].hi /\ q[i].hi <= to
  BY <1>1, <1>2, <1>3 DEF Chain
<1>6. \A i \in 1..Len(q) - 1 : q[i + 1].lo = q[i].hi + 1
  <2> SUFFICES ASSUME NEW i \in 1..Len(q) - 1 PROVE q[i + 1].lo = q[i].hi + 1
    BY Zenon
  <2>1. s[(i + 1) + 1].lo = s[i + 1].hi + 1
    BY <1>1, <1>2, <1>3 DEF Chain
  <2>2. s[(i + 1) + 1] = q[i + 1] /\ s[i + 1] = q[i]
    BY <1>1, <1>2
  <2> QED  BY <2>1, <2>2, Zenon
<1>7. CASE q = <<>>
  <2>1. Len(q) = 0
    BY <1>7, EmptySeq, Zenon
  <2>2. m.hi = to
    BY <1>1, <1>3, <2>1 DEF Chain
  <2> QED  BY <1>4, <1>5, <1>6, <1>7, <2>2, Zenon DEF Chain
<1>8. CASE q # <<>>
  <2>1. Len(q) >= 1
    BY <1>8, EmptySeq
  <2>2. q[1].lo = m.hi + 1
    BY <1>1, <1>2, <1>3, <2>1 DEF Chain
  <2>3. q[Len(q)].hi = to
    BY <1>1, <1>2, <1>3, <2>1 DEF Chain
  <2> QED  BY <1>4, <1>5, <1>6, <1>8, <2>2, <2>3, Zenon DEF Chain
<1> QED
  BY <1>7, <1>8, Zenon

\* Sending n bytes of the first message leaves a chain that starts n bytes later.
LEMMA ChainSendPart ==
    ASSUME NEW m \in Message, NEW q \in Seq(Message), NEW from \in Nat, NEW to \in Nat,
           NEW n \in Nat, m.lo + n <= m.hi, Chain(<<m>> \o q, from, to)
    PROVE  Chain(<<[lo |-> m.lo + n, hi |-> m.hi]>> \o q, from + n, to)
<1> DEFINE r == [lo |-> m.lo + n, hi |-> m.hi]
           s == <<m>> \o q
           t == <<r>> \o q
<1>1. r \in Message /\ r.lo = m.lo + n /\ r.hi = m.hi /\ m.lo \in Nat /\ m.hi \in Nat
  BY DEF Message
<1> HIDE DEF r
<1>2. /\ Len(s) = Len(q) + 1 /\ s # <<>> /\ s[1] = m
      /\ \A i \in 1..Len(q) : s[i + 1] = q[i]
  BY ConsProperties, Zenon
<1>3. /\ Len(t) = Len(q) + 1 /\ t # <<>> /\ t[1] = r
      /\ \A i \in 1..Len(q) : t[i + 1] = q[i]
  BY <1>1, ConsProperties, Zenon
<1>4. Len(q) \in Nat
  BY LenProperties, Zenon
<1>5. Chain(s, from, to)
  BY Zenon
<1> HIDE DEF s, t
<1>6. \A i \in 1..Len(t) : i # 1 => t[i] = s[i]
  <2> SUFFICES ASSUME NEW i \in 1..Len(t), i # 1 PROVE t[i] = s[i]
    BY Zenon
  <2>1. i - 1 \in 1..Len(q) /\ (i - 1) + 1 = i
    BY <1>3, <1>4
  <2> QED  BY <1>2, <1>3, <2>1, Zenon
<1>7. \A i \in 1..Len(t) : t[i].hi = s[i].hi
  BY <1>1, <1>2, <1>3, <1>6, Zenon
<1>8. \A i \in 1..Len(t) : t[i].lo <= t[i].hi /\ t[i].hi <= to
  <2> SUFFICES ASSUME NEW i \in 1..Len(t) PROVE t[i].lo <= t[i].hi /\ t[i].hi <= to
    BY Zenon
  <2>1. s[i].lo <= s[i].hi /\ s[i].hi <= to
    BY <1>2, <1>3, <1>5, Zenon DEF Chain
  <2>2. CASE i = 1  BY <1>1, <1>2, <1>3, <2>1, <2>2, Zenon
  <2>3. CASE i # 1  BY <1>6, <2>1, <2>3, Zenon
  <2> QED  BY <2>2, <2>3, Zenon
<1>9. \A i \in 1..Len(t) - 1 : t[i + 1].lo = t[i].hi + 1
  <2> SUFFICES ASSUME NEW i \in 1..Len(t) - 1 PROVE t[i + 1].lo = t[i].hi + 1
    BY Zenon
  <2>1. s[i + 1].lo = s[i].hi + 1
    BY <1>2, <1>3, <1>5, Zenon DEF Chain
  <2>2. t[i + 1] = s[i + 1] /\ t[i].hi = s[i].hi
    BY <1>3, <1>4, <1>6, <1>7
  <2> QED  BY <2>1, <2>2, Zenon
<1>10. t[1].lo = (from + n) + 1
  <2>1. m.lo = from + 1
    BY <1>2, <1>5, Zenon DEF Chain
  <2> QED  BY <1>1, <1>3, <2>1
<1>11. t[Len(t)].hi = to
  BY <1>2, <1>3, <1>4, <1>5, <1>7 DEF Chain
<1>12. Chain(t, from + n, to)
  BY <1>3, <1>8, <1>9, <1>10, <1>11, Zenon DEF Chain
<1> QED
  BY <1>12, Zenon DEF t, r

\* The stream properties depend on the queue variables only.
LEMMA StreamKept ==
    ASSUME StreamInv, UNCHANGED queueVars
    PROVE  StreamInv'
BY Zenon DEF StreamInv, queueVars, StreamInOrder, NothingLost, Chain

\* A step preserves the stream properties.
LEMMA StreamStep ==
    ASSUME WriteTypeOK, SizeInv, FailInv, StreamInv, [WriteNext]_writeVars
    PROVE  StreamInv'
<1> USE DEF WriteTypeOK
<1>1. ASSUME NEW p \in Posters, PostPush(p) PROVE StreamInv'
  <2>1. PICK len \in MsgLens :
           /\ wrQueue' = Append(wrQueue, [lo |-> posted + 1, hi |-> posted + len])
           /\ posted' = posted + len
    BY <1>1, Zenon DEF PostPush
  <2> DEFINE m == [lo |-> posted + 1, hi |-> posted + len]
  <2>2. inflight' = inflight /\ wire' = wire /\ failed' = failed
    BY <1>1, Zenon DEF PostPush
  <2>3. len \in Nat \ {0} /\ posted' \in Nat /\ Len(wire) \in Nat
    BY <2>1, MsgLensAssumption
  <2>4. StreamInOrder'
    BY <2>1, <2>2, <2>3 DEF StreamInv, StreamInOrder
  <2>5. ASSUME ~failed PROVE Chain(inflight' \o wrQueue', Len(wire'), posted')
    <3>1. m \in Message
      BY <2>3 DEF Message
    <3>2. inflight \o wrQueue \in Seq(Message)
      BY ConcatProperties, Zenon
    <3>3. Chain(inflight \o wrQueue, Len(wire), posted) /\ Len(wire) <= posted
      BY <2>5, Zenon DEF StreamInv, NothingLost, StreamInOrder
    <3>4. Chain(Append(inflight \o wrQueue, m), Len(wire), posted + len)
      BY <2>3, <3>2, <3>3, ChainAppend, Zenon
    <3>5. inflight \o Append(wrQueue, m) = Append(inflight \o wrQueue, m)
      <4> HIDE DEF m
      <4> QED  BY <3>1, <3>2, AppendIsConcat, ConcatAssociative, SingletonSeq
    <3> QED
      BY <2>1, <2>2, <3>4, <3>5, Zenon
  <2> QED
    BY <2>2, <2>3, <2>4, <2>5, Zenon DEF StreamInv, NothingLost
<1>2. CASE IoPop
  <2>1. CASE wrQueue = <<>>
    BY <1>2, <2>1, StreamKept, Zenon DEF IoPop, queueVars
  <2>2. CASE wrQueue # <<>>
    <3>1. inflight' = <<Head(wrQueue)>> /\ wrQueue' = Tail(wrQueue)
      BY <1>2, <2>2, Zenon DEF IoPop
    <3>2. posted' = posted /\ wire' = wire /\ failed' = failed /\ inflight = <<>>
      BY <1>2, Zenon DEF IoPop, SizeInv
    <3>3. <<Head(wrQueue)>> \o Tail(wrQueue) = wrQueue
      <4> DEFINE s == <<Head(wrQueue)>> \o Tail(wrQueue)
      <4>1. /\ Head(wrQueue) \in Message /\ Tail(wrQueue) \in Seq(Message)
            /\ Len(Tail(wrQueue)) = Len(wrQueue) - 1
            /\ Head(wrQueue) = wrQueue[1]
            /\ \A i \in 1..Len(Tail(wrQueue)) : Tail(wrQueue)[i] = wrQueue[i + 1]
            /\ Len(wrQueue) \in Nat
        BY <2>2, HeadTailProperties, EmptySeq
      <4>2. s \in Seq(Message) /\ Len(s) = Len(wrQueue) /\ s[1] = wrQueue[1]
            /\ \A i \in 1..Len(wrQueue) - 1 : s[i + 1] = wrQueue[i + 1]
        BY <4>1, ConsProperties
      <4> HIDE DEF s
      <4>3. ASSUME NEW i \in 1..Len(s) PROVE s[i] = wrQueue[i]
        <5>1. CASE i = 1  BY <4>2, <5>1, Zenon
        <5>2. CASE i # 1
          <6>1. i - 1 \in 1..Len(wrQueue) - 1 /\ (i - 1) + 1 = i
            BY <4>1, <4>2, <5>2
          <6> QED  BY <4>2, <6>1, Zenon
        <5> QED  BY <5>1, <5>2, Zenon
      <4>4. s = wrQueue
        BY <4>2, <4>3, SeqEqual, Zenon
      <4> QED  BY <4>4, Zenon DEF s
    <3>4. inflight' \o wrQueue' = inflight \o wrQueue
      BY <3>1, <3>2, <3>3, ConcatEmptySeq, Zenon
    <3> QED
      BY <3>2, <3>4, Zenon DEF StreamInv, StreamInOrder, NothingLost
  <2> QED  BY <2>1, <2>2, Zenon
<1>3. CASE IoSendSome
  <2> DEFINE m == inflight[1]
  <2>1. ~failed /\ Len(inflight) = 1 /\ wrQueue' = wrQueue /\ posted' = posted /\ failed' = failed
    BY <1>3, Zenon DEF IoSendSome, FailInv, SizeInv
  <2>2. m \in Message /\ inflight = <<m>>
    <3>1. m \in Message
      <4>1. inflight \in Seq(Message) /\ 1 \in 1..1
        OBVIOUS
      <4> HIDE DEF WriteTypeOK
      <4> QED  BY <2>1, <4>1, ElementOfSeq, Zenon
    <3>2. <<m>> \in Seq(Message) /\ Len(<<m>>) = 1 /\ <<m>>[1] = m
      BY <3>1, SingletonSeq, Zenon
    <3> QED  BY <2>1, <3>1, <3>2, SeqEqual
  <2>3. PICK n \in 1..(m.hi - m.lo + 1) :
           /\ wire' = wire \o [i \in 1..n |-> m.lo + i - 1]
           /\ IF m.lo + n > m.hi
                THEN inflight' = <<>> /\ ioPc' = "wait"
                ELSE inflight' = <<[lo |-> m.lo + n, hi |-> m.hi]>> /\ ioPc' = "requeue"
    BY <1>3, Zenon DEF IoSendSome
  <2> HIDE DEF m
  <2>4. Chain(<<m>> \o wrQueue, Len(wire), posted) /\ Len(wire) \in Nat /\ posted \in Nat
    BY <2>1, <2>2 DEF StreamInv, NothingLost
  <2>5. m.lo = Len(wire) + 1 /\ m.lo <= m.hi /\ m.hi <= posted /\ Chain(wrQueue, m.hi, posted)
    BY <2>2, <2>4, ChainSendAll, Zenon
  <2>6. m.lo \in Nat /\ m.hi \in Nat /\ n \in Nat /\ n >= 1 /\ m.lo + n <= m.hi + 1
    BY <2>2, <2>3 DEF Message
  <2> DEFINE sent == [i \in 1..n |-> m.lo + i - 1]
  <2>7. sent \in Seq(Nat) /\ Len(sent) = n /\ \A i \in 1..n : sent[i] = m.lo + i - 1
    <3>1. sent \in [1..n -> Nat]
      BY <2>6
    <3>2. \A i \in 1..n : sent[i] = m.lo + i - 1
      BY Zenon
    <3> HIDE DEF sent
    <3> QED  BY <2>6, <3>1, <3>2, FunctionSeq, Zenon
  <2> HIDE DEF sent
  <2>8. /\ Len(wire') = Len(wire) + n
        /\ \A i \in 1..Len(wire) + n :
              wire'[i] = IF i <= Len(wire) THEN wire[i] ELSE sent[i - Len(wire)]
    <3>1. wire' = wire \o sent /\ wire \in Seq(Nat)
      BY <2>3, Zenon DEF sent
    <3> QED  BY <2>7, <3>1, ConcatProperties, Zenon
  <2>9. StreamInOrder'
    <3>1. Len(wire') <= posted'
      BY <2>1, <2>4, <2>5, <2>6, <2>8
    <3>2. ASSUME NEW i \in 1..Len(wire') PROVE wire'[i] = i
      <4>1. CASE i <= Len(wire)
        <5>1. i \in 1..Len(wire) /\ wire'[i] = wire[i]
          BY <2>4, <2>6, <2>8, <4>1
        <5> QED  BY <5>1, Zenon DEF StreamInv, StreamInOrder
      <4>2. CASE i > Len(wire)
        <5>1. i - Len(wire) \in 1..n /\ wire'[i] = sent[i - Len(wire)]
          BY <2>4, <2>6, <2>8, <4>2
        <5>2. wire'[i] = m.lo + (i - Len(wire)) - 1
          BY <2>7, <5>1, Zenon
        <5>3. i \in Nat /\ Len(wire) \in Nat /\ m.lo = Len(wire) + 1
          BY <2>4, <2>5, <2>6, <2>8
        <5> HIDE DEF WriteTypeOK
        <5> QED  BY <5>2, <5>3
      <4> QED  BY <2>4, <2>6, <2>8, <4>1, <4>2
    <3> QED  BY <3>1, <3>2, Zenon DEF StreamInOrder
  <2>10. CASE m.lo + n > m.hi
    <3>1. Len(wire') = m.hi /\ inflight' = <<>>
      <4> HIDE DEF WriteTypeOK
      <4>1. m.lo + n = m.hi + 1
        BY <2>6, <2>10
      <4>2. Len(wire') = m.hi
        <5>1. Len(wire') = Len(wire) + n /\ Len(wire) \in Nat /\ m.lo = Len(wire) + 1
          BY <2>4, <2>5, <2>8, Zenon
        <5> QED  BY <2>6, <4>1, <5>1
      <4>3. inflight' = <<>>
        BY <2>3, <2>10, Zenon
      <4> QED  BY <4>2, <4>3, Zenon
    <3>2. inflight' \o wrQueue' = wrQueue
      BY <2>1, <3>1, ConcatEmptySeq, Zenon
    <3>3. Chain(inflight' \o wrQueue', Len(wire'), posted')
      BY <2>1, <2>5, <3>1, <3>2, Zenon
    <3> QED  BY <2>1, <2>4, <2>9, <3>3, Zenon DEF StreamInv, NothingLost
  <2>11. CASE m.lo + n <= m.hi
    <3>1. inflight' = <<[lo |-> m.lo + n, hi |-> m.hi]>>
      <4>1. ~(m.lo + n > m.hi)
        BY <2>6, <2>11
      <4> QED  BY <2>3, <4>1, Zenon
    <3>2. Chain(<<[lo |-> m.lo + n, hi |-> m.hi]>> \o wrQueue, Len(wire) + n, posted)
      BY <2>2, <2>4, <2>6, <2>11, ChainSendPart, Zenon
    <3>3. Chain(inflight' \o wrQueue', Len(wire'), posted')
      BY <2>1, <2>8, <3>1, <3>2, Zenon
    <3> QED  BY <2>1, <2>4, <2>9, <3>3, Zenon DEF StreamInv, NothingLost
  <2> QED  BY <2>6, <2>10, <2>11
<1>4. CASE IoSendFail
  <2>1. posted' = posted /\ wire' = wire /\ failed'
    BY <1>4, Zenon DEF IoSendFail
  <2> QED  BY <2>1, Zenon DEF StreamInv, StreamInOrder, NothingLost
<1>5. CASE IoRequeue
  <2>1. wrQueue' = inflight \o wrQueue /\ inflight' = <<>>
    BY <1>5, Zenon DEF IoRequeue, PutBack
  <2>2. posted' = posted /\ wire' = wire /\ failed' = failed
    BY <1>5, Zenon DEF IoRequeue
  <2>3. inflight' \o wrQueue' = inflight \o wrQueue
    BY <2>1, ConcatProperties, ConcatEmptySeq
  <2> QED
    BY <2>2, <2>3, Zenon DEF StreamInv, StreamInOrder, NothingLost
<1>6. ASSUME UNCHANGED queueVars PROVE StreamInv'
  BY <1>6, StreamKept, Zenon
<1> QED
  <2> HIDE DEF WriteTypeOK
  <2>1. \/ \E p \in Posters : PostPush(p)
        \/ IoPop \/ IoSendSome \/ IoSendFail \/ IoRequeue
        \/ UNCHANGED queueVars
    BY Zenon DEF WriteNext, IoStep, PostStep, CloseStep, writeVars, PostFull, PostCas, PostMod, PeerSend,
           IoReadError, IoRead, IoWriteEvent, IoFind, IoCheck, IoSendAgain, IoRecheck,
           IoCas, IoMod, CloseNotFound, CloseBegin, CloseEfd, CloseFlag, CloseErase
  <2> QED  BY <1>1, <1>2, <1>3, <1>4, <1>5, <1>6, <2>1, Zenon

-----------------------------------------------------------------------------
\* The inductive invariant holds in every behaviour.
THEOREM InvTheorem == WriteSpec => []Inv
<1>1. WriteInit => Inv
  <2> SUFFICES ASSUME WriteInit PROVE Inv
    BY Zenon
  <2>1. WriteTypeOK
    BY EmptySeq, Zenon DEF WriteInit, WriteTypeOK
  <2>2. LockInv /\ CloseInv /\ ArmInv
    BY PostersAssumption, Zenon DEF WriteInit, LockInv, CloseInv, ArmInv
  <2>3. SizeInv
    BY MaxPendingMsgAssumption, EmptySeq DEF WriteInit, SizeInv
  <2>4. FailInv /\ StreamInv
    <3>1. Chain(<<>>, 0, 0)
      BY EmptySeq DEF Chain
    <3>2. <<>> \o wrQueue = <<>>
      BY ConcatEmptySeq, EmptySeq, Zenon DEF WriteInit
    <3> QED
      BY <3>1, <3>2, EmptySeq DEF WriteInit, FailInv, StreamInv, StreamInOrder, NothingLost
  <2> QED  BY <2>1, <2>2, <2>3, <2>4, Zenon DEF Inv
<1>2. Inv /\ [WriteNext]_writeVars => Inv'
  BY TypeStep, LockStep, CloseStepInv, ArmStep, SizeStep, FailStep, StreamStep, Zenon DEF Inv
<1> QED
  BY <1>1, <1>2, PTL DEF WriteSpec

\* Type correctness of the write path.
THEOREM TypeCorrect == WriteSpec => []WriteTypeOK
<1>1. Inv => WriteTypeOK
  BY Zenon DEF Inv
<1> QED
  BY <1>1, InvTheorem, PTL

\* No lost wakeup, for any number of posters: a non-empty _wrQueue of an open
\* user is armed whenever _lockWRQ is free.
THEOREM NoLostWakeup == WriteSpec => []Armed
<1>1. Inv => Armed
  BY Zenon DEF Inv, ArmInv, Armed
<1> QED
  BY <1>1, InvTheorem, PTL

\* The bytes on the wire are a prefix of the accepted stream, and until a send
\* fails every accepted byte is on the wire, with the IO thread, or queued.
THEOREM StreamCorrect == WriteSpec => []StreamIntact
<1>1. Inv => StreamIntact
  BY Zenon DEF Inv, StreamInv, StreamIntact
<1> QED
  BY <1>1, InvTheorem, PTL

\* _wrQueue never exceeds the limit of post() by more than two messages.
THEOREM QueueBounded == WriteSpec => []QueueBound
<1>1. Inv => QueueBound
  BY MaxPendingMsgAssumption DEF Inv, WriteTypeOK, SizeInv, QueueBound
<1> QED
  BY <1>1, InvTheorem, PTL
=============================================================================
