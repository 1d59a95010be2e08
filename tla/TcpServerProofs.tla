--------------------------- MODULE TcpServerProofs ---------------------------
(***************************************************************************)
(* The inductive invariant of TcpServer, for any number of connections,     *)
(* descriptors, workers and other threads, and what follows from it.  What  *)
(* the server does by descriptor number reaches the right user, although    *)
(* numbers are reused, and the limit on connections holds.  TcpServer       *)
(* implements UserLifecycle: each step of the server is a step in the life  *)
(* of a user as the applications see it, or changes nothing there.          *)
(***************************************************************************)
EXTENDS TcpServer, FiniteSetTheorems, TLAPS

IoLabels == {"wait", "next", "create", "recv", "findr", "findw", "handle", "send",
             "close", "erase", "exit"}
MonLabels == {"pop", "expire", "close", "erase", "check", "exit"}
WkLabels == {"pop", "check", "run", "exit"}
Events == [fd : Fds \cup {Listen}, kind : {"read", "write", "error"}]

\* The labels of the monitor between popFrontUser() and the end of its round.
Busy == {"expire", "close", "erase", "check"}

Has(s, u) == \E i \in 1..Len(s) : s[i] = u
Distinct(s) == \A i, j \in 1..Len(s) : s[i] = s[j] => i = j

\* The users that were created; a reference is to one of them or to none.
Created == 1..userSeq
Refs == Created \cup {NoUser}

UserTypes ==
    /\ userSeq \in 0..MaxUsers
    /\ fdOf \in [Users -> Fds \cup {NoFd}] /\ \A u \in Created : fdOf[u] \in Fds
    /\ fd2user \in [Fds -> Refs] /\ users \in Seq(Created)
    /\ ioUser \in Refs /\ monUser \in Refs
    /\ recvQueue \in [Workers -> Seq(Created)]
    /\ wkUser \in [Workers -> Refs] /\ held \in [Others -> Refs]
    /\ closed \subseteq Created /\ notified \in [Users -> Nat]
    /\ \A u \in Users : notified[u] > 0 => u \in closed

\* Control: who holds _lockF2U, what each thread holds at each label, and that
\* a connection is accepted for each user created.
ControlInv ==
    /\ batch \subseteq Events
    /\ ioPc \in IoLabels /\ monPc \in MonLabels /\ wkPc \in [Workers -> WkLabels]
    /\ ioPc \notin {"wait", "next", "exit"} => ioFd \in Fds
    /\ lockF2U \in {"free", "io", "mon"}
    /\ lockF2U = "io" <=> ioPc = "erase"
    /\ lockF2U = "mon" <=> monPc = "erase"
    /\ ioPc \in {"handle", "send"} => ioUser # NoUser
    /\ ioPc \notin {"handle", "send", "close", "erase"} => ioUser = NoUser
    /\ monPc \in Busy => monUser # NoUser
    /\ monPc = "exit" => monUser = NoUser
    /\ cursor \in Workers
    /\ \A w \in Workers : wkUser[w] # NoUser <=> wkPc[w] \in {"check", "run"}
    /\ main \in {"joined", "closed"} =>
          ioPc = "exit" /\ monPc = "exit" /\ \A w \in Workers : wkPc[w] = "exit"

BacklogInv ==
    /\ backlog \in Nat /\ conns \in 0..MaxUsers
    /\ Event(Listen, "read") \in batch => backlog > 0
    /\ \A e \in batch : e.fd = Listen => e = Event(Listen, "read")
    /\ userSeq + backlog + (IF ioPc = "create" THEN 1 ELSE 0) <= conns

\* The socket of a live user is its own, also while a new one is accepted.
DescInv ==
    /\ \A u, v \in Created : u # v /\ Alive(u) /\ Alive(v) => fdOf[u] # fdOf[v]
    /\ \A f \in Fds : fd2user[f] # NoUser => fdOf[fd2user[f]] = f
    /\ ioUser # NoUser => fdOf[ioUser] = ioFd
    /\ ioPc = "create" => \A u \in Created : Alive(u) => fdOf[u] # ioFd

\* The monitor has every user that was not reported yet, once: in the list or
\* in its hand.
ListInv ==
    /\ Distinct(users)
    /\ monPc \in Busy => ~InList(monUser) /\ notified[monUser] = 0
    /\ \A u \in Created : InList(u) => notified[u] = 0
    /\ main # "closed" =>
          \A u \in Created :
             notified[u] > 0 \/ InList(u) \/ (monPc \in Busy /\ monUser = u)

Inv == UserTypes /\ ControlInv /\ BacklogInv /\ DescInv /\ ListInv

-----------------------------------------------------------------------------
(* The facts about sequences that the proofs use.                           *)

\* The empty sequence is one over every set; any other has a first element.
LEMMA SeqEmpty ==
    ASSUME NEW S
    PROVE  <<>> \in Seq(S) /\ Len(<<>>) = 0 /\ \A s \in Seq(S) : s # <<>> => Len(s) \in Nat \ {0}
  OBVIOUS

\* What is in a sequence over S is in S.
LEMMA SeqElement ==
    ASSUME NEW S, NEW s \in Seq(S), NEW i \in 1..Len(s)
    PROVE  s[i] \in S
  OBVIOUS

\* A length is a natural number.
LEMMA SeqLen ==
    ASSUME NEW S, NEW s \in Seq(S)
    PROVE  Len(s) \in Nat
  OBVIOUS

\* A sequence over S is one over every larger set.
LEMMA SeqWiden ==
    ASSUME NEW S, NEW s \in Seq(S), NEW T, S \subseteq T
    PROVE  s \in Seq(T)
  OBVIOUS

\* Appending x adds one element, x, at the end.
LEMMA SeqAppend ==
    ASSUME NEW S, NEW s \in Seq(S), NEW x \in S
    PROVE  /\ Append(s, x) \in Seq(S) /\ Append(s, x) # <<>>
           /\ Len(Append(s, x)) = Len(s) + 1 /\ Append(s, x)[Len(s) + 1] = x
           /\ \A i \in 1..Len(s) : Append(s, x)[i] = s[i]
  OBVIOUS

\* Taking the head off moves the others down by one.
LEMMA SeqHeadTail ==
    ASSUME NEW S, NEW s \in Seq(S), s # <<>>
    PROVE  /\ Head(s) \in S /\ Tail(s) \in Seq(S) /\ Len(Tail(s)) = Len(s) - 1
           /\ \A i \in 1..Len(Tail(s)) : Tail(s)[i] = s[i + 1]
  OBVIOUS

-----------------------------------------------------------------------------
(* The list, and the steps that leave every reference to a user alone.      *)

\* A list with an element appended contains that element and what it contained.
LEMMA HasAppend ==
    ASSUME NEW S, NEW s \in Seq(S), NEW x \in S, NEW u
    PROVE  Has(Append(s, x), u) <=> Has(s, u) \/ u = x
<1>1. /\ Len(s) \in Nat /\ Len(Append(s, x)) = Len(s) + 1
      /\ \A i \in 1..Len(s) : Append(s, x)[i] = s[i]
      /\ Append(s, x)[Len(s) + 1] = x
  BY SeqAppend, SeqLen
<1>2. Has(s, u) => Has(Append(s, x), u)
  BY <1>1 DEF Has
<1>3. u = x => Has(Append(s, x), u)
  BY <1>1 DEF Has
<1>4. ASSUME NEW i \in 1..Len(Append(s, x)), Append(s, x)[i] = u PROVE Has(s, u) \/ u = x
  BY <1>1, <1>4 DEF Has
<1> QED  BY <1>2, <1>3, <1>4, Zenon DEF Has

\* A list contains its head and what its tail contains.
LEMMA HasTail ==
    ASSUME NEW S, NEW s \in Seq(S), s # <<>>, NEW u
    PROVE  Has(s, u) <=> Has(Tail(s), u) \/ u = Head(s)
<1>1. /\ Len(s) \in Nat \ {0} /\ Len(Tail(s)) = Len(s) - 1
      /\ \A i \in 1..Len(Tail(s)) : Tail(s)[i] = s[i + 1]
      /\ Head(s) = s[1]
  BY SeqHeadTail, SeqLen, SeqEmpty
<1>2. ASSUME NEW i \in 1..Len(Tail(s)), Tail(s)[i] = u PROVE Has(s, u)
  BY <1>1, <1>2 DEF Has
<1>3. ASSUME NEW i \in 1..Len(s), s[i] = u PROVE Has(Tail(s), u) \/ u = Head(s)
  <2>1. CASE i # 1
    <3>1. i - 1 \in 1..Len(Tail(s)) /\ Tail(s)[i - 1] = s[i]
      BY <1>1, <2>1
    <3> QED  BY <1>3, <3>1, Zenon DEF Has
  <2> QED  BY <1>1, <1>3, <2>1, Zenon
<1>4. u = Head(s) => Has(s, u)
  BY <1>1 DEF Has
<1> QED  BY <1>2, <1>3, <1>4, Zenon DEF Has

\* Appending an element that a list does not contain keeps its elements distinct.
LEMMA DistinctAppend ==
    ASSUME NEW S, NEW s \in Seq(S), NEW x \in S, Distinct(s), ~Has(s, x)
    PROVE  Distinct(Append(s, x))
<1>1. /\ Len(s) \in Nat /\ Len(Append(s, x)) = Len(s) + 1
      /\ \A i \in 1..Len(s) : Append(s, x)[i] = s[i] /\ s[i] # x
      /\ Append(s, x)[Len(s) + 1] = x
  BY SeqAppend, SeqLen DEF Has
<1> QED  BY <1>1 DEF Distinct

\* Taking the head off a list keeps its elements distinct, and the head is gone from it.
LEMMA DistinctTail ==
    ASSUME NEW S, NEW s \in Seq(S), s # <<>>, Distinct(s)
    PROVE  Distinct(Tail(s)) /\ ~Has(Tail(s), Head(s))
<1>1. /\ Len(s) \in Nat \ {0} /\ Len(Tail(s)) = Len(s) - 1
      /\ \A i \in 1..Len(Tail(s)) : Tail(s)[i] = s[i + 1] /\ i + 1 \in 1..Len(s)
      /\ Head(s) = s[1] /\ 1 \in 1..Len(s)
  BY SeqHeadTail, SeqLen, SeqEmpty
<1>2. Distinct(Tail(s))
  BY <1>1 DEF Distinct
<1>3. ~Has(Tail(s), Head(s))
  BY <1>1 DEF Distinct, Has
<1> QED  BY <1>2, <1>3, Zenon

refVars == <<userSeq, fdOf, fd2user, users, ioUser, monUser, recvQueue, wkUser, held,
             closed, notified>>

\* The steps that change a reference, and the others.
LEMMA RefSteps ==
    ASSUME [Next]_vars
    PROVE  \/ UNCHANGED refVars
           \/ \E o \in Others : Release(o) \/ \E u \in Users : Hold(o, u)
           \/ IoCreate \/ IoFind \/ IoHandle \/ IoSend \/ IoClose \/ IoErase
           \/ MonPop \/ MonClose \/ MonErase \/ MonCheck
           \/ \E w \in Workers : WkPop(w) \/ WkCheck(w) \/ WkDone(w)
           \/ Join \/ CloseServer
<1> USE DEF refVars, userVars, ioVars, monVars, wkVars, mainVars
<1>1. CASE UNCHANGED vars
  BY <1>1, Zenon DEF vars
<1>2. CASE ClientConnect \/ \E u \in Users : PeerSend(u) \/ PeerBreak(u)
  BY <1>2, Zenon DEF ClientConnect, PeerSend, PeerBreak
<1>3. CASE IoWait \/ IoWaitFail
  BY <1>3, Zenon DEF IoWait, IoWaitFail
<1>4. CASE IoNext \/ IoAccept \/ IoRecv
  BY <1>4, Zenon DEF IoNext, IoAccept, IoRecv
<1>5. CASE MonExpire \/ Started \/ Stop \/ StopQueues
  BY <1>5, Zenon DEF MonExpire, Started, Stop, StopQueues
<1> QED
  BY <1>1, <1>2, <1>3, <1>4, <1>5, Zenon DEF Next, IoStep, MonStep, WkStep, MainStep

-----------------------------------------------------------------------------
(* Types: no reference is to a user that was not created.                   *)

\* Before start() no user exists and none is referred to.
LEMMA TypesInit == Init => UserTypes
  BY SeqEmpty, BoundsAssumption DEF Init, UserTypes, Users, NoUser, Created, Refs

\* A reference that is not null is to a user that createUser() made.
LEMMA UserFacts ==
    ASSUME UserTypes
    PROVE  /\ Created \subseteq Users /\ NoUser \notin Users /\ NoUser \in Refs
           /\ Created \subseteq Refs /\ \A r \in Refs : r # NoUser => r \in Created
  BY BoundsAssumption DEF UserTypes, Users, NoUser, Created, Refs

\* A user object with a reference to it was created.
LEMMA AliveCreated ==
    ASSUME UserTypes, NEW u \in Users, Alive(u)
    PROVE  u \in Created
<1>1. CASE InList(u)
  BY <1>1, SeqElement DEF UserTypes, InList
<1>2. CASE \/ \E f \in Fds : fd2user[f] = u
           \/ monUser = u \/ ioUser = u
           \/ \E w \in Workers : wkUser[w] = u
           \/ \E o \in Others : held[o] = u
  BY <1>2, UserFacts, Zenon DEF UserTypes
<1> QED  BY <1>1, <1>2, Zenon DEF Alive

\* No step of any thread makes a reference to a user that was not created.
LEMMA UserTypesStep ==
    ASSUME UserTypes, ControlInv, BacklogInv, [Next]_vars
    PROVE  UserTypes'
<1> USE UserFacts
<1>1. CASE UNCHANGED refVars
  BY <1>1, Zenon DEF UserTypes, refVars, Created, Refs
<1>s. /\ userSeq' = userSeq => Created' = Created /\ Refs' = Refs
      /\ users \in Seq(Created) /\ recvQueue \in [Workers -> Seq(Created)]
  BY Zenon DEF Created, Refs, UserTypes
<1>t. /\ fd2user \in [Fds -> Refs] /\ held \in [Others -> Refs] /\ wkUser \in [Workers -> Refs]
      /\ fdOf \in [Users -> Fds \cup {NoFd}] /\ \A u \in Created : fdOf[u] \in Fds
      /\ monUser \in Refs /\ ioUser \in Refs
  BY Zenon DEF UserTypes
<1>2. ASSUME NEW o \in Others, Release(o) \/ \E u \in Users : Hold(o, u) PROVE UserTypes'
  <2>1. UNCHANGED <<userSeq, fdOf, fd2user, users, ioUser, monUser, recvQueue, wkUser, closed, notified>>
    BY <1>2, Zenon DEF Release, Hold, userVars, ioVars, monVars, wkVars
  <2>2. held' \in [Others -> Refs]
    <3>1. CASE Release(o)
      BY <1>t, <3>1, Zenon DEF Release
    <3>2. ASSUME NEW u \in Users, Hold(o, u) PROVE held' \in [Others -> Refs]
      BY <1>t, <3>2, AliveCreated, Zenon DEF Hold
    <3> QED  BY <1>2, <3>1, <3>2, Zenon
  <2> QED  BY <1>s, <2>1, <2>2, Zenon DEF UserTypes
<1>3. CASE IoCreate
  <2>1. CASE UNCHANGED userVars
    BY <1>s, <1>3, <2>1, Zenon DEF IoCreate, UserTypes, userVars, monVars, wkVars
  <2>2. CASE userSeq' = userSeq + 1
    <3>1. ioFd \in Fds /\ userSeq' \in 1..MaxUsers
      BY <1>3, <2>2, BoundsAssumption DEF IoCreate, ControlInv, BacklogInv, UserTypes
    <3>2. /\ Created' = Created \cup {userSeq'} /\ userSeq' \in Users
          /\ Refs \subseteq Refs' /\ userSeq' \in Refs'
      BY <2>2, <3>1 DEF Created, Refs, UserTypes, Users
    <3>3. UNCHANGED <<ioUser, monUser, recvQueue, wkUser, held, closed, notified>>
      BY <1>3, <2>2, <3>2, Zenon DEF IoCreate, userVars, monVars, wkVars
    <3>4. /\ fdOf' = [fdOf EXCEPT ![userSeq'] = ioFd]
          /\ fd2user' = [fd2user EXCEPT ![ioFd] = userSeq']
          /\ users' = Append(users, userSeq')
      <4>1. userSeq' # userSeq
        BY <2>2 DEF UserTypes
      <4> QED  BY <1>3, <4>1, Zenon DEF IoCreate, userVars
    <3>5. users' \in Seq(Created')
      <4>1. users \in Seq(Created')
        BY <1>s, <3>2, SeqWiden, Zenon
      <4> QED  BY <3>2, <3>4, <4>1, SeqAppend, Zenon
    <3>6. recvQueue' \in [Workers -> Seq(Created')]
      <4>1. \A w \in Workers : recvQueue[w] \in Seq(Created')
        BY <1>s, <3>2, SeqWiden, Zenon
      <4> QED  BY <1>s, <3>3, <4>1, Zenon
    <3>7. fdOf' \in [Users -> Fds \cup {NoFd}] /\ \A u \in Created' : fdOf'[u] \in Fds
      BY <1>t, <3>1, <3>2, <3>4
    <3>8. fd2user' \in [Fds -> Refs']
      BY <1>t, <3>1, <3>2, <3>4, Zenon
    <3>9. /\ ioUser' \in Refs' /\ monUser' \in Refs'
          /\ wkUser' \in [Workers -> Refs'] /\ held' \in [Others -> Refs']
      BY <1>t, <3>2, <3>3, Zenon
    <3>10. /\ closed' \subseteq Created' /\ notified' \in [Users -> Nat]
           /\ \A u \in Users : notified'[u] > 0 => u \in closed'
      BY <3>2, <3>3, Zenon DEF UserTypes
    <3>11. userSeq' \in 0..MaxUsers
      BY <3>1, BoundsAssumption
    <3> QED  BY <3>5, <3>6, <3>7, <3>8, <3>9, <3>10, <3>11, Zenon DEF UserTypes
  <2> QED  BY <1>3, <2>1, <2>2, Zenon DEF IoCreate
<1>4. CASE IoFind \/ IoSend
  <2>1. UNCHANGED <<userSeq, fdOf, fd2user, users, monUser, recvQueue, wkUser, held, closed, notified>>
    BY <1>4, Zenon DEF IoFind, IoSend, userVars, monVars, wkVars
  <2>2. ioUser' \in Refs
    BY <1>t, <1>4, Zenon DEF ControlInv, IoFind, IoSend
  <2> QED  BY <1>s, <2>1, <2>2, Zenon DEF UserTypes
<1>5. CASE IoHandle
  <2>1. UNCHANGED <<userSeq, fdOf, fd2user, users, monUser, wkUser, held, closed, notified>>
    BY <1>5, Zenon DEF IoHandle, userVars, monVars
  <2>2. ioUser' \in Refs /\ ioUser \in Created
    BY <1>t, <1>5, Zenon DEF ControlInv, IoHandle
  <2>3. recvQueue' = recvQueue \/ recvQueue' = [recvQueue EXCEPT ![cursor] = Append(@, ioUser)]
    BY <1>5, Zenon DEF IoHandle, DispatchMsg
  <2>4. recvQueue' \in [Workers -> Seq(Created)]
    <3>1. cursor \in Workers
      BY Zenon DEF ControlInv
    <3>2. Append(recvQueue[cursor], ioUser) \in Seq(Created)
      BY <1>s, <2>2, <3>1, SeqAppend, Zenon
    <3> QED  BY <1>s, <2>3, <3>1, <3>2, Zenon
  <2> QED  BY <1>s, <2>1, <2>2, <2>4, Zenon DEF UserTypes
<1>6. CASE IoClose \/ MonClose
  <2>1. UNCHANGED <<userSeq, fdOf, fd2user, users, monUser, recvQueue, wkUser, held, notified>>
    BY <1>6, Zenon DEF IoClose, MonClose, monVars, wkVars
  <2>2. ioUser' \in Refs
    BY <1>t, <1>6, Zenon DEF IoClose, MonClose, ioVars
  <2>3. closed' = closed \/ \E f \in Fds : fd2user[f] # NoUser /\ closed' = closed \cup {fd2user[f]}
    <3>1. monPc = "close" => fdOf[monUser] \in Fds
      BY <1>t, Zenon DEF ControlInv, Busy
    <3> QED  BY <1>6, <3>1, Zenon DEF IoClose, MonClose, SetClose, CloseTarget, ControlInv
  <2>4. closed' \subseteq Created
    BY <1>t, <2>3 DEF UserTypes
  <2>5. \A u \in Users : notified'[u] > 0 => u \in closed'
    BY <2>1, <2>3, Zenon DEF UserTypes
  <2> QED  BY <1>s, <2>1, <2>2, <2>4, <2>5, Zenon DEF UserTypes
<1>7. CASE IoErase \/ MonErase
  <2>1. UNCHANGED <<userSeq, fdOf, users, monUser, recvQueue, wkUser, held, closed, notified>>
    BY <1>7, Zenon DEF IoErase, MonErase, monVars, wkVars
  <2>2. ioUser' \in Refs
    BY <1>t, <1>7, Zenon DEF IoErase, MonErase, ioVars
  <2>3. fd2user' \in [Fds -> Refs]
    BY <1>t, <1>7, Zenon DEF IoErase, MonErase, Erase
  <2> QED  BY <1>s, <2>1, <2>2, <2>3, Zenon DEF UserTypes
<1>8. CASE MonPop
  <2>1. UNCHANGED <<userSeq, fdOf, fd2user, ioUser, recvQueue, wkUser, held, closed, notified>>
    BY <1>8, Zenon DEF MonPop, ioVars, wkVars
  <2>2. users # <<>> => Head(users) \in Created /\ Tail(users) \in Seq(Created)
    BY <1>s, SeqHeadTail, Zenon
  <2>3. monUser' \in Refs /\ users' \in Seq(Created)
    BY <1>s, <1>t, <1>8, <2>2, Zenon DEF MonPop
  <2> QED  BY <1>s, <2>1, <2>3, Zenon DEF UserTypes
<1>9. CASE MonCheck
  <2>1. UNCHANGED <<userSeq, fdOf, fd2user, ioUser, monUser, recvQueue, wkUser, held, closed>>
    BY <1>9, Zenon DEF MonCheck, ioVars, wkVars
  <2>2. monUser \in Created
    BY <1>t, <1>9, Zenon DEF MonCheck, ControlInv, Busy
  <2>3. users' \in Seq(Created)
    <3>1. Append(users, monUser) \in Seq(Created)
      BY <1>s, <2>2, SeqAppend, Zenon
    <3> QED  BY <1>s, <1>9, <3>1, Zenon DEF MonCheck
  <2>4. notified' \in [Users -> Nat] /\ \A u \in Users : notified'[u] > 0 => u \in closed
    <3>1. notified \in [Users -> Nat] /\ \A u \in Users : notified[u] > 0 => u \in closed
      BY Zenon DEF UserTypes
    <3> QED  BY <1>9, <2>2, <3>1 DEF MonCheck
  <2> QED  BY <1>s, <2>1, <2>3, <2>4, Zenon DEF UserTypes
<1>10. ASSUME NEW w \in Workers, WkPop(w) \/ WkCheck(w) \/ WkDone(w) PROVE UserTypes'
  <2>1. UNCHANGED <<userSeq, fdOf, fd2user, users, ioUser, monUser, held, closed, notified>>
    BY <1>10, Zenon DEF WkPop, WkCheck, WkDone, userVars, ioVars, monVars
  <2>2. recvQueue[w] # <<>> => /\ Head(recvQueue[w]) \in Created
                               /\ Tail(recvQueue[w]) \in Seq(Created)
    BY <1>s, <1>10, SeqHeadTail, Zenon
  <2>3. recvQueue' \in [Workers -> Seq(Created)]
    BY <1>s, <1>10, <2>2, Zenon DEF WkPop, WkCheck, WkDone
  <2>4. wkUser' \in [Workers -> Refs]
    BY <1>t, <1>10, <2>2, Zenon DEF WkPop, WkCheck, WkDone
  <2> QED  BY <1>s, <2>1, <2>3, <2>4, Zenon DEF UserTypes
<1>11. CASE Join \/ CloseServer
  <2>1. UNCHANGED <<userSeq, fdOf, ioUser, monUser, wkUser, held, closed, notified>>
    BY <1>11, Zenon DEF Join, CloseServer, userVars, ioVars, monVars, wkVars
  <2>2. users' \in Seq(Created) /\ recvQueue' \in [Workers -> Seq(Created)]
    BY <1>s, <1>11, SeqEmpty, Zenon DEF Join, CloseServer, userVars, wkVars
  <2>3. fd2user' \in [Fds -> Refs]
    BY <1>t, <1>11, Zenon DEF Join, CloseServer, userVars
  <2> QED  BY <1>s, <2>1, <2>2, <2>3, Zenon DEF UserTypes
<1> QED
  BY <1>1, <1>2, <1>3, <1>4, <1>5, <1>6, <1>7, <1>8, <1>9, <1>10, <1>11, RefSteps, Zenon

-----------------------------------------------------------------------------
(* Control.                                                                 *)

\* What sp_wait() may return.
LEMMA BatchTypes ==
    ASSUME NEW B \in Batches
    PROVE  /\ B \subseteq Events
           /\ Event(Listen, "read") \in B => backlog > 0
           /\ \A e \in B : e.fd = Listen => e = Event(Listen, "read")
           /\ ~ErrorOnly => \A e \in B : e.kind # "error"
<1>1. PICK k \in Flags, w \in SUBSET IdleFds : B = BatchOf(k, w)
  BY DEF Batches
<1>2. ASSUME NEW e \in B
      PROVE  \/ e = Event(Listen, "read") /\ backlog > 0
             \/ \E f \in Fds : e = Event(f, "write")
             \/ \E f \in Fds : e = Event(f, "read")
             \/ ErrorOnly /\ \E f \in Fds : e = Event(f, "error")
  <2>1. CASE e \in {x \in {Event(Listen, "read")} : backlog > 0}
    BY <2>1, Zenon
  <2>2. CASE e \in {Event(f, "write") : f \in w}
    BY <2>2, Zenon DEF IdleFds
  <2>3. CASE e \in {Event(f, k[f]) : f \in ReadFds}
    <3>1. PICK f \in ReadFds : e = Event(f, k[f])
      BY <2>3, Zenon
    <3>2. k[f] = "read" \/ (ErrorOnly /\ k[f] = "error")
      BY <3>1, Zenon DEF Flags
    <3> QED  BY <3>1, <3>2, Zenon DEF ReadFds
  <2> QED  BY <1>1, <2>1, <2>2, <2>3, Zenon DEF BatchOf
<1>3. ASSUME NEW e \in B
      PROVE  /\ e \in Events /\ (e.fd = Listen => e = Event(Listen, "read") /\ backlog > 0)
             /\ ~ErrorOnly => e.kind # "error"
  BY <1>2, FdsAssumption DEF Event, Events
<1>4. Event(Listen, "read").fd = Listen
  BY Zenon DEF Event
<1> QED  BY <1>3, <1>4, Zenon

\* Every thread starts at its first label, holding nothing; no client has connected.
LEMMA ControlInit == Init => ControlInv /\ BacklogInv
  BY BoundsAssumption
  DEF Init, ControlInv, BacklogInv, IoLabels, MonLabels, WkLabels, Busy, Workers, NoUser, Event

\* Each step takes and releases _lockF2U, and takes and drops users, as its label says.
LEMMA ControlStep ==
    ASSUME UserTypes, ControlInv, [Next]_vars
    PROVE  ControlInv'
<1> USE DEF IoLabels, MonLabels, WkLabels, Busy
<1>1. CASE UNCHANGED vars
  BY <1>1, Zenon DEF ControlInv, vars, mainVars, userVars, ioVars, monVars, wkVars
<1>2. CASE \/ ClientConnect \/ \E u \in Users : PeerSend(u) \/ PeerBreak(u)
           \/ \E o \in Others : Release(o) \/ \E u \in Users : Hold(o, u)
  <2>1. UNCHANGED <<mainVars, userVars, ioVars, monVars, wkVars>>
    BY <1>2, Zenon DEF ClientConnect, PeerSend, PeerBreak, Release, Hold
  <2> QED  BY <2>1, Zenon DEF ControlInv, mainVars, userVars, ioVars, monVars, wkVars
<1>3. CASE IoWait \/ IoWaitFail
  BY <1>3, BatchTypes, Zenon
  DEF ControlInv, IoWait, IoWaitFail, IoExit, mainVars, userVars, monVars, wkVars
<1>4. CASE IoNext
  <2>1. CASE \E e \in batch : /\ e.fd # Listen /\ batch' = batch \ {e} /\ ioFd' = e.fd
                              /\ ioPc' = CASE e.kind = "read"  -> "recv"
                                           [] e.kind = "write" -> "findw"
                                           [] e.kind = "error" -> "close"
    <3>1. batch' \subseteq Events /\ ioFd' \in Fds /\ ioPc' \in {"recv", "findw", "close"}
      BY <2>1, Zenon DEF ControlInv, Events
    <3> QED  BY <1>4, <3>1, Zenon DEF ControlInv, IoNext, mainVars, userVars, monVars, wkVars
  <2> QED
    BY <1>4, <2>1, Zenon DEF ControlInv, IoNext, IoExit, mainVars, userVars, monVars, wkVars
<1>5. CASE IoAccept
  BY <1>5, Zenon DEF ControlInv, IoAccept, mainVars, userVars, monVars, wkVars
<1>6. CASE IoCreate
  BY <1>6, Zenon DEF ControlInv, IoCreate, mainVars, userVars, monVars, wkVars
<1>7. CASE IoRecv
  BY <1>7, Zenon DEF ControlInv, IoRecv, mainVars, userVars, monVars, wkVars
<1>8. CASE IoFind \/ IoSend
  BY <1>8, Zenon DEF ControlInv, IoFind, IoSend, mainVars, userVars, monVars, wkVars
<1>9. CASE IoHandle
  <2>1. cursor' \in Workers
    BY <1>9, BoundsAssumption DEF ControlInv, IoHandle, DispatchMsg, NextWorker, Workers
  <2> QED  BY <1>9, <2>1, Zenon DEF ControlInv, IoHandle, DispatchMsg, mainVars, userVars, monVars
<1>10. CASE IoClose \/ IoErase
  BY <1>10, Zenon
  DEF ControlInv, IoClose, IoErase, SetClose, NothingToClose, Erase, mainVars, monVars, wkVars
<1>11. CASE MonClose \/ MonErase
  BY <1>11, Zenon
  DEF ControlInv, MonClose, MonErase, SetClose, NothingToClose, Erase, mainVars, ioVars, wkVars
<1>12. CASE MonPop
  <2>1. users # <<>> => Head(users) # NoUser
    BY SeqHeadTail, UserFacts, Zenon DEF UserTypes
  <2> QED  BY <1>12, <2>1, Zenon DEF ControlInv, MonPop, mainVars, ioVars, wkVars
<1>13. CASE MonExpire \/ MonCheck
  BY <1>13, Zenon DEF ControlInv, MonExpire, MonCheck, mainVars, userVars, ioVars, wkVars
<1>14. ASSUME NEW w \in Workers, WkPop(w) \/ WkCheck(w) \/ WkDone(w) PROVE ControlInv'
  <2>1. /\ wkPc \in [Workers -> WkLabels] /\ wkUser \in [Workers -> Refs]
        /\ \A v \in Workers : wkUser[v] # NoUser <=> wkPc[v] \in {"check", "run"}
    BY Zenon DEF ControlInv, UserTypes
  <2>2. recvQueue[w] # <<>> => Head(recvQueue[w]) # NoUser
    BY <1>14, SeqHeadTail, UserFacts, Zenon DEF UserTypes
  <2>3. wkPc' \in [Workers -> WkLabels]
    BY <1>14, <2>1, Zenon DEF WkPop, WkCheck, WkDone
  <2>4. \A v \in Workers : wkUser'[v] # NoUser <=> wkPc'[v] \in {"check", "run"}
    BY <1>14, <2>1, <2>2, Zenon DEF WkPop, WkCheck, WkDone
  <2>5. main \notin {"joined", "closed"}
    BY <1>14, Zenon DEF ControlInv, WkPop, WkCheck, WkDone
  <2>6. UNCHANGED <<mainVars, userVars, ioVars, monVars>>
    BY <1>14, Zenon DEF WkPop, WkCheck, WkDone
  <2> QED  BY <2>3, <2>4, <2>5, <2>6, Zenon DEF ControlInv, mainVars, userVars, ioVars, monVars
<1>15. CASE Started \/ Stop \/ StopQueues \/ Join \/ CloseServer
  BY <1>15, Zenon
  DEF ControlInv, Started, Stop, StopQueues, Join, CloseServer, mainVars, userVars, ioVars, monVars, wkVars
<1> QED
  BY <1>1, <1>2, <1>3, <1>4, <1>5, <1>6, <1>7, <1>8, <1>9, <1>10, <1>11, <1>12, <1>13, <1>14, <1>15, Zenon
  DEF Next, IoStep, MonStep, WkStep, MainStep

\* accept() takes one waiting connection for each user that createUser() makes.
LEMMA BacklogStep ==
    ASSUME UserTypes, ControlInv, BacklogInv, [Next]_vars
    PROVE  BacklogInv'
<1>0. userSeq \in Nat /\ backlog \in Nat /\ conns \in 0..MaxUsers /\ MaxUsers \in Nat
  BY BoundsAssumption DEF UserTypes, BacklogInv
<1>1. CASE ClientConnect
  BY <1>0, <1>1 DEF BacklogInv, ClientConnect, userVars, ioVars
<1>2. CASE IoWait \/ IoWaitFail
  BY <1>0, <1>2, BatchTypes, Zenon DEF BacklogInv, IoWait, IoWaitFail, IoExit, userVars, envVars
<1>3. CASE IoNext
  <2>1. batch' \subseteq batch /\ ioPc' # "create" /\ ioPc # "create"
    BY <1>3, Zenon DEF IoNext, IoExit, ControlInv, Events
  <2> QED  BY <1>0, <1>3, <2>1, Zenon DEF BacklogInv, IoNext, userVars, envVars
<1>4. CASE IoAccept
  <2>1. backlog > 0 /\ batch' \subseteq batch /\ Event(Listen, "read") \notin batch'
    BY <1>4, Zenon DEF IoAccept, BacklogInv
  <2>2. \/ backlog' = backlog /\ UNCHANGED ioPc
        \/ backlog' = backlog - 1 /\ (UNCHANGED ioPc \/ ioPc' = "create")
    BY <1>4, Zenon DEF IoAccept
  <2> QED  BY <1>0, <1>4, <2>1, <2>2 DEF BacklogInv, IoAccept, userVars
<1>5. CASE IoCreate
  BY <1>0, <1>5 DEF BacklogInv, IoCreate, userVars, envVars
<1>6. CASE IoRecv \/ IoFind \/ IoHandle \/ IoSend \/ IoClose \/ IoErase
  <2>1. ioPc # "create" /\ ioPc' # "create" /\ UNCHANGED <<userSeq, batch, backlog, conns>>
    BY <1>6, Zenon DEF IoRecv, IoFind, IoHandle, DispatchMsg, IoSend, IoClose, IoErase, userVars, envVars
  <2> QED  BY <1>0, <2>1, Zenon DEF BacklogInv
<1>7. CASE \/ UNCHANGED vars \/ MonStep \/ Started \/ Stop \/ MainStep
           \/ \E u \in Users : PeerSend(u) \/ PeerBreak(u)
           \/ \E o \in Others : Release(o) \/ \E u \in Users : Hold(o, u)
           \/ \E w \in Workers : WkStep(w)
  <2>1. UNCHANGED <<userSeq, batch, ioPc, backlog, conns>>
    <3> USE DEF mainVars, userVars, ioVars, envVars
    <3>1. CASE UNCHANGED vars \/ Started \/ Stop \/ MainStep
      BY <3>1, Zenon DEF vars, Started, Stop, MainStep, StopQueues, Join, CloseServer
    <3>2. CASE MonStep
      BY <3>2, Zenon DEF MonStep, MonPop, MonExpire, MonClose, MonErase, MonCheck
    <3>3. CASE \/ \E u \in Users : PeerSend(u) \/ PeerBreak(u)
               \/ \E o \in Others : Release(o) \/ \E u \in Users : Hold(o, u)
               \/ \E w \in Workers : WkStep(w)
      BY <3>3, Zenon DEF PeerSend, PeerBreak, Release, Hold, WkStep, WkPop, WkCheck, WkDone
    <3> QED  BY <1>7, <3>1, <3>2, <3>3, Zenon
  <2> QED  BY <2>1, Zenon DEF BacklogInv
<1> QED  BY <1>1, <1>2, <1>3, <1>4, <1>5, <1>6, <1>7, Zenon DEF Next, IoStep

-----------------------------------------------------------------------------
(* Descriptors.  A reference is only made from another one, or with the     *)
(* user; so a user that is gone never comes back.                           *)

NewUser ==
    /\ userSeq' = userSeq + 1 /\ Created' = Created \cup {userSeq'}
    /\ userSeq' \in Users /\ userSeq' \notin Created
    /\ ioPc = "create" /\ ioFd \in Fds
    /\ fdOf' = [fdOf EXCEPT ![userSeq'] = ioFd]
    /\ fd2user' = [fd2user EXCEPT ![ioFd] = userSeq']
    /\ users' = Append(users, userSeq')
    /\ UNCHANGED <<ioUser, monUser, wkUser, held, closed, notified, ioFd, monPc, main>>
    /\ ioPc' = "next"

\* Users and their sockets come from createUser() alone.
LEMMA Creation ==
    ASSUME UserTypes, ControlInv, BacklogInv, [Next]_vars
    PROVE  NewUser \/ (Created' = Created /\ UNCHANGED <<userSeq, fdOf>>)
<1>1. CASE IoCreate
  <2>1. CASE UNCHANGED userVars
    BY <2>1, Zenon DEF userVars, Created
  <2>2. CASE userSeq' = userSeq + 1
    <3>1. userSeq' # userSeq
      BY <2>2 DEF UserTypes
    <3>2. userSeq' \in Users /\ Created' = Created \cup {userSeq'} /\ userSeq' \notin Created
      BY <1>1, <2>2, BoundsAssumption DEF IoCreate, BacklogInv, UserTypes, Users, Created
    <3>3. ioFd \in Fds
      BY <1>1, Zenon DEF IoCreate, ControlInv
    <3> QED  BY <1>1, <2>2, <3>1, <3>2, <3>3, Zenon DEF IoCreate, NewUser, userVars, monVars, wkVars, mainVars
  <2> QED  BY <1>1, <2>1, <2>2, Zenon DEF IoCreate
<1>2. CASE UNCHANGED refVars
  BY <1>2, Zenon DEF refVars, Created
<1>3. CASE \/ \E o \in Others : Release(o) \/ \E u \in Users : Hold(o, u)
           \/ \E w \in Workers : WkPop(w) \/ WkCheck(w) \/ WkDone(w)
  BY <1>3, Zenon DEF Release, Hold, WkPop, WkCheck, WkDone, userVars, Created
<1>4. CASE \/ IoFind \/ IoHandle \/ IoSend \/ IoClose \/ IoErase
           \/ MonPop \/ MonClose \/ MonErase \/ MonCheck \/ Join \/ CloseServer
  BY <1>4, Zenon DEF IoFind, IoHandle, IoSend, IoClose, IoErase, MonPop, MonClose, MonErase,
              MonCheck, Join, CloseServer, userVars, Created
<1> QED  BY <1>1, <1>2, <1>3, <1>4, RefSteps, Zenon

\* createUser() that fails changes nothing.
LEMMA NoCreation ==
    ASSUME UserTypes, ControlInv, BacklogInv, [Next]_vars, IoCreate, ~NewUser
    PROVE  UNCHANGED userVars
<1>1. UNCHANGED userSeq
  BY Creation, Zenon
<1>2. userSeq \in Nat
  BY DEF UserTypes
<1> QED  BY <1>1, <1>2 DEF IoCreate

\* A user that was destroyed does not come back: what lives after a step
\* lived before it or was created by it.
LEMMA AliveBefore ==
    ASSUME UserTypes, ControlInv, BacklogInv, [Next]_vars, NEW u \in Users, Alive(u)'
    PROVE  Alive(u) \/ (NewUser /\ u = userSeq')
<1> USE DEF Alive, InList
<1>0. /\ users \in Seq(Created) /\ fd2user \in [Fds -> Refs] /\ wkUser \in [Workers -> Refs]
      /\ held \in [Others -> Refs] /\ u # NoUser
  BY UserFacts, Zenon DEF UserTypes
<1>1. CASE UNCHANGED refVars
  BY <1>1, Zenon DEF refVars
<1>2. ASSUME NEW o \in Others, Release(o) \/ \E v \in Users : Hold(o, v) PROVE Alive(u)
  BY <1>0, <1>2, Zenon DEF Release, Hold, userVars, ioVars, monVars, wkVars
<1>3. CASE NewUser
  <2>1. Has(users', u) <=> Has(users, u) \/ u = userSeq'
    <3>1. users \in Seq(Created') /\ userSeq' \in Created'
      BY <1>0, <1>3, SeqWiden, Zenon DEF NewUser
    <3> QED  BY <1>3, <3>1, HasAppend DEF NewUser
  <2> QED  BY <1>0, <1>3, <2>1, Zenon DEF NewUser, Has
<1>4. CASE IoCreate /\ ~NewUser
  <2>1. UNCHANGED userVars
    BY <1>4, NoCreation, Zenon
  <2> QED  BY <1>4, <2>1, Zenon DEF IoCreate, userVars, monVars, wkVars
<1>5. CASE IoFind
  BY <1>0, <1>5, Zenon DEF IoFind, ControlInv, userVars, monVars, wkVars
<1>6. CASE IoHandle \/ IoSend \/ IoClose
  BY <1>0, <1>6, Zenon DEF IoHandle, IoSend, IoClose, userVars, monVars, wkVars
<1>7. CASE IoErase \/ MonErase
  BY <1>0, <1>7, Zenon DEF IoErase, MonErase, Erase, ioVars, monVars, wkVars
<1>8. CASE MonPop
  <2>1. users # <<>> => Has(users, Head(users)) /\ (Has(Tail(users), u) => Has(users, u))
    BY <1>0, HasTail, Zenon
  <2>2. Has(users', u) \/ monUser' = u => Has(users, u) \/ monUser = u
    BY <1>0, <1>8, <2>1, Zenon DEF MonPop
  <2> QED  BY <1>0, <1>8, <2>2, Zenon DEF MonPop, ioVars, wkVars, Has
<1>9. CASE MonClose
  BY <1>9, Zenon DEF MonClose, ioVars, wkVars
<1>10. CASE MonCheck
  <2>1. monUser \in Created
    BY <1>10, UserFacts, Zenon DEF MonCheck, UserTypes, ControlInv, Busy
  <2>2. Has(users', u) => Has(users, u) \/ monUser = u
    <3>1. Has(Append(users, monUser), u) <=> Has(users, u) \/ u = monUser
      BY <1>0, <2>1, HasAppend, Zenon
    <3>2. users' = users \/ users' = Append(users, monUser)
      BY <1>10, Zenon DEF MonCheck
    <3> QED  BY <3>1, <3>2, Zenon
  <2> QED  BY <1>10, <2>2, Zenon DEF MonCheck, ioVars, wkVars, Has
<1>11. ASSUME NEW w \in Workers, WkPop(w) \/ WkCheck(w) \/ WkDone(w) PROVE Alive(u)
  <2>1. UNCHANGED <<userVars, ioVars, monVars, held>>
    BY <1>11, Zenon DEF WkPop, WkCheck, WkDone
  <2>2. ASSUME NEW v \in Workers, wkUser'[v] = u PROVE Alive(u)
    <3>1. wkUser'[v] # wkUser[v] => wkUser'[v] = NoUser \/ (v = w /\ Alive(wkUser'[v]))
      BY <1>0, <1>11, Zenon DEF WkPop, WkCheck, WkDone
    <3> QED  BY <1>0, <2>2, <3>1, Zenon
  <2> QED  BY <2>1, <2>2, Zenon DEF userVars, ioVars, monVars
<1>12. CASE Join
  <2>1. UNCHANGED <<users, fd2user, monUser, ioUser, wkUser, held>>
    BY <1>12, Zenon DEF Join, userVars, ioVars, monVars
  <2> QED  BY <2>1, Zenon
<1>13. CASE CloseServer
  <2>1. UNCHANGED <<monUser, ioUser, wkUser, held>>
    BY <1>13, Zenon DEF CloseServer, ioVars, monVars, wkVars
  <2>2. \A f \in Fds : fd2user'[f] # u
    BY <1>0, <1>13, Zenon DEF CloseServer
  <2>3. ~InList(u)'
    BY <1>13, SeqEmpty DEF CloseServer
  <2> QED  BY <2>1, <2>2, <2>3, Zenon
<1> QED
  BY <1>1, <1>2, <1>3, <1>4, <1>5, <1>6, <1>7, <1>8, <1>9, <1>10, <1>11, <1>12,
     <1>13, RefSteps, Zenon

\* No descriptor has an owner before start().
LEMMA DescInit == Init => DescInv
  BY DEF Init, DescInv, Created, NoUser

\* The descriptor in the hand of the IO thread and the map.
LEMMA DescFrame ==
    ASSUME UserTypes, ControlInv, [Next]_vars
    PROVE  /\ ioPc' = "create" => \/ ioPc = "create" /\ UNCHANGED ioFd
                                  \/ ioFd' \in Fds /\ Owners(ioFd') = {}
           /\ ioUser' = NoUser \/ (ioUser' = ioUser /\ ioFd' = ioFd)
                \/ (ioUser' = fd2user[ioFd] /\ ioFd' = ioFd /\ ioFd \in Fds)
<1> USE DEF ioVars
<1>1. CASE \/ UNCHANGED vars \/ ClientConnect \/ Started \/ Stop \/ MainStep
           \/ \E u \in Users : PeerSend(u) \/ PeerBreak(u)
           \/ \E o \in Others : Release(o) \/ \E u \in Users : Hold(o, u)
  BY <1>1, Zenon DEF vars, ClientConnect, Started, Stop, MainStep, StopQueues, Join, CloseServer,
              PeerSend, PeerBreak, Release, Hold
<1>2. CASE IoWait \/ IoWaitFail \/ IoNext
  BY <1>2, Zenon DEF IoWait, IoWaitFail, IoNext, IoExit, ControlInv, Events
<1>3. CASE IoAccept
  BY <1>3, Zenon DEF IoAccept, ControlInv
<1>4. CASE IoCreate \/ IoRecv \/ IoFind
  BY <1>4, Zenon DEF IoCreate, IoRecv, IoFind, ControlInv
<1>5. CASE IoHandle \/ IoSend \/ IoClose \/ IoErase
  BY <1>5, Zenon DEF IoHandle, DispatchMsg, IoSend, IoClose, IoErase
<1>6. CASE MonStep \/ \E w \in Workers : WkStep(w)
  BY <1>6, Zenon DEF MonStep, MonPop, MonExpire, MonClose, MonErase, MonCheck, WkStep, WkPop, WkCheck, WkDone
<1> QED  BY <1>1, <1>2, <1>3, <1>4, <1>5, <1>6, Zenon DEF Next, IoStep

\* A descriptor is mapped to a user by createUser() alone; all other steps
\* keep its entry or erase it.
LEMMA MapStep ==
    ASSUME UserTypes, ControlInv, BacklogInv, [Next]_vars
    PROVE  NewUser \/ \A f \in Fds : fd2user'[f] = fd2user[f] \/ fd2user'[f] = NoUser
<1>0. fd2user \in [Fds -> Refs]
  BY Zenon DEF UserTypes
<1>1. CASE UNCHANGED refVars
  BY <1>1, Zenon DEF refVars
<1>2. CASE \/ \E o \in Others : Release(o) \/ \E u \in Users : Hold(o, u)
           \/ \E w \in Workers : WkPop(w) \/ WkCheck(w) \/ WkDone(w)
           \/ IoFind \/ IoHandle \/ IoSend \/ IoClose
           \/ MonPop \/ MonClose \/ MonCheck \/ Join
  BY <1>2, Zenon DEF Release, Hold, WkPop, WkCheck, WkDone, IoFind, IoHandle, IoSend, IoClose,
              MonPop, MonClose, MonCheck, Join, userVars
<1>3. CASE IoErase \/ MonErase \/ CloseServer
  BY <1>0, <1>3, Zenon DEF IoErase, MonErase, Erase, CloseServer
<1>4. CASE IoCreate /\ ~NewUser
  BY <1>4, NoCreation, Zenon DEF userVars
<1> QED  BY <1>1, <1>2, <1>3, <1>4, RefSteps, Zenon

\* Opening, closing and reuse of numbers leave every live user its own socket.
LEMMA DescStep ==
    ASSUME UserTypes, ControlInv, BacklogInv, DescInv, [Next]_vars
    PROVE  DescInv'
<1> USE UserFacts
<1>0. fd2user \in [Fds -> Refs] /\ fdOf \in [Users -> Fds \cup {NoFd}] /\ ioUser \in Refs
  BY Zenon DEF UserTypes
<1>1. CASE NewUser
  <2>1. \A u \in Created : fdOf'[u] = fdOf[u]
    BY <1>0, <1>1, Zenon DEF NewUser
  <2>2. fdOf'[userSeq'] = ioFd
    BY <1>0, <1>1, Zenon DEF NewUser
  <2>3. ASSUME NEW u \in Created', Alive(u)' PROVE u = userSeq' \/ (u \in Created /\ Alive(u) /\ fdOf[u] # ioFd)
    BY <1>1, <2>3, AliveBefore, Zenon DEF NewUser, DescInv
  <2>4. ASSUME NEW u \in Created', NEW v \in Created', u # v, Alive(u)', Alive(v)'
        PROVE  fdOf'[u] # fdOf'[v]
    <3>1. u = userSeq' \/ (u \in Created /\ Alive(u) /\ fdOf[u] # ioFd)
      BY <2>3, <2>4, Zenon
    <3>2. v = userSeq' \/ (v \in Created /\ Alive(v) /\ fdOf[v] # ioFd)
      BY <2>3, <2>4, Zenon
    <3>3. u \in Created /\ v \in Created /\ Alive(u) /\ Alive(v) => fdOf[u] # fdOf[v]
      BY <2>4, Zenon DEF DescInv
    <3> QED  BY <2>1, <2>2, <2>4, <3>1, <3>2, <3>3, Zenon
  <2>5. \A f \in Fds : fd2user'[f] # NoUser => fdOf'[fd2user'[f]] = f
    BY <1>0, <1>1, <2>1, <2>2, Zenon DEF NewUser, DescInv
  <2>6. ioUser' # NoUser => fdOf'[ioUser'] = ioFd'
    BY <1>0, <1>1, <2>1, Zenon DEF NewUser, DescInv
  <2> QED  BY <1>1, <2>4, <2>5, <2>6 DEF DescInv, NewUser
<1>2. CASE ~NewUser
  <2>1. Created' = Created /\ UNCHANGED fdOf
    BY <1>2, Creation, Zenon
  <2>2. \A u \in Created : Alive(u)' => Alive(u)
    BY <1>2, AliveBefore, Zenon
  <2>3. \A f \in Fds : fd2user'[f] # NoUser => fdOf'[fd2user'[f]] = f
    BY <1>2, <2>1, MapStep, Zenon DEF DescInv
  <2>4. ioUser' # NoUser => fdOf'[ioUser'] = ioFd'
    BY <2>1, DescFrame, Zenon DEF DescInv
  <2>5. ioPc' = "create" => \A u \in Created : Alive(u)' => fdOf[u] # ioFd'
    BY <2>2, DescFrame, Zenon DEF DescInv, Owners
  <2> QED  BY <2>1, <2>2, <2>3, <2>4, <2>5, Zenon DEF DescInv
<1> QED  BY <1>1, <1>2, Zenon

-----------------------------------------------------------------------------
(* The list of users and the monitor.                                       *)

\* The list of users is empty before start().
LEMMA ListInit == Init => ListInv
<1> SUFFICES ASSUME Init PROVE ListInv
  BY Zenon
<1>1. Len(users) = 0
  BY Zenon DEF Init
<1>2. monPc \notin Busy /\ Created = {}
  BY DEF Init, Created, Busy
<1>3. Distinct(users)
  BY <1>1 DEF Distinct
<1> QED  BY <1>1, <1>2, <1>3, Zenon DEF ListInv

\* The list and the user in the hand of the monitor change by createUser(), by
\* the monitor's own steps and by close() only.
LEMMA ListFrame ==
    ASSUME UserTypes, ControlInv, BacklogInv, [Next]_vars
    PROVE  /\ main' # "closed" => main # "closed"
           /\ \/ NewUser \/ MonPop \/ MonCheck \/ CloseServer
              \/ /\ UNCHANGED <<users, monUser, notified, userSeq>>
                 /\ monPc \in Busy <=> monPc' \in Busy
<1> USE DEF mainVars, monVars, userVars
<1>1. CASE \/ UNCHANGED vars \/ ClientConnect \/ Started \/ Stop \/ StopQueues \/ Join
           \/ \E u \in Users : PeerSend(u) \/ PeerBreak(u)
           \/ \E o \in Others : Release(o) \/ \E u \in Users : Hold(o, u)
           \/ \E w \in Workers : WkStep(w)
  BY <1>1, Zenon DEF vars, ClientConnect, Started, Stop, StopQueues, Join,
              PeerSend, PeerBreak, Release, Hold, WkStep, WkPop, WkCheck, WkDone
<1>2. CASE IoWait \/ IoWaitFail \/ IoNext \/ IoAccept \/ IoRecv \/ IoFind
  BY <1>2, Zenon DEF IoWait, IoWaitFail, IoNext, IoAccept, IoRecv, IoFind
<1>3. CASE IoHandle \/ IoSend \/ IoClose \/ IoErase
  BY <1>3, Zenon DEF IoHandle, IoSend, IoClose, IoErase
<1>4. CASE IoCreate
  <2>1. CASE ~NewUser
    <3>1. UNCHANGED userVars
      BY <1>4, <2>1, NoCreation, Zenon
    <3> QED  BY <1>4, <3>1, Zenon DEF IoCreate
  <2> QED  BY <1>4, <2>1, Zenon DEF IoCreate
<1>5. CASE MonExpire \/ MonClose \/ MonErase
  BY <1>5, Zenon DEF MonExpire, MonClose, MonErase, Busy
<1>6. CASE MonPop \/ MonCheck \/ CloseServer
  BY <1>6, Zenon DEF MonPop, MonCheck, CloseServer
<1> QED  BY <1>1, <1>2, <1>3, <1>4, <1>5, <1>6, Zenon DEF Next, IoStep, MonStep, MainStep

\* Every user that was not reported is in the list or with the monitor, once.
LEMMA ListStep ==
    ASSUME UserTypes, ControlInv, BacklogInv, ListInv, [Next]_vars
    PROVE  ListInv'
<1> USE UserFacts DEF InList
<1>0. users \in Seq(Created) /\ notified \in [Users -> Nat] /\ monUser \in Refs
  BY Zenon DEF UserTypes
<1>1. CASE NewUser
  <2>1. users \in Seq(Created') /\ userSeq' \in Created'
    BY <1>0, <1>1, SeqWiden, Zenon DEF NewUser
  <2>2. ~Has(users, userSeq')
    BY <1>0, <1>1, SeqElement, Zenon DEF NewUser, Has
  <2>3. Distinct(users')
    BY <1>1, <2>1, <2>2, DistinctAppend, Zenon DEF NewUser, ListInv
  <2>4. \A u : Has(users', u) <=> Has(users, u) \/ u = userSeq'
    BY <1>1, <2>1, HasAppend DEF NewUser
  <2>5. notified[userSeq'] = 0
    BY <1>0, <1>1 DEF NewUser, UserTypes
  <2>6. monPc' \in Busy => ~Has(users', monUser') /\ notified'[monUser'] = 0
    <3>1. ASSUME monPc \in Busy PROVE ~Has(users, monUser) /\ notified[monUser] = 0
      BY <3>1, Zenon DEF ListInv, Has
    <3>2. monUser # userSeq'
      BY <1>0, <1>1, Zenon DEF NewUser
    <3> QED  BY <1>1, <2>4, <3>1, <3>2, Zenon DEF NewUser
  <2>7. \A u \in Created' : Has(users', u) => notified'[u] = 0
    BY <1>1, <2>4, <2>5, Zenon DEF NewUser, ListInv, Has
  <2>8. main' # "closed" =>
          \A u \in Created' : notified'[u] > 0 \/ Has(users', u) \/ (monPc' \in Busy /\ monUser' = u)
    BY <1>1, <2>4, Zenon DEF NewUser, ListInv, Has
  <2> QED  BY <2>3, <2>6, <2>7, <2>8, Zenon DEF ListInv, Has
<1>2. CASE MonPop
  <2>1. Created' = Created /\ UNCHANGED <<notified, main>> /\ monPc = "pop"
    BY <1>2, Zenon DEF MonPop, Created, mainVars
  <2>2. CASE users # <<>> /\ monUser' = Head(users) /\ users' = Tail(users) /\ monPc' = "expire"
    <3>1. Distinct(users') /\ ~Has(users', monUser')
      BY <1>0, <2>2, DistinctTail, Zenon DEF ListInv
    <3>2. \A u : Has(users, u) <=> Has(users', u) \/ u = monUser'
      BY <1>0, <2>2, HasTail, Zenon
    <3>3. monUser' \in Created
      BY <1>0, <2>2, SeqHeadTail, Zenon
    <3> QED  BY <2>1, <2>2, <3>1, <3>2, <3>3, Zenon DEF ListInv, Has, Busy
  <2>3. CASE UNCHANGED users /\ monPc' \notin Busy
    BY <2>1, <2>3, Zenon DEF ListInv, Busy
  <2> QED  BY <1>2, <2>2, <2>3, Zenon DEF MonPop, Busy
<1>3. CASE MonCheck
  <2>1. Created' = Created /\ UNCHANGED <<monUser, main>> /\ monPc = "check" /\ monPc' = "pop"
    BY <1>3, Zenon DEF MonCheck, Created, mainVars
  <2>2. monUser \in Created
    BY <1>0, <2>1, Zenon DEF ControlInv, Busy
  <2>3. CASE notified' = [notified EXCEPT ![monUser] = @ + 1] /\ UNCHANGED users
    <3>1. notified'[monUser] > 0 /\ \A u \in Users : u # monUser => notified'[u] = notified[u]
      BY <1>0, <2>2, <2>3
    <3> QED  BY <2>1, <2>2, <2>3, <3>1, Zenon DEF ListInv, Busy
  <2>4. CASE users' = Append(users, monUser) /\ UNCHANGED notified
    <3>1. Distinct(users')
      BY <1>0, <2>1, <2>2, <2>4, DistinctAppend, Zenon DEF ListInv, Busy, Has
    <3>2. \A u : Has(users', u) <=> Has(users, u) \/ u = monUser
      BY <1>0, <2>2, <2>4, HasAppend, Zenon
    <3> QED  BY <2>1, <2>4, <3>1, <3>2, Zenon DEF ListInv, Has, Busy
  <2> QED  BY <1>3, <2>3, <2>4, Zenon DEF MonCheck
<1>4. CASE CloseServer
  <2>1. users' = <<>> /\ main' = "closed" /\ UNCHANGED monPc /\ monPc = "exit"
    BY <1>4, Zenon DEF CloseServer, ControlInv, monVars
  <2>2. Len(users') = 0
    BY <2>1, Zenon
  <2>3. Distinct(users') /\ \A u : ~Has(users', u)
    BY <2>2 DEF Distinct, Has
  <2> QED  BY <2>1, <2>3, Zenon DEF ListInv, Busy, Has
<1>5. CASE /\ UNCHANGED <<users, monUser, notified, userSeq>>
           /\ monPc \in Busy <=> monPc' \in Busy
           /\ main' # "closed" => main # "closed"
  <2>1. Created' = Created
    BY <1>5, Zenon DEF Created
  <2> QED  BY <1>5, <2>1, Zenon DEF ListInv
<1> QED  BY <1>1, <1>2, <1>3, <1>4, <1>5, ListFrame, Zenon

-----------------------------------------------------------------------------
(* The inductive invariant, and what follows from it.                       *)

\* In every behaviour of the server: references are to created users, threads
\* hold what their labels say, live users own their descriptors, and
\* the monitor has every unreported user exactly once.
THEOREM Invariance == Spec => []Inv
<1>1. Init => Inv
  BY TypesInit, ControlInit, DescInit, ListInit, Zenon DEF Inv
<1>2. Inv /\ [Next]_vars => Inv'
  BY UserTypesStep, ControlStep, BacklogStep, DescStep, ListStep, Zenon DEF Inv
<1> QED  BY <1>1, <1>2, PTL DEF Spec

\* The map leads from a live user's descriptor to that user or to none.
LEMMA OwnDescriptor ==
    ASSUME UserTypes, ControlInv, DescInv, NEW u \in Created, Alive(u)
    PROVE  fd2user[fdOf[u]] \in {NoUser, u}
<1> DEFINE v == fd2user[fdOf[u]]
<1>1. fdOf[u] \in Fds /\ v \in Refs
  BY Zenon DEF UserTypes
<1>2. CASE v # NoUser
  <2>1. v \in Created /\ Alive(v) /\ fdOf[v] = fdOf[u]
    BY <1>1, <1>2, UserFacts, Zenon DEF Alive, DescInv
  <2> QED  BY <2>1, Zenon DEF DescInv
<1> QED  BY <1>2, Zenon

-----------------------------------------------------------------------------
\* The limit holds, and there is room while an accepted connection waits for
\* its user.
LimitInv ==
    /\ Connections <= MaxConnections
    /\ ioPc = "create" => Connections < MaxConnections

\* The reason for which a user is about to be closed.
ReasonInv ==
    /\ \A e \in batch : e.kind # "error"
    /\ monPc = "close" => monUser \in expired
    /\ ioPc = "close" => \/ fd2user[ioFd] = NoUser
                         \/ fd2user[ioFd] \in closed
                         \/ peer[fd2user[ioFd]] = "broken"
    /\ peer \in [Users -> {"up", "broken"}]
    /\ CloseJustified

-----------------------------------------------------------------------------
(* The limit on connections.                                                *)

Mapped == {f \in Fds : fd2user[f] # NoUser}

\* No connection counts against the limit before start().
LEMMA LimitInit == Init => LimitInv
<1> SUFFICES ASSUME Init PROVE LimitInv
  BY Zenon
<1>1. {f \in Fds : fd2user[f] # NoUser} = {}
  BY Zenon DEF Init
<1>2. Connections = 0
  BY <1>1, FS_EmptySet, Zenon DEF Connections
<1> QED  BY <1>2, BoundsAssumption DEF LimitInv, Init

\* The IO thread goes on to create a user only after it has found room for it.
LEMMA AcceptFrame ==
    ASSUME ControlInv, [Next]_vars, ioPc' = "create", ioPc # "create"
    PROVE  Connections < MaxConnections /\ UNCHANGED fd2user
<1> USE DEF ioVars
<1>1. CASE \/ UNCHANGED vars \/ ClientConnect \/ Started \/ Stop \/ MainStep
           \/ \E u \in Users : PeerSend(u) \/ PeerBreak(u)
           \/ \E o \in Others : Release(o) \/ \E u \in Users : Hold(o, u)
  BY <1>1, Zenon DEF vars, ClientConnect, Started, Stop, MainStep, StopQueues, Join, CloseServer,
              PeerSend, PeerBreak, Release, Hold
<1>2. CASE IoWait \/ IoWaitFail \/ IoNext
  BY <1>2, Zenon DEF IoWait, IoWaitFail, IoNext, IoExit, ControlInv, Events
<1>3. CASE IoAccept
  <2>1. ~LimitReached /\ UNCHANGED fd2user
    BY <1>3, Zenon DEF IoAccept, userVars
  <2>2. Connections \in Nat
    BY FdsAssumption, FS_Subset, FS_CardinalityType, Zenon DEF Connections
  <2> QED  BY <2>1, <2>2, BoundsAssumption DEF LimitReached
<1>4. CASE IoCreate \/ IoRecv \/ IoFind \/ IoHandle \/ IoSend \/ IoClose \/ IoErase
  BY <1>4, Zenon DEF IoCreate, IoRecv, IoFind, IoHandle, DispatchMsg, IoSend, IoClose, IoErase
<1>6. CASE MonStep \/ \E w \in Workers : WkStep(w)
  BY <1>6, Zenon DEF MonStep, MonPop, MonExpire, MonClose, MonErase, MonCheck, WkStep, WkPop, WkCheck, WkDone
<1> QED  BY <1>1, <1>2, <1>3, <1>4, <1>6, Zenon DEF Next, IoStep

\* The limit holds over the accept and the creation, which are two steps: no
\* other thread adds to the map in between.
LEMMA LimitStep ==
    ASSUME UserTypes, ControlInv, BacklogInv, DescInv, LimitInv, [Next]_vars
    PROVE  LimitInv'
<1>0. /\ IsFiniteSet(Mapped) /\ Connections = Cardinality(Mapped)
      /\ Connections' = Cardinality(Mapped') /\ Connections \in Nat
  <2>1. IsFiniteSet(Mapped)
    BY FdsAssumption, FS_Subset, Zenon DEF Mapped
  <2> QED  BY <2>1, FS_CardinalityType, Zenon DEF Mapped, Connections
<1>1. CASE NewUser
  <2>1. Mapped' = Mapped \cup {ioFd}
    BY <1>1, UserFacts DEF Mapped, NewUser, UserTypes
  <2>2. Cardinality(Mapped') <= Cardinality(Mapped) + 1
    BY <1>0, <2>1, FS_AddElement
  <2>3. ioPc' = "next" /\ ioPc = "create"
    BY <1>1, Zenon DEF NewUser
  <2>4. Connections < MaxConnections
    BY <2>3, Zenon DEF LimitInv
  <2>5. Connections' \in Nat
    BY <1>0, <2>1, FS_AddElement, FS_CardinalityType, Zenon
  <2> QED  BY <1>0, <2>2, <2>3, <2>4, <2>5, BoundsAssumption DEF LimitInv
<1>2. CASE ~NewUser
  <2>1. Mapped' \subseteq Mapped
    BY <1>2, MapStep, Zenon DEF Mapped
  <2>2. Connections' <= Connections /\ Connections' \in Nat
    BY <1>0, <2>1, FS_Subset, FS_CardinalityType, Zenon
  <2>3. ioPc' = "create" => Connections < MaxConnections
    BY AcceptFrame, Zenon DEF LimitInv
  <2> QED  BY <1>0, <2>2, <2>3, BoundsAssumption DEF LimitInv
<1> QED  BY <1>1, <1>2, Zenon

\* Two live users never share a descriptor number, the map leads from a number
\* to its own user, the monitor closes no other user than the one that expired,
\* and the limit on connections holds.
THEOREM DescriptorsAreOwn == Spec => []DescriptorOwned
<1>1. Inv /\ LimitInv => DescriptorOwned
  <2> SUFFICES ASSUME Inv, LimitInv PROVE DescriptorOwned
    BY Zenon
  <2>1. ASSUME monPc \in {"close", "erase"} PROVE fd2user[fdOf[monUser]] \in {NoUser, monUser}
    <3>1. monUser \in Created /\ Alive(monUser)
      BY <2>1, UserFacts, Zenon DEF Inv, ControlInv, UserTypes, Busy, Alive
    <3> QED  BY <3>1, OwnDescriptor, Zenon DEF Inv
  <2> QED  BY <2>1, Zenon DEF Inv, LimitInv, DescInv, DescriptorOwned, Created
<1>2. Inv /\ LimitInv /\ [Next]_vars => LimitInv'
  BY LimitStep, Zenon DEF Inv
<1> QED  BY <1>1, <1>2, LimitInit, Invariance, PTL DEF Spec

-----------------------------------------------------------------------------
(* Why a user is closed.                                                    *)

\* A reason stays, and only sp_wait() makes events.
LEMMA ReasonFrame ==
    ASSUME ControlInv, peer \in [Users -> {"up", "broken"}], [Next]_vars
    PROVE  /\ expired \subseteq expired' /\ closed \subseteq closed'
           /\ peer' \in [Users -> {"up", "broken"}]
           /\ \A u \in Users : peer[u] = "broken" => peer'[u] = "broken"
           /\ batch' \subseteq batch \/ batch' \in Batches
           /\ monPc' = "close" => \/ monPc = "close" /\ UNCHANGED monUser
                                  \/ monUser' \in expired'
<1> USE DEF monVars, userVars, ioVars, envVars
<1>1. CASE \/ UNCHANGED vars \/ ClientConnect \/ Started \/ Stop \/ MainStep
           \/ \E u \in Users : PeerSend(u)
           \/ \E o \in Others : Release(o) \/ \E u \in Users : Hold(o, u)
           \/ \E w \in Workers : WkStep(w)
  BY <1>1, Zenon DEF vars, ClientConnect, Started, Stop, MainStep, StopQueues, Join, CloseServer,
              PeerSend, Release, Hold, WkStep, WkPop, WkCheck, WkDone
<1>2. CASE \E u \in Users : PeerBreak(u)
  BY <1>2, Zenon DEF PeerBreak
<1>3. CASE IoWait \/ IoWaitFail \/ IoNext \/ IoAccept \/ IoCreate \/ IoRecv
  BY <1>3, Zenon DEF IoWait, IoWaitFail, IoExit, IoNext, IoAccept, IoCreate, IoRecv
<1>4. CASE IoFind \/ IoHandle \/ IoSend \/ IoErase
  BY <1>4, Zenon DEF IoFind, IoHandle, IoSend, IoErase
<1>5. CASE IoClose \/ MonClose
  BY <1>5, Zenon DEF IoClose, MonClose, SetClose
<1>6. CASE MonPop \/ MonExpire \/ MonErase \/ MonCheck
  BY <1>6, Zenon DEF MonPop, MonExpire, MonErase, MonCheck
<1> QED  BY <1>1, <1>2, <1>3, <1>4, <1>5, <1>6, Zenon DEF Next, IoStep, MonStep

\* Why the user found at a descriptor may be closed, if there is one.
Closable(f) ==
    fd2user[f] = NoUser \/ fd2user[f] \in closed \/ peer[fd2user[f]] = "broken"

\* The IO thread turns to closeUser() only for a number that no user has, or
\* whose user is closed or has a failed connection.
LEMMA CloseEntered ==
    ASSUME Inv, ReasonInv, [Next]_vars, ioPc' = "close", ioPc # "close"
    PROVE  UNCHANGED <<ioFd, fd2user, closed, peer>> /\ Closable(ioFd)
<1> USE DEF ioVars, userVars, envVars
<1>0. UserTypes /\ ControlInv /\ DescInv
  BY Zenon DEF Inv
<1>a. ASSUME NEW u \in Created, Alive(u), fdOf[u] = ioFd, u \in closed \/ peer[u] = "broken"
      PROVE  Closable(ioFd)
  BY <1>0, <1>a, OwnDescriptor, Zenon DEF Closable
<1>1. CASE \/ UNCHANGED vars \/ ClientConnect \/ Started \/ Stop \/ MainStep \/ MonStep
           \/ \E u \in Users : PeerSend(u) \/ PeerBreak(u)
           \/ \E o \in Others : Release(o) \/ \E u \in Users : Hold(o, u)
           \/ \E w \in Workers : WkStep(w)
  BY <1>1, Zenon DEF vars, ClientConnect, Started, Stop, MainStep, StopQueues, Join, CloseServer,
              MonStep, MonPop, MonExpire, MonClose, MonErase, MonCheck,
              PeerSend, PeerBreak, Release, Hold, WkStep, WkPop, WkCheck, WkDone
<1>2. CASE IoWait \/ IoWaitFail \/ IoNext \/ IoAccept \/ IoCreate \/ IoFind
  BY <1>0, <1>2, Zenon
  DEF IoWait, IoWaitFail, IoExit, IoNext, IoAccept, IoCreate, IoFind, ControlInv, Events, ReasonInv
<1>3. CASE IoRecv
  <2>1. UNCHANGED <<ioFd, fd2user, closed, peer>> /\ ioFd \in Fds
    BY <1>0, <1>3, Zenon DEF IoRecv, ControlInv
  <2>2. CASE Owners(ioFd) = {}
    <3>1. fd2user[ioFd] \in Refs
      BY <1>0, <2>1, Zenon DEF UserTypes
    <3>2. fd2user[ioFd] # NoUser => fd2user[ioFd] \in Owners(ioFd)
      BY <1>0, <2>1, <3>1, UserFacts, Zenon DEF Owners, Alive, DescInv
    <3> QED  BY <2>1, <2>2, <3>2, Zenon DEF Closable
  <2>3. ASSUME NEW u \in Owners(ioFd), peer[u] = "broken" PROVE Closable(ioFd)
    <3>1. u \in Created /\ Alive(u) /\ fdOf[u] = ioFd
      BY <1>0, AliveCreated, Zenon DEF Owners
    <3> QED  BY <1>a, <2>3, <3>1, Zenon
  <2>4. Owners(ioFd) = {} \/ \E u \in Owners(ioFd) : peer[u] = "broken"
    BY <1>3, Zenon DEF IoRecv
  <2> QED  BY <2>1, <2>2, <2>3, <2>4, Zenon
<1>4. CASE IoHandle \/ IoSend
  <2>1. /\ UNCHANGED <<ioFd, fd2user, closed, peer>> /\ ioUser # NoUser
        /\ ioUser \in closed \/ peer[ioUser] = "broken"
    BY <1>0, <1>4, Zenon DEF IoHandle, DispatchMsg, IoSend, ControlInv
  <2>2. ioUser \in Created /\ Alive(ioUser) /\ fdOf[ioUser] = ioFd
    BY <1>0, <2>1, UserFacts, Zenon DEF UserTypes, Alive, DescInv
  <2> QED  BY <1>a, <2>1, <2>2, Zenon
<1>5. CASE IoClose \/ IoErase
  BY <1>5, Zenon DEF IoClose, IoErase
<1> QED  BY <1>1, <1>2, <1>3, <1>4, <1>5, Zenon DEF Next, IoStep

\* The number that the IO thread is about to close does not change meanwhile.
LEMMA CloseStays ==
    ASSUME ControlInv, [Next]_vars, ioPc' = "close", ioPc = "close"
    PROVE  UNCHANGED ioFd
<1> USE DEF ioVars
<1>1. CASE \/ UNCHANGED vars \/ ClientConnect \/ Started \/ Stop \/ MainStep \/ MonStep
           \/ \E u \in Users : PeerSend(u) \/ PeerBreak(u)
           \/ \E o \in Others : Release(o) \/ \E u \in Users : Hold(o, u)
           \/ \E w \in Workers : WkStep(w)
  BY <1>1, Zenon DEF vars, ClientConnect, Started, Stop, MainStep, StopQueues, Join, CloseServer,
              MonStep, MonPop, MonExpire, MonClose, MonErase, MonCheck,
              PeerSend, PeerBreak, Release, Hold, WkStep, WkPop, WkCheck, WkDone
<1>2. CASE IoStep \/ IoWaitFail
  BY <1>2, Zenon DEF IoStep, IoWait, IoWaitFail, IoNext, IoAccept, IoCreate, IoRecv, IoFind, IoHandle,
              IoSend, IoClose, IoErase
<1> QED  BY <1>1, <1>2, Zenon DEF Next

\* What is closed.
LEMMA ClosedStep ==
    ASSUME Inv, [Next]_vars
    PROVE  \/ UNCHANGED closed
           \/ /\ ioPc = "close" /\ fd2user[ioFd] # NoUser /\ fd2user[ioFd] \notin closed
              /\ closed' = closed \cup {fd2user[ioFd]}
           \/ monPc = "close" /\ closed' = closed \cup {monUser}
<1> USE DEF userVars
<1>1. CASE \/ UNCHANGED vars \/ ClientConnect \/ Started \/ Stop \/ MainStep
           \/ \E u \in Users : PeerSend(u) \/ PeerBreak(u)
           \/ \E o \in Others : Release(o) \/ \E u \in Users : Hold(o, u)
           \/ \E w \in Workers : WkStep(w)
  BY <1>1, Zenon DEF vars, ClientConnect, Started, Stop, MainStep, StopQueues, Join, CloseServer,
              PeerSend, PeerBreak, Release, Hold, WkStep, WkPop, WkCheck, WkDone
<1>2. CASE IoWait \/ IoWaitFail \/ IoNext \/ IoAccept \/ IoCreate \/ IoRecv \/ IoFind \/ IoHandle
           \/ IoSend \/ IoErase \/ MonPop \/ MonExpire \/ MonErase \/ MonCheck
  BY <1>2, Zenon DEF IoWait, IoWaitFail, IoNext, IoAccept, IoCreate, IoRecv, IoFind, IoHandle, IoSend,
              IoErase, MonPop, MonExpire, MonErase, MonCheck
<1>3. CASE IoClose
  BY <1>3, Zenon DEF IoClose, SetClose, CloseTarget
<1>4. CASE MonClose
  <2>1. monUser \in Created /\ Alive(monUser)
    BY <1>4, UserFacts, Zenon DEF Inv, MonClose, ControlInv, UserTypes, Busy, Alive
  <2>2. fd2user[fdOf[monUser]] \in {NoUser, monUser}
    BY <2>1, OwnDescriptor, Zenon DEF Inv
  <2> QED  BY <1>4, <2>2, Zenon DEF MonClose, SetClose, CloseTarget
<1> QED  BY <1>1, <1>2, <1>3, <1>4, Zenon DEF Next, IoStep, MonStep

\* Where epoll never reports an error without the read flag, a user is closed
\* only because it expired or its own connection failed: an event that is stale
\* when it is handled never closes the next owner of the descriptor number.
THEOREM ClosesAreJustified == ASSUME ~ErrorOnly PROVE Spec => []CloseJustified
<1>1. Init => ReasonInv
  BY Zenon DEF Init, ReasonInv, CloseJustified
<1>2. Inv /\ ReasonInv /\ [Next]_vars => ReasonInv'
  <2> SUFFICES ASSUME Inv, ReasonInv, [Next]_vars PROVE ReasonInv'
    BY Zenon
  <2>0. UserTypes /\ ControlInv /\ BacklogInv
    BY Zenon DEF Inv
  <2>1. /\ expired \subseteq expired' /\ closed \subseteq closed'
        /\ peer' \in [Users -> {"up", "broken"}]
        /\ \A u \in Users : peer[u] = "broken" => peer'[u] = "broken"
        /\ batch' \subseteq batch \/ batch' \in Batches
        /\ monPc' = "close" => (monPc = "close" /\ UNCHANGED monUser) \/ monUser' \in expired'
    BY <2>0, ReasonFrame, Zenon DEF ReasonInv
  <2>2. \A e \in batch' : e.kind # "error"
    BY <2>1, BatchTypes, Zenon DEF ReasonInv
  <2>3. monPc' = "close" => monUser' \in expired'
    BY <2>1, Zenon DEF ReasonInv
  <2>4. ioPc' = "close" => Closable(ioFd)'
    <3>1. CASE ioPc' = "close" /\ ioPc # "close"
      BY <3>1, CloseEntered, Zenon DEF Closable
    <3>2. CASE ioPc' = "close" /\ ioPc = "close"
      <4>1. ioFd' = ioFd /\ ioFd \in Fds /\ Closable(ioFd) /\ fd2user[ioFd] \in Refs
        BY <2>0, <3>2, CloseStays, Zenon DEF ControlInv, ReasonInv, Closable, UserTypes
      <4>2. fd2user'[ioFd] = fd2user[ioFd] \/ fd2user'[ioFd] = NoUser
        BY <2>0, <3>2, <4>1, MapStep, Zenon DEF NewUser
      <4>3. fd2user[ioFd] # NoUser => fd2user[ioFd] \in Users
        BY <2>0, <4>1, UserFacts, Zenon
      <4> QED  BY <2>1, <4>1, <4>2, <4>3, Zenon DEF Closable
    <3> QED  BY <3>1, <3>2, Zenon
  <2>5. CloseJustified'
    <3>1. \A u \in closed' : u \in closed \/ u \in expired \/ peer[u] = "broken"
      BY ClosedStep, Zenon DEF ReasonInv
    <3>2. closed' \subseteq Users
      BY <2>0, UserTypesStep, UserFacts, Creation, Zenon DEF UserTypes, NewUser
    <3> QED  BY <2>1, <3>1, <3>2, Zenon DEF CloseJustified, ReasonInv
  <2> QED  BY <2>1, <2>2, <2>3, <2>4, <2>5, Zenon DEF ReasonInv, Closable
<1>3. ReasonInv => CloseJustified
  BY Zenon DEF ReasonInv
<1> QED  BY <1>1, <1>2, <1>3, Invariance, PTL DEF Spec
-----------------------------------------------------------------------------
(* The server implements UserLifecycle.                                     *)

\* The phase of a user as a function of what decides it.
PhaseFrom(created, alive, reported, shut) ==
    IF ~created THEN "none" ELSE IF ~alive THEN "gone"
    ELSE IF reported THEN "notified" ELSE IF shut THEN "closed" ELSE "open"

\* The phase of a user in terms of what is true of it.
LEMMA PhaseIs ==
    ASSUME UserTypes, NEW u \in Users
    PROVE  PhaseOf(u) = PhaseFrom(u \in Created, Alive(u), notified[u] > 0, u \in closed)
<1>1. u \in Nat /\ u # 0 /\ userSeq \in Nat /\ notified[u] \in Nat
  BY BoundsAssumption DEF UserTypes, Users
<1>2. u > userSeq <=> u \notin Created
  BY <1>1 DEF Created
<1>3. u <= userSeq <=> u \in Created
  BY <1>1 DEF Created
<1>4. notified[u] = 0 <=> ~(notified[u] > 0)
  BY <1>1
<1>5. CASE u \notin Created
  BY <1>2, <1>3, <1>5, Zenon DEF PhaseOf, PhaseFrom
<1>6. CASE u \in Created
  BY <1>2, <1>3, <1>4, <1>6, Zenon DEF PhaseOf, PhaseFrom
<1> QED  BY <1>5, <1>6, Zenon

\* The phases before and after a step.
LEMMA Phases ==
    ASSUME UserTypes, UserTypes'
    PROVE  /\ Phase \in [Users -> {"none", "open", "closed", "notified", "gone"}]
           /\ Phase' \in [Users -> {"none", "open", "closed", "notified", "gone"}]
           /\ \A u \in Users :
                 /\ Phase[u] = PhaseFrom(u \in Created, Alive(u), notified[u] > 0, u \in closed)
                 /\ Phase'[u] = PhaseFrom(u \in Created', Alive(u)', notified'[u] > 0, u \in closed')
<1>1. ASSUME NEW u \in Users
      PROVE  PhaseOf(u)' = PhaseFrom(u \in Created', Alive(u)', notified'[u] > 0, u \in closed')
  <2>1. u \in Nat /\ u # 0 /\ userSeq' \in Nat /\ notified'[u] \in Nat
    BY BoundsAssumption DEF UserTypes, Users
  <2>2. u > userSeq' <=> u \notin Created'
    BY <2>1 DEF Created
  <2>3. u <= userSeq' <=> u \in Created'
    BY <2>1 DEF Created
  <2>4. notified'[u] = 0 <=> ~(notified'[u] > 0)
    BY <2>1
  <2>5. CASE u \notin Created'
    BY <2>2, <2>3, <2>5, Zenon DEF PhaseOf, PhaseFrom
  <2>6. CASE u \in Created'
    BY <2>2, <2>3, <2>4, <2>6, Zenon DEF PhaseOf, PhaseFrom
  <2> QED  BY <2>5, <2>6, Zenon
<1>2. \A u \in Users : Phase[u] = PhaseOf(u) /\ Phase'[u] = PhaseOf(u)'
  BY Zenon DEF Phase
<1>3. \A a, b, c, d \in BOOLEAN :
        PhaseFrom(a, b, c, d) \in {"none", "open", "closed", "notified", "gone"}
  BY Zenon DEF PhaseFrom
<1>4. \A u \in Users : /\ Phase[u] = PhaseFrom(u \in Created, Alive(u), notified[u] > 0, u \in closed)
                       /\ Phase'[u] = PhaseFrom(u \in Created', Alive(u)', notified'[u] > 0, u \in closed')
  BY <1>1, <1>2, PhaseIs, Zenon
<1> QED  BY <1>4, Zenon DEF Phase, PhaseFrom

\* A step after which every user is as before.
LEMMA SamePhase ==
    ASSUME UserTypes, UserTypes', Created' = Created, UNCHANGED <<notified, closed>>,
           \A u \in Users : Alive(u)' <=> Alive(u)
    PROVE  Phase' = Phase
<1>1. \A u \in Users : Phase'[u] = Phase[u]
  BY Phases, Zenon DEF PhaseFrom
<1> QED  BY <1>1, Phases

\* A step that drops one reference to d ends the life of d, or changes nothing.
LEMMA Dropping ==
    ASSUME UserTypes, UserTypes', ListInv',
           Created' = Created, UNCHANGED <<notified, closed, main>>, NEW d \in Refs,
           \A u \in Users : Alive(u)' => Alive(u),
           \A u \in Users : u # d /\ Alive(u) => Alive(u)'
    PROVE  \/ Phase' = Phase
           \/ /\ d \in Users /\ ~Alive(d)' /\ Life!Destroyable(d)
              /\ Phase' = [Phase EXCEPT ![d] = "gone"]
<1>1. CASE \A u \in Users : Alive(u)' <=> Alive(u)
  BY <1>1, SamePhase, Zenon
<1>2. CASE ~\A u \in Users : Alive(u)' <=> Alive(u)
  <2>1. d \in Users /\ d \in Created /\ Alive(d) /\ ~Alive(d)'
    BY <1>2, UserFacts, Zenon
  <2>2. main # "closed" => notified[d] > 0
    <3>1. ~InList(d)' /\ monUser' # d
      BY <2>1, Zenon DEF Alive
    <3>2. main' # "closed" => notified'[d] > 0 \/ InList(d)' \/ monUser' = d
      BY <2>1, Zenon DEF ListInv
    <3> QED  BY <3>1, <3>2, Zenon
  <2>3. Life!Destroyable(d)
    BY <2>1, <2>2, Phases, Zenon DEF Life!Destroyable, Down, PhaseFrom
  <2>4. Phase'[d] = "gone" /\ \A u \in Users : u # d => Phase'[u] = Phase[u]
    BY <2>1, Phases, Zenon DEF PhaseFrom
  <2>5. Phase' = [Phase EXCEPT ![d] = "gone"]
    BY <2>1, <2>4, Phases, Zenon
  <2> QED  BY <2>1, <2>3, <2>5, Zenon
<1> QED  BY <1>1, <1>2, Zenon

\* What the refinement mapping takes for the pin of a thread.
LEMMA PinsAre ==
    /\ \A w \in Workers : Pins[w] = wkUser[w] /\ Pins'[w] = wkUser'[w]
    /\ \A o \in Others : Pins[o] = held[o] /\ Pins'[o] = held'[o]
    /\ DOMAIN Pins = Workers \cup Others /\ DOMAIN Pins' = Workers \cup Others
  BY ThreadsAssumption, Zenon DEF Pins

\* Whom a thread has pinned is alive.
LEMMA PinnedLive ==
    ASSUME NEW u, \E t \in Workers \cup Others : Pins[t] = u
    PROVE  Alive(u)
  BY PinsAre, Zenon DEF Alive

LifeStutter == UNCHANGED <<Phase, Pins, Serving, Down>>

\* A thread of the server drops its last reference to d, which no one pinned.
LEMMA DropStep ==
    ASSUME Inv, Inv', Created' = Created, UNCHANGED <<notified, closed, main>>,
           UNCHANGED <<wkUser, held, wkPc>>, NEW d \in Refs,
           \A u \in Users : Alive(u)' => Alive(u),
           \A u \in Users : u # d /\ Alive(u) => Alive(u)'
    PROVE  Life!Next \/ LifeStutter
<1>1. Pins' = Pins /\ Serving' = Serving /\ Down' = Down
  BY Zenon DEF Pins, Serving, Down
<1>2. CASE Phase' = Phase
  BY <1>1, <1>2, Zenon DEF LifeStutter
<1>3. CASE /\ d \in Users /\ ~Alive(d)' /\ Life!Destroyable(d)
           /\ Phase' = [Phase EXCEPT ![d] = "gone"]
  <2>1. \A t \in Workers \cup Others : Pins[t] # d
    <3>1. \A w \in Workers : wkUser[w] # d
      BY <1>3, Zenon DEF Alive
    <3>2. \A o \in Others : held[o] # d
      BY <1>3, Zenon DEF Alive
    <3> QED  BY <3>1, <3>2, PinsAre, Zenon
  <2>2. Life!Destroy(d)
    BY <1>1, <1>3, <2>1, Zenon DEF Life!Destroy, Life!Pinned, Life!Threads
  <2> QED  BY <1>3, <2>2, Zenon DEF Life!Next
<1> QED  BY <1>2, <1>3, Dropping, Zenon DEF Inv

\* A thread unpins its user.
LEMMA UnpinStep ==
    ASSUME Inv, Inv', Created' = Created, UNCHANGED <<notified, closed, main>>,
           NEW t \in Workers \cup Others, NEW d \in Refs, Pins[t] = d, d # NoUser,
           Pins' = [Pins EXCEPT ![t] = NoUser], Serving' = Serving \ {t},
           \A u \in Users : Alive(u)' => Alive(u),
           \A u \in Users : u # d /\ Alive(u) => Alive(u)'
    PROVE  Life!Next
<1>1. Down' = Down
  BY Zenon DEF Down
<1>2. CASE Phase' = Phase
  BY <1>1, <1>2, Zenon DEF Life!Next, Life!Unpin, Life!Threads
<1>3. CASE /\ d \in Users /\ ~Alive(d)' /\ Life!Destroyable(d)
           /\ Phase' = [Phase EXCEPT ![d] = "gone"]
  <2>1. ASSUME NEW s \in (Workers \cup Others) \ {t}, Pins[s] = d PROVE FALSE
    <3>1. Pins'[s] = d
      BY <2>1, PinsAre, Zenon
    <3>2. \/ \E w \in Workers : wkUser'[w] = d
          \/ \E o \in Others : held'[o] = d
      BY <2>1, <3>1, PinsAre, Zenon
    <3> QED  BY <1>3, <3>2, Zenon DEF Alive
  <2> QED  BY <1>1, <1>3, <2>1, Zenon DEF Life!Next, Life!Unpin, Life!Threads
<1> QED  BY <1>2, <1>3, Dropping, Zenon DEF Inv

\* A user is closed.
LEMMA CloseStep ==
    ASSUME Inv, Inv', Created' = Created, UNCHANGED <<notified, main, wkUser, held, wkPc>>,
           NEW u \in Created, u \notin closed, Alive(u), closed' = closed \cup {u},
           \A v \in Users : Alive(v)' <=> Alive(v)
    PROVE  Life!Next
<1>0. UserTypes /\ UserTypes' /\ u \in Users /\ ~(notified[u] > 0)
  BY UserFacts, Zenon DEF Inv, UserTypes
<1>1. Pins' = Pins /\ Serving' = Serving /\ Down' = Down
  BY Zenon DEF Pins, Serving, Down
<1>2. Phase[u] = "open" /\ Phase'[u] = "closed" /\ \A v \in Users : v # u => Phase'[v] = Phase[v]
  BY <1>0, Phases, Zenon DEF PhaseFrom
<1>3. Phase' = [Phase EXCEPT ![u] = "closed"]
  BY <1>0, <1>2, Phases, Zenon
<1> QED  BY <1>0, <1>1, <1>2, <1>3, Zenon DEF Life!Next, Life!Close, Life!Move

\* The steps of the IO thread that matter to the life of a user.
LEMMA IoImplements ==
    ASSUME Inv, Inv', [Next]_vars,
           IoCreate \/ IoFind \/ IoHandle \/ IoSend \/ IoClose \/ IoErase
    PROVE  Life!Next \/ LifeStutter
<1> USE UserFacts
<1>0. /\ UserTypes /\ UserTypes' /\ ControlInv /\ BacklogInv /\ DescInv
      /\ fd2user \in [Fds -> Refs] /\ ioUser \in Refs /\ users \in Seq(Created)
  BY Zenon DEF Inv, UserTypes
<1>p. UNCHANGED <<wkUser, held, wkPc, main>>
  BY Zenon DEF IoCreate, IoFind, IoHandle, IoSend, IoClose, IoErase, wkVars, mainVars
<1>1. CASE NewUser
  <2>1. Pins' = Pins /\ Serving' = Serving /\ Down' = Down
    BY <1>p, Zenon DEF Pins, Serving, Down
  <2>2. \A u \in Users : u # userSeq' => (Alive(u)' <=> Alive(u))
    <3>1. ASSUME NEW u \in Users, u # userSeq', Alive(u) PROVE Alive(u)'
      <4>1. users \in Seq(Created') /\ userSeq' \in Created'
        BY <1>0, <1>1, SeqWiden, Zenon DEF NewUser
      <4>2. Has(users, u) => Has(users', u)
        BY <1>1, <4>1, HasAppend DEF NewUser
      <4>3. \A f \in Fds : fd2user[f] = u => f # ioFd
        BY <1>0, <1>1, <3>1, Zenon DEF NewUser, DescInv
      <4> QED  BY <1>0, <1>1, <3>1, <4>2, <4>3, Zenon DEF NewUser, Alive, InList, Has
    <3> QED  BY <1>0, <3>1, AliveBefore, Zenon
  <2>n. PICK n : n = userSeq'
    BY Zenon
  <2>3. Alive(n)'
    <3>1. fd2user'[ioFd] = n /\ ioFd \in Fds
      BY <1>0, <1>1, <2>n, Zenon DEF NewUser
    <3> QED  BY <3>1, Zenon DEF Alive
  <2>4. n \in Users /\ n \notin Created /\ n \in Created' /\ n \notin closed /\ ~(notified[n] > 0)
    BY <1>0, <1>1, <2>n, Zenon DEF NewUser, UserTypes
  <2>5. Phase[n] = "none" /\ Phase'[n] = "open"
    BY <1>0, <1>1, <2>3, <2>4, Phases, Zenon DEF NewUser, PhaseFrom
  <2>6. ASSUME NEW u \in Users, u # n PROVE Phase'[u] = Phase[u]
    BY <1>0, <1>1, <2>n, <2>2, <2>6, Phases, Zenon DEF NewUser, PhaseFrom
  <2>7. Phase' = [Phase EXCEPT ![n] = "open"]
    BY <1>0, <2>4, <2>5, <2>6, Phases, Zenon
  <2> QED  BY <2>1, <2>4, <2>5, <2>7, Zenon DEF Life!Next, Life!Connect, Life!Move
<1>2. CASE ~NewUser
  <2>0. Created' = Created /\ \A u \in Users : Alive(u)' => Alive(u)
    BY <1>0, <1>2, Creation, AliveBefore, Zenon
  <2>1. CASE IoCreate \/ IoFind
    <3>1. UNCHANGED <<notified, closed>>
      BY <2>1, Zenon DEF IoCreate, IoFind, userVars, monVars
    <3>2. \A u \in Users : Alive(u) => Alive(u)'
      <4>1. UNCHANGED <<users, fd2user, monUser>>
        <5>1. UNCHANGED userSeq
          BY <1>0, <1>2, Creation, Zenon
        <5>2. CASE IoCreate
          <6>1. userSeq' # userSeq + 1
            BY <1>0, <5>1 DEF UserTypes
          <6> QED  BY <5>2, <6>1, Zenon DEF IoCreate, userVars, monVars
        <5>3. CASE IoFind
          BY <5>3, Zenon DEF IoFind, userVars, monVars
        <5> QED  BY <2>1, <5>2, <5>3, Zenon
      <4>2. ioUser = NoUser
        BY <1>0, <2>1, Zenon DEF IoCreate, IoFind, ControlInv
      <4> QED  BY <1>0, <1>p, <4>1, <4>2, Zenon DEF Alive, InList
    <3> QED  BY <1>0, <1>p, <2>0, <3>1, <3>2, DropStep, Zenon
  <2>2. CASE IoHandle \/ IoSend \/ (IoClose /\ UNCHANGED closed)
    <3>1. UNCHANGED <<notified, closed, users, fd2user, monUser>>
      BY <2>2, Zenon DEF IoHandle, IoSend, IoClose, userVars, monVars
    <3>2. \A u \in Users : u # ioUser /\ Alive(u) => Alive(u)'
      BY <1>p, <3>1, Zenon DEF Alive, InList
    <3> QED  BY <1>0, <1>p, <2>0, <3>1, <3>2, DropStep, Zenon
  <2>3. CASE IoClose /\ closed' # closed
    <3> DEFINE u == fd2user[ioFd]
    <3>1. /\ UNCHANGED <<notified, users, fd2user, monUser, ioUser>> /\ ioFd \in Fds
          /\ u # NoUser /\ u \notin closed /\ closed' = closed \cup {u}
      BY <1>0, <2>3, Zenon DEF IoClose, SetClose, CloseTarget, monVars, ControlInv
    <3>2. u \in Created /\ Alive(u)
      BY <1>0, <3>1, Zenon DEF Alive
    <3>3. \A v \in Users : Alive(v)' <=> Alive(v)
      BY <1>p, <3>1, Zenon DEF Alive, InList
    <3> HIDE DEF u
    <3> QED  BY <1>p, <2>0, <3>1, <3>2, <3>3, CloseStep, Zenon
  <2>4. CASE IoErase
    <3> DEFINE d == IF ioUser # NoUser THEN ioUser ELSE fd2user[ioFd]
    <3>1. /\ UNCHANGED <<notified, closed, users, monUser>> /\ ioFd \in Fds
          /\ fd2user' = [fd2user EXCEPT ![ioFd] = NoUser]
      BY <1>0, <2>4, Zenon DEF IoErase, Erase, monVars, ControlInv
    <3>2. d \in Refs /\ ioUser \in {NoUser, d} /\ fd2user[ioFd] \in {NoUser, d}
      <4>1. ioUser # NoUser => ioUser \in Created /\ Alive(ioUser) /\ fdOf[ioUser] = ioFd
        BY <1>0, Zenon DEF Alive, DescInv
      <4> QED  BY <1>0, <3>1, <4>1, OwnDescriptor, Zenon
    <3> HIDE DEF d
    <3>3. ASSUME NEW u \in Users, u # d, Alive(u) PROVE Alive(u)'
      <4>1. ioUser # u /\ fd2user[ioFd] # u
        BY <1>0, <3>2, <3>3, Zenon
      <4>2. \A f \in Fds : fd2user[f] = u => fd2user'[f] = u
        BY <1>0, <3>1, <4>1, Zenon
      <4> QED  BY <1>p, <3>1, <3>3, <4>1, <4>2, Zenon DEF Alive, InList
    <3> QED  BY <1>0, <1>p, <2>0, <3>1, <3>2, <3>3, DropStep, Zenon
  <2> QED  BY <2>1, <2>2, <2>3, <2>4, Zenon
<1> QED  BY <1>1, <1>2, Zenon

\* The steps of the monitor.
LEMMA MonImplements ==
    ASSUME Inv, Inv', [Next]_vars, MonPop \/ MonClose \/ MonErase \/ MonCheck
    PROVE  Life!Next \/ LifeStutter
<1> USE UserFacts
<1>0. /\ UserTypes /\ UserTypes' /\ ControlInv /\ BacklogInv /\ DescInv /\ ListInv
      /\ fd2user \in [Fds -> Refs] /\ monUser \in Refs /\ users \in Seq(Created)
      /\ notified \in [Users -> Nat]
  BY Zenon DEF Inv, UserTypes
<1>p. UNCHANGED <<wkUser, held, wkPc, main, ioUser, userSeq>>
  BY Zenon DEF MonPop, MonClose, MonErase, MonCheck, wkVars, mainVars, ioVars
<1>c. Created' = Created
  BY <1>p, Zenon DEF Created
<1>b. \A u \in Users : Alive(u)' => Alive(u)
  <2>1. userSeq \in Nat
    BY <1>0 DEF UserTypes
  <2>2. ~NewUser
    BY <1>p, <2>1 DEF NewUser
  <2> QED  BY <1>0, <2>2, AliveBefore, Zenon
<1>1. CASE MonPop
  <2>1. UNCHANGED <<notified, closed, fd2user>>
    BY <1>1, Zenon DEF MonPop
  <2>2. ASSUME NEW u \in Users, u # monUser, Has(users, u) PROVE Has(users', u) \/ monUser' = u
    <3>1. CASE users # <<>> /\ monUser' = Head(users) /\ users' = Tail(users)
      BY <1>0, <2>2, <3>1, HasTail, Zenon
    <3> QED  BY <1>1, <2>2, <3>1, Zenon DEF MonPop
  <2>3. \A u \in Users : u # monUser /\ Alive(u) => Alive(u)'
    BY <1>p, <2>1, <2>2, Zenon DEF Alive, InList, Has
  <2> QED  BY <1>0, <1>p, <1>c, <1>b, <2>1, <2>3, DropStep, Zenon
<1>2. ASSUME monPc \in Busy
      PROVE  /\ monUser \in Created /\ Alive(monUser) /\ fd2user[fdOf[monUser]] \in {NoUser, monUser}
             /\ fdOf[monUser] \in Fds /\ notified[monUser] = 0
  <2>1. monUser \in Created /\ Alive(monUser)
    BY <1>0, <1>2, Zenon DEF ControlInv, Alive
  <2> QED  BY <1>0, <1>2, <2>1, OwnDescriptor, Zenon DEF UserTypes, ListInv
<1>3. CASE MonClose
  <2>1. UNCHANGED <<notified, users, fd2user, monUser>> /\ monPc \in Busy
    BY <1>3, Zenon DEF MonClose, Busy
  <2>2. \A v \in Users : Alive(v)' <=> Alive(v)
    BY <1>p, <2>1, Zenon DEF Alive, InList
  <2>3. closed' = closed \/ (monUser \notin closed /\ closed' = closed \cup {monUser})
    BY <1>2, <1>3, <2>1, Zenon DEF MonClose, SetClose, CloseTarget
  <2>4. CASE UNCHANGED closed
    BY <1>0, <1>p, <1>c, <2>1, <2>2, <2>4, DropStep, Zenon
  <2>5. CASE monUser \notin closed /\ closed' = closed \cup {monUser}
    BY <1>2, <1>p, <1>c, <2>1, <2>2, <2>5, CloseStep, Zenon
  <2> QED  BY <2>3, <2>4, <2>5, Zenon
<1>4. CASE MonErase
  <2>1. /\ UNCHANGED <<notified, closed, users, monUser>> /\ monPc \in Busy
        /\ fd2user' = [fd2user EXCEPT ![fdOf[monUser]] = NoUser]
    BY <1>4, Zenon DEF MonErase, Erase, Busy
  <2>2. ASSUME NEW u \in Users, Alive(u) PROVE Alive(u)'
    <3>1. CASE u = monUser
      BY <2>1, <3>1, Zenon DEF Alive
    <3>2. CASE u # monUser
      <4>1. \A f \in Fds : fd2user[f] = u => fd2user'[f] = u
        BY <1>0, <1>2, <2>1, <3>2, Zenon
      <4> QED  BY <1>p, <2>1, <2>2, <4>1, Zenon DEF Alive, InList
    <3> QED  BY <3>1, <3>2, Zenon
  <2> QED  BY <1>0, <1>p, <1>c, <1>b, <2>1, <2>2, DropStep, Zenon
<1>5. CASE MonCheck
  <2>1. UNCHANGED <<closed, fd2user, monUser>> /\ monPc \in Busy
    BY <1>5, Zenon DEF MonCheck, Busy
  <2>2. CASE users' = Append(users, monUser) /\ UNCHANGED notified
    <3>1. \A u : Has(users, u) => Has(users', u)
      BY <1>0, <1>2, <2>1, <2>2, HasAppend, Zenon
    <3>2. \A u \in Users : Alive(u) => Alive(u)'
      BY <1>p, <2>1, <3>1, Zenon DEF Alive, InList, Has
    <3> QED  BY <1>0, <1>p, <1>c, <1>b, <2>1, <2>2, <3>2, DropStep, Zenon
  <2>3. CASE /\ monUser \in closed /\ UNCHANGED users
             /\ notified' = [notified EXCEPT ![monUser] = @ + 1]
    <3>1. Pins' = Pins /\ Serving' = Serving /\ Down' = Down
      BY <1>p, Zenon DEF Pins, Serving, Down
    <3>2. \A u \in Users : Alive(u)' <=> Alive(u)
      BY <1>p, <2>1, <2>3, Zenon DEF Alive, InList
    <3>3. PICK m : m = monUser
      BY Zenon
    <3>4. /\ m \in Users /\ m \in Created /\ Alive(m) /\ m \in closed
          /\ notified[m] = 0 /\ notified'[m] = 1
          /\ \A u \in Users : u # m => notified'[u] = notified[u]
      BY <1>0, <1>2, <2>1, <2>3, <3>3
    <3>5. Phase[m] = "closed" /\ Phase'[m] = "notified"
      <4>0. /\ Phase[m] = PhaseFrom(m \in Created, Alive(m), notified[m] > 0, m \in closed)
            /\ Phase'[m] = PhaseFrom(m \in Created', Alive(m)', notified'[m] > 0, m \in closed')
        BY <1>0, <3>4, Phases, Zenon
      <4>1. m \in Created /\ Alive(m) /\ ~(notified[m] > 0) /\ m \in closed
        BY <3>4
      <4>2. m \in Created' /\ Alive(m)' /\ notified'[m] > 0
        BY <1>c, <3>2, <3>4
      <4>3. Phase[m] = "closed"
        BY <4>0, <4>1, Zenon DEF PhaseFrom
      <4>4. Phase'[m] = "notified"
        BY <4>0, <4>2, Zenon DEF PhaseFrom
      <4> QED  BY <4>3, <4>4, Zenon
    <3>6. ASSUME NEW u \in Users, u # m PROVE Phase'[u] = Phase[u]
      <4>0. /\ Phase[u] = PhaseFrom(u \in Created, Alive(u), notified[u] > 0, u \in closed)
            /\ Phase'[u] = PhaseFrom(u \in Created', Alive(u)', notified'[u] > 0, u \in closed')
        BY <1>0, Phases, Zenon
      <4>1. /\ u \in Created' <=> u \in Created
            /\ Alive(u)' <=> Alive(u)
            /\ notified'[u] = notified[u]
            /\ u \in closed' <=> u \in closed
        BY <1>c, <2>1, <3>2, <3>4, <3>6, Zenon
      <4> QED  BY <4>0, <4>1 DEF PhaseFrom
    <3>7. Phase' = [Phase EXCEPT ![m] = "notified"]
      BY <1>0, <3>4, <3>5, <3>6, Phases, Zenon
    <3> QED  BY <3>1, <3>4, <3>5, <3>7, Zenon DEF Life!Next, Life!Disconnect, Life!Move
  <2> QED  BY <1>5, <2>2, <2>3, Zenon DEF MonCheck
<1> QED  BY <1>1, <1>3, <1>4, <1>5, Zenon

\* A thread pins a user that is alive.
LEMMA PinStep ==
    ASSUME Inv, Inv', UNCHANGED <<userSeq, notified, closed, main>>,
           NEW t \in Workers \cup Others, NEW u \in Users, Pins[t] = NoUser, Alive(u),
           Pins' = [Pins EXCEPT ![t] = u], Serving' = Serving,
           \A v \in Users : Alive(v)' <=> Alive(v)
    PROVE  Life!Next
<1>0. UserTypes /\ UserTypes' /\ Created' = Created
  BY Zenon DEF Inv, Created
<1>1. Phase' = Phase /\ Down' = Down
  BY <1>0, SamePhase, Zenon DEF Down
<1>2. Phase[u] \in {"open", "closed", "notified"}
  BY <1>0, Phases, AliveCreated, Zenon DEF PhaseFrom
<1> QED  BY <1>1, <1>2, Zenon DEF Life!Next, Life!Pin, Life!Threads

\* The threads that run handlers, and those that lock a user to post to it.
LEMMA ThreadsImplement ==
    ASSUME Inv, Inv', [Next]_vars,
           \/ \E o \in Others : Release(o) \/ \E u \in Users : Hold(o, u)
           \/ \E w \in Workers : WkPop(w) \/ WkCheck(w) \/ WkDone(w)
    PROVE  Life!Next \/ LifeStutter
<1> USE UserFacts
<1>0. /\ UserTypes /\ UserTypes' /\ ControlInv /\ BacklogInv
      /\ wkUser \in [Workers -> Refs] /\ held \in [Others -> Refs]
      /\ wkPc \in [Workers -> WkLabels]
      /\ \A w \in Workers : wkUser[w] # NoUser <=> wkPc[w] \in {"check", "run"}
  BY Zenon DEF Inv, UserTypes, ControlInv
<1>p. UNCHANGED <<userSeq, fd2user, users, monUser, ioUser, notified, closed, main>>
  BY Zenon DEF Release, Hold, WkPop, WkCheck, WkDone, mainVars, userVars, ioVars, monVars
<1>c. Created' = Created /\ Down' = Down
  BY <1>p, Zenon DEF Created, Down
<1>b. \A u \in Users : Alive(u)' => Alive(u)
  <2>1. userSeq \in Nat
    BY <1>0 DEF UserTypes
  <2>2. ~NewUser
    BY <1>p, <2>1 DEF NewUser
  <2> QED  BY <1>0, <2>2, AliveBefore, Zenon
<1>t. Workers \cap Others = {}
  BY ThreadsAssumption, Zenon
<1>1. ASSUME NEW o \in Others, Release(o) PROVE Life!Next
  <2>1. /\ held[o] # NoUser /\ held' = [held EXCEPT ![o] = NoUser] /\ UNCHANGED <<wkUser, wkPc>>
    BY <1>1, Zenon DEF Release, wkVars
  <2>2. PICK d : d = held[o]
    BY Zenon
  <2>3. Pins[o] = d /\ Pins' = [Pins EXCEPT ![o] = NoUser] /\ Serving' = Serving \ {o}
    BY <1>0, <1>1, <1>t, <2>1, <2>2, Zenon DEF Pins, Serving
  <2>4. d \in Refs /\ d # NoUser
    BY <1>0, <1>1, <2>1, <2>2, Zenon
  <2>5. ASSUME NEW u \in Users, u # d, Alive(u) PROVE Alive(u)'
    <3>1. \A p \in Others : held[p] = u => held'[p] = u
      BY <1>0, <1>1, <2>1, <2>2, <2>5, Zenon
    <3> QED  BY <1>p, <2>1, <2>5, <3>1, Zenon DEF Alive, InList
  <2> QED  BY <1>1, <1>p, <1>c, <1>b, <2>3, <2>4, <2>5, UnpinStep, Zenon
<1>2. ASSUME NEW o \in Others, NEW u \in Users, Hold(o, u) PROVE Life!Next
  <2>1. /\ held[o] = NoUser /\ Alive(u) /\ held' = [held EXCEPT ![o] = u]
        /\ UNCHANGED <<wkUser, wkPc>>
    BY <1>2, Zenon DEF Hold, wkVars
  <2>2. Pins[o] = NoUser /\ Pins' = [Pins EXCEPT ![o] = u] /\ Serving' = Serving
    BY <1>0, <1>2, <1>t, <2>1, Zenon DEF Pins, Serving
  <2>3. ASSUME NEW v \in Users, Alive(v) PROVE Alive(v)'
    <3>1. \A p \in Others : held[p] = v => held'[p] = v
      BY <1>0, <1>2, <2>1, Zenon
    <3> QED  BY <1>p, <2>1, <2>3, <3>1, Zenon DEF Alive, InList
  <2> QED  BY <1>2, <1>p, <1>b, <2>1, <2>2, <2>3, PinStep, Zenon
<1>3. ASSUME NEW w \in Workers, WkPop(w) PROVE Life!Next \/ LifeStutter
  <2>0. wkPc[w] = "pop" /\ wkUser[w] = NoUser /\ UNCHANGED held
    BY <1>0, <1>3, Zenon DEF WkPop
  <2>1. CASE UNCHANGED wkUser /\ wkPc' \in {wkPc, [wkPc EXCEPT ![w] = "exit"]}
    <3>1. Pins' = Pins
      BY <2>0, <2>1, Zenon DEF Pins
    <3>2. Serving' = Serving
      BY <1>0, <2>0, <2>1, Zenon DEF Serving
    <3>3. \A v \in Users : Alive(v)' <=> Alive(v)
      BY <1>p, <2>0, <2>1, Zenon DEF Alive, InList
    <3>4. Phase' = Phase
      BY <1>0, <1>p, <1>c, <3>3, SamePhase, Zenon
    <3> QED  BY <1>c, <3>1, <3>2, <3>4, Zenon DEF LifeStutter
  <2>2. CASE /\ recvQueue[w] # <<>> /\ Alive(Head(recvQueue[w]))
             /\ wkUser' = [wkUser EXCEPT ![w] = Head(recvQueue[w])]
             /\ wkPc' = [wkPc EXCEPT ![w] = "check"]
    <3>1. PICK u : u = Head(recvQueue[w])
      BY Zenon
    <3>2. u \in Users /\ Alive(u)
      BY <1>0, <1>3, <2>2, <3>1, SeqHeadTail, Zenon DEF UserTypes
    <3>3. Pins[w] = NoUser /\ Pins' = [Pins EXCEPT ![w] = u]
      BY <1>0, <1>3, <1>t, <2>0, <2>2, <3>1, Zenon DEF Pins
    <3>4. Serving' = Serving
      BY <1>0, <2>0, <2>2, Zenon DEF Serving
    <3>5. ASSUME NEW v \in Users, Alive(v) PROVE Alive(v)'
      <4>1. \A x \in Workers : wkUser[x] = v => wkUser'[x] = v
        BY <1>0, <1>3, <2>0, <2>2, Zenon
      <4> QED  BY <1>p, <2>0, <3>5, <4>1, Zenon DEF Alive, InList
    <3> QED  BY <1>3, <1>p, <1>b, <3>2, <3>3, <3>4, <3>5, PinStep, Zenon
  <2> QED  BY <1>3, <2>1, <2>2, Zenon DEF WkPop
<1>4. ASSUME NEW w \in Workers, wkUser[w] # NoUser, wkUser' = [wkUser EXCEPT ![w] = NoUser],
             wkPc' = [wkPc EXCEPT ![w] = "pop"], UNCHANGED held
      PROVE  Life!Next
  <2>1. PICK d : d = wkUser[w]
    BY Zenon
  <2>2. Pins[w] = d /\ Pins' = [Pins EXCEPT ![w] = NoUser]
    BY <1>0, <1>4, <1>t, <2>1, Zenon DEF Pins
  <2>3. Serving' = Serving \ {w}
    BY <1>0, <1>4, Zenon DEF Serving
  <2>4. d \in Refs /\ d # NoUser
    BY <1>0, <1>4, <2>1, Zenon
  <2>5. ASSUME NEW u \in Users, u # d, Alive(u) PROVE Alive(u)'
    <3>1. \A x \in Workers : wkUser[x] = u => wkUser'[x] = u
      BY <1>0, <1>4, <2>1, <2>5, Zenon
    <3> QED  BY <1>p, <1>4, <2>5, <3>1, Zenon DEF Alive, InList
  <2> QED  BY <1>4, <1>p, <1>c, <1>b, <2>2, <2>3, <2>4, <2>5, UnpinStep, Zenon
<1>5. ASSUME NEW w \in Workers, WkCheck(w) \/ WkDone(w) PROVE Life!Next
  <2>0. wkUser[w] # NoUser /\ UNCHANGED held
    BY <1>0, <1>5, Zenon DEF WkCheck, WkDone
  <2>1. CASE wkUser' = [wkUser EXCEPT ![w] = NoUser] /\ wkPc' = [wkPc EXCEPT ![w] = "pop"]
    BY <1>4, <1>5, <2>0, <2>1, Zenon
  <2>2. CASE /\ wkPc[w] = "check" /\ wkUser[w] \notin closed
             /\ wkPc' = [wkPc EXCEPT ![w] = "run"] /\ UNCHANGED wkUser
    <3>1. Pins' = Pins
      BY <2>0, <2>2, Zenon DEF Pins
    <3>2. Serving' = Serving \cup {w} /\ w \notin Serving
      BY <1>0, <1>5, <2>2, Zenon DEF Serving
    <3>3. \A v \in Users : Alive(v)' <=> Alive(v)
      BY <1>p, <2>0, <2>2, Zenon DEF Alive, InList
    <3>4. Phase' = Phase
      BY <1>0, <1>p, <1>c, <3>3, SamePhase, Zenon
    <3>5. PICK d : d = wkUser[w]
      BY Zenon
    <3>6. d \in Created /\ Alive(d) /\ d \notin closed /\ d # NoUser /\ ~(notified[d] > 0)
      BY <1>0, <1>5, <2>0, <2>2, <3>5, Zenon DEF Alive, UserTypes
    <3>7. Pins[w] = d /\ Phase[d] = "open"
      BY <1>0, <1>5, <3>5, <3>6, Phases, PinsAre, Zenon DEF PhaseFrom
    <3> QED  BY <1>5, <1>c, <3>1, <3>2, <3>4, <3>6, <3>7, Zenon DEF Life!Next, Life!Serve
  <2> QED  BY <1>5, <2>1, <2>2, Zenon DEF WkCheck, WkDone
<1> QED  BY <1>1, <1>2, <1>3, <1>5, Zenon

\* The end of the server.
LEMMA EndImplements ==
    ASSUME Inv, Inv', Join \/ CloseServer
    PROVE  Life!Next
<1> USE UserFacts
<1>0. /\ UserTypes /\ UserTypes' /\ ControlInv /\ Created' = Created
      /\ UNCHANGED <<userSeq, ioUser, monUser, wkUser, wkPc, held, notified, closed>>
  BY Zenon DEF Inv, Join, CloseServer, userVars, ioVars, monVars, wkVars, Created
<1>1. \A w \in Workers : wkPc[w] = "exit" /\ wkUser[w] = NoUser
  BY <1>0, Zenon DEF Join, CloseServer, ControlInv
<1>2. Serving = {} /\ Serving' = {} /\ Pins' = Pins /\ \A w \in Workers : Pins[w] = NoUser
  BY <1>0, <1>1, PinsAre, Zenon DEF Serving, Pins
<1>3. CASE Join
  <2>1. \A u \in Users : Alive(u)' <=> Alive(u)
    BY <1>0, <1>3, Zenon DEF Join, Alive, InList, userVars
  <2>2. Phase' = Phase
    BY <1>0, <2>1, SamePhase, Zenon
  <2>3. ~Down /\ Down' = TRUE
    BY <1>3, Zenon DEF Join, Down
  <2> QED  BY <1>2, <2>2, <2>3, Zenon DEF Life!Next, Life!Down
<1>4. CASE CloseServer
  <2>1. ioUser = NoUser /\ monUser = NoUser
    BY <1>0, <1>4, Zenon DEF CloseServer, ControlInv
  <2>2. ASSUME NEW u \in Users PROVE Alive(u)' <=> Life!Pinned(u)
    <3>1. users' = <<>> /\ fd2user' = [f \in Fds |-> NoUser]
      BY <1>4, Zenon DEF CloseServer
    <3>2. ~InList(u)' /\ \A f \in Fds : fd2user'[f] # u
      BY <1>0, <3>1 DEF InList
    <3>3. Alive(u)' <=> \E o \in Others : held[o] = u
      BY <1>0, <1>1, <2>1, <3>2, Zenon DEF Alive
    <3>4. Life!Pinned(u) <=> \E o \in Others : held[o] = u
      BY <1>0, <1>1, PinsAre, Zenon DEF Life!Pinned, Life!Threads
    <3> QED  BY <3>3, <3>4, Zenon
  <2>3. ASSUME NEW u \in Users, Life!Pinned(u) PROVE Alive(u)
    BY <2>3, PinnedLive, Zenon DEF Life!Pinned, Life!Threads
  <2>4. ASSUME NEW u \in Users
        PROVE  Phase'[u] = IF Phase[u] \in {"open", "closed", "notified"} /\ ~Life!Pinned(u)
                           THEN "gone" ELSE Phase[u]
    BY <1>0, <2>2, <2>3, Phases, Zenon DEF PhaseFrom
  <2>5. Phase' = [u \in Users |->
                   IF Phase[u] \in {"open", "closed", "notified"} /\ ~Life!Pinned(u)
                   THEN "gone" ELSE Phase[u]]
    BY <1>0, <2>4, Phases, Zenon
  <2>6. Down /\ Down' = Down
    BY <1>4 DEF CloseServer, Down
  <2> QED  BY <1>2, <2>5, <2>6, Zenon DEF Life!Next, Life!DestroyAll
<1> QED  BY <1>3, <1>4, Zenon

\* A step that leaves the references alone leaves the life of the users alone.
LEMMA QuietImplements ==
    ASSUME Inv, Inv', [Next]_vars, UNCHANGED refVars
    PROVE  Life!Next \/ LifeStutter
<1>0. UserTypes /\ UserTypes' /\ Created' = Created
  BY Zenon DEF Inv, refVars, Created
<1>1. \A u \in Users : Alive(u)' <=> Alive(u)
  BY Zenon DEF refVars, Alive, InList
<1>2. Phase' = Phase /\ Pins' = Pins
  BY <1>0, <1>1, SamePhase, Zenon DEF refVars, Pins
<1>3. CASE \E w \in Workers : WkStep(w)
  BY <1>3, ThreadsImplement, Zenon DEF WkStep
<1>4. CASE Join \/ CloseServer
  BY <1>4, EndImplements, Zenon
<1>5. CASE ~(\E w \in Workers : WkStep(w)) /\ ~Join /\ ~CloseServer
  <2>1. UNCHANGED wkPc /\ Down' = Down
    <3> USE DEF wkVars, mainVars, Down
    <3>0. CASE UNCHANGED vars \/ ClientConnect \/ Started \/ Stop \/ StopQueues
      <4>1. CASE UNCHANGED vars  BY <4>1, Zenon DEF vars
      <4>2. CASE ClientConnect  BY <4>2, Zenon DEF ClientConnect
      <4>3. CASE Started  BY <4>3 DEF Started
      <4>4. CASE Stop \/ StopQueues  BY <4>4 DEF Stop, StopQueues
      <4> QED  BY <3>0, <4>1, <4>2, <4>3, <4>4, Zenon
    <3>1. CASE \/ \E u \in Users : PeerSend(u) \/ PeerBreak(u)
               \/ \E o \in Others : Release(o) \/ \E u \in Users : Hold(o, u)
      BY <3>1, Zenon DEF PeerSend, PeerBreak, Release, Hold
    <3>2. CASE IoStep \/ IoWaitFail
      BY <3>2, Zenon DEF IoStep, IoWait, IoWaitFail, IoNext, IoAccept, IoCreate, IoRecv, IoFind, IoHandle,
                  IoSend, IoClose, IoErase
    <3>3. CASE MonStep
      BY <3>3, Zenon DEF MonStep, MonPop, MonExpire, MonClose, MonErase, MonCheck
    <3> QED  BY <1>5, <3>0, <3>1, <3>2, <3>3, Zenon DEF Next, MainStep
  <2> QED  BY <1>2, <2>1, Zenon DEF LifeStutter, Serving
<1> QED  BY <1>3, <1>4, <1>5, Zenon

\* The server implements UserLifecycle: the handlers of an application see a user
\* opened once, closed once, reported once, never served again once they know it
\* is closed, and destroyed only when no thread has it locked.
THEOREM LifecycleImplemented == Spec => ImplementsLifecycle
<1>1. Init => Life!Init
  <2> SUFFICES ASSUME Init PROVE Life!Init
    BY Zenon
  <2>1. UserTypes /\ Created = {}
    BY TypesInit DEF Init, Created
  <2>2. \A u \in Users : PhaseOf(u) = "none"
    BY <2>1, PhaseIs, Zenon DEF PhaseFrom
  <2>3. Phase = [u \in Users |-> "none"]
    BY <2>2, Zenon DEF Phase
  <2>4. Pins = [t \in Workers \cup Others |-> NoUser]
    BY Zenon DEF Init, Pins
  <2>5. Serving = {} /\ Down = FALSE
    BY DEF Init, Serving, Down
  <2> QED  BY <2>3, <2>4, <2>5, Zenon DEF Life!Init, Life!Threads
<1>2. Inv /\ Inv' /\ [Next]_vars => [Life!Next]_(Life!lifeVars)
  <2> SUFFICES ASSUME Inv, Inv', [Next]_vars PROVE Life!Next \/ LifeStutter
    BY Zenon DEF LifeStutter, Life!lifeVars
  <2> QED
    BY RefSteps, QuietImplements, IoImplements, MonImplements, ThreadsImplement, EndImplements, Zenon
<1> QED  BY <1>1, <1>2, Invariance, PTL DEF Spec, ImplementsLifecycle, Life!Spec
=============================================================================
