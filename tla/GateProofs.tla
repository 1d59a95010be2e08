----------------------------- MODULE GateProofs -----------------------------
(***************************************************************************)
(* Proofs about the two ends of a session that a client opens: the asio     *)
(* client's connect (ConnectIsSound), and the gate's handshake and what is  *)
(* exchanged after it (SessionKeysAgree, RefusalsHaveCause).                *)
(***************************************************************************)
EXTENDS Gate, AsioConnect, TLAPS

-----------------------------------------------------------------------------
(* AsioConnect, for any number of attempts.                                 *)

\* What tcpsock_client does, alone.
ConnectSpec == ConnectInit /\ [][ConnectNext]_connectVars

\* What an attempt's caller was told: nothing, or one result.
OneAnswer == {<<>>, <<0>>, <<-1>>, <<-2>>, <<-3>>}

\* The types of the cells of the attempts; _user is that of the last attempt or of
\* one that overlaps another.
ConnectTypes ==
    /\ tls \in BOOLEAN /\ attempts \in 0..MaxAttempts
    /\ stage \in [Attempts -> {"none", "resolve", "connect", "handshake", "sync", "over"}]
    /\ done \in [Attempts -> BOOLEAN] /\ timer \in [Attempts -> {"none", "armed", "cancelled", "fired"}]
    /\ answered \in [Attempts -> OneAnswer]
    /\ started \subseteq Attempts /\ nullUse \subseteq Attempts /\ overlapped \subseteq Attempts
    /\ cltUser \in {NoAttempt, attempts} \cup overlapped /\ cltUser \in Attempts \cup {NoAttempt}

\* An attempt not made yet has nothing; an earlier one that is not done overlaps the
\* last; one that is not done was not answered.  Past the resolver _user is the
\* attempt's own, and so it stays after a success, unless another overlaps it.
AttemptInv(a) ==
    /\ a > attempts => stage[a] = "none" /\ timer[a] = "none" /\ ~done[a] /\ a \notin overlapped
    /\ a < attempts /\ ~done[a] => a \in overlapped /\ attempts \in overlapped
    /\ stage[a] = "sync" => ~done[a] /\ timer[a] = "none"
    /\ ~done[a] => answered[a] = <<>> /\ timer[a] \in {"none", "armed"} /\ stage[a] # "over"
    /\ timer[a] = "fired" => answered[a] = <<>>
    /\ a \notin overlapped =>
          /\ stage[a] \in {"connect", "handshake", "sync"} /\ ~done[a] => cltUser = a
          /\ a \notin nullUse /\ (a \in started <=> answered[a] = <<0>>)
          /\ a = attempts /\ answered[a] = <<0>> => cltUser = a

\* The inductive invariant of ConnectSound.
ConnectInv == ConnectTypes /\ \A a \in Attempts : AttemptInv(a)

\* The results differ, and there is at most one of them.
LEMMA Results ==
    /\ <<>> # <<0>> /\ \A rc \in {-1, -2, -3} : <<rc>> # <<0>>
    /\ \A rc \in {0, -1, -2, -3} : Append(<<>>, rc) = <<rc>> /\ <<rc>> \in OneAnswer
    /\ \A s \in OneAnswer : Len(s) <= 1
  BY DEF OneAnswer

\* No attempt was made yet.
LEMMA ConnectInitial == ConnectInit => ConnectInv
<1> SUFFICES ASSUME ConnectInit PROVE ConnectInv
  BY Zenon
<1>1. tls \in BOOLEAN
  BY Zenon DEF ConnectInit
<1>2. ConnectTypes
  BY <1>1, MaxAttemptsAssumption DEF ConnectInit, ConnectTypes, OneAnswer
<1>3. ASSUME NEW a \in Attempts PROVE AttemptInv(a)
  BY MaxAttemptsAssumption, Results DEF ConnectInit, AttemptInv, Attempts
<1> QED
  BY <1>2, <1>3, Zenon DEF ConnectInv

\* While a handler of an attempt runs, an attempt that overlaps none is done or not
\* made yet, and is not the last, unless it is that one.
LEMMA Alone ==
    ASSUME ConnectInv, NEW a \in Attempts, ~done[a], stage[a] # "none"
    PROVE  /\ a <= attempts
           /\ a \notin overlapped => a = attempts
           /\ \A b \in Attempts \ overlapped : b # a => b # attempts /\ (b < attempts => done[b])
<1>1. attempts \in Nat /\ Attempts \subseteq Nat /\ \A b \in Attempts : AttemptInv(b)
  BY MaxAttemptsAssumption DEF ConnectInv, ConnectTypes, Attempts
<1>2. a <= attempts
  BY <1>1 DEF AttemptInv
<1>3. a \notin overlapped => a = attempts
  BY <1>1, <1>2 DEF AttemptInv
<1>4. ASSUME NEW b \in Attempts \ overlapped, b # a PROVE b # attempts /\ (b < attempts => done[b])
  <2>1. b # attempts
    BY <1>1, <1>2, <1>3, <1>4 DEF AttemptInv
  <2>2. b < attempts => done[b]
    BY <1>1, <1>4 DEF AttemptInv
  <2> QED
    BY <2>1, <2>2
<1> QED
  BY <1>2, <1>3, <1>4

\* A handler leaves the other attempts as they are, but for the _user of those that
\* overlap it.
LEMMA OtherAttempt ==
    ASSUME ConnectInv, NEW a \in Attempts, ~done[a], stage[a] # "none",
           NEW b \in Attempts, b # a, UNCHANGED <<attempts, overlapped>>,
           done'[b] = done[b], timer'[b] = timer[b], stage'[b] = stage[b], answered'[b] = answered[b],
           b \notin overlapped => (b \in started' <=> b \in started) /\ (b \in nullUse' <=> b \in nullUse)
    PROVE  AttemptInv(b)'
<1>1. AttemptInv(b) /\ attempts \in Nat /\ b \in Nat
  BY MaxAttemptsAssumption DEF ConnectInv, ConnectTypes, Attempts
<1>2. b \notin overlapped => b # attempts /\ (b < attempts => done[b])
  BY Alone, Zenon
<1>3. CASE b \in overlapped
  BY <1>1, <1>3 DEF AttemptInv
<1>4. CASE b \notin overlapped
  <2>1. b > attempts \/ done[b]
    BY <1>1, <1>2, <1>4
  <2> QED
    BY <1>1, <1>2, <1>4, <2>1 DEF AttemptInv
<1> QED
  BY <1>3, <1>4

\* The answer to an attempt that is not done keeps the invariant: a failure after
\* the resolver leaves no _user, a success starts the present one.
LEMMA AnswerStep ==
    ASSUME ConnectInv, NEW a \in Attempts, ~done[a], stage[a] # "none",
           NEW rc \in {0, -1, -2, -3}, NEW t \in {"none", "cancelled"},
           UNCHANGED <<tls, attempts, overlapped>>,
           done' = [done EXCEPT ![a] = TRUE], timer' = [timer EXCEPT ![a] = t],
           stage' = [stage EXCEPT ![a] = "over"], answered' = [answered EXCEPT ![a] = Append(@, rc)],
           rc # 0 => cltUser' \in {cltUser, NoAttempt} /\ UNCHANGED <<started, nullUse>>,
           rc = 0 => stage[a] \in {"connect", "handshake", "sync"} /\ StartUser(a)
    PROVE  ConnectInv'
<1> USE NoAttemptAssumption
<1>t. ConnectTypes /\ \A b \in Attempts : AttemptInv(b)
  BY Zenon DEF ConnectInv
<1>1. answered[a] = <<>> /\ answered' = [answered EXCEPT ![a] = <<rc>>] /\ <<rc>> \in OneAnswer
  <2>1. answered[a] = <<>>
    BY <1>t, Zenon DEF AttemptInv
  <2> QED
    BY <2>1, Results, Zenon
<1>2. a \notin overlapped => a = attempts /\ (rc = 0 => cltUser = a)
  BY <1>t, Alone, Zenon DEF AttemptInv
<1>3. \A b \in Attempts \ overlapped : b # a => cltUser # b
  <2> SUFFICES ASSUME NEW b \in Attempts \ overlapped, b # a PROVE cltUser # b
    BY Zenon
  <2>1. b # attempts
    BY Alone, Zenon
  <2> QED
    BY <1>t, <2>1, Zenon DEF ConnectTypes
<1>4. ConnectTypes'
  <2>1. started' \subseteq Attempts /\ nullUse' \subseteq Attempts
    BY <1>t, Zenon DEF ConnectTypes, StartUser, Through
  <2>2. cltUser' \in {cltUser, NoAttempt}
    BY Zenon DEF StartUser
  <2> QED
    BY <1>t, <1>1, <2>1, <2>2, Zenon DEF ConnectTypes
<1>5. AttemptInv(a)'
  <2>1. done'[a] /\ timer'[a] = t /\ stage'[a] = "over" /\ answered'[a] = <<rc>>
    BY <1>t, <1>1, Zenon DEF ConnectTypes
  <2>2. a \notin overlapped =>
            a \notin nullUse' /\ (a \in started' <=> rc = 0) /\ (rc = 0 => cltUser' = a)
    <3>1. a \notin overlapped => a \notin nullUse /\ a \notin started
      BY <1>t, <1>1, Results, Zenon DEF AttemptInv
    <3>2. rc # 0 => started' = started /\ nullUse' = nullUse
      BY Zenon
    <3>3. rc = 0 /\ cltUser = a => started' = started \cup {a} /\ nullUse' = nullUse /\ cltUser' = a
      BY DEF StartUser, Through
    <3> QED
      BY <1>2, <3>1, <3>2, <3>3, Zenon
  <2>3. <<rc>> = <<0>> <=> rc = 0
    BY Results
  <2>4. a <= attempts /\ attempts \in Nat /\ a \in Nat
    BY <1>t, Alone, MaxAttemptsAssumption DEF ConnectTypes, Attempts
  <2> QED
    BY <2>1, <2>2, <2>3, <2>4 DEF AttemptInv
<1>6. ASSUME NEW b \in Attempts, b # a PROVE AttemptInv(b)'
  <2>1. done'[b] = done[b] /\ timer'[b] = timer[b] /\ stage'[b] = stage[b] /\ answered'[b] = answered[b]
    BY <1>t, <1>1, <1>6, Zenon DEF ConnectTypes
  <2>2. b \notin overlapped => (b \in started' <=> b \in started) /\ (b \in nullUse' <=> b \in nullUse)
    <3>1. rc # 0 => started' = started /\ nullUse' = nullUse
      BY Zenon
    <3>2. rc = 0 => started' \subseteq started \cup {cltUser} /\ started \subseteq started'
                    /\ nullUse' \subseteq nullUse \cup {a} /\ nullUse \subseteq nullUse'
      BY Zenon DEF StartUser, Through
    <3> QED
      BY <1>3, <1>6, <3>1, <3>2, Zenon
  <2> QED
    BY <1>6, <2>1, <2>2, OtherAttempt, Zenon
<1> QED
  BY <1>4, <1>5, <1>6, Zenon DEF ConnectInv

\* A call, made while earlier attempts are under way or not, keeps the invariant.
LEMMA CallStep ==
    ASSUME ConnectInv, AsyncConnect \/ ConnectBegin
    PROVE  ConnectInv'
<1> USE NoAttemptAssumption
<1>t. ConnectTypes /\ \A b \in Attempts : AttemptInv(b)
  BY Zenon DEF ConnectInv
<1>n. attempts \in Nat /\ Attempts \subseteq Nat /\ Attempts = 1..MaxAttempts
  BY <1>t, MaxAttemptsAssumption DEF ConnectTypes, Attempts
<1>c. Call /\ UNCHANGED <<tls, done, started, answered, nullUse>>
  BY Zenon DEF AsyncConnect, ConnectBegin
<1>1. PICK n \in Attempts : n = attempts + 1 /\ n = attempts'
  BY <1>c, <1>n, MaxAttemptsAssumption DEF Call
<1>2. AttemptInv(n) /\ n > attempts
  BY <1>t, <1>1, <1>n
<1>3. PICK s \in {"resolve", "sync"} :
        /\ stage' = [stage EXCEPT ![n] = s]
        /\ timer' = IF s = "resolve" THEN [timer EXCEPT ![n] = "armed"] ELSE timer
        /\ cltUser' = IF s = "resolve" THEN NoAttempt ELSE n
  BY <1>1 DEF AsyncConnect, ConnectBegin
<1>4. \/ UnderWay = {} /\ overlapped' = overlapped
      \/ UnderWay # {} /\ overlapped' = overlapped \cup UnderWay \cup {n}
  BY <1>c, <1>1, Zenon DEF Call
<1>5. UnderWay \subseteq Attempts /\ n \notin UnderWay
  BY <1>n, <1>1, <1>t, MaxAttemptsAssumption DEF UnderWay, ConnectTypes
<1>6. ConnectTypes'
  <2>1. attempts' \in 0..MaxAttempts
    BY <1>1, <1>n, MaxAttemptsAssumption
  <2>2. overlapped' \subseteq Attempts
    BY <1>t, <1>4, <1>5, Zenon DEF ConnectTypes
  <2>3. cltUser' \in {NoAttempt, attempts'} /\ cltUser' \in Attempts \cup {NoAttempt}
    BY <1>1, <1>3, Zenon
  <2>4. stage' \in [Attempts -> {"none", "resolve", "connect", "handshake", "sync", "over"}]
        /\ timer' \in [Attempts -> {"none", "armed", "cancelled", "fired"}]
    BY <1>t, <1>1, <1>3 DEF ConnectTypes
  <2> QED
    BY <1>t, <1>c, <2>1, <2>2, <2>3, <2>4, Zenon DEF ConnectTypes
<1>7. AttemptInv(n)'
  <2>1. stage'[n] = s /\ timer'[n] = (IF s = "resolve" THEN "armed" ELSE "none") /\ ~done'[n] /\ answered'[n] = <<>>
    BY <1>t, <1>c, <1>2, <1>3, Zenon DEF ConnectTypes, AttemptInv
  <2>2. n \notin nullUse' /\ n \notin started'
    BY <1>c, <1>2, Results, Zenon DEF AttemptInv
  <2>3. s = "sync" => cltUser' = n
    BY <1>3
  <2>4. s \in {"resolve", "sync"}
    OBVIOUS
  <2> QED
    BY <1>1, <1>n, <2>1, <2>2, <2>3, <2>4, Results DEF AttemptInv
<1>8. ASSUME NEW b \in Attempts, b # n PROVE AttemptInv(b)'
  <2>1. done'[b] = done[b] /\ timer'[b] = timer[b] /\ stage'[b] = stage[b] /\ answered'[b] = answered[b]
        /\ started' = started /\ nullUse' = nullUse
    BY <1>t, <1>c, <1>3, <1>8, Zenon DEF ConnectTypes
  <2>2. b \in overlapped' <=> b \in overlapped \/ b \in UnderWay
    BY <1>4, <1>8, Zenon
  <2>3. b \in UnderWay <=> b <= attempts /\ ~done[b]
    BY <1>n DEF UnderWay
  <2>4. CASE b > attempts
    BY <1>n, <1>1, <1>t, <1>8, <2>1, <2>2, <2>3, <2>4, Results DEF AttemptInv
  <2>5. CASE b <= attempts /\ done[b]
    BY <1>n, <1>1, <1>t, <1>8, <2>1, <2>2, <2>3, <2>5 DEF AttemptInv
  <2>6. CASE b <= attempts /\ ~done[b]
    <3>1. b \in overlapped' /\ n \in overlapped'
      BY <1>4, <2>3, <2>6, Zenon
    <3> QED
      BY <1>n, <1>1, <1>t, <2>1, <2>6, <3>1 DEF AttemptInv
  <2> QED
    BY <1>n, <2>4, <2>5, <2>6
<1> QED
  BY <1>6, <1>7, <1>8, Zenon DEF ConnectInv

\* Every call and every handler keeps the invariant.
LEMMA ConnectStep == ConnectInv /\ [ConnectNext]_connectVars => ConnectInv'
<1> SUFFICES ASSUME ConnectInv, [ConnectNext]_connectVars PROVE ConnectInv'
  BY Zenon
<1>t. ConnectTypes /\ \A a \in Attempts : AttemptInv(a)
  BY Zenon DEF ConnectInv
<1>1. CASE AsyncConnect \/ ConnectBegin
  BY <1>1, CallStep, Zenon
<1>2. CASE Disconnect
  BY <1>t, <1>2, Zenon DEF Disconnect, ConnectInv, ConnectTypes, AttemptInv
<1>3. ASSUME NEW a \in Attempts, OnTimeout(a) PROVE ConnectInv'
  BY <1>t, <1>3, Zenon DEF OnTimeout, ConnectInv, ConnectTypes, AttemptInv
<1>4. ASSUME NEW a \in Attempts, Late(a) PROVE ConnectInv'
  BY <1>t, <1>4, Zenon DEF Late, ConnectInv, ConnectTypes, AttemptInv
<1>5. ASSUME NEW a \in Attempts, ConnectEnd(a) PROVE ConnectInv'
  <2>1. /\ ~done[a] /\ stage[a] = "sync" /\ UNCHANGED <<tls, attempts, overlapped>>
        /\ done' = [done EXCEPT ![a] = TRUE] /\ stage' = [stage EXCEPT ![a] = "over"]
    BY <1>t, <1>5, Zenon DEF ConnectEnd, AttemptInv
  <2>2. timer' = [timer EXCEPT ![a] = "none"]
    BY <1>t, <1>5, <2>1 DEF ConnectEnd, ConnectTypes, AttemptInv
  <2>3. CASE cltUser' = NoAttempt /\ answered' = [answered EXCEPT ![a] = Append(@, -1)] /\ UNCHANGED <<started, nullUse>>
    <3> DEFINE rc == -1
    <3>1. rc \in {0, -1, -2, -3} /\ rc # 0
      OBVIOUS
    <3>2. answered' = [answered EXCEPT ![a] = Append(@, rc)]
      BY <2>3
    <3> HIDE DEF rc
    <3> QED
      BY <2>1, <2>2, <2>3, <3>1, <3>2, AnswerStep
  <2>4. CASE StartUser(a) /\ answered' = [answered EXCEPT ![a] = Append(@, 0)]
    BY <2>1, <2>2, <2>4, AnswerStep
  <2> QED
    BY <1>5, <2>3, <2>4, Zenon DEF ConnectEnd
<1>6. ASSUME NEW a \in Attempts, OnResolve(a) \/ OnConnect(a) \/ OnHandshake(a) PROVE ConnectInv'
  <2>1. /\ ~done[a] /\ stage[a] \in {"resolve", "connect", "handshake"} /\ stage[a] # "none"
        /\ UNCHANGED <<tls, attempts, overlapped>>
    BY <1>6 DEF OnResolve, OnConnect, OnHandshake
  <2>2. ASSUME NEW rc \in {-1, -2, -3}, Answer(a, rc), cltUser' \in {cltUser, NoAttempt},
               UNCHANGED <<started, nullUse>>
        PROVE  ConnectInv'
    <3>1. rc \in {0, -1, -2, -3} /\ rc # 0
      BY <2>2
    <3> QED
      BY <2>1, <2>2, <3>1, AnswerStep, Zenon DEF Answer
  <2>3. CASE stage[a] \in {"connect", "handshake"} /\ StartUser(a) /\ Answer(a, 0)
    BY <2>1, <2>3, AnswerStep DEF Answer
  <2>4. CASE /\ stage[a] = "resolve" /\ cltUser' = a /\ stage' = [stage EXCEPT ![a] = "connect"]
             /\ UNCHANGED <<done, timer, answered, started, nullUse>>
    <3>1. a \in {attempts} \cup overlapped /\ a <= attempts
      BY <2>1, Alone, Zenon
    <3>2. ConnectTypes'
      BY <1>t, <2>1, <2>4, <3>1, Zenon DEF ConnectTypes
    <3>3. ASSUME NEW b \in Attempts, b # a PROVE AttemptInv(b)'
      <4>1. stage'[b] = stage[b]
        BY <1>t, <2>4, <3>3, Zenon DEF ConnectTypes
      <4> QED
        BY <2>1, <2>4, <3>3, <4>1, OtherAttempt, Zenon
    <3>4. AttemptInv(a)'
      <4>1. stage'[a] = "connect"
        BY <1>t, <2>4, Zenon DEF ConnectTypes
      <4>2. a \in Nat /\ attempts \in Nat
        BY <1>t, MaxAttemptsAssumption DEF ConnectTypes, Attempts
      <4> QED
        BY <1>t, <2>1, <2>4, <3>1, <4>1, <4>2 DEF AttemptInv
    <3> QED
      BY <3>2, <3>3, <3>4, Zenon DEF ConnectInv
  <2>5. CASE /\ stage[a] = "connect" /\ stage' = [stage EXCEPT ![a] = "handshake"] /\ Through(a)
             /\ UNCHANGED <<done, timer, answered, cltUser, started>>
    <3>1. a \notin overlapped => cltUser = a
      BY <1>t, <2>1, <2>5, Zenon DEF AttemptInv
    <3>2. nullUse' \subseteq nullUse \cup {a} /\ (a \notin overlapped => nullUse' = nullUse)
      BY <2>5, <3>1, NoAttemptAssumption, Zenon DEF Through
    <3>3. ConnectTypes'
      BY <1>t, <2>1, <2>5, <3>2, Zenon DEF ConnectTypes
    <3>4. ASSUME NEW b \in Attempts, b # a PROVE AttemptInv(b)'
      <4>1. stage'[b] = stage[b] /\ (b \in nullUse' <=> b \in nullUse)
        BY <1>t, <2>5, <3>4, Zenon DEF ConnectTypes, Through
      <4> QED
        BY <2>1, <2>5, <3>4, <4>1, OtherAttempt, Zenon
    <3>5. AttemptInv(a)'
      <4>1. stage'[a] = "handshake"
        BY <1>t, <2>5, Zenon DEF ConnectTypes
      <4>2. a \in Nat /\ attempts \in Nat /\ a <= attempts
        BY <1>t, <2>1, Alone, MaxAttemptsAssumption DEF ConnectTypes, Attempts
      <4> QED
        BY <1>t, <2>1, <2>5, <3>1, <3>2, <4>1, <4>2 DEF AttemptInv
    <3> QED
      BY <3>3, <3>4, <3>5, Zenon DEF ConnectInv
  <2>6. CASE OnResolve(a)
    <3>1. -1 \in {-1, -2, -3}
      OBVIOUS
    <3> QED
      BY <2>2, <2>4, <2>6, <3>1, Zenon DEF OnResolve
  <2>7. CASE OnConnect(a)
    <3>1. -2 \in {-1, -2, -3}
      OBVIOUS
    <3> QED
      BY <2>2, <2>3, <2>5, <2>7, <3>1, Zenon DEF OnConnect
  <2>8. CASE OnHandshake(a)
    <3>1. -3 \in {-1, -2, -3}
      OBVIOUS
    <3> QED
      BY <2>2, <2>3, <2>8, <3>1, Zenon DEF OnHandshake
  <2> QED
    BY <1>6, <2>6, <2>7, <2>8, Zenon
<1>7. CASE UNCHANGED connectVars
  BY <1>t, <1>7, Zenon DEF connectVars, ConnectInv, ConnectTypes, AttemptInv
<1> QED
  BY <1>1, <1>2, <1>3, <1>4, <1>5, <1>6, <1>7, Zenon DEF ConnectNext

\* The strengthening of ConnectSound that every handler keeps.
THEOREM ConnectInvariance == ConnectSpec => []ConnectInv
  BY ConnectInitial, ConnectStep, PTL DEF ConnectSpec

\* However the timers, the completions, disconnect() and any number of calls of
\* connect() and async_connect() interleave, overlapping ones included: each attempt
\* is answered at most once and never after its timer has fired; and one that overlaps
\* no other never goes through a null _user, is answered with success exactly when
\* its user was started, and leaves _user that user, whatever the earlier ones left behind.
THEOREM ConnectIsSound == ConnectSpec => []ConnectSound
<1>1. ConnectInv => ConnectSound
  <2>1. ConnectInv => \A a \in Attempts : Len(answered[a]) <= 1
    BY Results, Zenon DEF ConnectInv, ConnectTypes
  <2> QED
    BY <2>1, Zenon DEF ConnectInv, AttemptInv, ConnectSound
<1> QED
  BY <1>1, ConnectInvariance, PTL

-----------------------------------------------------------------------------
(* Gate, for any number of clients, workers, requests and reconnections.    *)

\* Keys the gate makes, one per user, and the secrets both sides derive of them.
PubKeys == Users \cup {NoGate}
Secrets == {Derive(c, u) : c \in GateClients, u \in Users} \cup {NoGate}

\* Handling a handshake.
Busy == {"lock", "create", "share", "answer"}

\* The messages of a channel.
Msgs(s) == {s[i] : i \in 1..Len(s)}

\* The types of the cells of the clients, the users and the workers.
GateTypes ==
    /\ gateKx \in [GateClients -> {"ecdh", "dh", "short"}]
    /\ cltPc \in [GateClients -> {"start", "posted", "waiting", "dead"}]
    /\ cltFin \in [GateClients -> {"no", "success", "fail"}]
    /\ cltKey \in [GateClients -> Secrets]
    /\ toGate \in [GateClients -> Seq([kind : {"handshake", "enc", "plain"}, key : Secrets])]
    /\ toClt \in [GateClients -> Seq([kind : {"handshake", "enc", "plain"}, key : Secrets \cup PubKeys])]
    /\ gateGen \in [GateClients -> 1..(1 + GateBreaks)]
    /\ gateKey \in [Users -> Secrets]
    /\ helper \in [kx : {"ecdh", "dh"}, ec : PubKeys, dh : PubKeys]
    /\ gatePc \in [GateWorkers -> Busy \cup {"idle"}]
    /\ gateJob \in [GateWorkers -> [user : PubKeys, kx : {"ecdh", "dh", "short"}, pub : PubKeys, share : Secrets]]
    /\ gateWork \subseteq Users \X {"enc", "plain"}
    /\ gateRefused \subseteq GateClients

\* The worker in onHandshake() has the lock, the helper holds the key of its
\* user, and a response is made of both parts of that key or of none.
JobInv ==
    /\ \A w \in GateWorkers : gateLock = w <=> gatePc[w] \in {"create", "share"}
    /\ \A w \in GateWorkers : gatePc[w] \in Busy =>
          LET j == gateJob[w] IN
          /\ j.user \in Users /\ j.kx = gateKx[j.user[1]] /\ j.user[2] <= gateGen[j.user[1]]
          /\ gatePc[w] \in {"lock", "create"} => j.pub = NoGate /\ j.share = NoGate
          /\ gatePc[w] = "share" => j.pub = j.user /\ OwnKey(helper) = j.user
          /\ gatePc[w] = "answer" => \/ j.pub = NoGate /\ j.share = NoGate
                                     \/ j.pub = j.user /\ j.share = Derive(j.user[1], j.user)
    /\ \A v, w \in GateWorkers : v # w /\ gatePc[v] \in Busy /\ gatePc[w] \in Busy =>
          gateJob[v].user[1] # gateJob[w].user[1]

\* A handshake as the client sends it.
Hs == [kind |-> "handshake", key |-> NoGate]

\* A worker is at a handshake of the client.
Working(c) == \E w \in GateWorkers : gatePc[w] \in Busy /\ gateJob[w].user[1] = c

\* Neither side has a key and nothing but the handshake is under way.
Fresh(c) ==
    /\ cltFin[c] = "no" /\ toClt[c] = <<>>
    /\ \A g \in 1..(1 + GateBreaks) : gateKey[<<c, g>>] = NoGate
    /\ \A work \in gateWork : work[1][1] # c

\* The users of the client have no key but k; the first one has it, unless the
\* client is on another connection by now or asked for a short key.
KeysOf(c, k) ==
    /\ \A g \in 1..(1 + GateBreaks) : gateKey[<<c, g>>] \in {NoGate, k}
    /\ gateGen[c] = 1 /\ gateKx[c] # "short" => gateKey[<<c, 1>>] = k

\* The answer m to the handshake is on its way.
Answered(c, m) ==
    /\ m.kind = "handshake" /\ cltFin[c] = "no"
    /\ \/ m.key = NoGate /\ KeysOf(c, NoGate)
       \/ m.key \in Users /\ KeysOf(c, Derive(c, m.key))
    /\ \A work \in gateWork : work[1][1] # c

\* What a client may have sent, and what it may get, after its handshake.
SentOk(s, fin, k) ==
    \A m \in Msgs(s) : /\ fin # "no" /\ m.kind # "handshake"
                       /\ m.kind = "enc" => fin = "success" /\ m.key = k
GotOk(s, fin, k) ==
    \A m \in Msgs(s) : /\ fin # "no" /\ m.kind # "handshake"
                       /\ m.kind = "enc" => fin = "success" /\ m.key \in {NoGate, k}

\* A client makes one handshake; only after it do the two sides exchange
\* messages, encrypted with the one key that they agreed on.
SessionInv(c) ==
    /\ cltPc[c] = "start" => toGate[c] = <<>> /\ ~Working(c)
    /\ toGate[c] = <<Hs>> => ~Working(c)
    /\ cltPc[c] = "start" \/ toGate[c] = <<Hs>> \/ Working(c) => Fresh(c)
    /\ toGate[c] = <<Hs>> \/ SentOk(toGate[c], cltFin[c], cltKey[c])
    /\ \/ \E m \in [kind : {"handshake"}, key : PubKeys] : toClt[c] = <<m>> /\ Answered(c, m)
       \/ GotOk(toClt[c], cltFin[c], cltKey[c])
    /\ cltFin[c] = "success" => KeysOf(c, cltKey[c]) /\ cltKey[c] # NoGate
    /\ cltFin[c] = "fail" => KeysOf(c, NoGate)
    /\ \A work \in gateWork : work[1][1] = c =>
          cltFin[c] # "no" /\ (work[2] = "enc" => cltFin[c] = "success")

\* The inductive invariant of GateKeysAgree and RefusedForCause.
GateInv ==
    /\ GateTypes /\ JobInv /\ ~gateGarbled /\ RefusedForCause
    /\ \A c \in GateClients : SessionInv(c)
-----------------------------------------------------------------------------
\* The messages of a sequence, and what the channels do to it.
LEMMA MsgsOf ==
    ASSUME NEW S, NEW s \in Seq(S)
    PROVE  /\ \A m \in S : Msgs(Append(s, m)) = Msgs(s) \cup {m}
           /\ s # <<>> => Head(s) \in Msgs(s) /\ Msgs(Tail(s)) \subseteq Msgs(s)
           /\ \A n \in 0..Len(s) : Msgs(SubSeq(s, n + 1, Len(s))) \subseteq Msgs(s)
<1>1. ASSUME NEW m \in S PROVE Msgs(Append(s, m)) = Msgs(s) \cup {m}
  <2>1. /\ Len(Append(s, m)) = Len(s) + 1 /\ Len(s) \in Nat
        /\ \A i \in 1..Len(s) : Append(s, m)[i] = s[i]
        /\ Append(s, m)[Len(s) + 1] = m
    OBVIOUS
  <2>2. Msgs(Append(s, m)) \subseteq Msgs(s) \cup {m}
    <3>1. ASSUME NEW i \in 1..Len(s) + 1 PROVE i \in 1..Len(s) \/ i = Len(s) + 1
      BY <2>1
    <3> QED  BY <2>1, <3>1, Zenon DEF Msgs
  <2>3. Msgs(s) \cup {m} \subseteq Msgs(Append(s, m))
    <3>1. Len(s) + 1 \in 1..Len(s) + 1 /\ \A i \in 1..Len(s) : i \in 1..Len(s) + 1
      BY <2>1
    <3> QED  BY <2>1, <3>1, Zenon DEF Msgs
  <2> QED  BY <2>2, <2>3, Zenon
<1>2. ASSUME s # <<>> PROVE Head(s) \in Msgs(s) /\ Msgs(Tail(s)) \subseteq Msgs(s)
  <2>1. /\ Len(s) \in Nat /\ 1 \in 1..Len(s) /\ Head(s) = s[1] /\ Len(Tail(s)) = Len(s) - 1
        /\ \A i \in 1..Len(s) - 1 : Tail(s)[i] = s[i + 1] /\ i + 1 \in 1..Len(s)
    BY <1>2
  <2> QED  BY <2>1 DEF Msgs
<1>3. ASSUME NEW n \in 0..Len(s) PROVE Msgs(SubSeq(s, n + 1, Len(s))) \subseteq Msgs(s)
  <2>1. /\ Len(s) \in Nat /\ n \in Nat /\ Len(SubSeq(s, n + 1, Len(s))) = Len(s) - n
        /\ \A i \in 1..Len(s) - n : SubSeq(s, n + 1, Len(s))[i] = s[n + i] /\ n + i \in 1..Len(s)
    OBVIOUS
  <2> QED  BY <2>1, Zenon DEF Msgs
<1> QED  BY <1>1, <1>2, <1>3, Zenon

\* A single message.
LEMMA OneMsg ==
    ASSUME NEW S, NEW x \in S
    PROVE  /\ Msgs(<<>>) = {} /\ Msgs(<<x>>) = {x} /\ <<x>> # <<>>
           /\ Head(<<x>>) = x /\ Tail(<<x>>) = <<>> /\ Append(<<>>, x) = <<x>>
           /\ \A n \in 0..Len(<<x>>) : SubSeq(<<x>>, n + 1, Len(<<x>>)) \in {<<x>>, <<>>}
<1>1. Msgs(<<>>) = {} /\ Msgs(<<x>>) = {x}
  BY DEF Msgs
<1>2. <<x>> # <<>> /\ Head(<<x>>) = x /\ Tail(<<x>>) = <<>> /\ Append(<<>>, x) = <<x>>
  OBVIOUS
<1>3. ASSUME NEW n \in 0..Len(<<x>>) PROVE SubSeq(<<x>>, n + 1, Len(<<x>>)) \in {<<x>>, <<>>}
  <2>1. Len(<<x>>) = 1 /\ n \in {0, 1}
    OBVIOUS
  <2>2. CASE n = 0
    <3> DEFINE t == SubSeq(<<x>>, n + 1, Len(<<x>>))
    <3>1. t \in Seq(S) /\ Len(t) = 1 /\ t[1] = x
      BY <2>1, <2>2
    <3> HIDE DEF t
    <3>2. t = <<x>>
      BY <3>1
    <3> QED  BY <3>2, Zenon DEF t
  <2>3. CASE n = 1
    BY <2>1, <2>3
  <2> QED  BY <2>1, <2>2, <2>3, Zenon
<1> QED  BY <1>1, <1>2, <1>3, Zenon

-----------------------------------------------------------------------------
\* A secret is never mistaken for the lack of one.
LEMMA GateValues ==
    /\ NoGate \notin GateWorkers /\ NoGate \notin Users
    /\ \A c \in GateClients, u \in Users : Derive(c, u) # NoGate /\ Derive(c, u) \in Secrets
    /\ NoGate \in Secrets /\ NoGate \in PubKeys /\ Users \subseteq PubKeys
    /\ \A c \in GateClients, g \in 1..(1 + GateBreaks) :
          <<c, g>> \in Users /\ <<c, g>>[1] = c /\ <<c, g>>[2] = g
    /\ \A u \in Users : u[1] \in GateClients /\ u[2] \in 1..(1 + GateBreaks) /\ u = <<u[1], u[2]>>
    /\ \A k \in Secrets : Hs # [kind |-> "enc", key |-> k] /\ Hs # [kind |-> "plain", key |-> k]
    /\ Hs \in [kind : {"handshake", "enc", "plain"}, key : Secrets] /\ Hs.kind = "handshake"
<1>1. /\ NoGate \notin GateWorkers /\ NoGate \notin Users
      /\ \A c \in GateClients, u \in Users : Derive(c, u) # NoGate
  BY NoGateAssumption DEF Derive
<1>2. /\ NoGate \in Secrets /\ NoGate \in PubKeys /\ Users \subseteq PubKeys
      /\ \A c \in GateClients, u \in Users : Derive(c, u) \in Secrets
  BY DEF Secrets, PubKeys
<1>3. /\ \A c \in GateClients, g \in 1..(1 + GateBreaks) :
            <<c, g>> \in Users /\ <<c, g>>[1] = c /\ <<c, g>>[2] = g
      /\ \A u \in Users : u[1] \in GateClients /\ u[2] \in 1..(1 + GateBreaks) /\ u = <<u[1], u[2]>>
  BY DEF Users
<1>4. /\ \A k \in Secrets : Hs # [kind |-> "enc", key |-> k] /\ Hs # [kind |-> "plain", key |-> k]
      /\ Hs \in [kind : {"handshake", "enc", "plain"}, key : Secrets] /\ Hs.kind = "handshake"
  BY <1>2, Zenon DEF Hs
<1> QED  BY <1>1, <1>2, <1>3, <1>4, Zenon

\* The worker of a job and the lock.
LEMMA JobStep ==
    ASSUME GateTypes, JobInv, \A c \in GateClients : SessionInv(c), [GateNext]_gateVars
    PROVE  JobInv'
<1> USE DEF Busy
<1>0. /\ NoGate \notin GateWorkers /\ NoGate \notin Users
      /\ \A u \in Users : u[1] \in GateClients
  BY GateValues, Zenon
<1>1. CASE UNCHANGED <<gateKx, gateGen, gatePc, gateJob, gateLock, helper>>
  BY <1>1, Zenon DEF JobInv, OwnKey
<1>2. ASSUME NEW c \in GateClients, Reconnect(c) PROVE JobInv'
  <2>1. /\ UNCHANGED <<gateKx, gatePc, gateJob, gateLock, helper>>
        /\ \A d \in GateClients : gateGen[d] \in Nat /\ gateGen'[d] \in Nat /\ gateGen'[d] >= gateGen[d]
    BY <1>2, GateBoundsAssumption DEF Reconnect, GateTypes, cltVars
  <2>2. \A w \in GateWorkers : gatePc[w] \in Busy => gateJob[w].user[2] <= gateGen'[gateJob[w].user[1]]
    <3>1. ASSUME NEW w \in GateWorkers, gatePc[w] \in Busy
          PROVE  gateJob[w].user[2] <= gateGen'[gateJob[w].user[1]]
      <4>1. /\ gateJob[w].user \in Users /\ gateJob[w].user[2] <= gateGen[gateJob[w].user[1]]
        BY <3>1, Zenon DEF JobInv
      <4>2. gateJob[w].user[2] \in Nat /\ gateJob[w].user[1] \in GateClients
        BY <4>1, GateValues, GateBoundsAssumption
      <4> QED  BY <2>1, <4>1, <4>2
    <3> QED  BY <3>1, Zenon
  <2> QED  BY <2>1, <2>2, Zenon DEF JobInv, OwnKey
<1>3. ASSUME NEW w \in GateWorkers, NEW c \in GateClients, GateRequest(w, c) PROVE JobInv'
  <2>1. CASE UNCHANGED <<gatePc, gateJob>>
    BY <1>3, <2>1, Zenon DEF GateRequest, JobInv, OwnKey, cltVars, sessVars
  <2>2. CASE /\ Head(toGate[c]).kind = "handshake" /\ gatePc' = [gatePc EXCEPT ![w] = "lock"]
             /\ gateJob' = [gateJob EXCEPT ![w] = [user |-> <<c, gateGen[c]>>, kx |-> gateKx[c],
                                                   pub |-> NoGate, share |-> NoGate]]
    <3>1. ~Working(c)
      <4>1. toGate[c] # <<>> /\ toGate[c] \in Seq([kind : {"handshake", "enc", "plain"}, key : Secrets])
        BY <1>3, Zenon DEF GateRequest, GateTypes
      <4>2. Head(toGate[c]) \in Msgs(toGate[c])
        BY <4>1, MsgsOf, Zenon
      <4> QED  BY <2>2, <4>2, Zenon DEF SessionInv, SentOk
    <3>2. /\ gatePc[w] = "idle" /\ UNCHANGED <<gateKx, gateGen, gateLock, helper>>
          /\ \A v \in GateWorkers : v # w => gatePc'[v] = gatePc[v] /\ gateJob'[v] = gateJob[v]
          /\ gatePc'[w] = "lock" /\ gateJob'[w].user = <<c, gateGen[c]>> /\ gateJob'[w].kx = gateKx[c]
          /\ gateJob'[w].pub = NoGate /\ gateJob'[w].share = NoGate
      BY <1>3, <2>2, Zenon DEF GateRequest, GateTypes, cltVars, sessVars
    <3>3. <<c, gateGen[c]>> \in Users /\ <<c, gateGen[c]>>[1] = c /\ <<c, gateGen[c]>>[2] <= gateGen[c]
      BY GateValues, GateBoundsAssumption DEF GateTypes
    <3>4. \A v \in GateWorkers : gateLock' = v <=> gatePc'[v] \in {"create", "share"}
      BY <3>2, Zenon DEF JobInv
    <3>5. \A v \in GateWorkers : v # w /\ gatePc[v] \in Busy => gateJob[v].user[1] # c
      BY <3>1, Zenon DEF Working
    <3> QED  BY <3>2, <3>3, <3>4, <3>5 DEF JobInv, OwnKey
  <2> QED  BY <1>3, <2>1, <2>2, Zenon DEF GateRequest, Step
<1>4. ASSUME NEW w \in GateWorkers, HsDecrypt(w) \/ HsCreate(w) \/ HsShare(w) \/ HsAnswer(w) PROVE JobInv'
  <2> DEFINE j == gateJob[w]
  <2>0. /\ gatePc[w] \in Busy /\ j.user \in Users /\ UNCHANGED <<gateKx, gateGen>>
        /\ \A v \in GateWorkers : v # w => gatePc'[v] = gatePc[v] /\ gateJob'[v] = gateJob[v]
        /\ gateJob'[w].user = j.user /\ gateJob'[w].kx = j.kx
    <3>1. gatePc[w] \in Busy /\ UNCHANGED <<gateKx, gateGen>>
      BY <1>4, Zenon DEF HsDecrypt, HsCreate, HsShare, HsAnswer, cltVars, sessVars
    <3>2. \A v \in GateWorkers : v # w => gatePc'[v] = gatePc[v] /\ gateJob'[v] = gateJob[v]
      BY <1>4 DEF HsDecrypt, HsCreate, HsShare, HsAnswer, Step, GateTypes
    <3>3. gateJob'[w].user = j.user /\ gateJob'[w].kx = j.kx
      BY <1>4 DEF HsDecrypt, HsCreate, HsShare, HsAnswer, GateTypes
    <3> QED  BY <3>1, <3>2, <3>3, Zenon DEF JobInv
  <2>1. \A v \in GateWorkers : v # w /\ gatePc[v] = "share" => OwnKey(helper') = OwnKey(helper)
    <3>1. ASSUME NEW v \in GateWorkers, v # w, gatePc[v] = "share" PROVE gatePc[w] # "create"
      BY <3>1, Zenon DEF JobInv
    <3> QED  BY <1>4, <3>1, Zenon DEF HsDecrypt, HsCreate, HsShare, HsAnswer
  <2>2. \A v \in GateWorkers : gateLock' = v <=> gatePc'[v] \in {"create", "share"}
    <3>1. \A v \in GateWorkers : gateLock = v <=> gatePc[v] \in {"create", "share"}
      BY Zenon DEF JobInv
    <3>2. gatePc \in [GateWorkers -> Busy \cup {"idle"}]
      BY Zenon DEF GateTypes
    <3>3. CASE HsDecrypt(w)
      <4>1. /\ gatePc[w] = "lock" /\ gateLock = NoGate
            /\ \/ gateLock' = w /\ gatePc'[w] = "create"
               \/ gateLock' = gateLock /\ gatePc'[w] = "answer"
        BY <3>2, <3>3, Zenon DEF HsDecrypt, Step, Enter
      <4> QED  BY <1>0, <2>0, <3>1, <4>1, Zenon
    <3>4. CASE HsCreate(w)
      <4>1. /\ gatePc[w] = "create"
            /\ \/ gateLock' = gateLock /\ gatePc'[w] = "share"
               \/ gateLock' = NoGate /\ gatePc'[w] = "answer"
        BY <3>2, <3>4, Zenon DEF HsCreate, Step
      <4> QED  BY <1>0, <2>0, <3>1, <4>1, Zenon
    <3>5. CASE HsShare(w)
      <4>1. gatePc[w] = "share" /\ gateLock' = NoGate /\ gatePc'[w] = "answer"
        BY <3>2, <3>5, Zenon DEF HsShare, Step
      <4> QED  BY <1>0, <2>0, <3>1, <4>1, Zenon
    <3>6. CASE HsAnswer(w)
      <4>1. gatePc[w] = "answer" /\ gateLock' = gateLock /\ gatePc'[w] = "idle"
        BY <3>2, <3>6, Zenon DEF HsAnswer, Step
      <4> QED  BY <2>0, <3>1, <4>1, Zenon
    <3> QED  BY <1>4, <3>3, <3>4, <3>5, <3>6, Zenon
  <2>3. /\ gatePc'[w] \in {"lock", "create"} => gateJob'[w].pub = NoGate /\ gateJob'[w].share = NoGate
        /\ gatePc'[w] = "share" => gateJob'[w].pub = j.user /\ OwnKey(helper') = j.user
        /\ gatePc'[w] = "answer" => \/ gateJob'[w].pub = NoGate /\ gateJob'[w].share = NoGate
                                    \/ gateJob'[w].pub = j.user /\ gateJob'[w].share = Derive(j.user[1], j.user)
    <3>1. CASE HsDecrypt(w)
      BY <3>1 DEF HsDecrypt, Step, GateTypes, JobInv
    <3>2. CASE HsCreate(w)
      <4>1. helper \in [kx : {"ecdh", "dh"}, ec : PubKeys, dh : PubKeys]
        BY Zenon DEF GateTypes
      <4>2. gatePc'[w] = "share" => OwnKey(helper') = j.user /\ gateJob'[w].pub = OwnKey(helper')
        <5>1. \A o : OwnKey(DhGenerate(helper, o)) = o /\ OwnKey(EccCreate(helper, o)) = o
          BY <4>1, Zenon DEF OwnKey, DhGenerate, EccCreate
        <5>2. gatePc'[w] = "share" => /\ helper' \in {DhGenerate(helper, j.user), EccCreate(helper, j.user)}
                                      /\ gateJob' = [gateJob EXCEPT ![w].pub = OwnKey(helper')]
          BY <3>2, Zenon DEF HsCreate, NewKey, Step, GateTypes
        <5>3. gatePc'[w] = "share" => gateJob'[w].pub = OwnKey(helper')
          BY <5>2 DEF GateTypes
        <5> QED  BY <5>1, <5>2, <5>3
      <4>3. gatePc'[w] = "answer" => gateJob'[w] = j
        BY <3>2, Zenon DEF HsCreate, Step, GateTypes
      <4>4. gatePc'[w] \in {"share", "answer"} /\ j.pub = NoGate /\ j.share = NoGate
        BY <3>2 DEF HsCreate, Step, GateTypes, JobInv
      <4> QED  BY <4>2, <4>3, <4>4, Zenon
    <3>3. CASE HsShare(w)
      <4>1. /\ gatePc'[w] = "answer"
            /\ \/ gateJob'[w].pub = j.pub /\ gateJob'[w].share = Derive(j.user[1], OwnKey(helper))
               \/ gateJob'[w].pub = NoGate /\ gateJob'[w].share = NoGate
        BY <3>3 DEF HsShare, Step, GateTypes
      <4>2. j.pub = j.user /\ OwnKey(helper) = j.user
        BY <3>3, Zenon DEF HsShare, JobInv
      <4> QED  BY <4>1, <4>2, Zenon
    <3>4. CASE HsAnswer(w)
      BY <3>4, Zenon DEF HsAnswer, Step, GateTypes
    <3> QED  BY <1>4, <3>1, <3>2, <3>3, <3>4, Zenon
  <2>4. ASSUME NEW v \in GateWorkers, gatePc'[v] \in Busy
        PROVE  /\ gateJob'[v].user \in Users /\ gateJob'[v].kx = gateKx[gateJob'[v].user[1]]
               /\ gateJob'[v].user[2] <= gateGen[gateJob'[v].user[1]]
               /\ gatePc'[v] \in {"lock", "create"} => gateJob'[v].pub = NoGate /\ gateJob'[v].share = NoGate
               /\ gatePc'[v] = "share" => gateJob'[v].pub = gateJob'[v].user /\ OwnKey(helper') = gateJob'[v].user
               /\ gatePc'[v] = "answer" =>
                     \/ gateJob'[v].pub = NoGate /\ gateJob'[v].share = NoGate
                     \/ gateJob'[v].pub = gateJob'[v].user /\ gateJob'[v].share = Derive(gateJob'[v].user[1], gateJob'[v].user)
    <3>1. CASE v = w
      BY <2>0, <2>3, <3>1 DEF JobInv
    <3>2. CASE v # w
      BY <2>0, <2>1, <2>4, <3>2 DEF JobInv
    <3> QED  BY <3>1, <3>2, Zenon
  <2>5. \A u, v \in GateWorkers : u # v /\ gatePc'[u] \in Busy /\ gatePc'[v] \in Busy =>
           gateJob'[u].user[1] # gateJob'[v].user[1]
    BY <2>0 DEF JobInv
  <2>6. OwnKey(helper') = (OwnKey(helper))'
    BY Zenon DEF OwnKey
  <2> QED  BY <2>0, <2>2, <2>4, <2>5, <2>6, Zenon DEF JobInv
<1>5. ASSUME NEW c \in GateClients, CltHandshake(c) \/ CltSaveTemp(c) \/ CltSend(c) \/ CltResponse(c)
      PROVE  UNCHANGED <<gateKx, gateGen, gatePc, gateJob, gateLock, helper>>
  BY <1>5, Zenon DEF CltHandshake, CltSaveTemp, CltSend, CltResponse, sessVars
<1>6. ASSUME NEW work, GateResponse(work)
      PROVE  UNCHANGED <<gateKx, gateGen, gatePc, gateJob, gateLock, helper>>
  BY <1>6, Zenon DEF GateResponse, sessVars, cltVars
<1>7. CASE UNCHANGED gateVars
  BY <1>1, <1>7, Zenon DEF gateVars, cltVars, sessVars
<1> QED  BY <1>1, <1>2, <1>3, <1>4, <1>5, <1>6, <1>7, Zenon DEF GateNext

\* A channel of messages stays one.
LEMMA SeqKept ==
    ASSUME NEW S
    PROVE  /\ \A s \in Seq(S), m \in S : Append(s, m) \in Seq(S)
           /\ \A s \in Seq(S) : s # <<>> => Tail(s) \in Seq(S)
           /\ <<>> \in Seq(S)
OBVIOUS

\* The message a client gets next.
LEMMA NextAnswer ==
    ASSUME GateTypes, NEW c \in GateClients, SessionInv(c), toClt[c] # <<>>
    PROVE  LET m == Head(toClt[c]) IN
           IF m.kind = "handshake"
           THEN toClt[c] = <<m>> /\ Answered(c, m) /\ m.key \in PubKeys /\ Tail(toClt[c]) = <<>>
           ELSE GotOk(toClt[c], cltFin[c], cltKey[c]) /\ m \in Msgs(toClt[c])
<1> DEFINE m == Head(toClt[c])
           All == [kind : {"handshake", "enc", "plain"}, key : Secrets \cup PubKeys]
<1>1. toClt[c] \in Seq(All) /\ m \in Msgs(toClt[c])
  BY MsgsOf, Zenon DEF GateTypes
<1>2. ASSUME NEW n \in [kind : {"handshake"}, key : PubKeys], toClt[c] = <<n>>, Answered(c, n)
      PROVE  m = n /\ m.kind = "handshake" /\ m.key \in PubKeys /\ Tail(toClt[c]) = <<>>
  BY <1>2, OneMsg, Zenon
<1>3. GotOk(toClt[c], cltFin[c], cltKey[c]) => m.kind # "handshake"
  BY <1>1, Zenon DEF GotOk
<1> QED  BY <1>1, <1>2, <1>3, Zenon DEF SessionInv

\* Every variable keeps its type.
LEMMA GateTypesStep ==
    ASSUME GateInv, [GateNext]_gateVars
    PROVE  GateTypes'
<1> DEFINE ToGate == [kind : {"handshake", "enc", "plain"}, key : Secrets]
           ToClt == [kind : {"handshake", "enc", "plain"}, key : Secrets \cup PubKeys]
<1>0. GateTypes /\ JobInv /\ \A c \in GateClients : SessionInv(c)
  BY Zenon DEF GateInv
<1>t. /\ toGate \in [GateClients -> Seq(ToGate)] /\ toClt \in [GateClients -> Seq(ToClt)]
      /\ \A s \in Seq(ToGate), m \in ToGate : Append(s, m) \in Seq(ToGate)
      /\ \A s \in Seq(ToClt), m \in ToClt : Append(s, m) \in Seq(ToClt)
      /\ \A s \in Seq(ToGate) : s # <<>> => Tail(s) \in Seq(ToGate)
      /\ \A s \in Seq(ToClt) : s # <<>> => Tail(s) \in Seq(ToClt)
      /\ <<>> \in Seq(ToClt)
  <2>1. toGate \in [GateClients -> Seq(ToGate)] /\ toClt \in [GateClients -> Seq(ToClt)]
    BY <1>0, Zenon DEF GateTypes
  <2> HIDE DEF ToGate, ToClt
  <2> QED  BY <2>1, SeqKept, Zenon
<1> HIDE DEF ToGate, ToClt
<1>1. CASE UNCHANGED gateVars
  BY <1>0, <1>1, Zenon DEF GateTypes, gateVars, cltVars, sessVars
<1>2. ASSUME NEW c \in GateClients, CltHandshake(c) \/ CltSaveTemp(c) PROVE GateTypes'
  <2>1. Hs \in ToGate
    BY GateValues, Zenon DEF ToGate
  <2>2. toGate' \in [GateClients -> Seq(ToGate)]
    <3>1. toGate' = toGate \/ toGate' = [toGate EXCEPT ![c] = Append(@, Hs)]
      BY <1>2, Zenon DEF CltHandshake, CltSaveTemp, Hs
    <3>2. Append(toGate[c], Hs) \in Seq(ToGate)
      BY <1>t, <2>1, Zenon
    <3> QED  BY <1>t, <3>1, <3>2, Zenon
  <2>3. cltPc' \in [GateClients -> {"start", "posted", "waiting", "dead"}]
    <3>1. PICK l \in {"posted", "waiting"} : cltPc' = [cltPc EXCEPT ![c] = l]
      BY <1>2, Zenon DEF CltHandshake, CltSaveTemp
    <3> QED  BY <1>0, <3>1, Zenon DEF GateTypes
  <2>4. UNCHANGED <<gateKx, cltFin, cltKey, toClt, gateGen, gateKey, helper, gatePc, gateJob, gateWork, gateRefused>>
    BY <1>2, Zenon DEF CltHandshake, CltSaveTemp, sessVars
  <2> QED  BY <1>0, <2>2, <2>3, <2>4, Zenon DEF GateTypes, ToGate
<1>3. ASSUME NEW c \in GateClients, CltSend(c) PROVE GateTypes'
  <2>1. [kind |-> IF cltFin[c] = "success" THEN "enc" ELSE "plain", key |-> cltKey[c]] \in ToGate
    BY <1>0, Zenon DEF GateTypes, ToGate
  <2>2. toGate' \in [GateClients -> Seq(ToGate)]
    BY <1>3, <1>t, <2>1, Zenon DEF CltSend
  <2>3. UNCHANGED <<gateKx, cltPc, cltFin, cltKey, toClt, gateGen, gateKey, helper, gatePc, gateJob, gateWork, gateRefused>>
    BY <1>3, Zenon DEF CltSend, sessVars
  <2> QED  BY <1>0, <2>2, <2>3, Zenon DEF GateTypes, ToGate
<1>4. ASSUME NEW c \in GateClients, CltResponse(c) PROVE GateTypes'
  <2> DEFINE m == Head(toClt[c])
  <2>1. toClt' \in [GateClients -> Seq(ToClt)]
    BY <1>4, <1>t, Zenon DEF CltResponse
  <2>2. m.kind = "handshake" /\ m.key # NoGate => Derive(c, m.key) \in Secrets
    <3>1. m.kind = "handshake" /\ m.key # NoGate => m.key \in Users
      BY <1>0, <1>4, NextAnswer, Zenon DEF CltResponse, PubKeys
    <3> QED  BY <3>1, GateValues, Zenon
  <2>3. /\ cltPc' \in [GateClients -> {"start", "posted", "waiting", "dead"}]
        /\ cltFin' \in [GateClients -> {"no", "success", "fail"}]
    BY <1>0, <1>4, Zenon DEF CltResponse, GateTypes
  <2>4. cltKey' \in [GateClients -> Secrets]
    BY <1>0, <1>4, <2>2 DEF CltResponse, GateTypes
  <2>5. UNCHANGED <<gateKx, toGate, gateGen, gateKey, helper, gatePc, gateJob, gateWork, gateRefused>>
    BY <1>4, Zenon DEF CltResponse, sessVars
  <2> QED  BY <1>0, <2>1, <2>3, <2>4, <2>5, Zenon DEF GateTypes, ToClt
<1>5. ASSUME NEW c \in GateClients, Reconnect(c) PROVE GateTypes'
  <2>1. toGate' \in [GateClients -> Seq(ToGate)]
    <3>1. PICK n \in 0..Len(toGate[c]) : toGate' = [toGate EXCEPT ![c] = SubSeq(@, n + 1, Len(@))]
      BY <1>5, Zenon DEF Reconnect
    <3>2. toGate[c] \in Seq(ToGate)
      BY <1>t, Zenon
    <3>3. SubSeq(toGate[c], n + 1, Len(toGate[c])) \in Seq(ToGate)
      BY <3>2
    <3> QED  BY <1>t, <3>1, <3>3, Zenon
  <2>2. toClt' \in [GateClients -> Seq(ToClt)]
    BY <1>5, <1>t, Zenon DEF Reconnect
  <2>3. gateGen' \in [GateClients -> 1..(1 + GateBreaks)]
    BY <1>0, <1>5, GateBoundsAssumption DEF Reconnect, GateTypes
  <2>4. UNCHANGED <<gateKx, cltPc, cltFin, cltKey, gateKey, helper, gatePc, gateJob, gateWork, gateRefused>>
    BY <1>5, Zenon DEF Reconnect, cltVars
  <2> QED  BY <1>0, <2>1, <2>2, <2>3, <2>4, Zenon DEF GateTypes, ToGate, ToClt
<1>6. ASSUME NEW w \in GateWorkers, NEW c \in GateClients, GateRequest(w, c) PROVE GateTypes'
  <2> DEFINE u == <<c, gateGen[c]>>
  <2>1. u \in Users /\ u \in PubKeys /\ NoGate \in PubKeys /\ NoGate \in Secrets
    BY <1>0, GateValues, Zenon DEF GateTypes
  <2>2. toGate' \in [GateClients -> Seq(ToGate)]
    BY <1>6, <1>t, Zenon DEF GateRequest
  <2>3. UNCHANGED <<gateKx, cltPc, cltFin, cltKey, toClt, gateGen, gateKey, helper>>
    BY <1>6, Zenon DEF GateRequest, cltVars, sessVars
  <2>4. gatePc' \in [GateWorkers -> Busy \cup {"idle"}]
    BY <1>0, <1>6, Zenon DEF GateRequest, Step, GateTypes, Busy
  <2>5. gateJob' \in [GateWorkers -> [user : PubKeys, kx : {"ecdh", "dh", "short"}, pub : PubKeys, share : Secrets]]
    <3>1. [user |-> u, kx |-> gateKx[c], pub |-> NoGate, share |-> NoGate]
             \in [user : PubKeys, kx : {"ecdh", "dh", "short"}, pub : PubKeys, share : Secrets]
      BY <1>0, <2>1, Zenon DEF GateTypes
    <3> QED  BY <1>0, <1>6, <3>1, Zenon DEF GateRequest, GateTypes
  <2>6. gateWork' \subseteq Users \X {"enc", "plain"} /\ gateRefused' \subseteq GateClients
    <3>1. <<u, "enc">> \in Users \X {"enc", "plain"} /\ <<u, "plain">> \in Users \X {"enc", "plain"}
      BY <2>1, Zenon
    <3>2. /\ gateWork' \in {gateWork, gateWork \cup {<<u, "enc">>}, gateWork \cup {<<u, "plain">>}}
          /\ gateRefused' \in {gateRefused, gateRefused \cup {c}}
      BY <1>6, Zenon DEF GateRequest
    <3> QED  BY <1>0, <3>1, <3>2, Zenon DEF GateTypes
  <2> QED  BY <1>0, <2>2, <2>3, <2>4, <2>5, <2>6, Zenon DEF GateTypes, ToGate
<1>7. ASSUME NEW w \in GateWorkers, HsDecrypt(w) \/ HsCreate(w) \/ HsShare(w) PROVE GateTypes'
  <2> DEFINE j == gateJob[w]
             Jobs == [user : PubKeys, kx : {"ecdh", "dh", "short"}, pub : PubKeys, share : Secrets]
  <2>1. /\ j \in Jobs /\ NoGate \in Secrets /\ j.user \in Users
        /\ gatePc[w] = "share" => OwnKey(helper) = j.user
        /\ Derive(j.user[1], j.user) \in Secrets
    <3>1. j \in Jobs /\ gatePc[w] \in Busy
      BY <1>0, <1>7, Zenon DEF GateTypes, HsDecrypt, HsCreate, HsShare, Busy
    <3>2. j.user \in Users /\ (gatePc[w] = "share" => OwnKey(helper) = j.user)
      BY <1>0, <3>1, Zenon DEF JobInv
    <3> QED  BY <3>1, <3>2, GateValues
  <2>2. helper' \in [kx : {"ecdh", "dh"}, ec : PubKeys, dh : PubKeys]
    <3>1. \E o \in {j.user, NoGate} : helper' \in {helper, DhGenerate(helper, o), EccCreate(helper, o)}
      BY <1>7, Zenon DEF HsDecrypt, HsCreate, NewKey, HsShare
    <3>2. /\ helper \in [kx : {"ecdh", "dh"}, ec : PubKeys, dh : PubKeys]
          /\ j.user \in PubKeys /\ NoGate \in PubKeys
      BY <1>0, <2>1, GateValues, Zenon DEF GateTypes
    <3>3. PICK o \in PubKeys : helper' \in {helper, DhGenerate(helper, o), EccCreate(helper, o)}
      BY <3>1, <3>2, Zenon
    <3> QED  BY <3>2, <3>3, Zenon DEF DhGenerate, EccCreate
  <2>3. OwnKey(helper') \in PubKeys
    BY <2>2, Zenon DEF OwnKey
  <2>4. gateJob' \in [GateWorkers -> Jobs]
    <3>1. PICK x \in Secrets, k \in PubKeys : gateJob' = [gateJob EXCEPT ![w] = [j EXCEPT !.pub = k, !.share = x]]
      <4>0. gateJob \in [GateWorkers -> Jobs]
        BY <1>0, Zenon DEF GateTypes
      <4>1. CASE HsDecrypt(w)
        <5>1. \/ gateJob' = gateJob \/ gateJob' = [gateJob EXCEPT ![w].share = NoGate]
          BY <4>1, Zenon DEF HsDecrypt
        <5>2. \/ gateJob' = [gateJob EXCEPT ![w] = [j EXCEPT !.pub = j.pub, !.share = j.share]]
              \/ gateJob' = [gateJob EXCEPT ![w] = [j EXCEPT !.pub = j.pub, !.share = NoGate]]
          BY <4>0, <5>1, Zenon
        <5> QED  BY <2>1, <5>2, Zenon
      <4>2. CASE HsCreate(w)
        <5>1. \/ gateJob' = gateJob \/ gateJob' = [gateJob EXCEPT ![w].pub = OwnKey(helper')]
          BY <4>2, Zenon DEF HsCreate
        <5>2. \/ gateJob' = [gateJob EXCEPT ![w] = [j EXCEPT !.pub = j.pub, !.share = j.share]]
              \/ gateJob' = [gateJob EXCEPT ![w] = [j EXCEPT !.pub = OwnKey(helper'), !.share = j.share]]
          BY <4>0, <5>1, Zenon
        <5> QED  BY <2>1, <2>3, <5>2, Zenon
      <4>3. CASE HsShare(w)
        <5>1. \/ gateJob' = [gateJob EXCEPT ![w].share = Derive(j.user[1], j.user)]
              \/ gateJob' = [gateJob EXCEPT ![w].pub = NoGate, ![w].share = NoGate]
          BY <2>1, <4>3, Zenon DEF HsShare
        <5>2. \/ gateJob' = [gateJob EXCEPT ![w] = [j EXCEPT !.pub = j.pub, !.share = Derive(j.user[1], j.user)]]
              \/ gateJob' = [gateJob EXCEPT ![w] = [j EXCEPT !.pub = NoGate, !.share = NoGate]]
          BY <4>0, <5>1
        <5> QED  BY <2>1, <5>2, GateValues, Zenon
      <4> QED  BY <1>7, <4>1, <4>2, <4>3, Zenon
    <3>2. [j EXCEPT !.pub = k, !.share = x] \in Jobs
      BY <2>1, Zenon
    <3> QED  BY <1>0, <3>1, <3>2, Zenon DEF GateTypes
  <2>5. gatePc' \in [GateWorkers -> Busy \cup {"idle"}]
    <3>1. PICK l \in Busy : gatePc' = [gatePc EXCEPT ![w] = l]
      BY <1>7, Zenon DEF HsDecrypt, HsCreate, HsShare, Step, Busy
    <3> QED  BY <1>0, <3>1, Zenon DEF GateTypes
  <2>6. UNCHANGED <<gateKx, cltPc, cltFin, cltKey, toGate, toClt, gateGen, gateKey, gateWork, gateRefused>>
    BY <1>7, Zenon DEF HsDecrypt, HsCreate, HsShare, cltVars, sessVars
  <2> QED  BY <1>0, <2>2, <2>4, <2>5, <2>6, Zenon DEF GateTypes
<1>8. ASSUME NEW w \in GateWorkers, HsAnswer(w) PROVE GateTypes'
  <2> DEFINE j == gateJob[w]
  <2>1. Session(j) \in Secrets /\ j.pub \in PubKeys
    BY <1>0, GateValues, Zenon DEF GateTypes, Session
  <2>2. gateKey' \in [Users -> Secrets]
    BY <1>0, <1>8, <2>1, Zenon DEF HsAnswer, GateTypes
  <2>3. toClt' \in [GateClients -> Seq(ToClt)]
    <3>1. [kind |-> "handshake", key |-> j.pub] \in ToClt
      BY <2>1, Zenon DEF ToClt
    <3> QED  BY <1>8, <1>t, <3>1, Zenon DEF HsAnswer, PostTo
  <2>4. gatePc' \in [GateWorkers -> Busy \cup {"idle"}]
    BY <1>0, <1>8, Zenon DEF HsAnswer, Step, GateTypes
  <2>5. UNCHANGED <<gateKx, cltPc, cltFin, cltKey, toGate, gateGen, helper, gateJob, gateWork, gateRefused>>
    BY <1>8, Zenon DEF HsAnswer, cltVars
  <2> QED  BY <1>0, <2>2, <2>3, <2>4, <2>5, Zenon DEF GateTypes, ToClt
<1>9. ASSUME NEW work \in gateWork, GateResponse(work) PROVE GateTypes'
  <2>1. work[1] \in Users /\ work[2] \in {"enc", "plain"}
    BY <1>0, Zenon DEF GateTypes
  <2>2. ASSUME NEW key \in {gateKey[work[1]], NoGate} PROVE [kind |-> work[2], key |-> key] \in ToClt
    <3>1. gateKey \in [Users -> Secrets] /\ NoGate \in Secrets
      BY <1>0, GateValues, Zenon DEF GateTypes
    <3>2. gateKey[work[1]] \in Secrets
      BY <2>1, <3>1, Zenon
    <3>3. key \in Secrets
      BY <3>1, <3>2, Zenon
    <3> QED  BY <2>1, <3>3, Zenon DEF ToClt
  <2>3. toClt' \in [GateClients -> Seq(ToClt)]
    <3>1. PICK key \in {gateKey[work[1]], NoGate} : PostTo(work[1], [kind |-> work[2], key |-> key])
      BY <1>9, Zenon DEF GateResponse
    <3> QED  BY <1>t, <2>2, <3>1, Zenon DEF PostTo
  <2>4. gateWork' \subseteq gateWork
    BY <1>9, Zenon DEF GateResponse
  <2>5. UNCHANGED <<gateKx, cltPc, cltFin, cltKey, toGate, gateGen, gateKey, helper, gatePc, gateJob, gateRefused>>
    BY <1>9, Zenon DEF GateResponse, cltVars, sessVars
  <2> QED  BY <1>0, <2>3, <2>4, <2>5, Zenon DEF GateTypes, ToClt
<1> QED  BY <1>1, <1>2, <1>3, <1>4, <1>5, <1>6, <1>7, <1>8, <1>9, Zenon DEF GateNext

-----------------------------------------------------------------------------
\* What SessionInv reads of a client that a step is not about.
Aside(d) ==
    /\ cltPc'[d] = "start" => cltPc[d] = "start"
    /\ cltFin'[d] = cltFin[d] /\ cltKey'[d] = cltKey[d]
    /\ toGate'[d] = toGate[d] /\ toClt'[d] = toClt[d]
    /\ gateKx'[d] = gateKx[d] /\ gateGen'[d] = gateGen[d]
    /\ \A g \in 1..(1 + GateBreaks) : gateKey'[<<d, g>>] = gateKey[<<d, g>>]
    /\ Working(d)' => Working(d)
    /\ \A work \in gateWork' : work[1][1] = d => work \in gateWork

\* A step that is not about a client keeps its session.
LEMMA SessionFrame ==
    ASSUME NEW d \in GateClients, SessionInv(d), Aside(d), GateBreaks \in Nat
    PROVE  SessionInv(d)'
<1>1. /\ Fresh(d) => Fresh(d)'
      /\ \A k : KeysOf(d, k) => KeysOf(d, k)'
  <2>1. 1 \in 1..(1 + GateBreaks)
    OBVIOUS
  <2> QED  BY <2>1, Zenon DEF Aside, Fresh, KeysOf
<1>2. \A m : Answered(d, m) => Answered(d, m)'
  BY <1>1, Zenon DEF Answered, Aside
<1>3. Aside(d)
  BY Zenon
<1> QED  BY <1>1, <1>2, <1>3, Zenon DEF SessionInv, Aside

\* No client gets a worker by a step of the others.
LEMMA WorkingFrame ==
    ASSUME NEW d \in GateClients, NEW w \in GateWorkers,
           \A v \in GateWorkers : v # w => gatePc'[v] = gatePc[v] /\ gateJob'[v] = gateJob[v],
           gatePc[w] \in Busy, gateJob'[w].user = gateJob[w].user
    PROVE  Working(d)' => Working(d)
BY Zenon DEF Working

\* CltHandshake, CltSaveTemp, CltSend.
LEMMA ClientSends ==
    ASSUME GateInv, NEW c \in GateClients, CltHandshake(c) \/ CltSaveTemp(c) \/ CltSend(c),
           NEW d \in GateClients
    PROVE  SessionInv(d)'
<1>0. /\ GateTypes /\ SessionInv(c) /\ SessionInv(d) /\ GateBreaks \in Nat
  BY GateBoundsAssumption, Zenon DEF GateInv
<1>1. /\ UNCHANGED <<gateKx, cltFin, cltKey, toClt, gateGen, gateKey, gatePc, gateJob, gateWork>>
      /\ \A e \in GateClients : e # c => cltPc'[e] = cltPc[e] /\ toGate'[e] = toGate[e]
      /\ cltPc'[c] = "start" => cltPc[c] = "start"
      /\ \A e \in GateClients : Working(e)' = Working(e)
  <2>1. UNCHANGED <<gateKx, cltFin, cltKey, toClt, gateGen, gateKey, gatePc, gateJob, gateWork>>
    BY Zenon DEF CltHandshake, CltSaveTemp, CltSend, sessVars
  <2>2. \A e \in GateClients : e # c => cltPc'[e] = cltPc[e] /\ toGate'[e] = toGate[e]
    BY <1>0, Zenon DEF CltHandshake, CltSaveTemp, CltSend, GateTypes
  <2>3. cltPc'[c] = "start" => cltPc[c] = "start"
    BY <1>0, Zenon DEF CltHandshake, CltSaveTemp, CltSend, GateTypes
  <2> QED  BY <2>1, <2>2, <2>3, Zenon DEF Working
<1>2. CASE d # c \/ toGate'[c] = toGate[c]
  <2>1. Aside(d)
    BY <1>1, <1>2, Zenon DEF Aside
  <2> QED  BY <1>0, <2>1, SessionFrame, Zenon
<1>3. ASSUME d = c, cltPc[c] = "start", cltPc' = [cltPc EXCEPT ![c] = "posted"],
             toGate' = [toGate EXCEPT ![c] = Append(@, Hs)]
      PROVE  SessionInv(d)'
  <2>1. toGate[c] = <<>> /\ ~Working(c) /\ Fresh(c) /\ cltFin[c] = "no"
    BY <1>0, <1>3, Zenon DEF SessionInv, Fresh
  <2>2. toGate'[c] = <<Hs>> /\ cltPc'[c] = "posted"
    BY <1>0, <1>3, <2>1, OneMsg, Zenon DEF GateTypes
  <2>3. Fresh(c)' /\ ~Working(c)'
    BY <1>1, <2>1, Zenon DEF Fresh
  <2>4. GotOk(toClt[c], cltFin[c], cltKey[c])' /\ \A work \in gateWork' : work[1][1] # c
    BY <2>3, OneMsg, Zenon DEF Fresh, GotOk
  <2>5. cltFin'[c] = "no"
    BY <1>1, <2>1, Zenon
  <2> QED  BY <1>3, <2>2, <2>3, <2>4, <2>5, Zenon DEF SessionInv
<1>4. ASSUME d = c, CltSend(c) PROVE SessionInv(d)'
  <2> DEFINE m == [kind |-> IF cltFin[c] = "success" THEN "enc" ELSE "plain", key |-> cltKey[c]]
             s == toGate[c]
  <2>1. /\ cltPc[c] = "waiting" /\ cltFin[c] # "no" /\ UNCHANGED cltPc /\ toGate'[c] = Append(s, m)
    BY <1>0, <1>4, Zenon DEF CltSend, GateTypes
  <2>2. ~Fresh(c) /\ ~Working(c) /\ s # <<Hs>> /\ SentOk(s, cltFin[c], cltKey[c])
    BY <1>0, <2>1, Zenon DEF SessionInv, Fresh
  <2>3. s \in Seq([kind : {"handshake", "enc", "plain"}, key : Secrets])
        /\ m \in [kind : {"handshake", "enc", "plain"}, key : Secrets]
    BY <1>0, Zenon DEF GateTypes
  <2>4. Msgs(toGate'[c]) = Msgs(s) \cup {m}
    <3> DEFINE All == [kind : {"handshake", "enc", "plain"}, key : Secrets]
    <3>1. s \in Seq(All) /\ m \in All
      BY <2>3, Zenon
    <3> HIDE DEF s, m, All
    <3>2. Msgs(Append(s, m)) = Msgs(s) \cup {m}
      BY <3>1, MsgsOf, Zenon
    <3> QED  BY <2>1, <3>2, Zenon
  <2>5. SentOk(toGate'[c], cltFin[c], cltKey[c])
    BY <2>1, <2>2, <2>4 DEF SentOk
  <2>6. toGate'[c] # <<Hs>>
    <3>1. m \in Msgs(toGate'[c]) /\ m.kind # "handshake"
      BY <2>4, Zenon
    <3>2. Msgs(<<Hs>>) = {Hs} /\ Hs.kind = "handshake"
      BY OneMsg, GateValues, Zenon
    <3> QED  BY <3>1, <3>2, Zenon
  <2>7. /\ \A k : KeysOf(c, k)' = KeysOf(c, k)
        /\ (SentOk(toGate[c], cltFin[c], cltKey[c]))' /\ ~Working(c)'
    BY <1>1, <2>2, <2>5, Zenon DEF KeysOf, SentOk
  <2>8. GotOk(toClt[c], cltFin[c], cltKey[c])' /\ cltKey'[c] = cltKey[c]
    BY <1>0, <1>1, <2>1, Zenon DEF SessionInv, Answered, GotOk
  <2> QED  BY <1>0, <1>1, <1>4, <2>1, <2>6, <2>7, <2>8, Zenon DEF SessionInv
<1> QED  BY <1>2, <1>3, <1>4, Zenon DEF CltHandshake, CltSaveTemp, Hs

\* The client takes an answer: to its handshake, or to a request.
LEMMA ClientGets ==
    ASSUME GateInv, NEW c \in GateClients, CltResponse(c), NEW d \in GateClients
    PROVE  SessionInv(d)'
<1> DEFINE m == Head(toClt[c])
<1>0. /\ GateTypes /\ SessionInv(c) /\ SessionInv(d) /\ GateBreaks \in Nat
      /\ toClt[c] \in Seq([kind : {"handshake", "enc", "plain"}, key : Secrets \cup PubKeys])
      /\ toClt[c] # <<>>
  BY GateBoundsAssumption, Zenon DEF GateInv, GateTypes, CltResponse
<1>1. /\ UNCHANGED <<gateKx, toGate, gateGen, gateKey, gatePc, gateJob, gateWork>>
      /\ \A e \in GateClients : Working(e)' = Working(e)
      /\ \A e \in GateClients : \A k : KeysOf(e, k)' = KeysOf(e, k)
  <2>1. UNCHANGED <<gateKx, toGate, gateGen, gateKey, gatePc, gateJob, gateWork>>
    BY Zenon DEF CltResponse, sessVars
  <2> QED  BY <2>1, Zenon DEF Working, KeysOf
<1>2. /\ toClt'[c] = Tail(toClt[c])
      /\ \A e \in GateClients : e # c => /\ cltPc'[e] = cltPc[e] /\ cltFin'[e] = cltFin[e]
                                         /\ cltKey'[e] = cltKey[e] /\ toClt'[e] = toClt[e]
      /\ cltPc'[c] \in {cltPc[c], "dead"}
  <2>1. /\ toClt'[c] = Tail(toClt[c])
        /\ \A e \in GateClients : e # c => toClt'[e] = toClt[e]
    BY <1>0, Zenon DEF CltResponse, GateTypes
  <2>2. \A e \in GateClients : e # c => cltPc'[e] = cltPc[e] /\ cltFin'[e] = cltFin[e] /\ cltKey'[e] = cltKey[e]
    BY <1>0, Zenon DEF CltResponse, GateTypes
  <2>3. cltPc'[c] \in {cltPc[c], "dead"}
    BY <1>0, Zenon DEF CltResponse, GateTypes
  <2> QED  BY <2>1, <2>2, <2>3, Zenon
<1>3. CASE d # c
  <2>1. Aside(d)
    BY <1>1, <1>2, <1>3, Zenon DEF Aside
  <2> QED  BY <1>0, <2>1, SessionFrame, Zenon
<1>4. ~Fresh(c) /\ cltPc[c] # "start" /\ cltPc'[c] # "start" /\ toGate[c] # <<Hs>> /\ ~Working(c)
  <2>1. ~Fresh(c)
    BY <1>0, Zenon DEF Fresh
  <2> QED  BY <1>0, <1>2, <2>1, Zenon DEF SessionInv
<1>5. SentOk(toGate[c], cltFin[c], cltKey[c])
  BY <1>0, <1>4, Zenon DEF SessionInv
<1>6. ASSUME d = c, m.kind = "handshake" PROVE SessionInv(d)'
  <2>1. Answered(c, m) /\ m.key \in PubKeys /\ toClt'[c] = <<>>
    BY <1>0, <1>2, <1>6, NextAnswer, Zenon
  <2>2. cltFin[c] = "no" /\ \A work \in gateWork : work[1][1] # c
    BY <2>1, Zenon DEF Answered
  <2>3. Msgs(toGate[c]) = {} /\ Msgs(toClt'[c]) = {}
    <3>1. Msgs(toGate[c]) = {}
      BY <1>5, <2>2, Zenon DEF SentOk
    <3>2. Msgs(<<>>) = {}
      BY OneMsg, Zenon
    <3> QED  BY <2>1, <3>1, <3>2, Zenon
  <2>4. /\ SentOk(toGate[c], cltFin[c], cltKey[c])' /\ GotOk(toClt[c], cltFin[c], cltKey[c])'
    <3>1. Msgs(toGate'[c]) = {}
      BY <1>1, <2>3, Zenon
    <3> QED  BY <2>3, <3>1, Zenon DEF SentOk, GotOk
  <2>5. /\ cltFin'[c] = "success" => KeysOf(c, cltKey'[c]) /\ cltKey'[c] # NoGate
        /\ cltFin'[c] = "fail" => KeysOf(c, NoGate)
    <3>1. CASE m.key = NoGate
      <4>1. cltFin'[c] = "fail"
        BY <1>0, <1>6, <3>1, Zenon DEF CltResponse, GateTypes
      <4>2. KeysOf(c, NoGate)
        BY <2>1, <3>1, GateValues, Zenon DEF Answered
      <4> QED  BY <4>1, <4>2, Zenon
    <3>2. CASE m.key # NoGate
      <4>1. \/ cltFin'[c] = cltFin[c]
            \/ cltFin'[c] = "success" /\ cltKey'[c] = Derive(c, m.key)
        BY <1>0, <1>6, <3>2, Zenon DEF CltResponse, GateTypes
      <4>2. m.key \in Users /\ KeysOf(c, Derive(c, m.key)) /\ Derive(c, m.key) # NoGate
        BY <2>1, <3>2, GateValues DEF Answered
      <4> QED  BY <2>2, <4>1, <4>2, Zenon
    <3> QED  BY <3>1, <3>2, Zenon
  <2>6. /\ cltFin'[c] = "success" => KeysOf(c, cltKey[c])' /\ cltKey'[c] # NoGate
        /\ cltFin'[c] = "fail" => KeysOf(c, NoGate)'
    BY <1>1, <2>5, Zenon DEF KeysOf
  <2> QED  BY <1>1, <1>4, <1>6, <2>2, <2>4, <2>6, Zenon DEF SessionInv
<1>7. ASSUME d = c, m.kind # "handshake" PROVE SessionInv(d)'
  <2>1. GotOk(toClt[c], cltFin[c], cltKey[c]) /\ UNCHANGED <<cltPc, cltFin, cltKey>>
    <3>1. GotOk(toClt[c], cltFin[c], cltKey[c])
      BY <1>0, <1>7, NextAnswer, Zenon
    <3> QED  BY <1>7, <3>1, Zenon DEF CltResponse
  <2>2. Msgs(toClt'[c]) \subseteq Msgs(toClt[c])
    BY <1>0, <1>2, MsgsOf, Zenon
  <2>3. GotOk(toClt[c], cltFin[c], cltKey[c])' /\ SentOk(toGate[c], cltFin[c], cltKey[c])'
    BY <1>1, <1>5, <2>1, <2>2, Zenon DEF GotOk, SentOk
  <2>4. KeysOf(c, cltKey[c])' = KeysOf(c, cltKey[c]) /\ KeysOf(c, NoGate)' = KeysOf(c, NoGate)
    BY <1>1, <2>1, Zenon DEF KeysOf
  <2> QED  BY <1>0, <1>1, <1>4, <1>7, <2>1, <2>3, <2>4, Zenon DEF SessionInv
<1> QED  BY <1>3, <1>6, <1>7, Zenon

\* A client on a new connection is a new user of the gate.
LEMMA ClientReconnects ==
    ASSUME GateInv, NEW c \in GateClients, Reconnect(c), NEW d \in GateClients
    PROVE  SessionInv(d)'
<1> DEFINE All == [kind : {"handshake", "enc", "plain"}, key : Secrets]
<1>0. /\ GateTypes /\ SessionInv(c) /\ SessionInv(d) /\ GateBreaks \in Nat
      /\ toGate[c] \in Seq(All)
  BY GateBoundsAssumption, Zenon DEF GateInv, GateTypes
<1>1. /\ UNCHANGED <<gateKx, cltPc, cltFin, cltKey, gateKey, gatePc, gateJob, gateWork>>
      /\ \A e \in GateClients : Working(e)' = Working(e)
  <2>1. UNCHANGED <<gateKx, cltPc, cltFin, cltKey, gateKey, gatePc, gateJob, gateWork>>
    BY Zenon DEF Reconnect, cltVars
  <2> QED  BY <2>1, Zenon DEF Working
<1>2. /\ toClt'[c] = <<>> /\ gateGen'[c] # 1
      /\ \A e \in GateClients : e # c => /\ toGate'[e] = toGate[e] /\ toClt'[e] = toClt[e]
                                         /\ gateGen'[e] = gateGen[e]
  BY <1>0 DEF Reconnect, GateTypes
<1>3. CASE d # c
  <2>1. Aside(d)
    BY <1>1, <1>2, <1>3, Zenon DEF Aside
  <2> QED  BY <1>0, <2>1, SessionFrame, Zenon
<1>4. CASE d = c
  <2>1. PICK n \in 0..Len(toGate[c]) : toGate'[c] = SubSeq(toGate[c], n + 1, Len(toGate[c]))
    BY <1>0, Zenon DEF Reconnect, GateTypes
  <2>2. Msgs(toGate'[c]) \subseteq Msgs(toGate[c])
    BY <1>0, <2>1, MsgsOf, Zenon
  <2>3. GotOk(toClt[c], cltFin[c], cltKey[c])'
    BY <1>2, OneMsg, Zenon DEF GotOk
  <2>4. Fresh(c) => Fresh(c)'
    BY <1>1, <1>2, Zenon DEF Fresh
  <2>5. \A k : KeysOf(c, k) => KeysOf(c, k)'
    BY <1>1, <1>2, Zenon DEF KeysOf
  <2>6. CASE toGate[c] = <<Hs>>
    <3>1. toGate'[c] = <<Hs>> \/ toGate'[c] = <<>>
      BY <2>1, <2>6, OneMsg
    <3>2. toGate'[c] = <<>> => SentOk(toGate[c], cltFin[c], cltKey[c])'
      BY OneMsg, Zenon DEF SentOk
    <3>3. Fresh(c) /\ ~Working(c) /\ cltPc[c] # "start" /\ cltFin[c] = "no" /\ <<Hs>> # <<>>
      BY <1>0, <2>6, OneMsg, Zenon DEF SessionInv, Fresh
    <3> QED  BY <1>0, <1>1, <1>4, <2>3, <2>4, <3>1, <3>2, <3>3, Zenon DEF SessionInv
  <2>7. CASE toGate[c] # <<Hs>>
    <3>1. SentOk(toGate[c], cltFin[c], cltKey[c])
      BY <1>0, <2>7, Zenon DEF SessionInv
    <3>2. SentOk(toGate[c], cltFin[c], cltKey[c])'
      BY <1>1, <2>2, <3>1, Zenon DEF SentOk
    <3>3. toGate'[c] # <<Hs>>
      <4>1. Msgs(<<Hs>>) = {Hs} /\ Hs.kind = "handshake"
        BY OneMsg, GateValues, Zenon
      <4> QED  BY <2>2, <3>1, <4>1, Zenon DEF SentOk
    <3>4. cltPc[c] = "start" => toGate'[c] = <<>>
      <4>1. cltPc[c] = "start" => toGate[c] = <<>>
        BY <1>0, Zenon DEF SessionInv
      <4>2. ASSUME toGate[c] = <<>> PROVE toGate'[c] = <<>>
        BY <2>1, <4>2
      <4> QED  BY <4>1, <4>2, Zenon
    <3> QED  BY <1>0, <1>1, <1>4, <2>3, <2>4, <2>5, <3>2, <3>3, <3>4, Zenon DEF SessionInv
  <2> QED  BY <2>6, <2>7, Zenon
<1> QED  BY <1>3, <1>4, Zenon

\* The message a GateUser gets next.
LEMMA NextRequest ==
    ASSUME GateTypes, NEW c \in GateClients, SessionInv(c), toGate[c] # <<>>
    PROVE  LET m == Head(toGate[c]) IN
           /\ cltPc[c] # "start" /\ ~Working(c)
           /\ IF m.kind = "handshake"
              THEN Fresh(c) /\ Tail(toGate[c]) = <<>>
              ELSE /\ toGate[c] # <<Hs>> /\ SentOk(toGate[c], cltFin[c], cltKey[c])
                   /\ cltFin[c] # "no" /\ (m.kind = "enc" => cltFin[c] = "success" /\ m.key = cltKey[c])
<1> DEFINE m == Head(toGate[c])
<1>1. m \in Msgs(toGate[c])
  <2>1. toGate[c] \in Seq([kind : {"handshake", "enc", "plain"}, key : Secrets])
    BY Zenon DEF GateTypes
  <2> QED  BY <2>1, MsgsOf, Zenon
<1>2. CASE toGate[c] = <<Hs>>
  <2>1. m = Hs /\ m.kind = "handshake" /\ Tail(toGate[c]) = <<>>
    BY <1>2, OneMsg, GateValues
  <2> QED  BY <1>2, <2>1, Zenon DEF SessionInv
<1>3. CASE toGate[c] # <<Hs>>
  <2>1. SentOk(toGate[c], cltFin[c], cltKey[c]) /\ cltPc[c] # "start"
    BY <1>3, Zenon DEF SessionInv
  <2>2. /\ cltFin[c] # "no" /\ m.kind # "handshake"
        /\ m.kind = "enc" => cltFin[c] = "success" /\ m.key = cltKey[c]
    BY <1>1, <2>1, Zenon DEF SentOk
  <2>3. ~Working(c)
    BY <2>2, Zenon DEF SessionInv, Fresh
  <2> QED  BY <1>3, <2>1, <2>2, <2>3, Zenon
<1> QED  BY <1>2, <1>3, Zenon

\* The gate takes a message: a handshake, or a request of a session.
LEMMA GateGets ==
    ASSUME GateInv, NEW w \in GateWorkers, NEW c \in GateClients, GateRequest(w, c), NEW d \in GateClients
    PROVE  SessionInv(d)'
<1> DEFINE m == Head(toGate[c])
           u == <<c, gateGen[c]>>
<1>0. /\ GateTypes /\ SessionInv(c) /\ SessionInv(d) /\ GateBreaks \in Nat
      /\ toGate[c] \in Seq([kind : {"handshake", "enc", "plain"}, key : Secrets])
      /\ toGate[c] # <<>> /\ gatePc[w] = "idle"
  BY GateBoundsAssumption, Zenon DEF GateInv, GateTypes, GateRequest
<1>1. /\ UNCHANGED <<gateKx, cltPc, cltFin, cltKey, toClt, gateGen, gateKey>>
      /\ toGate'[c] = Tail(toGate[c]) /\ \A e \in GateClients : e # c => toGate'[e] = toGate[e]
      /\ \A e \in GateClients : \A k : KeysOf(e, k)' = KeysOf(e, k)
  <2>1. UNCHANGED <<gateKx, cltPc, cltFin, cltKey, toClt, gateGen, gateKey>>
    BY Zenon DEF GateRequest, cltVars, sessVars
  <2>2. toGate'[c] = Tail(toGate[c]) /\ \A e \in GateClients : e # c => toGate'[e] = toGate[e]
    BY <1>0, Zenon DEF GateRequest, GateTypes
  <2> QED  BY <2>1, <2>2, Zenon DEF KeysOf
<1>2. u[1] = c
  BY Zenon
<1>3. /\ \A v \in GateWorkers : v # w => gatePc'[v] = gatePc[v] /\ gateJob'[v] = gateJob[v]
      /\ \/ UNCHANGED <<gatePc, gateJob>>
         \/ m.kind = "handshake" /\ gateJob'[w].user = u /\ gateWork' = gateWork
      /\ m.kind = "handshake" => gateWork' = gateWork
      /\ \A work \in gateWork' :
            work \in gateWork \/ (work[1] = u /\ work[2] = m.kind /\ m.kind \in {"enc", "plain"})
  <2>1. \/ /\ m.kind = "handshake" /\ gatePc' = [gatePc EXCEPT ![w] = "lock"] /\ gateWork' = gateWork
           /\ gateJob' = [gateJob EXCEPT ![w] = [user |-> u, kx |-> gateKx[c], pub |-> NoGate, share |-> NoGate]]
        \/ m.kind = "enc" /\ gateWork' = gateWork \cup {<<u, "enc">>} /\ UNCHANGED <<gatePc, gateJob>>
        \/ m.kind = "enc" /\ gateWork' = gateWork /\ UNCHANGED <<gatePc, gateJob>>
        \/ m.kind = "plain" /\ gateWork' = gateWork \cup {<<u, "plain">>} /\ UNCHANGED <<gatePc, gateJob>>
    BY Zenon DEF GateRequest, Step
  <2>2. gatePc \in [GateWorkers -> Busy \cup {"idle"}] /\ DOMAIN gateJob = GateWorkers
    BY <1>0, Zenon DEF GateTypes
  <2> HIDE DEF m, u
  <2> QED  BY <2>1, <2>2
<1>4. \A e \in GateClients : e # c => (Working(e)' => Working(e))
  BY <1>0, <1>2, <1>3, Zenon DEF Working
<1>5. CASE d # c
  <2>1. Aside(d)
    BY <1>1, <1>2, <1>3, <1>4, <1>5, Zenon DEF Aside
  <2> QED  BY <1>0, <2>1, SessionFrame, Zenon
<1>6. cltPc[c] # "start" /\ ~Working(c)
  BY <1>0, NextRequest, Zenon
<1>7. ASSUME d = c, m.kind = "handshake" PROVE SessionInv(d)'
  <2>1. Fresh(c) /\ toGate'[c] = <<>>
    BY <1>0, <1>1, <1>7, NextRequest, Zenon
  <2>2. Fresh(c)'
    BY <1>1, <1>3, <1>7, <2>1, Zenon DEF Fresh
  <2>3. Msgs(<<>>) = {} /\ <<>> # <<Hs>>
    BY OneMsg, Zenon
  <2>4. SentOk(toGate[c], cltFin[c], cltKey[c])' /\ GotOk(toClt[c], cltFin[c], cltKey[c])'
    <3>1. toClt'[c] = <<>>
      BY <2>2, Zenon DEF Fresh
    <3> QED  BY <2>1, <2>3, <3>1, Zenon DEF SentOk, GotOk
  <2>5. cltFin'[c] = "no" /\ \A work \in gateWork' : work[1][1] # c
    BY <2>2, Zenon DEF Fresh
  <2>6. cltPc'[c] # "start" /\ toGate'[c] # <<Hs>>
    BY <1>1, <1>6, <2>1, <2>3, Zenon
  <2> QED  BY <1>7, <2>2, <2>4, <2>5, <2>6, Zenon DEF SessionInv
<1>8. ASSUME d = c, m.kind # "handshake" PROVE SessionInv(d)'
  <2>1. /\ toGate[c] # <<Hs>> /\ SentOk(toGate[c], cltFin[c], cltKey[c])
        /\ cltFin[c] # "no" /\ (m.kind = "enc" => cltFin[c] = "success")
    BY <1>0, <1>8, NextRequest, Zenon
  <2>2. Msgs(toGate'[c]) \subseteq Msgs(toGate[c])
    BY <1>0, <1>1, MsgsOf, Zenon
  <2>3. SentOk(toGate[c], cltFin[c], cltKey[c])' /\ toGate'[c] # <<Hs>>
    <3>1. Msgs(<<Hs>>) = {Hs} /\ Hs.kind = "handshake"
      BY OneMsg, GateValues, Zenon
    <3> QED  BY <1>1, <2>1, <2>2, <3>1, Zenon DEF SentOk
  <2>4. ~Working(c)' /\ cltPc'[c] # "start"
    BY <1>1, <1>3, <1>6, <1>8, Zenon DEF Working
  <2>5. GotOk(toClt[c], cltFin[c], cltKey[c])'
    BY <1>0, <1>1, <2>1, Zenon DEF SessionInv, Answered, GotOk
  <2>6. \A work \in gateWork' : work[1][1] = c =>
           cltFin[c] # "no" /\ (work[2] = "enc" => cltFin[c] = "success")
    <3>1. \A work \in gateWork : work[1][1] = c =>
             cltFin[c] # "no" /\ (work[2] = "enc" => cltFin[c] = "success")
      BY <1>0, Zenon DEF SessionInv
    <3> QED  BY <1>3, <2>1, <3>1, Zenon
  <2>7. /\ cltFin[c] = "success" => KeysOf(c, cltKey[c])' /\ cltKey[c] # NoGate
        /\ cltFin[c] = "fail" => KeysOf(c, NoGate)'
    BY <1>0, <1>1, Zenon DEF SessionInv, KeysOf
  <2> QED  BY <1>1, <1>8, <2>3, <2>4, <2>5, <2>6, <2>7, Zenon DEF SessionInv
<1> QED  BY <1>5, <1>7, <1>8, Zenon

\* The steps of onHandshake() before its answer.
LEMMA HandshakeSteps ==
    ASSUME GateInv, NEW w \in GateWorkers, HsDecrypt(w) \/ HsCreate(w) \/ HsShare(w), NEW d \in GateClients
    PROVE  SessionInv(d)'
<1>0. GateTypes /\ SessionInv(d) /\ GateBreaks \in Nat
  BY GateBoundsAssumption, Zenon DEF GateInv
<1>1. UNCHANGED <<gateKx, cltPc, cltFin, cltKey, toGate, toClt, gateGen, gateKey, gateWork>>
  BY Zenon DEF HsDecrypt, HsCreate, HsShare, cltVars, sessVars
<1>2. gatePc[w] \in Busy
  BY Zenon DEF HsDecrypt, HsCreate, HsShare, Busy
<1>3. \A v \in GateWorkers : v # w => gatePc'[v] = gatePc[v] /\ gateJob'[v] = gateJob[v]
  BY <1>0, Zenon DEF HsDecrypt, HsCreate, HsShare, Step, GateTypes
<1>4. gateJob'[w].user = gateJob[w].user
  BY <1>0 DEF HsDecrypt, HsCreate, HsShare, GateTypes
<1>5. Working(d)' => Working(d)
  BY <1>2, <1>3, <1>4, WorkingFrame, Zenon
<1>6. Aside(d)
  BY <1>1, <1>5, Zenon DEF Aside
<1> QED  BY <1>0, <1>6, SessionFrame, Zenon

\* The answer to a handshake: both sides have the one key, or none.
LEMMA HandshakeAnswer ==
    ASSUME GateInv, NEW w \in GateWorkers, HsAnswer(w), NEW d \in GateClients
    PROVE  SessionInv(d)'
<1>j. PICK j, c : j = gateJob[w] /\ c = j.user[1]
  BY Zenon
<1>m. PICK m : m = [kind |-> "handshake", key |-> j.pub]
  BY Zenon
<1>0. /\ GateTypes /\ JobInv /\ SessionInv(d) /\ GateBreaks \in Nat
      /\ gatePc[w] = "answer" /\ gatePc[w] \in Busy
  BY GateBoundsAssumption, Zenon DEF GateInv, HsAnswer, Busy
<1>1. /\ j.user \in Users /\ c \in GateClients /\ j.user = <<c, j.user[2]>> /\ j.kx = gateKx[c]
      /\ j.user[2] \in 1..(1 + GateBreaks)
      /\ j.pub \in PubKeys
      /\ \/ j.pub = NoGate /\ j.share = NoGate
         \/ j.pub = j.user /\ j.share = Derive(c, j.user)
  <2>1. j.user \in Users /\ j.kx = gateKx[c] /\ j.pub \in PubKeys
    BY <1>0, <1>j, Zenon DEF JobInv, GateTypes
  <2>2. \/ j.pub = NoGate /\ j.share = NoGate
        \/ j.pub = j.user /\ j.share = Derive(c, j.user)
    BY <1>0, <1>j, Zenon DEF JobInv
  <2> QED  BY <1>j, <2>1, <2>2, GateValues, Zenon
<1>2. /\ UNCHANGED <<gateKx, cltPc, cltFin, cltKey, toGate, gateGen, gateJob, gateWork>>
      /\ gatePc'[w] = "idle" /\ \A v \in GateWorkers : v # w => gatePc'[v] = gatePc[v]
      /\ gateKey' = [gateKey EXCEPT ![j.user] = Session(j)]
      /\ toClt' = IF j.user[2] = gateGen[c] THEN [toClt EXCEPT ![c] = Append(@, m)] ELSE toClt
  BY <1>0, <1>j, <1>m, Zenon DEF HsAnswer, Step, PostTo, cltVars, GateTypes
<1>3. \A e \in GateClients, g \in 1..(1 + GateBreaks) :
         gateKey'[<<e, g>>] = IF <<e, g>> = j.user THEN Session(j) ELSE gateKey[<<e, g>>]
  <2>1. gateKey \in [Users -> Secrets] /\ \A e \in GateClients, g \in 1..(1 + GateBreaks) : <<e, g>> \in Users
    BY <1>0, GateValues, Zenon DEF GateTypes
  <2> QED  BY <1>2, <2>1, Zenon
<1>4. Working(d)' => Working(d)
  BY <1>0, <1>2, WorkingFrame, Zenon
<1>5. CASE d # c
  <2>1. toClt'[d] = toClt[d]
    BY <1>0, <1>1, <1>2, <1>5, Zenon DEF GateTypes
  <2>2. \A g \in 1..(1 + GateBreaks) : <<d, g>> # j.user
    BY <1>1, <1>5
  <2>3. Aside(d)
    BY <1>2, <1>3, <1>4, <2>1, <2>2, Zenon DEF Aside
  <2> QED  BY <1>0, <2>3, SessionFrame, Zenon
<1>6. CASE d = c
  <2>1. Working(c) /\ ~Working(c)'
    <3>1. Working(c)
      BY <1>0, <1>j, Zenon DEF Working
    <3>2. ASSUME NEW v \in GateWorkers, gatePc'[v] \in Busy PROVE gateJob'[v].user[1] # c
      BY <1>0, <1>2, <1>j, <3>2, Zenon DEF JobInv, Busy
    <3> QED  BY <3>1, <3>2, Zenon DEF Working
  <2>2. Fresh(c) /\ cltPc[c] # "start" /\ toGate[c] # <<Hs>> /\ SentOk(toGate[c], cltFin[c], cltKey[c])
    BY <1>0, <1>6, <2>1, Zenon DEF SessionInv
  <2>3. /\ cltFin'[c] = "no" /\ cltPc'[c] # "start" /\ toGate'[c] # <<Hs>>
        /\ SentOk(toGate[c], cltFin[c], cltKey[c])'
        /\ \A work \in gateWork' : work[1][1] # c
        /\ toClt[c] = <<>> /\ \A g \in 1..(1 + GateBreaks) : gateKey[<<c, g>>] = NoGate
    BY <1>2, <2>2, Zenon DEF Fresh, SentOk
  <2>4. CASE j.user[2] # gateGen[c]
    <3>1. Msgs(toClt'[c]) = {}
      BY <1>2, <2>3, <2>4, OneMsg, Zenon
    <3>2. GotOk(toClt[c], cltFin[c], cltKey[c])'
      BY <3>1, Zenon DEF GotOk
    <3> QED  BY <1>6, <2>1, <2>3, <3>2, Zenon DEF SessionInv
  <2>5. CASE j.user[2] = gateGen[c]
    <3>1. toClt'[c] = <<m>>
      <4>1. toClt'[c] = Append(toClt[c], m)
        BY <1>0, <1>1, <1>2, <2>5, Zenon DEF GateTypes
      <4>2. Append(<<>>, m) = <<m>>
        BY OneMsg, Zenon
      <4> QED  BY <2>3, <4>1, <4>2, Zenon
    <3>2. m \in [kind : {"handshake"}, key : PubKeys] /\ m.kind = "handshake" /\ m.key = j.pub
      BY <1>1, <1>m, Zenon
    <3>3. CASE j.pub = NoGate /\ j.share = NoGate
      <4>1. Session(j) = NoGate
        BY <3>3, Zenon DEF Session
      <4>2. KeysOf(c, NoGate)'
        <5>1. 1 \in 1..(1 + GateBreaks)
          BY <1>0
        <5> QED  BY <1>1, <1>3, <2>3, <4>1, <5>1, Zenon DEF KeysOf
      <4>3. Answered(c, m)'
        BY <2>3, <3>2, <3>3, <4>2, Zenon DEF Answered
      <4> QED  BY <1>6, <2>1, <2>3, <3>1, <3>2, <4>3, Zenon DEF SessionInv
    <3>4. CASE j.pub = j.user /\ j.share = Derive(c, j.user)
      <4>1. /\ Session(j) \in {NoGate, Derive(c, m.key)}
            /\ gateKx[c] # "short" => Session(j) = Derive(c, m.key)
        BY <1>1, <3>2, <3>4, Zenon DEF Session
      <4>2. /\ \A g \in 1..(1 + GateBreaks) : gateKey'[<<c, g>>] \in {NoGate, Derive(c, m.key)}
            /\ gateGen[c] = 1 /\ gateKx[c] # "short" => gateKey'[<<c, 1>>] = Derive(c, m.key)
        <5>1. gateGen[c] = 1 => <<c, 1>> = j.user
          BY <1>1, <2>5, Zenon
        <5>2. 1 \in 1..(1 + GateBreaks)
          BY <1>0
        <5> QED  BY <1>1, <1>3, <2>3, <4>1, <5>1, <5>2, Zenon
      <4>3. KeysOf(c, Derive(c, m.key))'
        BY <1>2, <4>2, Zenon DEF KeysOf
      <4>4. Answered(c, m)'
        BY <1>1, <2>3, <3>2, <3>4, <4>3, Zenon DEF Answered
      <4> QED  BY <1>6, <2>1, <2>3, <3>1, <3>2, <4>4, Zenon DEF SessionInv
    <3> QED  BY <1>1, <3>3, <3>4, Zenon
  <2> QED  BY <2>4, <2>5, Zenon
<1> QED  BY <1>5, <1>6, Zenon

\* An answer of the upper server goes back to the user that asked.
LEMMA UpperAnswers ==
    ASSUME GateInv, NEW work \in gateWork, GateResponse(work), NEW d \in GateClients
    PROVE  SessionInv(d)'
<1>k. PICK key \in {gateKey[work[1]], NoGate} : PostTo(work[1], [kind |-> work[2], key |-> key])
  BY Zenon DEF GateResponse
<1>c. PICK c, m : c = work[1][1] /\ m = [kind |-> work[2], key |-> key]
  BY Zenon
<1>0. /\ GateTypes /\ SessionInv(d) /\ GateBreaks \in Nat
      /\ work[1] \in Users /\ work[2] \in {"enc", "plain"}
      /\ c \in GateClients /\ work[1][2] \in 1..(1 + GateBreaks) /\ work[1] = <<c, work[1][2]>>
  <2>1. GateTypes /\ SessionInv(d) /\ GateBreaks \in Nat
    BY GateBoundsAssumption, Zenon DEF GateInv
  <2>2. work[1] \in Users /\ work[2] \in {"enc", "plain"}
    BY <2>1, Zenon DEF GateTypes
  <2> QED  BY <1>c, <2>1, <2>2, GateValues, Zenon
<1>1. /\ UNCHANGED <<gateKx, cltPc, cltFin, cltKey, toGate, gateGen, gateKey, gatePc, gateJob>>
      /\ gateWork' \subseteq gateWork
      /\ toClt' = IF work[1][2] = gateGen[c] THEN [toClt EXCEPT ![c] = Append(@, m)] ELSE toClt
      /\ \A e \in GateClients : Working(e)' = Working(e)
  <2>1. /\ UNCHANGED <<gateKx, cltPc, cltFin, cltKey, toGate, gateGen, gateKey, gatePc, gateJob>>
        /\ gateWork' \subseteq gateWork
        /\ toClt' = IF work[1][2] = gateGen[c] THEN [toClt EXCEPT ![c] = Append(@, m)] ELSE toClt
    BY <1>k, <1>c, Zenon DEF GateResponse, PostTo, cltVars, sessVars
  <2> QED  BY <2>1, Zenon DEF Working
<1>2. CASE d # c \/ work[1][2] # gateGen[c]
  <2>1. toClt'[d] = toClt[d]
    BY <1>0, <1>1, <1>2, Zenon DEF GateTypes
  <2>2. Aside(d)
    BY <1>1, <2>1, Zenon DEF Aside
  <2> QED  BY <1>0, <2>2, SessionFrame, Zenon
<1>3. CASE d = c /\ work[1][2] = gateGen[c]
  <2>1. cltFin[c] # "no" /\ (work[2] = "enc" => cltFin[c] = "success" /\ KeysOf(c, cltKey[c]))
    BY <1>0, <1>3, <1>c, Zenon DEF SessionInv
  <2>2. ~Fresh(c) /\ GotOk(toClt[c], cltFin[c], cltKey[c])
    BY <1>0, <1>3, <2>1, Zenon DEF SessionInv, Fresh, Answered
  <2>3. Msgs(toClt'[c]) = Msgs(toClt[c]) \cup {m}
    <3> DEFINE All == [kind : {"handshake", "enc", "plain"}, key : Secrets \cup PubKeys]
    <3>a. gateKey \in [Users -> Secrets] /\ NoGate \in Secrets
      BY <1>0, GateValues, Zenon DEF GateTypes
    <3>b. gateKey[work[1]] \in Secrets
      BY <1>0, <3>a, Zenon
    <3>0. key \in Secrets
      BY <1>k, <3>a, <3>b, Zenon
    <3>1. toClt \in [GateClients -> Seq(All)] /\ m \in All
      BY <1>0, <1>c, <3>0, Zenon DEF GateTypes
    <3> HIDE DEF All
    <3>2. toClt'[c] = Append(toClt[c], m)
      BY <1>0, <1>1, <1>3, <3>1, Zenon
    <3>3. Msgs(Append(toClt[c], m)) = Msgs(toClt[c]) \cup {m}
      BY <1>0, <3>1, MsgsOf, Zenon
    <3> QED  BY <3>2, <3>3, Zenon
  <2>4. m.kind # "handshake" /\ (m.kind = "enc" => m.key \in {NoGate, cltKey[c]})
    BY <1>0, <1>c, <2>1, Zenon DEF KeysOf
  <2>5. GotOk(toClt[c], cltFin[c], cltKey[c])'
    <3>1. m.kind = "enc" => cltFin[c] = "success"
      BY <1>c, <2>1, Zenon
    <3> QED  BY <1>1, <2>1, <2>2, <2>3, <2>4, <3>1, Zenon DEF GotOk
  <2>6. /\ \A k : KeysOf(c, k)' = KeysOf(c, k)
        /\ SentOk(toGate[c], cltFin[c], cltKey[c])' = SentOk(toGate[c], cltFin[c], cltKey[c])
    BY <1>1, Zenon DEF KeysOf, SentOk
  <2> QED  BY <1>0, <1>1, <1>3, <2>1, <2>2, <2>5, <2>6, Zenon DEF SessionInv
<1> QED  BY <1>2, <1>3, Zenon

\* Every step keeps the sessions of all clients.
LEMMA SessionStep ==
    ASSUME GateInv, [GateNext]_gateVars, NEW d \in GateClients
    PROVE  SessionInv(d)'
<1>1. CASE UNCHANGED gateVars
  <2>1. Aside(d)
    BY <1>1, Zenon DEF gateVars, cltVars, sessVars, Aside, Working
  <2> QED  BY <2>1, SessionFrame, GateBoundsAssumption, Zenon DEF GateInv
<1> QED  BY <1>1, ClientSends, ClientGets, ClientReconnects, GateGets, HandshakeSteps, HandshakeAnswer,
            UpperAnswers, Zenon DEF GateNext

\* No message meets another key than the one it was encrypted with.
LEMMA NothingGarbled ==
    ASSUME GateInv, [GateNext]_gateVars
    PROVE  ~gateGarbled'
<1>0. GateTypes /\ ~gateGarbled /\ \A c \in GateClients : SessionInv(c)
  BY Zenon DEF GateInv
<1>1. ASSUME NEW c \in GateClients, CltResponse(c) PROVE ~gateGarbled'
  <2> DEFINE m == Head(toClt[c])
  <2>1. ASSUME m.kind = "enc" PROVE m.key \in {NoGate, cltKey[c]}
    <3>1. GotOk(toClt[c], cltFin[c], cltKey[c]) /\ m \in Msgs(toClt[c])
      BY <1>0, <1>1, <2>1, NextAnswer, Zenon DEF CltResponse
    <3> QED  BY <2>1, <3>1, Zenon DEF GotOk
  <2>2. \/ gateGarbled' = gateGarbled
        \/ m.kind = "enc" /\ gateGarbled' = (gateGarbled \/ (m.key # NoGate /\ m.key # cltKey[c]))
    BY <1>1, Zenon DEF CltResponse
  <2> HIDE DEF m
  <2> QED  BY <1>0, <2>1, <2>2, Zenon
<1>2. ASSUME NEW w \in GateWorkers, NEW c \in GateClients, GateRequest(w, c) PROVE ~gateGarbled'
  <2> DEFINE m == Head(toGate[c])
             u == <<c, gateGen[c]>>
  <2>1. ASSUME m.kind = "enc", gateKey[u] # NoGate PROVE m.key = gateKey[u]
    <3>1. cltFin[c] = "success" /\ m.key = cltKey[c]
      BY <1>0, <1>2, <2>1, NextRequest, Zenon DEF GateRequest
    <3>2. gateKey[u] \in {NoGate, cltKey[c]}
      BY <1>0, <3>1, Zenon DEF SessionInv, KeysOf, GateTypes
    <3> QED  BY <2>1, <3>1, <3>2, Zenon
  <2>2. \/ gateGarbled' = gateGarbled
        \/ m.kind = "enc" /\ gateKey[u] # NoGate /\ gateGarbled' = (gateGarbled \/ m.key # gateKey[u])
    BY <1>2, Zenon DEF GateRequest
  <2> HIDE DEF m, u
  <2> QED  BY <1>0, <2>1, <2>2, Zenon
<1>3. ASSUME NEW c \in GateClients, CltHandshake(c) \/ CltSaveTemp(c) \/ CltSend(c) \/ Reconnect(c)
      PROVE  gateGarbled' = gateGarbled
  BY <1>3, Zenon DEF CltHandshake, CltSaveTemp, CltSend, Reconnect
<1>4. ASSUME NEW w \in GateWorkers, HsDecrypt(w) \/ HsCreate(w) \/ HsShare(w) \/ HsAnswer(w)
      PROVE  gateGarbled' = gateGarbled
  BY <1>4, Zenon DEF HsDecrypt, HsCreate, HsShare, HsAnswer
<1>5. ASSUME NEW work, GateResponse(work) PROVE gateGarbled' = gateGarbled
  BY <1>5, Zenon DEF GateResponse
<1>6. CASE UNCHANGED gateVars
  BY <1>0, <1>6, Zenon DEF gateVars
<1> QED  BY <1>0, <1>1, <1>2, <1>3, <1>4, <1>5, <1>6, Zenon DEF GateNext

\* A request is refused only for a reason that lasts.
LEMMA RefusalStep ==
    ASSUME GateInv, [GateNext]_gateVars
    PROVE  RefusedForCause'
<1>0. GateTypes /\ RefusedForCause /\ GateBreaks \in Nat /\ \A c \in GateClients : SessionInv(c)
  BY GateBoundsAssumption, Zenon DEF GateInv
<1>1. /\ gateKx' = gateKx
      /\ \A c \in GateClients : gateGen[c] \in Nat /\ gateGen'[c] \in Nat /\ gateGen'[c] >= gateGen[c]
  <2>1. CASE gateKx' = gateKx /\ gateGen' = gateGen
    BY <1>0, <2>1 DEF GateTypes
  <2>2. ASSUME NEW c \in GateClients, Reconnect(c)
        PROVE  /\ gateKx' = gateKx
               /\ \A e \in GateClients : gateGen[e] \in Nat /\ gateGen'[e] \in Nat /\ gateGen'[e] >= gateGen[e]
    BY <1>0, <2>2 DEF Reconnect, cltVars, GateTypes
  <2>3. ASSUME NEW c \in GateClients, CltHandshake(c) \/ CltSaveTemp(c) \/ CltSend(c) \/ CltResponse(c)
        PROVE  gateKx' = gateKx /\ gateGen' = gateGen
    BY <2>3, Zenon DEF CltHandshake, CltSaveTemp, CltSend, CltResponse, sessVars
  <2>4. ASSUME NEW w \in GateWorkers, NEW c \in GateClients, GateRequest(w, c)
        PROVE  gateKx' = gateKx /\ gateGen' = gateGen
    BY <2>4, Zenon DEF GateRequest, cltVars, sessVars
  <2>5. ASSUME NEW w \in GateWorkers, HsDecrypt(w) \/ HsCreate(w) \/ HsShare(w) \/ HsAnswer(w)
        PROVE  gateKx' = gateKx /\ gateGen' = gateGen
    BY <2>5, Zenon DEF HsDecrypt, HsCreate, HsShare, HsAnswer, cltVars, sessVars
  <2>6. ASSUME NEW work, GateResponse(work) PROVE gateKx' = gateKx /\ gateGen' = gateGen
    BY <2>6, Zenon DEF GateResponse, cltVars, sessVars
  <2>7. CASE UNCHANGED gateVars
    BY <2>1, <2>7, Zenon DEF gateVars, cltVars, sessVars
  <2> QED  BY <2>1, <2>2, <2>3, <2>4, <2>5, <2>6, <2>7, Zenon DEF GateNext
<1>2. CASE gateRefused' = gateRefused
  <2>1. ASSUME NEW c \in gateRefused PROVE gateGen'[c] > 1 \/ gateKx[c] = "short"
    <3>1. c \in GateClients /\ (gateGen[c] > 1 \/ gateKx[c] = "short")
      BY <1>0, Zenon DEF GateTypes, RefusedForCause
    <3> QED  BY <1>1, <3>1
  <2> QED  BY <1>1, <1>2, <2>1, Zenon DEF RefusedForCause
<1>3. ASSUME NEW w \in GateWorkers, NEW c \in GateClients, GateRequest(w, c) PROVE RefusedForCause'
  <2> DEFINE m == Head(toGate[c])
             u == <<c, gateGen[c]>>
  <2>1. CASE gateRefused' = gateRefused
    BY <1>2, <2>1, Zenon
  <2>2. CASE m.kind = "enc" /\ gateKey[u] = NoGate /\ gateRefused' = gateRefused \cup {c}
    <3>1. cltFin[c] = "success"
      BY <1>0, <1>3, <2>2, NextRequest, Zenon DEF GateRequest
    <3>2. KeysOf(c, cltKey[c]) /\ cltKey[c] # NoGate
      BY <1>0, <3>1, Zenon DEF SessionInv
    <3>3. gateGen[c] # 1 \/ gateKx[c] = "short"
      BY <2>2, <3>2, Zenon DEF KeysOf
    <3>4. gateGen[c] > 1 \/ gateKx[c] = "short"
      BY <1>0, <3>3 DEF GateTypes
    <3>5. gateGen' = gateGen
      BY <1>3, Zenon DEF GateRequest, sessVars
    <3> QED  BY <1>0, <1>1, <2>2, <3>4, <3>5, Zenon DEF RefusedForCause
  <2> QED  BY <1>3, <2>1, <2>2, Zenon DEF GateRequest
<1>4. ASSUME NEW c \in GateClients,
             CltHandshake(c) \/ CltSaveTemp(c) \/ CltSend(c) \/ CltResponse(c) \/ Reconnect(c)
      PROVE  gateRefused' = gateRefused
  BY <1>4, Zenon DEF CltHandshake, CltSaveTemp, CltSend, CltResponse, Reconnect
<1>5. ASSUME NEW w \in GateWorkers, HsDecrypt(w) \/ HsCreate(w) \/ HsShare(w) \/ HsAnswer(w)
      PROVE  gateRefused' = gateRefused
  BY <1>5, Zenon DEF HsDecrypt, HsCreate, HsShare, HsAnswer
<1>6. ASSUME NEW work, GateResponse(work) PROVE gateRefused' = gateRefused
  BY <1>6, Zenon DEF GateResponse
<1>7. CASE UNCHANGED gateVars
  BY <1>2, <1>7, Zenon DEF gateVars
<1> QED  BY <1>2, <1>3, <1>4, <1>5, <1>6, <1>7, Zenon DEF GateNext

-----------------------------------------------------------------------------
\* What the gate and its clients do, alone.
GateSpec == GateInit /\ [][GateNext]_gateVars

\* Before the first handshake nobody has a key.
LEMMA GateInitial == GateInit => GateInv
<1> SUFFICES ASSUME GateInit PROVE GateInv
  BY Zenon
<1>1. GateTypes
  <2>1. gateKx \in [GateClients -> {"ecdh", "dh", "short"}]
    BY GateMixesAssumption, Zenon DEF GateInit
  <2>2. /\ cltPc \in [GateClients -> {"start", "posted", "waiting", "dead"}]
        /\ cltFin \in [GateClients -> {"no", "success", "fail"}]
        /\ gateGen \in [GateClients -> 1..(1 + GateBreaks)]
        /\ gatePc \in [GateWorkers -> Busy \cup {"idle"}]
    BY GateBoundsAssumption DEF GateInit
  <2>3. /\ cltKey \in [GateClients -> Secrets] /\ gateKey \in [Users -> Secrets]
        /\ helper \in [kx : {"ecdh", "dh"}, ec : PubKeys, dh : PubKeys]
        /\ gateJob \in [GateWorkers -> [user : PubKeys, kx : {"ecdh", "dh", "short"}, pub : PubKeys, share : Secrets]]
    BY GateValues, Zenon DEF GateInit
  <2>4. /\ toGate \in [GateClients -> Seq([kind : {"handshake", "enc", "plain"}, key : Secrets])]
        /\ toClt \in [GateClients -> Seq([kind : {"handshake", "enc", "plain"}, key : Secrets \cup PubKeys])]
    BY SeqKept, Zenon DEF GateInit
  <2>5. gateWork \subseteq Users \X {"enc", "plain"} /\ gateRefused \subseteq GateClients
    BY Zenon DEF GateInit
  <2> QED  BY <2>1, <2>2, <2>3, <2>4, <2>5, Zenon DEF GateTypes
<1>2. JobInv
  BY GateValues DEF GateInit, JobInv, Busy
<1>3. ~gateGarbled /\ RefusedForCause
  BY Zenon DEF GateInit, RefusedForCause
<1>4. ASSUME NEW c \in GateClients PROVE SessionInv(c)
  <2>1. /\ cltPc[c] = "start" /\ toGate[c] = <<>> /\ toClt[c] = <<>> /\ cltFin[c] = "no" /\ gateWork = {}
    BY Zenon DEF GateInit
  <2>2. ~Working(c)
    BY Zenon DEF GateInit, Working, Busy
  <2>3. Fresh(c)
    BY <2>1, GateValues, Zenon DEF GateInit, Fresh
  <2>4. SentOk(toGate[c], cltFin[c], cltKey[c]) /\ GotOk(toClt[c], cltFin[c], cltKey[c])
    BY <2>1, OneMsg, Zenon DEF SentOk, GotOk
  <2>5. toGate[c] # <<Hs>>
    BY <2>1, OneMsg, Zenon
  <2> QED  BY <2>1, <2>2, <2>3, <2>4, <2>5, Zenon DEF SessionInv
<1> QED  BY <1>1, <1>2, <1>3, <1>4, Zenon DEF GateInv

\* The gateway's invariant: one handshake for each client, one worker in the
\* shared helper, and one key for each session.
THEOREM GateInvariance == GateSpec => []GateInv
<1>1. GateInv /\ [GateNext]_gateVars => GateInv'
  <2> SUFFICES ASSUME GateInv, [GateNext]_gateVars PROVE GateInv'
    BY Zenon
  <2>1. JobInv'
    BY JobStep, Zenon DEF GateInv
  <2>2. \A c \in GateClients : SessionInv(c)'
    BY SessionStep, Zenon
  <2>3. GateTypes' /\ ~gateGarbled' /\ RefusedForCause'
    BY GateTypesStep, NothingGarbled, RefusalStep, Zenon
  <2> QED  BY <2>1, <2>2, <2>3, Zenon DEF GateInv
<1> QED  BY <1>1, GateInitial, PTL DEF GateSpec

\* A client and its GateUser that both have a key have the same one, and every
\* message is decrypted with the key it was encrypted with.
THEOREM SessionKeysAgree == GateSpec => []GateKeysAgree
<1>1. ASSUME GateInv PROVE GateKeysAgree
  <2>1. ~gateGarbled /\ GateTypes /\ \A c \in GateClients : SessionInv(c)
    BY <1>1, Zenon DEF GateInv
  <2>2. ASSUME NEW c \in GateClients, cltFin[c] = "success", gateKey[<<c, gateGen[c]>>] # NoGate
        PROVE  cltKey[c] = gateKey[<<c, gateGen[c]>>]
    BY <2>1, <2>2, Zenon DEF SessionInv, KeysOf, GateTypes
  <2> QED  BY <2>1, <2>2, Zenon DEF GateKeysAgree
<1> QED  BY <1>1, GateInvariance, PTL

\* A request is dropped only for a client on a later connection or with a share
\* key that is too short.
THEOREM RefusalsHaveCause == GateSpec => []RefusedForCause
<1>1. GateInv => RefusedForCause
  BY Zenon DEF GateInv
<1> QED  BY <1>1, GateInvariance, PTL
=============================================================================
