-------------------------------- MODULE Gate --------------------------------
(***************************************************************************)
(* The gateway's handshake: clients (examples/lygateclt.cpp) agree on a     *)
(* session key with their GateUser (lygc/gate_server.hpp) through the one   *)
(* handshake_helper of the GateServer, which all workers share, and then    *)
(* exchange encrypted requests and responses.  A client reconnects when its *)
(* connection breaks: the server then makes a new GateUser.                 *)
(* A key is named by the handshake that made it; the secret two sides       *)
(* derive by the pair of their keys.                                        *)
(***************************************************************************)
EXTENDS Integers, Sequences, FiniteSets

CONSTANTS
    GateClients, GateWorkers, NoGate,
    GateMixes,      \* key exchanges of the clients: "ecdh", "dh", or "short": makeShareKey() has
                    \* under 32 bytes (a curve under 256 bits), or fails and has none
    GateRequests,   \* bound: requests of a client
    GateBreaks      \* bound: breaks of a client's connection

ASSUME GateMixesAssumption == GateMixes \subseteq [GateClients -> {"ecdh", "dh", "short"}]
ASSUME GateBoundsAssumption == GateBreaks \in Nat

VARIABLES
    gateKx,         \* the key exchange each client asks for
    cltPc, cltTemp, \* client: its thread; _temp_symsec set
    cltFin,         \* _hsSuccess / _hsFail: "no", "success", "fail"
    cltKey, cltSent,
    toGate, toClt,  \* messages under way, in order
    gateGen,        \* number of the connection, hence of the GateUser
    gateKey,        \* _secret/_ivec of each GateUser; NoGate while _handshakeFin is false
    helper,         \* handshake_helper: _kx_type and the keys _ecKey, _dh
    gateLock,       \* _lockHandshake
    gatePc, gateJob,\* workers: step; what they work on
    gateWork,       \* requests with the upper layer
    gateRefused,    \* clients that had a request rejected as before the handshake
    gateGarbled     \* a message was decrypted with a key it was not encrypted with

cltVars == <<gateKx, cltPc, cltTemp, cltFin, cltKey, cltSent>>
sessVars == <<gateGen, gateKey>>
gateVars == <<cltVars, toGate, toClt, sessVars, helper, gateLock, gatePc, gateJob, gateWork, gateRefused, gateGarbled>>

Users == GateClients \X (1..(1 + GateBreaks))

\* NoGate is no worker, no public key and no secret.
ASSUME NoGateAssumption ==
    NoGate \notin GateWorkers \cup Users \cup {{c, u} : c \in GateClients, u \in Users}

GateInit ==
    /\ gateKx \in GateMixes
    /\ cltPc = [c \in GateClients |-> "start"]
    /\ cltTemp = [c \in GateClients |-> FALSE]
    /\ cltFin = [c \in GateClients |-> "no"]
    /\ cltKey = [c \in GateClients |-> NoGate]
    /\ cltSent = [c \in GateClients |-> 0]
    /\ toGate = [c \in GateClients |-> <<>>]
    /\ toClt = [c \in GateClients |-> <<>>]
    /\ gateGen = [c \in GateClients |-> 1]
    /\ gateKey = [u \in Users |-> NoGate]
    /\ helper = [kx |-> "ecdh", ec |-> NoGate, dh |-> NoGate]
    /\ gateLock = NoGate
    /\ gatePc = [w \in GateWorkers |-> "idle"]
    /\ gateJob = [w \in GateWorkers |-> [user |-> NoGate, kx |-> "ecdh", pub |-> NoGate, share |-> NoGate]]
    /\ gateWork = {} /\ gateRefused = {} /\ gateGarbled = FALSE

-----------------------------------------------------------------------------
(* Keys.                                                                   *)

EccCreate(h, owner) == [h EXCEPT !.kx = "ecdh", !.ec = owner]

DhGenerate(h, owner) == [h EXCEPT !.kx = "dh", !.dh = owner]

\* The key of the exchange in progress: what creatHSResp() exports and
\* makeShareKey() derives from.
OwnKey(h) == IF h.kx = "ecdh" THEN h.ec ELSE h.dh

\* ecc_compute_sharekey(), dh_compute_sharekey(): the same for both sides.
Derive(own, peer) == {own, peer}

-----------------------------------------------------------------------------
(* The client.                                                             *)

\* handshake(): the request is made and posted; a failure on the way (no key
\* file, no key pair) leaves main() waiting for handshakeDone().
CltHandshake(c) ==
    /\ cltPc[c] = "start"
    /\ \/ /\ cltPc' = [cltPc EXCEPT ![c] = "posted"]
          /\ toGate' = [toGate EXCEPT ![c] = Append(@, [kind |-> "handshake", key |-> NoGate])]
       \/ cltPc' = [cltPc EXCEPT ![c] = "waiting"] /\ UNCHANGED toGate
    /\ UNCHANGED <<gateKx, cltTemp, cltFin, cltKey, cltSent, toClt, sessVars, helper, gateLock, gatePc,
                   gateJob, gateWork, gateRefused, gateGarbled>>

\* ... and only then is the temporary key stored.
CltSaveTemp(c) ==
    /\ cltPc[c] = "posted"
    /\ cltTemp' = [cltTemp EXCEPT ![c] = TRUE]
    /\ cltPc' = [cltPc EXCEPT ![c] = "waiting"]
    /\ UNCHANGED <<gateKx, cltFin, cltKey, cltSent, toGate, toClt, sessVars, helper, gateLock, gatePc,
                   gateJob, gateWork, gateRefused, gateGarbled>>

\* worker(): the client's thread, once handshakeDone(); plain if encrypt() refuses.
CltSend(c) ==
    /\ cltPc[c] = "waiting" /\ cltFin[c] # "no"
    /\ cltSent[c] < GateRequests
    /\ cltSent' = [cltSent EXCEPT ![c] = @ + 1]
    /\ toGate' = [toGate EXCEPT ![c] = Append(@, [kind |-> IF cltFin[c] = "success" THEN "enc" ELSE "plain",
                                                  key |-> cltKey[c]])]
    /\ UNCHANGED <<gateKx, cltPc, cltTemp, cltFin, cltKey, toClt, sessVars, helper, gateLock, gatePc, gateJob,
                   gateWork, gateRefused, gateGarbled>>

\* onResponse() on a thread of the client manager.  decryptHSResp() takes
\* substr(16) of _temp_symsec, which throws while it is still empty.
CltResponse(c) ==
    /\ toClt[c] # <<>> /\ cltPc[c] # "dead"
    /\ toClt' = [toClt EXCEPT ![c] = Tail(@)]
    /\ LET m == Head(toClt[c]) IN
       \/ /\ m.kind = "handshake" /\ m.key = NoGate
          /\ cltFin' = [cltFin EXCEPT ![c] = "fail"]
          /\ UNCHANGED <<cltPc, cltKey, gateGarbled>>
       \/ /\ m.kind = "handshake" /\ m.key # NoGate /\ ~cltTemp[c]
          /\ cltPc' = [cltPc EXCEPT ![c] = "dead"]
          /\ UNCHANGED <<cltFin, cltKey, gateGarbled>>
       \/ /\ m.kind = "handshake" /\ m.key # NoGate /\ cltTemp[c]
          /\ cltFin' = [cltFin EXCEPT ![c] = "success"]
          /\ cltKey' = [cltKey EXCEPT ![c] = Derive(c, m.key)]
          /\ UNCHANGED <<cltPc, gateGarbled>>
       \/ /\ m.kind = "enc"
          /\ gateGarbled' = (gateGarbled \/ (m.key # NoGate /\ m.key # cltKey[c]))
          /\ UNCHANGED <<cltPc, cltFin, cltKey>>
       \/ m.kind = "plain" /\ UNCHANGED <<cltPc, cltFin, cltKey, gateGarbled>>
    /\ UNCHANGED <<gateKx, cltTemp, cltSent, toGate, sessVars, helper, gateLock, gatePc, gateJob, gateWork, gateRefused>>

\* The connection breaks and the manager's monitor reconnects: what was sent is
\* lost, what is still in _wrQueue goes to the new GateUser.
Reconnect(c) ==
    /\ gateGen[c] <= GateBreaks /\ cltPc[c] # "dead"
    /\ gateGen' = [gateGen EXCEPT ![c] = @ + 1]
    /\ \E n \in 0..Len(toGate[c]) : toGate' = [toGate EXCEPT ![c] = SubSeq(@, n + 1, Len(@))]
    /\ toClt' = [toClt EXCEPT ![c] = <<>>]
    /\ UNCHANGED <<cltVars, gateKey, helper, gateLock, gatePc, gateJob, gateWork, gateRefused, gateGarbled>>

-----------------------------------------------------------------------------
(* The gateway.                                                            *)

Step(w, pc) == gatePc' = [gatePc EXCEPT ![w] = pc]

\* post() to a user whose connection is gone reaches nobody.
PostTo(u, m) == toClt' = IF u[2] = gateGen[u[1]] THEN [toClt EXCEPT ![u[1]] = Append(@, m)] ELSE toClt

\* GateUser::onRequest(), entered by a worker with the next message of a user.
GateRequest(w, c) ==
    /\ gatePc[w] = "idle" /\ toGate[c] # <<>>
    /\ toGate' = [toGate EXCEPT ![c] = Tail(@)]
    /\ LET m == Head(toGate[c])
           u == <<c, gateGen[c]>>
       IN \/ /\ m.kind = "handshake"
             /\ Step(w, "lock")
             /\ gateJob' = [gateJob EXCEPT ![w] = [user |-> u, kx |-> gateKx[c], pub |-> NoGate, share |-> NoGate]]
             /\ UNCHANGED <<gateWork, gateRefused, gateGarbled>>
          \/ /\ m.kind = "enc" /\ gateKey[u] # NoGate
             /\ gateGarbled' = (gateGarbled \/ m.key # gateKey[u])
             /\ gateWork' = gateWork \cup {<<u, "enc">>}
             /\ UNCHANGED <<gatePc, gateJob, gateRefused>>
          \/ /\ m.kind = "enc" /\ gateKey[u] # NoGate    \* decrypt() fails
             /\ UNCHANGED <<gatePc, gateJob, gateWork, gateRefused, gateGarbled>>
          \/ /\ m.kind = "enc" /\ gateKey[u] = NoGate
             /\ gateRefused' = gateRefused \cup {c}
             /\ UNCHANGED <<gatePc, gateJob, gateWork, gateGarbled>>
          \/ /\ m.kind = "plain"
             /\ gateWork' = gateWork \cup {<<u, "plain">>}
             /\ UNCHANGED <<gatePc, gateJob, gateRefused, gateGarbled>>
    /\ UNCHANGED <<cltVars, toClt, sessVars, helper, gateLock>>

Enter_Free(w) == w \in GateWorkers

Enter(w) == gateLock = NoGate

\* onHandshake() takes the lock; decryptHSReq() may fail.
HsDecrypt(w) ==
    /\ gatePc[w] = "lock" /\ Enter(w)
    /\ \/ gateLock' = w /\ Step(w, "create") /\ UNCHANGED gateJob
       \/ /\ Step(w, "answer") /\ UNCHANGED gateLock
          /\ gateJob' = [gateJob EXCEPT ![w].share = NoGate]
    /\ UNCHANGED <<cltVars, toGate, toClt, sessVars, helper, gateWork, gateRefused, gateGarbled>>

\* creatHSResp(): a key pair of the client's kind in the shared helper.
NewKey(w, owner) == helper' = IF gateJob[w].kx = "dh" THEN DhGenerate(helper, owner) ELSE EccCreate(helper, owner)

\* ... its public part in the response; or no key pair, and an empty answer: the
\* helper has the client's _kx_type by then, and no key of that kind.
HsCreate(w) ==
    /\ gatePc[w] = "create"
    /\ \/ /\ NewKey(w, gateJob[w].user)
          /\ gateJob' = [gateJob EXCEPT ![w].pub = OwnKey(helper')]
          /\ Step(w, "share") /\ UNCHANGED gateLock
       \/ NewKey(w, NoGate) /\ Step(w, "answer") /\ gateLock' = NoGate /\ UNCHANGED gateJob
    /\ UNCHANGED <<cltVars, toGate, toClt, sessVars, gateWork, gateRefused, gateGarbled>>

\* makeShareKey() and encryptHSResp(), and the lock is released.  A response
\* that cannot be encrypted is an empty answer, and the share key is not used.
HsShare(w) ==
    /\ gatePc[w] = "share"
    /\ \/ gateJob' = [gateJob EXCEPT ![w].share = Derive(gateJob[w].user[1], OwnKey(helper))]
       \/ gateJob' = [gateJob EXCEPT ![w].pub = NoGate, ![w].share = NoGate]
    /\ gateLock' = NoGate
    /\ Step(w, "answer")
    /\ UNCHANGED <<cltVars, toGate, toClt, sessVars, helper, gateWork, gateRefused, gateGarbled>>

Session_Longer(j) == IF j.kx = "dh" THEN j.share ELSE NoGate

\* setHandshakeSuccess(): a share key of 32 bytes or more is cut into key and vector.
Session(j) == IF j.kx = "short" THEN NoGate ELSE j.share

\* setHandshakeSuccess() or setHandshakeFail(), and the answer: a share key
\* under 32 bytes is not used, yet answered like any other.
HsAnswer(w) ==
    /\ gatePc[w] = "answer"
    /\ LET j == gateJob[w] IN
       /\ gateKey' = [gateKey EXCEPT ![j.user] = Session(j)]
       /\ PostTo(j.user, [kind |-> "handshake", key |-> j.pub])
    /\ Step(w, "idle")
    /\ UNCHANGED <<cltVars, toGate, gateGen, helper, gateLock, gateJob, gateWork, gateRefused, gateGarbled>>

\* createResponse(), when the upper layer answers: encrypted with the user's
\* key, empty if it has none or encrypt() fails.
GateResponse(work) ==
    /\ gateWork' = gateWork \ {work}
    /\ \E key \in IF work[2] = "enc" THEN {gateKey[work[1]], NoGate} ELSE {NoGate} :
          PostTo(work[1], [kind |-> work[2], key |-> key])
    /\ UNCHANGED <<cltVars, toGate, sessVars, helper, gateLock, gatePc, gateJob, gateRefused, gateGarbled>>

GateNext ==
    \/ \E c \in GateClients : CltHandshake(c) \/ CltSaveTemp(c) \/ CltSend(c) \/ CltResponse(c) \/ Reconnect(c)
    \/ \E w \in GateWorkers, c \in GateClients : GateRequest(w, c)
    \/ \E w \in GateWorkers : HsDecrypt(w) \/ HsCreate(w) \/ HsShare(w) \/ HsAnswer(w)
    \/ \E work \in gateWork : GateResponse(work)

-----------------------------------------------------------------------------
\* However the handshakes of several users interleave on the workers, a client
\* and its GateUser that both hold a key hold the same one, and no request or
\* response is decrypted with a key it was not encrypted with (onHandshake()
\* under _lockHandshake).
GateKeysAgree ==
    /\ ~gateGarbled
    /\ \A c \in GateClients :
         LET k == gateKey[<<c, gateGen[c]>>] IN
         cltFin[c] = "success" /\ k # NoGate => cltKey[c] = k

\* A request is rejected as before the handshake only if the client's connection
\* has been replaced since its handshake, or its share key was too short for
\* setHandshakeSuccess() although the handshake was answered with success.
RefusedForCause ==
    \A c \in gateRefused : gateGen[c] > 1 \/ gateKx[c] = "short"
=============================================================================
