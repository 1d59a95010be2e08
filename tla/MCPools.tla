------------------------------ MODULE MCPools ------------------------------
(* The write queue of a connection, the pool of database workers and the    *)
(* pool of synchronous clients, which share no state: a behaviour exercises *)
(* one of them, with that one's fairness, and leaves the others as they are. *)
EXTENDS WriteChannel, DbPool, ClientPool, TLC

CONSTANTS p1, p2, w1, w2, s1, s2, c1, c2, c3, c4

VARIABLE part

MCPosters == {p1, p2}
MCMsgLens == {1, 2}
MCWorkers == {w1, w2}
MCSenders == {s1, s2}
MCClientIds == {c1, c2, c3, c4}

Init ==
    /\ part \in {"write", "database", "client"}
    /\ WriteInit /\ DbInit
    /\ CltInit /\ (part # "client" => \A p \in Pools : ~invalid[p])

Next ==
    \/ part = "write" /\ WriteNext /\ UNCHANGED <<part, dbVars, cltPoolVars>>
    \/ part = "database" /\ DbNext /\ UNCHANGED <<part, writeVars, cltPoolVars>>
    \/ part = "client" /\ CltNext /\ UNCHANGED <<part, writeVars, dbVars>>

(* The write queue: the threads run and release the locks they hold; errors, *)
(* expiry, new posts and the peer's data need not happen.  A socket that is  *)
(* offered data again and again eventually takes some (the peer reads).      *)
WriteFairness ==
    /\ WF_writeVars(part = "write" /\ IoStep)
    /\ \A p \in Posters : WF_writeVars(part = "write" /\ PostStep(p))
    /\ WF_writeVars(part = "write" /\ CloseStep)
    /\ WF_writeVars(part = "write" /\ CloseBegin("io"))
    /\ SF_writeVars(part = "write" /\ IoSendSome)

(* Each worker runs: database calls and callbacks return (they have timeouts). *)
DbFairness ==
    /\ WF_dbVars(part = "database" /\ ServeUtilStop)
    /\ \A w \in Workers : WF_dbVars(part = "database" /\ WorkerStep(w))

(* Threads run; the server gets to every request.  RecvFail is not fair: on a *)
(* blocking socket recv() waits for ever for a silent server.                 *)
CltFairness ==
    /\ \A t \in Senders : WF_cltPoolVars(part = "client" /\ SenderStep(t))
    /\ WF_cltPoolVars(part = "client" /\ (AliveBeat \/ AliveBack))
    /\ \A c \in ClientIds : WF_cltPoolVars(part = "client" /\ Serve(c))

FairSpec == Init /\ [][Next]_<<part, writeVars, dbVars, cltPoolVars>>
            /\ WriteFairness /\ DbFairness /\ CltFairness
=============================================================================
