----------------------------- MODULE RequestPool -----------------------------
(***************************************************************************)
(* What a database client pool promises the proxy: every request that       *)
(* submit() accepts is answered with at most one onResponse(), and nothing  *)
(* is answered once the pool's threads are joined.  DbPool is shown to       *)
(* implement this specification, and DBProxy builds on it.                  *)
(***************************************************************************)
CONSTANT Requests

VARIABLES
    accepted,  \* requests that submit() has queued
    answered,  \* requests that onResponse() was called for
    over       \* the pool's threads are joined

poolVars == <<accepted, answered, over>>

TypeOK == accepted \subseteq Requests /\ answered \subseteq accepted /\ over \in BOOLEAN

Init == accepted = {} /\ answered = {} /\ over = FALSE

Accept(r) ==
    /\ r \notin accepted
    /\ accepted' = accepted \cup {r}
    /\ UNCHANGED <<answered, over>>

Respond(r) ==
    /\ ~over /\ r \in accepted \ answered
    /\ answered' = answered \cup {r}
    /\ UNCHANGED <<accepted, over>>

Finish == ~over /\ over' = TRUE /\ UNCHANGED <<accepted, answered>>

Next == Finish \/ \E r \in Requests : Accept(r) \/ Respond(r)

Spec == Init /\ [][Next]_poolVars
=============================================================================
