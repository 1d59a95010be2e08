---------------------------- MODULE UserLifecycle ----------------------------
(***************************************************************************)
(* What tcpsock_server promises its applications about a connection: the   *)
(* life of each user object as the handlers see it.  TcpServer is shown to  *)
(* implement this specification, and NetServer builds on it.                *)
(*                                                                         *)
(*   none -> open -> closed -> notified -> gone                             *)
(*                                                                         *)
(* A thread pins a user by locking a weak_ptr to it; a pinned user is not   *)
(* destroyed.  A handler (onRecvMsg) starts only on an open user, but may   *)
(* still run after the user was closed and even after onDisconnect().  When *)
(* the server goes down the users are destroyed without onDisconnect().     *)
(***************************************************************************)
EXTENDS Naturals

CONSTANTS
    Users,    \* user objects
    Workers,  \* threads that run onRecvMsg()
    Others,   \* threads that lock a user in order to post to it
    NoUser    \* a null pointer

Threads == Workers \cup Others

VARIABLES
    phase,    \* phase[u]
    pin,      \* pin[t]: the user that thread t has locked, or NoUser
    serving,  \* the workers inside onRecvMsg()
    down      \* the server's threads have been joined

lifeVars == <<phase, pin, serving, down>>

TypeOK ==
    /\ phase \in [Users -> {"none", "open", "closed", "notified", "gone"}]
    /\ pin \in [Threads -> Users \cup {NoUser}]
    /\ serving \subseteq Workers
    /\ down \in BOOLEAN

Init ==
    /\ phase = [u \in Users |-> "none"]
    /\ pin = [t \in Threads |-> NoUser]
    /\ serving = {}
    /\ down = FALSE

Move(u, from, to) ==
    /\ phase[u] = from
    /\ phase' = [phase EXCEPT ![u] = to]

Connect(u)    == Move(u, "none", "open") /\ UNCHANGED <<pin, serving, down>>
Close(u)      == Move(u, "open", "closed") /\ UNCHANGED <<pin, serving, down>>
Disconnect(u) == Move(u, "closed", "notified") /\ UNCHANGED <<pin, serving, down>>

Pin(t, u) ==
    /\ pin[t] = NoUser /\ phase[u] \in {"open", "closed", "notified"}
    /\ pin' = [pin EXCEPT ![t] = u]
    /\ UNCHANGED <<phase, serving, down>>

Serve(w) ==
    /\ w \notin serving /\ pin[w] # NoUser /\ phase[pin[w]] = "open"
    /\ serving' = serving \cup {w}
    /\ UNCHANGED <<phase, pin, down>>

Pinned(u) == \E t \in Threads : pin[t] = u

\* The last reference to u is dropped.  Without onDisconnect() only at the end.
Destroyable(u) == phase[u] = "notified" \/ (down /\ phase[u] \in {"open", "closed"})

\* A thread unpins its user, which may be the last reference.
Unpin(t) ==
    /\ pin[t] # NoUser
    /\ pin' = [pin EXCEPT ![t] = NoUser]
    /\ serving' = serving \ {t}
    /\ \/ UNCHANGED phase
       \/ /\ Destroyable(pin[t]) /\ \A s \in Threads \ {t} : pin[s] # pin[t]
          /\ phase' = [phase EXCEPT ![pin[t]] = "gone"]
    /\ UNCHANGED down

Destroy(u) ==
    /\ Destroyable(u) /\ ~Pinned(u)
    /\ phase' = [phase EXCEPT ![u] = "gone"]
    /\ UNCHANGED <<pin, serving, down>>

\* The threads are joined.
Down ==
    /\ ~down /\ down' = TRUE
    /\ serving = {} /\ \A w \in Workers : pin[w] = NoUser
    /\ UNCHANGED <<phase, pin, serving>>

\* close() drops every remaining user that no other thread has locked.
DestroyAll ==
    /\ down
    /\ phase' = [u \in Users |->
                   IF phase[u] \in {"open", "closed", "notified"} /\ ~Pinned(u)
                   THEN "gone" ELSE phase[u]]
    /\ UNCHANGED <<pin, serving, down>>

Next ==
    \/ \E u \in Users : Connect(u) \/ Close(u) \/ Disconnect(u) \/ Destroy(u)
    \/ \E t \in Threads : Unpin(t) \/ \E u \in Users : Pin(t, u)
    \/ \E w \in Workers : Serve(w)
    \/ Down \/ DestroyAll

Spec == Init /\ [][Next]_lifeVars
=============================================================================
