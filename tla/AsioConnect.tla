---------------------------- MODULE AsioConnect -----------------------------
(***************************************************************************)
(* tcpsock_client of src/zbf/asio_socket_tcp.hpp: async_connect() with its  *)
(* timer, connect() and disconnect().  The handlers of one attempt share    *)
(* `done'; all of them use the client's one _user.  Handlers run one at a   *)
(* time on io_context 0; the application thread calls in between, also      *)
(* while an earlier attempt is not done (reads and writes of the pointer    *)
(* _user, which nothing guards, are taken as atomic).                       *)
(***************************************************************************)
EXTENDS Integers, Sequences

CONSTANTS
    MaxAttempts,      \* bound: calls of connect() and async_connect()
    NoAttempt         \* _user is null

Attempts == 1..MaxAttempts

ASSUME MaxAttemptsAssumption == MaxAttempts \in Nat

ASSUME NoAttemptAssumption == NoAttempt \notin Attempts

VARIABLES
    tls,              \* an SSL context was given
    attempts,         \* calls so far
    stage,            \* what an attempt waits for: "resolve", "connect", "handshake";
                      \* "sync": the application thread is in connect(); "over"
    done,             \* *done of an attempt, or connect() has returned
    timer,            \* its timer: "armed", "cancelled", "fired"
    cltUser,          \* _user: the attempt that made it, or NoAttempt
    started,          \* users on which start() was called
    cut,              \* users that were stopped or whose socket was cancelled
    answered,         \* results given to an attempt's caller, in order
    nullUse,          \* history: attempts that went through a null _user
    overlapped        \* history: attempts that were under way together with another

connectVars == <<tls, attempts, stage, done, timer, cltUser, started, cut, answered, nullUse,
                 overlapped>>

ConnectInit ==
    /\ tls \in BOOLEAN /\ attempts = 0 /\ cltUser = NoAttempt
    /\ stage = [a \in Attempts |-> "none"] /\ done = [a \in Attempts |-> FALSE]
    /\ timer = [a \in Attempts |-> "none"] /\ answered = [a \in Attempts |-> <<>>]
    /\ started = {} /\ cut = {} /\ nullUse = {} /\ overlapped = {}

\* A new call, by the one application thread; a _user there is stopped first.
UnderWay == {a \in 1..attempts : ~done[a]}

Call ==
    /\ attempts < MaxAttempts /\ \A a \in Attempts : stage[a] # "sync"
    /\ attempts' = attempts + 1 /\ cut' = cut \cup ({cltUser} \ {NoAttempt})
    /\ overlapped' = IF UnderWay = {} THEN overlapped ELSE overlapped \cup UnderWay \cup {attempts'}

AsyncConnect ==
    /\ Call /\ cltUser' = NoAttempt
    /\ stage' = [stage EXCEPT ![attempts'] = "resolve"] /\ timer' = [timer EXCEPT ![attempts'] = "armed"]
    /\ UNCHANGED <<tls, done, started, answered, nullUse>>

\* connect(): a new user, on which the thread resolves, connects and shakes hands ...
ConnectBegin ==
    /\ Call /\ cltUser' = attempts' /\ stage' = [stage EXCEPT ![attempts'] = "sync"]
    /\ UNCHANGED <<tls, done, timer, started, answered, nullUse>>

Through(a) == nullUse' = IF cltUser = NoAttempt THEN nullUse \cup {a} ELSE nullUse
StartUser(a) == started' = started \cup ({cltUser} \ {NoAttempt}) /\ Through(a) /\ UNCHANGED cltUser

\* ... and drops when one of these fails.
ConnectEnd(a) ==
    /\ stage[a] = "sync" /\ stage' = [stage EXCEPT ![a] = "over"] /\ done' = [done EXCEPT ![a] = TRUE]
    /\ \/ /\ cltUser' = NoAttempt /\ answered' = [answered EXCEPT ![a] = Append(@, -1)]
          /\ UNCHANGED <<started, nullUse>>
       \/ StartUser(a) /\ answered' = [answered EXCEPT ![a] = Append(@, 0)]
    /\ UNCHANGED <<tls, attempts, timer, cut, overlapped>>

\* disconnect(): stops whatever _user there is, connected or not; an attempt that
\* has none yet goes on.
Disconnect ==
    /\ \A a \in Attempts : stage[a] # "sync"
    /\ cltUser # NoAttempt /\ cut' = cut \cup {cltUser}
    /\ UNCHANGED <<tls, attempts, stage, done, timer, cltUser, started, answered, nullUse, overlapped>>

\* The timer fires: the attempt is done, and the pending operation of the present
\* _user cancelled (an expiry that finds the attempt done changes nothing).
OnTimeout(a) ==
    /\ timer[a] = "armed" /\ timer' = [timer EXCEPT ![a] = "fired"]
    /\ ~done[a] /\ done' = [done EXCEPT ![a] = TRUE]
    /\ cut' = cut \cup ({cltUser} \ {NoAttempt})
    /\ UNCHANGED <<tls, attempts, stage, cltUser, started, answered, nullUse, overlapped>>

\* A handler that finds the attempt done leaves.
Late(a) ==
    /\ stage[a] \in {"resolve", "connect", "handshake"} /\ done[a]
    /\ stage' = [stage EXCEPT ![a] = "over"]
    /\ UNCHANGED <<tls, attempts, done, timer, cltUser, started, cut, answered, nullUse, overlapped>>

Answer_TimerKept(a, rc) ==
    /\ done' = done /\ timer' = timer
    /\ stage' = [stage EXCEPT ![a] = "over"] /\ answered' = [answered EXCEPT ![a] = Append(@, rc)]

\* timer->cancel(), *done = true, handler(rc).
Answer(a, rc) ==
    /\ done' = [done EXCEPT ![a] = TRUE] /\ timer' = [timer EXCEPT ![a] = "cancelled"]
    /\ stage' = [stage EXCEPT ![a] = "over"] /\ answered' = [answered EXCEPT ![a] = Append(@, rc)]

OnResolve(a) ==
    /\ stage[a] = "resolve" /\ ~done[a]
    /\ \/ Answer(a, -1) /\ UNCHANGED cltUser
       \/ /\ cltUser' = a /\ stage' = [stage EXCEPT ![a] = "connect"]
          /\ UNCHANGED <<done, timer, answered>>
    /\ UNCHANGED <<tls, attempts, started, cut, nullUse, overlapped>>

OnConnect(a) ==
    /\ stage[a] = "connect" /\ ~done[a]
    /\ \/ cltUser' = NoAttempt /\ Answer(a, -2) /\ UNCHANGED <<started, nullUse>>
       \/ /\ tls /\ stage' = [stage EXCEPT ![a] = "handshake"] /\ Through(a)
          /\ UNCHANGED <<done, timer, answered, cltUser, started>>
       \/ ~tls /\ StartUser(a) /\ Answer(a, 0)
    /\ UNCHANGED <<tls, attempts, cut, overlapped>>

OnHandshake(a) ==
    /\ stage[a] = "handshake" /\ ~done[a]
    /\ \/ cltUser' = NoAttempt /\ Answer(a, -3) /\ UNCHANGED <<started, nullUse>>
       \/ StartUser(a) /\ Answer(a, 0)
    /\ UNCHANGED <<tls, attempts, cut, overlapped>>

ConnectNext ==
    \/ AsyncConnect \/ ConnectBegin \/ Disconnect
    \/ \E a \in Attempts :
          ConnectEnd(a) \/ OnTimeout(a) \/ Late(a) \/ OnResolve(a) \/ OnConnect(a) \/ OnHandshake(a)

-----------------------------------------------------------------------------
\* However the timers, the completions, disconnect() and further calls interleave,
\* an attempt is answered at most once, and never when its timer has fired.  An
\* attempt that no other one overlapped moreover never goes through a null _user,
\* has its user started exactly when it is answered with success, and leaves _user
\* that very user then; nothing of an earlier attempt, however it ended, reaches it.
\* (Overlapping attempts share _user and have none of this: the handler of one uses,
\* starts or drops the user of the other.)
ConnectSound ==
    \A a \in Attempts :
        /\ Len(answered[a]) <= 1 /\ (timer[a] = "fired" => answered[a] = <<>>)
        /\ a \notin overlapped =>
              /\ a \notin nullUse
              /\ a \in started <=> answered[a] = <<0>>
              /\ a = attempts /\ answered[a] = <<0>> => cltUser = a
=============================================================================
