---------------------------- MODULE RedisClient -----------------------------
(***************************************************************************)
(* redis_client of src/wjp/redis_client.hpp: one command goes to the        *)
(* server, over a connection that may be stale; a missing reply makes the   *)
(* client reconnect and send it once more.  The reply is then read by the   *)
(* form (status, integer, string, array, map, score array) that the         *)
(* command's method uses, and handleRequest() of the pool answers with it.  *)
(***************************************************************************)
EXTENDS Integers, SequencesExt

CONSTANTS
    IntMax,       \* largest int, 2^31 - 1 in the code
    RedisInts,    \* integers the server replies with
    RedisElems,   \* elements of an array reply: records of type and text
    MaxElems      \* bound: elements of an array reply

VARIABLES
    redisCmd,     \* the command
    redisLink,    \* the connection: "none", "up", or "stale" (the server has closed it)
    redisState,   \* _connState
    redisPc, redisTries,   \* step of execCommand(); calls of redisCommandArgv()
    redisReply,   \* the reply
    redisRuns,    \* server: times the command was executed
    redisLost,    \* executions whose reply did not arrive
    redisEc, redisRes      \* error code and result of the call

redisVars == <<redisCmd, redisLink, redisState, redisPc, redisTries, redisReply, redisRuns,
               redisLost, redisEc, redisRes>>

-----------------------------------------------------------------------------
(* The form each method uses.                                              *)

KeyMethods ==
    [form : {"Int"}, cmd : {"DEL", "EXISTS", "EXPIRE", "PERSIST", "TTL", "SETNX"}]
    \cup [form : {"Stat"}, cmd : {"SET", "MSET"}]
    \cup [form : {"Str"}, cmd : {"GET"}] \cup [form : {"SA"}, cmd : {"MGET"}]

HashMethods ==
    [form : {"Int"}, cmd : {"HDEL", "HEXISTS", "HLEN", "HSET"}]
    \cup [form : {"Stat"}, cmd : {"HMSET"}] \cup [form : {"Str"}, cmd : {"HGET"}]
    \cup [form : {"SA"}, cmd : {"HMGET"}] \cup [form : {"SM"}, cmd : {"HGETALL"}]

ListMethods ==
    [form : {"Int"}, cmd : {"LLEN", "LPUSH", "RPUSH"}] \cup [form : {"Stat"}, cmd : {"LTRIM"}]
    \cup [form : {"Str"}, cmd : {"LINDEX", "LPOP", "RPOP"}] \cup [form : {"SA"}, cmd : {"LRANGE"}]

SetMethods ==
    [form : {"Int"}, cmd : {"SADD", "SCARD", "SISMEMBER", "SREM"}]
    \cup [form : {"Str"}, cmd : {"SPOP"}] \cup [form : {"SA"}, cmd : {"SMEMBERS"}]

ScoreSetMethods ==
    [form : {"Int"}, cmd : {"ZADD", "ZCARD", "ZCOUNT", "ZREM", "ZREMRANGEBYSCORE"}]
    \cup [form : {"Str"}, cmd : {"ZSCORE"}]
    \cup [form : {"SCA"}, cmd : {"ZRANGE", "ZRANGEBYSCORE", "ZREVRANGE", "ZREVRANGEBYSCORE"}]

Methods == KeyMethods \cup HashMethods \cup ListMethods \cup SetMethods \cup ScoreSetMethods

\* What the server replies with, by command.
ReplyType(cmd) ==
    CASE cmd \in {"SET", "MSET", "HMSET", "LTRIM"} -> "status"
      [] cmd \in {"GET", "HGET", "LINDEX", "LPOP", "RPOP", "SPOP", "ZSCORE"} -> "string"
      [] cmd \in {"MGET", "HMGET", "HGETALL", "LRANGE", "SMEMBERS", "ZRANGE", "ZRANGEBYSCORE",
                  "ZREVRANGE", "ZREVRANGEBYSCORE"} -> "array"
      [] OTHER -> "integer"

NoReply == [type |-> "none", val |-> <<>>]

Replies(cmd) ==
    LET t == ReplyType(cmd)
        vals == CASE t = "array" -> SeqOf(RedisElems, MaxElems)
                  [] t = "integer" -> {<<n>> : n \in RedisInts}
                  [] OTHER -> {<<>>}
    IN [type : {t}, val : vals] \cup (IF t = "string" THEN {[type |-> "nil", val |-> <<>>]} ELSE {})

-----------------------------------------------------------------------------
(* The forms.                                                              *)

\* int rc = reply->integer.
Narrow(n) == IF n <= IntMax THEN n ELSE n - 2 * (IntMax + 1)

Accepts(form) ==
    CASE form = "Stat" -> "status" [] form = "Int" -> "integer" [] form = "Str" -> "string"
      [] OTHER -> "array"

\* execCommandSA(): elements that are nil are left out.
AsArray(es) == LET kept == SelectSeq(es, LAMBDA e : e.type # "nil")
               IN [i \in DOMAIN kept |-> kept[i].text]

\* execCommandSM(): an element at an even index (from 0) is the key of the next.
AsMap(es) ==
    LET Step(acc, i) == IF i % 2 = 1 THEN [acc EXCEPT !.key = es[i].text]
                        ELSE [acc EXCEPT !.map = (acc.key :> es[i].text) @@ acc.map]
    IN FoldLeftDomain(Step, [key |-> "", map |-> <<>>], es).map

\* strtod(): the text of a number, or 0.
Score(e) == IF e.text = "1" THEN 1 ELSE 0

\* execCommandSCA(): likewise; a nil score of an empty member is left out.
AsScores(es) ==
    LET Step(acc, i) ==
          IF i % 2 = 1 THEN [acc EXCEPT !.str = es[i].text]
          ELSE IF es[i].type = "nil" /\ acc.str = "" THEN acc
          ELSE [acc EXCEPT !.out = Append(@, <<Score(es[i]), acc.str>>)]
    IN FoldLeftDomain(Step, [str |-> "", out |-> <<>>], es).out

\* execCommandStat() ... execCommandSCA(): ec and the result.
Interpret(form, reply) ==
    IF reply.type = Accepts(form)
      THEN [ec |-> "success",
            res |-> CASE form = "Int" -> <<Narrow(reply.val[1])>>
                      [] form = "SA" -> AsArray(reply.val)
                      [] form = "SM" -> AsMap(reply.val)
                      [] form = "SCA" -> AsScores(reply.val)
                      [] OTHER -> <<>>]
    ELSE [ec |-> IF reply.type = "nil" THEN "keynotexist" ELSE "unexpectedtype", res |-> <<>>]

-----------------------------------------------------------------------------
(* execCommand().                                                          *)

RedisInit ==
    /\ redisCmd \in Methods
    /\ \/ redisLink = "none" /\ redisState = FALSE
       \/ redisLink \in {"up", "stale"} /\ redisState = TRUE
    /\ redisPc = "start" /\ redisTries = 0 /\ redisReply = NoReply
    /\ redisRuns = 0 /\ redisLost = 0 /\ redisEc = "none" /\ redisRes = <<>>

Return(ec, res) == redisPc' = "done" /\ redisEc' = ec /\ redisRes' = res

\* connect() after close(): reached, or not (the socket, its time-out, AUTH).
RedisConnect ==
    /\ (redisPc = "start" /\ redisLink = "none") \/ redisPc = "again"
    /\ \/ /\ redisLink' = "up" /\ redisState' = TRUE /\ redisPc' = "send"
          /\ UNCHANGED <<redisEc, redisRes>>
       \/ redisLink' = "none" /\ redisState' = FALSE /\ Return("connect", <<>>)
    /\ UNCHANGED <<redisCmd, redisTries, redisReply, redisRuns, redisLost>>

Again_Twice(reply) == reply.type = "none" /\ redisTries <= 1

\* No reply to the first try: reconnect and send it again.
Again(reply) == reply.type = "none" /\ redisTries = 0

\* redisCommandArgv(): a reply, an error reply, or none, the command executed or
\* not; then execCommand() retries, closes, or hands the reply to the form.
RedisSend ==
    /\ redisPc = "send" \/ (redisPc = "start" /\ redisLink # "none")
    /\ \E reply \in Replies(redisCmd.cmd) \cup {NoReply, [type |-> "error", val |-> <<>>]}, ran \in BOOLEAN :
         /\ redisLink = "stale" => reply = NoReply /\ ~ran
         /\ reply.type = "error" => ~ran
         /\ reply.type \notin {"none", "error"} => ran
         /\ redisReply' = reply
         /\ redisTries' = redisTries + 1
         /\ redisRuns' = redisRuns + (IF ran THEN 1 ELSE 0)
         /\ redisLost' = redisLost + (IF ran /\ reply = NoReply THEN 1 ELSE 0)
         /\ IF Again(reply) THEN redisPc' = "again" /\ UNCHANGED <<redisLink, redisState, redisEc, redisRes>>
            ELSE CASE reply.type = "none" -> redisLink' = "none" /\ redisState' = FALSE /\ Return("io", <<>>)
                   [] reply.type = "error" -> Return("replyerror", <<>>) /\ UNCHANGED <<redisLink, redisState>>
                   [] OTHER -> LET x == Interpret(redisCmd.form, reply) IN
                               Return(x.ec, x.res) /\ redisState' = TRUE /\ UNCHANGED redisLink
    /\ UNCHANGED redisCmd

RedisNext == RedisConnect \/ RedisSend

-----------------------------------------------------------------------------
\* A command is executed at most once for each of the two tries, and once more
\* than the caller knows of only when a reply was lost; it is executed when the
\* call succeeds; and the pool keeps the client (getConnState()) only when it
\* has a connection that has just answered (execCommand()).
RedisExecuted ==
    /\ redisRuns - redisLost = (IF redisEc \in {"success", "keynotexist"} THEN 1 ELSE 0)
    /\ redisLost <= 2 /\ redisRuns <= 2
    /\ redisState <=> redisLink = "up"

\* Every method reads its reply by the form that fits what the server sends for
\* the command, so ExecUnexpectedType is never returned; and the form gives the
\* caller what was sent: integers that fit an int, each key with the value that
\* follows it (the last one wins), each member with its score, in order.
RepliesRead ==
    redisReply.type \notin {"none", "error", "nil"} =>
        LET es == redisReply.val
            keys == {i \in DOMAIN es : i % 2 = 1 /\ i < Len(es)}
            last == [k \in {es[i].text : i \in keys} |->
                       es[1 + (CHOOSE i \in keys : es[i].text = k /\ \A j \in keys : es[j].text = k => j <= i)].text]
        IN /\ redisEc = "success"
           /\ redisCmd.form = "Int" /\ es[1] <= IntMax => redisRes = es
           /\ redisCmd.form = "SA" /\ (\A i \in DOMAIN es : es[i].type # "nil") =>
                 redisRes = [i \in DOMAIN es |-> es[i].text]
           /\ redisCmd.form = "SM" => redisRes = last
           /\ redisCmd.form = "SCA" /\ (\A i \in DOMAIN es : es[i].type # "nil") =>
                 redisRes = [i \in 1..(Len(es) \div 2) |-> <<Score(es[2 * i]), es[2 * i - 1].text>>]

\* When a call returns, its command was executed as the caller is told, and the
\* caller has what the server sent.
RedisCall == redisPc = "done" => RedisExecuted /\ RepliesRead
=============================================================================
