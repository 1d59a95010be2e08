----------------------------- MODULE MCLibrary ------------------------------
(* The parts of the library that are used by one thread or one pool at a    *)
(* time: a behaviour exercises one part and leaves the others as they are.  *)
EXTENDS MongoPool, MySqlClient, RedisClient, Gate, Cipher, Framing, TimerWheel, RequestStat, AsioConnect, TLC

CONSTANTS Parts, mw1, mw2, mr1, mr2, ma1, ma2, gc1, gc2, gw1, gw2

VARIABLE part

MCMongoMixes == {mr1 :> "transaction" @@ mr2 :> k : k \in {"bulk", "write"}}

Statement(transaction, rows) == [form |-> "statement", transaction |-> transaction, rows |-> rows]
Query(transaction) == [form |-> "query", transaction |-> transaction, rows |-> <<>>]
Select == [form |-> "select", transaction |-> FALSE, rows |-> <<>>]
MCSqlMixes ==
    {<<Statement(TRUE, <<TRUE, FALSE, TRUE>>), second, Query(TRUE)>> : second \in
        {Statement(TRUE, <<TRUE, TRUE>>), Statement(TRUE, <<FALSE>>), Statement(FALSE, <<TRUE, TRUE>>),
         Query(TRUE), Query(FALSE), Select}}

MCRedisElems == {[type |-> "string", text |-> "a"], [type |-> "string", text |-> "1"],
                 [type |-> "integer", text |-> "1"], [type |-> "nil", text |-> ""]}

MCGateMixes == {gc1 :> "ecdh" @@ gc2 :> kx : kx \in {"ecdh", "dh", "short"}}

(* Values of the fields of each class of message: empty, short, and with    *)
(* bytes that are also type tags or lengths.                                *)
Strings == {<<>>, <<1>>, <<13, 0>>}
Tables == {<<>>, << <<>> >>, << << <<1>>, <<>> >>, << <<0, 2>>, <<3>> >> >>}
Documents == {<<>>, <<<<>>>>, <<<<5, 1>>>>}
OneReq(type, name) == <<0, type, 1, name, <<>>, <<<<1>>>>, <<>>, <<>>>>
Keys == Strings \cup {<<4, 5, 6, 7, 8>>}
MCWireMessages ==
    [class : {"mysql_req"}, val : {<<v, t, 3, s, tr, p>> : v \in {0, 195}, t \in {0, 3}, s \in Strings, tr \in BOOLEAN,
        p \in {<<>>} \cup {<<<<tab, 2, c>>>> : tab \in Tables, c \in {-1, 1}}}]
    \cup [class : {"mysql_resp"}, val : {<<0, id, rc, r, f>> : id \in {1, 100000}, rc \in {-1, 0, 1000},
        r \in {<<>>} \cup {<<t>> : t \in Tables} \cup {<<t, <<>>>> : t \in Tables}, f \in {<<>>, <<3, 253>>}}]
    \cup [class : {"redis_req"}, val : {<<0, t, 1, a>> : t \in 0..5, a \in {<<>>} \cup {<<s>> : s \in Strings} \cup {<<s, <<2>>>> : s \in Strings}}]
    \cup [class : {"redis_resp"}, val : {<<0, 7, x[1], -1, x[2]>> : x \in ({0} \X BOOLEAN) \cup ({1} \X {-1, 0, 99999})
        \cup ({2} \X Strings) \cup ({3} \X {<<>>, <<<<1>>>>, <<<<>>, <<2>>>>})
        \cup ({4} \X {<<>>, <<<<<<1>>, <<2>>>>>>}) \cup ({5} \X {<<>>, <<<<12345, <<>>>>, <<0, <<1, 1>>>>>>})}]
    \cup [class : {"mongo_req"}, val : {<<<<0, 0, 1, n, o, q, w, mw>>>> : n \in Strings, o \in Documents, q \in Documents, w \in Documents, mw \in {<<>>, <<<<>>, <<<<1>>>>>>}}
        \cup {<<OneReq(5, <<1>>), OneReq(2, s), OneReq(3, <<>>)>> : s \in Strings} \cup {<<OneReq(5, <<>>), OneReq(1, s)>> : s \in Strings}]
    \cup [class : {"mongo_resp"}, val : {<<0, id, rc, r, d>> : id \in {1, 100000}, rc \in {-1, 0}, r \in Documents,
        d \in {<<>>} \cup {<<b>> : b \in Documents} \cup {<<b, <<>>>> : b \in Documents}}]
    \cup [class : {"hs_req"}, val : {<<0, <<<<5, 6, 7>>, <<2>>, p>>, <<1, 2, 3, 4>>, 5>> : p \in Strings}
        \cup {<<1, <<415, p>>, <<1, 2, 3, 4>>, t>> : p \in Keys, t \in {0, 5}}]
    \cup [class : {"hs_resp"}, val : {<<x, p, t>> : x \in {0, 1}, p \in Keys, t \in {0, 3}}]
MCPlainTexts == UNION {[1..n -> {0, 3}] : n \in 0..5}
MCKeyLens == {<<0, 0>>, <<16, 16>>, <<24, 16>>}
MCBlockLen == [DES |-> 2, 3DES |-> 2, CAMELLIA |-> 4, AES |-> 4]

Host(n) == [v |-> n, net |-> FALSE]
MCFrameSerials == {[hi |-> Host(0), lo |-> Host(7)], [hi |-> Host(1), lo |-> Host(2)]}

MCStatLimits == <<1, 3>>

(* A part that is not exercised starts in one fixed state.                  *)
Init ==
    /\ part \in Parts
    /\ MongoInit /\ (part # "mongo" => mongoKind = CHOOSE k \in MongoMixes : TRUE)
    /\ SqlInit /\ (part # "mysql" => sqlMix = CHOOSE m \in SqlMixes : TRUE)
    /\ RedisInit /\ (part # "redis" => redisLink = "none" /\ redisCmd = CHOOSE m \in Methods : TRUE)
    /\ GateInit /\ (part # "gate" => gateKx = CHOOSE k \in GateMixes : TRUE)
    /\ FrameInit /\ (part # "frame" => frames = <<>>)
    /\ TimerInit /\ (part # "timer" => tickUnit = "TenSecond" /\ interval = 1
                                        /\ taskList = <<CHOOSE t \in TimerTasks : TRUE>>)
    /\ StatInit
    /\ ConnectInit /\ (part # "connect" => tls)
    /\ (IF part = "wire" THEN WireInit ELSE wire = [kind |-> "none"] /\ wireOut = <<>>)

Next ==
    \/ part = "mongo" /\ MongoNext
       /\ UNCHANGED <<part, sqlVars, redisVars, gateVars, wireVars, frameVars, timerVars, statVars, connectVars>>
    \/ part = "mysql" /\ SqlNext
       /\ UNCHANGED <<part, mongoVars, redisVars, gateVars, wireVars, frameVars, timerVars, statVars, connectVars>>
    \/ part = "redis" /\ RedisNext
       /\ UNCHANGED <<part, mongoVars, sqlVars, gateVars, wireVars, frameVars, timerVars, statVars, connectVars>>
    \/ part = "gate" /\ GateNext
       /\ UNCHANGED <<part, mongoVars, sqlVars, redisVars, wireVars, frameVars, timerVars, statVars, connectVars>>
    \/ part = "wire" /\ WireNext
       /\ UNCHANGED <<part, mongoVars, sqlVars, redisVars, gateVars, frameVars, timerVars, statVars, connectVars>>
    \/ part = "frame" /\ FrameNext
       /\ UNCHANGED <<part, mongoVars, sqlVars, redisVars, gateVars, wireVars, timerVars, statVars, connectVars>>
    \/ part = "timer" /\ TimerNext
       /\ UNCHANGED <<part, mongoVars, sqlVars, redisVars, gateVars, wireVars, frameVars, statVars, connectVars>>
    \/ part = "stat" /\ StatNext
       /\ UNCHANGED <<part, mongoVars, sqlVars, redisVars, gateVars, wireVars, frameVars, timerVars, connectVars>>
    \/ part = "connect" /\ ConnectNext
       /\ UNCHANGED <<part, mongoVars, sqlVars, redisVars, gateVars, wireVars, frameVars, timerVars, statVars>>

Spec == Init /\ [][Next]_<<part, mongoVars, sqlVars, redisVars, gateVars, wireVars, frameVars, timerVars, statVars, connectVars>>

Symmetry == Permutations({mw1, mw2}) \cup Permutations({ma1, ma2}) \cup Permutations({gw1, gw2})
=============================================================================
