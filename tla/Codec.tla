------------------------------- MODULE Codec --------------------------------
(***************************************************************************)
(* The wire form of requests, responses and handshakes: serialize_helper    *)
(* (src/fszm/serialize_helper.hpp) and, for every message class, the fields *)
(* its serialize() writes and the fields its deserialize() reads, in order. *)
(* A type describes a field; a value is an integer, a Boolean, a sequence   *)
(* of bytes, or a sequence of values.                                       *)
(***************************************************************************)
EXTENDS Integers, SequencesExt

CONSTANT ByteValues      \* values of a byte: 256 in the code

Uint(n) == [k |-> "int", n |-> n, signed |-> FALSE]
Sint(n) == [k |-> "int", n |-> n, signed |-> TRUE]
Bool == [k |-> "bool"]
Str == [k |-> "str"]
List(t) == [k |-> "list", of |-> t]
Opt(t) == [k |-> "opt", of |-> t]             \* a Boolean, then the value if there is one
Chain(t) == [k |-> "chain", of |-> t]         \* a value, then whether another follows
Fields(ts) == [k |-> "fields", of |-> ts]
Switch(i, ts) == [k |-> "switch", on |-> i, of |-> ts]  \* of the type that field i names, from 0

\* The type of the next field, given the fields before it.
Resolve(t, vs) == IF t.k = "switch" THEN t.of[vs[t.on] + 1] ELSE t

-----------------------------------------------------------------------------
(* serialize_helper.                                                       *)

\* serialize_uint8() ... serialize_uint64(): big-endian, signed ones cast.
IntBytes(n, v) ==
    LET u == v % (ByteValues ^ n)
    IN [i \in 1..n |-> (u \div ByteValues ^ (n - i)) % ByteValues]

\* deserialize_uint8() ...: 0, and nothing consumed, when the buffer is too short.
TakeInt(t, buf) ==
    LET u == FoldLeft(LAMBDA acc, b : acc * ByteValues + b, 0, SubSeq(buf, 1, t.n))
        v == IF t.signed /\ u >= (ByteValues ^ t.n) \div 2 THEN u - ByteValues ^ t.n ELSE u
    IN IF Len(buf) < t.n THEN [v |-> 0, rest |-> buf]
       ELSE [v |-> v, rest |-> SubSeq(buf, t.n + 1, Len(buf))]

TakeBool(buf) == LET x == TakeInt(Uint(1), buf) IN [v |-> x.v = 1, rest |-> x.rest]

\* deserialize_str(): an empty string, the size consumed, when it is cut short.
TakeStr(buf) ==
    LET x == TakeInt(Uint(4), buf)
    IN IF Len(x.rest) < x.v THEN [v |-> <<>>, rest |-> x.rest]
       ELSE [v |-> SubSeq(x.rest, 1, x.v), rest |-> SubSeq(x.rest, x.v + 1, Len(x.rest))]

RECURSIVE Ser(_, _), De(_, _)

Ser(t, v) ==
    CASE t.k = "int" -> IntBytes(t.n, v)
      [] t.k = "bool" -> IntBytes(1, IF v THEN 1 ELSE 0)
      [] t.k = "str" -> IntBytes(4, Len(v)) \o v
      [] t.k = "list" -> IntBytes(4, Len(v)) \o FlattenSeq([i \in DOMAIN v |-> Ser(t.of, v[i])])
      [] t.k = "opt" -> Ser(Bool, v # <<>>) \o FlattenSeq([i \in DOMAIN v |-> Ser(t.of, v[i])])
      [] t.k = "chain" -> FlattenSeq([i \in DOMAIN v |-> Ser(t.of, v[i]) \o Ser(Bool, i < Len(v))])
      [] t.k = "fields" -> FlattenSeq([i \in DOMAIN v |-> Ser(Resolve(t.of[i], v), v[i])])

De(t, buf) ==
    LET Next1(of, acc) == LET x == De(of, acc.rest) IN [v |-> Append(acc.v, x.v), rest |-> x.rest]
        start == [v |-> <<>>, rest |-> buf]
    IN CASE t.k = "int" -> TakeInt(t, buf)
         [] t.k = "bool" -> TakeBool(buf)
         [] t.k = "str" -> TakeStr(buf)
         [] t.k = "list" -> LET n == TakeInt(Uint(4), buf)
                            IN FoldLeft(LAMBDA acc, i : Next1(t.of, acc), [start EXCEPT !.rest = n.rest],
                                        [i \in 1..n.v |-> i])
         [] t.k = "opt" -> LET b == TakeBool(buf) IN
                           IF b.v THEN Next1(t.of, [start EXCEPT !.rest = b.rest]) ELSE [start EXCEPT !.rest = b.rest]
         [] t.k = "chain" -> LET x == De(t.of, buf)
                                 more == TakeBool(x.rest)
                                 tail == IF more.v THEN De(t, more.rest) ELSE [v |-> <<>>, rest |-> more.rest]
                             IN [v |-> <<x.v>> \o tail.v, rest |-> tail.rest]
         [] t.k = "fields" -> FoldLeft(LAMBDA acc, f : Next1(Resolve(f, acc.v), acc), start, t.of)

Row == List(Str)
Table == List(Row)
Bson == Opt(Str)
StringMap == List(Fields(<<Str, Str>>))
ScoreArray == List(Fields(<<Uint(8), Str>>))

-----------------------------------------------------------------------------
(* The message classes: what serialize() writes, what deserialize() reads. *)

MysqlReqWritten == Fields(<<Uint(2), Sint(1), Uint(1), Str, Bool, Opt(Fields(<<Table, Sint(4), Sint(4)>>))>>)

MysqlReqRead == Fields(<<Uint(2), Sint(1), Uint(1), Str, Bool, Opt(Fields(<<Table, Sint(4), Sint(4)>>))>>)

MysqlRespWritten == Fields(<<Uint(2), Sint(8), Sint(4), List(Table), List(Uint(4))>>)

MysqlRespRead == Fields(<<Uint(2), Sint(8), Sint(4), List(Table), List(Uint(4))>>)

RedisReqWritten == Fields(<<Uint(2), Sint(1), Uint(1), List(Str)>>)

RedisReqRead == Fields(<<Uint(2), Sint(1), Uint(1), List(Str)>>)

\* By type: execCommandStat, Int, Str, SA, SM, SCA.
RedisRespWritten == Fields(<<Uint(2), Sint(8), Sint(1), Sint(4),
    Switch(3, <<Bool, Sint(8), Str, Row, StringMap, ScoreArray>>)>>)

RedisRespRead == Fields(<<Uint(2), Sint(8), Sint(1), Sint(4),
    Switch(3, <<Bool, Sint(8), Str, Row, StringMap, ScoreArray>>)>>)

MongoReqWritten == Chain(Fields(<<Uint(2), Sint(1), Uint(1), Str, Bson, Bson, Bson, List(Bson)>>))

MongoReqRead == Chain(Fields(<<Uint(2), Sint(1), Uint(1), Str, Bson, Bson, Bson, List(Bson)>>))

MongoRespWritten == Fields(<<Uint(2), Sint(8), Sint(4), Bson, List(Bson)>>)

MongoRespRead == Fields(<<Uint(2), Sint(8), Sint(4), Bson, List(Bson)>>)

DHExchangeReq == Fields(<<Str, Str, Str>>)

ECDHExchangeReq == Fields(<<Uint(4), Str>>)

\* By kx_type: KX_DH, KX_ECDH.
HandshakeReq == Fields(<<Uint(1), Switch(1, <<DHExchangeReq, ECDHExchangeReq>>), Str, Uint(1)>>)

HandshakeResp == Fields(<<Uint(1), Switch(1, <<Str, Str>>), Uint(1)>>)

Classes ==
    [mysql_req |-> <<MysqlReqWritten, MysqlReqRead>>, mysql_resp |-> <<MysqlRespWritten, MysqlRespRead>>,
     redis_req |-> <<RedisReqWritten, RedisReqRead>>, redis_resp |-> <<RedisRespWritten, RedisRespRead>>,
     mongo_req |-> <<MongoReqWritten, MongoReqRead>>, mongo_resp |-> <<MongoRespWritten, MongoRespRead>>,
     hs_req |-> <<HandshakeReq, HandshakeReq>>, hs_resp |-> <<HandshakeResp, HandshakeResp>>]
=============================================================================
