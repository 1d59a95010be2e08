------------------------------- MODULE Cipher -------------------------------
(***************************************************************************)
(* The ciphers of src/fszm/openssl_utils_v2.hpp as the handshake and the    *)
(* gateway use them: symmetric_encrypt(), which pads with zeros and never   *)
(* unpads, and the chunked RSA of handshake_helper.  The primitives of OpenSSL are  *)
(* stood in for by small invertible functions on bytes.                     *)
(***************************************************************************)
EXTENDS Codec

CONSTANTS
    BlockLen,       \* block length of each family: 8 for DES and 3DES, 16 for Camellia and AES
    RsaLen, RsaPad, \* EVP_PKEY_size(), and the 11 bytes of PKCS1 padding
    KeyByte,        \* what a key adds to a byte
    KeyLens,        \* lengths of key and vector that are passed: pairs
    WireMessages,   \* messages of the classes of Codec: records of class and value
    PlainTexts      \* session data

VARIABLES
    wire,           \* what is encoded: a record of kind, and message or text, cipher and key
    wireOut         \* what the other side decodes: <<>> before, <<FALSE>> if a step failed, <<TRUE, value>>

wireVars == <<wire, wireOut>>

-----------------------------------------------------------------------------
(* symmetric_encrypt().                                                    *)

\* eEncryptType; one member function per family and mode.
DesTypes == {"DES", "3DES"} \X {"ECB", "CBC", "CFB", "OFB"}

CamelliaTypes == {"CAMELLIA"} \X {"ECB", "CBC", "CFB", "OFB", "CTR"}

AesTypes == {"AES"} \X {"ECB", "CBC", "CFB", "OFB", "CTR"}

SymmetricTypes == DesTypes \cup CamelliaTypes \cup AesTypes

IsBlock(type) == type[2] \in {"ECB", "CBC"}

\* OpenSSL: block modes and CFB have two directions; OFB and CTR combine the
\* data with a key stream, the same in both.
EvpUpdate(type, data, encrypt) ==
    [i \in DOMAIN data |->
        CASE type[2] \in {"OFB", "CTR"} -> (KeyByte - data[i]) % ByteValues
          [] encrypt -> (data[i] + KeyByte) % ByteValues
          [] OTHER -> (data[i] - KeyByte) % ByteValues]

PaddedLen(type, n) ==
    IF IsBlock(type) THEN ((n + BlockLen[type[1]] - 1) \div BlockLen[type[1]]) * BlockLen[type[1]] ELSE n

Padded(type, data) == [i \in 1..PaddedLen(type, Len(data)) |-> IF i <= Len(data) THEN data[i] ELSE 0]

\* The lengths symmetric_encrypt() accepts: 8 bytes of each, and 24 of key for
\* 3DES in a block mode.
KeyAccepted(type, key) ==
    /\ key[1] >= 8 /\ key[2] >= 8
    /\ type[1] = "3DES" /\ IsBlock(type) => key[1] >= 24

\* What it may give: nothing (a refused key, an allocation or a call of OpenSSL
\* that fails) or one text.  OFB and CTR always call evp_cipher_op() to encrypt.
SymmetricEncrypt(type, key, data, encrypt) ==
    {<<>>} \cup IF KeyAccepted(type, key)
                  THEN {<<EvpUpdate(type, Padded(type, data), encrypt \/ type[2] \in {"OFB", "CTR"})>>}
                ELSE {}

-----------------------------------------------------------------------------
(* handshake_helper::rsaEncrypt().                                         *)

\* rsa_encrypt(): a chunk that fits becomes a block of the key's size, and back.
RsaBlock(chunk, enc) ==
    IF enc THEN <<Len(chunk)>> \o chunk \o [i \in 1..(RsaLen - 1 - Len(chunk)) |-> KeyByte]
    ELSE SubSeq(chunk, 2, chunk[1] + 1)

RsaEncrypt_KeepsBlocks(data, enc) ==
    LET blockIn == IF enc THEN RsaLen - RsaPad ELSE RsaLen
        times == (Len(data) + blockIn - 1) \div blockIn
        chunk(i) == SubSeq(data, (i - 1) * blockIn + 1, IF i = times THEN Len(data) ELSE i * blockIn)
    IN {FlattenSeq([i \in 1..(bad - 1) |-> RsaBlock(chunk(i), enc)]) : bad \in 1..(times + 1)}

\* What it may give: bad is the first block rsa_encrypt() fails on, which clears
\* what the earlier ones gave; an empty result is a failure.
RsaEncrypt(data, enc) ==
    LET blockIn == IF enc THEN RsaLen - RsaPad ELSE RsaLen
        times == (Len(data) + blockIn - 1) \div blockIn
        chunk(i) == SubSeq(data, (i - 1) * blockIn + 1, IF i = times THEN Len(data) ELSE i * blockIn)
    IN {IF bad > times THEN FlattenSeq([i \in 1..times |-> RsaBlock(chunk(i), enc)]) ELSE <<>> :
            bad \in 1..(times + 1)}

-----------------------------------------------------------------------------
(* The other side decodes.                                                 *)

\* A handshake and a session of the gateway use AES and 16 bytes of key and of
\* vector; a session whose handshake is not done has an empty key.  3DES in a
\* stream mode reads 24 bytes of a key it does not measure: it is given that many.
WireInit ==
    /\ wire \in [kind : {"message"}, msg : WireMessages, type : AesTypes, key : {<<16, 16>>}, text : {<<>>}]
                \cup [kind : {"session"}, msg : {<<>>}, type : SymmetricTypes, key : KeyLens, text : PlainTexts]
    /\ wire.type[1] = "3DES" /\ ~IsBlock(wire.type) => wire.key # <<16, 16>>
    /\ wireOut = <<>>

\* Encrypted on one side and decrypted on the other, if neither fails.
ThereAndBack(type, key, data) ==
    UNION {IF e = <<>> THEN {<<>>} ELSE SymmetricEncrypt(type, key, e[1], FALSE) :
              e \in SymmetricEncrypt(type, key, data, TRUE)}

\* encryptHSReq() and decryptHSReq(), encryptHSResp() and decryptHSResp(); other
\* messages go as they are.
Transport(class, type, key, data) ==
    CASE class = "hs_req" -> {IF d = <<>> THEN <<>> ELSE <<d>> :
                                  d \in UNION {RsaEncrypt(e, FALSE) : e \in RsaEncrypt(data, TRUE)}}
      [] class = "hs_resp" -> ThereAndBack(type, key, data)
      [] OTHER -> {<<data>>}

WireDecode ==
    /\ wireOut = <<>>
    /\ \/ /\ wire.kind = "session"
          /\ \E d \in ThereAndBack(wire.type, wire.key, wire.text) :
                wireOut' = IF d = <<>> THEN <<FALSE>> ELSE <<TRUE, d[1]>>
       \/ /\ wire.kind = "message"
          /\ LET c == Classes[wire.msg.class] IN
             \E d \in Transport(wire.msg.class, wire.type, wire.key, Ser(c[1], wire.msg.val)) :
                wireOut' = IF d = <<>> THEN <<FALSE>> ELSE <<TRUE, De(c[2], d[1]).v>>
    /\ UNCHANGED wire

WireNext == WireDecode

-----------------------------------------------------------------------------
\* Every message class is read back as it was written (serialize() and
\* deserialize() agree field by field), a handshake also through the chunks of
\* RSA and the zero padding of the temporary cipher: whole, or not at all when a
\* block or a cipher call fails on either side; and session data comes back under
\* every cipher, with zeros appended up to a block and nothing else changed, and,
\* of the lengths that are passed, only under a key as long as the cipher reads.
WireRoundTrip ==
    Len(wireOut) = 2 =>
        IF wire.kind = "message" THEN wireOut[2] = wire.msg.val
        ELSE /\ wire.key[1] >= IF wire.type[1] = "DES" THEN 8 ELSE IF wire.type[1] = "3DES" THEN 24 ELSE 16
             /\ Len(wireOut[2]) >= Len(wire.text)
             /\ \A i \in DOMAIN wireOut[2] : wireOut[2][i] = IF i <= Len(wire.text) THEN wire.text[i] ELSE 0
             /\ Len(wireOut[2]) < Len(wire.text) + BlockLen[wire.type[1]]
             /\ ~IsBlock(wire.type) => wireOut[2] = wire.text
=============================================================================
