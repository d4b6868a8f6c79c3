----------------------------- MODULE Socks5Codec ----------------------------
(***************************************************************************)
(* The SOCKS5 messages of the agent, byte by byte: the decoders and        *)
(* encoders of agent/src/transport/socks/codec.rs and                      *)
(* agent/src/transport/socks/message.                                      *)
(*                                                                         *)
(* A decoder returns None (more bytes are needed), Err, Panic (a get_u8 on *)
(* an empty buffer) or Ok with the message and the bytes after it.         *)
(* Names are sequences of ASCII bytes, which from_utf8_lossy keeps.        *)
(***************************************************************************)
EXTENDS Naturals, Sequences

SOCKS_V4 == 4
SOCKS_V5 == 5

IPV4_FLAG   == 1
DOMAIN_FLAG == 3
IPV6_FLAG   == 4

None  == [result |-> "none"]
Err   == [result |-> "err"]
Panic == [result |-> "panic"]
Ok(value, rest) == [result |-> "ok", value |-> value, rest |-> rest]

\* The first n elements of s, and the others.
Prefix(s, n) == SubSeq(s, 1, n)
Skip(s, n)   == SubSeq(s, n + 1, Len(s))

-----------------------------------------------------------------------------
(* Addresses                                                               *)

Byte     == 0..255
Bytes(n) == {s \in Seq(Byte) : Len(s) = n}

\* The ASCII names whose length fits in a byte.
Names == {s \in Seq(0..127) : Len(s) <= 255}

\* Socks5Address: the bytes of an ip address or of a name, and of the port.
Address(flag, host, port) == [flag |-> flag, host |-> host, port |-> port]

Socks5Address ==
    [flag : {IPV4_FLAG}, host : Bytes(4), port : Bytes(2)]
      \cup [flag : {IPV6_FLAG}, host : Bytes(16), port : Bytes(2)]
      \cup [flag : {DOMAIN_FLAG}, host : Names, port : Bytes(2)]

\* "0", and "127.0.0.1"
ZeroName     == <<48>>
LoopbackName == <<49, 50, 55, 46, 48, 46, 48, 46, 49>>

\* Mutant: one byte too many is asked for.
Mutant_HostAndPort(flag, n, src) ==
    IF Len(src) < n + 3 THEN Err
    ELSE Ok(Address(flag, Prefix(src, n), SubSeq(src, n + 1, n + 2)), Skip(src, n + 2))

\* A host of n bytes and a port of two.
HostAndPort(flag, n, src) ==
    IF Len(src) < n + 2 THEN Err
    ELSE Ok(Address(flag, Prefix(src, n), SubSeq(src, n + 1, n + 2)), Skip(src, n + 2))

\* The name "0" becomes "127.0.0.1".
Rename(parsed) ==
    IF parsed.result = "ok" /\ parsed.value.host = ZeroName
    THEN [parsed EXCEPT !.value.host = LoopbackName] ELSE parsed

\* Socks5Address::parse.  An address that is not complete is an error.
parse(src) ==
    LET flag == Head(src)
        rest == Tail(src)
    IN  IF src = <<>> THEN Err
        ELSE CASE flag = IPV4_FLAG -> HostAndPort(flag, 4, rest)
               [] flag = IPV6_FLAG -> HostAndPort(flag, 16, rest)
               [] flag = DOMAIN_FLAG /\ rest # <<>> ->
                      Rename(HostAndPort(flag, Head(rest), Tail(rest)))
               [] OTHER            -> Err

\* From<Socks5Address> for Bytes; the length of a name is cast to a byte.
AddressBytes(a) ==
    <<a.flag>>
      \o (IF a.flag = DOMAIN_FLAG THEN <<Len(a.host) % 256>> ELSE <<>>)
      \o a.host \o a.port

-----------------------------------------------------------------------------
(* The negotiation of a method                                             *)

\* Socks5AuthMethod: an unknown number is taken for "no authentication".
AuthMethod(b) == IF b \in {0, 1, 2, 3, 8, 16} THEN b ELSE 0

\* Socks5AuthCommandContentCodec::decode checks for two bytes and then takes
\* as many as the second one says.
decodeAuth(src) ==
    IF Len(src) < 2 THEN None
    ELSE IF src[1] # SOCKS_V5 THEN Err
    ELSE IF Len(src) < 2 + src[2] THEN Panic
    ELSE Ok([i \in 1..src[2] |-> AuthMethod(src[2 + i])], Skip(src, 2 + src[2]))

\* NoAuthenticationRequired.
AuthReply == <<SOCKS_V5, AuthMethod(0)>>

-----------------------------------------------------------------------------
(* The request                                                             *)

CONNECT       == 1
BIND          == 2
UDP_ASSOCIATE == 3
SUCCEEDED     == 0

\* Mutant: the decoder waits for eleven bytes instead of four.
Mutant_decodeInit(src) ==
    LET dst == parse(Skip(src, 3))
    IN  IF Len(src) < 11 THEN None
        ELSE IF \/ src[1] # SOCKS_V5
                \/ src[2] \notin {CONNECT, BIND, UDP_ASSOCIATE}
                \/ dst.result # "ok" THEN Err
        ELSE Ok([type |-> src[2], dst |-> dst.value], dst.rest)

\* Socks5InitCommandContentCodec::decode.
decodeInit(src) ==
    LET dst == parse(Skip(src, 3))
    IN  IF Len(src) < 4 THEN None
        ELSE IF \/ src[1] # SOCKS_V5
                \/ src[2] \notin {CONNECT, BIND, UDP_ASSOCIATE}
                \/ dst.result # "ok" THEN Err
        ELSE Ok([type |-> src[2], dst |-> dst.value], dst.rest)

\* Mutant: the reserved byte is forgotten.
Mutant_InitReply(bind_address) == <<SOCKS_V5, SUCCEEDED>> \o AddressBytes(bind_address)

\* Socks5InitCommandContentCodec::encode with a bind address.
InitReply(bind_address) == <<SOCKS_V5, SUCCEEDED, 0>> \o AddressBytes(bind_address)

-----------------------------------------------------------------------------
(* The packets of a UDP association                                        *)

\* TryFrom<Bytes> for Socks5UdpDataPacket.
decodePacket(src) ==
    IF Len(src) < 3 THEN Err
    ELSE LET address == parse(Skip(src, 3))
         IN  IF address.result = "err" THEN Err
             ELSE Ok([frag |-> src[3], address |-> address.value], address.rest)

\* Mutant: the fragment number is forgotten.
Mutant_PacketBytes(frag, address, data) == <<0, 0>> \o AddressBytes(address) \o data

\* From<Socks5UdpDataPacket> for Bytes.
PacketBytes(frag, address, data) == <<0, 0, frag>> \o AddressBytes(address) \o data
=============================================================================
