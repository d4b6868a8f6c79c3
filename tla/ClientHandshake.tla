--------------------------- MODULE ClientHandshake --------------------------
(***************************************************************************)
(* The agent's side of one client connection, from the first byte to the   *)
(* relay: ClientTransportDispatcher::dispatch and the two handshakes,      *)
(* Socks5ClientTransport and HttpClientTransport.                          *)
(*                                                                         *)
(* The client's bytes arrive in pieces of any size.  A Framed collects     *)
(* them in its read buffer until its decoder has a message.  The           *)
(* dispatcher hands its buffer on to the handshake; at every later change  *)
(* of the decoder, and at the end, into_parts drops what is left in it.    *)
(*                                                                         *)
(* HttpCodec never advances the buffer, while the request_decoder of the   *)
(* library keeps what it was given: a request that arrives in two pieces   *)
(* is fed to it twice from its first byte.                                 *)
(*                                                                         *)
(* The request to the proxy is one step here; TcpTunnel has its details.   *)
(***************************************************************************)
EXTENDS Socks5Codec, SequencesExt

CONSTANTS
    Clients,    \* what a client may ask for: records made by the operators below
    Data        \* the bytes a client sends through its tunnel

VARIABLES
    client,     \* the client of this connection
    written,    \* how many of its messages the client has written
    stream,     \* bytes the client has written and the agent has not read
    closed,     \* the client has closed its connection
    agent,      \* where the agent's handler is
    buf,        \* read_buf of the Framed in use
    dst,        \* the decoded destination, or <<>>
    replies,    \* the messages the agent has written to the client
    relayed,    \* bytes that reached the tunnel
    lost,       \* bytes dropped with the decoder of the methods
    dropped,    \* bytes dropped with the decoder of the request
    cut,        \* a decoder has decided on, or kept, a part of a message
    inside,     \* request_decoder has kept bytes of an earlier call
    refused     \* the proxy opened no tunnel, or no udp socket was bound

vars == <<client, written, stream, closed, agent, buf, dst, replies, relayed,
          lost, dropped, cut, inside, refused>>

clientVars == <<client, written, closed>>

-----------------------------------------------------------------------------
(* Clients                                                                 *)

\* eager: the client does not wait for an answer before it writes on.
Socks5(methods, type, address, eager) ==
    [protocol |-> "socks5", methods |-> methods, type |-> type,
     address |-> address, eager |-> eager]
Http(type, address, eager) ==
    [protocol |-> "http", type |-> type, address |-> address, eager |-> eager]
Socks4 == [protocol |-> "socks4", eager |-> FALSE]

\* Three bytes stand for the text of an HTTP request.
HttpRequest == <<72, 84, 80>>

\* What the client writes, message by message.  Its tunnel data come last.
Messages ==
    CASE client.protocol = "socks5" ->
            << <<SOCKS_V5, Len(client.methods)>> \o client.methods,
               <<SOCKS_V5, client.type, 0>> \o AddressBytes(client.address) >>
              \o (IF client.type = CONNECT THEN <<Data>> ELSE <<>>)
      [] client.protocol = "http"   -> << HttpRequest, Data >>
      [] client.protocol = "socks4" -> << <<SOCKS_V4, CONNECT>> >>

\* How many bytes a SOCKS5 client takes for the answer to its request.
ReplyLength(reply) ==
    LET host == CASE reply[4] = IPV4_FLAG   -> 4
                  [] reply[4] = IPV6_FLAG   -> 16
                  [] reply[4] = DOMAIN_FLAG -> 1 + reply[5]
                  [] OTHER                  -> 0
    IN  4 + host + 2

Socks5Clients ==
    [protocol : {"socks5"}, methods : {s \in Seq(Byte) : Len(s) <= 255}, type : Byte,
     address : Socks5Address, eager : BOOLEAN]
HttpClients ==
    [protocol : {"http"}, type : {0, CONNECT},
     address : [flag : {DOMAIN_FLAG}, host : Seq(Byte), port : Seq(Byte)], eager : BOOLEAN]

ASSUME ClientsAssumption == Clients \subseteq Socks5Clients \cup HttpClients \cup {Socks4}
ASSUME DataAssumption    == Data \in Seq(Byte)

-----------------------------------------------------------------------------

Reading == {"dispatch", "auth", "init"}
Decided == {"relay", "udp_relay", "failed", "panicked"}

\* The state is well formed: every answer is written once, and the relays
\* start with an empty read buffer.
TypeOK ==
    /\ client \in Clients
    /\ written \in 0..Len(Messages)
    /\ closed \in BOOLEAN /\ cut \in BOOLEAN /\ inside \in BOOLEAN /\ refused \in BOOLEAN
    /\ agent \in Reading \cup Decided
                 \cup {"auth_reply", "http", "http_more", "proxy", "reply", "udp_reply"}
    /\ Len(replies) <= 2
    /\ agent \in {"relay", "udp_relay"} => buf = <<>>

Init ==
    /\ client \in Clients
    /\ written = 0
    /\ stream = <<>>
    /\ closed = FALSE
    /\ agent = "dispatch"
    /\ buf = <<>>
    /\ dst = <<>>
    /\ replies = <<>>
    /\ relayed = <<>>
    /\ lost = <<>>
    /\ dropped = <<>>
    /\ cut = FALSE
    /\ inside = FALSE
    /\ refused = FALSE

-----------------------------------------------------------------------------
(* The client (external)                                                   *)

\* It is the turn of the next message: its predecessors were answered.  A plain
\* HTTP request is answered by the destination, through the tunnel.
ItsTurn ==
    \/ client.eager
    \/ written <= Len(replies)
    \/ client.protocol = "http" /\ client.type # CONNECT /\ agent = "relay"

ClientWrites ==
    /\ ~closed
    /\ written < Len(Messages)
    /\ ItsTurn
    /\ stream' = stream \o Messages[written + 1]
    /\ written' = written + 1
    /\ UNCHANGED <<client, closed, agent, buf, dst, replies, relayed, lost, dropped,
                   cut, inside, refused>>

ClientCloses ==
    /\ ~closed
    /\ closed' = TRUE
    /\ UNCHANGED <<client, written, stream, agent, buf, dst, replies, relayed,
                   lost, dropped, cut, inside, refused>>

-----------------------------------------------------------------------------
(* Framed (external)                                                       *)

\* A url that does not parse or has no host.
NoHost == Address(DOMAIN_FLAG, <<>>, <<>>)

\* What HttpCodec::decode may return.  request_decoder decodes a request that it
\* gets at once.  A part of one is an incomplete decoding, which it keeps, or
\* another error.  Once it has kept something, the buffer that comes again from
\* its first byte makes a text nobody wrote: it is incomplete, wrong, or read as
\* a request whose url is intact or is none.
decodeHttp(src) ==
    LET request(dest) == Ok([type |-> client.type, dst |-> dest], src)
    IN  IF inside THEN {None, Err, request(client.address), request(NoHost)}
        ELSE IF IsPrefix(HttpRequest, src) THEN {request(client.address)}
        ELSE {None, Err}

\* What the decoder in use makes of the read buffer.
Decoded ==
    CASE agent = "dispatch" -> IF buf = <<>> THEN None ELSE Ok(Head(buf), buf)
      [] agent = "auth"     -> decodeAuth(buf)
      [] agent = "init"     -> decodeInit(buf)

\* The decoder needs more, and some of what was written has arrived.  At http a
\* call of HttpCodec is due; at http_more it has returned None.
Receive ==
    /\ \/ agent \in Reading /\ Decoded.result = "none" /\ agent' = agent
       \/ agent = "http_more" /\ agent' = "http"
    /\ \E n \in 1..Len(stream) :
          /\ buf' = buf \o Prefix(stream, n)
          /\ stream' = Skip(stream, n)
    /\ UNCHANGED clientVars
    /\ UNCHANGED <<dst, replies, relayed, lost, dropped, cut, inside, refused>>

\* into_parts: the buffer goes with its Framed.  HttpCodec has left the request
\* in it.
DropBuffer ==
    /\ buf' = <<>>
    /\ dropped' = dropped \o (IF client.protocol = "http"
                              THEN Skip(buf, Len(HttpRequest)) ELSE buf)

-----------------------------------------------------------------------------
(* The agent                                                               *)

\* The handler returns Err, or its task panics; its sockets are closed.
Fail ==
    /\ agent' = "failed"
    /\ UNCHANGED <<stream, buf, dst, replies, relayed, lost, dropped>>

Panics ==
    /\ agent' = "panicked"
    /\ UNCHANGED <<stream, buf, dst, replies, relayed, lost, dropped>>

\* The stream ends before the decoder has its message, or a write fails.
SeesEnd ==
    /\ closed
    /\ \/ agent \in Reading /\ stream = <<>> /\ Decoded.result = "none"
       \/ agent \in {"auth_reply", "reply", "udp_reply"}
    /\ Fail
    /\ UNCHANGED clientVars /\ UNCHANGED <<cut, inside, refused>>

\* The first byte, which stays in the buffer, selects the protocol.
Dispatch ==
    /\ agent = "dispatch"
    /\ Decoded.result = "ok"
    /\ CASE Decoded.value = SOCKS_V5 -> agent' = "auth"
         [] Decoded.value = SOCKS_V4 -> agent' = "failed"
         [] OTHER                    -> agent' = "http"
    /\ UNCHANGED clientVars
    /\ UNCHANGED <<stream, buf, dst, replies, relayed, lost, dropped, cut, inside, refused>>

\* The decoder decides although the client's n-th message is not complete.
Truncated(n) == cut' = (cut \/ IsStrictPrefix(buf, Messages[n]))

Authenticate ==
    /\ agent = "auth"
    /\ \/ /\ Decoded.result = "ok"
          /\ agent' = "auth_reply"
          /\ buf' = Decoded.rest
          /\ UNCHANGED <<stream, dst, replies, relayed, lost, dropped>>
       \/ Decoded.result = "panic" /\ Panics
       \/ Decoded.result = "err" /\ Fail
    /\ Truncated(1)
    /\ UNCHANGED clientVars /\ UNCHANGED <<inside, refused>>

\* The answer is sent and the second decoder gets the connection.
SendAuthReply ==
    /\ agent = "auth_reply"
    /\ agent' = "init"
    /\ replies' = Append(replies, AuthReply)
    /\ buf' = <<>>
    /\ lost' = buf
    /\ UNCHANGED clientVars /\ UNCHANGED <<stream, dst, relayed, dropped, cut, inside, refused>>

\* "0.0.0.1" and "localhost".
OneName       == <<48, 46, 48, 46, 48, 46, 49>>
LocalhostName == <<108, 111, 99, 97, 108, 104, 111, 115, 116>>

\* Destinations the two handlers do not accept.  HTTP makes every host a name,
\* and does not know localhost.
NotAllowed(a) ==
    \/ a.flag = IPV4_FLAG /\ (a.host[1] = 127 \/ a.host = <<0, 0, 0, 0>>)
    \/ a.flag = IPV6_FLAG /\ Prefix(a.host, 15) = [i \in 1..15 |-> 0] /\ a.host[16] \in {0, 1}
    \/ a.flag = DOMAIN_FLAG /\ a.host \in {LoopbackName, OneName}
    \/ client.protocol = "socks5" /\ a.flag = DOMAIN_FLAG /\ a.host = LocalhostName
    \/ client.protocol = "http" /\ a = NoHost

\* The request is decoded and handed to the handler of its command; bind is
\* unimplemented!().
InitCommand ==
    /\ agent = "init"
    /\ \/ /\ Decoded.result = "ok"
          /\ buf' = Decoded.rest
          /\ dst' = Decoded.value.dst
          /\ agent' = IF Decoded.value.type = BIND               THEN "panicked"
                      ELSE IF Decoded.value.type = UDP_ASSOCIATE THEN "udp_reply"
                      ELSE IF NotAllowed(Decoded.value.dst)      THEN "failed"
                      ELSE "proxy"
          /\ UNCHANGED <<stream, replies, relayed, lost, dropped>>
       \/ Decoded.result = "err" /\ Fail
    /\ Truncated(2)
    /\ UNCHANGED clientVars /\ UNCHANGED <<inside, refused>>

\* HttpCodec is called, for the last time at the end of the stream.  A request
\* it returns has its url parsed.
HttpCommand ==
    /\ agent = "http" \/ (agent = "http_more" /\ closed /\ stream = <<>>)
    /\ \E decoded \in decodeHttp(buf) :
          \/ /\ decoded.result = "ok"
             /\ dst' = decoded.value.dst
             /\ agent' = IF NotAllowed(decoded.value.dst) THEN "failed" ELSE "proxy"
             /\ UNCHANGED <<stream, buf, replies, relayed, lost, dropped, inside>>
          \/ /\ decoded.result = "none" /\ agent = "http"
             /\ agent' = "http_more"
             /\ inside' = TRUE
             /\ UNCHANGED <<stream, buf, dst, replies, relayed, lost, dropped>>
          \/ /\ decoded.result = "err" \/ (decoded.result = "none" /\ agent = "http_more")
             /\ Fail
             /\ UNCHANGED inside
    /\ Truncated(1)
    /\ UNCHANGED clientVars /\ UNCHANGED refused

\* The exchange with the proxy.  A plain HTTP request is not answered by the
\* agent: it becomes init_data and the relay starts.
AskProxy ==
    /\ agent = "proxy"
    /\ \/ /\ client.protocol = "http" /\ client.type # CONNECT
          /\ agent' = "relay"
          /\ DropBuffer
          /\ UNCHANGED <<stream, dst, replies, relayed, lost, refused>>
       \/ /\ client.protocol = "socks5" \/ client.type = CONNECT
          /\ agent' = "reply"
          /\ UNCHANGED <<stream, buf, dst, replies, relayed, lost, dropped, refused>>
       \/ Fail /\ refused' = TRUE
    /\ UNCHANGED clientVars /\ UNCHANGED <<cut, inside>>

\* UdpSocket::bind fails.
BindFails ==
    /\ agent = "udp_reply"
    /\ Fail
    /\ refused' = TRUE
    /\ UNCHANGED clientVars /\ UNCHANGED <<cut, inside>>

\* 200 Connection Established, as one byte; the local address of an udp socket.
HttpEstablished == <<200>>
UdpBindAddress  == Address(IPV4_FLAG, <<0, 0, 0, 0>>, <<1, 0>>)

Answer ==
    IF agent = "udp_reply" THEN InitReply(UdpBindAddress)
    ELSE IF client.protocol = "socks5" THEN InitReply(dst)
    ELSE HttpEstablished

\* Mutant: the read buffer, a request still in it, goes into the tunnel.
Mutant_Reply ==
    /\ agent \in {"reply", "udp_reply"}
    /\ replies' = Append(replies, Answer)
    /\ agent' = IF agent = "udp_reply" THEN "udp_relay" ELSE "relay"
    /\ buf' = <<>>
    /\ relayed' = buf
    /\ UNCHANGED clientVars /\ UNCHANGED <<stream, dst, lost, dropped, cut, inside, refused>>

\* Mutant: the connection keeps its Framed.
Mutant_Reply_Keeps ==
    /\ agent \in {"reply", "udp_reply"}
    /\ replies' = Append(replies, Answer)
    /\ agent' = IF agent = "udp_reply" THEN "udp_relay" ELSE "relay"
    /\ UNCHANGED clientVars /\ UNCHANGED <<stream, buf, dst, relayed, lost, dropped, cut, inside, refused>>

\* The client is told that it is connected, or where to send its datagrams.
Reply ==
    /\ agent \in {"reply", "udp_reply"}
    /\ replies' = Append(replies, Answer)
    /\ agent' = IF agent = "udp_reply" THEN "udp_relay" ELSE "relay"
    /\ DropBuffer
    /\ UNCHANGED clientVars /\ UNCHANGED <<stream, dst, relayed, lost, cut, inside, refused>>

\* The relay takes what is there; a udp association reads and forgets it.
Relay ==
    /\ agent \in {"relay", "udp_relay"}
    /\ \E n \in 1..Len(stream) :
          /\ relayed' = IF agent = "relay" THEN relayed \o Prefix(stream, n) ELSE relayed
          /\ stream' = Skip(stream, n)
    /\ UNCHANGED clientVars
    /\ UNCHANGED <<agent, buf, dst, replies, lost, dropped, cut, inside, refused>>

-----------------------------------------------------------------------------

Handshake ==
    \/ Receive \/ SeesEnd \/ Dispatch \/ Authenticate \/ SendAuthReply
    \/ InitCommand \/ HttpCommand \/ AskProxy \/ BindFails \/ Reply

Next == ClientWrites \/ ClientCloses \/ Handshake \/ Relay

Spec == Init /\ [][Next]_vars

\* Fairness: tokio polls the handler, written bytes arrive, and the proxy's
\* answer is decided (HandshakeResolves of TcpTunnel).  A client writes on when
\* it is its turn, or closes: the agent has no timeout for it.
FairSpec ==
    /\ Spec
    /\ WF_vars(Handshake)
    /\ WF_vars(Relay)
    /\ WF_vars(ClientWrites)

-----------------------------------------------------------------------------
(* Properties                                                              *)

\* A request the agent serves: the protocol and the command are implemented and
\* the destination is allowed.
Served ==
    /\ client.protocol \in {"socks5", "http"}
    /\ client.protocol = "socks5" => client.type \in {CONNECT, UDP_ASSOCIATE}
    /\ client.type = UDP_ASSOCIATE \/ ~NotAllowed(client.address)
    /\ client.protocol = "socks5" /\ client.type = CONNECT => client.address.host # ZeroName

\* A handshake that fails, or panics, has a cause outside the agent's own
\* bookkeeping of buffers: the request is one that is not served, the proxy
\* refused it, the client went away or wrote ahead, or tcp split one of its
\* messages where the decoders do not expect it: behind the first two (methods)
\* or four (request) bytes of SOCKS5, or anywhere in an HTTP request, which is
\* then an error at once or is fed to its decoder a second time.
FailsOnlyForCause ==
    agent \in {"failed", "panicked"} =>
        \/ ~Served \/ refused \/ closed \/ client.eager
        \/ cut /\ (client.protocol = "socks5" => Len(buf) >= (IF replies = <<>> THEN 2 ELSE 4))

\* The tunnel carries the client's data from the first byte on, no byte of the
\* handshake enters it, and all that can be missing is a first part that an
\* eager client sent before its answer and into_parts has dropped.  There are two
\* exceptions.  A SOCKS5 request may be cut by the first into_parts: the rest of
\* it, or of the data, may then be taken for a request of its own.  And an HTTP
\* request that was fed twice may be over, for its decoder, before all of it is
\* there: the rest of it then enters the tunnel.
TunnelCarriesData ==
    agent = "relay" =>
        /\ lost = <<>> /\ ~inside => IsPrefix(dropped \o relayed, Data)
        /\ ~client.eager => lost = <<>> /\ dropped = <<>>

\* A client whose request reached its decoder gets answers it can read: each is
\* one whole SOCKS5 message, and the answer to a CONNECT names the destination
\* that was asked for, which is also the one the tunnel leads to.
AnswersTheRequest ==
    client.protocol = "socks5" /\ lost = <<>> =>
        /\ Len(replies) = 2 => ReplyLength(replies[2]) = Len(replies[2])
        /\ agent = "relay" =>
              /\ dst = client.address
              /\ parse(Skip(replies[2], 3)) = Ok(client.address, <<>>)

\* A UDP packet that is encoded and decoded comes out as it was, and one that is
\* cut off inside its header is an error, never a panic or a packet.
UdpPacketRoundTrip ==
    client.protocol = "socks5" =>
        LET packet == PacketBytes(0, client.address, Data)
            header == Len(packet) - Len(Data)
            read   == decodePacket(packet)
        IN  /\ read.result = "ok" /\ read.rest = Data
            /\ read.value.frag = 0
            /\ read.value.address = client.address \/ client.address.host = ZeroName
            /\ \A n \in 0..(header - 1) : decodePacket(Prefix(packet, n)).result = "err"

\* The handshake of a client that waits for its answers comes to a decision,
\* unless its HTTP request was fed twice: what that makes may be incomplete for
\* ever, and both sides then wait.
HandshakeDecides ==
    ~client.eager ~> agent \in Decided \/ inside
=============================================================================
