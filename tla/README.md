# ppaass: a TLA+ development

ppaass is a tunnelling proxy. A client speaks SOCKS5 or HTTP to a local
**agent**; the agent speaks a framed, encrypted protocol to a remote **proxy**;
the proxy connects to the **destination**. This directory holds TLA+ models of
the two processes and of the protocol between them, the TLC configurations that
check them, and TLAPS proofs. Paths below are relative to the repository.

## Inventory

| Component | State | Operations | Hard part |
|---|---|---|---|
| Proxy server and transports (`proxy/src/server.rs`, `proxy/src/transport/mod.rs`) | `transport_number: Arc<AtomicU64>` shared by all tasks; one task per agent connection | accept, spawn, `Transport::exec`: first message, dispatch to a handler | increments and decrements in three files and up to three tasks per transport; early returns |
| Proxy TCP handler (`proxy/src/transport/tcp.rs`) | agent connection, destination connection, two relay tasks | dial with timeout, Success or Fail, spawn two relays, close | the relays end independently, share the sockets and outlive `exec` |
| Proxy UDP handler (`proxy/src/transport/udp.rs`) | UDP socket, `udp_data` | bind, connect, send, receive loop, answer, close | timeouts, the receive loop's end test |
| Agent server, dispatcher, TCP relay (`agent/src/server.rs`, `agent/src/transport/dispatcher.rs`, `agent/src/transport/mod.rs`) | client connection, proxy connection, `init_data`, two relay tasks | protocol detection, handshake, relay | hand-over from the handshake to the relays |
| Agent SOCKS5 and HTTP handshakes (`agent/src/transport/socks`, `agent/src/transport/http`) | framed client connection, proxy connection | negotiate, dial, send Init, await the answer, reply | the wait for the answer has no timeout; bytes in a read buffer are dropped by `into_parts`; `HttpCodec` feeds a split request to its decoder twice |
| Agent UDP association (`agent/src/transport/socks/mod.rs`) | UDP socket, restrict address | relay loop against `select!` on the TCP connection | cancellation, address comparison |
| Dialling: proxy connection factory (`agent/src/connection.rs`), `init_dst_connection` (`proxy/src/transport/tcp.rs`) | address list, deadline | resolve, connect with timeout | one timeout for several addresses; resolving blocks a worker thread outside the timeout |
| Message framing (`common/src/codec`, `common/src/connection`) | `DecodeStatus`, read and write buffers of `Framed` | `encode`, `decode`, `decode_eof` | pieces of any size, cuts, partial frames |
| SOCKS5 messages (`agent/src/transport/socks/message`, `codec.rs`) | none | byte layouts | decoders that read past what has arrived, lengths |
| Message payloads and addresses (`common/src/message`) | none | serialisation, comparison of addresses | names and ip addresses never compare equal |
| Keys (`tool/src/main.rs`, `common/src/crypto/rsa.rs`, `agent/src/crypto.rs`, `proxy/src/crypto.rs`) | files per user, a cache per process filled on first use | generate, load, fetch, encrypt, decrypt | files written one by one and read by two processes at other times |
| Configuration, start-up, errors | - | - | - |

Interaction: the agent's handshake and the proxy's `exec` exchange Init and its
result over the framed connection; after that only Data messages travel, and
each process couples its two connections through `map_while(..).forward(..)`
followed by a close. Inside the proxy all tasks share only `transport_number`.

What makes the parts correct: the counter matches the transports; a handler
that was entered returns; a client is told "established" only when the
destination is connected; each byte stream is delivered in order and without
gaps, and completely unless a connection breaks; the end of one part ends all;
the decoder keeps the frame boundaries; a handshake fails only for a cause
outside the agent's buffers, and the tunnel starts with the client's first byte;
a dial takes a bounded time and reaches the first live address; agent and proxy
agree on the keys of a user whose files they both read after they were written.
`PROJECT.json` lists the hazards line by line, with the property that covers each.

## Modules

| Module | Models | Checked or proved by |
|---|---|---|
| `TransportGauge` | abstract: a gauge that each transport enters once and leaves at most once | refined by `ProxyServer` |
| `ProxyServer` | the proxy process: accept loop, `Transport::exec`, control of both handlers, the counter | `ProxyServer*.cfg`, `ProxyServerProofs` |
| `ProxyServerProofs` | inductive invariant, theorems | tlapm |
| `TunnelService` | abstract: two ordered streams that are shut down independently | refined by `TcpTunnel` |
| `TcpTunnel` | one tunnel end to end: both handshakes, four relay tasks, three TCP connections that may be reset or go silent | `TcpTunnel*.cfg`, `TcpTunnelInv`, `TcpTunnelProofs` |
| `TcpTunnelInv`, `TcpTunnelProofs` | inductive invariant, its handshake part; its stream part, theorems, refinement | tlapm |
| `Socks5Codec` | the SOCKS5 decoders and encoders, byte by byte (operators only) | `ClientHandshake.cfg`, `ClientHandshakeProofs` |
| `ClientHandshake` | one client connection of the agent from the first byte to the relay, on a stream in pieces; extends `Socks5Codec` | `ClientHandshake.cfg`, `ClientHandshakeProofs` |
| `ClientHandshakeProofs` | lemmas on bytes, addresses and decoders, inductive invariant, theorems | tlapm |
| `Dialer` | the timed connects of agent and proxy, several at once on a few worker threads | `Dialer.cfg`, `DialerProofs` |
| `DialerProofs` | lemmas on sums over finite sets, inductive invariant, theorems | tlapm |
| `KeyStore` | the key tool, the key directory and the caches of agent and proxy | `KeyStore.cfg`, `KeyStoreProofs` |
| `KeyStoreProofs` | inductive invariant, theorems | tlapm |
| `UdpAssociation` | a SOCKS5 UDP association: the agent's `select!` loop, and the proxy's `UdpHandler` for each datagram | `UdpAssociation*.cfg`, `UdpAssociationProofs` |
| `UdpAssociationProofs` | inductive invariant, theorems | tlapm |
| `FrameCodec` | encoder, decoder and the `Framed` on both sides | `FrameCodec*.cfg`, `FrameCodecProofs` |
| `FrameCodecProofs` | lemmas on the stream of frames, inductive invariant, theorems | tlapm |
| `MC*` | values for TLC | - |

The modules meet at these places: `ClientHandshake` takes the exchange with the
proxy as one step whose decision is `HandshakeResolves` of `TcpTunnel`, and
`TcpTunnel` starts from a request that `ClientHandshake` has decoded; the outcomes
of `AgentDialsProxy` and `ProxyDialsDestination` are those of `Dialer`; the
constant `keys` of a tunnel is an outcome of `Deliver` in `KeyStore`; the messages
on hop 2 are the frames of `FrameCodec`.

### ProxyServer

`exec[t]` is the await point at which the task of connection `t` is, `up[t]`
and `down[t]` those of the two relay tasks that `TcpHandler::exec` spawns. One
action is what a task does between two awaits, and each `fetch_add` or
`fetch_sub` is atomic. An operation that may fail has one disjunct per outcome.
The agent and the destination appear only as nondeterminism. `down` decrements
and `up` does not, as in `tcp.rs:158`.

Datagrams are sizes. The receive loop continues only if a datagram fills the
65535-byte buffer, and the largest UDP payload is 65507: `DatagramFits` states
that inequality, and `TypeOK` (at most one datagram is collected) depends on it.

### TcpTunnel

Hop 1 is client-agent, hop 2 agent-proxy, hop 3 proxy-destination. `wire[h][d]`
is what was written in direction `d` and not yet read, bounded by `Cap`; `fin`
is a shutdown of the writing side. `hold` is the one item `forward` buffers
while its sink is full. `agent` and `proxy` are the program counters of the
handshakes. `mode` tells a SOCKS5/HTTP CONNECT from a plain HTTP request, whose
re-encoded text is the `init_data` that `tcp_relay` sends first. `keys` is a
constant of a behaviour: RSA keys that match, or a side that cannot decode. An agent
that has no key fails in `encode`, on an open connection (`AgentGivesUp`); the proxy
encodes its answer with the keys of the cache it decoded the request with, so there a
failed send means that the connection is gone.

TCP is external and modelled as the code can observe it. A split socket closes
when both halves are dropped, that is when both relay tasks of a process have
ended; a close with unread input is a reset; a reset leaves the reader an
arbitrary prefix of what was in flight and makes later writes fail; a write to a
connection whose peer has closed is lost and resets it. `Break` is a reset by
the network or an endpoint, at any time, on any hop.

An endpoint may also vanish (`Vanish`): of what it sent a prefix arrives, and its
connection is `silent`, which nobody notices, until somebody writes to it. Then it
is `dying`: the kernel retransmits and at last gives up (`KernelGivesUp`, fair).

A client sends nothing between its request and the answer; `ClientHandshake` has
the clients that do.

### ClientHandshake and Socks5Codec

`stream` holds bytes the client has written; `Receive` moves any number of them
into `buf`, the read buffer of the `Framed` in use, as long as its decoder asks for
more. The decoders are those of `Socks5Codec`: each returns "more", an error, a
panic (`get_u8` on an empty buffer) or a message and the rest. The dispatcher's
buffer is handed to the handshake. `into_parts` drops the rest of a buffer: at
`socks/mod.rs:89`, between the decoder of the methods and that of the request
(`SendAuthReply`), and at `socks/mod.rs:197` and 274 and `http/mod.rs:133`, in front of
the relay (`DropBuffer`). `lost` and `dropped` keep what was dropped at the first and at the
second place; they, `cut` and `refused` are history variables for the properties. `eager`
clients write on without waiting for an answer.

The two places differ in what they cost. Bytes dropped in front of the relay are the
first bytes of the tunnel's data. Bytes dropped in front of the second decoder are a
part of the request: the decoder then starts in the middle of it, and the rest of an
address, or the data, may read as a request of its own. The client `Nested` of
`MCClientHandshake` has such an address, and its tunnel may lead to another destination.
Only a client that wrote ahead is exposed to this, and the properties say so: what they
promise of the tunnel and of the answers is conditioned on `lost = <<>>`, and that a
patient client loses nothing is part of `TunnelCarriesData`.

Three bytes stand for an HTTP request. `HttpCodec::decode` gives the whole read buffer
to `request_decoder` (library code, external) at every call and never advances it, so
the request is still in the buffer when it is dropped, and a request that arrives in
pieces is fed again from its first byte to a decoder that has kept the earlier pieces
(`inside`). `decodeHttp` is therefore a set of outcomes: a request that is there at the
first call is decoded; a part of one is an incomplete decoding (`Ok(None)`) or another
error; a text in which the first piece stands twice may be incomplete, wrong, or a
request, whose url is the client's (the repeated piece fell into a header or a body) or
none. At `http` a call is due; at `http_more` the last one returned `None`, and the next
follows more bytes (`Receive`) or the end of the stream (`decode_eof`). Names are ASCII,
which `from_utf8_lossy` keeps.

### Dialer

Tasks of one process share `Workers` threads. `left[t]` counts down to the answer
of the blocking call or of the attempt that is running, `remain[t]` to the timeout.
`Tick` happens only when nothing that is due has a worker; while every worker is
blocked in `to_socket_addrs`, answers and timers that are due wait, and the clocks
run on. `timeout` polls the connect before the timer, hence `Elapsed` needs an
unanswered attempt. The agent's addresses are literal: entries of the configuration
that do not parse are filtered out, none left is a panic. A silent address is one
the kernel gives up only after the timeout. A connect that succeeded is lost if
`set_nodelay` or `set_linger` fails (`unusable`). In the run an attempt takes at least one
tick; the proofs allow none.

### KeyStore

One run of the tool creates the missing directories and writes four files for each
user, each in two steps (`fs::write` truncates, then fills); it may end after any of
them. Each process loads on first use: it opens both files of an entry, reads the
public and then the private key, and keeps the cache until `Restart`. Reading
is interleaved with the tool. `Deliver` is what the codecs do with the keys: both
sides fetch, one seals the AES token, the other opens it. `untouched` is a history
variable: the users whose files were not written since a process began to load.

### FrameCodec

A frame is a flag, a compress byte, a big-endian length and a body, all made of
cells; a body cell carries its message and position, so a body that is cut, shifted
or mixed up is not a body of any message. The flag has two cells and the length
two digits in base 3, so that a split can fall inside each field. `Head_` and the
records of `Data_` are the two variants of `DecodeStatus`. `compress` is
the configuration option. `StartSendFails` is an `encode` that fails after it
has written flag and compress byte; `Cut` loses the rest of the stream;
`Read` delivers a piece of any size; `Decode` and `DecodeEof` follow the
read loop of `Framed` (external).

### UdpAssociation

`relay` is where `udp_relay` is; `CheckControl` is the other branch of its
`select!`, enabled at every await of the loop. Each datagram has its own proxy
connection `link[n]`, its own task `handler[n]` at the proxy and its own socket
`dst_in[n]` towards the destination, as in the code; two exchanges overlap when
the proxy's task of an answered or abandoned one has not ended. A request that cannot
be encoded or decoded, and an answer that cannot be decoded or is not a UDP one, end
the exchange where they are met (`Send`, `FirstMessage`, `Next_`). Addresses keep
their kind (ip or name), host and port, because `PpaassUnifiedAddress::eq`
compares them unresolved and `Socks5Address::parse` rewrites the name "0".
`DestinationAnswers` stops when the handler's socket is closed: the model assumes
that the kernel does not give the same ephemeral port to the next exchange while
an old answer is still under way.

## Runs

| Run | Expectation | What it shows |
|---|---|---|
| `proxy_server` | pass | 3 connections: counter accounting, no wrap-around, refinement of the gauge; handlers return although their destination may never answer |
| `proxy_counter_leak` | violation | a connection that ends before its first valid message stays counted |
| `tcp_tunnel` | pass | stream integrity, handshake order, refinement of the service, with up to 2 faults |
| `tcp_tunnel_live` | pass | the handshake is decided, data arrives, teardown reaches everything unless a connection is silent |
| `tcp_silent` | violation | a vanished endpoint keeps the tunnel's tasks and sockets for ever |
| `udp_association` | pass | the client gets the answers to its own datagrams, each once and in order; exchanges end; a client that leaves takes the association and all its tasks with it |
| `udp_unknown_address` | violation | an association requested with an unknown address serves nobody |
| `frame_codec` | pass | frames survive every split; a cut is an error, or a clean end at a known place |
| `frame_codec_uncompressed` | violation | with `compress = false` nothing can be decoded |
| `client_handshake` | pass | what failures, losses and answers a client can meet, for every split of its bytes; the udp packet format |
| `key_store` | pass | agent and proxy agree on keys both have read since; a bad key costs one user |
| `dialer` | pass | a bound on the time of a dial; the first live address is reached |

Deadlock checking is on in `key_store` and `dialer`, where something can always
happen (a stuck clock in `Dialer` would be a deadlock). It is off elsewhere, because
these systems may stop: all connections have ended, or nobody sends.

**Bounds.** ProxyServer: transports interact only through the counter; a wrong
release needs two transports to hide behind each other, and three leave one more.
The modulus is one more than the number of transports, so that the first
wrap-around in either direction would be visible; the proof covers all values.
The leaking returns of two transports and the interleaving of three tasks are
all reached. TcpTunnel: two chunks up show reordering and a lost middle, `Cap = 2`
both a partly filled and a full connection, and two faults hit two different
hops. For liveness one chunk each way, `Cap = 1` and one fault keep the graph
small; every task and both ends of every hop still take part. UdpAssociation: three
datagrams, so that one exchange can be answered late, abandoned or left over while
the next runs and a stranger comes between; two answers to each, one reset, and a
destination that `parse` rewrites (the answers are told apart by number). FrameCodec: three
messages whose lengths (4, 1, 2) use both length digits, in base 3, and include a body of
one cell; pieces range from one cell to everything. ClientHandshake: 27 clients,
which cover all commands and one that does not exist, address types, destinations that
are refused, and both protocols, patient and eager, and an eager one whose address
contains a request; every split of their bytes. KeyStore: the tool's own
two users and two runs, so that old and new keys mix in every way. Dialer: three
transports on two workers, so that two can block the third; a timeout of three ticks
and addresses that answer within it, at its end and after it, in lists of up to
three, with resolving times from none to the timeout.

**Fairness.** tokio polls a task that can make progress, hence weak fairness of
each task. It is assumed of steps that end by themselves or by a timeout (dial,
`dst_udp_recv_timeout`). The calls to `to_socket_addrs` and the sends and closes on the
agent connection have no timeout in the code; that they end is an assumption on the
resolver and on the agent, which goes on reading. In `ProxyServer` none is assumed of `Accept`,
`FirstMessage`, the ends of the forwards, or an answer to a datagram, since these
wait for a peer without a limit. In `TcpTunnel` the peers are part of the model: it
is assumed that an endpoint goes on reading and shuts its output down after it
has seen the end of its input. The code has no idle timeout that would make this
assumption unnecessary (finding 2). `Break` and the endpoints' sends have no fairness.
In `UdpAssociation` nothing is assumed of the
client, the destination, `recv_from` or `recv`: only the receive timeout is certain
to happen. In `FrameCodec` the receiver is polled and written bytes arrive. In
`ClientHandshake` the handler is polled, written bytes arrive, and a patient client
writes when it is its turn or closes (the agent has no timeout for it); nothing is
assumed of the outcome of a spliced HTTP request, and `HandshakeDecides` excepts it. `KeyStore`
needs none. `Dialer` has time instead: what is due precedes the next tick.

## Findings

1. **Counter leak** (`proxy_counter_leak`). The returns of `Transport::exec` before
   a handler is called (closed early, undecodable, not Init) do not decrement, and
   the "current transport number" in the logs drifts upwards. The same model
   shows that the counter is otherwise exact.
2. **Relay timeouts** (`tcp_silent`). The configuration files set four relay
   timeouts; the proxy's have no getter and the agent's getters no caller, and no
   socket uses keepalive. An endpoint that vanishes while nobody writes to it keeps
   both relays of both processes, and three connections, for ever.
3. **`UN_COMPRESS_FLAG = 1`** (`frame_codec_uncompressed`). Both values of the
   compress byte are 1, so an uncompressed body is decompressed. The shipped
   configuration files set `compress = true`; the default is `false`.
4. **Unknown UDP address** (`udp_unknown_address`). A client that does not know its
   own address (SOCKS libraries send "0" and port 0) is associated with the *name*
   127.0.0.1, which no sender's ip address ever equals; all its datagrams are
   discarded. `test_udp_client.py` is such a client.

Behaviour worth knowing that contradicts nothing the repository says: a read or
decode error in a relay ends the stream like a clean end (`.ok()?`), so after a
fault an endpoint may see a proper shutdown of truncated data (`TunnelService`'s
`EndAbrupt`); a connection cut exactly after a frame header is a clean end for
the decoder (`CleanEndBoundary`); a datagram without an answer, or a malformed one,
ends the client's whole UDP association (`Next_`, `RecvFrom`); `Transport::exec`
returns while its TCP relays run, although the comment at
`proxy/src/transport/mod.rs:82` says that the transport blocks. A SOCKS5 client whose
method list or request is split by TCP behind its first two or four bytes makes the
agent's task panic or fail, and what an eager client writes before an answer may be
dropped, in part or whole, so that both sides then wait for each other, or the agent
takes the rest of a request for another one. An HTTP request that TCP splits anywhere is
refused, or is decoded from a text in which its first part stands twice: the agent may
then wait for ever, or open the tunnel before the end of the request and send the rest of
it through. These are the exceptions that `FailsOnlyForCause`, `TunnelCarriesData` and
`HandshakeDecides` spell out, and the run and the proofs show that there are no others. A proxy
address that does not answer leaves no time for the ones after it, and slow names can
stop a whole proxy for as long as they block all its workers; `DialBounded` and
`ReachesFirstLive` give the exact cost.

## Proofs

Every theorem holds for all values of the constants that the named assumptions
allow. Each inductive invariant was checked with TLC, conjunct by conjunct, on the
instance of its component's run before it was proved.

### ProxyServerProofs

- `TypeCorrect`: `Spec => []TypeOK`;
- `AccountingCorrect`: `Spec => []CounterAccounting`;
- `ImplementsGauge`: `Spec => GaugeSpec`.

Assumptions: `TransportsFinite`, `CounterWide` (fewer connections than 2^64) and
`DatagramFits`.

`CounterAccounting` is not inductive: it does not say that a transport still has
its one release ahead of it. `IInv` adds `OneReleasePath` (relay tasks exist only
for a transport whose `exec` completed, so the releases in `exec` and in the
`down` task exclude each other) and `RecvStartsEmpty` (the receive loop is entered
with nothing collected, which together with `DatagramFits` bounds `udp_data`).
`StepMoves` reduces the twenty-odd actions to three cases - one transport enters
with `FetchAdd`, one leaves with `FetchSub`, or nothing counted changes - and
`MovesCount` shows once that these keep the accounting in the naturals, not only
modulo 2^64, and are a step or a stutter of the gauge. `StepControl` handles the
control state.

### TcpTunnelInv and TcpTunnelProofs

- `TypeCorrect`: `Spec => []TypeOK`;
- `Prefixes`: `Spec => []PrefixDelivery`;
- `Established`: `Spec => []EstablishedMeansConnected`;
- `OnlyData`: `Spec => []RelaySeesOnlyData`;
- `CleanEnds`: `Spec => []CleanEndIsComplete`;
- `Refinement`: `Spec => ServiceSpec`, the tunnel implements `TunnelService`.

Assumptions: `MaxSendAssumption`, `CapAssumption`, `MaxFaultsAssumption`: streams,
socket buffers and numbers of faults of any size.

The invariant has three layers on top of `TypeOK`.

*The handshake* (`HandshakeInv`, in `TcpTunnelInv`). A control message can only be
the first item of a connection (`WiresInShape`); `ClientOrder`, `AgentOrder`,
`ProxyOrder` and `AnswerOrder` say for each program counter which messages can be
under way and which connections exist. `Established` and `OnlyData` follow from it
alone.

*The streams* (`FlowInv`). The chunks of a direction are numbered by their sender,
so `PrefixDelivery` is about what was read; to be inductive it must cover what is
under way: the last connection, the item the second relay holds, the middle
connection, the item the first relay holds or `init_data`, and the first
connection continue each other's numbers. After a reset this is true only in
front of the place where something was lost. `Reach(d)` is how far back from the
reader the chain still holds, from 0 (the reader will get no more) to 3 (as far as
the sender), and `Flow` states the numbering up to there. A fault shortens the
chain and never lengthens it (`FlowLoss`), and nothing behind the break can be
forwarded across it, because a relay that meets the break ends.

*Clean behaviour* (`CleanInv`). `Early` says that, as long as nothing has gone wrong
on the agent's side, the client's connection is open and a proxy that failed had not
connected to the destination. `Undisturbed` says that without a fault and without a
failed handshake no connection is reset and a task or socket that has ended has
handed on everything. `CleanEndIsComplete` needs both: the end a reader sees is one
that travelled behind the last chunk.

The refinement uses the same invariant. The mapping shows the service the chunks
sent and read, the shutdowns of the endpoints and whether the tunnel is decided; a
step of a relay, a socket or the kernel changes none of these (`Unseen`), the
handshake's decision is `Decide`, and the end seen by a reader is `EndComplete` only
where `CleanInv` gives completeness, else `EndAbrupt`.

### UdpAssociationProofs

- `TypeCorrect`: `Spec => []TypeOK`;
- `RepliesCorrect`: `Spec => []RepliesMatch`.

Assumptions: `BoundsAssumption`, `RequestsAssumption` (what a request carries is an
address). `RepliesMatch` looks at what the client was sent; what may still be sent are
the answers of exchanges that run, or were abandoned. `IInv` says that the socket of
an exchange holds answers to its own datagram (`OwnSocket`), that the proxy's message
answers the datagram of its exchange and carries the address the association was
made for (`OwnAnswer`), that the datagram in the agent's hands passed the comparison
with that address (`Checked`), and that replies, the current datagram and the inbox
are in the order of sending (`InOrder`).

### KeyStoreProofs

- `TypeCorrect`: `Spec => []TypeOK`;
- `Independence`: `Spec => []UsersIndependent`;
- `Agreement`: `Spec => []KeysInStep`.

Assumptions: `MaxRunsAssumption`, `UserOrderAssumption` (the tool has a user),
`BaseDirAssumption`. Both properties speak of a load that has finished; the
invariant follows it while it runs. A user whose files were not written since the
load began is ahead of it, in its hands with what was read so far equal to the
file, or done with the cache equal to what the files hold (`UserProgress`).
`ToolOrder` and `LoadOrder` tie directories, files and open entries together.

### FrameCodecProofs

- `TypeCorrect`: `Spec => []TypeOK`;
- `Decoded`: `Spec => []DecodedIsPrefix`;
- `EndsAtBoundary`: `Spec => []CleanEndBoundary`;
- `NoErrors`: if `compress` is set, `Spec => []NoDecodeError`.

Assumptions: `FlagLenAssumption`, `BodyLengthAssumption` (no body is empty, and its
length fits the length field; a serialised message is never empty),
`CompressAssumption`. The hypothesis of `NoErrors` is necessary: finding 3 is the
case without it. The other three hold for both settings.

`Carries(s, b)` says that the buffer `s` is what the ideal stream of all frames holds
behind its first `b` bytes. The invariant says that the write buffer continues what
was received and stops at a frame's end, or inside a header when encode failed or the
connection was cut (`WriterInv`); that the decoder knows the place of the first
byte in its buffer, and has the length of exactly the message that follows
(`ReaderInv`); and that nothing follows an end (`EndInv`). `DecodeStep` states once what a
call of `decode` does to a decoder that is in step: it waits, returns the next
message, or fails because the body was not compressed. `FramesEnd`, the length of the
first n frames, is a recursive function; that it is well defined, and that frames do
not overlap, is proved by induction over sets of naturals (`SetInduction`, from the
well-foundedness of `<`).

### DialerProofs

- `TypeCorrect`: `Spec => []TypeOK`;
- `Bounded`: `Spec => []DialBounded`;
- `FirstLive`: `Spec => []ReachesFirstLive`.

Assumptions: `DialerAssumption` (there is a worker), `TasksAssumption` (finitely many
tasks), `ConfigsAssumption` and `DestinationsAssumption` (lists of addresses of any
length and delay, resolving of any length).

Both bounds say where time went, so the invariant keeps the account. `Spends[u]` is the
part of its resolving that u has done, `Spent(t)` the sum of it over the tasks other
than t, `Own(t)` what t's own resolving and timer have used. `Clock` says that the ticks
of t are its own, or ticks in which the others held every worker: `Workers * age[t] <=
Workers * Own(t) + Spent(t)`. `Progress` says the same of a connect against the delays
of the addresses it has tried, and that none of these accepted. The step that matters
is `Tick`: if neither the timer nor the resolving of t moves on, no worker is free, so at least
`Workers` others are resolving, each with something left, and `Spent(t)` grows by
`Workers` (`TickSpent`). The actions of a task take nothing back: `TaskStep` reduces
them to three forms. Divided by `Workers` and with `Spent(t)` at its largest, `Clock`
gives `DialBounded`; a timeout with an address left that would have accepted
contradicts `Progress`.

The model's sums are folds over sets. That a fold exists and does not depend on the
order (`AddsExists`, `AddsAny`) and that it grows with its terms (`SumLess`) is
proved by induction over the sizes of sets.

### ClientHandshakeProofs

- `TypeCorrect`: `Spec => []TypeOK`;
- `CausedFailures`: `Spec => []FailsOnlyForCause`;
- `TunnelData`: `Spec => []TunnelCarriesData`;
- `Answers`: `Spec => []AnswersTheRequest`;
- `PacketRoundTrip`: `Spec => []UdpPacketRoundTrip`.

Assumptions: `DataAssumption` (data are bytes, any number of them) and
`ClientsAssumption`: a client speaks SOCKS5 with at most 255 methods, any command
byte and an address of one of the three forms, or HTTP with any host, or SOCKS4. A name
has at most 255 ASCII bytes, since its length is one byte on the wire.

None of the properties is inductive, since they speak of the end of a handshake and
the bytes get there on the way. The invariant fixes the place of every byte. `Wire(c, i)`
is the i-th byte client c ever writes and `End(c, w)` the number of bytes in its first w
messages; `Carries` says that `dropped`, `relayed`, `buf` and `stream`, laid end to end,
are the bytes from `Base` to the end of what is written, where `Base` is the message the
handler is to read next (`Positions`). That holds as long as `lost` is empty, and up to
the relay, or in it if the HTTP decoder was called once only (`Known`). `Answered`
and `Waits` bound what a patient client can have written at each place of the handler, so
that nothing is in the buffer when it is dropped (`Untouched`); `Kinds` says which clients get
where, and that a decoder that was fed twice has met a cut request; `Asked` says that a handler behind the request serves the
request that was made. `FailsOnlyForCause` is itself a conjunct: the step into a failure
is where its cause is known.

The larger part of the module is about the decoders. Each is applied to a buffer that
agrees with the message from its first byte on, and is as long as it happens to be
(`Begins`): shorter than the message, it waits, fails or (methods) panics and the
message is cut; otherwise it returns what was encoded and leaves the rest. `AddressLayout`
gives the place of each field of an encoded address, and the lemmas on `parse` use it for the
request, for the answer and for the UDP packet alike.

### Only model-checked

Every liveness property, since fairness and ENABLED are outside the prover:
`HandlerReturns`, `HandshakeResolves`, `EventualDelivery`,
`TeardownCompletes`, `ExchangeResolves`, `AssociationEnds`, `AllDecoded`,
`StreamEnds`, `HandshakeDecides`. Every invariant and both refinements of the passing runs
are theorems.

## Not modelled

The ciphers and the padding of `aes.rs`, gzip, bincode and the parsing of HTTP
(library code; their outcomes are inputs of the models); what a name resolves to;
silent loss between agent and proxy (only endpoints vanish); names outside ASCII; the
resolving that the UDP paths do (`udp.rs:44`, `socks/mod.rs:175`), which blocks a
worker like that of `Dialer`; logging, configuration parsing and the declarations
of errors.

## Plan

All invariants and both refinements are proved. What may follow is on the side of the
model: the resolving of the UDP paths as tasks of `Dialer`, names outside ASCII in
`Socks5Codec`, and a loss between agent and proxy in `TcpTunnel`.
