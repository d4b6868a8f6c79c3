----------------------------- MODULE TcpTunnel ------------------------------
(***************************************************************************)
(* One tcp tunnel, end to end: client -- agent -- proxy -- destination.    *)
(*                                                                         *)
(*   hop 1           hop 2            hop 3                                *)
(*   client <-----> agent <-----> proxy <-----> destination                *)
(*                                                                         *)
(* The agent (agent/src) reads the client's SOCKS5 or HTTP request, dials  *)
(* the proxy, sends an Init message and waits for the answer.  The proxy   *)
(* (proxy/src) dials the destination and answers Success or Fail.  Then    *)
(* each of the two processes runs two relay tasks, one per direction: a    *)
(* stream, map_while and forward into a sink, followed by a close.         *)
(*                                                                         *)
(* A process keeps the two sockets of its hops until both of its relay     *)
(* tasks have ended (the halves of a split share the socket); a socket     *)
(* closed with unread input resets its connection.  A reset leaves the     *)
(* peer an arbitrary prefix of what was in flight.  The client's or the    *)
(* destination's host may also vanish without a word: its connection is    *)
(* then silent, and breaks only after something was written to it.         *)
(*                                                                         *)
(* A chunk of the client's or the destination's byte stream is a positive  *)
(* number: the n-th chunk sent in a direction is n.                        *)
(***************************************************************************)
EXTENDS Integers, Sequences

CONSTANTS
    MaxSend,     \* chunks each endpoint sends at most, per direction
    Cap,         \* messages that fit into one direction of a connection
    MaxFaults    \* connections that are reset or fall silent

Dirs  == {"up", "down"}
Hops  == 1..3
Procs == {"agent", "proxy"}

ASSUME MaxSendAssumption   == MaxSend \in [Dirs -> Nat]
ASSUME CapAssumption       == Cap \in Nat \ {0}
ASSUME MaxFaultsAssumption == MaxFaults \in Nat

VARIABLES
    conn,     \* state of the tcp connection of each hop
    wire,     \* per hop and direction: what was written and not yet read
    fin,      \* per hop and direction: the writer has shut down
    agent,    \* where the agent's handle_client_connection is
    proxy,    \* where the proxy's Transport::exec is
    relay,    \* per process and direction: the relay task
    hold,     \* per process and direction: the item forward has buffered
    init_data, \* the agent's init_data (a plain HTTP request), if any
    client,   \* the client's own progress: request, await, stream
    mode,     \* the client wants a CONNECT tunnel or sends a plain request
    keys,     \* whether each side can decode the other's frames
    sent,     \* per direction: chunks the sending endpoint has written
    rcvd,     \* per direction: chunks the receiving endpoint has read
    ended,    \* per direction: how the receiving endpoint saw the end
    faults    \* resets and losses caused by the environment so far

vars == <<conn, wire, fin, agent, proxy, relay, hold, init_data, client, mode,
          keys, sent, rcvd, ended, faults>>

\* The variables that only the tunnel's own processes write, and the ones that
\* only the endpoints and the environment write.
taskVars == <<agent, proxy, relay, hold, init_data>>
endVars  == <<client, sent, rcvd, ended>>
envVars  == <<mode, keys, faults>>

-----------------------------------------------------------------------------
(* Messages                                                                *)

REQUEST     == -1   \* a SOCKS5 CONNECT (after its negotiation) or HTTP CONNECT
ESTABLISHED == -2   \* Succeeded, or 200 Connection Established
INIT        == -3   \* AgentTcpPayload::Init
SUCCESS     == -4   \* ProxyTcpInitResult::Success
FAIL        == -5   \* ProxyTcpInitResult::Fail

IsData(m) == m > 0  \* raw bytes on hops 1 and 3, a Data payload on hop 2

Control  == {REQUEST, ESTABLISHED, INIT, SUCCESS, FAIL}
Chunks   == 1..(MaxSend["up"] + MaxSend["down"])
Messages == Control \cup Chunks

-----------------------------------------------------------------------------
(* Geometry                                                                *)

Opp(d) == IF d = "up" THEN "down" ELSE "up"

Near(p) == IF p = "agent" THEN 1 ELSE 2   \* the hop on the client's side
Far(p)  == Near(p) + 1
HopsOf(p) == {Near(p), Far(p)}

\* The hop that the relay of direction d reads, and the one it writes.
Src(p, d) == IF d = "up" THEN Near(p) ELSE Far(p)
Dst(p, d) == IF d = "up" THEN Far(p) ELSE Near(p)

\* The direction in which p reads, respectively writes, hop h.
Incoming(p, h) == IF h = Near(p) THEN "up" ELSE "down"
Outgoing(p, h) == Opp(Incoming(p, h))

\* The first and the last hop of a direction, seen from the endpoints.
First(d) == IF d = "up" THEN 1 ELSE 3
Last(d)  == IF d = "up" THEN 3 ELSE 1

-----------------------------------------------------------------------------

AgentPoints == {"request", "dial", "send_init", "await_init", "reply",
                "send_init_data", "give_up", "relay", "failed"}
ProxyPoints == {"idle", "first_message", "dial", "send_fail", "send_success",
                "give_up", "relay", "failed"}

SocketsOK ==
    /\ conn \in [Hops -> {"none", "open", "silent", "dying", "reset"}]
    /\ wire \in [Hops -> [Dirs -> Seq(Messages)]]
    /\ fin  \in [Hops -> [Dirs -> BOOLEAN]]
    /\ \A h \in Hops, d \in Dirs : Len(wire[h][d]) <= Cap

TasksOK ==
    /\ agent \in AgentPoints
    /\ proxy \in ProxyPoints
    /\ relay \in [Procs -> [Dirs -> {"none", "forward", "close", "done"}]]
    /\ hold  \in [Procs -> [Dirs -> Seq(Messages)]]
    /\ \A p \in Procs, d \in Dirs : Len(hold[p][d]) <= 1
    /\ init_data \in Seq(Messages) /\ Len(init_data) <= 1

EndsOK ==
    /\ client \in {"request", "await", "stream"}
    /\ sent \in [Dirs -> Nat]
    /\ \A d \in Dirs : sent[d] <= MaxSend[d]
    /\ rcvd \in [Dirs -> Seq(Messages)]
    /\ ended \in [Dirs -> {"no", "fin", "reset"}]

EnvOK ==
    /\ mode \in {"connect", "plain"}
    /\ keys \in {"match", "proxy_rejects", "agent_rejects"}
    /\ faults \in 0..MaxFaults

\* The state is well formed: no direction of a connection holds more than fits
\* into it, and a forward buffers at most one item (tcp_relay, TcpHandler::exec).
TypeOK == SocketsOK /\ TasksOK /\ EndsOK /\ EnvOK

\* The client has just connected to the agent's listener.
Init ==
    /\ conn = [h \in Hops |-> IF h = 1 THEN "open" ELSE "none"]
    /\ wire = [h \in Hops |-> [d \in Dirs |-> <<>>]]
    /\ fin  = [h \in Hops |-> [d \in Dirs |-> FALSE]]
    /\ agent = "request"
    /\ proxy = "idle"
    /\ relay = [p \in Procs |-> [d \in Dirs |-> "none"]]
    /\ hold  = [p \in Procs |-> [d \in Dirs |-> <<>>]]
    /\ init_data = <<>>
    /\ client = "request"
    /\ mode \in {"connect", "plain"}
    /\ keys \in {"match", "proxy_rejects", "agent_rejects"}
    /\ sent = [d \in Dirs |-> 0]
    /\ rcvd = [d \in Dirs |-> <<>>]
    /\ ended = [d \in Dirs |-> "no"]
    /\ faults = 0

-----------------------------------------------------------------------------
(* Sockets                                                                 *)

\* Both tasks of p have ended, or its handshake failed: p's sockets are closed.
Gone(p) ==
    \/ p = "agent" /\ agent = "failed"
    \/ p = "proxy" /\ proxy = "failed"
    \/ \A d \in Dirs : relay[p][d] = "done"

ReaderGone(h, d) == \E p \in Procs : h \in HopsOf(p) /\ d = Incoming(p, h) /\ Gone(p)

\* The connection of hop h is reset; k[d] messages of direction d still reach
\* their reader.
ResetKeeping(h, k) ==
    /\ \A d \in Dirs : k[d] <= Len(wire[h][d])
    /\ conn' = [conn EXCEPT ![h] = "reset"]
    /\ wire' = [wire EXCEPT ![h] = [d \in Dirs |-> SubSeq(wire[h][d], 1, k[d])]]

Reset(h) == \E k \in [Dirs -> 0..Cap] : ResetKeeping(h, k)

\* A connection whose peer has vanished.  Once something was written to it,
\* the kernel retransmits and the connection is dying.
Mute(h) == conn[h] \in {"silent", "dying"}

\* A write of m that the local socket accepts.  If the peer has closed its
\* socket, m is lost and the connection is reset; if the peer has vanished, m
\* is only lost.
Put(h, d, m) ==
    /\ \/ /\ conn[h] = "open"
          /\ Len(wire[h][d]) < Cap
          /\ IF ReaderGone(h, d)
             THEN Reset(h)
             ELSE /\ wire' = [wire EXCEPT ![h][d] = Append(@, m)]
                  /\ UNCHANGED conn
       \/ /\ Mute(h)
          /\ conn' = [conn EXCEPT ![h] = "dying"]
          /\ UNCHANGED wire
    /\ UNCHANGED fin

\* The writing half of hop h is shut down.
ShutDown(h, d) ==
    /\ fin' = [fin EXCEPT ![h][d] = @ \/ conn[h] = "open"]
    /\ conn' = [conn EXCEPT ![h] = IF Mute(h) THEN "dying" ELSE @]
    /\ UNCHANGED wire

\* A read of the next message, and the conditions for reading an end.
Take(h, d) ==
    /\ wire[h][d] # <<>>
    /\ wire' = [wire EXCEPT ![h][d] = Tail(@)]
    /\ UNCHANGED <<conn, fin>>

AtEnd(h, d) ==
    /\ wire[h][d] = <<>>
    /\ fin[h][d] \/ conn[h] = "reset"

\* p drops its sockets.  Unread input turns the close into a reset, which may
\* also destroy output that is still in flight.
Unread(p, h) == conn[h] = "open" /\ wire[h][Incoming(p, h)] # <<>>

DropSockets(p) ==
    /\ conn' = [h \in Hops |->
                   IF h \in HopsOf(p) /\ Unread(p, h) THEN "reset" ELSE conn[h]]
    /\ fin' = [h \in Hops |-> [d \in Dirs |->
                   \/ fin[h][d]
                   \/ h \in HopsOf(p) /\ d = Outgoing(p, h) /\ conn[h] = "open"]]
    /\ \E k \in [HopsOf(p) -> 0..Cap] :
          /\ \A h \in HopsOf(p) : k[h] <= Len(wire[h][Outgoing(p, h)])
          /\ wire' = [h \in Hops |-> [d \in Dirs |->
                         IF h \notin HopsOf(p) THEN wire[h][d]
                         ELSE IF d = Incoming(p, h) THEN <<>>
                         ELSE IF Unread(p, h) THEN SubSeq(wire[h][d], 1, k[h])
                         ELSE wire[h][d]]]

-----------------------------------------------------------------------------
(* The agent's handshake                                                   *)

AgentFails ==
    /\ agent' = "failed"
    /\ DropSockets("agent")
    /\ UNCHANGED <<proxy, relay, hold, init_data>>

StartRelays(p) ==
    relay' = [relay EXCEPT ![p] = [d \in Dirs |-> "forward"]]

\* dispatch and handshake read the request; a plain request is encoded again
\* as init_data.
AgentReadsRequest ==
    /\ agent = "request"
    /\ Take(1, "up")
    /\ agent' = "dial"
    /\ init_data' = IF mode = "plain" THEN <<Head(wire[1]["up"])>> ELSE <<>>
    /\ UNCHANGED <<proxy, relay, hold>> /\ UNCHANGED endVars /\ UNCHANGED envVars

\* An unsupported protocol or command, or a destination that is not allowed.
\* The request has been read, so the close of the socket is a plain one.
AgentRefusesRequest ==
    /\ agent = "dial"
    /\ AgentFails
    /\ UNCHANGED endVars /\ UNCHANGED envVars

AgentSeesClientEnd ==
    /\ agent = "request"
    /\ AtEnd(1, "up")
    /\ AgentFails
    /\ UNCHANGED endVars /\ UNCHANGED envVars

\* ProxyConnectionFactory::create_connection; its failure and its timeout end
\* the handshake as a refusal does.
AgentDialsProxy ==
    /\ agent = "dial"
    /\ agent' = "send_init"
    /\ conn' = [conn EXCEPT ![2] = "open"]
    /\ UNCHANGED <<wire, fin, proxy, relay, hold, init_data>>
    /\ UNCHANGED endVars /\ UNCHANGED envVars

\* Mutant: Init is sent again while no answer has come.
Mutant_AgentSendsInit ==
    /\ agent \in {"send_init", "await_init"}
    /\ Put(2, "up", INIT)
    /\ agent' = "await_init"
    /\ UNCHANGED <<proxy, relay, hold, init_data>>
    /\ UNCHANGED endVars /\ UNCHANGED envVars

AgentSendsInit ==
    /\ agent = "send_init"
    /\ Put(2, "up", INIT)
    /\ agent' = "await_init"
    /\ UNCHANGED <<proxy, relay, hold, init_data>>
    /\ UNCHANGED endVars /\ UNCHANGED envVars

\* Mutant: the relay tasks of a plain request are spawned before init_data is
\* sent.
Mutant_AgentReadsSuccess_Early ==
    /\ agent = "await_init"
    /\ Take(2, "down")
    /\ Head(wire[2]["down"]) = SUCCESS /\ keys # "agent_rejects"
    /\ agent' = IF mode = "connect" THEN "reply" ELSE "send_init_data"
    /\ IF mode = "connect" THEN UNCHANGED relay ELSE StartRelays("agent")
    /\ UNCHANGED <<proxy, hold, init_data>>
    /\ UNCHANGED endVars /\ UNCHANGED envVars

\* Mutant: any Init result is taken for Success.
Mutant_AgentReadsSuccess_Any ==
    /\ agent = "await_init"
    /\ Take(2, "down")
    /\ keys # "agent_rejects"
    /\ agent' = IF mode = "connect" THEN "reply" ELSE "send_init_data"
    /\ UNCHANGED <<proxy, relay, hold, init_data>>
    /\ UNCHANGED endVars /\ UNCHANGED envVars

\* The Success answer arrives and can be decoded.
AgentReadsSuccess ==
    /\ agent = "await_init"
    /\ Take(2, "down")
    /\ Head(wire[2]["down"]) = SUCCESS /\ keys # "agent_rejects"
    /\ agent' = IF mode = "connect" THEN "reply" ELSE "send_init_data"
    /\ UNCHANGED <<proxy, relay, hold, init_data>>
    /\ UNCHANGED endVars /\ UNCHANGED envVars

\* Fail, a message that cannot be decoded or is no Init result, or no message.
AgentReadsNoSuccess ==
    /\ agent = "await_init"
    /\ \/ AtEnd(2, "down") /\ AgentFails
       \/ /\ Take(2, "down")
          /\ Head(wire[2]["down"]) # SUCCESS \/ keys = "agent_rejects"
          /\ agent' = "give_up"
          /\ UNCHANGED <<proxy, relay, hold, init_data>>
    /\ UNCHANGED endVars /\ UNCHANGED envVars

\* The reply is sent, handshake returns and tcp_relay spawns its tasks.
AgentReplies ==
    /\ agent = "reply"
    /\ Put(1, "down", ESTABLISHED)
    /\ agent' = "relay"
    /\ StartRelays("agent")
    /\ UNCHANGED <<proxy, hold, init_data>>
    /\ UNCHANGED endVars /\ UNCHANGED envVars

\* tcp_relay sends init_data before it spawns its tasks.
AgentSendsInitData ==
    /\ agent = "send_init_data"
    /\ Put(2, "up", init_data[1])
    /\ agent' = "relay"
    /\ StartRelays("agent")
    /\ init_data' = <<>>
    /\ UNCHANGED <<proxy, hold>>
    /\ UNCHANGED endVars /\ UNCHANGED envVars

\* The handshake returns Err after an answer that is not Success, because the
\* first message could not be encoded (no key for the configured user), or
\* because a send failed on a connection that was reset.
AgentGivesUp ==
    /\ \/ agent \in {"give_up", "send_init"}
       \/ agent = "send_init_data" /\ conn[2] = "reset"
       \/ agent = "reply" /\ conn[1] = "reset"
    /\ AgentFails
    /\ UNCHANGED endVars /\ UNCHANGED envVars

-----------------------------------------------------------------------------
(* The proxy's handshake                                                   *)

ProxyFails ==
    /\ proxy' = "failed"
    /\ DropSockets("proxy")
    /\ UNCHANGED <<agent, relay, hold, init_data>>

\* accept_agent_connection, and the task that runs Transport::exec.
ProxyAccepts ==
    /\ proxy = "idle"
    /\ conn[2] # "none"
    /\ proxy' = "first_message"
    /\ UNCHANGED <<conn, wire, fin, agent, relay, hold, init_data>>
    /\ UNCHANGED endVars /\ UNCHANGED envVars

ProxyReadsInit ==
    /\ proxy = "first_message"
    /\ Take(2, "up")
    /\ Head(wire[2]["up"]) = INIT /\ keys # "proxy_rejects"
    /\ proxy' = "dial"
    /\ UNCHANGED <<agent, relay, hold, init_data>>
    /\ UNCHANGED endVars /\ UNCHANGED envVars

\* Mutant: a message that cannot be decoded is skipped and the proxy waits for
\* the next one.
Mutant_ProxyReadsNoInit ==
    /\ proxy = "first_message"
    /\ \/ AtEnd(2, "up") /\ ProxyFails
       \/ /\ Take(2, "up")
          /\ Head(wire[2]["up"]) # INIT \/ keys = "proxy_rejects"
          /\ UNCHANGED <<agent, proxy, relay, hold, init_data>>
    /\ UNCHANGED endVars /\ UNCHANGED envVars

\* The first message is missing, cannot be decoded, or is not Init.
ProxyReadsNoInit ==
    /\ proxy = "first_message"
    /\ \/ AtEnd(2, "up") /\ ProxyFails
       \/ /\ Take(2, "up")
          /\ Head(wire[2]["up"]) # INIT \/ keys = "proxy_rejects"
          /\ proxy' = "give_up"
          /\ UNCHANGED <<agent, relay, hold, init_data>>
    /\ UNCHANGED endVars /\ UNCHANGED envVars

\* init_dst_connection connects.
ProxyDialsDestination ==
    /\ proxy = "dial"
    /\ proxy' = "send_success"
    /\ conn' = [conn EXCEPT ![3] = "open"]
    /\ UNCHANGED <<wire, fin, agent, relay, hold, init_data>>
    /\ UNCHANGED endVars /\ UNCHANGED envVars

\* init_dst_connection fails or times out.
ProxyCannotDial ==
    /\ proxy = "dial"
    /\ proxy' = "send_fail"
    /\ UNCHANGED <<conn, wire, fin, agent, relay, hold, init_data>>
    /\ UNCHANGED endVars /\ UNCHANGED envVars

ProxySendsFail ==
    /\ proxy = "send_fail"
    /\ Put(2, "down", FAIL)
    /\ proxy' = "give_up"
    /\ UNCHANGED <<agent, relay, hold, init_data>>
    /\ UNCHANGED endVars /\ UNCHANGED envVars

\* exec returns after a first message it rejects or after the Fail message, or
\* because a send failed on a connection that was reset.  (The key that encode
\* needs is the one with which the first message was decoded, and is cached.)
ProxyGivesUp ==
    /\ \/ proxy = "give_up"
       \/ proxy \in {"send_fail", "send_success"} /\ conn[2] = "reset"
    /\ ProxyFails
    /\ UNCHANGED endVars /\ UNCHANGED envVars

\* The Success message is sent and the relay tasks are spawned.
ProxySendsSuccess ==
    /\ proxy = "send_success"
    /\ Put(2, "down", SUCCESS)
    /\ proxy' = "relay"
    /\ StartRelays("proxy")
    /\ UNCHANGED <<agent, hold, init_data>>
    /\ UNCHANGED endVars /\ UNCHANGED envVars

-----------------------------------------------------------------------------
(* The relay tasks: map_while(read).forward(write), then close             *)

\* Mutant: the task reads on while its sink is not ready.
Mutant_RelayReads(p, d) ==
    /\ relay[p][d] = "forward"
    /\ Take(Src(p, d), d)
    /\ hold' = [hold EXCEPT ![p][d] = Append(@, Head(wire[Src(p, d)][d]))]
    /\ UNCHANGED <<agent, proxy, relay, init_data>>
    /\ UNCHANGED endVars /\ UNCHANGED envVars

\* The stream yields an item; one that is not Data ends the map_while.
RelayReads(p, d) ==
    /\ relay[p][d] = "forward"
    /\ hold[p][d] = <<>>
    /\ Take(Src(p, d), d)
    /\ LET m == Head(wire[Src(p, d)][d])
       IN  IF IsData(m)
           THEN hold' = [hold EXCEPT ![p][d] = <<m>>] /\ UNCHANGED relay
           ELSE relay' = [relay EXCEPT ![p][d] = "close"] /\ UNCHANGED hold
    /\ UNCHANGED <<agent, proxy, init_data>>
    /\ UNCHANGED endVars /\ UNCHANGED envVars

\* Mutant: the end of the stream wins over an item that waits for the sink.
Mutant_RelaySeesEnd(p, d) ==
    /\ relay[p][d] = "forward"
    /\ AtEnd(Src(p, d), d)
    /\ relay' = [relay EXCEPT ![p][d] = "close"]
    /\ UNCHANGED <<conn, wire, fin, agent, proxy, hold, init_data>>
    /\ UNCHANGED endVars /\ UNCHANGED envVars

\* The stream ends or yields an error: `.ok()?` makes both an end.
RelaySeesEnd(p, d) ==
    /\ relay[p][d] = "forward"
    /\ hold[p][d] = <<>>
    /\ AtEnd(Src(p, d), d)
    /\ relay' = [relay EXCEPT ![p][d] = "close"]
    /\ UNCHANGED <<conn, wire, fin, agent, proxy, hold, init_data>>
    /\ UNCHANGED endVars /\ UNCHANGED envVars

\* Mutant: without the flush an item leaves only when the next one comes.
Mutant_RelayWrites(p, d) ==
    /\ relay[p][d] = "forward"
    /\ hold[p][d] # <<>>
    /\ wire[Src(p, d)][d] # <<>> \/ AtEnd(Src(p, d), d)
    /\ Put(Dst(p, d), d, Head(hold[p][d]))
    /\ hold' = [hold EXCEPT ![p][d] = <<>>]
    /\ UNCHANGED <<agent, proxy, relay, init_data>>
    /\ UNCHANGED endVars /\ UNCHANGED envVars

\* forward hands the buffered item to the sink.
RelayWrites(p, d) ==
    /\ relay[p][d] = "forward"
    /\ hold[p][d] # <<>>
    /\ Put(Dst(p, d), d, Head(hold[p][d]))
    /\ hold' = [hold EXCEPT ![p][d] = <<>>]
    /\ UNCHANGED <<agent, proxy, relay, init_data>>
    /\ UNCHANGED endVars /\ UNCHANGED envVars

\* The sink fails: forward returns the error and its item is dropped.
RelayWriteFails(p, d) ==
    /\ relay[p][d] = "forward"
    /\ hold[p][d] # <<>>
    /\ conn[Dst(p, d)] = "reset"
    /\ hold' = [hold EXCEPT ![p][d] = <<>>]
    /\ relay' = [relay EXCEPT ![p][d] = "close"]
    /\ UNCHANGED <<conn, wire, fin, agent, proxy, init_data>>
    /\ UNCHANGED endVars /\ UNCHANGED envVars

\* Mutant: the first task to end takes the sockets with it.
Mutant_RelayCloses_Both(p, d) ==
    /\ relay[p][d] = "close"
    /\ relay' = [relay EXCEPT ![p] = [e \in Dirs |-> "done"]]
    /\ DropSockets(p)
    /\ UNCHANGED <<agent, proxy, hold, init_data>>
    /\ UNCHANGED endVars /\ UNCHANGED envVars

\* Mutant: the task ends without closing its sink.
Mutant_RelayCloses_NoClose(p, d) ==
    /\ relay[p][d] = "close"
    /\ relay' = [relay EXCEPT ![p][d] = "done"]
    /\ IF relay[p][Opp(d)] = "done" THEN DropSockets(p) ELSE UNCHANGED <<conn, wire, fin>>
    /\ UNCHANGED <<agent, proxy, hold, init_data>>
    /\ UNCHANGED endVars /\ UNCHANGED envVars

\* The sink is closed, which shuts the connection down for writing, and the
\* task ends; with the second task of a process its sockets are dropped.
RelayCloses(p, d) ==
    /\ relay[p][d] = "close"
    /\ relay' = [relay EXCEPT ![p][d] = "done"]
    /\ IF relay[p][Opp(d)] = "done"
       THEN DropSockets(p)
       ELSE ShutDown(Dst(p, d), d)
    /\ UNCHANGED <<agent, proxy, hold, init_data>>
    /\ UNCHANGED endVars /\ UNCHANGED envVars

-----------------------------------------------------------------------------
(* The endpoints and the environment (external)                            *)

\* The client asks for a tunnel, or sends a plain request: its first chunk.
ClientRequests ==
    /\ client = "request"
    /\ conn[1] = "open" /\ ~fin[1]["up"]
    /\ mode = "plain" => sent["up"] < MaxSend["up"]
    /\ Put(1, "up", IF mode = "plain" THEN 1 ELSE REQUEST)
    /\ client' = "await"
    /\ sent' = IF mode = "plain" THEN [sent EXCEPT !["up"] = 1] ELSE sent
    /\ UNCHANGED <<rcvd, ended>> /\ UNCHANGED taskVars /\ UNCHANGED envVars

\* An endpoint writes its next chunk.  The client does so once it was told
\* that the tunnel is established, or had a first answer.
EndpointSends(d) ==
    /\ d = "up" => client = "stream"
    /\ sent[d] < MaxSend[d]
    /\ conn[First(d)] = "open" /\ ~fin[First(d)][d]
    /\ Put(First(d), d, sent[d] + 1)
    /\ sent' = [sent EXCEPT ![d] = @ + 1]
    /\ UNCHANGED <<client, rcvd, ended>> /\ UNCHANGED taskVars /\ UNCHANGED envVars

\* An endpoint has nothing more to send; it may go on reading.
EndpointShutsDown(d) ==
    /\ conn[First(d)] = "open"
    /\ ~fin[First(d)][d]
    /\ fin' = [fin EXCEPT ![First(d)][d] = TRUE]
    /\ UNCHANGED <<conn, wire>>
    /\ UNCHANGED endVars /\ UNCHANGED taskVars /\ UNCHANGED envVars

EndpointReads(d) ==
    /\ ended[d] = "no"
    /\ ~Mute(Last(d))
    /\ Take(Last(d), d)
    /\ LET m == Head(wire[Last(d)][d])
       IN  rcvd' = IF IsData(m) THEN [rcvd EXCEPT ![d] = Append(@, m)] ELSE rcvd
    /\ client' = IF d = "down" THEN "stream" ELSE client
    /\ UNCHANGED <<sent, ended>> /\ UNCHANGED taskVars /\ UNCHANGED envVars

EndpointSeesEnd(d) ==
    /\ ended[d] = "no"
    /\ ~Mute(Last(d))
    /\ wire[Last(d)][d] = <<>>
    /\ \/ fin[Last(d)][d] /\ ended' = [ended EXCEPT ![d] = "fin"]
       \/ conn[Last(d)] = "reset" /\ ended' = [ended EXCEPT ![d] = "reset"]
    /\ UNCHANGED <<conn, wire, fin, client, sent, rcvd>>
    /\ UNCHANGED taskVars /\ UNCHANGED envVars

\* The network, or an endpoint that gives up, resets a connection.
Break(h) ==
    /\ conn[h] = "open"
    /\ faults < MaxFaults
    /\ Reset(h)
    /\ faults' = faults + 1
    /\ UNCHANGED <<fin, mode, keys>> /\ UNCHANGED endVars /\ UNCHANGED taskVars

\* The host of an endpoint, or the way to it, is gone: of what it sent only a
\* prefix has arrived, nothing more gets to it, and nobody is told.  Something
\* that was on its way to it is acknowledged or still being retransmitted.  (A
\* shutdown that did not arrive is a host that vanished before it.)
Vanish(d) ==
    LET h   == First(d)
        out == Opp(d)
    IN  /\ conn[h] = "open"
        /\ faults < MaxFaults
        /\ \/ conn' = [conn EXCEPT ![h] = "silent"]
           \/ /\ wire[h][out] # <<>> \/ fin[h][out]
              /\ conn' = [conn EXCEPT ![h] = "dying"]
        /\ \E k \in 0..Len(wire[h][d]) :
              /\ fin[h][d] => k = Len(wire[h][d])
              /\ wire' = [wire EXCEPT ![h][d] = SubSeq(@, 1, k), ![h][out] = <<>>]
        /\ fin' = [fin EXCEPT ![h][out] = FALSE]
        /\ faults' = faults + 1
        /\ UNCHANGED <<mode, keys>> /\ UNCHANGED endVars /\ UNCHANGED taskVars

\* The retransmissions time out, or the rebooted host answers with a reset.
KernelGivesUp(h) ==
    /\ conn[h] = "dying"
    /\ conn' = [conn EXCEPT ![h] = "reset"]
    /\ UNCHANGED <<wire, fin>>
    /\ UNCHANGED endVars /\ UNCHANGED taskVars /\ UNCHANGED envVars

-----------------------------------------------------------------------------

AgentHandshake ==
    \/ AgentReadsRequest \/ AgentRefusesRequest \/ AgentSeesClientEnd
    \/ AgentDialsProxy \/ AgentSendsInit \/ AgentReadsSuccess
    \/ AgentReadsNoSuccess \/ AgentReplies \/ AgentSendsInitData \/ AgentGivesUp

ProxyHandshake ==
    \/ ProxyAccepts \/ ProxyReadsInit \/ ProxyReadsNoInit
    \/ ProxyDialsDestination \/ ProxyCannotDial \/ ProxySendsFail
    \/ ProxyGivesUp \/ ProxySendsSuccess

RelayTask(p, d) ==
    \/ RelayReads(p, d) \/ RelaySeesEnd(p, d) \/ RelayWrites(p, d)
    \/ RelayWriteFails(p, d) \/ RelayCloses(p, d)

Endpoint(d) ==
    EndpointSends(d) \/ EndpointShutsDown(d) \/ EndpointReads(d) \/ EndpointSeesEnd(d)

Next ==
    \/ AgentHandshake
    \/ ProxyHandshake
    \/ \E p \in Procs, d \in Dirs : RelayTask(p, d)
    \/ ClientRequests
    \/ \E d \in Dirs : Endpoint(d) \/ Vanish(d)
    \/ \E h \in Hops : Break(h) \/ KernelGivesUp(h)

Spec == Init /\ [][Next]_vars

-----------------------------------------------------------------------------
(* Fairness.  tokio polls every task that can make progress; the dials are *)
(* bounded by timeouts; a connection carries what is written, or is reset, *)
(* by the kernel's retransmission timeout if the peer has vanished.  Of    *)
(* the endpoints it is assumed that they go on reading, and                *)
(* that one which has seen the end of its input shuts its output down:     *)
(* the code has no idle timeout that would replace this.                   *)

Fairness ==
    /\ WF_vars(AgentHandshake)
    /\ WF_vars(ProxyHandshake)
    /\ \A h \in Hops : WF_vars(KernelGivesUp(h))
    /\ \A p \in Procs, d \in Dirs : WF_vars(RelayTask(p, d))
    /\ \A d \in Dirs :
          /\ WF_vars(EndpointReads(d) \/ EndpointSeesEnd(d))
          /\ WF_vars(ended[Opp(d)] # "no" /\ EndpointShutsDown(d))

FairSpec == Spec /\ Fairness

-----------------------------------------------------------------------------
(* Properties                                                              *)

\* What an endpoint has read is a prefix of what the other one sent: the
\* hand-over from the handshake to the relay tasks, init_data, the buffers of
\* four forwards and the resets lose no chunk but a suffix, and reorder or
\* repeat none.
PrefixDelivery ==
    \A d \in Dirs :
        /\ Len(rcvd[d]) <= sent[d]
        /\ \A i \in 1..Len(rcvd[d]) : rcvd[d][i] = i

\* In an established tunnel that no fault has hit, an endpoint that sees the
\* end of its input has all of it, whatever the other direction is doing: the
\* relays of the two directions end independently and the sockets outlive both.
CleanEndIsComplete ==
    agent = "relay" /\ faults = 0 =>
        /\ \A h \in Hops : conn[h] # "reset"
        /\ \A d \in Dirs : ended[d] # "no" =>
              fin[First(d)][d] /\ Len(rcvd[d]) = sent[d]

\* The client is told that the tunnel is established, or gets an answer, only
\* after the proxy has connected to the destination.
EstablishedMeansConnected ==
    client = "stream" => conn[3] # "none" /\ proxy = "relay"

\* After the handshake a relay task meets only Data messages: no Init message
\* or answer is left in its stream to end it.
RelaySeesOnlyData ==
    \A p \in Procs, d \in Dirs :
        relay[p][d] = "forward" =>
            \A i \in 1..Len(wire[Src(p, d)][d]) : IsData(wire[Src(p, d)][d][i])

\* The tunnel implements its service.
Service == INSTANCE TunnelService
              WITH phase  <- IF agent = "relay" THEN "open"
                             ELSE IF agent = "failed" THEN "refused" ELSE "pending",
                   shut   <- [d \in Dirs |-> fin[First(d)][d]],
                   broken <- faults > 0

ServiceSpec == Service!Spec

\* Once the client's request was read, the handshake comes to a decision, in
\* spite of the agent's wait for the answer having no timeout.
HandshakeResolves ==
    agent # "request" ~> agent \in {"relay", "failed"}

\* Everything the tunnel consists of has ended.
TornDown == Gone("agent") /\ (proxy = "idle" \/ Gone("proxy"))

\* The end of one direction, a reset anywhere, or a write to a peer that has
\* vanished, ends every task and closes every socket of both processes; only a
\* vanished peer that nothing is written to can hold them.
TeardownCompletes ==
    ( \/ \E d \in Dirs : fin[First(d)][d]
      \/ \E h \in Hops : conn[h] \in {"dying", "reset"} )
        ~> TornDown \/ (\E h \in Hops : conn[h] = "silent")

\* The configured relay timeouts (agent_relay_timeout and dst_relay_timeout of
\* the proxy, client_relay_timeout and proxy_relay_timeout of the agent) free
\* the tasks and sockets of an established tunnel whose client or destination
\* has vanished.
RelayTimeoutsRelease ==
    (agent = "relay" /\ \E h \in Hops : conn[h] = "silent") ~> TornDown

\* In an established tunnel that is not hit by a fault, what is sent arrives.
EventualDelivery ==
    \A d \in Dirs : \A n \in 1..MaxSend[d] :
        (agent = "relay" /\ sent[d] >= n) ~> (Len(rcvd[d]) >= n \/ faults > 0)
=============================================================================
