---------------------------- MODULE ProxyServer -----------------------------
(***************************************************************************)
(* The proxy process: ProxyServer::start (proxy/src/server.rs) accepts     *)
(* agent connections and spawns a task per connection that runs            *)
(* Transport::exec (proxy/src/transport/mod.rs), which hands the           *)
(* connection to TcpHandler::exec or UdpHandler::exec.  TcpHandler::exec   *)
(* spawns two more tasks, one per direction of the relay.                  *)
(*                                                                         *)
(* All these tasks share one AtomicU64, transport_number: incremented when *)
(* the task of a connection starts, decremented on some of the ways it can *)
(* end.  A step of this module is what one task does between two .await    *)
(* points; the atomic read-modify-write calls are steps of their own.      *)
(* What the tasks relay is the subject of TcpTunnel; here a relay runs for *)
(* an arbitrary time and then ends.                                        *)
(***************************************************************************)
EXTENDS Naturals, FiniteSets

CONSTANTS
    Transports,            \* the agent connections that may arrive
    CounterModulus,        \* 2^64: fetch_add and fetch_sub wrap around
    MAX_UDP_PACKET_SIZE,   \* size of the receive buffer (udp.rs)
    UdpPayloadMax          \* the largest datagram the network delivers

ASSUME TransportsFinite == IsFiniteSet(Transports)

\* Fewer connections than 2^64 are ever accepted by one process.
ASSUME CounterWide ==
    /\ CounterModulus \in Nat
    /\ Cardinality(Transports) < CounterModulus

\* 65507 bytes over IPv4, against a buffer of 65535.
ASSUME DatagramFits ==
    /\ MAX_UDP_PACKET_SIZE \in Nat
    /\ UdpPayloadMax \in 1..(MAX_UDP_PACKET_SIZE - 1)

VARIABLES
    transport_number,  \* ProxyServer.transport_number
    exec,              \* where the spawned task is in Transport::exec
    up,                \* the agent-to-destination task of TcpHandler::exec
    down,              \* the destination-to-agent task of TcpHandler::exec
    udp_data           \* number of bytes collected in UdpHandler's udp_data

vars == <<transport_number, exec, up, down, udp_data>>

\* Inside TcpHandler::exec, or about to handle the error it returned.
TcpPoints == {"init_dst", "send_fail", "send_success", "tcp_error"}

\* Inside UdpHandler::exec, or about to handle its result.
UdpPoints == {"udp_bind", "udp_connect", "udp_send", "udp_recv", "udp_reply",
              "udp_close_error", "udp_close_ok", "udp_error", "udp_ok"}

\* exec returned.  "closed_early" and "rejected" are the returns that come
\* before any handler was called; "completed" is Ok, "failed" is Err.
Ended == {"closed_early", "rejected", "completed", "failed"}

ExecPoints ==
    {"unaccepted", "spawned", "first_message"} \cup TcpPoints \cup UdpPoints \cup Ended

UpPoints   == {"none", "forward", "close", "done"}
DownPoints == {"none", "forward", "fetch_sub", "close", "done"}

\* Every task is at one of its await points, transport_number fits its width,
\* and UdpHandler's udp_data never holds more than one datagram: the receive
\* loop of udp.rs does not go round a second time.
TypeOK ==
    /\ transport_number \in 0..(CounterModulus - 1)
    /\ exec \in [Transports -> ExecPoints]
    /\ up   \in [Transports -> UpPoints]
    /\ down \in [Transports -> DownPoints]
    /\ udp_data \in [Transports -> 0..UdpPayloadMax]

Init ==
    /\ transport_number = 0
    /\ exec = [t \in Transports |-> "unaccepted"]
    /\ up   = [t \in Transports |-> "none"]
    /\ down = [t \in Transports |-> "none"]
    /\ udp_data = [t \in Transports |-> 0]

-----------------------------------------------------------------------------
(* Steps of the task that runs Transport::exec                             *)

\* The task of t moves from one await point to the next.
Goto(t, from, to) ==
    /\ exec[t] = from
    /\ exec' = [exec EXCEPT ![t] = to]

FetchAdd == transport_number' = (transport_number + 1) % CounterModulus
FetchSub == transport_number' = (transport_number + CounterModulus - 1) % CounterModulus

\* accept_agent_connection succeeds and start spawns the task; an accept
\* error makes the loop continue with nothing changed.
Accept(t) ==
    /\ Goto(t, "unaccepted", "spawned")
    /\ UNCHANGED <<transport_number, up, down, udp_data>>

\* The first statement of the spawned task, then Transport::new.
StartTask(t) ==
    /\ Goto(t, "spawned", "first_message")
    /\ FetchAdd
    /\ UNCHANGED <<up, down, udp_data>>

\* agent_connection.next() gives None (the agent closed), an error, a tcp
\* message that is not Init, a tcp Init, or a udp datagram.
FirstMessage(t) ==
    /\ \/ Goto(t, "first_message", "closed_early")
       \/ Goto(t, "first_message", "rejected")
       \/ Goto(t, "first_message", "init_dst")
       \/ Goto(t, "first_message", "udp_bind")
    /\ UNCHANGED <<transport_number, up, down, udp_data>>

\* init_dst_connection connects, or fails to resolve, to connect, or in time.
InitDstConnection(t) ==
    /\ \/ Goto(t, "init_dst", "send_success")
       \/ Goto(t, "init_dst", "send_fail")
    /\ UNCHANGED <<transport_number, up, down, udp_data>>

\* The Fail message is sent or not; the handler returns Err either way.
SendInitFail(t) ==
    /\ Goto(t, "send_fail", "tcp_error")
    /\ UNCHANGED <<transport_number, up, down, udp_data>>

\* The Success message could not be sent: the handler returns Err.
SendInitSuccessError(t) ==
    /\ Goto(t, "send_success", "tcp_error")
    /\ UNCHANGED <<transport_number, up, down, udp_data>>

\* Mutant: the tasks are spawned before the send, whose error still reaches
\* exec's error branch.
Mutant_SendInitSuccess(t) ==
    /\ \/ Goto(t, "send_success", "completed")
       \/ Goto(t, "send_success", "tcp_error")
    /\ up'   = [up   EXCEPT ![t] = "forward"]
    /\ down' = [down EXCEPT ![t] = "forward"]
    /\ UNCHANGED <<transport_number, udp_data>>

\* The Success message is sent, both relay tasks are spawned, and the handler
\* and exec return Ok at once.
SendInitSuccess(t) ==
    /\ Goto(t, "send_success", "completed")
    /\ up'   = [up   EXCEPT ![t] = "forward"]
    /\ down' = [down EXCEPT ![t] = "forward"]
    /\ UNCHANGED <<transport_number, udp_data>>

\* exec logs the handler's error and returns Ok.
TcpHandlerError(t) ==
    /\ Goto(t, "tcp_error", "completed")
    /\ FetchSub
    /\ UNCHANGED <<up, down, udp_data>>

-----------------------------------------------------------------------------
(* UdpHandler::exec: one datagram out, at most one answer back             *)

\* bind, and the resolution of the address: an error leaves with `?`.
UdpBind(t) ==
    /\ \/ Goto(t, "udp_bind", "udp_connect")
       \/ Goto(t, "udp_bind", "udp_error")
    /\ UNCHANGED <<transport_number, up, down, udp_data>>

\* connect, or its timeout or error, which closes the agent connection.
UdpConnect(t) ==
    /\ \/ Goto(t, "udp_connect", "udp_send")
       \/ Goto(t, "udp_connect", "udp_close_error")
    /\ UNCHANGED <<transport_number, up, down, udp_data>>

\* send fails, or succeeds with or without need_response.
UdpSend(t) ==
    /\ \/ Goto(t, "udp_send", "udp_close_error")
       \/ Goto(t, "udp_send", "udp_close_ok")
       \/ Goto(t, "udp_send", "udp_recv")
    /\ UNCHANGED <<transport_number, up, down, udp_data>>

\* Mutant: the end-of-message test is off by one, so that the largest datagram
\* is taken for the first part of a longer message.
Mutant_UdpRecv(t) ==
    /\ \E size \in 0..UdpPayloadMax :
          /\ udp_data' = [udp_data EXCEPT ![t] = @ + size]
          /\ Goto(t, "udp_recv",
                  IF size >= MAX_UDP_PACKET_SIZE - 1 THEN "udp_recv"
                  ELSE IF udp_data'[t] = 0 THEN "udp_close_ok" ELSE "udp_reply")
    /\ UNCHANGED <<transport_number, up, down>>

\* A datagram of size bytes arrives.  An empty one ends the loop; so does one
\* that does not fill the buffer; an empty collection is not sent back.
UdpRecv(t) ==
    /\ \E size \in 0..UdpPayloadMax :
          /\ udp_data' = [udp_data EXCEPT ![t] = @ + size]
          /\ Goto(t, "udp_recv",
                  IF size >= MAX_UDP_PACKET_SIZE THEN "udp_recv"
                  ELSE IF udp_data'[t] = 0 THEN "udp_close_ok" ELSE "udp_reply")
    /\ UNCHANGED <<transport_number, up, down>>

\* Mutant: a timeout is logged and the loop receives again.
Mutant_UdpRecvTimeout(t) ==
    /\ Goto(t, "udp_recv", "udp_recv")
    /\ UNCHANGED <<transport_number, up, down, udp_data>>

\* dst_udp_recv_timeout elapsed: the agent connection is closed.
UdpRecvTimeout(t) ==
    /\ Goto(t, "udp_recv", "udp_close_error")
    /\ UNCHANGED <<transport_number, up, down, udp_data>>

\* recv fails (an ICMP error on the connected socket): it leaves with `?`.
UdpRecvError(t) ==
    /\ Goto(t, "udp_recv", "udp_error")
    /\ UNCHANGED <<transport_number, up, down, udp_data>>

\* The answer is sent, or the send error is logged, and the close follows;
\* an error of the message generator leaves with `?`.
UdpReply(t) ==
    /\ \/ Goto(t, "udp_reply", "udp_close_ok")
       \/ Goto(t, "udp_reply", "udp_error")
    /\ UNCHANGED <<transport_number, up, down, udp_data>>

\* agent_connection.close(), its error only logged, and the return.
UdpClose(t) ==
    /\ \/ Goto(t, "udp_close_error", "udp_error")
       \/ Goto(t, "udp_close_ok", "udp_ok")
    /\ UNCHANGED <<transport_number, up, down, udp_data>>

\* Mutant: only the error branch subtracts.
Mutant_UdpHandlerResult(t) ==
    /\ \/ Goto(t, "udp_error", "failed") /\ FetchSub
       \/ Goto(t, "udp_ok", "completed") /\ UNCHANGED transport_number
    /\ UNCHANGED <<up, down, udp_data>>

\* exec's handling of the two results.
UdpHandlerResult(t) ==
    /\ \/ Goto(t, "udp_error", "failed")
       \/ Goto(t, "udp_ok", "completed")
    /\ FetchSub
    /\ UNCHANGED <<up, down, udp_data>>

-----------------------------------------------------------------------------
(* Steps of the two relay tasks                                            *)

\* forward returns, with or without an error.
UpForwardEnds(t) ==
    /\ up[t] = "forward"
    /\ up' = [up EXCEPT ![t] = "close"]
    /\ UNCHANGED <<transport_number, exec, down, udp_data>>

\* dst_connection_write.close() and the end of the task.
UpClose(t) ==
    /\ up[t] = "close"
    /\ up' = [up EXCEPT ![t] = "done"]
    /\ UNCHANGED <<transport_number, exec, down, udp_data>>

DownForwardEnds(t) ==
    /\ down[t] = "forward"
    /\ down' = [down EXCEPT ![t] = "fetch_sub"]
    /\ UNCHANGED <<transport_number, exec, up, udp_data>>

DownFetchSub(t) ==
    /\ down[t] = "fetch_sub"
    /\ down' = [down EXCEPT ![t] = "close"]
    /\ FetchSub
    /\ UNCHANGED <<exec, up, udp_data>>

\* agent_connection_write.close() and the end of the task.
DownClose(t) ==
    /\ down[t] = "close"
    /\ down' = [down EXCEPT ![t] = "done"]
    /\ UNCHANGED <<transport_number, exec, up, udp_data>>

-----------------------------------------------------------------------------

\* The steps of t's tasks inside the two handlers.
HandlerStep(t) ==
    \/ InitDstConnection(t) \/ SendInitFail(t) \/ SendInitSuccessError(t)
    \/ SendInitSuccess(t) \/ TcpHandlerError(t)
    \/ UdpBind(t) \/ UdpConnect(t) \/ UdpSend(t) \/ UdpRecv(t)
    \/ UdpRecvTimeout(t) \/ UdpRecvError(t) \/ UdpReply(t) \/ UdpClose(t)
    \/ UdpHandlerResult(t)

RelayStep(t) ==
    \/ UpForwardEnds(t) \/ UpClose(t)
    \/ DownForwardEnds(t) \/ DownFetchSub(t) \/ DownClose(t)

TransportStep(t) ==
    \/ Accept(t) \/ StartTask(t) \/ FirstMessage(t)
    \/ HandlerStep(t) \/ RelayStep(t)

Next == \E t \in Transports : TransportStep(t)

Spec == Init /\ [][Next]_vars

-----------------------------------------------------------------------------
(* Fairness: tokio polls every task that can make progress.  Nothing is    *)
(* assumed of Accept, FirstMessage and the ends of the two forwards, which *)
(* wait for the agent or the destination without a timeout, nor of UdpRecv *)
(* and UdpRecvError: only the timeout bounds the wait for an answer.  That *)
(* to_socket_addrs returns, and that a send or close on the agent          *)
(* connection ends, is assumed; the code has no timeout for these.         *)

Fairness ==
    \A t \in Transports :
        /\ WF_vars(StartTask(t))
        /\ WF_vars(InitDstConnection(t))
        /\ WF_vars(SendInitFail(t))
        /\ WF_vars(SendInitSuccessError(t) \/ SendInitSuccess(t))
        /\ WF_vars(TcpHandlerError(t))
        /\ WF_vars(UdpBind(t))
        /\ WF_vars(UdpConnect(t))
        /\ WF_vars(UdpSend(t))
        /\ WF_vars(UdpRecvTimeout(t))
        /\ WF_vars(UdpReply(t))
        /\ WF_vars(UdpClose(t))
        /\ WF_vars(UdpHandlerResult(t))
        /\ WF_vars(UpClose(t))
        /\ WF_vars(DownFetchSub(t))
        /\ WF_vars(DownClose(t))

FairSpec == Spec /\ Fairness

-----------------------------------------------------------------------------
(* Which transports the counter counts                                     *)

Entered == {t \in Transports : exec[t] \notin {"unaccepted", "spawned"}}

\* exec returned before it called a handler: nobody will call fetch_sub.
Leaked == {t \in Transports : exec[t] \in {"closed_early", "rejected"}}

Counted ==
    {t \in Transports :
        \/ exec[t] \in {"first_message"} \cup TcpPoints \cup UdpPoints
        \/ exec[t] \in {"closed_early", "rejected"}
        \/ down[t] \in {"forward", "fetch_sub"}}

Left == Entered \ Counted

\* Nothing of t is running any more, so its sockets are closed.
Finished(t) ==
    /\ exec[t] \in Ended
    /\ up[t] \in {"none", "done"}
    /\ down[t] \in {"none", "done"}

-----------------------------------------------------------------------------
(* Properties                                                              *)

\* The counter is the number of transports between their fetch_add and their
\* fetch_sub, for every interleaving of the tasks of all transports: it never
\* drops below zero (which would wrap to 2^64 - 1) and no end of a handler
\* subtracts twice.
CounterAccounting == transport_number = Cardinality(Counted)

\* The proxy implements the gauge: one Enter, then at most one Leave, per
\* transport, without wrap-around.
Gauge == INSTANCE TransportGauge
            WITH entered <- Entered, left <- Left, number <- transport_number

GaugeSpec == Gauge!Spec

\* Once the first message selected a handler, exec returns: the waits for the
\* destination are bounded by timeouts.  (to_socket_addrs, and the sends and
\* closes on the agent connection, have none; that they end is assumed.)
HandlerReturns ==
    \A t \in Transports :
        exec[t] \in TcpPoints \cup UdpPoints ~> exec[t] \in Ended

\* What the log lines "current transport number" of server.rs and
\* transport/mod.rs report: when every transport has finished, none is
\* current.
NoneCurrentWhenAllFinished ==
    (\A t \in Transports : exec[t] = "unaccepted" \/ Finished(t))
        => transport_number = 0
=============================================================================
