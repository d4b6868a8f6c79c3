--------------------------- MODULE UdpAssociation ---------------------------
(***************************************************************************)
(* One SOCKS5 UDP association: the agent's handle_udp_associate_command    *)
(* and udp_relay (agent/src/transport/socks/mod.rs), and the proxy's       *)
(* UdpHandler (proxy/src/transport/udp.rs) for each of its datagrams.      *)
(*                                                                         *)
(* The agent relays one datagram at a time.  Each one gets its own proxy   *)
(* connection (`link`), its own handler at the proxy and its own socket    *)
(* towards the destination, and at most one answer.  udp_relay is a        *)
(* select! of that loop and of a watch on the client's tcp connection,     *)
(* which drops the loop at whatever await it is.                           *)
(*                                                                         *)
(* Datagram n is the n-th one that anybody sends to the agent's udp        *)
(* socket; everything that belongs to its exchange is indexed by n.        *)
(***************************************************************************)
EXTENDS Naturals, Sequences

CONSTANTS
    Requests,      \* addresses a client may put into its UDP ASSOCIATE
    Destinations,  \* addresses a datagram may be sent to
    MaxDatagrams,  \* datagrams sent to the agent's socket
    MaxAnswers,    \* answers of the destination to one datagram
    MaxFaults      \* proxy connections that are reset

Exchanges == 1..MaxDatagrams

ASSUME BoundsAssumption == MaxDatagrams \in Nat /\ MaxAnswers \in Nat /\ MaxFaults \in Nat

VARIABLES
    restrict,   \* client_udp_restrict_address
    relay,      \* where udp_relay is
    cur,        \* the datagram in the agent's hands, 0 for none
    control,    \* the client's tcp connection: open, closed, reset
    datagrams,  \* what was sent to the agent's socket, and by whom
    inbox,      \* datagrams waiting in that socket
    discarded,  \* datagrams the agent has skipped
    link,       \* proxy connection: none, open, agent_closed, proxy_closed, reset
    request,    \* per exchange: the agent's udp message, once sent
    handler,    \* per exchange: where the proxy's task is
    dst_in,     \* per exchange: the answers in dst_udp_socket
    answer,     \* per exchange: the proxy's udp message, once sent
    replies,    \* what the agent has sent to the client
    faults      \* resets so far

vars == <<restrict, relay, cur, control, datagrams, inbox, discarded, link,
          request, handler, dst_in, answer, replies, faults>>

agentVars  == <<restrict, relay, cur, discarded, replies>>
clientVars == <<control, datagrams, inbox>>
proxyVars  == <<handler, dst_in, answer>>

-----------------------------------------------------------------------------
(* Addresses                                                               *)

Ip(host, port)     == [kind |-> "ip", host |-> host, port |-> port]
Domain(host, port) == [kind |-> "domain", host |-> host, port |-> port]

IsAddress(a) == a = [kind |-> a.kind, host |-> a.host, port |-> a.port]

ASSUME RequestsAssumption == \A a \in Requests : IsAddress(a)

\* Mutant: the host is compared and the port is forgotten.
Mutant_eq(a, b) == a.kind = b.kind /\ a.host = b.host

\* PpaassUnifiedAddress::eq never resolves a name.
eq(a, b) == a.kind = b.kind /\ a.host = b.host /\ a.port = b.port

\* Socks5Address::parse.
parse(a) ==
    IF a = Domain("0", a.port) THEN Domain("127.0.0.1", a.port) ELSE a

\* The client and another program on its machine.
Client   == Ip("127.0.0.1", 1)
Stranger == Ip("127.0.0.1", 2)

-----------------------------------------------------------------------------

RelayPoints   == {"associate", "recv_from", "dial", "send", "await", "send_to", "ended"}
HandlerPoints == {"none", "first_message", "send", "recv", "reply", "close", "done"}
Links         == {"none", "open", "agent_closed", "proxy_closed", "reset"}

Datagram == [from : {Client, Stranger}, to : Destinations, ok : BOOLEAN]
Response == [of : Exchanges, empty : BOOLEAN]
Answer   == [of  : Exchanges,
             src : {parse(a) : a \in Requests},
             dst : {parse(a) : a \in Destinations}]

AgentOK ==
    /\ restrict \in {parse(a) : a \in Requests}
    /\ relay \in RelayPoints
    /\ cur \in 0..Len(datagrams)
    /\ discarded \subseteq 1..Len(datagrams)
    /\ replies \in Seq(Answer)
    /\ (cur # 0) <=> (relay \in {"dial", "send", "await", "send_to"})

ClientOK ==
    /\ control \in {"open", "closed", "reset"}
    /\ datagrams \in Seq(Datagram) /\ Len(datagrams) <= MaxDatagrams
    /\ inbox \in Seq(1..Len(datagrams))

LinkOK ==
    /\ link \in [Exchanges -> Links]
    /\ request \in [Exchanges -> BOOLEAN]
    /\ faults \in 0..MaxFaults

ProxyOK ==
    /\ handler \in [Exchanges -> HandlerPoints]
    /\ dst_in \in [Exchanges -> Seq(Response)]
    /\ answer \in [Exchanges -> Seq(Answer)]
    /\ \A n \in Exchanges : Len(answer[n]) <= 1

\* The state is well formed, and a datagram is in the agent's hands exactly
\* while relay_udp_data is between its recv_from and its send_to.
TypeOK == AgentOK /\ ClientOK /\ LinkOK /\ ProxyOK

Init ==
    /\ restrict \in {parse(a) : a \in Requests}
    /\ relay = "associate"
    /\ cur = 0
    /\ control = "open"
    /\ datagrams = <<>>
    /\ inbox = <<>>
    /\ discarded = {}
    /\ link    = [n \in Exchanges |-> "none"]
    /\ request = [n \in Exchanges |-> FALSE]
    /\ handler = [n \in Exchanges |-> "none"]
    /\ dst_in  = [n \in Exchanges |-> <<>>]
    /\ answer  = [n \in Exchanges |-> <<>>]
    /\ replies = <<>>
    /\ faults = 0

-----------------------------------------------------------------------------
(* The client and the network (external)                                   *)

\* Anybody sends a datagram to the agent's socket; ok tells whether it is a
\* well-formed SOCKS5 packet.
SendDatagram ==
    /\ relay \notin {"associate", "ended"}
    /\ Len(datagrams) < MaxDatagrams
    /\ \E from \in {Client, Stranger}, to \in Destinations, ok \in BOOLEAN :
          datagrams' = Append(datagrams, [from |-> from, to |-> to, ok |-> ok])
    /\ inbox' = Append(inbox, Len(datagrams) + 1)
    /\ UNCHANGED <<control, link, request, faults>>
    /\ UNCHANGED agentVars /\ UNCHANGED proxyVars

LoseDatagram ==
    /\ inbox # <<>>
    /\ inbox' = Tail(inbox)
    /\ UNCHANGED <<control, datagrams, link, request, faults>>
    /\ UNCHANGED agentVars /\ UNCHANGED proxyVars

\* The client gives the association up.
ClientEndsControl ==
    /\ control = "open"
    /\ control' \in {"closed", "reset"}
    /\ UNCHANGED <<datagrams, inbox, link, request, faults>>
    /\ UNCHANGED agentVars /\ UNCHANGED proxyVars

\* The destination answers, with data or an empty datagram, once or more often,
\* while the proxy's socket still exists.
DestinationAnswers(n) ==
    /\ handler[n] \in {"recv", "reply", "close"}
    /\ Len(dst_in[n]) < MaxAnswers
    /\ \E empty \in BOOLEAN :
          dst_in' = [dst_in EXCEPT ![n] = Append(@, [of |-> n, empty |-> empty])]
    /\ UNCHANGED <<link, request, handler, answer, faults>>
    /\ UNCHANGED agentVars /\ UNCHANGED clientVars

\* A proxy connection is reset, and what was in flight may be lost.
Break(n) ==
    /\ faults < MaxFaults
    /\ link[n] = "open"
    /\ link' = [link EXCEPT ![n] = "reset"]
    /\ \/ UNCHANGED answer
       \/ relay # "send_to" /\ answer' = [answer EXCEPT ![n] = <<>>]
    /\ faults' = faults + 1
    /\ UNCHANGED <<request, handler, dst_in>>
    /\ UNCHANGED agentVars /\ UNCHANGED clientVars

-----------------------------------------------------------------------------
(* The agent                                                               *)

\* The agent's side of the proxy connection in use, if any, is dropped.
DropLink ==
    link' = [n \in Exchanges |->
                IF n = cur /\ link[n] = "open" THEN "agent_closed" ELSE link[n]]

\* udp_relay returns, with Ok or Err: the loop and its sockets are dropped.
End ==
    /\ relay' = "ended"
    /\ cur' = 0
    /\ inbox' = <<>>
    /\ DropLink

\* handle_udp_associate_command: bind, and the Succeeded answer.
Associate ==
    /\ relay = "associate"
    /\ relay' \in {"recv_from", "ended"}
    /\ UNCHANGED <<restrict, cur, discarded, replies, link, request, faults>>
    /\ UNCHANGED clientVars /\ UNCHANGED proxyVars

\* recv_from, the check of the sender and the decoding of the packet.
RecvFrom ==
    /\ relay = "recv_from"
    /\ inbox # <<>>
    /\ LET n == Head(inbox)
           d == datagrams[n]
       IN  \/ /\ ~eq(restrict, d.from)
              /\ discarded' = discarded \cup {n}
              /\ inbox' = Tail(inbox)
              /\ UNCHANGED <<relay, cur, link>>
           \/ /\ eq(restrict, d.from) /\ ~d.ok
              /\ End
              /\ UNCHANGED discarded
           \/ /\ eq(restrict, d.from) /\ d.ok
              /\ relay' = "dial"
              /\ cur' = n
              /\ inbox' = Tail(inbox)
              /\ UNCHANGED <<discarded, link>>
    /\ UNCHANGED <<restrict, replies, control, datagrams, request, faults>>
    /\ UNCHANGED proxyVars

\* recv_from fails: the association ends.
RecvFromFails ==
    /\ relay = "recv_from"
    /\ End
    /\ UNCHANGED <<restrict, discarded, replies, control, datagrams, request, faults>>
    /\ UNCHANGED proxyVars

\* create_connection succeeds, or its error or timeout ends the association.
Dial ==
    /\ relay = "dial"
    /\ \/ /\ relay' = "send"
          /\ link' = [link EXCEPT ![cur] = "open"]
          /\ UNCHANGED <<cur, inbox>>
       \/ End
    /\ UNCHANGED <<restrict, discarded, replies, control, datagrams, request, faults>>
    /\ UNCHANGED proxyVars

\* send; encode fails without a key, and the connection may have been reset.
Send ==
    /\ relay = "send"
    /\ \/ /\ link[cur] = "open"
          /\ relay' = "await"
          /\ request' = [request EXCEPT ![cur] = TRUE]
          /\ UNCHANGED <<cur, inbox, link>>
       \/ /\ link[cur] \in {"open", "reset"}
          /\ End
          /\ UNCHANGED request
    /\ UNCHANGED <<restrict, discarded, replies, control, datagrams, faults>>
    /\ UNCHANGED proxyVars

\* proxy_connection.next(): the answer; one that cannot be decoded, or is no udp
\* message; an error or None.
Next_ ==
    /\ relay = "await"
    /\ \/ /\ answer[cur] # <<>>
          /\ relay' = "send_to"
          /\ UNCHANGED <<cur, inbox, link>>
       \/ /\ answer[cur] # <<>>
          /\ End
       \/ /\ answer[cur] = <<>>
          /\ link[cur] \in {"proxy_closed", "reset"}
          /\ End
    /\ UNCHANGED <<restrict, discarded, replies, control, datagrams, request, faults>>
    /\ UNCHANGED proxyVars

\* Mutant: the connection is kept for the next datagram.
Mutant_SendTo ==
    /\ relay = "send_to"
    /\ replies' = Append(replies, answer[cur][1])
    /\ relay' = "recv_from"
    /\ UNCHANGED <<restrict, cur, inbox, link, discarded, control, datagrams,
                   request, faults>>
    /\ UNCHANGED proxyVars

\* The answer goes to the address in the proxy's message, the connection is
\* dropped and the loop goes on; an error of send_to ends the association.
SendTo ==
    /\ relay = "send_to"
    /\ \/ /\ replies' = Append(replies, answer[cur][1])
          /\ relay' = "recv_from"
          /\ cur' = 0
          /\ DropLink
          /\ UNCHANGED inbox
       \/ /\ End
          /\ UNCHANGED replies
    /\ UNCHANGED <<restrict, discarded, control, datagrams, request, faults>>
    /\ UNCHANGED proxyVars

\* Mutant: a read of zero bytes does not leave the loop, only an error does.
Mutant_CheckControl ==
    /\ relay \notin {"associate", "ended"}
    /\ control = "reset"
    /\ End
    /\ UNCHANGED <<restrict, discarded, replies, control, datagrams, request, faults>>
    /\ UNCHANGED proxyVars

\* check_udp_relay_tcp_connection returns and select! drops the other branch.
CheckControl ==
    /\ relay \notin {"associate", "ended"}
    /\ control # "open"
    /\ End
    /\ UNCHANGED <<restrict, discarded, replies, control, datagrams, request, faults>>
    /\ UNCHANGED proxyVars

-----------------------------------------------------------------------------
(* The proxy: the task of exchange n                                       *)

\* The task of n moves on.
Goto(n, from, to) ==
    /\ handler[n] = from
    /\ handler' = [handler EXCEPT ![n] = to]

\* accept_agent_connection.
Accept(n) ==
    /\ link[n] # "none"
    /\ Goto(n, "none", "first_message")
    /\ UNCHANGED <<link, request, dst_in, answer, faults>>
    /\ UNCHANGED agentVars /\ UNCHANGED clientVars

\* Transport::exec reads the datagram's message, which it may not be able to
\* decode, or an end or error.
FirstMessage(n) ==
    /\ \/ request[n] /\ Goto(n, "first_message", "send")
       \/ request[n] /\ Goto(n, "first_message", "close")
       \/ /\ link[n] = "reset" \/ (link[n] = "agent_closed" /\ ~request[n])
          /\ Goto(n, "first_message", "done")
    /\ UNCHANGED <<link, request, dst_in, answer, faults>>
    /\ UNCHANGED agentVars /\ UNCHANGED clientVars

\* bind, resolve, connect and send; each may fail, connect within a timeout.
SendToDestination(n) ==
    /\ Goto(n, "send", "recv") \/ Goto(n, "send", "close")
    /\ UNCHANGED <<link, request, dst_in, answer, faults>>
    /\ UNCHANGED agentVars /\ UNCHANGED clientVars

\* The first datagram ends the receive loop; an empty one is not sent back.
Recv(n) ==
    /\ dst_in[n] # <<>>
    /\ Goto(n, "recv", IF Head(dst_in[n]).empty THEN "close" ELSE "reply")
    /\ UNCHANGED <<link, request, dst_in, answer, faults>>
    /\ UNCHANGED agentVars /\ UNCHANGED clientVars

\* Mutant: a timeout is followed by another recv.
Mutant_RecvTimeout(n) ==
    /\ Goto(n, "recv", "recv")
    /\ UNCHANGED <<link, request, dst_in, answer, faults>>
    /\ UNCHANGED agentVars /\ UNCHANGED clientVars

\* dst_udp_recv_timeout, or an error of recv.
RecvTimeout(n) ==
    /\ Goto(n, "recv", "close")
    /\ UNCHANGED <<link, request, dst_in, answer, faults>>
    /\ UNCHANGED agentVars /\ UNCHANGED clientVars

\* The message carries the two addresses of the request; an error of the send
\* is only logged.
Reply(n) ==
    /\ Goto(n, "reply", "close")
    /\ answer' = IF link[n] # "open" THEN answer
                 ELSE [answer EXCEPT ![n] =
                         <<[of  |-> Head(dst_in[n]).of,
                            src |-> restrict,
                            dst |-> parse(datagrams[n].to)]>>]
    /\ UNCHANGED <<link, request, dst_in, faults>>
    /\ UNCHANGED agentVars /\ UNCHANGED clientVars

\* agent_connection.close(), or its drop; the udp socket goes as well.
Close(n) ==
    /\ Goto(n, "close", "done")
    /\ link' = [link EXCEPT ![n] = IF @ = "open" THEN "proxy_closed" ELSE @]
    /\ dst_in' = [dst_in EXCEPT ![n] = <<>>]
    /\ UNCHANGED <<request, answer, faults>>
    /\ UNCHANGED agentVars /\ UNCHANGED clientVars

-----------------------------------------------------------------------------

Agent ==
    \/ Associate \/ RecvFrom \/ RecvFromFails \/ Dial \/ Send \/ Next_ \/ SendTo
    \/ CheckControl

Handler(n) ==
    \/ Accept(n) \/ FirstMessage(n) \/ SendToDestination(n) \/ Recv(n)
    \/ RecvTimeout(n) \/ Reply(n) \/ Close(n)

Next ==
    \/ SendDatagram \/ LoseDatagram \/ ClientEndsControl
    \/ Agent
    \/ \E n \in Exchanges : Handler(n) \/ DestinationAnswers(n) \/ Break(n)

Spec == Init /\ [][Next]_vars

-----------------------------------------------------------------------------
(* Fairness: tokio polls the tasks, and both branches of the select!; dial *)
(* and connect have timeouts.  Nothing is assumed of the client, of the    *)
(* destination, or of recv_from and recv, only of recv's timeout.          *)

Fairness ==
    /\ WF_vars(Associate)
    /\ WF_vars(Dial \/ Send \/ Next_ \/ SendTo)
    /\ WF_vars(CheckControl)
    /\ \A n \in Exchanges :
          /\ WF_vars(Accept(n) \/ FirstMessage(n) \/ SendToDestination(n)
                       \/ Reply(n) \/ Close(n))
          /\ WF_vars(RecvTimeout(n))

FairSpec == Spec /\ Fairness

-----------------------------------------------------------------------------
(* Properties                                                              *)

\* relay_udp_data answers only datagrams of the address the association was
\* made for, to that address, each at most once and in the order in which they
\* came, and names the destination the datagram was sent to - whatever the
\* destination sends late, twice or not at all.
RepliesMatch ==
    \A i \in 1..Len(replies) :
        LET r == replies[i]
            d == datagrams[r.of]
        IN  /\ d.from = restrict
            /\ r.src = restrict
            /\ r.dst = parse(d.to)
            /\ \A j \in 1..(i - 1) : replies[j].of < r.of

\* The loop never waits for ever in an exchange: although the agent's next()
\* has no timeout, the proxy's timeouts make it answer or close.
ExchangeResolves ==
    cur # 0 ~> cur = 0

\* A client that closes its tcp connection ends the association in every state
\* of an exchange, and no task of the proxy outlives it.
AssociationEnds ==
    control # "open" ~>
        /\ relay = "ended"
        /\ \A n \in Exchanges : handler[n] \in {"none", "done"}

\* The agent's udp socket serves the client that asked for it
\* (test_udp_client.py sends a datagram and waits for the answer): a datagram
\* that is discarded did not come from the client.
DiscardsOnlyStrangers ==
    \A n \in discarded : datagrams[n].from # Client
=============================================================================
