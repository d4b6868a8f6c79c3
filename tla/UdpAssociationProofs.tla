------------------------ MODULE UdpAssociationProofs ------------------------
(***************************************************************************)
(* Proofs about UdpAssociation, for every number of datagrams, answers and *)
(* resets and every address of the request: what the agent sends to the    *)
(* client are answers to the client's own datagrams, in their order.       *)
(***************************************************************************)
EXTENDS UdpAssociation, SequenceTheorems, TLAPS

(***************************************************************************)
(* The inductive invariant.  RepliesMatch looks only at what was sent to   *)
(* the client; what may still be sent are the answers of the exchanges,    *)
(* made from what the destination sent to the socket of the same exchange, *)
(* and the agent takes them for datagrams in the order of its inbox.       *)
(***************************************************************************)

\* A proxy connection, and the proxy's task, belong to a datagram.
ExchangeOfDatagram ==
    \A n \in Exchanges :
        /\ handler[n] # "none" => link[n] # "none"
        /\ link[n] # "none" => n <= Len(datagrams)

\* The udp socket of an exchange receives answers to its datagram only.
OwnSocket ==
    \A n \in Exchanges :
        /\ \A i \in 1..Len(dst_in[n]) : dst_in[n][i].of = n
        /\ handler[n] = "reply" => dst_in[n] # <<>>

\* The proxy's message answers the datagram of its exchange.
OwnAnswer ==
    \A n \in Exchanges : answer[n] # <<>> =>
        /\ n <= Len(datagrams)
        /\ answer[n][1] = [of |-> n, src |-> restrict, dst |-> parse(datagrams[n].to)]

\* The datagram in the agent's hands passed the check of its sender.
Checked ==
    /\ cur # 0 => datagrams[cur].from = restrict
    /\ relay = "send_to" => answer[cur] # <<>>

\* Replies are about datagrams before the one in the agent's hands, and the
\* inbox holds later ones, in order.
InOrder ==
    /\ \A i \in 1..Len(replies) :
          /\ replies[i].of <= Len(datagrams)
          /\ cur # 0 => replies[i].of < cur
          /\ \A j \in 1..Len(inbox) : replies[i].of < inbox[j]
    /\ \A j \in 1..Len(inbox) : cur < inbox[j]
    /\ \A j, k \in 1..Len(inbox) : k < j => inbox[k] < inbox[j]

IInv ==
    /\ TypeOK
    /\ ExchangeOfDatagram
    /\ OwnSocket
    /\ OwnAnswer
    /\ Checked
    /\ InOrder
    /\ RepliesMatch

USE DEF Exchanges, agentVars, clientVars, proxyVars

-----------------------------------------------------------------------------
(* Addresses and sequences                                                 *)

\* The address of an association has the three parts of an address.
LEMMA RestrictIsAddress ==
    ASSUME TypeOK
    PROVE  IsAddress(restrict)
<1>1. PICK a \in Requests : restrict = parse(a)
  BY DEF TypeOK, AgentOK
<1>2. CASE restrict = a
  BY <1>2, RequestsAssumption
<1>3. CASE restrict = Domain("127.0.0.1", a.port)
  BY <1>3 DEF Domain, IsAddress
<1> QED
  BY <1>1, <1>2, <1>3 DEF parse

\* eq compares all that makes up an address.
LEMMA EqIsEquality ==
    ASSUME NEW a, NEW b, IsAddress(a), IsAddress(b), eq(a, b)
    PROVE  a = b
BY DEF eq, IsAddress

\* The senders of datagrams have addresses.
LEMMA SendersHaveAddresses == IsAddress(Client) /\ IsAddress(Stranger)
BY DEF Client, Stranger, Ip, IsAddress

\* What is left of the inbox when its first element is gone.
LEMMA InboxTail ==
    ASSUME TypeOK, inbox # <<>>
    PROVE  /\ Head(inbox) = inbox[1] /\ 1 \in 1..Len(inbox)
           /\ Head(inbox) \in 1..Len(datagrams)
           /\ Tail(inbox) \in Seq(1..Len(datagrams))
           /\ Len(Tail(inbox)) = Len(inbox) - 1
           /\ \A i \in 1..Len(Tail(inbox)) : Tail(inbox)[i] = inbox[i + 1]
BY HeadTailProperties DEF TypeOK, ClientOK

\* The end of udp_relay.
LEMMA EndTypes ==
    ASSUME TypeOK, End
    PROVE  /\ relay' \in RelayPoints /\ cur' = 0 /\ relay' = "ended"
           /\ inbox' = <<>> /\ inbox' \in Seq(1..Len(datagrams))
           /\ link' \in [Exchanges -> Links]
BY DEF TypeOK, LinkOK, End, DropLink, RelayPoints, Links

-----------------------------------------------------------------------------
(* Type correctness                                                        *)

\* Every step keeps the variables in their types.
LEMMA TypeStep ==
    ASSUME TypeOK, OwnSocket, ExchangeOfDatagram, Checked, [Next]_vars
    PROVE  TypeOK'
<1>a. End => /\ relay' = "ended" /\ relay' \in RelayPoints /\ cur' = 0
             /\ inbox' \in Seq(1..Len(datagrams)) /\ link' \in [Exchanges -> Links]
  BY EndTypes
<1>b. inbox # <<>> => /\ Head(inbox) \in 1..Len(datagrams)
                      /\ Tail(inbox) \in Seq(1..Len(datagrams))
  BY InboxTail
<1>c. cur # 0 => cur \in Exchanges
  BY BoundsAssumption DEF TypeOK, AgentOK, ClientOK
<1>e. Len(datagrams) \in Nat
  BY DEF TypeOK, ClientOK
<1>d. /\ UNCHANGED agentVars /\ UNCHANGED datagrams => AgentOK'
      /\ UNCHANGED clientVars => ClientOK'
      /\ UNCHANGED <<link, request, faults>> => LinkOK'
      /\ UNCHANGED proxyVars => ProxyOK'
  BY DEF TypeOK, AgentOK, ClientOK, LinkOK, ProxyOK
<1> SUFFICES AgentOK' /\ ClientOK' /\ LinkOK' /\ ProxyOK'
  BY DEF TypeOK
<1>1. CASE SendDatagram
  <2>1. PICK d \in Datagram : datagrams' = Append(datagrams, d)
    BY <1>1 DEF SendDatagram, Datagram
  <2>2. datagrams' \in Seq(Datagram) /\ Len(datagrams') = Len(datagrams) + 1
    BY <2>1 DEF TypeOK, ClientOK
  <2>3. Len(datagrams) \in Nat /\ inbox \in Seq(1..Len(datagrams'))
    BY <2>2, SeqMonotonic DEF TypeOK, ClientOK
  <2>4. ClientOK'
    BY <1>1, <2>2, <2>3, BoundsAssumption DEF SendDatagram, TypeOK, ClientOK
  <2>5. AgentOK'
    BY <1>1, <2>2, <2>3 DEF SendDatagram, TypeOK, AgentOK
  <2> QED
    BY <1>1, <1>d, <2>4, <2>5 DEF SendDatagram
<1>2. CASE LoseDatagram
  <2>1. ClientOK'
    BY <1>2, <1>b DEF LoseDatagram, TypeOK, ClientOK
  <2> QED
    BY <1>2, <1>d, <2>1 DEF LoseDatagram
<1>3. CASE ClientEndsControl
  <2>1. ClientOK'
    BY <1>3 DEF ClientEndsControl, TypeOK, ClientOK
  <2> QED
    BY <1>3, <1>d, <2>1 DEF ClientEndsControl
<1>4. CASE Agent
  <2>1. AgentOK'
    <3>0. End /\ UNCHANGED <<restrict, discarded, replies, datagrams>> => AgentOK'
      BY <1>a, <1>e DEF TypeOK, AgentOK
    <3>1. CASE Associate
      BY <3>1 DEF Associate, TypeOK, AgentOK, RelayPoints
    <3>2. CASE RecvFrom
      <4>1. CASE UNCHANGED discarded
        BY <3>2, <3>0, <4>1, <1>b DEF RecvFrom, TypeOK, AgentOK, RelayPoints
      <4>2. CASE discarded' = discarded \cup {Head(inbox)} /\ UNCHANGED <<relay, cur>>
        BY <3>2, <4>2, <1>b DEF RecvFrom, TypeOK, AgentOK
      <4> QED
        BY <3>2, <4>1, <4>2 DEF RecvFrom
    <3>3. CASE RecvFromFails \/ CheckControl
      BY <3>0, <3>3 DEF RecvFromFails, CheckControl
    <3>4. CASE Dial
      BY <3>0, <3>4 DEF Dial, TypeOK, AgentOK, RelayPoints
    <3>5. CASE Send
      BY <3>0, <3>5 DEF Send, TypeOK, AgentOK, RelayPoints
    <3>6. CASE Next_
      BY <3>0, <3>6 DEF Next_, TypeOK, AgentOK, RelayPoints
    <3>7. CASE SendTo
      <4>1. answer[cur][1] \in Answer
        BY <3>7, <1>c DEF SendTo, Checked, TypeOK, AgentOK, ProxyOK
      <4>2. Append(replies, answer[cur][1]) \in Seq(Answer)
        BY <4>1, AppendProperties DEF TypeOK, AgentOK
      <4> QED
        BY <3>0, <3>7, <4>2, <1>e DEF SendTo, TypeOK, AgentOK, RelayPoints
    <3> QED
      BY <1>4, <3>1, <3>2, <3>3, <3>4, <3>5, <3>6, <3>7 DEF Agent
  <2>2. ClientOK'
    BY <1>4, <1>a, <1>b, <1>d
       DEF Agent, Associate, RecvFrom, RecvFromFails, CheckControl, Dial, Send, Next_, SendTo,
           TypeOK, ClientOK
  <2>3. LinkOK'
    <3> USE <1>a, <1>c DEF TypeOK, LinkOK, Links
    <3>1. CASE Dial \/ Send
      BY <1>4, <3>1 DEF Dial, Send, AgentOK
    <3>2. CASE SendTo
      BY <1>4, <3>2 DEF SendTo, DropLink
    <3> QED
      BY <1>4, <3>1, <3>2
         DEF Agent, Associate, RecvFrom, RecvFromFails, CheckControl, Next_
  <2>4. ProxyOK'
    BY <1>4, <1>d
       DEF Agent, Associate, RecvFrom, RecvFromFails, CheckControl, Dial, Send, Next_, SendTo
  <2> QED
    BY <2>1, <2>2, <2>3, <2>4
<1>5. ASSUME NEW n \in Exchanges, Handler(n)
      PROVE  AgentOK' /\ ClientOK' /\ LinkOK' /\ ProxyOK'
  <2> USE DEF Goto, HandlerPoints
  <2>1. AgentOK' /\ ClientOK'
    BY <1>5, <1>d DEF Handler, Accept, FirstMessage, SendToDestination, Recv, RecvTimeout,
       Reply, Close
  <2>2. CASE Reply(n)
    <3> DEFINE a == [of  |-> Head(dst_in[n]).of, src |-> restrict,
                     dst |-> parse(datagrams[n].to)]
    <3>1. dst_in[n] # <<>> /\ n \in 1..Len(datagrams)
      BY <2>2 DEF Reply, OwnSocket, ExchangeOfDatagram, TypeOK, ClientOK
    <3>2. dst_in[n] \in Seq(Response)
      BY DEF TypeOK, ProxyOK
    <3>3. Head(dst_in[n]) \in Response
      BY <3>1, <3>2
    <3>4. datagrams[n] \in Datagram
      BY <3>1 DEF TypeOK, ClientOK
    <3>5. a \in Answer
      BY <3>3, <3>4 DEF Answer, Response, Datagram, TypeOK, AgentOK
    <3> HIDE DEF a
    <3>6. answer' = IF link[n] # "open" THEN answer ELSE [answer EXCEPT ![n] = <<a>>]
      BY <2>2 DEF Reply, a
    <3>7. <<a>> \in Seq(Answer) /\ Len(<<a>>) = 1
      BY <3>5
    <3>8. ProxyOK'
      BY <2>2, <3>6, <3>7 DEF Reply, TypeOK, ProxyOK
    <3> QED
      BY <1>d, <2>1, <2>2, <3>8 DEF Reply
  <2>3. CASE Close(n)
    BY <2>1, <2>3 DEF Close, Links, TypeOK, LinkOK, ProxyOK
  <2>4. CASE ~Reply(n) /\ ~Close(n)
    <3>1. UNCHANGED <<link, request, faults>>
      BY <1>5, <2>4 DEF Handler, Accept, FirstMessage, SendToDestination, Recv, RecvTimeout
    <3>2. ProxyOK'
      BY <1>5, <2>4 DEF Handler, Accept, FirstMessage, SendToDestination, Recv, RecvTimeout,
         TypeOK, ProxyOK
    <3> QED
      BY <1>d, <2>1, <3>1, <3>2
  <2> QED
    BY <2>2, <2>3, <2>4
<1>6. ASSUME NEW n \in Exchanges, DestinationAnswers(n)
      PROVE  AgentOK' /\ ClientOK' /\ LinkOK' /\ ProxyOK'
  <2>1. PICK r \in Response : dst_in' = [dst_in EXCEPT ![n] = Append(@, r)]
    BY <1>6 DEF DestinationAnswers, Response
  <2>2. Append(dst_in[n], r) \in Seq(Response)
    BY AppendProperties DEF TypeOK, ProxyOK
  <2>3. dst_in' \in [Exchanges -> Seq(Response)]
    BY <2>1, <2>2 DEF TypeOK, ProxyOK
  <2>4. ProxyOK'
    BY <1>6, <2>3 DEF DestinationAnswers, TypeOK, ProxyOK
  <2> QED
    BY <1>6, <1>d, <2>4 DEF DestinationAnswers
<1>7. ASSUME NEW n \in Exchanges, Break(n)
      PROVE  AgentOK' /\ ClientOK' /\ LinkOK' /\ ProxyOK'
  <2>1. LinkOK'
    BY <1>7, BoundsAssumption DEF Break, Links, TypeOK, LinkOK
  <2>2. ProxyOK'
    <3>1. <<>> \in Seq(Answer) /\ Len(<<>>) = 0
      BY EmptySeq
    <3>2. CASE UNCHANGED answer
      BY <1>7, <1>d, <3>2 DEF Break
    <3>3. CASE answer' = [answer EXCEPT ![n] = <<>>]
      BY <1>7, <3>1, <3>3 DEF Break, TypeOK, ProxyOK
    <3> QED
      BY <1>7, <3>2, <3>3 DEF Break
  <2> QED
    BY <1>7, <1>d, <2>1, <2>2 DEF Break
<1>8. CASE UNCHANGED vars
  BY <1>8, <1>d DEF vars
<1> QED
  BY <1>1, <1>2, <1>3, <1>4, <1>5, <1>6, <1>7, <1>8 DEF Next

-----------------------------------------------------------------------------
(* The exchanges                                                           *)

\* Connections are made for datagrams, and tasks for connections.
LEMMA ExchangeStep ==
    ASSUME TypeOK, ExchangeOfDatagram, [Next]_vars
    PROVE  ExchangeOfDatagram'
<1> USE DEF ExchangeOfDatagram
<1>1. Len(datagrams) \in Nat /\ cur \in 0..Len(datagrams)
  BY DEF TypeOK, AgentOK, ClientOK
<1>2. link \in [Exchanges -> Links] /\ handler \in [Exchanges -> HandlerPoints]
  BY DEF TypeOK, LinkOK, ProxyOK
<1>3. End \/ DropLink => \A n \in Exchanges : link'[n] # "none" <=> link[n] # "none"
  BY <1>2 DEF End, DropLink
<1>4. CASE SendDatagram
  <2>1. Len(datagrams') = Len(datagrams) + 1
    BY <1>4 DEF SendDatagram, TypeOK, ClientOK, Datagram
  <2> QED
    BY <1>1, <1>4, <2>1 DEF SendDatagram
<1>5. CASE LoseDatagram \/ ClientEndsControl
  BY <1>5 DEF LoseDatagram, ClientEndsControl
<1>6. CASE Agent
  <2>1. CASE Dial
    <3>1. \A n \in Exchanges : link'[n] # "none" => link[n] # "none" \/ n = cur
      BY <1>2, <1>3, <2>1 DEF Dial
    <3>2. \A n \in Exchanges : link[n] # "none" => link'[n] # "none"
      BY <1>2, <1>3, <2>1 DEF Dial
    <3>3. UNCHANGED <<datagrams, handler>>
      BY <2>1 DEF Dial
    <3> QED
      BY <1>1, <3>1, <3>2, <3>3
  <2>2. CASE SendTo
    <3>1. UNCHANGED <<datagrams, handler>>
      BY <2>2 DEF SendTo
    <3> QED
      BY <1>3, <2>2, <3>1 DEF SendTo
  <2> QED
    BY <1>3, <1>6, <2>1, <2>2
       DEF Agent, Associate, RecvFrom, RecvFromFails, CheckControl, Send, Next_
<1>7. ASSUME NEW n \in Exchanges, Handler(n) \/ DestinationAnswers(n) \/ Break(n)
      PROVE  ExchangeOfDatagram'
  <2>1. \A m \in Exchanges : link'[m] # "none" <=> link[m] # "none"
    BY <1>2, <1>7 DEF Handler, Accept, FirstMessage, SendToDestination, Recv, RecvTimeout,
       Reply, Close, DestinationAnswers, Break
  <2>2. \A m \in Exchanges : handler'[m] # "none" => handler[m] # "none" \/ link[m] # "none"
    BY <1>2, <1>7 DEF Handler, Accept, FirstMessage, SendToDestination, Recv, RecvTimeout,
       Reply, Close, DestinationAnswers, Break, Goto
  <2>3. UNCHANGED datagrams
    BY <1>7 DEF Handler, Accept, FirstMessage, SendToDestination, Recv, RecvTimeout,
       Reply, Close, DestinationAnswers, Break
  <2> QED
    BY <2>1, <2>2, <2>3
<1>8. CASE UNCHANGED vars
  BY <1>8 DEF vars
<1> QED
  BY <1>4, <1>5, <1>6, <1>7, <1>8 DEF Next

\* The destination's answers stay in the socket of their exchange.
LEMMA SocketStep ==
    ASSUME TypeOK, OwnSocket, [Next]_vars
    PROVE  OwnSocket'
<1>1. /\ handler \in [Exchanges -> HandlerPoints]
      /\ dst_in \in [Exchanges -> Seq(Response)]
  BY DEF TypeOK, ProxyOK
<1>2. CASE UNCHANGED proxyVars
  BY <1>2 DEF OwnSocket
<1>3. ASSUME NEW n \in Exchanges, DestinationAnswers(n)
      PROVE  OwnSocket'
  <2>1. PICK r \in Response : r.of = n /\ dst_in' = [dst_in EXCEPT ![n] = Append(@, r)]
    BY <1>3 DEF DestinationAnswers, Response
  <2>2. /\ Append(dst_in[n], r) # <<>>
        /\ \A i \in 1..Len(Append(dst_in[n], r)) : Append(dst_in[n], r)[i].of = n
    <3>1. Len(Append(dst_in[n], r)) = Len(dst_in[n]) + 1 /\ Len(dst_in[n]) \in Nat
      BY <1>1, AppendProperties
    <3>2. /\ \A i \in 1..Len(dst_in[n]) : Append(dst_in[n], r)[i] = dst_in[n][i]
          /\ Append(dst_in[n], r)[Len(dst_in[n]) + 1] = r
          /\ Append(dst_in[n], r) # <<>>
      BY <1>1, AppendProperties
    <3> QED
      BY <2>1, <3>1, <3>2 DEF OwnSocket
  <2> QED
    BY <1>1, <1>3, <2>1, <2>2 DEF OwnSocket, DestinationAnswers
<1>4. ASSUME NEW n \in Exchanges, Handler(n)
      PROVE  OwnSocket'
  <2>1. CASE Close(n)
    BY <1>1, <2>1 DEF Close, Goto, OwnSocket
  <2>2. CASE ~Close(n)
    <3>1. dst_in' = dst_in
      BY <1>4, <2>2 DEF Handler, Accept, FirstMessage, SendToDestination, Recv, RecvTimeout, Reply
    <3>2. \A m \in Exchanges :
             handler'[m] = "reply" => handler[m] = "reply" \/ dst_in[m] # <<>>
      BY <1>1, <1>4, <2>2
         DEF Handler, Accept, FirstMessage, SendToDestination, Recv, RecvTimeout, Reply, Goto
    <3> QED
      BY <3>1, <3>2 DEF OwnSocket
  <2> QED
    BY <2>1, <2>2
<1>5. ASSUME NEW n \in Exchanges, Break(n)
      PROVE  OwnSocket'
  BY <1>5 DEF Break, OwnSocket
<1> QED
  BY <1>2, <1>3, <1>4, <1>5
     DEF Next, vars, SendDatagram, LoseDatagram, ClientEndsControl, Agent, Associate, RecvFrom,
         RecvFromFails, Dial, Send, Next_, SendTo, CheckControl

\* The datagrams that were sent stay what they are.
LEMMA DatagramsGrow ==
    ASSUME TypeOK, [Next]_vars
    PROVE  /\ Len(datagrams) \in Nat /\ Len(datagrams') \in Nat
           /\ Len(datagrams) <= Len(datagrams')
           /\ \A n \in 1..Len(datagrams) : datagrams'[n] = datagrams[n]
           /\ restrict' = restrict
<1>1. datagrams \in Seq(Datagram)
  BY DEF TypeOK, ClientOK
<1>2. CASE SendDatagram
  <2>1. PICK d \in Datagram : datagrams' = Append(datagrams, d)
    BY <1>2 DEF SendDatagram, Datagram
  <2>2. /\ Len(datagrams') = Len(datagrams) + 1
        /\ \A n \in 1..Len(datagrams) : datagrams'[n] = datagrams[n]
    BY <1>1, <2>1, AppendProperties
  <2> QED
    BY <1>1, <1>2, <2>2 DEF SendDatagram
<1>3. CASE ~SendDatagram
  <2>1. UNCHANGED <<datagrams, restrict>>
    BY <1>3 DEF Next, vars, LoseDatagram, ClientEndsControl, Agent, Associate, RecvFrom,
         RecvFromFails, Dial, Send, Next_, SendTo, CheckControl, Handler, Accept, FirstMessage,
         SendToDestination, Recv, RecvTimeout, Reply, Close, DestinationAnswers, Break
  <2> QED
    BY <1>1, <2>1
<1> QED
  BY <1>2, <1>3

\* The proxy answers in the name of the datagram it was given.
LEMMA AnswerStep ==
    ASSUME TypeOK, ExchangeOfDatagram, OwnSocket, OwnAnswer, [Next]_vars
    PROVE  OwnAnswer'
<1>1. /\ answer \in [Exchanges -> Seq(Answer)]
      /\ dst_in \in [Exchanges -> Seq(Response)]
  BY DEF TypeOK, ProxyOK
<1>2. SUFFICES ASSUME NEW m \in Exchanges, answer'[m] # <<>>
               PROVE  /\ m <= Len(datagrams')
                      /\ answer'[m][1] = [of |-> m, src |-> restrict',
                                          dst |-> parse(datagrams'[m].to)]
  BY DEF OwnAnswer
<1>3. CASE answer'[m] = answer[m]
  <2>1. m \in 1..Len(datagrams)
    <3>1. m <= Len(datagrams)
      BY <1>2, <1>3 DEF OwnAnswer
    <3> QED
      BY <3>1, DatagramsGrow
  <2> QED
    BY <1>2, <1>3, <2>1, DatagramsGrow DEF OwnAnswer
<1>4. CASE Reply(m) /\ answer'[m] # answer[m]
  <2>1. dst_in[m] # <<>> /\ m \in 1..Len(datagrams)
    BY <1>4, DatagramsGrow DEF Reply, Goto, OwnSocket, ExchangeOfDatagram
  <2>2. Head(dst_in[m]).of = m
    BY <1>1, <2>1 DEF OwnSocket
  <2>3. answer'[m] = <<[of |-> m, src |-> restrict, dst |-> parse(datagrams[m].to)]>>
    BY <1>1, <1>4, <2>2 DEF Reply
  <2> QED
    BY <2>1, <2>3, DatagramsGrow
<1>5. CASE ~Reply(m)
  <2>1. answer'[m] = answer[m]
    <3>1. ASSUME NEW n \in Exchanges, n # m, Reply(n)
          PROVE  answer'[m] = answer[m]
      BY <1>1, <3>1 DEF Reply
    <3>2. ASSUME NEW n \in Exchanges, Break(n)
          PROVE  answer'[m] = answer[m]
      BY <1>1, <1>2, <3>2 DEF Break
    <3>3. CASE ~\E n \in Exchanges : Reply(n) \/ Break(n)
      <4>1. UNCHANGED answer
        BY <3>3 DEF Next, vars, SendDatagram, LoseDatagram, ClientEndsControl, Agent, Associate,
             RecvFrom, RecvFromFails, Dial, Send, Next_, SendTo, CheckControl, Handler, Accept,
             FirstMessage, SendToDestination, Recv, RecvTimeout, Close, DestinationAnswers
      <4> QED
        BY <4>1
    <3> QED
      BY <1>5, <3>1, <3>2, <3>3
  <2> QED
    BY <1>3, <2>1
<1> QED
  BY <1>3, <1>4, <1>5

-----------------------------------------------------------------------------
(* The agent                                                               *)

\* The agent works on datagrams of the right sender, and sends an answer that
\* it has.
LEMMA CheckedStep ==
    ASSUME TypeOK, Checked, [Next]_vars
    PROVE  Checked'
<1>1. cur \in 0..Len(datagrams) /\ cur \in 0..MaxDatagrams
  BY BoundsAssumption DEF TypeOK, AgentOK, ClientOK
<1>2. cur # 0 <=> relay \in {"dial", "send", "await", "send_to"}
  BY DEF TypeOK, AgentOK
<1>3. answer \in [Exchanges -> Seq(Answer)]
  BY DEF TypeOK, ProxyOK
<1>4. CASE Agent
  <2>1. UNCHANGED <<datagrams, restrict, answer>>
    BY <1>4 DEF Agent, Associate, RecvFrom, RecvFromFails, CheckControl, Dial, Send, Next_, SendTo
  <2>2. CASE RecvFrom
    <3>1. CASE cur' = cur
      BY <2>1, <2>2, <3>1 DEF RecvFrom, Checked, End
    <3>2. CASE cur' # cur /\ cur' # 0
      <4> DEFINE d == datagrams[Head(inbox)]
      <4>1. cur' = Head(inbox) /\ relay' = "dial" /\ eq(restrict, d.from) /\ inbox # <<>>
        BY <2>2, <3>2 DEF RecvFrom, End
      <4>2. d \in Datagram
        BY <4>1, InboxTail DEF TypeOK, ClientOK
      <4>3. IsAddress(d.from)
        BY <4>2, SendersHaveAddresses DEF Datagram
      <4>4. d.from = restrict
        BY <4>1, <4>3, RestrictIsAddress, EqIsEquality
      <4> QED
        BY <2>1, <4>1, <4>4 DEF Checked
    <3>3. CASE cur' = 0
      BY <2>2, <3>3, <1>2 DEF RecvFrom, Checked, End
    <3> QED
      BY <3>1, <3>2, <3>3
  <2>3. CASE ~RecvFrom
    <3>1. cur' \in {0, cur} /\ (relay' = "send_to" => cur' = cur /\ answer[cur] # <<>>)
      BY <1>4, <2>3 DEF Agent, Associate, RecvFromFails, CheckControl, Dial, Send, Next_, SendTo,
         End, Checked
    <3> QED
      BY <2>1, <3>1 DEF Checked
  <2> QED
    BY <2>2, <2>3
<1>5. CASE ~Agent
  <2>1. UNCHANGED <<cur, relay>>
    BY <1>5 DEF Next, vars, SendDatagram, LoseDatagram, ClientEndsControl, Handler, Accept,
       FirstMessage, SendToDestination, Recv, RecvTimeout, Reply, Close, DestinationAnswers, Break
  <2>2. cur # 0 => datagrams'[cur] = datagrams[cur] /\ restrict' = restrict
    BY <1>1, DatagramsGrow
  <2>3. relay = "send_to" => answer'[cur] # <<>>
    <3>1. SUFFICES ASSUME relay = "send_to"
                   PROVE  answer'[cur] # <<>>
      OBVIOUS
    <3>2. cur \in Exchanges /\ answer[cur] # <<>>
      BY <1>1, <1>2, <3>1 DEF Checked
    <3>3. ASSUME NEW n \in Exchanges, Reply(n)
          PROVE  answer'[cur] # <<>>
      BY <1>3, <3>2, <3>3 DEF Reply
    <3>4. ASSUME NEW n \in Exchanges, Break(n)
          PROVE  answer'[cur] # <<>>
      BY <3>1, <3>2, <3>4 DEF Break
    <3>5. CASE ~\E n \in Exchanges : Reply(n) \/ Break(n)
      <4>1. UNCHANGED answer
        BY <1>5, <3>5 DEF Next, vars, SendDatagram, LoseDatagram, ClientEndsControl, Handler,
           Accept, FirstMessage, SendToDestination, Recv, RecvTimeout, Close, DestinationAnswers
      <4> QED
        BY <3>2, <4>1
    <3> QED
      BY <3>3, <3>4, <3>5
  <2> QED
    BY <2>1, <2>2, <2>3 DEF Checked
<1> QED
  BY <1>4, <1>5

\* A reply about the datagram in hand is the last one in order.
LEMMA OrderStep ==
    ASSUME TypeOK, OwnAnswer, Checked, InOrder, [Next]_vars
    PROVE  InOrder'
<1>1. /\ Len(datagrams) \in Nat /\ cur \in 0..Len(datagrams) /\ cur \in 0..MaxDatagrams
      /\ Len(inbox) \in Nat /\ \A j \in 1..Len(inbox) : inbox[j] \in 1..Len(datagrams)
      /\ replies \in Seq(Answer)
      /\ cur # 0 <=> relay \in {"dial", "send", "await", "send_to"}
  BY BoundsAssumption DEF TypeOK, AgentOK, ClientOK
<1>2. \A i \in 1..Len(replies) : replies[i].of \in Exchanges
  <2>1. \A i \in 1..Len(replies) : replies[i] \in Answer
    BY <1>1
  <2> QED
    BY <2>1 DEF Answer
<1>a. \A j \in 1..Len(inbox) : cur < inbox[j]
  BY DEF InOrder
<1>b. \A j, k \in 1..Len(inbox) : k < j => inbox[k] < inbox[j]
  BY DEF InOrder
<1>c. /\ \A i \in 1..Len(replies) : replies[i].of <= Len(datagrams)
      /\ \A i \in 1..Len(replies), j \in 1..Len(inbox) : replies[i].of < inbox[j]
  BY DEF InOrder
<1>3. End => inbox' = <<>> /\ cur' = 0
  BY DEF End
<1>4. CASE SendDatagram
  <2>1. Len(datagrams') = Len(datagrams) + 1
    BY <1>4 DEF SendDatagram, TypeOK, ClientOK, Datagram
  <2>2. /\ Len(inbox') = Len(inbox) + 1
        /\ \A j \in 1..Len(inbox) : inbox'[j] = inbox[j]
        /\ inbox'[Len(inbox) + 1] = Len(datagrams) + 1
    BY <1>4 DEF SendDatagram, TypeOK, ClientOK
  <2>3. UNCHANGED <<cur, replies>>
    BY <1>4 DEF SendDatagram
  <2>4. \A j \in 1..Len(inbox') :
           \/ j \in 1..Len(inbox) /\ inbox'[j] = inbox[j]
           \/ j = Len(inbox) + 1 /\ inbox'[j] = Len(datagrams) + 1
    BY <1>1, <2>2
  <2>5. \A i \in 1..Len(replies) : replies[i].of <= Len(datagrams')
    BY <1>1, <1>2, <1>c, <2>1
  <2>6. \A i \in 1..Len(replies), j \in 1..Len(inbox') : replies[i].of < inbox'[j]
    BY <1>1, <1>2, <1>c, <2>4
  <2>7. \A j \in 1..Len(inbox') : cur < inbox'[j]
    BY <1>1, <1>a, <2>4, SMTT(30)
  <2>8. \A j, k \in 1..Len(inbox') : k < j => inbox'[k] < inbox'[j]
    BY <1>1, <1>b, <2>4
  <2> QED
    BY <2>3, <2>5, <2>6, <2>7, <2>8 DEF InOrder
<1>5. CASE LoseDatagram
  <2>1. /\ Len(inbox') = Len(inbox) - 1
        /\ \A j \in 1..Len(inbox') : inbox'[j] = inbox[j + 1]
    BY <1>5, InboxTail DEF LoseDatagram
  <2>2. UNCHANGED <<cur, replies, datagrams>>
    BY <1>5 DEF LoseDatagram
  <2>3. \A j \in 1..Len(inbox') : j + 1 \in 1..Len(inbox)
    BY <1>1, <2>1
  <2>4. \A j \in 1..Len(inbox') : cur < inbox'[j]
    BY <1>a, <2>1, <2>3
  <2>5. \A i \in 1..Len(replies), j \in 1..Len(inbox') : replies[i].of < inbox'[j]
    BY <1>c, <2>1, <2>3
  <2>6. \A j, k \in 1..Len(inbox') : k < j => inbox'[k] < inbox'[j]
    BY <1>b, <2>1, <2>3
  <2> QED
    BY <2>2, <2>4, <2>5, <2>6 DEF InOrder
<1>6. CASE RecvFrom
  <2>1. inbox # <<>> /\ UNCHANGED <<replies, datagrams>> /\ cur = 0
    BY <1>1, <1>6 DEF RecvFrom
  <2>2. CASE End
    BY <1>1, <1>2, <1>3, <2>1, <2>2 DEF InOrder
  <2>3. CASE inbox' = Tail(inbox) /\ cur' \in {0, Head(inbox)}
    <3>1. /\ Len(inbox') = Len(inbox) - 1 /\ Head(inbox) = inbox[1] /\ 1 \in 1..Len(inbox)
          /\ \A j \in 1..Len(inbox') : inbox'[j] = inbox[j + 1]
      BY <2>1, <2>3, InboxTail
    <3>2. \A j \in 1..Len(inbox') : j + 1 \in 1..Len(inbox) /\ inbox[1] < inbox[j + 1]
      BY <1>1, <3>1 DEF InOrder
    <3>3. \A j, k \in 1..Len(inbox') : k < j => inbox'[k] < inbox'[j]
      BY <1>1, <3>1 DEF InOrder
    <3>4. \A i \in 1..Len(replies), j \in 1..Len(inbox') :
             replies[i].of < inbox'[j] /\ replies[i].of < Head(inbox)
      BY <3>1, <3>2 DEF InOrder
    <3> QED
      BY <1>1, <1>2, <2>1, <2>3, <3>1, <3>2, <3>3, <3>4 DEF InOrder
  <2> QED
    BY <1>6, <2>1, <2>2, <2>3 DEF RecvFrom
<1>7. CASE SendTo
  <2>1. UNCHANGED datagrams
    BY <1>7 DEF SendTo
  <2>2. CASE End /\ UNCHANGED replies
    BY <1>1, <1>2, <1>3, <2>1, <2>2 DEF InOrder
  <2>3. CASE cur' = 0 /\ UNCHANGED inbox /\ replies' = Append(replies, answer[cur][1])
    <3>1. cur \in Exchanges /\ answer[cur] # <<>>
      BY <1>1, <1>7 DEF SendTo, Checked
    <3>2. answer[cur][1] \in Answer /\ answer[cur][1].of = cur
      <4>1. answer[cur][1] \in Answer
        BY <3>1 DEF TypeOK, ProxyOK
      <4>2. answer[cur][1] = [of |-> cur, src |-> restrict, dst |-> parse(datagrams[cur].to)]
        BY <3>1 DEF OwnAnswer
      <4> QED
        BY <4>1, <4>2
    <3>3. /\ Len(replies') = Len(replies) + 1 /\ Len(replies) \in Nat
          /\ \A i \in 1..Len(replies) : replies'[i] = replies[i]
          /\ replies'[Len(replies) + 1].of = cur
      BY <1>1, <2>3, <3>2
    <3>4. \A i \in 1..Len(replies') : \A j \in 1..Len(inbox) : replies'[i].of < inbox[j]
      BY <3>3 DEF InOrder
    <3>5. \A i \in 1..Len(replies') : replies'[i].of <= Len(datagrams)
      BY <1>1, <3>3 DEF InOrder
    <3>6. \A j \in 1..Len(inbox) : 0 < inbox[j]
      BY <1>1
    <3> QED
      BY <2>1, <2>3, <3>4, <3>5, <3>6 DEF InOrder
  <2> QED
    BY <1>7, <2>2, <2>3 DEF SendTo
<1>8. CASE ~SendDatagram /\ ~LoseDatagram /\ ~RecvFrom /\ ~SendTo
  <2>1. /\ UNCHANGED <<replies, datagrams>>
        /\ \/ UNCHANGED <<cur, inbox>>
           \/ cur' = 0 /\ inbox' = <<>>
    BY <1>3, <1>8 DEF Next, vars, ClientEndsControl, Agent, Associate, RecvFromFails, Dial, Send,
       Next_, CheckControl, Handler, Accept, FirstMessage, SendToDestination, Recv, RecvTimeout,
       Reply, Close, DestinationAnswers, Break
  <2>2. CASE UNCHANGED <<cur, inbox>>
    BY <2>1, <2>2 DEF InOrder
  <2>3. CASE cur' = 0 /\ inbox' = <<>>
    BY <2>1, <2>3 DEF InOrder
  <2> QED
    BY <2>1, <2>2, <2>3
<1> QED
  BY <1>4, <1>5, <1>6, <1>7, <1>8

\* Only SendTo answers the client, and what it sends matches.
LEMMA RepliesStep ==
    ASSUME TypeOK, OwnAnswer, Checked, InOrder, RepliesMatch, [Next]_vars
    PROVE  RepliesMatch'
<1>1. /\ cur \in 0..Len(datagrams) /\ cur \in 0..MaxDatagrams
      /\ replies \in Seq(Answer)
      /\ cur # 0 <=> relay \in {"dial", "send", "await", "send_to"}
  BY BoundsAssumption DEF TypeOK, AgentOK, ClientOK
<1>2. \A i \in 1..Len(replies) : replies[i].of \in 1..Len(datagrams)
  <2>1. \A i \in 1..Len(replies) : replies[i] \in Answer
    BY <1>1
  <2>2. \A i \in 1..Len(replies) : replies[i].of \in Exchanges
    BY <2>1 DEF Answer
  <2> QED
    BY <2>2, DatagramsGrow DEF InOrder
<1>3. CASE UNCHANGED replies
  BY <1>2, <1>3, DatagramsGrow DEF RepliesMatch
<1>4. CASE SendTo /\ replies' = Append(replies, answer[cur][1])
  <2>1. cur \in Exchanges /\ cur \in 1..Len(datagrams) /\ answer[cur] # <<>>
    BY <1>1, <1>4 DEF SendTo, Checked
  <2>2. /\ answer[cur][1] \in Answer
        /\ answer[cur][1] = [of |-> cur, src |-> restrict, dst |-> parse(datagrams[cur].to)]
    BY <2>1 DEF OwnAnswer, TypeOK, ProxyOK
  <2>3. /\ Len(replies') = Len(replies) + 1 /\ Len(replies) \in Nat
        /\ \A i \in 1..Len(replies) : replies'[i] = replies[i]
        /\ replies'[Len(replies) + 1] = answer[cur][1]
    BY <1>1, <1>4, <2>2
  <2>4. UNCHANGED <<datagrams, restrict>>
    BY <1>4 DEF SendTo
  <2>5. \A i \in 1..Len(replies) : replies[i].of < cur
    BY <2>1 DEF InOrder
  <2>6. datagrams[cur].from = restrict
    BY <2>1 DEF Checked
  <2> QED
    BY <2>2, <2>3, <2>4, <2>5, <2>6 DEF RepliesMatch
<1>5. UNCHANGED replies \/ (SendTo /\ replies' = Append(replies, answer[cur][1]))
  BY DEF Next, vars, SendDatagram, LoseDatagram, ClientEndsControl, Agent, Associate, RecvFrom,
     RecvFromFails, Dial, Send, Next_, SendTo, CheckControl, Handler, Accept, FirstMessage,
     SendToDestination, Recv, RecvTimeout, Reply, Close, DestinationAnswers, Break
<1> QED
  BY <1>3, <1>4, <1>5

-----------------------------------------------------------------------------
(* The theorems                                                            *)

\* udp_relay, the proxy's tasks, the client and the network keep the invariant.
THEOREM Invariance == Spec => []IInv
<1>1. Init => IInv
  <2> SUFFICES ASSUME Init
               PROVE  IInv
    OBVIOUS
  <2>1. TypeOK
    BY BoundsAssumption DEF Init, TypeOK, AgentOK, ClientOK, LinkOK, ProxyOK, RelayPoints, Links,
       HandlerPoints
  <2>2. ExchangeOfDatagram /\ OwnSocket /\ OwnAnswer /\ Checked /\ InOrder /\ RepliesMatch
    BY BoundsAssumption DEF Init, ExchangeOfDatagram, OwnSocket, OwnAnswer, Checked, InOrder,
       RepliesMatch
  <2> QED
    BY <2>1, <2>2 DEF IInv
<1>2. IInv /\ [Next]_vars => IInv'
  BY TypeStep, ExchangeStep, SocketStep, AnswerStep, CheckedStep, OrderStep, RepliesStep DEF IInv
<1> QED
  BY <1>1, <1>2, PTL DEF Spec

\* A datagram is in the agent's hands exactly while an exchange runs, and every
\* other variable has its type.
THEOREM TypeCorrect == Spec => []TypeOK
<1>1. IInv => TypeOK
  BY DEF IInv
<1> QED
  BY <1>1, Invariance, PTL

\* relay_udp_data answers only the datagrams of the address it serves, each at
\* most once and in order, whatever the destination sends and whenever.
THEOREM RepliesCorrect == Spec => []RepliesMatch
<1>1. IInv => RepliesMatch
  BY DEF IInv
<1> QED
  BY <1>1, Invariance, PTL
=============================================================================
