------------------------- MODULE ProxyServerProofs --------------------------
(***************************************************************************)
(* Proofs about ProxyServer, for every finite set of agent connections and *)
(* every counter wider than that set: the counter accounts for the         *)
(* transports exactly, and the proxy implements TransportGauge.            *)
(***************************************************************************)
EXTENDS ProxyServer, FiniteSetTheorems, TLAPS

(***************************************************************************)
(* The inductive invariant.  CounterAccounting alone is not inductive: a   *)
(* down task that started while exec was still in its handler would let    *)
(* two fetch_sub calls hit one transport.                                  *)
(***************************************************************************)

\* Relay tasks exist only once exec returned through the success path, and
\* they are spawned together.
OneReleasePath ==
    \A t \in Transports :
        /\ (down[t] # "none" \/ up[t] # "none") => exec[t] = "completed"
        /\ down[t] = "none" <=> up[t] = "none"

\* The receive loop of UdpHandler is entered with an empty udp_data and takes
\* one datagram.
RecvStartsEmpty ==
    \A t \in Transports :
        exec[t] \notin {"udp_reply", "udp_close_error", "udp_close_ok",
                        "udp_error", "udp_ok", "completed", "failed"}
            => udp_data[t] = 0

IInv ==
    /\ TypeOK
    /\ OneReleasePath
    /\ RecvStartsEmpty
    /\ CounterAccounting

USE DEF TcpPoints, UdpPoints, Ended, ExecPoints, UpPoints, DownPoints

-----------------------------------------------------------------------------
(* Lemmas on the set of counted transports                                 *)

\* The counted transports are finitely many, and fewer than the modulus.
LEMMA CountedFinite ==
    /\ IsFiniteSet(Counted)
    /\ Cardinality(Counted) \in Nat
    /\ Cardinality(Counted) < CounterModulus
    /\ \A t \in Transports : t \notin Counted => Cardinality(Counted) + 1 < CounterModulus
    /\ \A t \in Counted : Cardinality(Counted) > 0
<1>1. Counted \in SUBSET Transports
  BY DEF Counted
<1>2. /\ IsFiniteSet(Counted)
      /\ Cardinality(Counted) <= Cardinality(Transports)
  BY <1>1, FS_Subset, TransportsFinite
<1>3. Cardinality(Counted) \in Nat /\ Cardinality(Transports) \in Nat
  BY <1>2, FS_CardinalityType, TransportsFinite
<1>4. ASSUME NEW t \in Transports, t \notin Counted
      PROVE  Cardinality(Counted) + 1 < CounterModulus
  <2>1. Counted \cup {t} \in SUBSET Transports
    BY <1>1
  <2>2. Cardinality(Counted \cup {t}) <= Cardinality(Transports)
    BY <2>1, FS_Subset, TransportsFinite
  <2>3. Cardinality(Counted \cup {t}) = Cardinality(Counted) + 1
    BY <1>2, <1>4, FS_AddElement
  <2> QED
    BY <2>2, <2>3, <1>3, CounterWide
<1>5. ASSUME NEW t \in Counted
      PROVE  Cardinality(Counted) > 0
  <2>1. Cardinality(Counted) # 0
    BY <1>2, <1>5, FS_EmptySet
  <2> QED
    BY <2>1, <1>3
<1> QED
  BY <1>2, <1>3, <1>4, <1>5, CounterWide

\* A transport that starts to be counted together with a fetch_add keeps the
\* accounting.
LEMMA EnterCounts ==
    ASSUME NEW t \in Transports, t \notin Counted, CounterAccounting,
           Counted' = Counted \cup {t}, FetchAdd
    PROVE  /\ CounterAccounting'
           /\ transport_number' = transport_number + 1
<1>1. Cardinality(Counted') = Cardinality(Counted) + 1
  BY CountedFinite, FS_AddElement
<1>2. (Cardinality(Counted) + 1) % CounterModulus = Cardinality(Counted) + 1
  BY CountedFinite, CounterWide
<1> QED
  BY <1>1, <1>2 DEF CounterAccounting, FetchAdd

\* Likewise for a transport that stops to be counted together with fetch_sub.
LEMMA LeaveCounts ==
    ASSUME NEW t \in Counted, CounterAccounting,
           Counted' = Counted \ {t}, FetchSub
    PROVE  /\ CounterAccounting'
           /\ transport_number' = transport_number - 1
<1>1. Cardinality(Counted') = Cardinality(Counted) - 1
  BY CountedFinite, FS_RemoveElement
<1>2. (Cardinality(Counted) + CounterModulus - 1) % CounterModulus = Cardinality(Counted) - 1
  <2> DEFINE n == Cardinality(Counted)
  <2>1. n \in Nat /\ n > 0 /\ n < CounterModulus /\ CounterModulus \in Nat
    BY CountedFinite, CounterWide
  <2> HIDE DEF n
  <2>2. (n + CounterModulus - 1) % CounterModulus = n - 1
    BY <2>1
  <2> QED
    BY <2>2 DEF n
<1> QED
  BY <1>1, <1>2 DEF CounterAccounting, FetchSub

-----------------------------------------------------------------------------
(* One step of one transport                                               *)

\* How a step of t moves the counter: t enters, t leaves, or neither t nor any
\* other transport changes sides and the counter keeps its value.
Moves(t) ==
    \/ /\ t \notin Entered /\ t \notin Counted
       /\ Entered' = Entered \cup {t} /\ Counted' = Counted \cup {t}
       /\ FetchAdd
    \/ /\ t \in Entered /\ t \in Counted
       /\ Entered' = Entered /\ Counted' = Counted \ {t}
       /\ FetchSub
    \/ /\ Entered' = Entered /\ Counted' = Counted
       /\ transport_number' = transport_number

\* Every action of every task moves the counter in one of these three ways.
LEMMA StepMoves ==
    ASSUME TypeOK, OneReleasePath, NEW t \in Transports, TransportStep(t)
    PROVE  Moves(t)
<1> USE DEF TypeOK, OneReleasePath, Goto, Entered, Counted
<1>1. CASE Accept(t)
  BY <1>1 DEF Accept, Moves
<1>2. CASE StartTask(t)
  BY <1>2 DEF StartTask, Moves
<1>3. CASE FirstMessage(t)
  BY <1>3 DEF FirstMessage, Moves
<1>4. CASE HandlerStep(t)
  <2>1. CASE TcpHandlerError(t)
    BY <2>1 DEF TcpHandlerError, Moves
  <2>2. CASE UdpHandlerResult(t)
    BY <2>2 DEF UdpHandlerResult, Moves
  <2>3. CASE SendInitSuccess(t)
    BY <2>3 DEF SendInitSuccess, Moves
  <2>4. CASE InitDstConnection(t) \/ SendInitFail(t) \/ SendInitSuccessError(t)
    BY <2>4 DEF InitDstConnection, SendInitFail, SendInitSuccessError, Moves
  <2>5. CASE UdpBind(t) \/ UdpConnect(t) \/ UdpSend(t) \/ UdpReply(t) \/ UdpClose(t)
    BY <2>5 DEF UdpBind, UdpConnect, UdpSend, UdpReply, UdpClose, Moves
  <2>6. CASE UdpRecv(t)
    BY <2>6 DEF UdpRecv, Moves
  <2>7. CASE UdpRecvTimeout(t) \/ UdpRecvError(t)
    BY <2>7 DEF UdpRecvTimeout, UdpRecvError, Moves
  <2> QED
    BY <1>4, <2>1, <2>2, <2>3, <2>4, <2>5, <2>6, <2>7 DEF HandlerStep
<1>5. CASE RelayStep(t)
  <2>1. CASE UpForwardEnds(t) \/ UpClose(t)
    BY <2>1 DEF UpForwardEnds, UpClose, Moves
  <2>2. CASE DownForwardEnds(t) \/ DownClose(t)
    BY <2>2 DEF DownForwardEnds, DownClose, Moves
  <2>3. CASE DownFetchSub(t)
    BY <2>3 DEF DownFetchSub, Moves
  <2> QED
    BY <1>5, <2>1, <2>2, <2>3 DEF RelayStep
<1> QED
  BY <1>1, <1>2, <1>3, <1>4, <1>5 DEF TransportStep

\* The moves keep the accounting, in the naturals and not only modulo 2^64.
LEMMA MovesCount ==
    ASSUME CounterAccounting, NEW t \in Transports, Moves(t)
    PROVE  /\ CounterAccounting'
           /\ \/ Gauge!Enter(t)
              \/ Gauge!Leave(t)
              \/ UNCHANGED <<Entered, Left, transport_number>>
<1>1. CASE t \notin Entered /\ t \notin Counted
           /\ Entered' = Entered \cup {t} /\ Counted' = Counted \cup {t} /\ FetchAdd
  <2>1. CounterAccounting' /\ transport_number' = transport_number + 1
    BY <1>1, EnterCounts
  <2>2. Left' = Left
    BY <1>1 DEF Left
  <2> QED
    BY <1>1, <2>1, <2>2 DEF Gauge!Enter
<1>2. CASE t \in Entered /\ t \in Counted
           /\ Entered' = Entered /\ Counted' = Counted \ {t} /\ FetchSub
  <2>1. CounterAccounting' /\ transport_number' = transport_number - 1
    BY <1>2, LeaveCounts
  <2>2. Left' = Left \cup {t} /\ t \in Entered \ Left
    BY <1>2 DEF Left
  <2> QED
    BY <1>2, <2>1, <2>2 DEF Gauge!Leave
<1>3. CASE Entered' = Entered /\ Counted' = Counted /\ transport_number' = transport_number
  BY <1>3 DEF CounterAccounting, Left
<1> QED
  BY <1>1, <1>2, <1>3 DEF Moves

\* The rest of the invariant: the control state of each transport.
LEMMA StepControl ==
    ASSUME TypeOK, OneReleasePath, RecvStartsEmpty,
           NEW t \in Transports, TransportStep(t)
    PROVE  /\ exec' \in [Transports -> ExecPoints]
           /\ up'   \in [Transports -> UpPoints]
           /\ down' \in [Transports -> DownPoints]
           /\ udp_data' \in [Transports -> 0..UdpPayloadMax]
           /\ OneReleasePath'
           /\ RecvStartsEmpty'
<1> USE DatagramFits DEF TypeOK, OneReleasePath, RecvStartsEmpty, Goto
<1>1. CASE Accept(t) \/ StartTask(t) \/ FirstMessage(t)
  BY <1>1 DEF Accept, StartTask, FirstMessage
<1>2. CASE HandlerStep(t)
  <2>1. CASE InitDstConnection(t) \/ SendInitFail(t) \/ SendInitSuccessError(t)
    BY <2>1 DEF InitDstConnection, SendInitFail, SendInitSuccessError
  <2>2. CASE SendInitSuccess(t)
    BY <2>2 DEF SendInitSuccess
  <2>3. CASE TcpHandlerError(t) \/ UdpHandlerResult(t)
    BY <2>3 DEF TcpHandlerError, UdpHandlerResult
  <2>4. CASE UdpBind(t) \/ UdpConnect(t) \/ UdpSend(t) \/ UdpReply(t) \/ UdpClose(t)
    BY <2>4 DEF UdpBind, UdpConnect, UdpSend, UdpReply, UdpClose
  <2>5. CASE UdpRecv(t)
    BY <2>5 DEF UdpRecv
  <2>6. CASE UdpRecvTimeout(t) \/ UdpRecvError(t)
    BY <2>6 DEF UdpRecvTimeout, UdpRecvError
  <2> QED
    BY <1>2, <2>1, <2>2, <2>3, <2>4, <2>5, <2>6 DEF HandlerStep
<1>3. CASE RelayStep(t)
  BY <1>3 DEF RelayStep, UpForwardEnds, UpClose, DownForwardEnds, DownFetchSub, DownClose
<1> QED
  BY <1>1, <1>2, <1>3 DEF TransportStep

-----------------------------------------------------------------------------
(* Theorems                                                                *)

\* ProxyServer::new establishes the inductive invariant.
LEMMA InitIInv == Init => IInv
<1> SUFFICES ASSUME Init PROVE IInv
  OBVIOUS
<1>1. TypeOK /\ OneReleasePath /\ RecvStartsEmpty
  <2>1. Cardinality(Transports) \in Nat
    BY FS_CardinalityType, TransportsFinite
  <2> QED
    BY <2>1, CounterWide, DatagramFits
    DEF Init, TypeOK, OneReleasePath, RecvStartsEmpty
<1>2. Counted = {}
  BY DEF Init, Counted
<1>3. CounterAccounting
  BY <1>2, FS_EmptySet DEF Init, CounterAccounting
<1> QED
  BY <1>1, <1>3 DEF IInv

\* Every step of every task keeps it.
LEMMA NextIInv == IInv /\ [Next]_vars => IInv'
<1> SUFFICES ASSUME IInv, [Next]_vars PROVE IInv'
  OBVIOUS
<1>1. CASE UNCHANGED vars
  BY <1>1 DEF vars, IInv, TypeOK, OneReleasePath, RecvStartsEmpty, CounterAccounting, Counted
<1>2. CASE Next
  <2>1. PICK t \in Transports : TransportStep(t)
    BY <1>2 DEF Next
  <2>2. CounterAccounting'
    BY <2>1, StepMoves, MovesCount DEF IInv
  <2>3. transport_number' \in 0..(CounterModulus - 1)
    <3>1. (Cardinality(Counted) \in Nat /\ Cardinality(Counted) < CounterModulus)'
      BY CountedFinite, PTL
    <3> QED
      BY <2>2, <3>1, CounterWide DEF CounterAccounting
  <2> QED
    BY <2>1, <2>2, <2>3, StepControl DEF IInv, TypeOK
<1> QED
  BY <1>1, <1>2

\* The inductive invariant holds in every reachable state.
THEOREM Invariance == Spec => []IInv
  BY InitIInv, NextIInv, PTL DEF Spec

\* Types: every task is at one of its await points, the counter stays in the
\* range of its width, and UdpHandler never collects more than one datagram.
THEOREM TypeCorrect == Spec => []TypeOK
<1>1. IInv => TypeOK
  BY DEF IInv
<1> QED
  BY <1>1, Invariance, PTL

\* transport_number is the number of transports between their fetch_add in
\* server.rs and their fetch_sub in transport/mod.rs or tcp.rs, for any number
\* of connections and any interleaving of their tasks.
THEOREM AccountingCorrect == Spec => []CounterAccounting
<1>1. IInv => CounterAccounting
  BY DEF IInv
<1> QED
  BY <1>1, Invariance, PTL

\* The proxy implements the gauge: each transport enters once and leaves at
\* most once, whichever of the four fetch_sub calls and whichever task does it,
\* and the number moves by one without wrapping.
THEOREM ImplementsGauge == Spec => GaugeSpec
<1>1. Init => Gauge!Init
  <2> SUFFICES ASSUME Init PROVE Gauge!Init
    OBVIOUS
  <2>1. Entered = {} /\ Left = {}
    BY DEF Init, Entered, Left
  <2> QED
    BY <2>1 DEF Init, Gauge!Init
<1>2. IInv /\ [Next]_vars => [Gauge!Next]_(Gauge!vars)
  <2> SUFFICES ASSUME IInv, [Next]_vars PROVE [Gauge!Next]_(Gauge!vars)
    OBVIOUS
  <2>1. CASE UNCHANGED vars
    BY <2>1 DEF vars, Gauge!vars, Entered, Left, Counted
  <2>2. CASE Next
    <3>1. PICK t \in Transports : TransportStep(t)
      BY <2>2 DEF Next
    <3>2. \/ Gauge!Enter(t)
          \/ Gauge!Leave(t)
          \/ UNCHANGED <<Entered, Left, transport_number>>
      BY <3>1, StepMoves, MovesCount DEF IInv
    <3> QED
      BY <3>2 DEF Gauge!Next, Gauge!vars
  <2> QED
    BY <2>1, <2>2
<1> QED
  BY <1>1, <1>2, Invariance, PTL DEF Spec, GaugeSpec, Gauge!Spec
=============================================================================
