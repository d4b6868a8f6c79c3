--------------------------- MODULE TcpTunnelProofs --------------------------
(***************************************************************************)
(* The flow of the chunks through a tunnel, and the theorems about it.     *)
(* TcpTunnelInv defines the inductive invariant and proves its first part. *)
(***************************************************************************)
EXTENDS TcpTunnelInv

-----------------------------------------------------------------------------
(* What a step does to the chain of chunks of one direction                *)

Wires == Seq(Messages)

\* The sizes that the chain is measured in.
LEMMA Sizes ==
    ASSUME NEW w \in Wires
    PROVE  Len(w) \in Nat /\ Dat(w) \in Nat /\ (Len(w) = 1 => w # <<>> /\ w[1] \in Messages)
<1>1. w \in Seq(Messages) /\ Len(w) \in Nat /\ Len(<<>>) = 0
    BY LenProperties DEF Wires
<1>2. Len(w) = 1 => w[1] \in Messages
    BY <1>1, ElementOfSeq
<1>. QED  BY <1>1, <1>2, WireFacts

\* The chain is cut at the places whose guards become false.
LEMMA FlowLoss ==
    ASSUME NEW rc, NEW wl, NEW hl, NEW wm, NEW hu, NEW wf, NEW c, NEW n, NEW vl, NEW vm,
           NEW vf, NEW jl, NEW ju, NEW q, NEW k,
           rc \in Wires, wl \in Wires, hl \in Wires, wm \in Wires, hu \in Wires,
           wf \in Wires, jl \in Wires, ju \in Wires, c \in 0..3, n \in Nat, q \in Nat,
           k \in 0..c,
           Flow(rc, wl, hl, wm, hu, wf, c, n), Shorter(vl, wl), Shorter(vm, wm),
           Shorter(vf, wf), n <= q, k >= 1 => vl = wl /\ jl = hl,
           k >= 2 => vm = wm /\ ju = hu, k = 3 => vf = wf /\ q = n
    PROVE  Flow(rc, vl, jl, vm, ju, vf, k, q)
<1>1. /\ vl \in Wires /\ vm \in Wires /\ vf \in Wires
      /\ Dat(vl) <= Dat(wl) /\ Dat(vm) <= Dat(wm) /\ Dat(vf) <= Dat(wf)
      /\ \A b \in Nat : Run(wl, b) => Run(vl, b)
      /\ \A b \in Nat : Run(wm, b) => Run(vm, b)
      /\ \A b \in Nat : Run(wf, b) => Run(vf, b)
    BY ShorterFacts DEF Wires
<1>2. /\ Dat(vl) \in Nat /\ Dat(vm) \in Nat /\ Dat(vf) \in Nat
      /\ Dat(wl) \in Nat /\ Dat(wm) \in Nat /\ Dat(wf) \in Nat
    BY <1>1, Sizes
<1>3. Len(rc) \in Nat /\ Len(hl) \in Nat /\ Len(hu) \in Nat
    BY Sizes
<1>. DEFINE n1 == Len(rc) + Dat(wl)
            n2 == n1 + Len(hl)
            n3 == n2 + Dat(wm)
            n4 == n3 + Len(hu)
            n5 == n4 + Dat(wf)
<1>4. n1 \in Nat /\ n2 \in Nat /\ n3 \in Nat /\ n4 \in Nat /\ n5 \in Nat
  <2>1. n1 \in Nat
      BY <1>2, <1>3
  <2>2. n2 \in Nat
    <3>. HIDE DEF n1
    <3>. QED  BY <1>3, <2>1
  <2>3. n3 \in Nat
    <3>. HIDE DEF n2
    <3>. QED  BY <1>2, <2>2
  <2>4. n4 \in Nat
    <3>. HIDE DEF n3
    <3>. QED  BY <1>3, <2>3
  <2>5. n5 \in Nat
    <3>. HIDE DEF n4
    <3>. QED  BY <1>2, <2>4
  <2>. QED  BY <2>1, <2>2, <2>3, <2>4, <2>5
<1>5. /\ \A i \in 1..Len(rc) : rc[i] = i
      /\ Run(wl, Len(rc)) /\ n1 <= n
      /\ c >= 1 => (hl # <<>> => hl[1] = n1 + 1) /\ Run(wm, n2) /\ n3 <= n
      /\ c >= 2 => (hu # <<>> => hu[1] = n3 + 1) /\ Run(wf, n4) /\ n5 <= n
      /\ c = 3 => n5 = n
    BY DEF Flow
<1>6. /\ Run(vl, Len(rc)) /\ Len(rc) + Dat(vl) <= q
      /\ n2 + Dat(vm) <= n3 /\ n4 + Dat(vf) <= n5
  <2>1. Run(vl, Len(rc)) /\ Len(rc) + Dat(vl) <= q
      BY <1>1, <1>2, <1>3, <1>5
  <2>2. n2 + Dat(vm) <= n3
    <3>. HIDE DEF n2
    <3>1. Dat(vm) <= Dat(wm) /\ Dat(vm) \in Nat /\ Dat(wm) \in Nat /\ n2 \in Nat
        BY <1>1, <1>2, <1>4
    <3>. QED  BY ONLY <3>1 DEF n3
  <2>3. n4 + Dat(vf) <= n5
    <3>. HIDE DEF n4
    <3>1. Dat(vf) <= Dat(wf) /\ Dat(vf) \in Nat /\ Dat(wf) \in Nat /\ n4 \in Nat
        BY <1>1, <1>2, <1>4
    <3>. QED  BY ONLY <3>1 DEF n5
  <2>. QED  BY <2>1, <2>2, <2>3
<1>. HIDE DEF n2, n3, n4, n5
<1>7. k >= 1 => (hl # <<>> => hl[1] = n1 + 1) /\ Run(vm, n2) /\ n2 + Dat(vm) <= q
    BY <1>1, <1>2, <1>4, <1>5, <1>6, SMTT(30)
<1>8. k >= 2 => (hu # <<>> => hu[1] = n3 + 1) /\ Run(vf, n4) /\ n4 + Dat(vf) <= q
    BY <1>1, <1>2, <1>4, <1>5, <1>6
<1>9. k = 3 => n5 = q
    BY <1>5
<1>. QED  BY <1>5, <1>6, <1>7, <1>8, <1>9 DEF Flow, n2, n3, n4, n5

\* Messages of the handshake come and go without touching the chunks.
LEMMA FlowControl ==
    ASSUME NEW rc, NEW wl, NEW hl, NEW wm, NEW hu, NEW wf, NEW c, NEW n, NEW vl, NEW vm,
           NEW vf,
           
           Flow(rc, wl, hl, wm, hu, wf, c, n), Dat(vl) = Dat(wl),
           \A b : Run(wl, b) => Run(vl, b), Dat(vm) = Dat(wm),
           \A b : Run(wm, b) => Run(vm, b), Dat(vf) = Dat(wf),
           \A b : Run(wf, b) => Run(vf, b)
    PROVE  Flow(rc, vl, hl, vm, hu, vf, c, n)
BY DEF Flow

\* The endpoint reads the next chunk.
LEMMA FlowReceive ==
    ASSUME NEW rc, NEW wl, NEW hl, NEW wm, NEW hu, NEW wf, NEW c, NEW n,
           rc \in Wires, wl \in Wires, hl \in Wires, wm \in Wires, hu \in Wires,
           wf \in Wires, c \in 0..3, n \in Nat,
           Flow(rc, wl, hl, wm, hu, wf, c, n), wl # <<>>, Shape(wl), Ctl(wl) = 0
    PROVE  /\ wl[1] = Len(rc) + 1 /\ Len(rc) < n
           /\ Flow(Append(rc, wl[1]), Tail(wl), hl, wm, hu, wf, c, n)
<1>. DEFINE rd == Append(rc, wl[1])
<1>1. /\ wl[1] \in Messages /\ Tail(wl) \in Wires /\ Dat(Tail(wl)) = Dat(wl) - 1
      /\ \A b \in Nat : Run(wl, b) => wl[1] = b + 1 /\ Run(Tail(wl), b + 1)
    BY TailFacts DEF Wires
<1>2. Dat(wl) \in Nat /\ Dat(Tail(wl)) \in Nat /\ Len(rc) \in Nat
    BY <1>1, Sizes
<1>3. /\ Len(rd) = Len(rc) + 1 /\ rd[Len(rc) + 1] = wl[1]
      /\ \A i \in 1..Len(rc) : rd[i] = rc[i]
    BY <1>1, AppendProperties DEF Wires
<1>4. /\ \A i \in 1..Len(rc) : rc[i] = i
      /\ Run(wl, Len(rc)) /\ Len(rc) + Dat(wl) <= n
    BY DEF Flow
<1>5. wl[1] = Len(rc) + 1 /\ Run(Tail(wl), Len(rd)) /\ Len(rc) < n
    BY <1>1, <1>2, <1>3, <1>4
<1>6. \A i \in 1..Len(rd) : rd[i] = i
  <2>. TAKE i \in 1..Len(rd)
  <2>1. CASE i \in 1..Len(rc)
      BY <1>3, <1>4, <2>1
  <2>2. CASE i = Len(rc) + 1
      BY <1>3, <1>5, <2>2
  <2>. QED  BY <1>2, <1>3, <2>1, <2>2
<1>7. Len(rd) + Dat(Tail(wl)) = Len(rc) + Dat(wl)
    BY <1>1, <1>2, <1>3
<1>. HIDE DEF rd
<1>8. Flow(rd, Tail(wl), hl, wm, hu, wf, c, n)
    BY <1>4, <1>5, <1>6, <1>7 DEF Flow
<1>. QED  BY <1>5, <1>8 DEF rd

\* The second relay takes the next chunk from the middle wire.
LEMMA FlowLowerReads ==
    ASSUME NEW rc, NEW wl, NEW wm, NEW hu, NEW wf, NEW c, NEW n,
           rc \in Wires, wl \in Wires, wm \in Wires, hu \in Wires, wf \in Wires, c \in 0..3,
           n \in Nat,
           Flow(rc, wl, <<>>, wm, hu, wf, c, n), wm # <<>>, Shape(wm), Ctl(wm) = 0
    PROVE  Flow(rc, wl, <<wm[1]>>, Tail(wm), hu, wf, c, n)
<1>1. /\ wm[1] \in Messages /\ Tail(wm) \in Wires /\ Dat(Tail(wm)) = Dat(wm) - 1
      /\ \A b \in Nat : Run(wm, b) => wm[1] = b + 1 /\ Run(Tail(wm), b + 1)
    BY TailFacts DEF Wires
<1>2. /\ Dat(wl) \in Nat /\ Dat(wm) \in Nat /\ Dat(Tail(wm)) \in Nat /\ Len(rc) \in Nat /\ Len(<<>>) = 0
      /\ Len(<<wm[1]>>) = 1 /\ <<wm[1]>>[1] = wm[1]
    BY <1>1, Sizes
<1>. DEFINE n1 == Len(rc) + Dat(wl)
<1>3. /\ n1 \in Nat /\ n1 + 0 = n1 /\ (n1 + 1) + Dat(Tail(wm)) = n1 + Dat(wm)
    BY <1>1, <1>2
<1>. HIDE DEF n1
<1>. QED  BY <1>1, <1>2, <1>3 DEF Flow, n1

\* The second relay writes what it has in hand to the last wire.
LEMMA FlowLowerWrites ==
    ASSUME NEW rc, NEW wl, NEW hl, NEW wm, NEW hu, NEW wf, NEW c, NEW n,
           rc \in Wires, wl \in Wires, hl \in Wires, wm \in Wires, hu \in Wires,
           wf \in Wires, c \in 1..3, n \in Nat,
           Flow(rc, wl, hl, wm, hu, wf, c, n), Len(hl) = 1, hl[1] > 0
    PROVE  Flow(rc, Append(wl, hl[1]), <<>>, wm, hu, wf, c, n)
<1>1. hl # <<>> /\ hl[1] \in Messages
    BY Sizes
<1>2. /\ Append(wl, hl[1]) \in Wires /\ Dat(Append(wl, hl[1])) = Dat(wl) + 1
      /\ \A b \in Nat : Run(wl, b) /\ hl[1] = b + Dat(wl) + 1 => Run(Append(wl, hl[1]), b)
    BY <1>1, AppendChunk DEF Wires
<1>3. /\ Dat(wl) \in Nat /\ Dat(wm) \in Nat /\ Len(rc) \in Nat /\ Len(<<>>) = 0
    BY Sizes
<1>. DEFINE n1 == Len(rc) + Dat(wl)
<1>4. /\ hl[1] = n1 + 1 /\ Run(wl, Len(rc)) /\ n1 + 1 + Dat(wm) <= n
    BY <1>1 DEF Flow
<1>5. Run(Append(wl, hl[1]), Len(rc)) /\ Len(rc) + Dat(Append(wl, hl[1])) = n1 + 1
    BY <1>2, <1>3, <1>4
<1>6. n1 \in Nat /\ n1 + 1 <= n /\ (n1 + 1) + 0 = n1 + 1
    BY <1>3, <1>4
<1>. HIDE DEF n1
<1>. QED  BY <1>3, <1>5, <1>6 DEF Flow, n1

\* The first relay takes the next chunk from the first wire.
LEMMA FlowUpperReads ==
    ASSUME NEW rc, NEW wl, NEW hl, NEW wm, NEW wf, NEW c, NEW n,
           rc \in Wires, wl \in Wires, hl \in Wires, wm \in Wires, wf \in Wires, c \in 0..3,
           n \in Nat,
           Flow(rc, wl, hl, wm, <<>>, wf, c, n), wf # <<>>, Shape(wf), Ctl(wf) = 0
    PROVE  Flow(rc, wl, hl, wm, <<wf[1]>>, Tail(wf), c, n)
<1>1. /\ wf[1] \in Messages /\ Tail(wf) \in Wires /\ Dat(Tail(wf)) = Dat(wf) - 1
      /\ \A b \in Nat : Run(wf, b) => wf[1] = b + 1 /\ Run(Tail(wf), b + 1)
    BY TailFacts DEF Wires
<1>2. /\ Dat(wl) \in Nat /\ Dat(wm) \in Nat /\ Dat(wf) \in Nat /\ Dat(Tail(wf)) \in Nat
      /\ Len(rc) \in Nat /\ Len(hl) \in Nat /\ Len(<<>>) = 0 /\ Len(<<wf[1]>>) = 1 /\ <<wf[1]>>[1] = wf[1]
    BY <1>1, Sizes
<1>. DEFINE n3 == Len(rc) + Dat(wl) + Len(hl) + Dat(wm)
<1>3. /\ n3 \in Nat /\ n3 + 0 = n3 /\ (n3 + 1) + Dat(Tail(wf)) = n3 + Dat(wf)
  <2>1. n3 \in Nat
      BY <1>2
  <2>. HIDE DEF n3
  <2>. QED  BY <1>1, <1>2, <2>1
<1>. HIDE DEF n3
<1>. QED  BY <1>1, <1>2, <1>3 DEF Flow, n3

\* The first relay writes what it has in hand to the middle wire.
LEMMA FlowUpperWrites ==
    ASSUME NEW rc, NEW wl, NEW hl, NEW wm, NEW hu, NEW wf, NEW c, NEW n,
           rc \in Wires, wl \in Wires, hl \in Wires, wm \in Wires, hu \in Wires,
           wf \in Wires, c \in {0, 2, 3}, n \in Nat,
           Flow(rc, wl, hl, wm, hu, wf, c, n), Len(hu) = 1, hu[1] > 0
    PROVE  Flow(rc, wl, hl, Append(wm, hu[1]), <<>>, wf, c, n)
<1>1. hu # <<>> /\ hu[1] \in Messages
    BY Sizes
<1>2. /\ Append(wm, hu[1]) \in Wires /\ Dat(Append(wm, hu[1])) = Dat(wm) + 1
      /\ \A b \in Nat : Run(wm, b) /\ hu[1] = b + Dat(wm) + 1 => Run(Append(wm, hu[1]), b)
    BY <1>1, AppendChunk DEF Wires
<1>3. /\ Dat(wl) \in Nat /\ Dat(wm) \in Nat /\ Dat(wf) \in Nat /\ Len(rc) \in Nat /\ Len(hl) \in Nat
      /\ Len(<<>>) = 0
    BY Sizes
<1>. DEFINE n2 == Len(rc) + Dat(wl) + Len(hl)
<1>4. n2 \in Nat
    BY <1>3
<1>5. c >= 1 => hu[1] = n2 + Dat(wm) + 1 /\ Run(wm, n2) /\ n2 + Dat(wm) + 1 + Dat(wf) <= n
    BY <1>1 DEF Flow
<1>6. c >= 1 => Run(Append(wm, hu[1]), n2) /\ n2 + Dat(Append(wm, hu[1])) <= n
  <2>. HIDE DEF n2
  <2>1. c >= 1 => Run(Append(wm, hu[1]), n2)
      BY <1>2, <1>4, <1>5
  <2>2. c >= 1 => n2 + (Dat(wm) + 1) <= n
      BY <1>3, <1>4, <1>5
  <2>. QED  BY <1>2, <2>1, <2>2
<1>7. (n2 + Dat(Append(wm, hu[1]))) + 0 = n2 + Dat(wm) + 1
    BY <1>2, <1>3, <1>4
<1>. HIDE DEF n2
<1>. QED  BY <1>3, <1>6, <1>7 DEF Flow, n2

\* The endpoint sends its next chunk.
LEMMA FlowSend ==
    ASSUME NEW rc, NEW wl, NEW hl, NEW wm, NEW hu, NEW wf, NEW c, NEW n,
           rc \in Wires, wl \in Wires, hl \in Wires, wm \in Wires, hu \in Wires,
           wf \in Wires, c \in {0, 1, 3}, n \in Nat,
           n + 1 \in Messages, Flow(rc, wl, hl, wm, hu, wf, c, n)
    PROVE  Flow(rc, wl, hl, wm, hu, Append(wf, n + 1), c, n + 1)
<1>1. /\ Append(wf, n + 1) \in Wires /\ Dat(Append(wf, n + 1)) = Dat(wf) + 1
      /\ \A b \in Nat : Run(wf, b) /\ n + 1 = b + Dat(wf) + 1 => Run(Append(wf, n + 1), b)
  <2>1. n + 1 > 0 /\ wf \in Seq(Messages)
      BY DEF Wires
  <2>. QED  BY <2>1, AppendChunk DEF Wires
<1>2. /\ Dat(wl) \in Nat /\ Dat(wm) \in Nat /\ Dat(wf) \in Nat /\ Len(rc) \in Nat
      /\ Len(hl) \in Nat /\ Len(hu) \in Nat
    BY Sizes
<1>. DEFINE n3 == Len(rc) + Dat(wl) + Len(hl) + Dat(wm)
            n4 == n3 + Len(hu)
<1>3. n3 \in Nat /\ n4 \in Nat
    BY <1>2
<1>4. /\ Len(rc) + Dat(wl) <= n + 1
      /\ c >= 1 => n3 <= n /\ n3 <= n + 1
      /\ c >= 2 => Run(wf, n4) /\ n4 + Dat(wf) = n
    BY <1>2, <1>3 DEF Flow
<1>. HIDE DEF n4
<1>5. c >= 2 => Run(Append(wf, n + 1), n4) /\ n4 + Dat(Append(wf, n + 1)) = n + 1
    BY <1>1, <1>2, <1>3, <1>4, SMTT(30)
<1>. QED  BY <1>4, <1>5 DEF Flow, n4

-----------------------------------------------------------------------------
(* What a step does to the guards                                          *)

LEMMA Sides ==
    ASSUME NEW d \in Dirs
    PROVE  /\ First(d) \in Hops /\ Last(d) \in Hops /\ 2 \in Hops
           /\ First(d) # 2 /\ Last(d) # 2 /\ First(d) # Last(d)
           /\ Upper(d) \in Procs /\ Lower(d) \in Procs /\ Upper(d) # Lower(d)
           /\ Src(Upper(d), d) = First(d) /\ Dst(Upper(d), d) = 2
           /\ Src(Lower(d), d) = 2 /\ Dst(Lower(d), d) = Last(d)
           /\ \A p \in Procs : p = Upper(d) \/ p = Lower(d)
BY DEF Dirs, Hops, Procs, First, Last, Upper, Lower, Src, Dst, Near, Far

\* The relays of direction d are alive after a step only if they were before.
Shrinks(d) ==
    /\ Alive(Lower(d), d)' => Alive(Lower(d), d)
    /\ Alive(Upper(d), d)' => Alive(Upper(d), d)

\* A relay that can pass no more chunks never will, and a fault stays.
LEMMA AliveShrinks ==
    ASSUME TypeOK, HandshakeInv, [Next]_vars
    PROVE  \A d \in Dirs : Shrinks(d)
<1>0. /\ AgentOrder /\ ProxyOrder /\ faults \in Nat
      /\ relay \in [Procs -> [Dirs -> {"none", "forward", "close", "done"}]]
    BY MaxFaultsAssumption DEF TypeOK, TasksOK, EnvOK, HandshakeInv
<1>a. SUFFICES /\ agent = "failed" => agent' = "failed"
               /\ proxy = "failed" => proxy' = "failed"
               /\ faults' = 0 => faults = 0
               /\ \A p \in Procs, d \in Dirs :
                     relay'[p][d] \in {"none", "forward"} => relay[p][d] \in {"none", "forward"}
    BY Sides DEF Shrinks, Alive, Clean
<1>1. CASE AgentHandshake
  <2>1. agent # "relay" /\ agent # "failed" /\ proxy' = proxy /\ faults' = faults
        /\ (relay' = relay \/ StartRelays("agent"))
      BY <1>1 DEF AgentHandshake, AgentReadsRequest, AgentRefusesRequest, AgentSeesClientEnd,
            AgentDialsProxy, AgentSendsInit, AgentReadsSuccess, AgentReadsNoSuccess, AgentReplies,
            AgentSendsInitData, AgentGivesUp, AgentFails, envVars
  <2>2. \A p \in Procs, d \in Dirs : relay'[p][d] = relay[p][d] \/ relay[p][d] = "none"
      BY <1>0, <2>1, Ground DEF StartRelays, AgentOrder
  <2>. QED  BY <2>1, <2>2
<1>2. CASE ProxyHandshake
  <2>1. proxy # "relay" /\ proxy # "failed" /\ agent' = agent /\ faults' = faults
        /\ (relay' = relay \/ StartRelays("proxy"))
      BY <1>2 DEF ProxyHandshake, ProxyAccepts, ProxyReadsInit, ProxyReadsNoInit, ProxyDialsDestination,
            ProxyCannotDial, ProxySendsFail, ProxyGivesUp, ProxySendsSuccess, ProxyFails, envVars
  <2>2. \A p \in Procs, d \in Dirs : relay'[p][d] = relay[p][d] \/ relay[p][d] = "none"
      BY <1>0, <2>1, Ground DEF StartRelays, ProxyOrder
  <2>. QED  BY <2>1, <2>2
<1>3. ASSUME NEW p \in Procs, NEW d \in Dirs, RelayTask(p, d)
      PROVE  /\ agent' = agent /\ proxy' = proxy /\ faults' = faults
             /\ \A q \in Procs, e \in Dirs :
                   relay'[q][e] \in {"none", "forward"} => relay[q][e] \in {"none", "forward"}
  <2>1. /\ agent' = agent /\ proxy' = proxy /\ faults' = faults
        /\ \/ relay' = relay
           \/ relay' = [relay EXCEPT ![p][d] = "close"]
           \/ relay' = [relay EXCEPT ![p][d] = "done"]
      BY <1>3 DEF RelayTask, RelayReads, RelaySeesEnd, RelayWrites, RelayWriteFails, RelayCloses, envVars
  <2>. QED  BY <1>0, <2>1
<1>4. CASE \/ ClientRequests \/ UNCHANGED vars
           \/ \E d \in Dirs : Endpoint(d) \/ Vanish(d)
           \/ \E h \in Hops : Break(h) \/ KernelGivesUp(h)
  <2>1. /\ agent' = agent /\ proxy' = proxy /\ relay' = relay
        /\ faults' = faults \/ faults' = faults + 1
      BY <1>4 DEF ClientRequests, Endpoint, EndpointSends, EndpointShutsDown, EndpointReads,
            EndpointSeesEnd, Vanish, Break, KernelGivesUp, vars, taskVars, envVars
  <2>. QED  BY <1>0, <2>1
<1>. QED  BY <1>1, <1>2, <1>3, <1>4 DEF Next

\* What a step does to direction d when it passes nothing on in it.
DirLoss(d) ==
    \A h \in Hops :
        /\ Shorter(wire'[h][d], wire[h][d])
        /\ Usable(h)' => Usable(h) /\ wire'[h][d] = wire[h][d]

LEMMA LossIsDirLoss ==
    ASSUME SocketsOK, Loss, NEW d \in Dirs
    PROVE  DirLoss(d)
<1>1. \A h \in Hops : wire[h][d] \in Seq(Messages)
    BY DEF SocketsOK
<1>2. \A h \in Hops : Shorter(wire[h][d], wire[h][d])
    BY <1>1, ShorterSelf
<1>. QED  BY <1>2 DEF Loss, Spared, Hurt, DirLoss, Usable

LEMMA SameIsDirLoss ==
    ASSUME SocketsOK, conn' = conn, NEW d \in Dirs, \A h \in Hops : wire'[h][d] = wire[h][d]
    PROVE  DirLoss(d)
<1>1. \A h \in Hops : wire[h][d] \in Seq(Messages)
    BY DEF SocketsOK
<1>2. \A h \in Hops : Shorter(wire[h][d], wire[h][d])
    BY <1>1, ShorterSelf
<1>. QED  BY <1>2 DEF DirLoss, Usable

LEMMA FlowTypes ==
    ASSUME TypeOK, NEW d \in Dirs
    PROVE  /\ rcvd[d] \in Wires /\ \A h \in Hops : wire[h][d] \in Wires
           /\ hold[Lower(d)][d] \in Wires /\ InHand(d) \in Wires /\ sent[d] \in Nat
BY Sides DEF TypeOK, EndsOK, SocketsOK, TasksOK, InHand, Wires

LEMMA FlowTypesAfter ==
    ASSUME TypeOK', NEW d \in Dirs
    PROVE  /\ rcvd'[d] \in Wires /\ \A h \in Hops : wire'[h][d] \in Wires
           /\ hold'[Lower(d)][d] \in Wires /\ InHand(d)' \in Wires /\ sent'[d] \in Nat
BY Sides DEF TypeOK, EndsOK, SocketsOK, TasksOK, InHand, Wires

\* A step that passes nothing on in direction d keeps its chain, up to the
\* places that it destroys.
LEMMA FlowKept ==
    ASSUME TypeOK, TypeOK', NEW d \in Dirs, FlowOf(d), DirLoss(d),
           rcvd'[d] = rcvd[d], sent[d] <= sent'[d],
           Shrinks(d),
           Usable(First(d))' => sent'[d] = sent[d],
           Usable(Last(d))' /\ Alive(Lower(d), d)' => hold'[Lower(d)][d] = hold[Lower(d)][d],
           Usable(2)' /\ Alive(Upper(d), d)' => InHand(d)' = InHand(d)
    PROVE  FlowOf(d)'
<1>. DEFINE rc == rcvd[d]
            wl == wire[Last(d)][d]
            hl == hold[Lower(d)][d]
            wm == wire[2][d]
            hu == InHand(d)
            wf == wire[First(d)][d]
            c  == Reach(d)
            n  == sent[d]
            vl == wire'[Last(d)][d]
            jl == hold'[Lower(d)][d]
            vm == wire'[2][d]
            ju == InHand(d)'
            vf == wire'[First(d)][d]
            k  == Reach(d)'
            q  == sent'[d]
<1>1. /\ rc \in Wires /\ wl \in Wires /\ hl \in Wires /\ wm \in Wires /\ hu \in Wires
      /\ wf \in Wires /\ n \in Nat
    BY FlowTypes, Sides
<1>2. jl \in Wires /\ ju \in Wires /\ q \in Nat
    BY FlowTypesAfter
<1>3. Flow(rc, wl, hl, wm, hu, wf, c, n)
    BY DEF FlowOf
<1>4. Shorter(vl, wl) /\ Shorter(vm, wm) /\ Shorter(vf, wf)
  <2>1. \A h \in Hops : Shorter(wire'[h][d], wire[h][d])
      BY DEF DirLoss, Usable
  <2>. QED  BY <2>1, Sides
<1>5. /\ c \in 0..3 /\ k \in 0..c
      /\ k >= 1 => vl = wl /\ jl = hl
      /\ k >= 2 => vm = wm /\ ju = hu
      /\ k = 3 => vf = wf /\ q = n
  <2>1. \A h \in Hops :
           conn'[h] \in {"none", "open"} => conn[h] \in {"none", "open"} /\ wire'[h][d] = wire[h][d]
      BY DEF DirLoss, Usable
  <2>2. /\ Usable(Last(d))' => Usable(Last(d)) /\ vl = wl
        /\ Usable(2)' => Usable(2) /\ vm = wm
        /\ Usable(First(d))' => Usable(First(d)) /\ vf = wf
      BY <2>1, Sides DEF Usable
  <2>. QED  BY <2>2 DEF Reach, Shrinks
<1>6. n <= q
    OBVIOUS
<1>. HIDE DEF rc, wl, hl, wm, hu, wf, c, n, vl, jl, vm, ju, vf, k, q
<1>7. Flow(rc, vl, jl, vm, ju, vf, k, q)
    BY ONLY <1>1, <1>2, <1>3, <1>4, <1>5, <1>6, FlowLoss
<1>. QED  BY <1>7 DEF FlowOf, rc, vl, jl, vm, ju, vf, k, q

LEMMA FlowWeaken ==
    ASSUME NEW rc, NEW wl, NEW hl, NEW wm, NEW hu, NEW wf, NEW c, NEW n, NEW k,
           c \in 0..3, k \in 0..c, Flow(rc, wl, hl, wm, hu, wf, c, n)
    PROVE  Flow(rc, wl, hl, wm, hu, wf, k, n)
BY DEF Flow

LEMMA ReachFacts ==
    ASSUME NEW d \in Dirs, conn' = conn, Shrinks(d)
    PROVE  /\ Reach(d) \in 0..3 /\ Reach(d)' \in 0..Reach(d)
           /\ Usable(Last(d)) /\ Alive(Lower(d), d) => Reach(d) # 0
           /\ Usable(2) /\ Alive(Upper(d), d) => Reach(d) # 1
           /\ Usable(First(d)) => Reach(d) # 2
BY DEF Shrinks, Reach, Usable

\* A message of the handshake is written or read.
LEMMA FlowOfControl ==
    ASSUME TypeOK, NEW d \in Dirs, NEW h \in Hops, FlowOf(d), conn' = conn, Shrinks(d),
           OthersSame(h, d), Dat(wire'[h][d]) = Dat(wire[h][d]),
           \A b : Run(wire[h][d], b) => Run(wire'[h][d], b),
           rcvd'[d] = rcvd[d], sent'[d] = sent[d],
           hold'[Lower(d)][d] = hold[Lower(d)][d], InHand(d)' = InHand(d)
    PROVE  FlowOf(d)'
<1>. DEFINE rc == rcvd[d]
            wl == wire[Last(d)][d]
            hl == hold[Lower(d)][d]
            wm == wire[2][d]
            hu == InHand(d)
            wf == wire[First(d)][d]
            c  == Reach(d)
            n  == sent[d]
            k  == Reach(d)'
<1>. DEFINE vl == wire'[Last(d)][d]
            vm == wire'[2][d]
            vf == wire'[First(d)][d]
<1>1. /\ rc \in Wires /\ wl \in Wires /\ hl \in Wires /\ wm \in Wires /\ hu \in Wires
      /\ wf \in Wires /\ n \in Nat
    BY FlowTypes, Sides
<1>2. Flow(rc, wl, hl, wm, hu, wf, c, n)
    BY DEF FlowOf
<1>3. c \in 0..3 /\ k \in 0..c
    BY ReachFacts
<1>4. \A g \in Hops : /\ Dat(wire'[g][d]) = Dat(wire[g][d])
                      /\ \A b : Run(wire[g][d], b) => Run(wire'[g][d], b)
    BY DEF OthersSame
<1>5. /\ Dat(vl) = Dat(wl) /\ \A b : Run(wl, b) => Run(vl, b)
      /\ Dat(vm) = Dat(wm) /\ \A b : Run(wm, b) => Run(vm, b)
      /\ Dat(vf) = Dat(wf) /\ \A b : Run(wf, b) => Run(vf, b)
    BY <1>4, Sides
<1>. HIDE DEF rc, wl, hl, wm, hu, wf, c, n, k, vl, vm, vf
<1>6. Flow(rc, vl, hl, vm, hu, vf, c, n)
    BY ONLY <1>2, <1>5, FlowControl
<1>7. Flow(rc, vl, hl, vm, hu, vf, k, n)
    BY ONLY <1>3, <1>6, FlowWeaken
<1>. QED  BY <1>7 DEF FlowOf, rc, hl, hu, n, k, vl, vm, vf

\* The first relay, or the agent's handshake with a plain request, takes a chunk.
LEMMA FlowOfUpperReads ==
    ASSUME TypeOK, HandshakeInv, NEW d \in Dirs, FlowOf(d), Shrinks(d), Take(First(d), d),
           Ctl(wire[First(d)][d]) = 0, InHand(d) = <<>>, InHand(d)' = <<Head(wire[First(d)][d])>>,
           rcvd'[d] = rcvd[d], sent'[d] = sent[d], hold'[Lower(d)][d] = hold[Lower(d)][d]
    PROVE  FlowOf(d)'
<1>0. /\ conn' = conn /\ OthersSame(First(d), d) /\ wire'[First(d)][d] = Tail(wire[First(d)][d])
      /\ wire[First(d)][d] # <<>> /\ Head(wire[First(d)][d]) = wire[First(d)][d][1]
      /\ Shape(wire[First(d)][d])
    BY TakeStep, TakeFacts, Sides DEF TypeOK, HandshakeInv, WiresInShape
<1>. DEFINE rc == rcvd[d]
            wl == wire[Last(d)][d]
            hl == hold[Lower(d)][d]
            wm == wire[2][d]
            hu == InHand(d)
            wf == wire[First(d)][d]
            c  == Reach(d)
            n  == sent[d]
            k  == Reach(d)'
<1>1. /\ rc \in Wires /\ wl \in Wires /\ hl \in Wires /\ wm \in Wires /\ hu \in Wires
      /\ wf \in Wires /\ n \in Nat
    BY FlowTypes, Sides
<1>2. Flow(rc, wl, hl, wm, hu, wf, c, n)
    BY DEF FlowOf
<1>3. c \in 0..3 /\ k \in 0..c
    BY <1>0, ReachFacts
<1>4. /\ wire'[Last(d)][d] = wl /\ wire'[2][d] = wm /\ wire'[First(d)][d] = Tail(wf)
      /\ hu = <<>> /\ InHand(d)' = <<wf[1]>> /\ wf # <<>> /\ Shape(wf) /\ Ctl(wf) = 0
    BY <1>0, Sides DEF OthersSame
<1>. HIDE DEF rc, wl, hl, wm, hu, wf, c, n, k
<1>5. Flow(rc, wl, hl, wm, <<wf[1]>>, Tail(wf), c, n)
    BY ONLY <1>1, <1>2, <1>3, <1>4, FlowUpperReads
<1>6. Flow(rc, wl, hl, wm, <<wf[1]>>, Tail(wf), k, n)
    BY ONLY <1>3, <1>5, FlowWeaken
<1>. QED  BY <1>4, <1>6 DEF FlowOf, rc, hl, n, k

LEMMA FlowOfLowerReads ==
    ASSUME TypeOK, HandshakeInv, NEW d \in Dirs, FlowOf(d), Shrinks(d), Take(2, d),
           Ctl(wire[2][d]) = 0, hold[Lower(d)][d] = <<>>,
           hold'[Lower(d)][d] = <<Head(wire[2][d])>>,
           rcvd'[d] = rcvd[d], sent'[d] = sent[d], InHand(d)' = InHand(d)
    PROVE  FlowOf(d)'
<1>0. /\ conn' = conn /\ OthersSame(2, d) /\ wire'[2][d] = Tail(wire[2][d])
      /\ wire[2][d] # <<>> /\ Head(wire[2][d]) = wire[2][d][1] /\ Shape(wire[2][d])
    BY TakeStep, TakeFacts, Sides DEF TypeOK, HandshakeInv, WiresInShape
<1>. DEFINE rc == rcvd[d]
            wl == wire[Last(d)][d]
            hl == hold[Lower(d)][d]
            wm == wire[2][d]
            hu == InHand(d)
            wf == wire[First(d)][d]
            c  == Reach(d)
            n  == sent[d]
            k  == Reach(d)'
<1>1. /\ rc \in Wires /\ wl \in Wires /\ hl \in Wires /\ wm \in Wires /\ hu \in Wires
      /\ wf \in Wires /\ n \in Nat
    BY FlowTypes, Sides
<1>2. Flow(rc, wl, hl, wm, hu, wf, c, n)
    BY DEF FlowOf
<1>3. c \in 0..3 /\ k \in 0..c
    BY <1>0, ReachFacts
<1>4. /\ wire'[Last(d)][d] = wl /\ wire'[First(d)][d] = wf /\ wire'[2][d] = Tail(wm)
      /\ hl = <<>> /\ hold'[Lower(d)][d] = <<wm[1]>> /\ wm # <<>> /\ Shape(wm) /\ Ctl(wm) = 0
    BY <1>0, Sides DEF OthersSame
<1>. HIDE DEF rc, wl, hl, wm, hu, wf, c, n, k
<1>5. Flow(rc, wl, <<wm[1]>>, Tail(wm), hu, wf, c, n)
    BY ONLY <1>1, <1>2, <1>3, <1>4, FlowLowerReads
<1>6. Flow(rc, wl, <<wm[1]>>, Tail(wm), hu, wf, k, n)
    BY ONLY <1>3, <1>5, FlowWeaken
<1>. QED  BY <1>4, <1>6 DEF FlowOf, rc, hu, n, k

\* The first relay writes, or tcp_relay sends init_data.
LEMMA FlowOfUpperWrites ==
    ASSUME TypeOK, NEW d \in Dirs, FlowOf(d), Shrinks(d), conn' = conn, OthersSame(2, d),
           Usable(2), Alive(Upper(d), d), Len(InHand(d)) = 1, InHand(d)[1] > 0,
           wire'[2][d] = Append(wire[2][d], InHand(d)[1]), InHand(d)' = <<>>,
           rcvd'[d] = rcvd[d], sent'[d] = sent[d], hold'[Lower(d)][d] = hold[Lower(d)][d]
    PROVE  FlowOf(d)'
<1>. DEFINE rc == rcvd[d]
            wl == wire[Last(d)][d]
            hl == hold[Lower(d)][d]
            wm == wire[2][d]
            hu == InHand(d)
            wf == wire[First(d)][d]
            c  == Reach(d)
            n  == sent[d]
            k  == Reach(d)'
<1>1. /\ rc \in Wires /\ wl \in Wires /\ hl \in Wires /\ wm \in Wires /\ hu \in Wires
      /\ wf \in Wires /\ n \in Nat
    BY FlowTypes, Sides
<1>2. Flow(rc, wl, hl, wm, hu, wf, c, n)
    BY DEF FlowOf
<1>3. c \in 0..3 /\ k \in 0..c
    BY ReachFacts
<1>4. /\ wire'[Last(d)][d] = wl /\ wire'[First(d)][d] = wf /\ wire'[2][d] = Append(wm, hu[1])
      /\ Len(hu) = 1 /\ hu[1] > 0 /\ c # 1
    BY ReachFacts, Sides DEF OthersSame
<1>5. c \in {0, 2, 3}
    BY <1>3, <1>4
<1>. HIDE DEF rc, wl, hl, wm, hu, wf, c, n, k
<1>6. Flow(rc, wl, hl, Append(wm, hu[1]), <<>>, wf, c, n)
    BY ONLY <1>1, <1>2, <1>4, <1>5, FlowUpperWrites
<1>7. Flow(rc, wl, hl, Append(wm, hu[1]), <<>>, wf, k, n)
    BY ONLY <1>3, <1>6, FlowWeaken
<1>. QED  BY <1>4, <1>7 DEF FlowOf, rc, hl, n, k

LEMMA FlowOfLowerWrites ==
    ASSUME TypeOK, NEW d \in Dirs, FlowOf(d), Shrinks(d), conn' = conn, OthersSame(Last(d), d),
           Usable(Last(d)), Alive(Lower(d), d),
           Len(hold[Lower(d)][d]) = 1, hold[Lower(d)][d][1] > 0,
           wire'[Last(d)][d] = Append(wire[Last(d)][d], hold[Lower(d)][d][1]),
           hold'[Lower(d)][d] = <<>>,
           rcvd'[d] = rcvd[d], sent'[d] = sent[d], InHand(d)' = InHand(d)
    PROVE  FlowOf(d)'
<1>. DEFINE rc == rcvd[d]
            wl == wire[Last(d)][d]
            hl == hold[Lower(d)][d]
            wm == wire[2][d]
            hu == InHand(d)
            wf == wire[First(d)][d]
            c  == Reach(d)
            n  == sent[d]
            k  == Reach(d)'
<1>1. /\ rc \in Wires /\ wl \in Wires /\ hl \in Wires /\ wm \in Wires /\ hu \in Wires
      /\ wf \in Wires /\ n \in Nat
    BY FlowTypes, Sides
<1>2. Flow(rc, wl, hl, wm, hu, wf, c, n)
    BY DEF FlowOf
<1>3. c \in 0..3 /\ k \in 0..c
    BY ReachFacts
<1>4. /\ wire'[2][d] = wm /\ wire'[First(d)][d] = wf /\ wire'[Last(d)][d] = Append(wl, hl[1])
      /\ Len(hl) = 1 /\ hl[1] > 0 /\ c # 0
    BY ReachFacts, Sides DEF OthersSame
<1>5. c \in 1..3
    BY <1>3, <1>4
<1>. HIDE DEF rc, wl, hl, wm, hu, wf, c, n, k
<1>6. Flow(rc, Append(wl, hl[1]), <<>>, wm, hu, wf, c, n)
    BY ONLY <1>1, <1>2, <1>4, <1>5, FlowLowerWrites
<1>7. Flow(rc, Append(wl, hl[1]), <<>>, wm, hu, wf, k, n)
    BY ONLY <1>3, <1>6, FlowWeaken
<1>. QED  BY <1>4, <1>7 DEF FlowOf, rc, hu, n, k

LEMMA FlowOfSend ==
    ASSUME TypeOK, NEW d \in Dirs, FlowOf(d), Shrinks(d), conn' = conn, OthersSame(First(d), d),
           Usable(First(d)), sent[d] + 1 \in Messages, sent'[d] = sent[d] + 1,
           wire'[First(d)][d] = Append(wire[First(d)][d], sent[d] + 1),
           rcvd'[d] = rcvd[d], hold'[Lower(d)][d] = hold[Lower(d)][d], InHand(d)' = InHand(d)
    PROVE  FlowOf(d)'
<1>. DEFINE rc == rcvd[d]
            wl == wire[Last(d)][d]
            hl == hold[Lower(d)][d]
            wm == wire[2][d]
            hu == InHand(d)
            wf == wire[First(d)][d]
            c  == Reach(d)
            n  == sent[d]
            k  == Reach(d)'
<1>1. /\ rc \in Wires /\ wl \in Wires /\ hl \in Wires /\ wm \in Wires /\ hu \in Wires
      /\ wf \in Wires /\ n \in Nat
    BY FlowTypes, Sides
<1>2. Flow(rc, wl, hl, wm, hu, wf, c, n)
    BY DEF FlowOf
<1>3. c \in 0..3 /\ k \in 0..c
    BY ReachFacts
<1>4. /\ wire'[2][d] = wm /\ wire'[Last(d)][d] = wl /\ wire'[First(d)][d] = Append(wf, n + 1)
      /\ n + 1 \in Messages /\ c # 2 /\ sent'[d] = n + 1
    BY ReachFacts, Sides DEF OthersSame
<1>5. c \in {0, 1, 3}
    BY <1>3, <1>4
<1>. HIDE DEF rc, wl, hl, wm, hu, wf, c, n, k
<1>6. Flow(rc, wl, hl, wm, hu, Append(wf, n + 1), c, n + 1)
    BY ONLY <1>1, <1>2, <1>4, <1>5, FlowSend
<1>7. Flow(rc, wl, hl, wm, hu, Append(wf, n + 1), k, n + 1)
    BY ONLY <1>3, <1>6, FlowWeaken
<1>. QED  BY <1>4, <1>7 DEF FlowOf, rc, hl, hu, k

\* The endpoint reads a chunk, the next one after what it has.
LEMMA FlowOfReceive ==
    ASSUME TypeOK, HandshakeInv, NEW d \in Dirs, FlowOf(d), Shrinks(d), Take(Last(d), d),
           Ctl(wire[Last(d)][d]) = 0
    PROVE  /\ Head(wire[Last(d)][d]) = Len(rcvd[d]) + 1 /\ Len(rcvd[d]) < sent[d]
           /\ /\ rcvd'[d] = Append(rcvd[d], Head(wire[Last(d)][d])) /\ sent'[d] = sent[d]
              /\ hold'[Lower(d)][d] = hold[Lower(d)][d] /\ InHand(d)' = InHand(d)
              => FlowOf(d)'
<1>0. /\ conn' = conn /\ OthersSame(Last(d), d) /\ wire'[Last(d)][d] = Tail(wire[Last(d)][d])
      /\ wire[Last(d)][d] # <<>> /\ Head(wire[Last(d)][d]) = wire[Last(d)][d][1]
      /\ Shape(wire[Last(d)][d])
    BY TakeStep, TakeFacts, Sides DEF TypeOK, HandshakeInv, WiresInShape
<1>. DEFINE rc == rcvd[d]
            wl == wire[Last(d)][d]
            hl == hold[Lower(d)][d]
            wm == wire[2][d]
            hu == InHand(d)
            wf == wire[First(d)][d]
            c  == Reach(d)
            n  == sent[d]
            k  == Reach(d)'
<1>1. /\ rc \in Wires /\ wl \in Wires /\ hl \in Wires /\ wm \in Wires /\ hu \in Wires
      /\ wf \in Wires /\ n \in Nat
    BY FlowTypes, Sides
<1>2. Flow(rc, wl, hl, wm, hu, wf, c, n)
    BY DEF FlowOf
<1>3. c \in 0..3 /\ k \in 0..c
    BY <1>0, ReachFacts
<1>4. /\ wire'[2][d] = wm /\ wire'[First(d)][d] = wf /\ wire'[Last(d)][d] = Tail(wl)
      /\ wl # <<>> /\ Shape(wl) /\ Ctl(wl) = 0 /\ Head(wl) = wl[1]
    BY <1>0, Sides DEF OthersSame
<1>. HIDE DEF rc, wl, hl, wm, hu, wf, c, n, k
<1>5. /\ wl[1] = Len(rc) + 1 /\ Len(rc) < n
      /\ Flow(Append(rc, wl[1]), Tail(wl), hl, wm, hu, wf, c, n)
    BY ONLY <1>1, <1>2, <1>3, <1>4, FlowReceive
<1>6. Flow(Append(rc, wl[1]), Tail(wl), hl, wm, hu, wf, k, n)
    BY ONLY <1>3, <1>5, FlowWeaken
<1>7. Head(wire[Last(d)][d]) = Len(rcvd[d]) + 1 /\ Len(rcvd[d]) < sent[d]
    BY <1>4, <1>5 DEF wl, rc, n
<1>8. ASSUME rcvd'[d] = Append(rcvd[d], Head(wire[Last(d)][d])), sent'[d] = sent[d],
             hold'[Lower(d)][d] = hold[Lower(d)][d], InHand(d)' = InHand(d)
      PROVE  FlowOf(d)'
  <2>1. rcvd'[d] = Append(rc, wl[1])
      BY <1>4, <1>8 DEF rc, wl
  <2>. QED  BY <1>4, <1>6, <1>8, <2>1 DEF FlowOf, hl, hu, n, k
<1>. QED  BY <1>7, <1>8
-----------------------------------------------------------------------------
(* What the steps do to the flow                                           *)

\* The items in hand in direction d stay as they are.
HandsSame(d) == hold'[Lower(d)][d] = hold[Lower(d)][d] /\ InHand(d)' = InHand(d)

EndSame(d) == rcvd'[d] = rcvd[d] /\ sent'[d] = sent[d]

LEMMA AllHandsSame ==
    ASSUME hold' = hold, init_data' = init_data
    PROVE  \A d \in Dirs : HandsSame(d)
BY DEF HandsSame, InHand

\* A direction that a step does not touch.
LEMMA FlowOther ==
    ASSUME TypeOK, TypeOK', NEW d \in Dirs, FlowOf(d), Shrinks(d), conn' = conn,
           \A h \in Hops : wire'[h][d] = wire[h][d], EndSame(d), HandsSame(d)
    PROVE  FlowOf(d)'
<1>1. SocketsOK /\ sent[d] \in Nat
    BY FlowTypes DEF TypeOK
<1>2. DirLoss(d)
    BY <1>1, SameIsDirLoss
<1>. QED  BY <1>1, <1>2, FlowKept DEF EndSame, HandsSame

\* A step that destroys at most what is on the wires.
LEMMA FlowQuiet ==
    ASSUME TypeOK, TypeOK', FlowInv, \A d \in Dirs : Shrinks(d), Loss,
           UNCHANGED <<hold, init_data, rcvd, sent>>
    PROVE  FlowInv'
<1>. SUFFICES ASSUME NEW d \in Dirs PROVE FlowOf(d)'
    BY Ground DEF FlowInv
<1>1. SocketsOK /\ sent[d] \in Nat
    BY FlowTypes DEF TypeOK
<1>2. DirLoss(d) /\ FlowOf(d)
    BY <1>1, LossIsDirLoss DEF FlowInv, Dirs
<1>. QED  BY <1>1, <1>2, FlowKept, AllHandsSame DEF HandsSame

\* A step that writes or reads one message of the handshake.
LEMMA FlowHandshake ==
    ASSUME TypeOK, TypeOK', FlowInv, \A d \in Dirs : Shrinks(d), conn' = conn,
           UNCHANGED <<hold, rcvd, sent>>, \A d \in Dirs : InHand(d)' = InHand(d),
           NEW h \in Hops, NEW e \in Dirs, OthersSame(h, e),
           Dat(wire'[h][e]) = Dat(wire[h][e]),
           \A b : Run(wire[h][e], b) => Run(wire'[h][e], b)
    PROVE  FlowInv'
<1>. SUFFICES ASSUME NEW d \in Dirs PROVE FlowOf(d)'
    BY Ground DEF FlowInv
<1>1. FlowOf(d)
    BY DEF FlowInv, Dirs
<1>2. CASE d = e
    BY <1>1, <1>2, FlowOfControl
<1>3. CASE d # e
    BY <1>1, <1>3, FlowOther DEF OthersSame, EndSame, HandsSame
<1>. QED  BY <1>2, <1>3

\* A message of the handshake is written to a wire that holds nothing.
LEMMA FlowPutControl ==
    ASSUME TypeOK, TypeOK', FlowInv, \A d \in Dirs : Shrinks(d),
           UNCHANGED <<hold, init_data, rcvd, sent>>,
           NEW h \in Hops, NEW e \in Dirs, NEW m \in Control, wire[h][e] = <<>>, Put(h, e, m)
    PROVE  FlowInv'
<1>1. m \in Messages /\ SocketsOK
    BY MessageFacts DEF TypeOK
<1>2. \/ conn' = conn /\ wire'[h][e] = Append(wire[h][e], m) /\ OthersSame(h, e)
      \/ Loss
    BY <1>1, PutStep
<1>3. CASE Loss
    BY <1>3, FlowQuiet
<1>4. CASE conn' = conn /\ wire'[h][e] = Append(wire[h][e], m) /\ OthersSame(h, e)
  <2>1. Dat(wire'[h][e]) = Dat(wire[h][e]) /\ \A b : Run(wire'[h][e], b)
      BY <1>4, AppendControl, EmptyWire
  <2>2. \A d \in Dirs : InHand(d)' = InHand(d)
      BY AllHandsSame DEF HandsSame
  <2>. QED  BY <1>4, <2>1, <2>2, FlowHandshake
<1>. QED  BY <1>2, <1>3, <1>4

\* A message of the handshake is read.
LEMMA FlowTakeControl ==
    ASSUME TypeOK, TypeOK', HandshakeInv, FlowInv, \A d \in Dirs : Shrinks(d),
           UNCHANGED <<hold, rcvd, sent>>, \A d \in Dirs : InHand(d)' = InHand(d),
           NEW h \in Hops, NEW e \in Dirs, Ctl(wire[h][e]) = 1, Take(h, e)
    PROVE  FlowInv'
<1>1. SocketsOK /\ Shape(wire[h][e])
    BY DEF TypeOK, HandshakeInv, WiresInShape
<1>2. /\ conn' = conn /\ OthersSame(h, e)
      /\ wire[h][e] \in Seq(Messages) /\ wire[h][e] # <<>> /\ wire'[h][e] = Tail(wire[h][e])
    BY <1>1, TakeStep
<1>3. Dat(wire'[h][e]) = Dat(wire[h][e]) /\ \A b : Run(wire[h][e], b) => Run(wire'[h][e], b)
    BY <1>1, <1>2, TailFacts
<1>. QED  BY <1>2, <1>3, FlowHandshake

LEMMA AgentHandshakeFlow ==
    ASSUME TypeOK, TypeOK', HandshakeInv, FlowInv, \A d \in Dirs : Shrinks(d), AgentHandshake
    PROVE  FlowInv'
<1>0. /\ SocketsOK /\ WiresInShape /\ ClientOrder /\ AgentOrder /\ ProxyOrder /\ AnswerOrder
      /\ rcvd' = rcvd /\ sent' = sent /\ hold' = hold
    BY DEF TypeOK, HandshakeInv, AgentHandshake, AgentReadsRequest, AgentRefusesRequest,
           AgentSeesClientEnd, AgentDialsProxy, AgentSendsInit, AgentReadsSuccess,
           AgentReadsNoSuccess, AgentReplies, AgentSendsInitData, AgentGivesUp, AgentFails, endVars
<1>a. ASSUME AgentFails PROVE FlowInv'
  <2>1. Loss /\ init_data' = init_data
      BY <1>0, <1>a, AgentDrops DEF AgentFails
  <2>. QED  BY <1>0, <2>1, FlowQuiet
<1>1. CASE AgentReadsRequest
  <2>1. /\ Take(1, "up") /\ agent = "request" /\ init_data = <<>>
        /\ init_data' = IF mode = "plain" THEN <<Head(wire[1]["up"])>> ELSE <<>>
      BY <1>0, <1>1 DEF AgentReadsRequest, AgentOrder
  <2>2. /\ wire[1]["up"] # <<>> /\ Head(wire[1]["up"]) = wire[1]["up"][1]
        /\ Ctl(wire[1]["up"]) = 0 <=> wire[1]["up"][1] > 0
        /\ Ctl(wire[1]["up"]) = 1 <=> wire[1]["up"][1] < 0
        /\ conn' = conn /\ OthersSame(1, "up")
      BY <1>0, <2>1, TakeFacts, TakeStep, Ground
  <2>3. wire[1]["up"][1] = Request
      BY <1>0, <2>1, <2>2 DEF ClientOrder
  <2>4. CASE mode = "plain"
    <3>1. Ctl(wire[1]["up"]) = 0
        BY <2>2, <2>3, <2>4 DEF Request
    <3>2. InHand("up") = <<>> /\ InHand("up")' = <<Head(wire[1]["up"])>>
      <4>1. hold["agent"]["up"] = <<>>
          BY <1>0, <2>1, Ground DEF AgentOrder
      <4>2. init_data' # <<>>
          BY <2>1, <2>4
      <4>. QED  BY <2>1, <2>4, <4>1, <4>2 DEF InHand, Upper
    <3>3. FlowOf("up")'
        BY <1>0, <2>1, <3>1, <3>2, Ground, FlowOfUpperReads DEF FlowInv, First
    <3>4. FlowOf("down")'
      <4>1. EndSame("down") /\ HandsSame("down") /\ \A h \in Hops : wire'[h]["down"] = wire[h]["down"]
          BY <1>0, <2>2, Ground DEF EndSame, HandsSame, InHand, OthersSame
      <4>. QED  BY <2>2, <4>1, Ground, FlowOther DEF FlowInv
    <3>. QED  BY <3>3, <3>4 DEF FlowInv
  <2>5. CASE mode # "plain"
    <3>1. Ctl(wire[1]["up"]) = 1
        BY <2>2, <2>3, <2>5 DEF Request, REQUEST
    <3>2. \A d \in Dirs : InHand(d)' = InHand(d)
        BY <1>0, <2>1, <2>5 DEF InHand
    <3>. QED  BY <1>0, <2>1, <3>1, <3>2, Ground, FlowTakeControl
  <2>. QED  BY <2>4, <2>5
<1>2. CASE AgentRefusesRequest \/ AgentSeesClientEnd \/ AgentGivesUp
    BY <1>2, <1>a DEF AgentRefusesRequest, AgentSeesClientEnd, AgentGivesUp
<1>3. CASE AgentDialsProxy
  <2>1. UNCHANGED <<wire, init_data>> /\ conn[2] = "none" /\ \A h \in Hops : conn'[h] = conn[h] \/ h = 2
      BY <1>0, <1>3 DEF AgentDialsProxy, SocketsOK, AgentOrder
  <2>. SUFFICES ASSUME NEW d \in Dirs PROVE FlowOf(d)'
      BY Ground DEF FlowInv
  <2>2. DirLoss(d)
    <3>1. \A h \in Hops : Shorter(wire[h][d], wire[h][d])
        BY <1>0, ShorterSelf DEF SocketsOK
    <3>. QED  BY <2>1, <3>1 DEF DirLoss, Usable
  <2>3. FlowOf(d) /\ sent[d] \in Nat /\ HandsSame(d)
      BY <1>0, <2>1, FlowTypes, AllHandsSame DEF FlowInv, Dirs
  <2>. QED  BY <1>0, <2>2, <2>3, FlowKept DEF HandsSame
<1>4. CASE AgentSendsInit
  <2>1. Put(2, "up", INIT) /\ wire[2]["up"] = <<>> /\ init_data' = init_data
      BY <1>0, <1>4 DEF AgentSendsInit, AgentOrder
  <2>. QED  BY <1>0, <2>1, Ground, FlowPutControl DEF Control
<1>5. CASE AgentReadsSuccess \/ AgentReadsNoSuccess
  <2>1. CASE Take(2, "down") /\ init_data' = init_data
    <3>1. Ctl(wire[2]["down"]) = 1
        BY <1>0, <1>5, <2>1 DEF AgentReadsSuccess, AgentReadsNoSuccess, AnswerOrder, Take
    <3>. QED  BY <1>0, <2>1, <3>1, Ground, AllHandsSame, FlowTakeControl DEF HandsSame
  <2>2. CASE AgentFails
      BY <1>a, <2>2
  <2>. QED  BY <1>5, <2>1, <2>2 DEF AgentReadsSuccess, AgentReadsNoSuccess
<1>6. CASE AgentReplies
  <2>1. Put(1, "down", ESTABLISHED) /\ wire[1]["down"] = <<>> /\ init_data' = init_data
      BY <1>0, <1>6 DEF AgentReplies, AgentOrder
  <2>. QED  BY <1>0, <2>1, Ground, FlowPutControl DEF Control
<1>7. CASE AgentSendsInitData
  <2>1. /\ agent = "send_init_data" /\ Put(2, "up", init_data[1]) /\ init_data' = <<>>
        /\ init_data # <<>> /\ init_data \in Seq(Messages) /\ Len(init_data) <= 1
        /\ Ctl(init_data) = 0 /\ hold["agent"]["up"] = <<>> /\ relay["agent"]["up"] = "none"
      BY <1>0, <1>7, Ground DEF AgentSendsInitData, AgentOrder, WiresInShape, TypeOK, TasksOK
  <2>2. Len(init_data) = 1 /\ init_data[1] \in Messages /\ init_data[1] > 0
    <3>. DEFINE n == Len(init_data)
    <3>1. n \in Nat /\ n # 0 /\ n <= 1
        BY <2>1, EmptySeq, LenProperties
    <3>. HIDE DEF n
    <3>2. init_data[1] \in Messages /\ (Ctl(init_data) = 0 <=> init_data[1] > 0)
        BY <2>1, TailFacts
    <3>3. n = 1
        BY ONLY <3>1
    <3>4. init_data[1] > 0
        BY <2>1, <3>2
    <3>. QED  BY <3>2, <3>3, <3>4 DEF n
  <2>3. InHand("up") = init_data /\ InHand("up")' = <<>>
      BY <1>0, <2>1 DEF InHand, Upper
  <2>4. HandsSame("down") /\ \A d \in Dirs : EndSame(d)
      BY <1>0 DEF HandsSame, InHand, EndSame
  <2>5. hold'[Lower("up")]["up"] = hold[Lower("up")]["up"]
      BY <1>0
  <2>6. \/ /\ conn' = conn /\ conn[2] = "open" /\ wire'[2]["up"] = Append(wire[2]["up"], init_data[1])
           /\ OthersSame(2, "up")
        \/ Loss /\ Hurt(2)
      BY <1>0, <2>1, <2>2, Ground, PutStep
  <2>7. CASE /\ conn' = conn /\ conn[2] = "open" /\ wire'[2]["up"] = Append(wire[2]["up"], init_data[1])
             /\ OthersSame(2, "up")
    <3>1. FlowOf("up")'
      <4>1. Usable(2) /\ Alive(Upper("up"), "up")
          BY <2>1, <2>7 DEF Usable, Alive, Upper
      <4>. QED
          BY <2>2, <2>3, <2>4, <2>5, <2>7, <4>1, Ground, FlowOfUpperWrites DEF FlowInv, EndSame
    <3>2. FlowOf("down")'
      <4>1. \A h \in Hops : wire'[h]["down"] = wire[h]["down"]
          BY <2>7, Ground DEF OthersSame
      <4>. QED  BY <2>4, <2>7, <4>1, Ground, FlowOther DEF FlowInv
    <3>. QED  BY <3>1, <3>2 DEF FlowInv
  <2>8. CASE Loss /\ Hurt(2)
    <3>1. ~Usable(2)'
        BY <2>8 DEF Hurt, Usable
    <3>2. \A d \in Dirs : DirLoss(d) /\ sent[d] \in Nat
        BY <1>0, <2>8, LossIsDirLoss, FlowTypes
    <3>3. FlowOf("up")'
        BY <2>4, <2>5, <3>1, <3>2, Ground, FlowKept DEF FlowInv, EndSame
    <3>4. FlowOf("down")'
        BY <2>4, <3>2, Ground, FlowKept DEF FlowInv, EndSame, HandsSame
    <3>. QED  BY <3>3, <3>4 DEF FlowInv
  <2>. QED  BY <2>6, <2>7, <2>8
<1>. QED  BY <1>1, <1>2, <1>3, <1>4, <1>5, <1>6, <1>7 DEF AgentHandshake

LEMMA ProxyHandshakeFlow ==
    ASSUME TypeOK, TypeOK', HandshakeInv, FlowInv, \A d \in Dirs : Shrinks(d), ProxyHandshake
    PROVE  FlowInv'
<1>0. /\ SocketsOK /\ WiresInShape /\ ClientOrder /\ AgentOrder /\ ProxyOrder /\ AnswerOrder
      /\ rcvd' = rcvd /\ sent' = sent /\ hold' = hold /\ init_data' = init_data
    BY DEF TypeOK, HandshakeInv, ProxyHandshake, ProxyAccepts, ProxyReadsInit, ProxyReadsNoInit,
           ProxyDialsDestination, ProxyCannotDial, ProxySendsFail, ProxyGivesUp,
           ProxySendsSuccess, ProxyFails, endVars
<1>a. ASSUME ProxyFails PROVE FlowInv'
  <2>1. Loss
      BY <1>0, <1>a, ProxyDrops DEF ProxyFails
  <2>. QED  BY <1>0, <2>1, FlowQuiet
<1>b. \A d \in Dirs : InHand(d)' = InHand(d)
    BY <1>0, AllHandsSame DEF HandsSame
<1>1. CASE ProxyAccepts \/ ProxyCannotDial
  <2>1. Loss
      BY <1>1 DEF ProxyAccepts, ProxyCannotDial, Loss, Spared
  <2>. QED  BY <1>0, <2>1, FlowQuiet
<1>2. CASE ProxyReadsInit \/ ProxyReadsNoInit
  <2>1. CASE Take(2, "up")
    <3>1. Ctl(wire[2]["up"]) = 1
      <4>1. proxy = "first_message"
          BY <1>2 DEF ProxyReadsInit, ProxyReadsNoInit
      <4>2. agent # "relay"
          BY <1>0, <4>1 DEF AgentOrder
      <4>3. Dat(wire[2]["up"]) = 0
          BY <1>0, <4>2 DEF AgentOrder
      <4>. QED  BY <1>0, <2>1, <4>3, Ground, TakeFacts
    <3>. QED  BY <1>0, <1>b, <2>1, <3>1, Ground, FlowTakeControl
  <2>2. CASE ProxyFails
      BY <1>a, <2>2
  <2>. QED  BY <1>2, <2>1, <2>2 DEF ProxyReadsInit, ProxyReadsNoInit
<1>3. CASE ProxyDialsDestination
  <2>1. UNCHANGED wire /\ conn[3] = "none" /\ \A h \in Hops : conn'[h] = conn[h] \/ h = 3
      BY <1>0, <1>3 DEF ProxyDialsDestination, SocketsOK, ProxyOrder
  <2>. SUFFICES ASSUME NEW d \in Dirs PROVE FlowOf(d)'
      BY Ground DEF FlowInv
  <2>2. DirLoss(d)
    <3>1. \A h \in Hops : Shorter(wire[h][d], wire[h][d])
        BY <1>0, ShorterSelf DEF SocketsOK
    <3>. QED  BY <2>1, <3>1 DEF DirLoss, Usable
  <2>3. FlowOf(d) /\ sent[d] \in Nat
      BY FlowTypes DEF FlowInv, Dirs
  <2>. QED  BY <1>0, <1>b, <2>2, <2>3, FlowKept
<1>4. CASE ProxySendsFail \/ ProxySendsSuccess
  <2>1. (Put(2, "down", FAIL) \/ Put(2, "down", SUCCESS)) /\ wire[2]["down"] = <<>>
      BY <1>0, <1>4 DEF ProxySendsFail, ProxySendsSuccess, ProxyOrder
  <2>. QED  BY <1>0, <2>1, Ground, FlowPutControl DEF Control
<1>5. CASE ProxyGivesUp
    BY <1>5, <1>a DEF ProxyGivesUp
<1>. QED  BY <1>1, <1>2, <1>3, <1>4, <1>5 DEF ProxyHandshake

\* What a relay task has in hand: init_data is gone when it runs.
LEMMA RelayHand ==
    ASSUME TypeOK, HandshakeInv, NEW p \in Procs, NEW d \in Dirs, relay[p][d] # "none",
           init_data' = init_data, p = Upper(d)
    PROVE  InHand(d) = hold[p][d] /\ InHand(d)' = hold'[p][d]
<1>1. d = "up" => init_data = <<>>
  <2>1. d = "up" => p = "agent"
      BY DEF Upper
  <2>2. d = "up" => agent = "relay"
      BY <2>1, RelayReadsData
  <2>. QED  BY <2>2 DEF HandshakeInv, AgentOrder
<1>. QED  BY <1>1 DEF InHand

LEMMA RelayFlow ==
    ASSUME TypeOK, TypeOK', HandshakeInv, FlowInv, \A d \in Dirs : Shrinks(d),
           NEW p \in Procs, NEW d \in Dirs, RelayTask(p, d)
    PROVE  FlowInv'
<1>0. /\ SocketsOK /\ WiresInShape /\ AgentOrder
      /\ relay[p][d] # "none" /\ UNCHANGED <<agent, proxy, init_data, rcvd, sent>>
      /\ FlowOf(d) /\ FlowOf(Opp(d)) /\ Shrinks(d) /\ Shrinks(Opp(d)) /\ Opp(d) \in Dirs
    BY DEF TypeOK, HandshakeInv, RelayTask, RelayReads, RelaySeesEnd, RelayWrites, RelayWriteFails,
           RelayCloses, endVars, FlowInv, Dirs, Opp
<1>a. /\ Ctl(wire[Src(p, d)][d]) = 0 /\ proxy = "relay"
      /\ p = "agent" => agent = "relay"
    BY <1>0, RelayReadsData
<1>b. /\ hold \in [Procs -> [Dirs -> Seq(Messages)]] /\ Len(hold[p][d]) <= 1
      /\ hold[p][d] \in Seq(Messages) /\ Ctl(hold[p][d]) = 0
    BY <1>0 DEF TypeOK, TasksOK, WiresInShape
<1>c. \A e \in Dirs : EndSame(e)
    BY <1>0 DEF EndSame
<1>d. \/ p = Upper(d) /\ Src(p, d) = First(d) /\ Dst(p, d) = 2 /\ p # Lower(d)
      \/ p = Lower(d) /\ Src(p, d) = 2 /\ Dst(p, d) = Last(d) /\ p # Upper(d)
    BY Sides
<1>e. Src(p, d) \in Hops /\ Dst(p, d) \in Hops /\ sent[d] \in Nat /\ sent[Opp(d)] \in Nat
    BY <1>0, Geometry, FlowTypes
<1>f. p = Upper(d) => InHand(d) = hold[p][d] /\ InHand(d)' = hold'[p][d]
    BY <1>0, RelayHand
<1>g. ASSUME NEW x, hold' = [hold EXCEPT ![p][d] = x]
      PROVE  /\ hold'[p][d] = x /\ HandsSame(Opp(d))
             /\ p = Upper(d) => hold'[Lower(d)][d] = hold[Lower(d)][d]
             /\ p = Lower(d) => InHand(d)' = InHand(d)
  <2>1. /\ hold'[p][d] = x
        /\ \A q \in Procs, e \in Dirs : q # p \/ e # d => hold'[q][e] = hold[q][e]
      BY <1>b, <1>g
  <2>2. /\ Upper(d) \in Procs /\ Lower(d) \in Procs /\ Upper(d) # Lower(d)
        /\ Upper(Opp(d)) \in Procs /\ Lower(Opp(d)) \in Procs /\ Opp(d) # d
      BY DEF Upper, Lower, Procs, Opp, Dirs
  <2>. QED  BY <1>0, <2>1, <2>2 DEF HandsSame, InHand
<1>h. ASSUME FlowOf(d)', FlowOf(Opp(d))'
      PROVE  FlowInv'
    BY <1>h DEF FlowInv, Opp, Dirs
<1>i. ASSUME hold' = [hold EXCEPT ![p][d] = <<>>], ~Usable(Dst(p, d))', DirLoss(d), DirLoss(Opp(d))
      PROVE  FlowInv'
  <2>1. /\ HandsSame(Opp(d))
        /\ p = Upper(d) => hold'[Lower(d)][d] = hold[Lower(d)][d]
        /\ p = Lower(d) => InHand(d)' = InHand(d)
      BY <1>g, <1>i
  <2>2. /\ rcvd'[d] = rcvd[d] /\ sent'[d] = sent[d] /\ sent[d] <= sent'[d]
        /\ rcvd'[Opp(d)] = rcvd[Opp(d)] /\ sent'[Opp(d)] = sent[Opp(d)]
        /\ sent[Opp(d)] <= sent'[Opp(d)]
      BY <1>0, <1>e
  <2>3. FlowOf(Opp(d))'
      BY <1>0, <1>i, <2>1, <2>2, FlowKept DEF HandsSame
  <2>4. /\ Usable(Last(d))' => hold'[Lower(d)][d] = hold[Lower(d)][d]
        /\ Usable(2)' => InHand(d)' = InHand(d)
    <3>1. CASE p = Upper(d) /\ Dst(p, d) = 2
      <4>1. hold'[Lower(d)][d] = hold[Lower(d)][d] /\ ~Usable(2)'
          BY <1>i, <2>1, <3>1
      <4>. QED  BY <4>1
    <3>2. CASE p = Lower(d) /\ Dst(p, d) = Last(d)
      <4>1. InHand(d)' = InHand(d) /\ ~Usable(Last(d))'
          BY <1>i, <2>1, <3>2
      <4>. QED  BY <4>1
    <3>. QED  BY <1>d, <3>1, <3>2
  <2>5. FlowOf(d)'
      BY <1>0, <1>i, <2>2, <2>4, FlowKept
  <2>. QED  BY <1>h, <2>3, <2>5
<1>1. CASE RelayReads(p, d)
  <2>. DEFINE h == Src(p, d)
              m == Head(wire[h][d])
  <2>1. Take(h, d) /\ hold[p][d] = <<>>
      BY <1>1 DEF RelayReads
  <2>2. conn' = conn /\ OthersSame(h, d) /\ m > 0
    <3>1. conn' = conn /\ OthersSame(h, d)
        BY <1>0, <1>e, <2>1, TakeStep
    <3>2. m = wire[h][d][1] /\ (Ctl(wire[h][d]) = 0 <=> wire[h][d][1] > 0)
        BY <1>0, <1>e, <2>1, TakeFacts
    <3>. QED  BY <1>a, <3>1, <3>2
  <2>3. hold' = [hold EXCEPT ![p][d] = <<m>>]
      BY <1>1, <2>2 DEF RelayReads, IsData
  <2>4. FlowOf(Opp(d))'
    <3>1. \A g \in Hops : wire'[g][Opp(d)] = wire[g][Opp(d)]
        BY <1>0, <2>2 DEF OthersSame, Opp, Dirs
    <3>. QED  BY <1>0, <1>c, <1>g, <2>2, <2>3, <3>1, FlowOther
  <2>5. CASE p = Upper(d) /\ h = First(d)
    <3>1. hold'[p][d] = <<m>> /\ hold'[Lower(d)][d] = hold[Lower(d)][d]
        BY <1>g, <2>3, <2>5
    <3>2. InHand(d) = <<>> /\ InHand(d)' = <<m>>
        BY <1>f, <2>1, <2>5, <3>1
    <3>3. Take(First(d), d) /\ Ctl(wire[First(d)][d]) = 0 /\ m = Head(wire[First(d)][d])
        BY <1>a, <2>1, <2>5
    <3>4. FlowOf(d)'
        BY <1>0, <1>c, <3>1, <3>2, <3>3, FlowOfUpperReads DEF EndSame
    <3>. QED  BY <1>h, <2>4, <3>4
  <2>6. CASE p = Lower(d) /\ h = 2
    <3>1. hold'[p][d] = <<m>> /\ InHand(d)' = InHand(d)
        BY <1>g, <2>3, <2>6
    <3>2. hold[Lower(d)][d] = <<>> /\ hold'[Lower(d)][d] = <<m>>
        BY <2>1, <2>6, <3>1
    <3>3. Take(2, d) /\ Ctl(wire[2][d]) = 0 /\ m = Head(wire[2][d])
        BY <1>a, <2>1, <2>6
    <3>4. FlowOf(d)'
        BY <1>0, <1>c, <3>1, <3>2, <3>3, FlowOfLowerReads DEF EndSame
    <3>. QED  BY <1>h, <2>4, <3>4
  <2>. QED  BY <1>d, <2>5, <2>6
<1>2. CASE RelaySeesEnd(p, d)
  <2>1. Loss /\ hold' = hold
      BY <1>2 DEF RelaySeesEnd, Loss, Spared
  <2>. QED  BY <1>0, <2>1, FlowQuiet
<1>3. CASE RelayWrites(p, d)
  <2>. DEFINE h == Dst(p, d)
              m == hold[p][d][1]
  <2>1. /\ relay[p][d] = "forward" /\ hold[p][d] # <<>> /\ Put(h, d, Head(hold[p][d]))
        /\ hold' = [hold EXCEPT ![p][d] = <<>>]
      BY <1>3 DEF RelayWrites
  <2>2. m \in Messages /\ m > 0 /\ Head(hold[p][d]) = m
      BY <1>b, <2>1, TailFacts
  <2>3. Len(hold[p][d]) = 1
    <3>. DEFINE n == Len(hold[p][d])
    <3>1. n \in Nat /\ n # 0 /\ n <= 1
        BY <1>b, <2>1, EmptySeq, LenProperties
    <3>. HIDE DEF n
    <3>2. n = 1
        BY ONLY <3>1
    <3>. QED  BY <3>2 DEF n
  <2>4. \/ conn' = conn /\ conn[h] = "open" /\ wire'[h][d] = Append(wire[h][d], m) /\ OthersSame(h, d)
        \/ Loss /\ Hurt(h)
    <3>1. Put(h, d, m)
        BY <2>1, <2>2
    <3>. QED  BY <1>0, <1>e, <2>2, <3>1, PutStep
  <2>5. CASE conn' = conn /\ conn[h] = "open" /\ wire'[h][d] = Append(wire[h][d], m) /\ OthersSame(h, d)
    <3>1. FlowOf(Opp(d))'
      <4>1. \A g \in Hops : wire'[g][Opp(d)] = wire[g][Opp(d)]
          BY <1>0, <2>5 DEF OthersSame, Opp, Dirs
      <4>. QED  BY <1>0, <1>c, <1>g, <2>1, <2>5, <4>1, FlowOther
    <3>2. Alive(p, d) /\ Usable(h)
        BY <1>a, <2>1, <2>5 DEF Alive, Usable
    <3>3. CASE p = Upper(d) /\ h = 2
      <4>1. hold'[p][d] = <<>> /\ hold'[Lower(d)][d] = hold[Lower(d)][d]
          BY <1>g, <2>1, <3>3
      <4>2. /\ Len(InHand(d)) = 1 /\ InHand(d)[1] = m /\ InHand(d)' = <<>>
          BY <1>f, <2>3, <3>3, <4>1
      <4>3. /\ OthersSame(2, d) /\ Usable(2) /\ Alive(Upper(d), d)
            /\ wire'[2][d] = Append(wire[2][d], InHand(d)[1]) /\ InHand(d)[1] > 0
          BY <2>2, <2>5, <3>2, <3>3, <4>2
      <4>4. FlowOf(d)'
          BY <1>0, <1>c, <2>5, <4>1, <4>2, <4>3, FlowOfUpperWrites DEF EndSame
      <4>. QED  BY <1>h, <3>1, <4>4
    <3>4. CASE p = Lower(d) /\ h = Last(d)
      <4>1. hold'[Lower(d)][d] = <<>> /\ InHand(d)' = InHand(d)
          BY <1>g, <2>1, <3>4
      <4>2. /\ Len(hold[Lower(d)][d]) = 1 /\ hold[Lower(d)][d][1] = m
          BY <2>3, <3>4
      <4>3. /\ OthersSame(Last(d), d) /\ Usable(Last(d)) /\ Alive(Lower(d), d)
            /\ wire'[Last(d)][d] = Append(wire[Last(d)][d], hold[Lower(d)][d][1])
            /\ hold[Lower(d)][d][1] > 0
          BY <2>2, <2>5, <3>2, <3>4, <4>2
      <4>4. FlowOf(d)'
          BY <1>0, <1>c, <2>5, <4>1, <4>2, <4>3, FlowOfLowerWrites DEF EndSame
      <4>. QED  BY <1>h, <3>1, <4>4
    <3>. QED  BY <1>d, <3>3, <3>4
  <2>6. CASE Loss /\ Hurt(h)
    <3>1. ~Usable(h)' /\ DirLoss(d) /\ DirLoss(Opp(d))
        BY <1>0, <2>6, LossIsDirLoss DEF Hurt, Usable
    <3>. QED  BY <1>i, <2>1, <3>1
  <2>. QED  BY <2>4, <2>5, <2>6
<1>4. CASE RelayWriteFails(p, d)
  <2>1. /\ hold' = [hold EXCEPT ![p][d] = <<>>] /\ conn' = conn /\ wire' = wire
        /\ ~Usable(Dst(p, d))'
      BY <1>4 DEF RelayWriteFails, Usable
  <2>2. DirLoss(d) /\ DirLoss(Opp(d))
      BY <1>0, <2>1, SameIsDirLoss
  <2>. QED  BY <1>i, <2>1, <2>2
<1>5. CASE RelayCloses(p, d)
  <2>1. Loss /\ hold' = hold
      BY <1>0, <1>5, <1>e, DropStep, ShutDownStep DEF RelayCloses
  <2>. QED  BY <1>0, <2>1, FlowQuiet
<1>. QED  BY <1>1, <1>2, <1>3, <1>4, <1>5 DEF RelayTask

\* An endpoint writes its next chunk.
LEMMA SendFlow ==
    ASSUME TypeOK, TypeOK', FlowInv, \A d \in Dirs : Shrinks(d),
           UNCHANGED <<hold, init_data, rcvd>>,
           NEW d \in Dirs, sent[d] < MaxSend[d], Put(First(d), d, sent[d] + 1),
           sent' = [sent EXCEPT ![d] = @ + 1]
    PROVE  FlowInv'
<1>1. /\ SocketsOK /\ sent[d] \in Nat /\ sent[Opp(d)] \in Nat /\ sent \in [Dirs -> Nat]
      /\ FlowOf(d) /\ FlowOf(Opp(d)) /\ Shrinks(d) /\ Shrinks(Opp(d)) /\ Opp(d) \in Dirs
      /\ Opp(d) # d
    BY DEF TypeOK, EndsOK, FlowInv, Dirs, Opp
<1>2. First(d) \in Hops /\ sent[d] + 1 \in Messages
    BY <1>1, MessageFacts, Sides
<1>3. /\ sent'[d] = sent[d] + 1 /\ rcvd'[d] = rcvd[d] /\ HandsSame(d)
      /\ EndSame(Opp(d)) /\ HandsSame(Opp(d))
    BY <1>1, AllHandsSame DEF EndSame
<1>4. \/ /\ conn' = conn /\ conn[First(d)] = "open" /\ OthersSame(First(d), d)
         /\ wire'[First(d)][d] = Append(wire[First(d)][d], sent[d] + 1)
      \/ Loss /\ Hurt(First(d))
    BY <1>1, <1>2, PutStep
<1>5. CASE /\ conn' = conn /\ conn[First(d)] = "open" /\ OthersSame(First(d), d)
           /\ wire'[First(d)][d] = Append(wire[First(d)][d], sent[d] + 1)
  <2>1. FlowOf(d)'
      BY <1>1, <1>2, <1>3, <1>5, FlowOfSend DEF Usable, HandsSame
  <2>2. \A g \in Hops : wire'[g][Opp(d)] = wire[g][Opp(d)]
      BY <1>1, <1>5 DEF OthersSame
  <2>3. FlowOf(Opp(d))'
      BY <1>1, <1>3, <1>5, <2>2, FlowOther
  <2>. QED  BY <2>1, <2>3 DEF FlowInv, Dirs, Opp
<1>6. CASE Loss /\ Hurt(First(d))
  <2>1. ~Usable(First(d))' /\ DirLoss(d) /\ DirLoss(Opp(d)) /\ sent[d] <= sent'[d]
      BY <1>1, <1>3, <1>6, LossIsDirLoss DEF Hurt, Usable
  <2>2. FlowOf(d)'
      BY <1>1, <1>3, <2>1, FlowKept DEF HandsSame
  <2>3. FlowOf(Opp(d))'
      BY <1>1, <1>3, <2>1, FlowKept DEF HandsSame, EndSame
  <2>. QED  BY <2>2, <2>3 DEF FlowInv, Dirs, Opp
<1>. QED  BY <1>4, <1>5, <1>6

\* An endpoint reads: a chunk, which is the next one, or the answer to the request.
LEMMA ReceiveFlow ==
    ASSUME TypeOK, TypeOK', HandshakeInv, FlowInv, \A d \in Dirs : Shrinks(d),
           NEW d \in Dirs, EndpointReads(d)
    PROVE  FlowInv'
<1>1. /\ SocketsOK /\ WiresInShape /\ Last(d) \in Hops /\ FlowOf(d) /\ FlowOf(Opp(d)) /\ Shrinks(d)
      /\ Shrinks(Opp(d)) /\ Opp(d) \in Dirs /\ Opp(d) # d /\ rcvd \in [Dirs -> Seq(Messages)]
    BY Sides DEF TypeOK, EndsOK, HandshakeInv, FlowInv, Dirs, Opp
<1>2. /\ Take(Last(d), d) /\ sent' = sent /\ hold' = hold /\ init_data' = init_data
      /\ rcvd' = IF IsData(Head(wire[Last(d)][d]))
                 THEN [rcvd EXCEPT ![d] = Append(@, Head(wire[Last(d)][d]))] ELSE rcvd
    BY DEF EndpointReads, taskVars
<1>3. conn' = conn /\ OthersSame(Last(d), d)
    BY <1>1, <1>2, TakeStep
<1>4. /\ Ctl(wire[Last(d)][d]) = 0 <=> IsData(Head(wire[Last(d)][d]))
      /\ Ctl(wire[Last(d)][d]) \in {0, 1}
    BY <1>1, <1>2, TakeFacts DEF IsData, Ctl
<1>5. \A e \in Dirs : HandsSame(e)
    BY <1>2, AllHandsSame
<1>6. CASE Ctl(wire[Last(d)][d]) = 0
  <2>1. /\ rcvd'[d] = Append(rcvd[d], Head(wire[Last(d)][d])) /\ sent'[d] = sent[d]
        /\ EndSame(Opp(d))
      BY <1>1, <1>2, <1>4, <1>6 DEF EndSame
  <2>2. FlowOf(d)'
      BY <1>1, <1>2, <1>5, <1>6, <2>1, FlowOfReceive DEF HandsSame
  <2>3. \A g \in Hops : wire'[g][Opp(d)] = wire[g][Opp(d)]
      BY <1>1, <1>3 DEF OthersSame
  <2>4. FlowOf(Opp(d))'
      BY <1>1, <1>3, <1>5, <2>1, <2>3, FlowOther
  <2>. QED  BY <2>2, <2>4 DEF FlowInv, Dirs, Opp
<1>7. CASE Ctl(wire[Last(d)][d]) = 1
  <2>1. rcvd' = rcvd
      BY <1>2, <1>4, <1>7
  <2>2. \A e \in Dirs : InHand(e)' = InHand(e)
      BY <1>5 DEF HandsSame
  <2>. QED  BY <1>1, <1>2, <1>7, <2>1, <2>2, FlowTakeControl
<1>. QED  BY <1>4, <1>6, <1>7

LEMMA FlowStep ==
    ASSUME TypeOK, HandshakeInv, FlowInv, [Next]_vars
    PROVE  FlowInv'
<1>0. TypeOK' /\ (\A d \in Dirs : Shrinks(d)) /\ SocketsOK
    BY TypeStep, AliveShrinks DEF TypeOK
<1>1. CASE AgentHandshake
    BY <1>0, <1>1, AgentHandshakeFlow
<1>2. CASE ProxyHandshake
    BY <1>0, <1>2, ProxyHandshakeFlow
<1>3. CASE \E p \in Procs, d \in Dirs : RelayTask(p, d)
    BY <1>0, <1>3, RelayFlow
<1>4. CASE ClientRequests
  <2>1. /\ client = "request" /\ wire[1]["up"] = <<>> /\ sent["up"] = 0
        /\ UNCHANGED <<hold, init_data, rcvd>>
      BY <1>4 DEF ClientRequests, HandshakeInv, ClientOrder, taskVars
  <2>2. CASE mode = "plain"
    <3>1. sent["up"] < MaxSend["up"] /\ Put(1, "up", 1) /\ sent' = [sent EXCEPT !["up"] = 1]
        BY <1>4, <2>2 DEF ClientRequests
    <3>2. First("up") = 1 /\ sent["up"] + 1 = 1 /\ sent' = [sent EXCEPT !["up"] = @ + 1]
        BY <2>1, <3>1 DEF First
    <3>3. Put(First("up"), "up", sent["up"] + 1)
        BY <3>1, <3>2
    <3>. QED  BY <1>0, <2>1, <3>1, <3>2, <3>3, Ground, SendFlow
  <2>3. CASE mode # "plain"
    <3>1. Put(1, "up", REQUEST) /\ sent' = sent
        BY <1>4, <2>3 DEF ClientRequests
    <3>. QED  BY <1>0, <2>1, <3>1, Ground, FlowPutControl DEF Control
  <2>. QED  BY <2>2, <2>3
<1>5. ASSUME NEW d \in Dirs, Endpoint(d) \/ Vanish(d)
      PROVE  FlowInv'
  <2>1. CASE EndpointSends(d)
      BY <1>0, <2>1, SendFlow DEF EndpointSends, taskVars
  <2>2. CASE EndpointShutsDown(d) \/ EndpointSeesEnd(d)
    <3>1. Loss /\ UNCHANGED <<hold, init_data, rcvd, sent>>
        BY <2>2 DEF EndpointShutsDown, EndpointSeesEnd, Loss, Spared, taskVars, endVars
    <3>. QED  BY <1>0, <3>1, FlowQuiet
  <2>3. CASE EndpointReads(d)
      BY <1>0, <2>3, ReceiveFlow
  <2>4. CASE Vanish(d)
    <3>1. Loss /\ UNCHANGED <<hold, init_data, rcvd, sent>>
      <4>1. UNCHANGED <<hold, init_data, rcvd, sent>>
          BY <2>4 DEF Vanish, taskVars, endVars
      <4>. QED  BY <1>0, <2>4, <4>1, VanishStep
    <3>. QED  BY <1>0, <3>1, FlowQuiet
  <2>. QED  BY <1>5, <2>1, <2>2, <2>3, <2>4 DEF Endpoint
<1>6. ASSUME NEW h \in Hops, Break(h) \/ KernelGivesUp(h)
      PROVE  FlowInv'
  <2>1. Loss
    <3>1. CASE Break(h)
        BY <1>0, <3>1, ResetStep DEF Break, Loss
    <3>2. CASE KernelGivesUp(h)
      <4>1. conn[h] = "dying" /\ wire' = wire /\ conn \in [Hops -> {"none", "open", "silent", "dying", "reset"}]
            /\ conn' = [conn EXCEPT ![h] = "reset"]
          BY <1>0, <3>2 DEF KernelGivesUp, SocketsOK
      <4>2. \A g \in Hops, d \in Dirs : Shorter(wire[g][d], wire[g][d])
          BY <1>0, ShorterSelf DEF SocketsOK
      <4>. QED  BY <4>1, <4>2 DEF Loss, Spared, Hurt
    <3>. QED  BY <1>6, <3>1, <3>2
  <2>2. UNCHANGED <<hold, init_data, rcvd, sent>>
      BY <1>6 DEF Break, KernelGivesUp, taskVars, endVars
  <2>. QED  BY <1>0, <2>1, <2>2, FlowQuiet
<1>7. CASE UNCHANGED vars
  <2>1. Loss /\ UNCHANGED <<hold, init_data, rcvd, sent>>
      BY <1>7 DEF vars, Loss, Spared
  <2>. QED  BY <1>0, <2>1, FlowQuiet
<1>. QED  BY <1>1, <1>2, <1>3, <1>4, <1>5, <1>6, <1>7 DEF Next

LEMMA FlowInit == Init => FlowInv
<1>. SUFFICES ASSUME Init PROVE FlowInv
    OBVIOUS
<1>. SUFFICES ASSUME NEW d \in Dirs PROVE FlowOf(d)
    BY Ground DEF FlowInv
<1>1. /\ rcvd[d] = <<>> /\ sent[d] = 0 /\ \A h \in Hops : wire[h][d] = <<>>
      /\ hold[Lower(d)][d] = <<>> /\ InHand(d) = <<>>
    BY Sides DEF Init, InHand
<1>2. Flow(<<>>, <<>>, <<>>, <<>>, <<>>, <<>>, Reach(d), 0)
    BY EmptyWire DEF Flow
<1>. QED  BY <1>1, <1>2, Sides DEF FlowOf

-----------------------------------------------------------------------------
(* The undisturbed tunnel                                                  *)

LEMMA Ends ==
    /\ \A p \in Procs, d \in Dirs :
          /\ Src(p, d) \in Hops /\ Dst(p, d) \in Hops /\ First(d) # Dst(p, d)
    /\ \A p \in Procs : \A h \in HopsOf(p) :
          /\ h \in Hops /\ Incoming(p, h) \in Dirs /\ Src(p, Incoming(p, h)) = h
    /\ \A p \in Procs, q \in Procs, d \in Dirs :
          Dst(q, d) \in HopsOf(p) /\ d = Outgoing(p, Dst(q, d)) => q = p
    /\ \A p \in Procs, q \in Procs, d \in Dirs, e \in Dirs :
          e = d /\ Dst(q, d) = Dst(p, e) => q = p
    /\ \A d \in Dirs : First(d) \in Hops /\ Last(d) \in Hops
BY DEF Procs, Dirs, Hops, Src, Dst, Near, Far, Opp, First, Last, HopsOf, Incoming, Outgoing

\* A step of the connections that disturbs nothing.
NetClean ==
    /\ \A h \in Hops : conn'[h] = conn[h] \/ (conn[h] = "none" /\ conn'[h] = "open")
    /\ \A h \in Hops, d \in Dirs : fin[h][d] => fin'[h][d] /\ (wire[h][d] = <<>> => wire'[h][d] = <<>>)

FinClean ==
    \A p \in Procs, d \in Dirs : fin'[Dst(p, d)][d] => fin[Dst(p, d)][d] \/ relay'[p][d] = "done"

RelayClean(p, d) ==
    /\ relay[p][d] = "done" => relay'[p][d] = "done"
    /\ relay'[p][d] \in {"close", "done"} =>
          /\ hold'[p][d] = hold[p][d]
          /\ \/ relay[p][d] \in {"close", "done"}
             \/ fin[Src(p, d)][d] /\ wire[Src(p, d)][d] = <<>> /\ hold[p][d] = <<>>

EndClean(d) ==
    ended'[d] # "no" => ended[d] # "no" \/ (fin[Last(d)][d] /\ wire[Last(d)][d] = <<>>)

CleanStep == /\ NetClean /\ FinClean
             /\ \A p \in Procs, d \in Dirs : RelayClean(p, d)
             /\ \A d \in Dirs : EndClean(d)

LEMMA CleanKept ==
    ASSUME Undisturbed, CleanStep
    PROVE  Undisturbed'
<1>1. \A h \in Hops : Usable(h)'
    BY DEF Undisturbed, CleanStep, NetClean, Usable
<1>2. ASSUME NEW p \in Procs, NEW d \in Dirs
      PROVE  /\ relay'[p][d] \in {"close", "done"} =>
                   fin'[Src(p, d)][d] /\ wire'[Src(p, d)][d] = <<>> /\ hold'[p][d] = <<>>
             /\ fin'[Dst(p, d)][d] => relay'[p][d] = "done"
  <2>1. Src(p, d) \in Hops /\ Dst(p, d) \in Hops
      BY Ends
  <2>2. RelayClean(p, d)
      BY DEF CleanStep
  <2>3. ASSUME relay'[p][d] \in {"close", "done"}
        PROVE  fin'[Src(p, d)][d] /\ wire'[Src(p, d)][d] = <<>> /\ hold'[p][d] = <<>>
    <3>1. fin[Src(p, d)][d] /\ wire[Src(p, d)][d] = <<>> /\ hold[p][d] = <<>> /\ hold'[p][d] = hold[p][d]
        BY <2>2, <2>3 DEF RelayClean, Undisturbed
    <3>. QED  BY <2>1, <3>1 DEF CleanStep, NetClean
  <2>4. fin'[Dst(p, d)][d] => relay'[p][d] = "done"
      BY <2>2 DEF CleanStep, FinClean, RelayClean, Undisturbed
  <2>. QED  BY <2>3, <2>4
<1>3. ASSUME NEW d \in Dirs, ended'[d] # "no"
      PROVE  fin'[Last(d)][d] /\ wire'[Last(d)][d] = <<>>
  <2>1. fin[Last(d)][d] /\ wire[Last(d)][d] = <<>>
      BY <1>3 DEF CleanStep, EndClean, Undisturbed
  <2>. QED  BY <2>1, Ends DEF CleanStep, NetClean
<1>. QED  BY <1>1, <1>2, <1>3 DEF Undisturbed, Usable

LEMMA CleanTake ==
    ASSUME SocketsOK, NEW h \in Hops, NEW d \in Dirs, Take(h, d)
    PROVE  NetClean /\ FinClean
<1>1. conn' = conn /\ fin' = fin /\ wire[h][d] # <<>> /\ OthersSame(h, d)
    BY TakeStep
<1>. QED  BY <1>1 DEF NetClean, FinClean, OthersSame

\* Nobody writes to a process that has closed its sockets: it did so only after
\* the end of what it read.
LEMMA CleanPut ==
    ASSUME SocketsOK, Clean, Undisturbed, NEW h \in Hops, NEW d \in Dirs, NEW m \in Messages,
           ~fin[h][d], Put(h, d, m)
    PROVE  NetClean /\ FinClean /\ conn' = conn
<1>1. conn[h] = "open"
    BY PutStep DEF Undisturbed, Usable
<1>2. ~ReaderGone(h, d)
  <2>. SUFFICES ASSUME ReaderGone(h, d) PROVE FALSE
      OBVIOUS
  <2>1. PICK p \in Procs : h \in HopsOf(p) /\ d = Incoming(p, h) /\ Gone(p)
      BY DEF ReaderGone
  <2>2. relay[p][d] = "done" /\ Src(p, d) = h
      BY <2>1, Ends DEF Clean, Gone
  <2>. QED  BY <2>2 DEF Undisturbed
<1>3. conn' = conn /\ fin' = fin /\ OthersSame(h, d)
    BY <1>1, <1>2, PutStep
<1>. QED  BY <1>3 DEF NetClean, FinClean, OthersSame

LEMMA HandshakeClean ==
    ASSUME ended' = ended, hold' = hold, NetClean, FinClean,
           \A p \in Procs, d \in Dirs :
              relay'[p][d] = relay[p][d] \/ (relay[p][d] = "none" /\ relay'[p][d] = "forward")
    PROVE  CleanStep
<1>1. \A p \in Procs, d \in Dirs : RelayClean(p, d)
    BY DEF RelayClean
<1>. QED  BY <1>1 DEF CleanStep, EndClean

LEMMA AgentHandshakeClean ==
    ASSUME TypeOK, HandshakeInv, Clean, Clean', Undisturbed, AgentHandshake
    PROVE  CleanStep
<1>0. /\ SocketsOK /\ AgentOrder /\ ended' = ended /\ hold' = hold
      /\ relay \in [Procs -> [Dirs -> {"none", "forward", "close", "done"}]] /\ agent # "relay"
      /\ ~AgentFails
    BY DEF TypeOK, TasksOK, HandshakeInv, AgentHandshake, AgentReadsRequest, AgentRefusesRequest,
           AgentSeesClientEnd, AgentDialsProxy, AgentSendsInit, AgentReadsSuccess,
           AgentReadsNoSuccess, AgentReplies, AgentSendsInitData, AgentGivesUp, AgentFails, endVars,
           Clean
<1>1. \A d \in Dirs : relay["agent"][d] = "none"
    BY <1>0 DEF AgentOrder
<1>2. ~fin[1]["down"] /\ ~fin[2]["up"]
  <2>1. Dst("agent", "down") = 1 /\ Dst("agent", "up") = 2
      BY DEF Dst, Near, Far
  <2>2. \A d \in Dirs : ~fin[Dst("agent", d)][d]
      BY <1>1, Ground DEF Undisturbed
  <2>. QED  BY <2>1, <2>2, Ground
<1>3. \A p \in Procs, d \in Dirs :
         relay'[p][d] = relay[p][d] \/ (relay[p][d] = "none" /\ relay'[p][d] = "forward")
  <2>1. relay' = relay \/ StartRelays("agent")
      BY DEF AgentHandshake, AgentReadsRequest, AgentRefusesRequest,
           AgentSeesClientEnd, AgentDialsProxy, AgentSendsInit, AgentReadsSuccess,
           AgentReadsNoSuccess, AgentReplies, AgentSendsInitData, AgentGivesUp, AgentFails
  <2>. QED  BY <1>0, <1>1, <2>1 DEF StartRelays
<1>4. NetClean /\ FinClean
  <2>1. CASE Take(1, "up") \/ Take(2, "down")
      BY <1>0, <2>1, Ground, CleanTake
  <2>2. CASE AgentSendsInit \/ AgentReplies
    <3>1. INIT \in Messages /\ ESTABLISHED \in Messages
        BY MessageFacts DEF Control
    <3>. QED  BY <1>0, <1>2, <2>2, <3>1, Ground, CleanPut DEF AgentSendsInit, AgentReplies
  <2>3. CASE AgentSendsInitData
    <3>1. init_data \in Seq(Messages) /\ init_data # <<>> /\ Put(2, "up", init_data[1])
        BY <1>0, <2>3 DEF TypeOK, TasksOK, AgentSendsInitData, AgentOrder
    <3>2. init_data[1] \in Messages
        BY <3>1, TailFacts
    <3>. QED  BY <1>0, <1>2, <3>1, <3>2, Ground, CleanPut
  <2>4. CASE AgentDialsProxy
    <3>1. /\ wire' = wire /\ fin' = fin /\ conn[2] = "none"
          /\ \A h \in Hops : conn'[h] = IF h = 2 THEN "open" ELSE conn[h]
        BY <1>0, <2>4 DEF AgentDialsProxy, AgentOrder, SocketsOK
    <3>. QED  BY <3>1 DEF NetClean, FinClean
  <2>. QED
      BY <1>0, <2>1, <2>2, <2>3, <2>4
      DEF AgentHandshake, AgentReadsRequest, AgentRefusesRequest, AgentSeesClientEnd,
          AgentReadsSuccess, AgentReadsNoSuccess, AgentGivesUp
<1>. QED  BY <1>0, <1>3, <1>4, HandshakeClean

LEMMA ProxyHandshakeClean ==
    ASSUME TypeOK, HandshakeInv, Clean, Clean', Undisturbed, ProxyHandshake
    PROVE  CleanStep
<1>0. /\ SocketsOK /\ ProxyOrder /\ ended' = ended /\ hold' = hold
      /\ relay \in [Procs -> [Dirs -> {"none", "forward", "close", "done"}]] /\ proxy # "relay"
      /\ ~ProxyFails
    BY DEF TypeOK, TasksOK, HandshakeInv, ProxyHandshake, ProxyAccepts, ProxyReadsInit,
           ProxyReadsNoInit, ProxyDialsDestination, ProxyCannotDial, ProxySendsFail, ProxyGivesUp,
           ProxySendsSuccess, ProxyFails, endVars, Clean
<1>1. \A d \in Dirs : relay["proxy"][d] = "none"
    BY <1>0 DEF ProxyOrder
<1>2. ~fin[2]["down"]
  <2>1. Dst("proxy", "down") = 2
      BY DEF Dst, Near
  <2>2. \A d \in Dirs : ~fin[Dst("proxy", d)][d]
      BY <1>1, Ground DEF Undisturbed
  <2>. QED  BY <2>1, <2>2, Ground
<1>3. \A p \in Procs, d \in Dirs :
         relay'[p][d] = relay[p][d] \/ (relay[p][d] = "none" /\ relay'[p][d] = "forward")
  <2>1. relay' = relay \/ StartRelays("proxy")
      BY DEF ProxyHandshake, ProxyAccepts, ProxyReadsInit, ProxyReadsNoInit, ProxyDialsDestination,
             ProxyCannotDial, ProxySendsFail, ProxyGivesUp, ProxySendsSuccess, ProxyFails
  <2>. QED  BY <1>0, <1>1, <2>1 DEF StartRelays
<1>4. NetClean /\ FinClean
  <2>1. CASE Take(2, "up")
      BY <1>0, <2>1, Ground, CleanTake
  <2>2. CASE ProxySendsFail \/ ProxySendsSuccess
    <3>1. FAIL \in Messages /\ SUCCESS \in Messages
        BY MessageFacts DEF Control
    <3>. QED  BY <1>0, <1>2, <2>2, <3>1, Ground, CleanPut DEF ProxySendsFail, ProxySendsSuccess
  <2>3. CASE ProxyAccepts \/ ProxyCannotDial
      BY <2>3 DEF ProxyAccepts, ProxyCannotDial, NetClean, FinClean
  <2>4. CASE ProxyDialsDestination
    <3>1. /\ wire' = wire /\ fin' = fin /\ conn[3] = "none"
          /\ \A h \in Hops : conn'[h] = IF h = 3 THEN "open" ELSE conn[h]
        BY <1>0, <2>4 DEF ProxyDialsDestination, ProxyOrder, SocketsOK
    <3>. QED  BY <3>1 DEF NetClean, FinClean
  <2>. QED
      BY <1>0, <2>1, <2>2, <2>3, <2>4 DEF ProxyHandshake, ProxyReadsInit, ProxyReadsNoInit, ProxyGivesUp
<1>. QED  BY <1>0, <1>3, <1>4, HandshakeClean

LEMMA RelayTaskClean ==
    ASSUME TypeOK, HandshakeInv, Clean, Undisturbed, NEW p \in Procs, NEW d \in Dirs, RelayTask(p, d)
    PROVE  CleanStep
<1>0. /\ SocketsOK /\ WiresInShape /\ ended' = ended
      /\ relay \in [Procs -> [Dirs -> {"none", "forward", "close", "done"}]]
      /\ hold \in [Procs -> [Dirs -> Seq(Messages)]]
      /\ relay[p][d] \in {"forward", "close"} /\ Src(p, d) \in Hops /\ Dst(p, d) \in Hops
    BY Ends DEF TypeOK, TasksOK, HandshakeInv, RelayTask, RelayReads, RelaySeesEnd, RelayWrites,
                RelayWriteFails, RelayCloses, endVars
<1>1. Usable(Src(p, d)) /\ Usable(Dst(p, d)) /\ ~fin[Dst(p, d)][d]
    BY <1>0 DEF Undisturbed
<1>2. \A e \in Dirs : EndClean(e)
    BY <1>0 DEF EndClean
<1>3. CASE RelayReads(p, d)
  <2>1. Take(Src(p, d), d) /\ relay[p][d] = "forward"
      BY <1>3 DEF RelayReads
  <2>2. relay' = relay /\ \E x : hold' = [hold EXCEPT ![p][d] = x]
    <3>1. Ctl(wire[Src(p, d)][d]) = 0
        BY <1>0, RelayReadsData
    <3>2. IsData(Head(wire[Src(p, d)][d]))
      <4>1. /\ Head(wire[Src(p, d)][d]) = wire[Src(p, d)][d][1]
            /\ Ctl(wire[Src(p, d)][d]) = 0 <=> wire[Src(p, d)][d][1] > 0
          BY <1>0, <2>1, TakeFacts
      <4>. QED  BY <3>1, <4>1 DEF IsData
    <3>. QED  BY <1>3, <3>2 DEF RelayReads
  <2>3. \A q \in Procs, e \in Dirs : RelayClean(q, e)
      BY <1>0, <2>1, <2>2 DEF RelayClean
  <2>. QED  BY <1>0, <1>2, <2>1, <2>3, CleanTake DEF CleanStep
<1>4. CASE RelaySeesEnd(p, d)
  <2>1. /\ UNCHANGED <<conn, wire, fin, hold>> /\ relay' = [relay EXCEPT ![p][d] = "close"]
        /\ relay[p][d] = "forward" /\ hold[p][d] = <<>> /\ wire[Src(p, d)][d] = <<>> /\ fin[Src(p, d)][d]
      BY <1>1, <1>4 DEF RelaySeesEnd, AtEnd, Usable
  <2>2. \A q \in Procs, e \in Dirs : RelayClean(q, e)
      BY <1>0, <2>1 DEF RelayClean
  <2>. QED  BY <1>2, <2>1, <2>2 DEF CleanStep, NetClean, FinClean
<1>5. CASE RelayWrites(p, d)
  <2>1. /\ relay[p][d] = "forward" /\ Put(Dst(p, d), d, Head(hold[p][d])) /\ relay' = relay
        /\ hold[p][d] # <<>> /\ hold' = [hold EXCEPT ![p][d] = <<>>] /\ hold[p][d] \in Seq(Messages)
      BY <1>0, <1>5 DEF RelayWrites
  <2>2. Head(hold[p][d]) \in Messages
      BY <2>1, TailFacts
  <2>3. \A q \in Procs, e \in Dirs : RelayClean(q, e)
      BY <1>0, <2>1 DEF RelayClean
  <2>. QED  BY <1>0, <1>1, <1>2, <2>1, <2>2, <2>3, CleanPut DEF CleanStep
<1>6. CASE RelayWriteFails(p, d)
    BY <1>1, <1>6 DEF RelayWriteFails, Usable
<1>7. CASE RelayCloses(p, d)
  <2>1. /\ relay[p][d] = "close" /\ relay' = [relay EXCEPT ![p][d] = "done"] /\ hold' = hold
        /\ IF relay[p][Opp(d)] = "done" THEN DropSockets(p) ELSE ShutDown(Dst(p, d), d)
      BY <1>7 DEF RelayCloses
  <2>2. \A q \in Procs, e \in Dirs : RelayClean(q, e)
      BY <1>0, <2>1 DEF RelayClean
  <2>3. CASE relay[p][Opp(d)] = "done"
    <3>1. /\ \A e \in Dirs : relay[p][e] \in {"close", "done"} /\ relay'[p][e] = "done"
        BY <1>0, <2>1, <2>3 DEF Opp, Dirs
    <3>2. /\ Loss
          /\ \A h \in Hops, e \in Dirs :
                fin'[h][e] = (fin[h][e] \/ (h \in HopsOf(p) /\ e = Outgoing(p, h) /\ conn[h] = "open"))
          /\ \A h \in HopsOf(p) : conn'[h] # conn[h] => wire[h][Incoming(p, h)] # <<>>
          /\ \A h \in Hops \ HopsOf(p) : conn'[h] = conn[h]
        BY <1>0, <2>1, <2>3, DropStep DEF Spared
    <3>3. \A h \in HopsOf(p) : wire[h][Incoming(p, h)] = <<>>
      <4>. TAKE h \in HopsOf(p)
      <4>1. Incoming(p, h) \in Dirs /\ Src(p, Incoming(p, h)) = h
          BY Ends
      <4>2. wire[Src(p, Incoming(p, h))][Incoming(p, h)] = <<>>
          BY <3>1, <4>1 DEF Undisturbed
      <4>. QED  BY <4>1, <4>2
    <3>4. \A h \in Hops : conn'[h] = conn[h]
        BY <3>2, <3>3
    <3>5. \A h \in Hops, e \in Dirs : wire[h][e] = <<>> => wire'[h][e] = <<>>
        BY <1>0, <3>2, LossFacts DEF LossOK
    <3>6. NetClean
        BY <3>2, <3>4, <3>5 DEF NetClean
    <3>7. FinClean
      <4>. SUFFICES ASSUME NEW q \in Procs, NEW e \in Dirs, fin'[Dst(q, e)][e], ~fin[Dst(q, e)][e]
                    PROVE  relay'[q][e] = "done"
          BY DEF FinClean
      <4>1. Dst(q, e) \in HopsOf(p) /\ e = Outgoing(p, Dst(q, e))
          BY <3>2, Ends
      <4>. QED  BY <3>1, <4>1, Ends
    <3>. QED  BY <1>2, <2>2, <3>6, <3>7 DEF CleanStep
  <2>4. CASE relay[p][Opp(d)] # "done"
    <3>1. /\ wire' = wire
          /\ \A h \in Hops, e \in Dirs :
                fin'[h][e] = (fin[h][e] \/ (h = Dst(p, d) /\ e = d /\ conn[Dst(p, d)] = "open"))
        BY <1>0, <2>1, <2>4, ShutDownStep
    <3>2. conn' = conn
        BY <1>0, <1>1, <2>1, <2>4 DEF ShutDown, Mute, Usable, SocketsOK
    <3>3. FinClean
      <4>. SUFFICES ASSUME NEW q \in Procs, NEW e \in Dirs, fin'[Dst(q, e)][e], ~fin[Dst(q, e)][e]
                    PROVE  relay'[q][e] = "done"
          BY DEF FinClean
      <4>1. Dst(q, e) = Dst(p, d) /\ e = d
          BY <3>1, Ends
      <4>2. q = p
          BY <4>1, Ends
      <4>. QED  BY <1>0, <2>1, <4>1, <4>2
    <3>. QED  BY <1>2, <2>2, <3>1, <3>2, <3>3 DEF CleanStep, NetClean
  <2>. QED  BY <2>3, <2>4
<1>. QED  BY <1>3, <1>4, <1>5, <1>6, <1>7 DEF RelayTask

LEMMA EndpointClean ==
    ASSUME TypeOK, Clean, Clean', Undisturbed,
           ClientRequests \/ (\E d \in Dirs : Endpoint(d) \/ Vanish(d))
              \/ (\E h \in Hops : Break(h) \/ KernelGivesUp(h)) \/ UNCHANGED vars
    PROVE  CleanStep
<1>0. SocketsOK /\ sent \in [Dirs -> Nat] /\ faults \in Nat
    BY MaxFaultsAssumption DEF TypeOK, EndsOK, EnvOK
<1>1. relay' = relay /\ hold' = hold
    BY DEF ClientRequests, Endpoint, EndpointSends, EndpointShutsDown, EndpointReads, EndpointSeesEnd,
           Vanish, Break, KernelGivesUp, taskVars, vars
<1>2. \A p \in Procs, d \in Dirs : RelayClean(p, d)
    BY <1>1 DEF RelayClean
<1>3. ASSUME NetClean, FinClean, \A d \in Dirs : EndClean(d)
      PROVE  CleanStep
    BY <1>2, <1>3 DEF CleanStep
<1>4. ASSUME NetClean, FinClean, ended' = ended
      PROVE  CleanStep
    BY <1>3, <1>4 DEF EndClean
<1>5. CASE ClientRequests
  <2>1. /\ ~fin[1]["up"] /\ Put(1, "up", Request) /\ ended' = ended
        /\ mode = "plain" => sent["up"] < MaxSend["up"]
      BY <1>5 DEF ClientRequests, Request
  <2>2. Request \in Messages
    <3>1. REQUEST \in Messages
        BY MessageFacts DEF Control
    <3>2. CASE mode = "plain"
      <4>1. 0 < MaxSend["up"]
          BY <1>0, <2>1, <3>2, Ground, MaxSendAssumption
      <4>2. 0 + 1 \in Messages
          BY <4>1, Ground, MessageFacts
      <4>. QED  BY <3>2, <4>2 DEF Request
    <3>. QED  BY <3>1, <3>2 DEF Request
  <2>. QED  BY <1>0, <1>4, <2>1, <2>2, Ground, CleanPut
<1>6. ASSUME NEW d \in Dirs, Endpoint(d) \/ Vanish(d)
      PROVE  CleanStep
  <2>0. First(d) \in Hops /\ Last(d) \in Hops
      BY Ends
  <2>1. CASE EndpointSends(d)
    <3>1. /\ ~fin[First(d)][d] /\ Put(First(d), d, sent[d] + 1) /\ ended' = ended
          /\ sent[d] < MaxSend[d]
        BY <2>1 DEF EndpointSends
    <3>2. sent[d] + 1 \in Messages
        BY <1>0, <3>1, MessageFacts
    <3>. QED  BY <1>0, <1>4, <2>0, <3>1, <3>2, CleanPut
  <2>2. CASE EndpointShutsDown(d)
    <3>1. UNCHANGED <<conn, wire, ended>> /\ fin' = [fin EXCEPT ![First(d)][d] = TRUE]
        BY <2>2 DEF EndpointShutsDown, endVars
    <3>2. \A h \in Hops, e \in Dirs : fin'[h][e] = (fin[h][e] \/ (h = First(d) /\ e = d))
        BY <1>0, <2>0, <3>1 DEF SocketsOK
    <3>3. NetClean
        BY <3>1, <3>2 DEF NetClean
    <3>4. FinClean
        BY <3>2, Ends DEF FinClean
    <3>. QED  BY <1>4, <3>1, <3>3, <3>4
  <2>3. CASE EndpointReads(d)
      BY <1>0, <1>4, <2>0, <2>3, CleanTake DEF EndpointReads
  <2>4. CASE EndpointSeesEnd(d)
    <3>1. UNCHANGED <<conn, wire, fin>>
        BY <2>4 DEF EndpointSeesEnd
    <3>2. fin[Last(d)][d] /\ wire[Last(d)][d] = <<>>
        BY <2>0, <2>4 DEF EndpointSeesEnd, Undisturbed, Usable
    <3>3. \A e \in Dirs : e # d => ended'[e] = ended[e]
        BY <2>4 DEF EndpointSeesEnd, TypeOK, EndsOK
    <3>4. \A e \in Dirs : EndClean(e)
        BY <3>2, <3>3 DEF EndClean
    <3>. QED  BY <1>3, <3>1, <3>4 DEF NetClean, FinClean
  <2>5. CASE Vanish(d)
      BY <1>0, <2>5 DEF Vanish, Clean
  <2>. QED  BY <1>6, <2>1, <2>2, <2>3, <2>4, <2>5 DEF Endpoint
<1>7. ASSUME NEW h \in Hops, Break(h) \/ KernelGivesUp(h)
      PROVE  CleanStep
    BY <1>0, <1>7 DEF Break, KernelGivesUp, Clean, Undisturbed, Usable
<1>8. CASE UNCHANGED vars
    BY <1>4, <1>8 DEF vars, NetClean, FinClean
<1>. QED  BY <1>5, <1>6, <1>7, <1>8

\* A fault and a failure are not forgotten.
LEMMA FaultsStay ==
    ASSUME TypeOK, [Next]_vars
    PROVE  /\ faults' = 0 => faults = 0
           /\ agent = "failed" => agent' = "failed"
           /\ proxy = "failed" => proxy' = "failed"
           /\ Clean' => Clean
<1>0. faults \in Nat
    BY MaxFaultsAssumption DEF TypeOK, EnvOK
<1>1. /\ faults' \in {faults, faults + 1}
      /\ agent = "failed" => agent' = "failed"
      /\ proxy = "failed" => proxy' = "failed"
    BY SMTT(30) DEF Next, AgentHandshake, AgentReadsRequest, AgentRefusesRequest,
           AgentSeesClientEnd, AgentDialsProxy, AgentSendsInit, AgentReadsSuccess,
           AgentReadsNoSuccess, AgentReplies, AgentSendsInitData, AgentGivesUp, AgentFails,
           ProxyHandshake, ProxyAccepts, ProxyReadsInit,
           ProxyReadsNoInit, ProxyDialsDestination, ProxyCannotDial, ProxySendsFail, ProxyGivesUp,
           ProxySendsSuccess, ProxyFails, RelayTask, RelayReads, RelaySeesEnd, RelayWrites,
           RelayWriteFails, RelayCloses, ClientRequests, Endpoint, EndpointSends, EndpointShutsDown,
           EndpointReads, EndpointSeesEnd, Vanish, Break, KernelGivesUp, taskVars, endVars, envVars, vars
<1>. QED  BY <1>0, <1>1 DEF Clean

\* The proxy fails before it has connected to the destination, or because the
\* connection to the agent was disturbed.
LEMMA EarlyStep ==
    ASSUME TypeOK, HandshakeInv, CleanInv, [Next]_vars, Clean' => CleanStep
    PROVE  Early'
<1>. SUFFICES ASSUME faults' = 0, agent' # "failed"
              PROVE  conn'[1] = "open" /\ (proxy' = "failed" => conn'[3] = "none")
    BY DEF Early
<1>0. SocketsOK /\ WiresInShape /\ ClientOrder /\ AgentOrder /\ ProxyOrder /\ faults \in Nat
    BY MaxFaultsAssumption DEF TypeOK, EnvOK, HandshakeInv
<1>1. faults = 0 /\ agent # "failed" /\ (proxy = "failed" => proxy' = "failed") /\ (Clean' => Clean)
    BY <1>0, FaultsStay
<1>2. conn[1] = "open" /\ (proxy = "failed" => conn[3] = "none")
    BY <1>1 DEF CleanInv, Early
<1>3. CASE Clean'
    BY <1>2, <1>3, Ground DEF Clean, CleanStep, NetClean
<1>4. CASE proxy # "failed" /\ proxy' = "failed"
  <2>1. ProxyFails /\ ProxyHandshake
      BY <1>4, SMTT(30)
      DEF Next, AgentHandshake, AgentReadsRequest, AgentRefusesRequest,
           AgentSeesClientEnd, AgentDialsProxy, AgentSendsInit, AgentReadsSuccess,
           AgentReadsNoSuccess, AgentReplies, AgentSendsInitData, AgentGivesUp, AgentFails,
           ProxyHandshake, ProxyAccepts, ProxyReadsInit,
           ProxyReadsNoInit, ProxyDialsDestination, ProxyCannotDial, ProxySendsFail, ProxyGivesUp,
           ProxySendsSuccess, RelayTask, RelayReads, RelaySeesEnd, RelayWrites,
           RelayWriteFails, RelayCloses, ClientRequests, Endpoint, EndpointSends, EndpointShutsDown,
           EndpointReads, EndpointSeesEnd, Vanish, Break, KernelGivesUp, taskVars, endVars, envVars, vars
  <2>2. proxy = "send_success" => conn[2] # "reset"
      BY <1>1, <1>4, Ground DEF CleanInv, Clean, Undisturbed, Usable
  <2>3. conn[3] = "none"
      BY <1>0, <1>4, <2>1, <2>2
      DEF ProxyOrder, ProxyHandshake, ProxyAccepts, ProxyReadsInit, ProxyReadsNoInit,
          ProxyDialsDestination, ProxyCannotDial, ProxySendsFail, ProxyGivesUp, ProxySendsSuccess
  <2>4. Loss /\ Spared(1)
      BY <1>0, <2>1, ProxyDrops DEF ProxyFails
  <2>. QED  BY <1>2, <2>3, <2>4, Ground DEF Loss, Spared, Hurt
<1>5. CASE proxy = "failed"
  <2>1. /\ agent \notin {"reply", "send_init_data", "relay"} /\ client # "stream"
        /\ \A p \in Procs, d \in Dirs : relay[p][d] = "none"
      BY <1>0, <1>5 DEF ClientOrder, AgentOrder, ProxyOrder, Procs
  <2>. SUFFICES conn'[1] = conn[1] /\ conn'[3] = conn[3]
      BY <1>2, <1>5
  <2>2. CASE AgentHandshake
    <3>1. ~AgentFails
        BY DEF AgentFails
    <3>2. CASE AgentReadsRequest \/ AgentReadsSuccess \/ AgentReadsNoSuccess
        BY <3>1, <3>2 DEF AgentReadsRequest, AgentReadsSuccess, AgentReadsNoSuccess, Take
    <3>3. CASE AgentDialsProxy
        BY <1>0, <3>3 DEF AgentDialsProxy, SocketsOK
    <3>4. CASE AgentSendsInit
      <4>1. INIT \in Messages
          BY MessageFacts DEF Control
      <4>2. \A g \in Hops : g # 2 => Spared(g)
          BY <1>0, <3>4, <4>1, Ground, PutStep DEF AgentSendsInit
      <4>. QED  BY <4>2, Ground DEF Spared
    <3>. QED  BY <2>1, <2>2, <3>1, <3>2, <3>3, <3>4
              DEF AgentHandshake, AgentRefusesRequest, AgentSeesClientEnd, AgentGivesUp,
                  AgentReplies, AgentSendsInitData
  <2>3. ~ProxyHandshake
      BY <1>5 DEF ProxyHandshake, ProxyAccepts, ProxyReadsInit, ProxyReadsNoInit,
          ProxyDialsDestination, ProxyCannotDial, ProxySendsFail, ProxyGivesUp, ProxySendsSuccess
  <2>4. ~\E p \in Procs, d \in Dirs : RelayTask(p, d)
      BY <2>1 DEF RelayTask, RelayReads, RelaySeesEnd, RelayWrites, RelayWriteFails, RelayCloses
  <2>5. CASE ClientRequests
    <3>1. ~ReaderGone(1, "up")
      <4>. SUFFICES ASSUME ReaderGone(1, "up") PROVE FALSE
          OBVIOUS
      <4>1. PICK p \in Procs : 1 \in HopsOf(p) /\ Gone(p)
          BY DEF ReaderGone
      <4>2. p = "agent"
          BY <4>1 DEF HopsOf, Near, Far, Procs
      <4>. QED  BY <1>1, <2>1, <4>1, <4>2, Ground DEF Gone
    <3>2. conn' = conn
        BY <1>2, <2>5, <3>1 DEF ClientRequests, Put, Mute
    <3>. QED  BY <3>2
  <2>6. ASSUME NEW d \in Dirs, Endpoint(d) \/ Vanish(d)
        PROVE  conn'[1] = conn[1] /\ conn'[3] = conn[3]
    <3>1. ~EndpointSends(d)
        BY <1>2, <1>5, <2>1 DEF EndpointSends, First, Dirs
    <3>. QED  BY <1>0, <1>1, <2>6, <3>1
              DEF Endpoint, EndpointShutsDown, EndpointReads, EndpointSeesEnd, Vanish, Take
  <2>7. ASSUME NEW h \in Hops, Break(h) \/ KernelGivesUp(h)
        PROVE  conn'[1] = conn[1] /\ conn'[3] = conn[3]
    <3>1. ~Break(h)
        BY <1>0, <1>1 DEF Break
    <3>2. h # 1 /\ h # 3 /\ conn' = [conn EXCEPT ![h] = "reset"]
        BY <1>2, <1>5, <2>7, <3>1 DEF KernelGivesUp
    <3>. QED  BY <1>0, <3>2, Ground DEF SocketsOK
  <2>8. CASE UNCHANGED vars
      BY <2>8 DEF vars
  <2>. QED  BY <2>2, <2>3, <2>4, <2>5, <2>6, <2>7, <2>8 DEF Next
<1>. QED  BY <1>1, <1>3, <1>4, <1>5 DEF Clean

LEMMA CleanInvStep ==
    ASSUME TypeOK, HandshakeInv, CleanInv, [Next]_vars
    PROVE  CleanInv'
<1>1. Clean' => Clean
    BY FaultsStay
<1>2. Clean' => CleanStep
  <2>. SUFFICES ASSUME Clean' PROVE CleanStep
      OBVIOUS
  <2>1. Clean /\ Undisturbed
      BY <1>1 DEF CleanInv
  <2>. QED  BY <2>1, AgentHandshakeClean, ProxyHandshakeClean, RelayTaskClean, EndpointClean DEF Next
<1>3. Clean' => Undisturbed'
    BY <1>1, <1>2, CleanKept DEF CleanInv
<1>4. Early'
    BY <1>2, EarlyStep
<1>. QED  BY <1>3, <1>4 DEF CleanInv

-----------------------------------------------------------------------------
(* The theorems                                                            *)

LEMMA CleanInit == Init => CleanInv
<1>. SUFFICES ASSUME Init PROVE CleanInv
    OBVIOUS
<1>1. Early
    BY Ground DEF Init, Early
<1>2. /\ \A h \in Hops : Usable(h)
      /\ \A d \in Dirs : ended[d] = "no"
    BY DEF Init, Usable
<1>3. \A p \in Procs, d \in Dirs : relay[p][d] = "none" /\ ~fin[Dst(p, d)][d]
    BY Ends DEF Init
<1>4. Undisturbed
    BY <1>2, <1>3 DEF Undisturbed
<1>. QED  BY <1>1, <1>4 DEF CleanInv

\* The inductive invariant: the types, the order of the handshake, the numbering
\* of the chunks on the way, and what holds as long as nothing has gone wrong.
THEOREM Invariance == Spec => []IInv
<1>1. Init => IInv
    BY InitOK, FlowInit, CleanInit DEF IInv
<1>2. IInv /\ [Next]_vars => IInv'
  <2>. SUFFICES ASSUME IInv, [Next]_vars PROVE IInv'
      OBVIOUS
  <2>0. TypeOK /\ HandshakeInv /\ FlowInv /\ CleanInv
      BY DEF IInv
  <2>1. TypeOK'
      BY <2>0, TypeStep
  <2>2. HandshakeInv'
      BY <2>0, HandshakeStep
  <2>3. FlowInv'
      BY <2>0, FlowStep
  <2>4. CleanInv'
      BY <2>0, CleanInvStep
  <2>. QED  BY <2>1, <2>2, <2>3, <2>4 DEF IInv
<1>. QED  BY <1>1, <1>2, PTL DEF Spec

\* The state is well formed: no connection holds more than fits into it, and a
\* forward (tcp_relay, TcpHandler::exec) buffers at most one item.
THEOREM TypeCorrect == Spec => []TypeOK
<1>1. IInv => TypeOK
    BY DEF IInv
<1>. QED  BY <1>1, Invariance, PTL

\* For streams of any length: what an endpoint reads through the handshake, the
\* two relays and whatever resets, is a prefix of what the other one sent.
THEOREM Prefixes == Spec => []PrefixDelivery
<1>1. IInv => PrefixDelivery
  <2>. SUFFICES ASSUME IInv, NEW d \in Dirs
                PROVE  Len(rcvd[d]) <= sent[d] /\ \A i \in 1..Len(rcvd[d]) : rcvd[d][i] = i
      BY DEF PrefixDelivery
  <2>1. /\ TypeOK /\ FlowOf(d) /\ Last(d) \in Hops
      BY Ends DEF IInv, FlowInv, Dirs
  <2>2. rcvd[d] \in Wires /\ wire[Last(d)][d] \in Wires /\ sent[d] \in Nat
      BY <2>1, FlowTypes
  <2>3. Len(rcvd[d]) \in Nat /\ Dat(wire[Last(d)][d]) \in Nat
      BY <2>2, Sizes
  <2>4. /\ \A i \in 1..Len(rcvd[d]) : rcvd[d][i] = i
        /\ Len(rcvd[d]) + Dat(wire[Last(d)][d]) <= sent[d]
      BY <2>1 DEF FlowOf, Flow
  <2>. QED  BY <2>2, <2>3, <2>4
<1>. QED  BY <1>1, Invariance, PTL

\* The client is told that the tunnel is established only after the proxy has
\* connected to the destination (exec sends Success after init_dst_connection,
\* the agent replies after it has read Success).
THEOREM Established == Spec => []EstablishedMeansConnected
<1>1. IInv => EstablishedMeansConnected
    BY DEF IInv, HandshakeInv, ClientOrder, AgentOrder, ProxyOrder, EstablishedMeansConnected
<1>. QED  BY <1>1, Invariance, PTL

\* A relay task never meets a message of the handshake, which its map_while
\* would take for the end of the stream.
THEOREM OnlyData == Spec => []RelaySeesOnlyData
<1>1. IInv => RelaySeesOnlyData
  <2>. SUFFICES ASSUME IInv, NEW p \in Procs, NEW d \in Dirs, relay[p][d] = "forward",
                       NEW i \in 1..Len(wire[Src(p, d)][d])
                PROVE  IsData(wire[Src(p, d)][d][i])
      BY DEF RelaySeesOnlyData
  <2>. DEFINE w == wire[Src(p, d)][d]
  <2>1. TypeOK /\ HandshakeInv /\ Src(p, d) \in Hops
      BY Ends DEF IInv
  <2>2. Ctl(w) = 0 /\ Shape(w) /\ w \in Seq(Messages)
      BY <2>1, RelayReadsData DEF HandshakeInv, WiresInShape, TypeOK, SocketsOK
  <2>. HIDE DEF w
  <2>3. i \in 1..Len(w)
      BY DEF w
  <2>4. w # <<>>
      BY <2>2, <2>3, EmptySeq
  <2>5. w[1] > 0
      BY <2>2, <2>4, TailFacts
  <2>6. Len(w) \in Nat
      BY <2>2, LenProperties
  <2>7. CASE i = 1
      BY <2>5, <2>7 DEF w, IsData
  <2>8. CASE i # 1
      BY <2>2, <2>3, <2>6, <2>8 DEF w, IsData, Shape
  <2>. QED  BY <2>7, <2>8
<1>. QED  BY <1>1, Invariance, PTL

\* An end that reaches the receiver of an undisturbed tunnel has come all the
\* way from the sender, behind everything that was sent.
LEMMA CompleteEnd ==
    ASSUME IInv, agent # "failed", proxy # "failed", faults = 0, NEW d \in Dirs, fin[Last(d)][d],
           wire[Last(d)][d] = <<>>
    PROVE  agent = "relay" /\ fin[First(d)][d] /\ Len(rcvd[d]) = sent[d]
<1>1. TypeOK /\ HandshakeInv /\ FlowOf(d) /\ Clean /\ Undisturbed
    BY DEF IInv, FlowInv, CleanInv, Clean, Dirs
<1>2. relay[Lower(d)][d] = "done"
  <2>1. fin[Dst(Lower(d), d)][d]
      BY Sides
  <2>. QED  BY <1>1, <2>1, Sides DEF Undisturbed
<1>3. fin[2][d] /\ wire[2][d] = <<>> /\ hold[Lower(d)][d] = <<>>
  <2>1. fin[Src(Lower(d), d)][d] /\ wire[Src(Lower(d), d)][d] = <<>> /\ hold[Lower(d)][d] = <<>>
      BY <1>1, <1>2, Sides DEF Undisturbed
  <2>. QED  BY <2>1, Sides
<1>4. relay[Upper(d)][d] = "done"
  <2>1. fin[Dst(Upper(d), d)][d]
      BY <1>3, Sides
  <2>. QED  BY <1>1, <2>1, Sides DEF Undisturbed
<1>5. fin[First(d)][d] /\ wire[First(d)][d] = <<>> /\ hold[Upper(d)][d] = <<>>
  <2>1. fin[Src(Upper(d), d)][d] /\ wire[Src(Upper(d), d)][d] = <<>> /\ hold[Upper(d)][d] = <<>>
      BY <1>1, <1>4, Sides DEF Undisturbed
  <2>. QED  BY <2>1, Sides
<1>6. agent = "relay"
  <2>1. relay["agent"][d] # "none"
      BY <1>2, <1>4 DEF Upper, Lower, Dirs
  <2>. QED  BY <1>1, <2>1, Ground, RelayReadsData
<1>7. InHand(d) = <<>>
    BY <1>1, <1>5, <1>6 DEF InHand, HandshakeInv, AgentOrder
<1>8. Reach(d) = 3
  <2>1. Alive(Lower(d), d) /\ Alive(Upper(d), d)
      BY <1>1 DEF Alive
  <2>2. Usable(First(d)) /\ Usable(2) /\ Usable(Last(d))
      BY <1>1, Sides DEF Undisturbed
  <2>. QED  BY <2>1, <2>2 DEF Reach
<1>9. Flow(rcvd[d], <<>>, <<>>, <<>>, <<>>, <<>>, 3, sent[d])
    BY <1>1, <1>3, <1>5, <1>7, <1>8 DEF FlowOf
<1>10. Len(rcvd[d]) \in Nat /\ Len(<<>>) = 0 /\ Dat(<<>>) = 0
    BY <1>1, FlowTypes, Sizes, EmptyWire
<1>11. Len(rcvd[d]) = sent[d]
    BY <1>9, <1>10 DEF Flow
<1>. QED  BY <1>5, <1>6, <1>11

\* Without a fault an established tunnel is never reset, and whoever sees the
\* end of a direction has read all of it, whatever the other direction does:
\* closing one relay's sink takes nothing from the other.
THEOREM CleanEnds == Spec => []CleanEndIsComplete
<1>1. IInv => CleanEndIsComplete
  <2>. SUFFICES ASSUME IInv, agent = "relay", faults = 0
                PROVE  /\ \A h \in Hops : conn[h] # "reset"
                       /\ \A d \in Dirs : ended[d] # "no" =>
                             fin[First(d)][d] /\ Len(rcvd[d]) = sent[d]
      BY DEF CleanEndIsComplete
  <2>1. proxy = "relay" /\ Undisturbed
      BY DEF IInv, HandshakeInv, AgentOrder, CleanInv, Clean
  <2>2. \A h \in Hops : conn[h] # "reset"
      BY <2>1 DEF Undisturbed, Usable
  <2>3. ASSUME NEW d \in Dirs, ended[d] # "no"
        PROVE  fin[First(d)][d] /\ Len(rcvd[d]) = sent[d]
    <3>1. fin[Last(d)][d] /\ wire[Last(d)][d] = <<>>
        BY <2>1, <2>3 DEF Undisturbed
    <3>. QED  BY <2>1, <3>1, CompleteEnd
  <2>. QED  BY <2>2, <2>3
<1>. QED  BY <1>1, Invariance, PTL

-----------------------------------------------------------------------------
(* The tunnel implements its service                                       *)

\* What a step leaves alone that the service sees.
ShutSame   == \A d \in Dirs : fin'[First(d)][d] = fin[First(d)][d]
PhaseSame  == agent' = agent \/ (agent' \notin {"relay", "failed"} /\ agent \notin {"relay", "failed"})
StreamSame == rcvd' = rcvd /\ sent' = sent /\ ShutSame
Unseen     == PhaseSame /\ StreamSame /\ ended' = ended /\ faults' = faults

LEMMA UnseenStutters ==
    ASSUME Unseen
    PROVE  UNCHANGED Service!vars
<1>1. [d \in Dirs |-> fin[First(d)][d]]' = [d \in Dirs |-> fin[First(d)][d]]
    BY DEF Unseen, StreamSame, ShutSame
<1>. QED  BY <1>1 DEF Unseen, PhaseSame, StreamSame, Service!vars

LEMMA Decides ==
    ASSUME agent \notin {"relay", "failed"}, agent' \in {"relay", "failed"}, StreamSame,
           ended' = ended, faults' = faults
    PROVE  Service!Decide
<1>1. [d \in Dirs |-> fin[First(d)][d]]' = [d \in Dirs |-> fin[First(d)][d]]
    BY DEF StreamSame, ShutSame
<1>. QED  BY <1>1 DEF StreamSame, Service!Decide

\* Only the endpoints shut their own directions down.
LEMMA ShutByEndpoints ==
    ASSUME SocketsOK, WiresInShape,
           \/ fin' = fin
           \/ \E p \in Procs : DropSockets(p)
           \/ \E p \in Procs, d \in Dirs : ShutDown(Dst(p, d), d)
           \/ \E d \in Dirs : Vanish(d)
    PROVE  ShutSame
<1>. SUFFICES ASSUME NEW e \in Dirs PROVE fin'[First(e)][e] = fin[First(e)][e]
    BY DEF ShutSame
<1>0. First(e) \in Hops /\ fin \in [Hops -> [Dirs -> BOOLEAN]] /\ fin[First(e)][e] \in BOOLEAN
    BY Ends, SMTT(30) DEF SocketsOK
<1>1. CASE fin' = fin
    BY <1>1
<1>2. ASSUME NEW p \in Procs, DropSockets(p)
      PROVE  fin'[First(e)][e] = fin[First(e)][e]
  <2>1. ~(First(e) \in HopsOf(p) /\ e = Outgoing(p, First(e)))
      BY DEF Procs, Dirs, Near, Far, Opp, First, HopsOf, Incoming, Outgoing
  <2>. QED  BY <1>0, <1>2, <2>1, DropStep
<1>3. ASSUME NEW p \in Procs, NEW d \in Dirs, ShutDown(Dst(p, d), d)
      PROVE  fin'[First(e)][e] = fin[First(e)][e]
  <2>1. Dst(p, d) \in Hops /\ ~(First(e) = Dst(p, d) /\ e = d)
      BY Ends
  <2>. QED  BY <1>0, <1>3, <2>1, ShutDownStep
<1>4. ASSUME NEW d \in Dirs, Vanish(d)
      PROVE  fin'[First(e)][e] = fin[First(e)][e]
  <2>1. fin' = [fin EXCEPT ![First(d)][Opp(d)] = FALSE]
      BY <1>4 DEF Vanish
  <2>2. ~(First(e) = First(d) /\ e = Opp(d))
      BY DEF First, Opp, Dirs
  <2>. QED  BY <1>0, <2>1, <2>2
<1>. QED  BY <1>1, <1>2, <1>3, <1>4

\* The steps of the two processes: the service sees at most the decision.
LEMMA ProcessService ==
    ASSUME TypeOK, HandshakeInv, AgentHandshake \/ ProxyHandshake \/ \E p \in Procs, d \in Dirs : RelayTask(p, d)
    PROVE  Unseen \/ Service!Decide
<1>0. SocketsOK /\ WiresInShape
    BY DEF TypeOK, HandshakeInv
<1>1. CASE AgentHandshake
  <2>1. /\ rcvd' = rcvd /\ sent' = sent /\ ended' = ended /\ faults' = faults
        /\ agent \notin {"relay", "failed"}
      BY <1>1 DEF AgentHandshake, AgentReadsRequest, AgentRefusesRequest,
           AgentSeesClientEnd, AgentDialsProxy, AgentSendsInit, AgentReadsSuccess,
           AgentReadsNoSuccess, AgentReplies, AgentSendsInitData, AgentGivesUp, endVars, envVars
  <2>2. fin' = fin \/ DropSockets("agent")
      BY <1>1 DEF AgentHandshake, AgentReadsRequest, AgentRefusesRequest,
           AgentSeesClientEnd, AgentDialsProxy, AgentSendsInit, AgentReadsSuccess,
           AgentReadsNoSuccess, AgentReplies, AgentSendsInitData, AgentGivesUp, AgentFails, Put, Take
  <2>3. ShutSame
      BY <1>0, <2>2, Ground, ShutByEndpoints
  <2>4. CASE agent' \in {"relay", "failed"}
      BY <2>1, <2>3, <2>4, Decides DEF StreamSame
  <2>5. CASE agent' \notin {"relay", "failed"}
      BY <2>1, <2>3, <2>5 DEF Unseen, PhaseSame, StreamSame
  <2>. QED  BY <2>4, <2>5
<1>2. CASE ProxyHandshake
  <2>1. /\ rcvd' = rcvd /\ sent' = sent /\ ended' = ended /\ faults' = faults /\ agent' = agent
      BY <1>2 DEF ProxyHandshake, ProxyAccepts, ProxyReadsInit, ProxyReadsNoInit,
           ProxyDialsDestination, ProxyCannotDial, ProxySendsFail, ProxyGivesUp, ProxySendsSuccess,
           ProxyFails, endVars, envVars
  <2>2. fin' = fin \/ DropSockets("proxy")
      BY <1>2 DEF ProxyHandshake, ProxyAccepts, ProxyReadsInit, ProxyReadsNoInit,
           ProxyDialsDestination, ProxyCannotDial, ProxySendsFail, ProxyGivesUp, ProxySendsSuccess,
           ProxyFails, Put, Take
  <2>3. ShutSame
      BY <1>0, <2>2, Ground, ShutByEndpoints
  <2>. QED  BY <2>1, <2>3 DEF Unseen, PhaseSame, StreamSame
<1>3. ASSUME NEW p \in Procs, NEW d \in Dirs, RelayTask(p, d)
      PROVE  Unseen
  <2>1. /\ rcvd' = rcvd /\ sent' = sent /\ ended' = ended /\ faults' = faults /\ agent' = agent
        /\ fin' = fin \/ DropSockets(p) \/ ShutDown(Dst(p, d), d)
      BY <1>3 DEF RelayTask, RelayReads, RelaySeesEnd, RelayWrites, RelayWriteFails, RelayCloses,
           Put, Take, endVars, envVars
  <2>2. ShutSame
      BY <1>0, <2>1, ShutByEndpoints
  <2>. QED  BY <2>1, <2>2 DEF Unseen, PhaseSame, StreamSame
<1>. QED  BY <1>1, <1>2, <1>3

LEMMA SendService ==
    ASSUME TypeOK, NEW d \in Dirs, ~fin[First(d)][d], fin' = fin, sent' = [sent EXCEPT ![d] = @ + 1],
           UNCHANGED <<agent, rcvd, ended, faults>>
    PROVE  Service!Send(d)
<1>1. [e \in Dirs |-> fin[First(e)][e]]' = [e \in Dirs |-> fin[First(e)][e]]
    OBVIOUS
<1>2. ~([e \in Dirs |-> fin[First(e)][e]])[d]
    OBVIOUS
<1>. QED  BY <1>1, <1>2 DEF Service!Send

LEMMA ReceiveService ==
    ASSUME IInv, IInv', [Next]_vars, NEW d \in Dirs, EndpointReads(d)
    PROVE  Unseen \/ Service!Deliver(d)
<1>0. /\ TypeOK /\ HandshakeInv /\ FlowOf(d) /\ SocketsOK /\ WiresInShape /\ Last(d) \in Hops
      /\ Shrinks(d) /\ rcvd \in [Dirs -> Seq(Messages)]
  <2>1. TypeOK /\ HandshakeInv /\ FlowOf(d)
      BY DEF IInv, FlowInv, Dirs
  <2>2. Shrinks(d)
      BY <2>1, AliveShrinks
  <2>. QED  BY <2>1, <2>2, Ends DEF TypeOK, EndsOK, HandshakeInv
<1>1. /\ ended[d] = "no" /\ Take(Last(d), d) /\ UNCHANGED <<agent, sent, ended, faults>>
      /\ rcvd' = IF IsData(Head(wire[Last(d)][d]))
                 THEN [rcvd EXCEPT ![d] = Append(@, Head(wire[Last(d)][d]))] ELSE rcvd
    BY DEF EndpointReads, taskVars, envVars
<1>2. fin' = fin /\ wire[Last(d)][d] # <<>>
    BY <1>1 DEF Take
<1>3. CASE ~IsData(Head(wire[Last(d)][d]))
    BY <1>1, <1>2, <1>3 DEF Unseen, PhaseSame, StreamSame, ShutSame
<1>4. CASE IsData(Head(wire[Last(d)][d]))
  <2>1. Ctl(wire[Last(d)][d]) = 0
      BY <1>0, <1>1, <1>4, TakeFacts DEF IsData
  <2>2. Head(wire[Last(d)][d]) = Len(rcvd[d]) + 1 /\ Len(rcvd[d]) < sent[d]
      BY <1>0, <1>1, <2>1, FlowOfReceive
  <2>3. rcvd' = [rcvd EXCEPT ![d] = Append(@, Len(@) + 1)]
      BY <1>0, <1>1, <1>4, <2>2
  <2>4. agent = "relay"
    <3>1. agent # "relay" => wire[1]["down"] = <<>> /\ wire[3]["up"] = <<>>
        BY <1>0 DEF HandshakeInv, AgentOrder
    <3>. QED  BY <1>2, <3>1 DEF Last, Dirs
  <2>5. [e \in Dirs |-> fin[First(e)][e]]' = [e \in Dirs |-> fin[First(e)][e]]
      BY <1>2
  <2>6. Service!Deliver(d)
      BY <1>1, <2>2, <2>3, <2>4, <2>5 DEF Service!Deliver
  <2>. QED  BY <2>6
<1>. QED  BY <1>3, <1>4

\* An endpoint sees the end of its input: a complete one, unless the tunnel was
\* refused or hit by a fault.
LEMMA EndService ==
    ASSUME IInv, NEW d \in Dirs, EndpointSeesEnd(d)
    PROVE  Service!EndComplete(d) \/ Service!EndAbrupt(d)
<1>0. /\ TypeOK /\ HandshakeInv /\ CleanInv /\ WiresInShape /\ AgentOrder /\ ProxyOrder
      /\ Last(d) \in Hops /\ faults \in Nat
    BY Ends, MaxFaultsAssumption DEF IInv, HandshakeInv, TypeOK, EnvOK
<1>1. /\ ended[d] = "no" /\ wire[Last(d)][d] = <<>> /\ UNCHANGED <<agent, fin, sent, rcvd, faults>>
      /\ \/ fin[Last(d)][d] /\ ended' = [ended EXCEPT ![d] = "fin"]
         \/ conn[Last(d)] = "reset" /\ ended' = [ended EXCEPT ![d] = "reset"]
    BY DEF EndpointSeesEnd, taskVars, envVars
<1>2. [e \in Dirs |-> fin[First(e)][e]]' = [e \in Dirs |-> fin[First(e)][e]]
    BY <1>1
<1>3. CASE agent = "failed" \/ faults > 0
  <2>1. \E how \in {"fin", "reset"} : ended' = [ended EXCEPT ![d] = how]
      BY <1>1
  <2>2. Service!EndAbrupt(d)
      BY <1>1, <1>2, <1>3, <2>1 DEF Service!EndAbrupt
  <2>. QED  BY <2>2
<1>4. CASE agent # "failed" /\ faults = 0 /\ proxy # "failed"
  <2>1. Undisturbed
      BY <1>0, <1>4 DEF CleanInv, Clean
  <2>2. fin[Last(d)][d] /\ ended' = [ended EXCEPT ![d] = "fin"]
      BY <1>0, <1>1, <2>1 DEF Undisturbed, Usable
  <2>3. agent = "relay" /\ fin[First(d)][d] /\ Len(rcvd[d]) = sent[d]
      BY <1>1, <1>4, <2>2, CompleteEnd
  <2>4. ([e \in Dirs |-> fin[First(e)][e]])[d]
      BY <2>3
  <2>5. Service!EndComplete(d)
      BY <1>1, <1>2, <2>2, <2>3, <2>4 DEF Service!EndComplete
  <2>. QED  BY <2>5
<1>5. CASE agent # "failed" /\ faults = 0 /\ proxy = "failed"
  <2>1. conn[1] = "open" /\ conn[3] = "none" /\ agent # "relay"
      BY <1>0, <1>5 DEF CleanInv, Early, AgentOrder
  <2>2. ~fin[1]["down"] /\ ~fin[3]["up"]
      BY <1>0, <1>5, <2>1, Ground DEF AgentOrder, WiresInShape
  <2>. QED  BY <1>1, <2>1, <2>2 DEF Last, Dirs
<1>. QED  BY <1>0, <1>3, <1>4, <1>5

LEMMA ServiceStep ==
    ASSUME IInv, IInv', [Next]_vars
    PROVE  [Service!Next]_Service!vars
<1>0. TypeOK /\ HandshakeInv /\ SocketsOK /\ WiresInShape /\ ClientOrder /\ faults \in Nat
    BY MaxFaultsAssumption DEF IInv, HandshakeInv, TypeOK, EnvOK
<1>1. Unseen => UNCHANGED Service!vars
    BY UnseenStutters
<1>2. \A d \in Dirs : Service!Send(d) \/ Service!ShutDown(d) \/ Service!Deliver(d)
                      \/ Service!EndComplete(d) \/ Service!EndAbrupt(d) => Service!Next
    BY DEF Service!Next, Service!Dirs, Dirs
<1>3. CASE AgentHandshake \/ ProxyHandshake \/ \E p \in Procs, d \in Dirs : RelayTask(p, d)
    BY <1>0, <1>1, <1>3, ProcessService DEF Service!Next
<1>4. CASE ClientRequests
  <2>1. /\ ~fin[1]["up"] /\ fin' = fin /\ UNCHANGED <<agent, rcvd, ended, faults>> /\ sent["up"] = 0
        /\ sent' = IF mode = "plain" THEN [sent EXCEPT !["up"] = 1] ELSE sent
      BY <1>0, <1>4 DEF ClientRequests, Put, ClientOrder, taskVars, envVars
  <2>2. CASE mode = "plain"
    <3>1. sent' = [sent EXCEPT !["up"] = @ + 1] /\ ~fin[First("up")]["up"]
        BY <2>1, <2>2 DEF First
    <3>2. Service!Send("up")
        BY <1>0, <2>1, <3>1, Ground, SendService
    <3>. QED  BY <1>2, <3>2, Ground
  <2>3. CASE mode # "plain"
    <3>1. Unseen
        BY <2>1, <2>3 DEF Unseen, PhaseSame, StreamSame, ShutSame
    <3>. QED  BY <1>1, <3>1
  <2>. QED  BY <2>2, <2>3
<1>5. ASSUME NEW d \in Dirs, Endpoint(d)
      PROVE  [Service!Next]_Service!vars
  <2>1. CASE EndpointSends(d)
    <3>1. /\ ~fin[First(d)][d] /\ fin' = fin /\ UNCHANGED <<agent, rcvd, ended, faults>>
          /\ sent' = [sent EXCEPT ![d] = @ + 1]
        BY <2>1 DEF EndpointSends, Put, taskVars, envVars
    <3>2. Service!Send(d)
        BY <1>0, <3>1, SendService
    <3>. QED  BY <1>2, <3>2
  <2>2. CASE EndpointShutsDown(d)
    <3>1. /\ ~fin[First(d)][d] /\ fin' = [fin EXCEPT ![First(d)][d] = TRUE]
          /\ UNCHANGED <<agent, rcvd, sent, ended, faults>>
        BY <2>2 DEF EndpointShutsDown, taskVars, envVars, endVars
    <3>2. \A e \in Dirs : fin'[First(e)][e] = IF e = d THEN TRUE ELSE fin[First(e)][e]
      <4>1. \A e \in Dirs : First(e) \in Hops /\ (e # d => First(e) # First(d))
          BY Ends DEF First, Dirs
      <4>. QED  BY <1>0, <3>1, <4>1 DEF SocketsOK
    <3>3. [e \in Dirs |-> fin[First(e)][e]]' = [[e \in Dirs |-> fin[First(e)][e]] EXCEPT ![d] = TRUE]
        BY <3>2
    <3>4. ~([e \in Dirs |-> fin[First(e)][e]])[d]
        BY <3>1
    <3>5. Service!ShutDown(d)
        BY <3>1, <3>3, <3>4 DEF Service!ShutDown
    <3>. QED  BY <1>2, <3>5
  <2>3. CASE EndpointReads(d)
      BY <1>1, <1>2, <2>3, ReceiveService
  <2>4. CASE EndpointSeesEnd(d)
      BY <1>2, <2>4, EndService
  <2>. QED  BY <1>5, <2>1, <2>2, <2>3, <2>4 DEF Endpoint
<1>6. CASE (\E d \in Dirs : Vanish(d)) \/ (\E h \in Hops : Break(h))
  <2>1. /\ faults' = faults + 1 /\ UNCHANGED <<agent, rcvd, sent, ended>>
        /\ fin' = fin \/ \E d \in Dirs : Vanish(d)
      BY <1>6 DEF Vanish, Break, taskVars, endVars
  <2>2. ShutSame
      BY <1>0, <2>1, ShutByEndpoints
  <2>3. [e \in Dirs |-> fin[First(e)][e]]' = [e \in Dirs |-> fin[First(e)][e]]
      BY <2>2 DEF ShutSame
  <2>4. faults' > 0
      BY <1>0, <2>1
  <2>5. Service!BreakDown
      BY <2>1, <2>3, <2>4 DEF Service!BreakDown
  <2>. QED  BY <2>5 DEF Service!Next
<1>7. CASE (\E h \in Hops : KernelGivesUp(h)) \/ UNCHANGED vars
  <2>1. Unseen
      BY <1>7 DEF KernelGivesUp, Unseen, PhaseSame, StreamSame, ShutSame, taskVars, endVars, envVars, vars
  <2>. QED  BY <1>1, <2>1
<1>. QED  BY <1>3, <1>4, <1>5, <1>6, <1>7 DEF Next

\* The tunnel implements TunnelService: handshake, relays, resets and vanished
\* peers show an endpoint nothing but a prefix of its stream, an end that is
\* complete if nothing went wrong, and a refusal that delivered nothing.
THEOREM Refinement == Spec => ServiceSpec
<1>1. Init => Service!Init
  <2>. SUFFICES ASSUME Init PROVE Service!Init
      OBVIOUS
  <2>1. [e \in Dirs |-> fin[First(e)][e]] = [e \in Dirs |-> FALSE]
      BY Ends DEF Init
  <2>2. /\ agent = "request" /\ sent = [d \in Dirs |-> 0] /\ rcvd = [d \in Dirs |-> <<>>]
        /\ ended = [d \in Dirs |-> "no"] /\ (faults > 0) = FALSE
      BY DEF Init
  <2>3. Service!Dirs = Dirs
      BY DEF Service!Dirs, Dirs
  <2>. QED  BY <2>1, <2>2, <2>3 DEF Service!Init
<1>2. IInv /\ IInv' /\ [Next]_vars => [Service!Next]_Service!vars
    BY ServiceStep
<1>. QED  BY <1>1, <1>2, Invariance, PTL DEF Spec, ServiceSpec, Service!Spec

=============================================================================
