---------------------------- MODULE TcpTunnelInv ----------------------------
(***************************************************************************)
(* The inductive invariant of TcpTunnel, and the proof of its first part:  *)
(* the types and the order of the handshake.  TcpTunnelProofs has the rest *)
(* and the theorems.                                                       *)
(***************************************************************************)
EXTENDS TcpTunnel, SequenceTheorems, TLAPS

(***************************************************************************)
(* What a wire holds: at most one message of the handshake, at its head,   *)
(* and behind it chunks.                                                   *)
(***************************************************************************)
Ctl(w)   == IF w # <<>> /\ w[1] < 0 THEN 1 ELSE 0
Dat(w)   == Len(w) - Ctl(w)
Shape(w) == \A i \in 2..Len(w) : w[i] > 0

\* The chunks of w are b + 1, b + 2, and so on.
Run(w, b) == \A i \in 1..Len(w) : i > Ctl(w) => w[i] = b + (i - Ctl(w))

\* v is what is left of w when a connection is reset.
Shorter(v, w) ==
    /\ v \in Seq(Messages) /\ Len(v) <= Len(w)
    /\ \A i \in 1..Len(v) : v[i] = w[i]

-----------------------------------------------------------------------------
(* The order of the handshake                                              *)

WiresInShape ==
    /\ \A h \in Hops, d \in Dirs :
          /\ Shape(wire[h][d])
          /\ conn[h] = "none" => wire[h][d] = <<>> /\ ~fin[h][d]
    /\ \A d \in Dirs : Ctl(wire[3][d]) = 0
    /\ \A p \in Procs, d \in Dirs : Ctl(hold[p][d]) = 0
    /\ Ctl(init_data) = 0

\* What the client sends before it is told that the tunnel is established.
Request == IF mode = "plain" THEN 1 ELSE REQUEST

ClientOrder ==
    /\ client = "request" =>
          agent \in {"request", "failed"} /\ wire[1]["up"] = <<>> /\ sent["up"] = 0
    /\ client = "stream" => agent = "relay"
    /\ agent = "request" =>
          wire[1]["up"] = <<>> \/ (Len(wire[1]["up"]) = 1 /\ wire[1]["up"][1] = Request)
    /\ agent # "request" => Ctl(wire[1]["up"]) = 0
    /\ agent = "failed" => wire[1]["up"] = <<>> /\ wire[2]["down"] = <<>>

\* The agent relays only after the proxy does, and starts with nothing in hand.
AgentOrder ==
    /\ agent \in {"request", "dial"} => conn[2] = "none"
    /\ agent \in {"request", "dial", "send_init"} => wire[2]["up"] = <<>>
    /\ agent \in {"reply", "send_init_data", "relay"} => proxy = "relay"
    /\ agent \in {"request", "reply", "relay"} \/ mode = "connect" => init_data = <<>>
    /\ agent = "send_init_data" => init_data # <<>>
    /\ mode = "plain" /\ agent \in {"dial", "send_init", "await_init"} => init_data # <<>>
    /\ agent = "relay" => \A d \in Dirs : relay["agent"][d] # "none"
    /\ agent # "relay" =>
          /\ \A d \in Dirs : relay["agent"][d] = "none" /\ hold["agent"][d] = <<>>
          /\ wire[1]["down"] = <<>> /\ Dat(wire[2]["up"]) = 0
          /\ hold["proxy"]["up"] = <<>> /\ wire[3]["up"] = <<>>
    /\ agent \notin {"relay", "failed"} => ~fin[1]["down"] /\ ~fin[2]["up"]

\* The proxy serves a request that the agent waits for.
ProxyOrder ==
    /\ conn[2] = "none" => proxy = "idle"
    /\ agent = "send_init" => proxy \in {"idle", "first_message", "failed"}
    /\ agent = "give_up" => proxy \notin {"idle", "first_message"}
    /\ proxy \in {"dial", "send_fail", "send_success"} => agent \in {"await_init", "failed"}
    /\ proxy \in {"idle", "first_message", "dial", "send_fail", "send_success"} =>
          wire[2]["down"] = <<>>
    /\ proxy \in {"idle", "first_message", "dial", "send_fail", "give_up"} => conn[3] = "none"
    /\ proxy \in {"send_success", "relay"} => conn[3] # "none"
    /\ proxy \notin {"idle", "first_message"} => Ctl(wire[2]["up"]) = 0
    /\ proxy = "relay" => \A d \in Dirs : relay["proxy"][d] # "none"
    /\ proxy # "relay" =>
          /\ \A d \in Dirs : relay["proxy"][d] = "none" /\ hold["proxy"][d] = <<>>
          /\ wire[3]["up"] = <<>> /\ Dat(wire[2]["down"]) = 0
    /\ proxy = "failed" => wire[2]["up"] = <<>> /\ wire[3]["down"] = <<>>

\* The proxy's answer is the first thing the agent reads.
AnswerOrder ==
    /\ agent # "await_init" => Ctl(wire[2]["down"]) = 0
    /\ agent = "await_init" /\ wire[2]["down"] # <<>> =>
          /\ Ctl(wire[2]["down"]) = 1
          /\ wire[2]["down"][1] = SUCCESS => proxy = "relay"
    /\ agent = "await_init" /\ proxy = "relay" /\ conn[2] = "open" => wire[2]["down"] # <<>>

HandshakeInv == WiresInShape /\ ClientOrder /\ AgentOrder /\ ProxyOrder /\ AnswerOrder

-----------------------------------------------------------------------------
(* The flow of the chunks                                                  *)

\* Nothing has gone wrong.
Clean == faults = 0 /\ agent # "failed" /\ proxy # "failed"

Usable(h) == conn[h] \in {"none", "open"}

\* What enters the relay of p will leave it.
Alive(p, d) ==
    \/ relay[p][d] \in {"none", "forward"} /\ ~(p = "agent" /\ agent = "failed")
                                           /\ ~(p = "proxy" /\ proxy = "failed")
    \/ Clean

Upper(d) == IF d = "up" THEN "agent" ELSE "proxy"   \* the first relay on the way
Lower(d) == IF d = "up" THEN "proxy" ELSE "agent"   \* the second one

\* What the first relay has in hand.
InHand(d) == IF d = "up" /\ init_data # <<>> THEN init_data ELSE hold[Upper(d)][d]

\* How far back from the receiver the chunks can still pass: to the last wire
\* only, through the second relay to the middle wire, through the first relay to
\* the first wire, or to the sender.
Reach(d) ==
    IF ~(Usable(Last(d)) /\ Alive(Lower(d), d)) THEN 0
    ELSE IF ~(Usable(2) /\ Alive(Upper(d), d)) THEN 1
    ELSE IF ~Usable(First(d)) THEN 2 ELSE 3

\* The chunks on the way are numbered through as far back as they can pass: rc
\* was received, then come the last wire, the second relay, the middle wire, the
\* first relay and the first wire; n were sent.
Flow(rc, wl, hl, wm, hu, wf, c, n) ==
    LET n1 == Len(rc) + Dat(wl)
        n2 == n1 + Len(hl)
        n3 == n2 + Dat(wm)
        n4 == n3 + Len(hu)
        n5 == n4 + Dat(wf)
    IN  /\ \A i \in 1..Len(rc) : rc[i] = i
        /\ Run(wl, Len(rc)) /\ n1 <= n
        /\ c >= 1 => /\ hl # <<>> => hl[1] = n1 + 1
                     /\ Run(wm, n2) /\ n3 <= n
        /\ c >= 2 => /\ hu # <<>> => hu[1] = n3 + 1
                     /\ Run(wf, n4) /\ n5 <= n
        /\ c = 3 => n5 = n

FlowOf(d) ==
    Flow(rcvd[d], wire[Last(d)][d], hold[Lower(d)][d], wire[2][d], InHand(d), wire[First(d)][d],
         Reach(d), sent[d])

FlowInv == FlowOf("up") /\ FlowOf("down")

-----------------------------------------------------------------------------
(* The undisturbed tunnel                                                  *)

\* As long as the agent has not failed, its client's connection holds, and a
\* proxy that failed had not reached the destination.
Early ==
    faults = 0 /\ agent # "failed" =>
        conn[1] = "open" /\ (proxy = "failed" => conn[3] = "none")

\* Nothing is reset, a relay ends only behind the end of its input, and nothing
\* is written behind an end.
Undisturbed ==
    /\ \A h \in Hops : Usable(h)
    /\ \A p \in Procs, d \in Dirs :
          /\ relay[p][d] \in {"close", "done"} =>
                fin[Src(p, d)][d] /\ wire[Src(p, d)][d] = <<>> /\ hold[p][d] = <<>>
          /\ fin[Dst(p, d)][d] => relay[p][d] = "done"
    /\ \A d \in Dirs : ended[d] # "no" => fin[Last(d)][d] /\ wire[Last(d)][d] = <<>>

CleanInv == Early /\ (Clean => Undisturbed)

IInv == TypeOK /\ HandshakeInv /\ FlowInv /\ CleanInv

-----------------------------------------------------------------------------
(* Wires                                                                   *)

\* A message is an integer other than zero.
LEMMA MessageFacts ==
    /\ \A m \in Messages : m \in Int /\ m # 0
    /\ Control \subseteq Messages
    /\ \A m \in Control : m < 0
    /\ \A d \in Dirs : \A n \in Nat : n < MaxSend[d] => n + 1 \in Messages
<1>1. MaxSend["up"] \in Nat /\ MaxSend["down"] \in Nat
    BY MaxSendAssumption DEF Dirs
<1>. QED
    BY <1>1 DEF Messages, Control, Chunks, REQUEST, ESTABLISHED, INIT, SUCCESS, FAIL, Dirs

LEMMA EmptyWire ==
    /\ <<>> \in Seq(Messages) /\ Shape(<<>>) /\ Ctl(<<>>) = 0 /\ Dat(<<>>) = 0
    /\ \A b : Run(<<>>, b)
BY DEF Shape, Ctl, Dat, Run

LEMMA WireFacts ==
    ASSUME NEW w \in Seq(Messages)
    PROVE  /\ Ctl(w) \in {0, 1} /\ Dat(w) \in Nat
           /\ Ctl(w) <= Len(w) /\ Len(w) = Ctl(w) + Dat(w)
           /\ Dat(w) = 0 /\ Ctl(w) = 0 <=> w = <<>>
<1>1. Len(w) \in Nat /\ (w = <<>> <=> Len(w) = 0)
    BY EmptySeq
<1>2. w # <<>> => w[1] \in Int
    BY <1>1, MessageFacts, ElementOfSeq
<1>. QED
    BY <1>1, <1>2 DEF Ctl, Dat

\* A chunk is written behind what is there.
LEMMA AppendChunk ==
    ASSUME NEW w \in Seq(Messages), NEW m \in Messages, m > 0
    PROVE  LET v == Append(w, m)
           IN  /\ v \in Seq(Messages) /\ v # <<>> /\ Len(v) = Len(w) + 1
               /\ Ctl(v) = Ctl(w) /\ Dat(v) = Dat(w) + 1
               /\ Ctl(w) = 1 => v[1] = w[1]
               /\ Shape(w) => Shape(v)
               /\ \A b \in Nat : Run(w, b) /\ m = b + Dat(w) + 1 => Run(v, b)
<1>. DEFINE v == Append(w, m)
<1>1. /\ v \in Seq(Messages) /\ v # <<>> /\ Len(v) = Len(w) + 1 /\ Len(w) \in Nat
      /\ v[Len(w) + 1] = m
      /\ \A i \in 1..Len(w) : v[i] = w[i]
    BY AppendProperties, LenProperties
<1>2. /\ w = <<>> => Len(w) = 0 /\ v[1] = m
      /\ w # <<>> => v[1] = w[1] /\ w[1] \in Int
    BY <1>1, EmptySeq, ElementOfSeq, MessageFacts
<1>3. Ctl(v) = Ctl(w) /\ Dat(v) = Dat(w) + 1 /\ (Ctl(w) = 1 => v[1] = w[1])
    BY <1>1, <1>2, MessageFacts DEF Ctl, Dat
<1>4. Shape(w) => Shape(v)
    BY <1>1 DEF Shape
<1>5. ASSUME NEW b \in Nat, Run(w, b), m = b + Dat(w) + 1
      PROVE  Run(v, b)
  <2>. SUFFICES ASSUME NEW i \in 1..Len(v), i > Ctl(v)
                PROVE  v[i] = b + (i - Ctl(v))
      BY DEF Run
  <2>1. CASE i \in 1..Len(w)
      BY <1>1, <1>3, <1>5, <2>1 DEF Run
  <2>2. CASE i = Len(w) + 1
    <3>1. Ctl(w) \in {0, 1} /\ Dat(w) \in Nat /\ Len(w) = Ctl(w) + Dat(w)
        BY WireFacts
    <3>2. v[i] = b + Dat(w) + 1 /\ i - Ctl(v) = Dat(w) + 1
        BY <1>1, <1>3, <1>5, <2>2, <3>1
    <3>. QED  BY <3>1, <3>2
  <2>. QED  BY <1>1, <2>1, <2>2
<1>. HIDE DEF v
<1>6. QED  BY <1>1, <1>3, <1>4, <1>5 DEF v

\* A message of the handshake is written to a wire that holds nothing.
LEMMA AppendControl ==
    ASSUME NEW m \in Control
    PROVE  LET v == Append(<<>>, m)
           IN  /\ v \in Seq(Messages) /\ v # <<>> /\ Len(v) = 1 /\ v[1] = m
               /\ Shape(v) /\ Ctl(v) = 1 /\ Dat(v) = 0
               /\ \A b : Run(v, b)
<1>1. /\ Append(<<>>, m) = <<m>> /\ <<m>> \in Seq(Messages) /\ <<m>> # <<>>
      /\ Len(<<m>>) = 1 /\ <<m>>[1] = m /\ m < 0
    BY MessageFacts
<1>2. Ctl(<<m>>) = 1
    BY <1>1 DEF Ctl
<1>. QED  BY <1>1, <1>2 DEF Shape, Dat, Run

\* The next message is read.
LEMMA TailFacts ==
    ASSUME NEW w \in Seq(Messages), w # <<>>
    PROVE  LET v == Tail(w)
           IN  /\ v \in Seq(Messages) /\ Head(w) = w[1] /\ w[1] \in Messages
               /\ Len(v) = Len(w) - 1
               /\ Shape(w) => Shape(v) /\ Ctl(v) = 0
               /\ Shape(w) /\ Ctl(w) = 1 => Dat(v) = Dat(w) /\ \A b : Run(w, b) => Run(v, b)
               /\ Ctl(w) = 1 <=> w[1] < 0
               /\ Ctl(w) = 0 <=> w[1] > 0
               /\ Shape(w) /\ Ctl(w) = 0 =>
                     /\ Dat(v) = Dat(w) - 1
                     /\ \A b \in Nat : Run(w, b) => w[1] = b + 1 /\ Run(v, b + 1)
<1>. DEFINE v == Tail(w)
<1>1. /\ v \in Seq(Messages) /\ Len(v) = Len(w) - 1 /\ Len(w) \in Nat /\ Len(w) > 0
      /\ Head(w) = w[1] /\ w[1] \in Messages
      /\ \A i \in 1..Len(v) : v[i] = w[i + 1]
    BY HeadTailProperties, ElementOfSeq, EmptySeq
<1>2. w[1] \in Int /\ w[1] # 0
    BY <1>1, MessageFacts
<1>3. (Ctl(w) = 1 <=> w[1] < 0) /\ (Ctl(w) = 0 <=> w[1] > 0) /\ Ctl(w) \in {0, 1}
    BY <1>2 DEF Ctl
<1>4. ASSUME Shape(w) PROVE Shape(v) /\ Ctl(v) = 0
  <2>1. \A i \in 1..Len(v) : v[i] > 0
      BY <1>1, <1>4 DEF Shape
  <2>2. v # <<>> => 1 \in 1..Len(v)
      BY <1>1, EmptySeq
  <2>3. \A i \in 1..Len(v) : v[i] \in Int
      BY <1>1, MessageFacts, ElementOfSeq
  <2>4. Shape(v)
      BY <1>1, <2>1 DEF Shape
  <2>5. v # <<>> => v[1] > 0 /\ v[1] \in Int
      BY <2>1, <2>2, <2>3
  <2>6. Ctl(v) = 0
      BY <2>5 DEF Ctl
  <2>. QED  BY <2>4, <2>6
<1>5. ASSUME Shape(w), Ctl(w) = 1
      PROVE  Dat(v) = Dat(w) /\ \A b : Run(w, b) => Run(v, b)
  <2>1. Dat(v) = Dat(w)
      BY <1>1, <1>4, <1>5 DEF Dat
  <2>2. ASSUME NEW b, Run(w, b), NEW i \in 1..Len(v)
        PROVE  v[i] = b + i
    <3>1. i + 1 \in 1..Len(w) /\ i + 1 > Ctl(w) /\ v[i] = w[i + 1] /\ i + 1 - 1 = i
        BY <1>1, <1>5
    <3>. QED  BY <1>5, <2>2, <3>1 DEF Run
  <2>. QED  BY <1>1, <1>4, <1>5, <2>1, <2>2 DEF Run
<1>6. ASSUME Shape(w), Ctl(w) = 0
      PROVE  /\ Dat(v) = Dat(w) - 1
             /\ \A b \in Nat : Run(w, b) => w[1] = b + 1 /\ Run(v, b + 1)
    BY <1>1, <1>4, <1>6 DEF Dat, Run
<1>. HIDE DEF v
<1>. QED  BY <1>1, <1>3, <1>4, <1>5, <1>6 DEF v

\* A reset leaves a prefix.
LEMMA ShorterFacts ==
    ASSUME NEW w \in Seq(Messages), NEW v, Shorter(v, w)
    PROVE  /\ v \in Seq(Messages) /\ Len(v) <= Len(w)
           /\ Shape(w) => Shape(v)
           /\ Ctl(v) <= Ctl(w) /\ Dat(v) <= Dat(w)
           /\ w = <<>> => v = <<>>
           /\ v # <<>> => w # <<>> /\ v[1] = w[1] /\ Ctl(v) = Ctl(w)
           /\ \A b \in Nat : Run(w, b) => Run(v, b)
<1>1. /\ v \in Seq(Messages) /\ Len(v) <= Len(w) /\ Len(v) \in Nat /\ Len(w) \in Nat
      /\ \A i \in 1..Len(v) : v[i] = w[i]
    BY DEF Shorter
<1>2. (v = <<>> <=> Len(v) = 0) /\ (w = <<>> <=> Len(w) = 0)
    BY <1>1, EmptySeq
<1>3. v # <<>> => w # <<>> /\ v[1] = w[1] /\ Ctl(v) = Ctl(w)
    BY <1>1, <1>2 DEF Ctl
<1>4. v = <<>> => Ctl(v) = 0 /\ Dat(v) = 0
    BY EmptyWire
<1>5. Ctl(v) <= Ctl(w) /\ Dat(v) <= Dat(w)
    BY <1>1, <1>2, <1>3, <1>4, WireFacts DEF Dat
<1>6. Shape(w) => Shape(v)
    BY <1>1 DEF Shape
<1>7. \A b \in Nat : Run(w, b) => Run(v, b)
    BY <1>1, <1>2, <1>3, EmptyWire DEF Run
<1>. QED  BY <1>1, <1>2, <1>3, <1>5, <1>6, <1>7

LEMMA ShorterSelf ==
    ASSUME NEW w \in Seq(Messages)
    PROVE  Shorter(w, w) /\ Shorter(<<>>, w)
BY LenProperties, EmptyWire DEF Shorter

LEMMA ShorterPrefix ==
    ASSUME NEW w \in Seq(Messages), NEW k \in 0..Len(w)
    PROVE  Shorter(SubSeq(w, 1, k), w)
<1>1. \A i \in 1..k : w[i] \in Messages
    BY LenProperties, ElementOfSeq
<1>2. SubSeq(w, 1, k) \in Seq(Messages) /\ Len(SubSeq(w, 1, k)) = k
    BY <1>1, LenProperties
<1>. QED  BY <1>2, LenProperties DEF Shorter

-----------------------------------------------------------------------------
(* Sockets                                                                 *)

\* Only direction d of hop h has changed.
OthersSame(h, d) ==
    \A g \in Hops, e \in Dirs : g # h \/ e # d => wire'[g][e] = wire[g][e]

\* What a step that writes nothing does to hop h: nothing, or it is damaged and
\* what it carried is cut short.
Spared(h) == conn'[h] = conn[h] /\ \A d \in Dirs : wire'[h][d] = wire[h][d]
Hurt(h)   == /\ conn[h] # "none" /\ conn'[h] \in {"silent", "dying", "reset"}
             /\ \A d \in Dirs : Shorter(wire'[h][d], wire[h][d])
Loss      == \A h \in Hops : Spared(h) \/ Hurt(h)

LEMMA Ground ==
    /\ 1 \in Hops /\ 2 \in Hops /\ 3 \in Hops /\ "up" \in Dirs /\ "down" \in Dirs
    /\ "agent" \in Procs /\ "proxy" \in Procs
BY DEF Procs, Dirs, Hops

\* The two directions and the four relay tasks.
LEMMA Geometry ==
    /\ \A p \in Procs, d \in Dirs :
          /\ Src(p, d) \in Hops /\ Dst(p, d) \in Hops /\ Opp(d) \in Dirs
          /\ Src(p, d) \in HopsOf(p) /\ Dst(p, d) \in HopsOf(p)
          /\ Incoming(p, Src(p, d)) = d /\ Outgoing(p, Dst(p, d)) = d
    /\ \A d \in Dirs : First(d) \in Hops /\ Last(d) \in Hops
    /\ 1 \in Hops /\ 2 \in Hops /\ 3 \in Hops /\ "up" \in Dirs /\ "down" \in Dirs
    /\ "agent" \in Procs /\ "proxy" \in Procs
BY DEF Procs, Dirs, Hops, Src, Dst, Near, Far, Opp, First, Last, HopsOf, Incoming, Outgoing

LEMMA TakeStep ==
    ASSUME SocketsOK, NEW h \in Hops, NEW d \in Dirs, Take(h, d)
    PROVE  /\ SocketsOK' /\ conn' = conn /\ fin' = fin
           /\ wire[h][d] \in Seq(Messages) /\ wire[h][d] # <<>>
           /\ wire'[h][d] = Tail(wire[h][d]) /\ OthersSame(h, d)
<1>1. /\ wire \in [Hops -> [Dirs -> Seq(Messages)]]
      /\ wire[h][d] # <<>> /\ wire[h][d] \in Seq(Messages)
      /\ \A g \in Hops, e \in Dirs : Len(wire[g][e]) <= Cap
    BY DEF SocketsOK, Take
<1>2. /\ Tail(wire[h][d]) \in Seq(Messages) /\ Len(Tail(wire[h][d])) = Len(wire[h][d]) - 1
      /\ Len(wire[h][d]) \in Nat
    BY <1>1, HeadTailProperties, LenProperties
<1>3. /\ wire' \in [Hops -> [Dirs -> Seq(Messages)]]
      /\ wire'[h][d] = Tail(wire[h][d]) /\ OthersSame(h, d)
    BY <1>1, <1>2 DEF Take, OthersSame
<1>4. \A g \in Hops, e \in Dirs : Len(wire'[g][e]) <= Cap
  <2>. TAKE g \in Hops, e \in Dirs
  <2>1. CASE g = h /\ e = d
    <3>1. Len(wire'[h][d]) = Len(wire[h][d]) - 1 /\ Len(wire[h][d]) <= Cap
        BY <1>1, <1>2, <1>3
    <3>. QED  BY <1>2, <2>1, <3>1, CapAssumption
  <2>2. CASE g # h \/ e # d
      BY <1>1, <1>3, <2>2 DEF OthersSame
  <2>. QED  BY <2>1, <2>2
<1>. QED  BY <1>1, <1>3, <1>4 DEF SocketsOK, Take

LEMMA ResetStep ==
    ASSUME SocketsOK, NEW h \in Hops, conn[h] # "none", Reset(h), fin' = fin
    PROVE  SocketsOK' /\ Hurt(h) /\ \A g \in Hops : g # h => Spared(g)
<1>1. /\ wire \in [Hops -> [Dirs -> Seq(Messages)]]
      /\ \A g \in Hops, e \in Dirs : wire[g][e] \in Seq(Messages) /\ Len(wire[g][e]) <= Cap
      /\ conn \in [Hops -> {"none", "open", "silent", "dying", "reset"}]
    BY DEF SocketsOK
<1>2. PICK k \in [Dirs -> 0..Cap] : ResetKeeping(h, k)
    BY DEF Put, Mute, Reset
<1>3. \A e \in Dirs : k[e] \in 0..Len(wire[h][e])
    BY <1>1, <1>2, CapAssumption, LenProperties DEF ResetKeeping
<1>4. \A e \in Dirs : Shorter(SubSeq(wire[h][e], 1, k[e]), wire[h][e])
    BY <1>1, <1>3, ShorterPrefix
<1>5. /\ \A e \in Dirs : wire'[h][e] = SubSeq(wire[h][e], 1, k[e])
      /\ \A g \in Hops : g # h => wire'[g] = wire[g]
      /\ conn'[h] = "reset" /\ \A g \in Hops : g # h => conn'[g] = conn[g]
    BY <1>1, <1>2 DEF ResetKeeping
<1>6. Hurt(h)
    BY <1>4, <1>5 DEF Hurt
<1>7. \A g \in Hops : g # h => Spared(g)
    BY <1>5 DEF Spared
<1>8. wire' \in [Hops -> [Dirs -> Seq(Messages)]]
    BY <1>1, <1>2, <1>4 DEF ResetKeeping, Shorter
<1>9. \A g \in Hops, e \in Dirs : Len(wire'[g][e]) <= Cap
  <2>. TAKE g \in Hops, e \in Dirs
  <2>1. CASE g = h
    <3>1. /\ wire'[h][e] \in Seq(Messages) /\ Len(wire'[h][e]) <= Len(wire[h][e])
          /\ Len(wire[h][e]) <= Cap
        BY <1>1, <1>4, <1>5 DEF Shorter
    <3>2. Len(wire'[h][e]) \in Nat /\ Len(wire[h][e]) \in Nat
        BY <1>1, <3>1, LenProperties
    <3>. QED  BY <2>1, <3>1, <3>2, CapAssumption
  <2>2. CASE g # h
      BY <1>1, <1>5, <2>2
  <2>. QED  BY <2>1, <2>2
<1>10. conn' \in [Hops -> {"none", "open", "silent", "dying", "reset"}] /\ fin' = fin
    BY <1>1, <1>2 DEF ResetKeeping, Put
<1>. QED  BY <1>6, <1>7, <1>8, <1>9, <1>10 DEF SocketsOK, Loss

\* A write is accepted, or the connection is hurt.  The second happens only if
\* the reader is gone or its host has vanished.
LEMMA PutStep ==
    ASSUME SocketsOK, NEW h \in Hops, NEW d \in Dirs, NEW m \in Messages, Put(h, d, m)
    PROVE  /\ SocketsOK' /\ fin' = fin /\ conn[h] # "none"
           /\ \A g \in Hops : g # h => Spared(g)
           /\ \/ /\ conn' = conn /\ conn[h] = "open" /\ ~ReaderGone(h, d)
                 /\ wire'[h][d] = Append(wire[h][d], m) /\ OthersSame(h, d)
              \/ Loss /\ Hurt(h) /\ (conn[h] # "open" \/ ReaderGone(h, d))
<1>1. /\ wire \in [Hops -> [Dirs -> Seq(Messages)]]
      /\ \A g \in Hops, e \in Dirs : wire[g][e] \in Seq(Messages) /\ Len(wire[g][e]) <= Cap
      /\ conn \in [Hops -> {"none", "open", "silent", "dying", "reset"}]
    BY DEF SocketsOK
<1>2. CASE conn[h] = "open" /\ Len(wire[h][d]) < Cap /\ ~ReaderGone(h, d)
  <2>1. wire' = [wire EXCEPT ![h][d] = Append(@, m)] /\ conn' = conn /\ fin' = fin
      BY <1>2 DEF Put, Mute
  <2>2. /\ Append(wire[h][d], m) \in Seq(Messages)
        /\ Len(Append(wire[h][d], m)) = Len(wire[h][d]) + 1 /\ Len(wire[h][d]) \in Nat
      BY <1>1, AppendProperties, LenProperties
  <2>3. /\ wire' \in [Hops -> [Dirs -> Seq(Messages)]]
        /\ wire'[h][d] = Append(wire[h][d], m) /\ OthersSame(h, d)
      BY <1>1, <2>1, <2>2 DEF OthersSame
  <2>4. \A g \in Hops, e \in Dirs : Len(wire'[g][e]) <= Cap
    <3>. TAKE g \in Hops, e \in Dirs
    <3>1. CASE g = h /\ e = d
        BY <1>2, <2>2, <2>3, <3>1, CapAssumption
    <3>2. CASE g # h \/ e # d
        BY <1>1, <2>3, <3>2 DEF OthersSame
    <3>. QED  BY <3>1, <3>2
  <2>. QED  BY <1>2, <2>1, <2>3, <2>4 DEF SocketsOK, OthersSame, Spared
<1>3. CASE conn[h] = "open" /\ ReaderGone(h, d)
  <2>1. Reset(h) /\ fin' = fin
      BY <1>3 DEF Put, Mute
  <2>2. SocketsOK' /\ Hurt(h) /\ \A g \in Hops : g # h => Spared(g)
      BY <1>3, <2>1, ResetStep
  <2>. QED  BY <1>3, <2>1, <2>2 DEF Loss
<1>4. CASE Mute(h)
  <2>1. conn' = [conn EXCEPT ![h] = "dying"] /\ wire' = wire /\ fin' = fin
      BY <1>4 DEF Put, Mute
  <2>2. \A e \in Dirs : Shorter(wire'[h][e], wire[h][e])
      BY <1>1, <2>1, ShorterSelf
  <2>3. Hurt(h) /\ \A g \in Hops : g # h => Spared(g)
      BY <1>1, <1>4, <2>1, <2>2 DEF Hurt, Spared, Mute
  <2>. QED  BY <1>1, <1>4, <2>1, <2>3 DEF SocketsOK, Loss, Mute
<1>. QED  BY <1>2, <1>3, <1>4 DEF Put

LEMMA ShutDownStep ==
    ASSUME SocketsOK, NEW h \in Hops, NEW d \in Dirs, ShutDown(h, d)
    PROVE  /\ SocketsOK' /\ Loss /\ wire' = wire
           /\ \A g \in Hops : conn[g] = "open" => conn'[g] = "open"
           /\ \A g \in Hops, e \in Dirs :
                 fin'[g][e] = (fin[g][e] \/ (g = h /\ e = d /\ conn[h] = "open"))
<1>1. /\ conn \in [Hops -> {"none", "open", "silent", "dying", "reset"}]
      /\ fin \in [Hops -> [Dirs -> BOOLEAN]]
      /\ \A g \in Hops, e \in Dirs : wire[g][e] \in Seq(Messages)
    BY DEF SocketsOK
<1>2. \A g \in Hops, e \in Dirs : Shorter(wire[g][e], wire[g][e])
    BY <1>1, ShorterSelf
<1>3. /\ \A g \in Hops, e \in Dirs :
            fin'[g][e] = (fin[g][e] \/ (g = h /\ e = d /\ conn[h] = "open"))
      /\ fin' \in [Hops -> [Dirs -> BOOLEAN]]
    BY <1>1 DEF ShutDown
<1>4. /\ conn' \in [Hops -> {"none", "open", "silent", "dying", "reset"}]
      /\ wire' = wire /\ \A g \in Hops : conn[g] = "open" => conn'[g] = "open"
      /\ Loss
    BY <1>1, <1>2 DEF ShutDown, Mute, Loss, Spared, Hurt
<1>. QED  BY <1>3, <1>4 DEF SocketsOK

LEMMA DropStep ==
    ASSUME SocketsOK, WiresInShape, NEW p \in Procs, DropSockets(p)
    PROVE  /\ SocketsOK' /\ Loss
           /\ \A h \in Hops \ HopsOf(p) : Spared(h)
           /\ \A h \in HopsOf(p) : wire'[h][Incoming(p, h)] = <<>>
           /\ \A h \in Hops, d \in Dirs :
                 fin'[h][d] = (fin[h][d] \/ (h \in HopsOf(p) /\ d = Outgoing(p, h) /\ conn[h] = "open"))
           /\ \A h \in HopsOf(p) :
                 conn'[h] # conn[h] => conn[h] = "open" /\ wire[h][Incoming(p, h)] # <<>>
<1>1. /\ wire \in [Hops -> [Dirs -> Seq(Messages)]]
      /\ \A g \in Hops, e \in Dirs : wire[g][e] \in Seq(Messages) /\ Len(wire[g][e]) <= Cap
      /\ conn \in [Hops -> {"none", "open", "silent", "dying", "reset"}]
      /\ fin \in [Hops -> [Dirs -> BOOLEAN]]
    BY DEF SocketsOK
<1>2. /\ HopsOf(p) \subseteq Hops
      /\ \A h \in HopsOf(p) : /\ Incoming(p, h) \in Dirs /\ Outgoing(p, h) \in Dirs
                              /\ \A d \in Dirs : d = Incoming(p, h) \/ d = Outgoing(p, h)
                              /\ Incoming(p, h) # Outgoing(p, h)
    BY DEF Procs, HopsOf, Near, Far, Hops, Incoming, Outgoing, Opp, Dirs
<1>3. PICK k \in [HopsOf(p) -> 0..Cap] :
          /\ \A h \in HopsOf(p) : k[h] <= Len(wire[h][Outgoing(p, h)])
          /\ wire' = [h \in Hops |-> [d \in Dirs |->
                         IF h \notin HopsOf(p) THEN wire[h][d]
                         ELSE IF d = Incoming(p, h) THEN <<>>
                         ELSE IF Unread(p, h) THEN SubSeq(wire[h][d], 1, k[h])
                         ELSE wire[h][d]]]
    BY DEF DropSockets
<1>4. \A h \in HopsOf(p) :
         Shorter(SubSeq(wire[h][Outgoing(p, h)], 1, k[h]), wire[h][Outgoing(p, h)])
  <2>. TAKE h \in HopsOf(p)
  <2>1. wire[h][Outgoing(p, h)] \in Seq(Messages)
      BY <1>1, <1>2
  <2>2. k[h] \in 0..Len(wire[h][Outgoing(p, h)])
      BY <1>3, <2>1, CapAssumption, LenProperties
  <2>. QED  BY <2>1, <2>2, ShorterPrefix
<1>5. \A h \in Hops \ HopsOf(p) : Spared(h)
    BY <1>3 DEF Spared, DropSockets
<1>6. \A h \in HopsOf(p) : wire'[h][Incoming(p, h)] = <<>>
    BY <1>2, <1>3
<1>7. \A h \in HopsOf(p) : Unread(p, h) =>
          /\ conn'[h] = "reset"
          /\ wire'[h][Outgoing(p, h)] = SubSeq(wire[h][Outgoing(p, h)], 1, k[h])
    BY <1>2, <1>3 DEF DropSockets
<1>8. \A h \in HopsOf(p) : ~Unread(p, h) =>
          /\ conn'[h] = conn[h]
          /\ wire'[h][Outgoing(p, h)] = wire[h][Outgoing(p, h)]
    BY <1>2, <1>3 DEF DropSockets
<1>9. \A h \in HopsOf(p), d \in Dirs : Shorter(wire'[h][d], wire[h][d])
  <2>. TAKE h \in HopsOf(p), d \in Dirs
  <2>1. wire[h][d] \in Seq(Messages)
      BY <1>1, <1>2
  <2>2. Shorter(wire[h][d], wire[h][d]) /\ Shorter(<<>>, wire[h][d])
      BY <2>1, ShorterSelf
  <2>3. d = Incoming(p, h) \/ d = Outgoing(p, h)
      BY <1>2
  <2>. QED  BY <1>4, <1>6, <1>7, <1>8, <2>2, <2>3
<1>10. \A h \in HopsOf(p) : Unread(p, h) => Hurt(h)
    BY <1>7, <1>9 DEF Hurt, Unread
<1>11. \A h \in HopsOf(p) : ~Unread(p, h) => Spared(h) \/ Hurt(h)
  <2>. SUFFICES ASSUME NEW h \in HopsOf(p), ~Unread(p, h)
                PROVE  Spared(h) \/ Hurt(h)
      OBVIOUS
  <2>1. CASE wire[h][Incoming(p, h)] = <<>>
      BY <1>2, <1>6, <1>8, <2>1 DEF Spared
  <2>2. CASE wire[h][Incoming(p, h)] # <<>>
    <3>1. conn[h] # "none" /\ conn[h] # "open"
        BY <1>2, <2>2 DEF Unread, WiresInShape
    <3>. QED  BY <1>1, <1>2, <1>8, <1>9, <3>1 DEF Hurt
  <2>. QED  BY <2>1, <2>2
<1>12. Loss
    BY <1>5, <1>10, <1>11 DEF Loss
<1>13. \A h \in Hops, d \in Dirs :
          fin'[h][d] = (fin[h][d] \/ (h \in HopsOf(p) /\ d = Outgoing(p, h) /\ conn[h] = "open"))
    BY <1>1 DEF DropSockets
<1>14. /\ fin' \in [Hops -> [Dirs -> BOOLEAN]]
       /\ conn' \in [Hops -> {"none", "open", "silent", "dying", "reset"}]
    BY <1>1 DEF DropSockets
<1>15. \A h \in Hops, d \in Dirs : wire'[h][d] \in Seq(Messages) /\ Len(wire'[h][d]) <= Cap
  <2>. TAKE h \in Hops, d \in Dirs
  <2>1. CASE h \in HopsOf(p)
    <3>1. /\ wire'[h][d] \in Seq(Messages) /\ Len(wire'[h][d]) <= Len(wire[h][d])
          /\ Len(wire[h][d]) <= Cap
        BY <1>1, <1>9, <2>1 DEF Shorter
    <3>2. Len(wire'[h][d]) \in Nat /\ Len(wire[h][d]) \in Nat
        BY <1>1, <3>1, LenProperties
    <3>. QED  BY <3>1, <3>2, CapAssumption
  <2>2. CASE h \notin HopsOf(p)
      BY <1>1, <1>5, <2>2 DEF Spared
  <2>. QED  BY <2>1, <2>2
<1>16. wire' \in [Hops -> [Dirs -> Seq(Messages)]]
    BY <1>3, <1>15
<1>. QED  BY <1>5, <1>6, <1>7, <1>8, <1>12, <1>13, <1>14, <1>15, <1>16 DEF SocketsOK, Unread

LEMMA VanishStep ==
    ASSUME SocketsOK, NEW d \in Dirs, Vanish(d)
    PROVE  /\ SocketsOK' /\ Loss
           /\ \A g \in Hops, e \in Dirs : fin'[g][e] => fin[g][e]
<1>. DEFINE h == First(d)
            out == Opp(d)
<1>1. /\ wire \in [Hops -> [Dirs -> Seq(Messages)]]
      /\ \A g \in Hops, e \in Dirs : wire[g][e] \in Seq(Messages) /\ Len(wire[g][e]) <= Cap
      /\ conn \in [Hops -> {"none", "open", "silent", "dying", "reset"}]
      /\ fin \in [Hops -> [Dirs -> BOOLEAN]]
    BY DEF SocketsOK
<1>2. h \in Hops /\ out \in Dirs /\ out # d /\ \A e \in Dirs : e = d \/ e = out
    BY DEF First, Opp, Dirs, Hops
<1>3. PICK k \in 0..Len(wire[h][d]) :
         wire' = [wire EXCEPT ![h][d] = SubSeq(@, 1, k), ![h][out] = <<>>]
    BY DEF Vanish
<1>4. /\ conn[h] = "open" /\ conn'[h] \in {"silent", "dying"}
      /\ \A g \in Hops : g # h => conn'[g] = conn[g]
      /\ conn' \in [Hops -> {"none", "open", "silent", "dying", "reset"}]
    BY <1>1, <1>2 DEF Vanish
<1>5. fin' = [fin EXCEPT ![h][out] = FALSE]
    BY DEF Vanish
<1>. HIDE DEF h, out
<1>6. Shorter(SubSeq(wire[h][d], 1, k), wire[h][d]) /\ Shorter(<<>>, wire[h][out])
    BY <1>1, <1>2, ShorterPrefix, ShorterSelf
<1>7. /\ wire'[h][d] = SubSeq(wire[h][d], 1, k) /\ wire'[h][out] = <<>>
      /\ \A g \in Hops : g # h => wire'[g] = wire[g]
    BY <1>1, <1>2, <1>3
<1>8. \A e \in Dirs : Shorter(wire'[h][e], wire[h][e])
    BY <1>2, <1>6, <1>7
<1>9. Hurt(h) /\ \A g \in Hops : g # h => Spared(g)
    BY <1>2, <1>4, <1>7, <1>8 DEF Hurt, Spared
<1>10. \A g \in Hops, e \in Dirs : wire'[g][e] \in Seq(Messages) /\ Len(wire'[g][e]) <= Cap
  <2>. TAKE g \in Hops, e \in Dirs
  <2>1. CASE g = h
    <3>1. /\ wire'[h][e] \in Seq(Messages) /\ Len(wire'[h][e]) <= Len(wire[h][e])
          /\ Len(wire[h][e]) <= Cap
        BY <1>1, <1>2, <1>8 DEF Shorter
    <3>2. Len(wire'[h][e]) \in Nat /\ Len(wire[h][e]) \in Nat
        BY <1>1, <1>2, <3>1, LenProperties
    <3>. QED  BY <2>1, <3>1, <3>2, CapAssumption
  <2>2. CASE g # h
      BY <1>1, <1>7, <2>2
  <2>. QED  BY <2>1, <2>2
<1>11. wire' \in [Hops -> [Dirs -> Seq(Messages)]]
  <2>1. SubSeq(wire[h][d], 1, k) \in Seq(Messages) /\ <<>> \in Seq(Messages)
      BY <1>6 DEF Shorter
  <2>. QED  BY <1>1, <1>2, <1>3, <2>1
<1>12. /\ fin' \in [Hops -> [Dirs -> BOOLEAN]]
       /\ \A g \in Hops, e \in Dirs : fin'[g][e] => fin[g][e]
    BY <1>1, <1>2, <1>5
<1>13. SocketsOK'
  <2>1. \A g \in Hops, e \in Dirs : Len(wire'[g][e]) <= Cap
      BY <1>10
  <2>2. conn' \in [Hops -> {"none", "open", "silent", "dying", "reset"}]
      BY <1>4
  <2>3. fin' \in [Hops -> [Dirs -> BOOLEAN]]
      BY <1>12
  <2>. QED  BY <1>11, <2>1, <2>2, <2>3 DEF SocketsOK
<1>14. Loss
    BY <1>9 DEF Loss
<1>. QED  BY <1>12, <1>13, <1>14

-----------------------------------------------------------------------------
(* The types                                                               *)

LEMMA InitOK == Init => TypeOK /\ HandshakeInv
<1>. SUFFICES ASSUME Init PROVE TypeOK /\ HandshakeInv
    OBVIOUS
<1>1. \A h \in Hops, d \in Dirs : wire[h][d] = <<>> /\ ~fin[h][d]
    BY DEF Init
<1>2. \A p \in Procs, d \in Dirs : hold[p][d] = <<>> /\ relay[p][d] = "none"
    BY DEF Init
<1>3. /\ wire \in [Hops -> [Dirs -> Seq(Messages)]]
      /\ hold \in [Procs -> [Dirs -> Seq(Messages)]]
      /\ rcvd \in [Dirs -> Seq(Messages)]
      /\ init_data = <<>> /\ init_data \in Seq(Messages)
    BY EmptyWire DEF Init
<1>4. SocketsOK
    BY <1>1, <1>3, CapAssumption DEF Init, SocketsOK
<1>5. TasksOK
    BY <1>2, <1>3 DEF Init, TasksOK, AgentPoints, ProxyPoints
<1>6. EndsOK
    BY <1>3, MaxSendAssumption DEF Init, EndsOK
<1>7. EnvOK
    BY MaxFaultsAssumption DEF Init, EnvOK
<1>8. /\ conn[1] = "open" /\ conn[2] = "none" /\ conn[3] = "none"
      /\ agent = "request" /\ proxy = "idle" /\ client = "request" /\ sent["up"] = 0
    BY Geometry DEF Init
<1>9. HandshakeInv
    BY <1>1, <1>2, <1>3, <1>8, EmptyWire, Geometry
    DEF HandshakeInv, WiresInShape, ClientOrder, AgentOrder, ProxyOrder, AnswerOrder
<1>. QED  BY <1>4, <1>5, <1>6, <1>7, <1>9 DEF TypeOK

LEMMA TypeStep ==
    ASSUME TypeOK, HandshakeInv, [Next]_vars
    PROVE  TypeOK'
<1>a. SocketsOK /\ TasksOK /\ EndsOK /\ EnvOK /\ WiresInShape
    BY DEF TypeOK, HandshakeInv
<1>b. Control \subseteq Messages
    BY MessageFacts
<1>c. UNCHANGED <<conn, wire, fin>> => SocketsOK'
    BY <1>a DEF SocketsOK
<1>d. UNCHANGED taskVars => TasksOK'
    BY <1>a DEF TasksOK, taskVars
<1>e. UNCHANGED endVars => EndsOK'
    BY <1>a DEF EndsOK, endVars
<1>f. UNCHANGED envVars => EnvOK'
    BY <1>a DEF EnvOK, envVars
<1>g. /\ \A p \in Procs, d \in Dirs : hold[p][d] \in Seq(Messages)
      /\ \A h \in Hops, d \in Dirs : wire[h][d] \in Seq(Messages)
    BY <1>a DEF TasksOK, SocketsOK
<1>h. \A h \in Hops, d \in Dirs : wire[h][d] # <<>> =>
         /\ Head(wire[h][d]) \in Messages /\ <<Head(wire[h][d])>> \in Seq(Messages)
         /\ Len(<<Head(wire[h][d])>>) = 1
    BY <1>g, HeadTailProperties
<1>i. <<>> \in Seq(Messages) /\ Len(<<>>) = 0
    BY EmptyWire
<1>j. relay \in [Procs -> [Dirs -> {"none", "forward", "close", "done"}]]
    BY <1>a DEF TasksOK
<1>k. /\ \A p \in Procs : StartRelays(p) =>
            relay' \in [Procs -> [Dirs -> {"none", "forward", "close", "done"}]]
      /\ \A p \in Procs, d \in Dirs : relay' = [relay EXCEPT ![p][d] = "close"] =>
            relay' \in [Procs -> [Dirs -> {"none", "forward", "close", "done"}]]
      /\ \A p \in Procs, d \in Dirs : relay' = [relay EXCEPT ![p][d] = "done"] =>
            relay' \in [Procs -> [Dirs -> {"none", "forward", "close", "done"}]]
    BY <1>j DEF StartRelays
<1>. USE Geometry
<1>1. CASE AgentReadsRequest
  <2>1. SocketsOK'
      BY <1>a, <1>b, <1>c, <1>1, TakeStep DEF AgentReadsRequest
  <2>2. TasksOK'
      BY <1>a, <1>h, <1>i, <1>k, <1>1 DEF AgentReadsRequest, TasksOK, AgentPoints, ProxyPoints, Take
  <2>. QED  BY <1>1, <1>e, <1>f, <2>1, <2>2 DEF AgentReadsRequest, TypeOK
<1>2. CASE AgentRefusesRequest
  <2>1. SocketsOK'
      BY <1>a, <1>b, <1>c, <1>2, DropStep DEF AgentRefusesRequest, AgentFails
  <2>2. TasksOK'
      BY <1>a, <1>h, <1>i, <1>k, <1>2 DEF AgentRefusesRequest, TasksOK, AgentPoints, ProxyPoints, AgentFails
  <2>. QED  BY <1>2, <1>e, <1>f, <2>1, <2>2 DEF AgentRefusesRequest, TypeOK
<1>3. CASE AgentSeesClientEnd
  <2>1. SocketsOK'
      BY <1>a, <1>b, <1>c, <1>3, DropStep DEF AgentSeesClientEnd, AgentFails
  <2>2. TasksOK'
      BY <1>a, <1>h, <1>i, <1>k, <1>3 DEF AgentSeesClientEnd, TasksOK, AgentPoints, ProxyPoints, AgentFails
  <2>. QED  BY <1>3, <1>e, <1>f, <2>1, <2>2 DEF AgentSeesClientEnd, TypeOK
<1>4. CASE AgentDialsProxy
  <2>1. SocketsOK'
      BY <1>a, <1>4 DEF AgentDialsProxy, SocketsOK
  <2>2. TasksOK'
      BY <1>a, <1>4 DEF AgentDialsProxy, TasksOK, AgentPoints
  <2>. QED  BY <1>4, <1>e, <1>f, <2>1, <2>2 DEF AgentDialsProxy, TypeOK
<1>5. CASE AgentSendsInit
  <2>1. SocketsOK'
      BY <1>a, <1>b, <1>c, <1>5, PutStep DEF AgentSendsInit, Control
  <2>2. TasksOK'
      BY <1>a, <1>h, <1>i, <1>k, <1>5 DEF AgentSendsInit, TasksOK, AgentPoints, ProxyPoints
  <2>. QED  BY <1>5, <1>e, <1>f, <2>1, <2>2 DEF AgentSendsInit, TypeOK
<1>6. CASE AgentReadsSuccess
  <2>1. SocketsOK'
      BY <1>a, <1>b, <1>c, <1>6, TakeStep DEF AgentReadsSuccess
  <2>2. TasksOK'
      BY <1>a, <1>h, <1>i, <1>k, <1>6 DEF AgentReadsSuccess, TasksOK, AgentPoints, ProxyPoints
  <2>. QED  BY <1>6, <1>e, <1>f, <2>1, <2>2 DEF AgentReadsSuccess, TypeOK
<1>7. CASE AgentReadsNoSuccess
  <2>1. SocketsOK'
      BY <1>a, <1>b, <1>c, <1>7, TakeStep, DropStep DEF AgentReadsNoSuccess, AgentFails
  <2>2. TasksOK'
      BY <1>a, <1>h, <1>i, <1>k, <1>7 DEF AgentReadsNoSuccess, TasksOK, AgentPoints, ProxyPoints, AgentFails
  <2>. QED  BY <1>7, <1>e, <1>f, <2>1, <2>2 DEF AgentReadsNoSuccess, TypeOK
<1>8. CASE AgentReplies
  <2>1. SocketsOK'
      BY <1>a, <1>b, <1>c, <1>8, PutStep DEF AgentReplies, Control
  <2>2. TasksOK'
      BY <1>a, <1>h, <1>i, <1>k, <1>8 DEF AgentReplies, TasksOK, AgentPoints, ProxyPoints
  <2>. QED  BY <1>8, <1>e, <1>f, <2>1, <2>2 DEF AgentReplies, TypeOK
<1>9. CASE AgentSendsInitData
  <2>1. init_data[1] \in Messages
    <3>1. init_data # <<>> /\ init_data \in Seq(Messages)
        BY <1>a, <1>9 DEF AgentSendsInitData, HandshakeInv, AgentOrder, TasksOK
    <3>. QED  BY <3>1, HeadTailProperties
  <2>2. SocketsOK'
      BY <1>a, <1>9, <2>1, PutStep DEF AgentSendsInitData
  <2>3. TasksOK'
      BY <1>a, <1>i, <1>k, <1>9 DEF AgentSendsInitData, TasksOK, AgentPoints
  <2>. QED  BY <1>9, <1>e, <1>f, <2>2, <2>3 DEF AgentSendsInitData, TypeOK
<1>10. CASE AgentGivesUp
  <2>1. SocketsOK'
      BY <1>a, <1>b, <1>c, <1>10, DropStep DEF AgentGivesUp, AgentFails
  <2>2. TasksOK'
      BY <1>a, <1>h, <1>i, <1>k, <1>10 DEF AgentGivesUp, TasksOK, AgentPoints, ProxyPoints, AgentFails
  <2>. QED  BY <1>10, <1>e, <1>f, <2>1, <2>2 DEF AgentGivesUp, TypeOK
<1>11. CASE ProxyAccepts
  <2>1. SocketsOK'
      BY <1>a, <1>b, <1>c, <1>11 DEF ProxyAccepts
  <2>2. TasksOK'
      BY <1>a, <1>h, <1>i, <1>k, <1>11 DEF ProxyAccepts, TasksOK, AgentPoints, ProxyPoints
  <2>. QED  BY <1>11, <1>e, <1>f, <2>1, <2>2 DEF ProxyAccepts, TypeOK
<1>12. CASE ProxyReadsInit
  <2>1. SocketsOK'
      BY <1>a, <1>b, <1>c, <1>12, TakeStep DEF ProxyReadsInit
  <2>2. TasksOK'
      BY <1>a, <1>h, <1>i, <1>k, <1>12 DEF ProxyReadsInit, TasksOK, AgentPoints, ProxyPoints
  <2>. QED  BY <1>12, <1>e, <1>f, <2>1, <2>2 DEF ProxyReadsInit, TypeOK
<1>13. CASE ProxyReadsNoInit
  <2>1. SocketsOK'
      BY <1>a, <1>b, <1>c, <1>13, TakeStep, DropStep DEF ProxyReadsNoInit, ProxyFails
  <2>2. TasksOK'
      BY <1>a, <1>h, <1>i, <1>k, <1>13 DEF ProxyReadsNoInit, TasksOK, AgentPoints, ProxyPoints, ProxyFails
  <2>. QED  BY <1>13, <1>e, <1>f, <2>1, <2>2 DEF ProxyReadsNoInit, TypeOK
<1>14. CASE ProxyDialsDestination
  <2>1. SocketsOK'
      BY <1>a, <1>14 DEF ProxyDialsDestination, SocketsOK
  <2>2. TasksOK'
      BY <1>a, <1>14 DEF ProxyDialsDestination, TasksOK, ProxyPoints
  <2>. QED  BY <1>14, <1>e, <1>f, <2>1, <2>2 DEF ProxyDialsDestination, TypeOK
<1>15. CASE ProxyCannotDial
  <2>1. SocketsOK'
      BY <1>a, <1>b, <1>c, <1>15 DEF ProxyCannotDial
  <2>2. TasksOK'
      BY <1>a, <1>h, <1>i, <1>k, <1>15 DEF ProxyCannotDial, TasksOK, AgentPoints, ProxyPoints
  <2>. QED  BY <1>15, <1>e, <1>f, <2>1, <2>2 DEF ProxyCannotDial, TypeOK
<1>16. CASE ProxySendsFail
  <2>1. SocketsOK'
      BY <1>a, <1>b, <1>c, <1>16, PutStep DEF ProxySendsFail, Control
  <2>2. TasksOK'
      BY <1>a, <1>h, <1>i, <1>k, <1>16 DEF ProxySendsFail, TasksOK, AgentPoints, ProxyPoints
  <2>. QED  BY <1>16, <1>e, <1>f, <2>1, <2>2 DEF ProxySendsFail, TypeOK
<1>17. CASE ProxyGivesUp
  <2>1. SocketsOK'
      BY <1>a, <1>b, <1>c, <1>17, DropStep DEF ProxyGivesUp, ProxyFails
  <2>2. TasksOK'
      BY <1>a, <1>h, <1>i, <1>k, <1>17 DEF ProxyGivesUp, TasksOK, AgentPoints, ProxyPoints, ProxyFails
  <2>. QED  BY <1>17, <1>e, <1>f, <2>1, <2>2 DEF ProxyGivesUp, TypeOK
<1>18. CASE ProxySendsSuccess
  <2>1. SocketsOK'
      BY <1>a, <1>b, <1>c, <1>18, PutStep DEF ProxySendsSuccess, Control
  <2>2. TasksOK'
      BY <1>a, <1>h, <1>i, <1>k, <1>18 DEF ProxySendsSuccess, TasksOK, AgentPoints, ProxyPoints
  <2>. QED  BY <1>18, <1>e, <1>f, <2>1, <2>2 DEF ProxySendsSuccess, TypeOK
<1>19. ASSUME NEW p \in Procs, NEW d \in Dirs, RelayTask(p, d)
      PROVE  TypeOK'
  <2>. USE <1>a
  <2>a. /\ hold \in [Procs -> [Dirs -> Seq(Messages)]]
        /\ \A q \in Procs, e \in Dirs : Len(hold[q][e]) <= 1
      BY DEF TasksOK
  <2>b. hold' = [hold EXCEPT ![p][d] = <<>>] =>
            /\ hold' \in [Procs -> [Dirs -> Seq(Messages)]]
            /\ \A q \in Procs, e \in Dirs : Len(hold'[q][e]) <= 1
      BY <1>i, <1>k, <2>a
  <2>1. CASE RelayReads(p, d)
    <3>1. SocketsOK' /\ wire[Src(p, d)][d] # <<>>
        BY <2>1, TakeStep DEF RelayReads
    <3>. DEFINE m == Head(wire[Src(p, d)][d])
    <3>2. m \in Messages /\ <<m>> \in Seq(Messages) /\ Len(<<m>>) = 1
        BY <1>h, <3>1
    <3>. HIDE DEF m
    <3>3. hold' = [hold EXCEPT ![p][d] = <<m>>] =>
            /\ hold' \in [Procs -> [Dirs -> Seq(Messages)]]
            /\ \A q \in Procs, e \in Dirs : Len(hold'[q][e]) <= 1
        BY <2>a, <3>2
    <3>4. /\ \/ hold' = [hold EXCEPT ![p][d] = <<m>>] /\ UNCHANGED relay
             \/ relay' = [relay EXCEPT ![p][d] = "close"] /\ UNCHANGED hold
          /\ UNCHANGED <<agent, proxy, init_data>>
        BY <2>1 DEF RelayReads, m
    <3>5. TasksOK'
        BY <1>i, <1>k, <3>3, <3>4 DEF TasksOK
    <3>. QED  BY <1>e, <1>f, <2>1, <3>1, <3>5 DEF RelayReads, TypeOK
  <2>2. CASE RelaySeesEnd(p, d)
    <3>1. TasksOK'
        BY <1>i, <1>k, <2>2 DEF RelaySeesEnd, TasksOK
    <3>. QED  BY <1>c, <1>e, <1>f, <2>2, <3>1 DEF RelaySeesEnd, TypeOK
  <2>3. CASE RelayWrites(p, d)
    <3>1. Head(hold[p][d]) \in Messages
        BY <1>g, <2>3, HeadTailProperties DEF RelayWrites
    <3>2. SocketsOK'
        BY <2>3, <3>1, PutStep DEF RelayWrites
    <3>3. TasksOK'
        BY <2>3, <2>b DEF RelayWrites, TasksOK
    <3>. QED  BY <1>e, <1>f, <2>3, <3>2, <3>3 DEF RelayWrites, TypeOK
  <2>4. CASE RelayWriteFails(p, d)
    <3>1. TasksOK'
        BY <1>i, <1>k, <2>4, <2>b DEF RelayWriteFails, TasksOK
    <3>. QED  BY <1>c, <1>e, <1>f, <2>4, <3>1 DEF RelayWriteFails, TypeOK
  <2>5. CASE RelayCloses(p, d)
    <3>1. SocketsOK'
        BY <2>5, DropStep, ShutDownStep DEF RelayCloses
    <3>2. TasksOK'
        BY <1>i, <1>k, <2>5 DEF RelayCloses, TasksOK
    <3>. QED  BY <1>e, <1>f, <2>5, <3>1, <3>2 DEF RelayCloses, TypeOK
  <2>. QED  BY <1>19, <2>1, <2>2, <2>3, <2>4, <2>5 DEF RelayTask
<1>20. CASE ClientRequests
  <2>1. mode = "plain" => 1 \in Messages /\ 1 <= MaxSend["up"]
    <3>1. mode = "plain" => sent["up"] \in Nat /\ sent["up"] < MaxSend["up"]
        BY <1>a, <1>20 DEF ClientRequests, EndsOK
    <3>2. MaxSend["up"] \in Nat /\ MaxSend["down"] \in Nat
        BY MaxSendAssumption
    <3>. QED  BY <3>1, <3>2 DEF Messages, Chunks
  <2>2. (IF mode = "plain" THEN 1 ELSE REQUEST) \in Messages
      BY <1>b, <2>1 DEF Control
  <2>3. SocketsOK'
      BY <1>a, <1>20, <2>2, PutStep DEF ClientRequests
  <2>4. EndsOK'
      BY <1>a, <1>20, <2>1 DEF ClientRequests, EndsOK
  <2>. QED  BY <1>20, <1>d, <1>f, <2>3, <2>4 DEF ClientRequests, TypeOK
<1>21. ASSUME NEW d \in Dirs, Endpoint(d)
      PROVE  TypeOK'
  <2>1. CASE EndpointSends(d)
    <3>1. sent[d] \in Nat /\ MaxSend[d] \in Nat /\ sent[d] < MaxSend[d]
        BY <1>a, <2>1, MaxSendAssumption DEF EndpointSends, EndsOK
    <3>2. sent[d] + 1 \in Messages
        BY <3>1, MessageFacts
    <3>3. SocketsOK'
        BY <1>a, <2>1, <3>2, PutStep DEF EndpointSends
    <3>4. EndsOK'
        BY <1>a, <2>1, <3>1 DEF EndpointSends, EndsOK
    <3>. QED  BY <1>d, <1>f, <2>1, <3>3, <3>4 DEF EndpointSends, TypeOK
  <2>2. CASE EndpointShutsDown(d)
    <3>1. SocketsOK'
        BY <1>a, <2>2 DEF EndpointShutsDown, SocketsOK
    <3>. QED  BY <1>d, <1>e, <1>f, <2>2, <3>1 DEF EndpointShutsDown, TypeOK
  <2>3. CASE EndpointReads(d)
    <3>1. SocketsOK' /\ wire[Last(d)][d] # <<>>
        BY <1>a, <2>3, TakeStep DEF EndpointReads
    <3>2. /\ rcvd \in [Dirs -> Seq(Messages)] /\ rcvd[d] \in Seq(Messages)
          /\ Head(wire[Last(d)][d]) \in Messages
        BY <1>a, <1>h, <3>1 DEF EndsOK
    <3>3. Append(rcvd[d], Head(wire[Last(d)][d])) \in Seq(Messages)
        BY <3>2, AppendProperties
    <3>4. rcvd' \in [Dirs -> Seq(Messages)]
        BY <2>3, <3>2, <3>3 DEF EndpointReads
    <3>5. EndsOK'
        BY <1>a, <2>3, <3>4 DEF EndpointReads, EndsOK
    <3>. QED  BY <1>d, <1>f, <2>3, <3>1, <3>5 DEF EndpointReads, TypeOK
  <2>4. CASE EndpointSeesEnd(d)
    <3>1. EndsOK'
        BY <1>a, <2>4 DEF EndpointSeesEnd, EndsOK
    <3>. QED  BY <1>c, <1>d, <1>f, <2>4, <3>1 DEF EndpointSeesEnd, TypeOK
  <2>. QED  BY <1>21, <2>1, <2>2, <2>3, <2>4 DEF Endpoint
<1>22. ASSUME NEW d \in Dirs, Vanish(d)
      PROVE  TypeOK'
  <2>1. SocketsOK'
      BY <1>a, <1>22, VanishStep
  <2>2. EnvOK'
      BY <1>a, <1>22, MaxFaultsAssumption DEF Vanish, EnvOK
  <2>. QED  BY <1>22, <1>d, <1>e, <2>1, <2>2 DEF Vanish, TypeOK
<1>23. ASSUME NEW h \in Hops, Break(h)
      PROVE  TypeOK'
  <2>1. SocketsOK'
      BY <1>a, <1>23, ResetStep DEF Break
  <2>2. EnvOK'
      BY <1>a, <1>23, MaxFaultsAssumption DEF Break, EnvOK
  <2>. QED  BY <1>23, <1>d, <1>e, <2>1, <2>2 DEF Break, TypeOK
<1>24. ASSUME NEW h \in Hops, KernelGivesUp(h)
      PROVE  TypeOK'
  <2>1. SocketsOK'
      BY <1>a, <1>24 DEF KernelGivesUp, SocketsOK
  <2>. QED  BY <1>24, <1>d, <1>e, <1>f, <2>1 DEF KernelGivesUp, TypeOK
<1>25. CASE UNCHANGED vars
    BY <1>a, <1>c, <1>d, <1>e, <1>f, <1>25 DEF vars, taskVars, endVars, envVars, TypeOK
<1>. QED
    BY <1>1, <1>2, <1>3, <1>4, <1>5, <1>6, <1>7, <1>8, <1>9, <1>10, <1>11, <1>12, <1>13, <1>14, <1>15, <1>16, <1>17, <1>18, <1>19, <1>20, <1>21, <1>22, <1>23, <1>24, <1>25 DEF Next, AgentHandshake, ProxyHandshake

-----------------------------------------------------------------------------
(* The order of the handshake                                              *)

\* What is left of the wires of hop h after a step that destroys.
LossOK(h) ==
    /\ conn'[h] = "none" <=> conn[h] = "none"
    /\ conn'[h] = "open" => conn[h] = "open"
    /\ conn'[h] \in {"none", "open"} => \A d \in Dirs : wire'[h][d] = wire[h][d]
    /\ \A d \in Dirs :
          /\ Shape(wire'[h][d])
          /\ Ctl(wire[h][d]) = 0 => Ctl(wire'[h][d]) = 0
          /\ Dat(wire[h][d]) = 0 => Dat(wire'[h][d]) = 0
          /\ wire[h][d] = <<>> => wire'[h][d] = <<>>
          /\ wire'[h][d] # <<>> =>
                /\ wire[h][d] # <<>> /\ wire'[h][d][1] = wire[h][d][1]
                /\ Ctl(wire'[h][d]) = Ctl(wire[h][d])
          /\ Len(wire[h][d]) = 1 => wire'[h][d] = <<>> \/ Len(wire'[h][d]) = 1

LEMMA LossFacts ==
    ASSUME SocketsOK, WiresInShape, Loss
    PROVE  /\ \A h \in Hops : LossOK(h)
           /\ \A h \in Hops, d \in Dirs : Shorter(wire'[h][d], wire[h][d])
<1>. SUFFICES ASSUME NEW h \in Hops
              PROVE  LossOK(h) /\ \A d \in Dirs : Shorter(wire'[h][d], wire[h][d])
    OBVIOUS
<1>1. \A d \in Dirs : wire[h][d] \in Seq(Messages)
    BY DEF SocketsOK
<1>2. \A d \in Dirs : Shorter(wire'[h][d], wire[h][d])
    BY <1>1, ShorterSelf DEF Loss, Spared, Hurt
<1>3. /\ conn'[h] = "none" <=> conn[h] = "none"
      /\ conn'[h] = "open" => conn[h] = "open"
      /\ conn'[h] \in {"none", "open"} => \A d \in Dirs : wire'[h][d] = wire[h][d]
    BY DEF Loss, Spared, Hurt
<1>4. ASSUME NEW d \in Dirs
      PROVE  /\ Shape(wire'[h][d])
             /\ Ctl(wire[h][d]) = 0 => Ctl(wire'[h][d]) = 0
             /\ Dat(wire[h][d]) = 0 => Dat(wire'[h][d]) = 0
             /\ wire[h][d] = <<>> => wire'[h][d] = <<>>
             /\ wire'[h][d] # <<>> =>
                   /\ wire[h][d] # <<>> /\ wire'[h][d][1] = wire[h][d][1]
                   /\ Ctl(wire'[h][d]) = Ctl(wire[h][d])
             /\ Len(wire[h][d]) = 1 => wire'[h][d] = <<>> \/ Len(wire'[h][d]) = 1
  <2>. DEFINE w == wire[h][d]
              v == wire'[h][d]
  <2>1. w \in Seq(Messages) /\ Shorter(v, w) /\ Shape(w)
      BY <1>1, <1>2 DEF WiresInShape
  <2>. HIDE DEF w, v
  <2>2. /\ v \in Seq(Messages) /\ Shape(v) /\ Ctl(v) <= Ctl(w) /\ Dat(v) <= Dat(w)
        /\ w = <<>> => v = <<>> /\ Len(v) <= Len(w)
        /\ v # <<>> => w # <<>> /\ v[1] = w[1] /\ Ctl(v) = Ctl(w)
      BY <2>1, ShorterFacts
  <2>3. Ctl(v) \in {0, 1} /\ Dat(v) \in Nat /\ Dat(w) \in Nat /\ Ctl(w) \in {0, 1}
      BY <2>1, <2>2, WireFacts
  <2>4. /\ Shape(v) /\ (Ctl(w) = 0 => Ctl(v) = 0) /\ (Dat(w) = 0 => Dat(v) = 0)
        /\ w = <<>> => v = <<>>
        /\ v # <<>> => w # <<>> /\ v[1] = w[1] /\ Ctl(v) = Ctl(w)
      BY <2>2, <2>3
  <2>5. Len(w) = 1 => v = <<>> \/ Len(v) = 1
    <3>1. Len(v) <= Len(w) /\ Len(v) \in Nat /\ (Len(v) = 0 => v = <<>>)
        BY <2>1, <2>2, LenProperties, EmptySeq DEF Shorter
    <3>. QED  BY <3>1
  <2>. QED  BY <2>4, <2>5 DEF v, w
<1>. QED  BY <1>2, <1>3, <1>4 DEF LossOK

LEMMA TakeFacts ==
    ASSUME SocketsOK, WiresInShape, NEW h \in Hops, NEW d \in Dirs, Take(h, d)
    PROVE  /\ wire[h][d] # <<>>
           /\ Shape(wire'[h][d]) /\ Ctl(wire'[h][d]) = 0
           /\ Dat(wire[h][d]) = 0 => wire'[h][d] = <<>> /\ Ctl(wire[h][d]) = 1
           /\ Head(wire[h][d]) = wire[h][d][1] /\ wire[h][d][1] \in Messages
           /\ Ctl(wire[h][d]) = 0 <=> wire[h][d][1] > 0
           /\ Ctl(wire[h][d]) = 1 <=> wire[h][d][1] < 0
           /\ Ctl(<<Head(wire[h][d])>>) = Ctl(wire[h][d])
           /\ Len(wire[h][d]) = 1 => wire'[h][d] = <<>>
<1>. DEFINE w == wire[h][d]
            v == wire'[h][d]
<1>1. w \in Seq(Messages) /\ w # <<>> /\ v = Tail(w) /\ Shape(w)
    BY TakeStep DEF WiresInShape
<1>. HIDE DEF w, v
<1>2. /\ v \in Seq(Messages) /\ Head(w) = w[1] /\ w[1] \in Messages /\ Shape(v) /\ Ctl(v) = 0
      /\ (Ctl(w) = 1 => Dat(v) = Dat(w)) /\ (Ctl(w) = 0 => Dat(v) = Dat(w) - 1)
      /\ (Ctl(w) = 1 <=> w[1] < 0) /\ (Ctl(w) = 0 <=> w[1] > 0) /\ Len(v) = Len(w) - 1
    BY <1>1, TailFacts
<1>3. Dat(w) \in Nat /\ Dat(v) \in Nat /\ Ctl(w) \in {0, 1} /\ (Dat(v) = 0 => v = <<>>)
    BY <1>1, <1>2, WireFacts
<1>4. Dat(w) = 0 => v = <<>> /\ Ctl(w) = 1
    BY <1>2, <1>3
<1>5. Len(w) = 1 => v = <<>>
    BY <1>1, <1>2, EmptySeq
<1>6. Ctl(<<Head(w)>>) = Ctl(w)
    BY <1>1, <1>2 DEF Ctl
<1>. QED  BY <1>1, <1>2, <1>4, <1>5, <1>6 DEF v, w

\* A step that reads and writes nothing and leaves the two handshakes where they
\* are keeps their order, whatever it destroys.
LEMMA QuietStep ==
    ASSUME TypeOK, HandshakeInv, Loss,
           UNCHANGED <<agent, proxy, client, mode, init_data>>,
           client = "request" => sent'["up"] = sent["up"],
           \A p \in Procs, d \in Dirs :
              /\ relay'[p][d] = "none" <=> relay[p][d] = "none"
              /\ hold'[p][d] \in {hold[p][d], <<>>},
           \A h \in Hops, d \in Dirs :
              fin'[h][d] /\ ~fin[h][d] =>
                 /\ conn[h] # "none"
                 /\ agent \in {"relay", "failed"} \/ (h # 1 /\ d = "down") \/ (h # 2 /\ d = "up")
    PROVE  HandshakeInv'
<1>0. /\ 1 \in Hops /\ 2 \in Hops /\ 3 \in Hops /\ "up" \in Dirs /\ "down" \in Dirs
      /\ "agent" \in Procs /\ "proxy" \in Procs
    BY Geometry
<1>1. SocketsOK /\ WiresInShape /\ ClientOrder /\ AgentOrder /\ ProxyOrder /\ AnswerOrder
    BY DEF TypeOK, HandshakeInv
<1>2. \A h \in Hops : LossOK(h)
    BY <1>0, <1>1, LossFacts
<1>3. /\ \A h \in Hops :
            /\ conn'[h] = "none" <=> conn[h] = "none"
            /\ conn'[h] = "open" => conn[h] = "open"
            /\ conn'[h] \in {"none", "open"} => \A d \in Dirs : wire'[h][d] = wire[h][d]
      /\ \A h \in Hops, d \in Dirs : Shape(wire'[h][d])
    BY <1>2 DEF LossOK
<1>4. \A p \in Procs, d \in Dirs : Ctl(hold'[p][d]) = 0 /\ (hold[p][d] = <<>> => hold'[p][d] = <<>>)
    BY <1>0, <1>1, EmptyWire DEF WiresInShape
<1>5. WiresInShape'
  <2>1. \A h \in Hops, d \in Dirs : conn'[h] = "none" => wire'[h][d] = <<>> /\ ~fin'[h][d]
      BY <1>1, <1>3 DEF WiresInShape
  <2>2. \A d \in Dirs : Ctl(wire'[3][d]) = 0
      BY <1>0, <1>1, <1>2 DEF WiresInShape, LossOK
  <2>3. Ctl(init_data') = 0
      BY <1>1 DEF WiresInShape
  <2>. QED  BY <1>3, <1>4, <2>1, <2>2, <2>3 DEF WiresInShape
<1>6. ClientOrder'
    BY <1>0, <1>1, <1>2 DEF ClientOrder, Request, LossOK
<1>7. AgentOrder'
    BY <1>0, <1>1, <1>2, <1>4 DEF AgentOrder, LossOK
<1>8. ProxyOrder'
    BY <1>0, <1>1, <1>2, <1>4 DEF ProxyOrder, LossOK
<1>9. AnswerOrder'
    BY <1>0, <1>1, <1>2 DEF AnswerOrder, LossOK
<1>. QED  BY <1>5, <1>6, <1>7, <1>8, <1>9 DEF HandshakeInv

LEMMA AgentDrops ==
    ASSUME SocketsOK, WiresInShape, DropSockets("agent")
    PROVE  /\ Loss /\ wire'[1]["up"] = <<>> /\ wire'[2]["down"] = <<>>
           /\ Spared(3)
           /\ \A h \in Hops, d \in Dirs : fin[h][d] => fin'[h][d]
           /\ \A h \in Hops, d \in Dirs : fin'[h][d] /\ ~fin[h][d] =>
                 conn[h] = "open" /\ ((h = 1 /\ d = "down") \/ (h = 2 /\ d = "up"))
           /\ wire[1]["up"] = <<>> => conn'[1] = conn[1]
           /\ wire[2]["down"] = <<>> => conn'[2] = conn[2]
<1>1. /\ HopsOf("agent") = {1, 2}
      /\ Incoming("agent", 1) = "up" /\ Incoming("agent", 2) = "down"
      /\ Outgoing("agent", 1) = "down" /\ Outgoing("agent", 2) = "up"
    BY DEF HopsOf, Near, Far, Incoming, Outgoing, Opp
<1>2. /\ Loss
      /\ \A h \in Hops \ HopsOf("agent") : Spared(h)
      /\ \A h \in HopsOf("agent") : wire'[h][Incoming("agent", h)] = <<>>
      /\ \A h \in Hops, d \in Dirs :
            fin'[h][d] = (fin[h][d] \/ (h \in HopsOf("agent") /\ d = Outgoing("agent", h) /\ conn[h] = "open"))
      /\ \A h \in HopsOf("agent") :
            conn'[h] # conn[h] => conn[h] = "open" /\ wire[h][Incoming("agent", h)] # <<>>
    BY DropStep, Ground
<1>3. \A h \in Hops, d \in Dirs : fin[h][d] => fin'[h][d]
    BY <1>2
<1>4. \A h \in Hops, d \in Dirs : fin'[h][d] /\ ~fin[h][d] =>
         conn[h] = "open" /\ ((h = 1 /\ d = "down") \/ (h = 2 /\ d = "up"))
    BY <1>1, <1>2
<1>. QED  BY <1>1, <1>2, <1>3, <1>4, Ground

LEMMA ProxyDrops ==
    ASSUME SocketsOK, WiresInShape, DropSockets("proxy")
    PROVE  /\ Loss /\ wire'[2]["up"] = <<>> /\ wire'[3]["down"] = <<>>
           /\ Spared(1)
           /\ \A h \in Hops, d \in Dirs : fin[h][d] => fin'[h][d]
           /\ \A h \in Hops, d \in Dirs : fin'[h][d] /\ ~fin[h][d] =>
                 conn[h] = "open" /\ ((h = 2 /\ d = "down") \/ (h = 3 /\ d = "up"))
           /\ wire[2]["up"] = <<>> => conn'[2] = conn[2]
           /\ wire[3]["down"] = <<>> => conn'[3] = conn[3]
<1>1. /\ HopsOf("proxy") = {2, 3}
      /\ Incoming("proxy", 2) = "up" /\ Incoming("proxy", 3) = "down"
      /\ Outgoing("proxy", 2) = "down" /\ Outgoing("proxy", 3) = "up"
    BY DEF HopsOf, Near, Far, Incoming, Outgoing, Opp
<1>2. /\ Loss
      /\ \A h \in Hops \ HopsOf("proxy") : Spared(h)
      /\ \A h \in HopsOf("proxy") : wire'[h][Incoming("proxy", h)] = <<>>
      /\ \A h \in Hops, d \in Dirs :
            fin'[h][d] = (fin[h][d] \/ (h \in HopsOf("proxy") /\ d = Outgoing("proxy", h) /\ conn[h] = "open"))
      /\ \A h \in HopsOf("proxy") :
            conn'[h] # conn[h] => conn[h] = "open" /\ wire[h][Incoming("proxy", h)] # <<>>
    BY DropStep, Ground
<1>3. \A h \in Hops, d \in Dirs : fin[h][d] => fin'[h][d]
    BY <1>2
<1>4. \A h \in Hops, d \in Dirs : fin'[h][d] /\ ~fin[h][d] =>
         conn[h] = "open" /\ ((h = 2 /\ d = "down") \/ (h = 3 /\ d = "up"))
    BY <1>1, <1>2
<1>. QED  BY <1>1, <1>2, <1>3, <1>4, Ground

LEMMA AgentFailsOrder ==
    ASSUME TypeOK, HandshakeInv, AgentFails, agent # "relay",
           UNCHANGED endVars, UNCHANGED envVars
    PROVE  HandshakeInv'
<1>1. SocketsOK /\ WiresInShape /\ ClientOrder /\ AgentOrder /\ ProxyOrder /\ AnswerOrder
    BY DEF TypeOK, HandshakeInv
<1>2. /\ agent' = "failed" /\ UNCHANGED <<proxy, relay, hold, init_data, client, mode, sent>>
    BY DEF AgentFails, endVars, envVars
<1>3. /\ Loss /\ wire'[1]["up"] = <<>> /\ wire'[2]["down"] = <<>>
      /\ \A h \in Hops, d \in Dirs : fin'[h][d] /\ ~fin[h][d] => conn[h] # "none"
    BY <1>1, AgentDrops DEF AgentFails
<1>4. \A h \in Hops : LossOK(h)
    BY <1>1, <1>3, LossFacts
<1>5. /\ Ctl(<<>>) = 0
      /\ \A h \in Hops, d \in Dirs : conn'[h] = "none" => wire'[h][d] = <<>> /\ ~fin'[h][d]
    BY <1>1, <1>3, <1>4, EmptyWire DEF LossOK, WiresInShape
<1>w. WiresInShape'
    BY <1>1, <1>2, <1>3, <1>4, <1>5, Ground DEF WiresInShape, LossOK
<1>c. ClientOrder'
    BY <1>1, <1>2, <1>3, <1>4, <1>5, Ground DEF ClientOrder, Request, LossOK
<1>g. AgentOrder'
    BY <1>1, <1>2, <1>3, <1>4, <1>5, Ground DEF AgentOrder, LossOK
<1>p. ProxyOrder'
    BY <1>1, <1>2, <1>3, <1>4, <1>5, Ground DEF ProxyOrder, LossOK
<1>n. AnswerOrder'
    BY <1>1, <1>2, <1>3, <1>4, <1>5, Ground DEF AnswerOrder, LossOK
<1>. QED  BY <1>w, <1>c, <1>g, <1>p, <1>n DEF HandshakeInv

LEMMA ProxyFailsOrder ==
    ASSUME TypeOK, HandshakeInv, ProxyFails, proxy \notin {"idle", "relay"},
           UNCHANGED endVars, UNCHANGED envVars
    PROVE  HandshakeInv'
<1>1. SocketsOK /\ WiresInShape /\ ClientOrder /\ AgentOrder /\ ProxyOrder /\ AnswerOrder
    BY DEF TypeOK, HandshakeInv
<1>2. /\ proxy' = "failed" /\ UNCHANGED <<agent, relay, hold, init_data, client, mode, sent>>
    BY DEF ProxyFails, endVars, envVars
<1>3. /\ Loss /\ wire'[2]["up"] = <<>> /\ wire'[3]["down"] = <<>>
      /\ \A h \in Hops, d \in Dirs : fin'[h][d] /\ ~fin[h][d] =>
            conn[h] # "none" /\ ((h = 2 /\ d = "down") \/ (h = 3 /\ d = "up"))
    BY <1>1, ProxyDrops DEF ProxyFails
<1>4. \A h \in Hops : LossOK(h)
    BY <1>1, <1>3, LossFacts
<1>5. /\ Ctl(<<>>) = 0 /\ Dat(<<>>) = 0
      /\ \A h \in Hops, d \in Dirs : conn'[h] = "none" => wire'[h][d] = <<>> /\ ~fin'[h][d]
    BY <1>1, <1>3, <1>4, EmptyWire DEF LossOK, WiresInShape
<1>w. WiresInShape'
    BY <1>1, <1>2, <1>3, <1>4, <1>5, Ground DEF WiresInShape, LossOK
<1>c. ClientOrder'
    BY <1>1, <1>2, <1>3, <1>4, <1>5, Ground DEF ClientOrder, Request, LossOK
<1>g. AgentOrder'
    BY <1>1, <1>2, <1>3, <1>4, <1>5, Ground DEF AgentOrder, LossOK
<1>p. ProxyOrder'
    BY <1>1, <1>2, <1>3, <1>4, <1>5, Ground DEF ProxyOrder, LossOK
<1>n. AnswerOrder'
    BY <1>1, <1>2, <1>3, <1>4, <1>5, Ground DEF AnswerOrder, LossOK
<1>. QED  BY <1>w, <1>c, <1>g, <1>p, <1>n DEF HandshakeInv

LEMMA OneWire ==
    ASSUME WiresInShape, conn' = conn, fin' = fin,
           NEW h \in Hops, NEW d \in Dirs, OthersSame(h, d), conn[h] # "none",
           Shape(wire'[h][d]), h = 3 => Ctl(wire'[h][d]) = 0,
           \A p \in Procs, e \in Dirs : Ctl(hold'[p][e]) = 0,
           Ctl(init_data') = 0
    PROVE  WiresInShape'
<1>1. \A g \in Hops, e \in Dirs : Shape(wire'[g][e])
    BY DEF WiresInShape, OthersSame
<1>2. \A g \in Hops, e \in Dirs : conn'[g] = "none" => wire'[g][e] = <<>> /\ ~fin'[g][e]
    BY DEF WiresInShape, OthersSame
<1>3. \A e \in Dirs : Ctl(wire'[3][e]) = 0
    BY Ground DEF WiresInShape, OthersSame
<1>. QED  BY <1>1, <1>2, <1>3 DEF WiresInShape

LEMMA AgentHandshakeOrder ==
    ASSUME TypeOK, HandshakeInv, AgentHandshake
    PROVE  HandshakeInv'
<1>0. SocketsOK /\ WiresInShape /\ ClientOrder /\ AgentOrder /\ ProxyOrder /\ AnswerOrder
    BY DEF TypeOK, HandshakeInv
<1>1. CASE AgentReadsRequest
  <2>1. /\ conn' = conn /\ fin' = fin /\ OthersSame(1, "up")
        /\ wire[1]["up"] # <<>> /\ Shape(wire'[1]["up"]) /\ Ctl(wire'[1]["up"]) = 0
        /\ Dat(wire[1]["up"]) = 0 => wire'[1]["up"] = <<>> /\ Ctl(wire[1]["up"]) = 1
        /\ Head(wire[1]["up"]) = wire[1]["up"][1]
        /\ Ctl(<<Head(wire[1]["up"])>>) = Ctl(wire[1]["up"])
        /\ Len(wire[1]["up"]) = 1 => wire'[1]["up"] = <<>>
      BY <1>0, <1>1, TakeStep, TakeFacts, Ground DEF AgentReadsRequest
  <2>2. /\ agent = "request" /\ agent' = "dial"
        /\ init_data' = IF mode = "plain" THEN <<Head(wire[1]["up"])>> ELSE <<>>
        /\ UNCHANGED <<proxy, relay, hold, client, mode, sent>>
      BY <1>1 DEF AgentReadsRequest, endVars, envVars
  <2>3. /\ mode = "plain" => Ctl(init_data') = 0 /\ init_data' # <<>>
        /\ mode # "plain" => init_data' = <<>> /\ Ctl(init_data') = 0
        /\ mode \in {"connect", "plain"} /\ wire'[1]["up"] = <<>>
    <3>1. /\ Len(wire[1]["up"]) = 1 /\ wire[1]["up"][1] = Request
          /\ mode \in {"connect", "plain"}
        BY <1>0, <2>1, <2>2 DEF ClientOrder, TypeOK, EnvOK
    <3>2. mode = "plain" => Ctl(<<1>>) = 0 /\ Head(wire[1]["up"]) = 1 /\ <<1>> # <<>>
        BY <2>1, <3>1 DEF Ctl, Request
    <3>. QED  BY <2>1, <2>2, <3>1, <3>2, EmptyWire
  <2>w. WiresInShape'
      BY <1>0, <2>1, <2>2, <2>3, Ground DEF WiresInShape, OthersSame
  <2>c. ClientOrder'
      BY <1>0, <2>1, <2>2, <2>3, Ground DEF ClientOrder, Request, OthersSame
  <2>g. AgentOrder'
      BY <1>0, <2>1, <2>2, <2>3, Ground DEF AgentOrder, OthersSame
  <2>p. ProxyOrder'
      BY <1>0, <2>1, <2>2, <2>3, Ground DEF ProxyOrder, OthersSame
  <2>n. AnswerOrder'
      BY <1>0, <2>1, <2>2, <2>3, Ground DEF AnswerOrder, OthersSame
  <2>. QED  BY <2>w, <2>c, <2>g, <2>p, <2>n DEF HandshakeInv
<1>2. CASE AgentRefusesRequest \/ AgentSeesClientEnd \/ AgentGivesUp
    BY <1>2, AgentFailsOrder DEF AgentRefusesRequest, AgentSeesClientEnd, AgentGivesUp
<1>3. CASE AgentDialsProxy
  <2>1. /\ agent = "dial" /\ agent' = "send_init"
        /\ conn'[1] = conn[1] /\ conn'[2] = "open" /\ conn'[3] = conn[3]
        /\ UNCHANGED <<wire, fin, proxy, relay, hold, init_data, client, mode, sent>>
      BY <1>3, Ground DEF AgentDialsProxy, endVars, envVars, TypeOK, SocketsOK
  <2>2. \A h \in Hops : conn'[h] = "none" => conn[h] = "none"
      BY <2>1 DEF Hops
  <2>3. proxy = "idle"
      BY <1>0, <2>1 DEF AgentOrder, ProxyOrder
  <2>w. WiresInShape'
      BY <1>0, <2>1, <2>2, <2>3, Ground DEF WiresInShape
  <2>c. ClientOrder'
      BY <1>0, <2>1, <2>2, <2>3, Ground DEF ClientOrder, Request
  <2>g. AgentOrder'
      BY <1>0, <2>1, <2>2, <2>3, Ground DEF AgentOrder
  <2>p. ProxyOrder'
      BY <1>0, <2>1, <2>2, <2>3, Ground DEF ProxyOrder
  <2>n. AnswerOrder'
      BY <1>0, <2>1, <2>2, <2>3, Ground DEF AnswerOrder
  <2>. QED  BY <2>w, <2>c, <2>g, <2>p, <2>n DEF HandshakeInv
<1>4. CASE AgentSendsInit
  <2>1. /\ fin' = fin /\ conn[2] # "none"
        /\ \/ /\ conn' = conn /\ conn[2] = "open" /\ ~ReaderGone(2, "up")
              /\ wire'[2]["up"] = Append(wire[2]["up"], INIT) /\ OthersSame(2, "up")
           \/ Loss /\ Hurt(2)
      BY <1>0, <1>4, PutStep, MessageFacts, Ground DEF AgentSendsInit, Control
  <2>2. /\ agent = "send_init" /\ agent' = "await_init"
        /\ UNCHANGED <<proxy, relay, hold, init_data, client, mode, sent>>
      BY <1>4 DEF AgentSendsInit, endVars, envVars
  <2>3. wire[2]["up"] = <<>> /\ proxy \in {"idle", "first_message", "failed"} /\ wire[2]["down"] = <<>>
        /\ ~(proxy = "failed" /\ ~ReaderGone(2, "up"))
    <3>1. agent = "send_init" => Dat(wire[2]["down"]) = 0 /\ Ctl(wire[2]["down"]) = 0
        BY <1>0, <2>2 DEF ProxyOrder, AnswerOrder
    <3>2. wire[2]["down"] \in Seq(Messages)
        BY Ground DEF TypeOK, SocketsOK
    <3>3. wire[2]["down"] = <<>>
        BY <2>2, <3>1, <3>2, WireFacts
    <3>4. proxy = "failed" => ReaderGone(2, "up")
        BY Ground DEF ReaderGone, Gone, HopsOf, Near, Far, Incoming
    <3>. QED  BY <1>0, <2>2, <3>3, <3>4 DEF AgentOrder, ProxyOrder
  <2>4. CASE /\ conn' = conn /\ ~ReaderGone(2, "up") /\ OthersSame(2, "up")
             /\ wire'[2]["up"] = Append(wire[2]["up"], INIT)
    <3>1. /\ Shape(wire'[2]["up"]) /\ Ctl(wire'[2]["up"]) = 1 /\ Dat(wire'[2]["up"]) = 0
          /\ wire'[2]["up"] # <<>> /\ wire'[2]["up"][1] = INIT
        BY <2>3, <2>4, AppendControl DEF Control
    <3>w. WiresInShape'
        BY <1>0, <2>1, <2>2, <2>3, <2>4, <3>1, Ground DEF WiresInShape, OthersSame
    <3>c. ClientOrder'
        BY <1>0, <2>1, <2>2, <2>3, <2>4, <3>1, Ground DEF ClientOrder, Request, OthersSame
    <3>g. AgentOrder'
        BY <1>0, <2>1, <2>2, <2>3, <2>4, <3>1, Ground DEF AgentOrder, OthersSame
    <3>p. ProxyOrder'
        BY <1>0, <2>1, <2>2, <2>3, <2>4, <3>1, Ground DEF ProxyOrder, OthersSame
    <3>n. AnswerOrder'
        BY <1>0, <2>1, <2>2, <2>3, <2>4, <3>1, Ground DEF AnswerOrder, OthersSame
    <3>. QED  BY <3>w, <3>c, <3>g, <3>p, <3>n DEF HandshakeInv
  <2>5. CASE Loss /\ Hurt(2)
    <3>1. \A h \in Hops : LossOK(h)
        BY <1>0, <2>5, LossFacts
    <3>2. conn'[2] # "open"
        BY <2>5 DEF Hurt
    <3>3. \A h \in Hops, d \in Dirs : conn'[h] = "none" => wire'[h][d] = <<>> /\ ~fin'[h][d]
        BY <1>0, <2>1, <3>1 DEF LossOK, WiresInShape
    <3>w. WiresInShape'
        BY <1>0, <2>1, <2>2, <2>3, <3>1, <3>2, <3>3, Ground DEF WiresInShape, LossOK
    <3>c. ClientOrder'
        BY <1>0, <2>1, <2>2, <2>3, <3>1, <3>2, <3>3, Ground DEF ClientOrder, Request, LossOK
    <3>g. AgentOrder'
        BY <1>0, <2>1, <2>2, <2>3, <3>1, <3>2, <3>3, Ground DEF AgentOrder, LossOK
    <3>p. ProxyOrder'
        BY <1>0, <2>1, <2>2, <2>3, <3>1, <3>2, <3>3, Ground DEF ProxyOrder, LossOK
    <3>n. AnswerOrder'
        BY <1>0, <2>1, <2>2, <2>3, <3>1, <3>2, <3>3, Ground DEF AnswerOrder, LossOK
    <3>. QED  BY <3>w, <3>c, <3>g, <3>p, <3>n DEF HandshakeInv
  <2>. QED  BY <2>1, <2>4, <2>5
<1>5. CASE AgentReadsSuccess
  <2>1. /\ conn' = conn /\ fin' = fin /\ OthersSame(2, "down")
        /\ wire[2]["down"] # <<>> /\ Shape(wire'[2]["down"]) /\ Ctl(wire'[2]["down"]) = 0
        /\ Dat(wire[2]["down"]) = 0 => wire'[2]["down"] = <<>> /\ Ctl(wire[2]["down"]) = 1
        /\ Head(wire[2]["down"]) = wire[2]["down"][1]
        /\ Ctl(<<Head(wire[2]["down"])>>) = Ctl(wire[2]["down"])
        /\ Len(wire[2]["down"]) = 1 => wire'[2]["down"] = <<>>
      BY <1>0, <1>5, TakeStep, TakeFacts, Ground DEF AgentReadsSuccess
  <2>2. /\ agent = "await_init" /\ wire[2]["down"][1] = SUCCESS
        /\ agent' = IF mode = "connect" THEN "reply" ELSE "send_init_data"
        /\ UNCHANGED <<proxy, relay, hold, init_data, client, mode, sent>>
        /\ mode \in {"connect", "plain"}
      BY <1>5, <2>1 DEF AgentReadsSuccess, endVars, envVars, TypeOK, EnvOK
  <2>3. proxy = "relay"
      BY <1>0, <2>1, <2>2 DEF AnswerOrder
  <2>w. WiresInShape'
      BY <1>0, <2>1, <2>2, <2>3, Ground DEF WiresInShape, OthersSame
  <2>c. ClientOrder'
      BY <1>0, <2>1, <2>2, <2>3, Ground DEF ClientOrder, Request, OthersSame
  <2>g. AgentOrder'
      BY <1>0, <2>1, <2>2, <2>3, Ground DEF AgentOrder, OthersSame
  <2>p. ProxyOrder'
      BY <1>0, <2>1, <2>2, <2>3, Ground DEF ProxyOrder, OthersSame
  <2>n. AnswerOrder'
      BY <1>0, <2>1, <2>2, <2>3, Ground DEF AnswerOrder, OthersSame
  <2>. QED  BY <2>w, <2>c, <2>g, <2>p, <2>n DEF HandshakeInv
<1>6. CASE AgentReadsNoSuccess /\ Take(2, "down")
  <2>1. /\ conn' = conn /\ fin' = fin /\ OthersSame(2, "down")
        /\ wire[2]["down"] # <<>> /\ Shape(wire'[2]["down"]) /\ Ctl(wire'[2]["down"]) = 0
        /\ Dat(wire[2]["down"]) = 0 => wire'[2]["down"] = <<>>
      BY <1>0, <1>6, TakeStep, TakeFacts, Ground
  <2>2. /\ agent = "await_init" /\ agent' = "give_up"
        /\ UNCHANGED <<proxy, relay, hold, init_data, client, mode, sent>>
      BY <1>6, <2>1 DEF AgentReadsNoSuccess, AtEnd, endVars, envVars
  <2>3. proxy \notin {"idle", "first_message", "dial", "send_fail", "send_success"}
        /\ (proxy = "failed" \/ proxy = "give_up" => wire'[2]["down"] = <<>>)
    <3>1. proxy # "relay" => Dat(wire[2]["down"]) = 0
        BY <1>0 DEF ProxyOrder
    <3>. QED  BY <1>0, <2>1, <3>1 DEF ProxyOrder
  <2>4. Dat(<<>>) = 0
      BY EmptyWire
  <2>w. WiresInShape'
      BY <1>0, <2>1, <2>2, <2>3, <2>4, Ground DEF WiresInShape, OthersSame
  <2>c. ClientOrder'
      BY <1>0, <2>1, <2>2, <2>3, <2>4, Ground DEF ClientOrder, Request, OthersSame
  <2>g. AgentOrder'
      BY <1>0, <2>1, <2>2, <2>3, <2>4, Ground DEF AgentOrder, OthersSame
  <2>p. ProxyOrder'
      BY <1>0, <2>1, <2>2, <2>3, <2>4, Ground DEF ProxyOrder, OthersSame
  <2>n. AnswerOrder'
      BY <1>0, <2>1, <2>2, <2>3, <2>4, Ground DEF AnswerOrder, OthersSame
  <2>. QED  BY <2>w, <2>c, <2>g, <2>p, <2>n DEF HandshakeInv
<1>7. CASE AgentReadsNoSuccess /\ ~Take(2, "down")
  <2>1. AgentFails /\ agent # "relay" /\ UNCHANGED endVars /\ UNCHANGED envVars
      BY <1>7 DEF AgentReadsNoSuccess
  <2>. QED  BY <2>1, AgentFailsOrder
<1>8. CASE AgentReplies
  <2>1. /\ fin' = fin /\ conn[1] # "none"
        /\ \/ /\ conn' = conn /\ conn[1] = "open" /\ ~ReaderGone(1, "down")
              /\ wire'[1]["down"] = Append(wire[1]["down"], ESTABLISHED) /\ OthersSame(1, "down")
           \/ Loss /\ Hurt(1)
      BY <1>0, <1>8, PutStep, MessageFacts, Ground DEF AgentReplies, Control
  <2>2. /\ agent = "reply" /\ agent' = "relay" /\ StartRelays("agent")
        /\ UNCHANGED <<proxy, hold, init_data, client, mode, sent>>
      BY <1>8 DEF AgentReplies, endVars, envVars
  <2>3. /\ \A d \in Dirs : relay'["agent"][d] = "forward" /\ relay'["proxy"][d] = relay["proxy"][d]
        /\ proxy = "relay" /\ wire[1]["down"] = <<>>
      BY <1>0, <2>2, Ground DEF StartRelays, AgentOrder, TypeOK, TasksOK
  <2>4. CASE /\ conn' = conn /\ ~ReaderGone(1, "down") /\ OthersSame(1, "down")
             /\ wire'[1]["down"] = Append(wire[1]["down"], ESTABLISHED)
    <3>1. /\ Shape(wire'[1]["down"]) /\ Ctl(wire'[1]["down"]) = 1 /\ Dat(wire'[1]["down"]) = 0
          /\ wire'[1]["down"] # <<>> /\ wire'[1]["down"][1] = ESTABLISHED
        BY <2>3, <2>4, AppendControl DEF Control
    <3>w. WiresInShape'
        BY <1>0, <2>1, <2>2, <2>3, <2>4, <3>1, Ground DEF WiresInShape, OthersSame
    <3>c. ClientOrder'
        BY <1>0, <2>1, <2>2, <2>3, <2>4, <3>1, Ground DEF ClientOrder, Request, OthersSame
    <3>g. AgentOrder'
        BY <1>0, <2>1, <2>2, <2>3, <2>4, <3>1, Ground DEF AgentOrder, OthersSame
    <3>p. ProxyOrder'
        BY <1>0, <2>1, <2>2, <2>3, <2>4, <3>1, Ground DEF ProxyOrder, OthersSame
    <3>n. AnswerOrder'
        BY <1>0, <2>1, <2>2, <2>3, <2>4, <3>1, Ground DEF AnswerOrder, OthersSame
    <3>. QED  BY <3>w, <3>c, <3>g, <3>p, <3>n DEF HandshakeInv
  <2>5. CASE Loss /\ Hurt(1)
    <3>1. \A h \in Hops : LossOK(h)
        BY <1>0, <2>5, LossFacts
    <3>2. conn'[1] # "open"
        BY <2>5 DEF Hurt
    <3>3. \A h \in Hops, d \in Dirs : conn'[h] = "none" => wire'[h][d] = <<>> /\ ~fin'[h][d]
        BY <1>0, <2>1, <3>1 DEF LossOK, WiresInShape
    <3>w. WiresInShape'
        BY <1>0, <2>1, <2>2, <2>3, <3>1, <3>2, <3>3, Ground DEF WiresInShape, LossOK
    <3>c. ClientOrder'
        BY <1>0, <2>1, <2>2, <2>3, <3>1, <3>2, <3>3, Ground DEF ClientOrder, Request, LossOK
    <3>g. AgentOrder'
        BY <1>0, <2>1, <2>2, <2>3, <3>1, <3>2, <3>3, Ground DEF AgentOrder, LossOK
    <3>p. ProxyOrder'
        BY <1>0, <2>1, <2>2, <2>3, <3>1, <3>2, <3>3, Ground DEF ProxyOrder, LossOK
    <3>n. AnswerOrder'
        BY <1>0, <2>1, <2>2, <2>3, <3>1, <3>2, <3>3, Ground DEF AnswerOrder, LossOK
    <3>. QED  BY <3>w, <3>c, <3>g, <3>p, <3>n DEF HandshakeInv
  <2>. QED  BY <2>1, <2>4, <2>5
<1>9. CASE AgentSendsInitData
  <2>0. /\ init_data[1] \in Messages /\ init_data[1] > 0
        /\ wire[2]["up"] \in Seq(Messages) /\ Ctl(wire[2]["up"]) = 0
    <3>1. init_data # <<>> /\ init_data \in Seq(Messages) /\ Ctl(init_data) = 0 /\ proxy = "relay"
        BY <1>0, <1>9 DEF AgentSendsInitData, AgentOrder, TypeOK, TasksOK, WiresInShape
    <3>2. init_data[1] \in Messages
        BY <3>1, HeadTailProperties
    <3>3. init_data[1] \in Int /\ init_data[1] # 0
        BY <3>2, MessageFacts
    <3>4. init_data[1] > 0
        BY <3>1, <3>3 DEF Ctl
    <3>. QED  BY <1>0, <3>1, <3>2, <3>4, Ground DEF ProxyOrder, TypeOK, SocketsOK
  <2>1. /\ fin' = fin /\ conn[2] # "none"
        /\ \/ /\ conn' = conn /\ conn[2] = "open" /\ ~ReaderGone(2, "up")
              /\ wire'[2]["up"] = Append(wire[2]["up"], init_data[1]) /\ OthersSame(2, "up")
           \/ Loss /\ Hurt(2)
      BY <1>0, <1>9, <2>0, PutStep, Ground DEF AgentSendsInitData
  <2>2. /\ agent = "send_init_data" /\ agent' = "relay" /\ StartRelays("agent") /\ init_data' = <<>>
        /\ UNCHANGED <<proxy, hold, client, mode, sent>>
      BY <1>9 DEF AgentSendsInitData, endVars, envVars
  <2>3. /\ \A d \in Dirs : relay'["agent"][d] = "forward" /\ relay'["proxy"][d] = relay["proxy"][d]
        /\ proxy = "relay" /\ Ctl(<<>>) = 0
      BY <1>0, <2>2, Ground, EmptyWire DEF StartRelays, AgentOrder, TypeOK, TasksOK
  <2>4. CASE conn' = conn /\ OthersSame(2, "up") /\ wire'[2]["up"] = Append(wire[2]["up"], init_data[1])
    <3>1. /\ Shape(wire'[2]["up"]) /\ Ctl(wire'[2]["up"]) = 0 /\ wire'[2]["up"] # <<>>
        BY <1>0, <2>0, <2>4, AppendChunk, Ground DEF WiresInShape
    <3>2. \A p \in Procs, e \in Dirs : Ctl(hold'[p][e]) = 0
        BY <1>0, <2>2 DEF WiresInShape
    <3>w. WiresInShape'
        BY <1>0, <2>1, <2>2, <2>3, <2>4, <3>1, <3>2, Ground, OneWire
    <3>c. ClientOrder'
        BY <1>0, <2>1, <2>2, <2>3, <2>4, <3>1, Ground DEF ClientOrder, Request, OthersSame
    <3>g. AgentOrder'
        BY <1>0, <2>1, <2>2, <2>3, <2>4, <3>1, Ground DEF AgentOrder, OthersSame
    <3>p. ProxyOrder'
        BY <1>0, <2>1, <2>2, <2>3, <2>4, <3>1, Ground DEF ProxyOrder, OthersSame
    <3>n. AnswerOrder'
        BY <1>0, <2>1, <2>2, <2>3, <2>4, <3>1, Ground DEF AnswerOrder, OthersSame
    <3>. QED  BY <3>w, <3>c, <3>g, <3>p, <3>n DEF HandshakeInv
  <2>5. CASE Loss /\ Hurt(2)
    <3>1. \A h \in Hops : LossOK(h)
        BY <1>0, <2>5, LossFacts
    <3>2. conn'[2] # "open"
        BY <2>5 DEF Hurt
    <3>3. \A h \in Hops, d \in Dirs : conn'[h] = "none" => wire'[h][d] = <<>> /\ ~fin'[h][d]
        BY <1>0, <2>1, <3>1 DEF LossOK, WiresInShape
    <3>w. WiresInShape'
        BY <1>0, <2>1, <2>2, <2>3, <3>1, <3>2, <3>3, Ground DEF WiresInShape, LossOK
    <3>c. ClientOrder'
        BY <1>0, <2>1, <2>2, <2>3, <3>1, <3>2, <3>3, Ground DEF ClientOrder, Request, LossOK
    <3>g. AgentOrder'
        BY <1>0, <2>1, <2>2, <2>3, <3>1, <3>2, <3>3, Ground DEF AgentOrder, LossOK
    <3>p. ProxyOrder'
        BY <1>0, <2>1, <2>2, <2>3, <3>1, <3>2, <3>3, Ground DEF ProxyOrder, LossOK
    <3>n. AnswerOrder'
        BY <1>0, <2>1, <2>2, <2>3, <3>1, <3>2, <3>3, Ground DEF AnswerOrder, LossOK
    <3>. QED  BY <3>w, <3>c, <3>g, <3>p, <3>n DEF HandshakeInv
  <2>. QED  BY <2>1, <2>4, <2>5
<1>. QED  BY <1>1, <1>2, <1>3, <1>4, <1>5, <1>6, <1>7, <1>8, <1>9 DEF AgentHandshake

LEMMA ProxyHandshakeOrder ==
    ASSUME TypeOK, HandshakeInv, ProxyHandshake
    PROVE  HandshakeInv'
<1>0. SocketsOK /\ WiresInShape /\ ClientOrder /\ AgentOrder /\ ProxyOrder /\ AnswerOrder
    BY DEF TypeOK, HandshakeInv
<1>1. CASE ProxyAccepts
  <2>1. /\ proxy = "idle" /\ proxy' = "first_message" /\ conn[2] # "none"
        /\ UNCHANGED <<conn, wire, fin, agent, relay, hold, init_data, client, mode, sent>>
      BY <1>1 DEF ProxyAccepts, endVars, envVars
  <2>w. WiresInShape'
      BY <1>0, <2>1, Ground DEF WiresInShape
  <2>c. ClientOrder'
      BY <1>0, <2>1, Ground DEF ClientOrder, Request
  <2>g. AgentOrder'
      BY <1>0, <2>1, Ground DEF AgentOrder
  <2>p. ProxyOrder'
      BY <1>0, <2>1, Ground DEF ProxyOrder
  <2>n. AnswerOrder'
      BY <1>0, <2>1, Ground DEF AnswerOrder
  <2>. QED  BY <2>w, <2>c, <2>g, <2>p, <2>n DEF HandshakeInv
<1>2. CASE ProxyReadsInit
  <2>1. /\ conn' = conn /\ fin' = fin /\ OthersSame(2, "up")
        /\ wire[2]["up"] # <<>> /\ Shape(wire'[2]["up"]) /\ Ctl(wire'[2]["up"]) = 0
        /\ Dat(wire[2]["up"]) = 0 => wire'[2]["up"] = <<>> /\ Ctl(wire[2]["up"]) = 1
        /\ Head(wire[2]["up"]) = wire[2]["up"][1]
        /\ Ctl(<<Head(wire[2]["up"])>>) = Ctl(wire[2]["up"])
        /\ Len(wire[2]["up"]) = 1 => wire'[2]["up"] = <<>>
      BY <1>0, <1>2, TakeStep, TakeFacts, Ground DEF ProxyReadsInit
  <2>2. /\ proxy = "first_message" /\ proxy' = "dial" /\ wire[2]["up"][1] = INIT
        /\ UNCHANGED <<agent, relay, hold, init_data, client, mode, sent>>
      BY <1>2, <2>1 DEF ProxyReadsInit, endVars, envVars
  <2>3. /\ agent \in {"await_init", "failed"} /\ Dat(wire'[2]["up"]) = 0 /\ conn[2] # "none"
    <3>1. agent # "relay"
        BY <1>0, <2>2 DEF AgentOrder
    <3>2. Dat(<<>>) = 0 /\ Dat(wire[2]["up"]) = 0
        BY <1>0, <3>1, EmptyWire DEF AgentOrder
    <3>. QED  BY <1>0, <2>1, <2>2, <3>1, <3>2 DEF AgentOrder, ProxyOrder, TypeOK, TasksOK, AgentPoints
  <2>w. WiresInShape'
      BY <1>0, <2>1, <2>2, <2>3, Ground DEF WiresInShape, OthersSame
  <2>c. ClientOrder'
      BY <1>0, <2>1, <2>2, <2>3, Ground DEF ClientOrder, Request, OthersSame
  <2>g. AgentOrder'
      BY <1>0, <2>1, <2>2, <2>3, Ground DEF AgentOrder, OthersSame
  <2>p. ProxyOrder'
      BY <1>0, <2>1, <2>2, <2>3, Ground DEF ProxyOrder, OthersSame
  <2>n. AnswerOrder'
      BY <1>0, <2>1, <2>2, <2>3, Ground DEF AnswerOrder, OthersSame
  <2>. QED  BY <2>w, <2>c, <2>g, <2>p, <2>n DEF HandshakeInv
<1>3. CASE ProxyReadsNoInit /\ Take(2, "up")
  <2>1. /\ conn' = conn /\ fin' = fin /\ OthersSame(2, "up")
        /\ wire[2]["up"] # <<>> /\ Shape(wire'[2]["up"]) /\ Ctl(wire'[2]["up"]) = 0
        /\ Dat(wire[2]["up"]) = 0 => wire'[2]["up"] = <<>>
      BY <1>0, <1>3, TakeStep, TakeFacts, Ground
  <2>2. /\ proxy = "first_message" /\ proxy' = "give_up"
        /\ UNCHANGED <<agent, relay, hold, init_data, client, mode, sent>>
      BY <1>3, <2>1 DEF ProxyReadsNoInit, AtEnd, endVars, envVars
  <2>3. /\ agent \notin {"relay", "send_init"} /\ Dat(wire'[2]["up"]) = 0 /\ conn[2] # "none"
        /\ Dat(wire[2]["down"]) = 0
    <3>1. agent # "relay"
        BY <1>0, <2>2 DEF AgentOrder
    <3>2. Dat(<<>>) = 0 /\ Dat(wire[2]["up"]) = 0
        BY <1>0, <3>1, EmptyWire DEF AgentOrder
    <3>. QED  BY <1>0, <2>1, <2>2, <3>1, <3>2 DEF AgentOrder, ProxyOrder
  <2>w. WiresInShape'
      BY <1>0, <2>1, <2>2, <2>3, Ground DEF WiresInShape, OthersSame
  <2>c. ClientOrder'
      BY <1>0, <2>1, <2>2, <2>3, Ground DEF ClientOrder, Request, OthersSame
  <2>g. AgentOrder'
      BY <1>0, <2>1, <2>2, <2>3, Ground DEF AgentOrder, OthersSame
  <2>p. ProxyOrder'
      BY <1>0, <2>1, <2>2, <2>3, Ground DEF ProxyOrder, OthersSame
  <2>n. AnswerOrder'
      BY <1>0, <2>1, <2>2, <2>3, Ground DEF AnswerOrder, OthersSame
  <2>. QED  BY <2>w, <2>c, <2>g, <2>p, <2>n DEF HandshakeInv
<1>4. CASE ProxyReadsNoInit /\ ~Take(2, "up")
  <2>1. ProxyFails /\ proxy \notin {"idle", "relay"} /\ UNCHANGED endVars /\ UNCHANGED envVars
      BY <1>4 DEF ProxyReadsNoInit
  <2>. QED  BY <2>1, ProxyFailsOrder
<1>5. CASE ProxyDialsDestination
  <2>1. /\ proxy = "dial" /\ proxy' = "send_success"
        /\ conn'[1] = conn[1] /\ conn'[3] = "open" /\ conn'[2] = conn[2]
        /\ UNCHANGED <<wire, fin, agent, relay, hold, init_data, client, mode, sent>>
      BY <1>5, Ground DEF ProxyDialsDestination, endVars, envVars, TypeOK, SocketsOK
  <2>2. \A h \in Hops : conn'[h] = "none" => conn[h] = "none"
      BY <2>1 DEF Hops
  <2>w. WiresInShape'
      BY <1>0, <2>1, <2>2, Ground DEF WiresInShape
  <2>c. ClientOrder'
      BY <1>0, <2>1, <2>2, Ground DEF ClientOrder, Request
  <2>g. AgentOrder'
      BY <1>0, <2>1, <2>2, Ground DEF AgentOrder
  <2>p. ProxyOrder'
      BY <1>0, <2>1, <2>2, Ground DEF ProxyOrder
  <2>n. AnswerOrder'
      BY <1>0, <2>1, <2>2, Ground DEF AnswerOrder
  <2>. QED  BY <2>w, <2>c, <2>g, <2>p, <2>n DEF HandshakeInv
<1>6. CASE ProxyCannotDial
  <2>1. /\ proxy = "dial" /\ proxy' = "send_fail"
        /\ UNCHANGED <<conn, wire, fin, agent, relay, hold, init_data, client, mode, sent>>
      BY <1>6 DEF ProxyCannotDial, endVars, envVars
  <2>w. WiresInShape'
      BY <1>0, <2>1, Ground DEF WiresInShape
  <2>c. ClientOrder'
      BY <1>0, <2>1, Ground DEF ClientOrder, Request
  <2>g. AgentOrder'
      BY <1>0, <2>1, Ground DEF AgentOrder
  <2>p. ProxyOrder'
      BY <1>0, <2>1, Ground DEF ProxyOrder
  <2>n. AnswerOrder'
      BY <1>0, <2>1, Ground DEF AnswerOrder
  <2>. QED  BY <2>w, <2>c, <2>g, <2>p, <2>n DEF HandshakeInv
<1>7. CASE ProxySendsFail
  <2>1. /\ fin' = fin /\ conn[2] # "none"
        /\ \/ /\ conn' = conn /\ conn[2] = "open" /\ ~ReaderGone(2, "down")
              /\ wire'[2]["down"] = Append(wire[2]["down"], FAIL) /\ OthersSame(2, "down")
           \/ Loss /\ Hurt(2)
      BY <1>0, <1>7, PutStep, MessageFacts, Ground DEF ProxySendsFail, Control
  <2>2. /\ proxy = "send_fail" /\ proxy' = "give_up"
        /\ UNCHANGED <<agent, relay, hold, init_data, client, mode, sent>>
      BY <1>7 DEF ProxySendsFail, endVars, envVars
  <2>3. /\ wire[2]["down"] = <<>> /\ agent \in {"await_init", "failed"} /\ FAIL # SUCCESS
        /\ agent = "failed" => ReaderGone(2, "down")
    <3>1. FAIL # SUCCESS
        BY DEF FAIL, SUCCESS
    <3>2. agent = "failed" => ReaderGone(2, "down")
        BY Ground DEF ReaderGone, Gone, HopsOf, Near, Far, Incoming
    <3>. QED  BY <1>0, <2>2, <3>1, <3>2 DEF ProxyOrder
  <2>4. CASE /\ conn' = conn /\ ~ReaderGone(2, "down") /\ OthersSame(2, "down")
             /\ wire'[2]["down"] = Append(wire[2]["down"], FAIL)
    <3>1. /\ Shape(wire'[2]["down"]) /\ Ctl(wire'[2]["down"]) = 1 /\ Dat(wire'[2]["down"]) = 0
          /\ wire'[2]["down"] # <<>> /\ wire'[2]["down"][1] = FAIL
        BY <2>3, <2>4, AppendControl DEF Control
    <3>w. WiresInShape'
        BY <1>0, <2>1, <2>2, <2>3, <2>4, <3>1, Ground DEF WiresInShape, OthersSame
    <3>c. ClientOrder'
        BY <1>0, <2>1, <2>2, <2>3, <2>4, <3>1, Ground DEF ClientOrder, Request, OthersSame
    <3>g. AgentOrder'
        BY <1>0, <2>1, <2>2, <2>3, <2>4, <3>1, Ground DEF AgentOrder, OthersSame
    <3>p. ProxyOrder'
        BY <1>0, <2>1, <2>2, <2>3, <2>4, <3>1, Ground DEF ProxyOrder, OthersSame
    <3>n. AnswerOrder'
        BY <1>0, <2>1, <2>2, <2>3, <2>4, <3>1, Ground DEF AnswerOrder, OthersSame
    <3>. QED  BY <3>w, <3>c, <3>g, <3>p, <3>n DEF HandshakeInv
  <2>5. CASE Loss /\ Hurt(2)
    <3>1. \A h \in Hops : LossOK(h)
        BY <1>0, <2>5, LossFacts
    <3>2. conn'[2] # "open"
        BY <2>5 DEF Hurt
    <3>3. \A h \in Hops, d \in Dirs : conn'[h] = "none" => wire'[h][d] = <<>> /\ ~fin'[h][d]
        BY <1>0, <2>1, <3>1 DEF LossOK, WiresInShape
    <3>w. WiresInShape'
        BY <1>0, <2>1, <2>2, <2>3, <3>1, <3>2, <3>3, Ground DEF WiresInShape, LossOK
    <3>c. ClientOrder'
        BY <1>0, <2>1, <2>2, <2>3, <3>1, <3>2, <3>3, Ground DEF ClientOrder, Request, LossOK
    <3>g. AgentOrder'
        BY <1>0, <2>1, <2>2, <2>3, <3>1, <3>2, <3>3, Ground DEF AgentOrder, LossOK
    <3>p. ProxyOrder'
        BY <1>0, <2>1, <2>2, <2>3, <3>1, <3>2, <3>3, Ground DEF ProxyOrder, LossOK
    <3>n. AnswerOrder'
        BY <1>0, <2>1, <2>2, <2>3, <3>1, <3>2, <3>3, Ground DEF AnswerOrder, LossOK
    <3>. QED  BY <3>w, <3>c, <3>g, <3>p, <3>n DEF HandshakeInv
  <2>. QED  BY <2>1, <2>4, <2>5
<1>8. CASE ProxyGivesUp
  <2>1. ProxyFails /\ proxy \notin {"idle", "relay"} /\ UNCHANGED endVars /\ UNCHANGED envVars
      BY <1>8 DEF ProxyGivesUp
  <2>. QED  BY <2>1, ProxyFailsOrder
<1>9. CASE ProxySendsSuccess
  <2>1. /\ fin' = fin /\ conn[2] # "none"
        /\ \/ /\ conn' = conn /\ conn[2] = "open" /\ ~ReaderGone(2, "down")
              /\ wire'[2]["down"] = Append(wire[2]["down"], SUCCESS) /\ OthersSame(2, "down")
           \/ Loss /\ Hurt(2)
      BY <1>0, <1>9, PutStep, MessageFacts, Ground DEF ProxySendsSuccess, Control
  <2>2. /\ proxy = "send_success" /\ proxy' = "relay" /\ StartRelays("proxy")
        /\ UNCHANGED <<agent, hold, init_data, client, mode, sent>>
      BY <1>9 DEF ProxySendsSuccess, endVars, envVars
  <2>3. /\ \A d \in Dirs : relay'["proxy"][d] = "forward" /\ relay'["agent"][d] = relay["agent"][d]
        /\ wire[2]["down"] = <<>> /\ agent \in {"await_init", "failed"}
        /\ agent = "failed" => ReaderGone(2, "down")
    <3>1. \A d \in Dirs : relay'["proxy"][d] = "forward" /\ relay'["agent"][d] = relay["agent"][d]
        BY <2>2, Ground DEF StartRelays, TypeOK, TasksOK
    <3>2. agent = "failed" => ReaderGone(2, "down")
        BY Ground DEF ReaderGone, Gone, HopsOf, Near, Far, Incoming
    <3>. QED  BY <1>0, <2>2, <3>1, <3>2 DEF ProxyOrder
  <2>4. CASE /\ conn' = conn /\ ~ReaderGone(2, "down") /\ OthersSame(2, "down")
             /\ wire'[2]["down"] = Append(wire[2]["down"], SUCCESS)
    <3>1. /\ Shape(wire'[2]["down"]) /\ Ctl(wire'[2]["down"]) = 1 /\ Dat(wire'[2]["down"]) = 0
          /\ wire'[2]["down"] # <<>> /\ wire'[2]["down"][1] = SUCCESS
        BY <2>3, <2>4, AppendControl DEF Control
    <3>w. WiresInShape'
        BY <1>0, <2>1, <2>2, <2>3, <2>4, <3>1, Ground DEF WiresInShape, OthersSame
    <3>c. ClientOrder'
        BY <1>0, <2>1, <2>2, <2>3, <2>4, <3>1, Ground DEF ClientOrder, Request, OthersSame
    <3>g. AgentOrder'
        BY <1>0, <2>1, <2>2, <2>3, <2>4, <3>1, Ground DEF AgentOrder, OthersSame
    <3>p. ProxyOrder'
        BY <1>0, <2>1, <2>2, <2>3, <2>4, <3>1, Ground DEF ProxyOrder, OthersSame
    <3>n. AnswerOrder'
        BY <1>0, <2>1, <2>2, <2>3, <2>4, <3>1, Ground DEF AnswerOrder, OthersSame
    <3>. QED  BY <3>w, <3>c, <3>g, <3>p, <3>n DEF HandshakeInv
  <2>5. CASE Loss /\ Hurt(2)
    <3>1. \A h \in Hops : LossOK(h)
        BY <1>0, <2>5, LossFacts
    <3>2. conn'[2] # "open"
        BY <2>5 DEF Hurt
    <3>3. \A h \in Hops, d \in Dirs : conn'[h] = "none" => wire'[h][d] = <<>> /\ ~fin'[h][d]
        BY <1>0, <2>1, <3>1 DEF LossOK, WiresInShape
    <3>w. WiresInShape'
        BY <1>0, <2>1, <2>2, <2>3, <3>1, <3>2, <3>3, Ground DEF WiresInShape, LossOK
    <3>c. ClientOrder'
        BY <1>0, <2>1, <2>2, <2>3, <3>1, <3>2, <3>3, Ground DEF ClientOrder, Request, LossOK
    <3>g. AgentOrder'
        BY <1>0, <2>1, <2>2, <2>3, <3>1, <3>2, <3>3, Ground DEF AgentOrder, LossOK
    <3>p. ProxyOrder'
        BY <1>0, <2>1, <2>2, <2>3, <3>1, <3>2, <3>3, Ground DEF ProxyOrder, LossOK
    <3>n. AnswerOrder'
        BY <1>0, <2>1, <2>2, <2>3, <3>1, <3>2, <3>3, Ground DEF AnswerOrder, LossOK
    <3>. QED  BY <3>w, <3>c, <3>g, <3>p, <3>n DEF HandshakeInv
  <2>. QED  BY <2>1, <2>4, <2>5
<1>. QED  BY <1>1, <1>2, <1>3, <1>4, <1>5, <1>6, <1>7, <1>8, <1>9 DEF ProxyHandshake

\* A relay task that forwards belongs to a process that has ended its handshake,
\* and finds only chunks in its stream.
LEMMA RelayReadsData ==
    ASSUME HandshakeInv, TypeOK, NEW p \in Procs, NEW d \in Dirs, relay[p][d] # "none"
    PROVE  /\ Ctl(wire[Src(p, d)][d]) = 0 /\ proxy = "relay"
           /\ p = "agent" => agent = "relay"
<1>1. p = "agent" => agent = "relay"
    BY DEF HandshakeInv, AgentOrder
<1>2. proxy = "relay"
    BY <1>1 DEF HandshakeInv, AgentOrder, ProxyOrder, Procs
<1>3. /\ p = "agent" => Ctl(wire[1]["up"]) = 0 /\ Ctl(wire[2]["down"]) = 0
      /\ Ctl(wire[2]["up"]) = 0 /\ Ctl(wire[3]["down"]) = 0
    BY <1>1, <1>2, Ground DEF HandshakeInv, WiresInShape, ClientOrder, ProxyOrder, AnswerOrder
<1>. QED  BY <1>1, <1>2, <1>3 DEF Src, Near, Far, Procs, Dirs

LEMMA RelayOrder ==
    ASSUME TypeOK, HandshakeInv, NEW p \in Procs, NEW d \in Dirs, RelayTask(p, d)
    PROVE  HandshakeInv'
<1>0. SocketsOK /\ WiresInShape /\ ClientOrder /\ AgentOrder /\ ProxyOrder /\ AnswerOrder
    BY DEF TypeOK, HandshakeInv
<1>a. /\ relay[p][d] # "none" /\ UNCHANGED <<agent, proxy, init_data, client, mode, sent>>
      /\ Src(p, d) \in Hops /\ Dst(p, d) \in Hops
    BY Geometry
    DEF RelayTask, RelayReads, RelaySeesEnd, RelayWrites, RelayWriteFails, RelayCloses, endVars, envVars
<1>b. /\ Ctl(wire[Src(p, d)][d]) = 0 /\ proxy = "relay"
      /\ p = "agent" => agent = "relay"
    BY <1>a, RelayReadsData
<1>c. /\ hold \in [Procs -> [Dirs -> Seq(Messages)]]
      /\ relay \in [Procs -> [Dirs -> {"none", "forward", "close", "done"}]]
      /\ \A h \in Hops, e \in Dirs : wire[h][e] \in Seq(Messages)
    BY DEF TypeOK, TasksOK, SocketsOK
<1>1. CASE RelayReads(p, d)
  <2>. DEFINE h == Src(p, d)
              m == Head(wire[h][d])
  <2>1. /\ conn' = conn /\ fin' = fin /\ OthersSame(h, d)
        /\ wire[h][d] # <<>> /\ Shape(wire'[h][d]) /\ Ctl(wire'[h][d]) = 0
        /\ Dat(wire[h][d]) # 0 /\ m > 0 /\ Ctl(<<m>>) = 0
    <3>1. /\ Take(h, d)
        BY <1>1 DEF RelayReads
    <3>. QED  BY <1>0, <1>a, <1>b, <3>1, TakeStep, TakeFacts
  <2>2. hold' = [hold EXCEPT ![p][d] = <<m>>] /\ relay' = relay
      BY <1>1, <2>1 DEF RelayReads, IsData
  <2>. HIDE DEF m
  <2>3. /\ hold'[p][d] = <<m>>
        /\ \A q \in Procs, e \in Dirs : q # p \/ e # d => hold'[q][e] = hold[q][e]
      BY <1>c, <2>2
  <2>4. \A q \in Procs, e \in Dirs : Ctl(hold'[q][e]) = 0
      BY <1>0, <2>1, <2>3 DEF WiresInShape
  <2>5. agent # "relay" => p = "proxy" /\ d = "down"
      BY <1>0, <1>b, <2>1, <2>3, EmptyWire DEF AgentOrder, Src, Near, Procs, Dirs
  <2>6. conn[h] # "none"
      BY <1>0, <1>a, <2>1 DEF WiresInShape
  <2>7. /\ (h = 1 /\ d = "up" /\ p = "agent") \/ (h = 2 /\ d = "down" /\ p = "agent")
           \/ (h = 2 /\ d = "up" /\ p = "proxy") \/ (h = 3 /\ d = "down" /\ p = "proxy")
      BY DEF Src, Near, Far, Procs, Dirs
  <2>. HIDE DEF h
  <2>w. WiresInShape'
      BY <1>0, <1>a, <2>1, <2>4, <2>6, <2>7, Ground, OneWire DEF WiresInShape
  <2>c. ClientOrder'
      BY <1>0, <1>a, <1>b, <2>1, <2>2, <2>3, <2>5, <2>7, Ground DEF ClientOrder, Request, OthersSame
  <2>g. AgentOrder'
      BY <1>0, <1>a, <1>b, <2>1, <2>2, <2>3, <2>5, <2>7, Ground DEF AgentOrder, OthersSame
  <2>p. ProxyOrder'
      BY <1>0, <1>a, <1>b, <2>1, <2>2, <2>3, <2>5, <2>7, Ground DEF ProxyOrder, OthersSame
  <2>n. AnswerOrder'
      BY <1>0, <1>a, <1>b, <2>1, <2>2, <2>3, <2>5, <2>7, Ground DEF AnswerOrder, OthersSame
  <2>. QED  BY <2>w, <2>c, <2>g, <2>p, <2>n DEF HandshakeInv
<1>2. CASE RelaySeesEnd(p, d)
  <2>1. Loss /\ UNCHANGED <<hold, fin>> /\ relay' = [relay EXCEPT ![p][d] = "close"]
      BY <1>2 DEF RelaySeesEnd, Loss, Spared
  <2>2. \A q \in Procs, e \in Dirs : relay'[q][e] = "none" <=> relay[q][e] = "none"
      BY <1>a, <1>c, <2>1
  <2>. QED  BY <1>a, <2>1, <2>2, QuietStep
<1>3. CASE RelayWrites(p, d)
  <2>. DEFINE h == Dst(p, d)
              m == Head(hold[p][d])
  <2>0. m \in Messages /\ m > 0
    <3>1. hold[p][d] # <<>> /\ hold[p][d] \in Seq(Messages) /\ Ctl(hold[p][d]) = 0
        BY <1>0, <1>3, <1>c DEF RelayWrites, WiresInShape
    <3>2. m \in Messages /\ m = hold[p][d][1]
        BY <3>1, HeadTailProperties
    <3>3. m \in Int /\ m # 0
        BY <3>2, MessageFacts
    <3>. QED  BY <3>1, <3>2, <3>3 DEF Ctl
  <2>1. /\ fin' = fin /\ conn[h] # "none"
        /\ \/ /\ conn' = conn /\ conn[h] = "open" /\ ~ReaderGone(h, d)
              /\ wire'[h][d] = Append(wire[h][d], m) /\ OthersSame(h, d)
           \/ Loss /\ Hurt(h)
      BY <1>0, <1>3, <1>a, <2>0, PutStep DEF RelayWrites
  <2>2. relay' = relay /\ hold' = [hold EXCEPT ![p][d] = <<>>] /\ hold[p][d] # <<>>
      BY <1>3 DEF RelayWrites
  <2>3. /\ hold'[p][d] = <<>>
        /\ \A q \in Procs, e \in Dirs : q # p \/ e # d => hold'[q][e] = hold[q][e]
      BY <1>c, <2>2
  <2>. HIDE DEF m
  <2>4. CASE Loss
    <3>1. \A q \in Procs, e \in Dirs : hold'[q][e] \in {hold[q][e], <<>>}
        BY <2>3
    <3>. QED  BY <1>a, <2>1, <2>2, <2>4, <3>1, QuietStep
  <2>5. CASE /\ conn' = conn /\ conn[h] = "open" /\ ~ReaderGone(h, d)
             /\ wire'[h][d] = Append(wire[h][d], m) /\ OthersSame(h, d)
    <3>1. /\ Shape(wire'[h][d]) /\ Ctl(wire'[h][d]) = Ctl(wire[h][d]) /\ wire'[h][d] # <<>>
          /\ Ctl(wire[h][d]) = 1 => wire'[h][d][1] = wire[h][d][1]
      <4>1. wire[h][d] \in Seq(Messages) /\ Shape(wire[h][d])
          BY <1>0, <1>a, <1>c DEF WiresInShape
      <4>. QED  BY <2>0, <2>5, <4>1, AppendChunk
    <3>2. agent # "relay" => p = "proxy" /\ d = "down"
        BY <1>0, <1>b, <2>2 DEF AgentOrder, Procs, Dirs
    <3>3. \A q \in Procs, e \in Dirs : Ctl(hold'[q][e]) = 0
        BY <1>0, <2>3, EmptyWire DEF WiresInShape
    <3>4. /\ (h = 2 /\ d = "up" /\ p = "agent") \/ (h = 1 /\ d = "down" /\ p = "agent")
             \/ (h = 3 /\ d = "up" /\ p = "proxy") \/ (h = 2 /\ d = "down" /\ p = "proxy")
        BY DEF Dst, Near, Far, Procs, Dirs
    <3>5. agent = "failed" => ReaderGone(2, "down")
        BY Ground DEF ReaderGone, Gone, HopsOf, Near, Far, Incoming
    <3>. HIDE DEF h
    <3>6. h = 3 => Ctl(wire[h][d]) = 0
        BY <1>0 DEF WiresInShape
    <3>7. /\ conn' = conn /\ wire'[1]["up"] = wire[1]["up"] /\ wire'[3]["down"] = wire[3]["down"]
          /\ Ctl(wire'[2]["up"]) = Ctl(wire[2]["up"]) /\ Ctl(wire'[2]["down"]) = Ctl(wire[2]["down"])
      <4>1. wire'[1]["up"] = wire[1]["up"] /\ wire'[3]["down"] = wire[3]["down"]
          BY <2>5, <3>4, Ground DEF OthersSame
      <4>2. (h = 2 /\ d = "up") \/ wire'[2]["up"] = wire[2]["up"]
          BY <2>5, Ground DEF OthersSame
      <4>3. (h = 2 /\ d = "down") \/ wire'[2]["down"] = wire[2]["down"]
          BY <2>5, Ground DEF OthersSame
      <4>. QED  BY <2>5, <3>1, <4>1, <4>2, <4>3
    <3>8. \A e \in Dirs : relay'["proxy"][e] # "none"
        BY <1>0, <1>b, <2>2 DEF ProxyOrder
    <3>9. /\ wire[2]["down"] # <<>> => wire'[2]["down"] # <<>>
          /\ Ctl(wire[2]["down"]) = 1 => wire'[2]["down"][1] = wire[2]["down"][1]
          /\ wire'[2]["down"] # <<>> => wire[2]["down"] # <<>> \/ conn[2] = "open"
        BY <2>5, <3>1, <3>4, Ground DEF OthersSame
    <3>10. agent = "await_init" /\ wire'[2]["down"] # <<>> => wire[2]["down"] # <<>>
        BY <1>0, <1>b, <3>9 DEF AnswerOrder
    <3>11. /\ agent # "await_init" => Ctl(wire'[2]["down"]) = 0
           /\ agent = "await_init" /\ wire'[2]["down"] # <<>> => Ctl(wire'[2]["down"]) = 1
           /\ agent = "await_init" /\ conn[2] = "open" => wire'[2]["down"] # <<>>
        BY <1>0, <1>b, <3>7, <3>9, <3>10 DEF AnswerOrder
    <3>w. WiresInShape'
        BY <1>0, <1>a, <2>1, <2>5, <3>1, <3>3, <3>4, <3>6, Ground, OneWire DEF WiresInShape
    <3>c. ClientOrder'
        BY <1>0, <1>a, <1>b, <2>1, <2>2, <2>3, <2>5, <3>1, <3>2, <3>4, <3>5, Ground DEF ClientOrder, Request, OthersSame
    <3>g. AgentOrder'
        BY <1>0, <1>a, <1>b, <2>1, <2>2, <2>3, <2>5, <3>1, <3>2, <3>4, <3>5, Ground DEF AgentOrder, OthersSame
    <3>p. ProxyOrder'
        BY <1>0, <1>a, <1>b, <2>1, <2>2, <2>3, <2>5, <3>1, <3>7, <3>8, Ground DEF ProxyOrder, OthersSame
    <3>n. AnswerOrder'
        BY <1>a, <1>b, <3>7, <3>11 DEF AnswerOrder
    <3>. QED  BY <3>w, <3>c, <3>g, <3>p, <3>n DEF HandshakeInv
  <2>. QED  BY <2>1, <2>4, <2>5
<1>4. CASE RelayWriteFails(p, d)
  <2>1. /\ Loss /\ UNCHANGED fin /\ relay' = [relay EXCEPT ![p][d] = "close"]
        /\ hold' = [hold EXCEPT ![p][d] = <<>>]
      BY <1>4 DEF RelayWriteFails, Loss, Spared
  <2>2. \A q \in Procs, e \in Dirs : /\ relay'[q][e] = "none" <=> relay[q][e] = "none"
                                    /\ hold'[q][e] \in {hold[q][e], <<>>}
      BY <1>a, <1>c, <2>1
  <2>. QED  BY <1>a, <2>1, <2>2, QuietStep
<1>5. CASE RelayCloses(p, d)
  <2>1. /\ UNCHANGED hold /\ relay' = [relay EXCEPT ![p][d] = "done"]
        /\ DropSockets(p) \/ ShutDown(Dst(p, d), d)
      BY <1>5 DEF RelayCloses
  <2>2. \A q \in Procs, e \in Dirs : relay'[q][e] = "none" <=> relay[q][e] = "none"
      BY <1>a, <1>c, <2>1
  <2>3. /\ Loss
        /\ \A h \in Hops, e \in Dirs : fin'[h][e] /\ ~fin[h][e] =>
              conn[h] # "none" /\ (p = "agent" \/ (h = 3 /\ e = "up") \/ (h = 2 /\ e = "down"))
    <3>1. CASE DropSockets(p)
        BY <1>0, <3>1, AgentDrops, ProxyDrops DEF Procs
    <3>2. CASE ShutDown(Dst(p, d), d)
      <4>1. p = "proxy" => (Dst(p, d) = 3 /\ d = "up") \/ (Dst(p, d) = 2 /\ d = "down")
          BY DEF Dst, Near, Far, Procs, Dirs
      <4>2. /\ Loss
            /\ \A g \in Hops, e \in Dirs :
                 fin'[g][e] = (fin[g][e] \/ (g = Dst(p, d) /\ e = d /\ conn[Dst(p, d)] = "open"))
          BY <1>0, <1>a, <3>2, ShutDownStep
      <4>. QED  BY <1>a, <4>1, <4>2 DEF Procs
    <3>. QED  BY <2>1, <3>1, <3>2
  <2>. QED  BY <1>a, <1>b, <2>1, <2>2, <2>3, QuietStep DEF Procs
<1>. QED  BY <1>1, <1>2, <1>3, <1>4, <1>5 DEF RelayTask

LEMMA EndpointOrder ==
    ASSUME TypeOK, HandshakeInv, ClientRequests \/ \E d \in Dirs : Endpoint(d) \/ Vanish(d)
    PROVE  HandshakeInv'
<1>0. SocketsOK /\ WiresInShape /\ ClientOrder /\ AgentOrder /\ ProxyOrder /\ AnswerOrder
    BY DEF TypeOK, HandshakeInv
<1>a. \A h \in Hops, e \in Dirs : wire[h][e] \in Seq(Messages) /\ Shape(wire[h][e])
    BY <1>0 DEF TypeOK, SocketsOK, WiresInShape
<1>b. \A p \in Procs, e \in Dirs : Ctl(hold[p][e]) = 0
    BY <1>0 DEF WiresInShape
<1>1. CASE ClientRequests
  <2>1. Request \in Messages /\ (mode = "plain" => Request = 1) /\ (mode # "plain" => Request = REQUEST)
    <3>1. mode = "plain" => sent["up"] \in Nat /\ sent["up"] < MaxSend["up"]
        BY <1>1, Ground DEF ClientRequests, TypeOK, EndsOK
    <3>2. MaxSend["up"] \in Nat /\ MaxSend["down"] \in Nat
        BY MaxSendAssumption, Ground
    <3>3. mode = "plain" => 1 \in Messages
        BY <3>1, <3>2 DEF Messages, Chunks
    <3>. QED  BY <3>3, MessageFacts DEF Request, Control
  <2>2. /\ client = "request" /\ client' = "await"
        /\ UNCHANGED <<agent, proxy, relay, hold, init_data, mode>>
        /\ Put(1, "up", Request)
      BY <1>1 DEF ClientRequests, taskVars, envVars, Request
  <2>3. /\ fin' = fin /\ conn[1] # "none"
        /\ \/ /\ conn' = conn /\ conn[1] = "open" /\ ~ReaderGone(1, "up")
              /\ wire'[1]["up"] = Append(wire[1]["up"], Request) /\ OthersSame(1, "up")
           \/ Loss
      BY <1>0, <2>1, <2>2, PutStep, Ground
  <2>4. wire[1]["up"] = <<>> /\ agent \in {"request", "failed"} /\ (agent = "failed" => ReaderGone(1, "up"))
    <3>1. agent = "failed" => ReaderGone(1, "up")
        BY Ground DEF ReaderGone, Gone, HopsOf, Near, Far, Incoming
    <3>. QED  BY <1>0, <2>2, <3>1 DEF ClientOrder
  <2>5. CASE /\ conn' = conn /\ conn[1] = "open" /\ ~ReaderGone(1, "up")
             /\ wire'[1]["up"] = Append(wire[1]["up"], Request) /\ OthersSame(1, "up")
    <3>1. wire'[1]["up"] = <<Request>> /\ Shape(<<Request>>) /\ Len(<<Request>>) = 1 /\ <<Request>>[1] = Request
        BY <2>4, <2>5 DEF Shape
    <3>2. Ctl(init_data') = 0 /\ \A p \in Procs, e \in Dirs : Ctl(hold'[p][e]) = 0
        BY <1>0, <1>b, <2>2 DEF WiresInShape
    <3>w. WiresInShape'
        BY <1>0, <2>3, <2>5, <3>1, <3>2, OneWire, Ground
    <3>4. /\ wire'[2]["up"] = wire[2]["up"] /\ wire'[2]["down"] = wire[2]["down"]
          /\ wire'[1]["down"] = wire[1]["down"] /\ wire'[3]["up"] = wire[3]["up"] 
          /\ wire'[3]["down"] = wire[3]["down"]
        BY <2>5, Ground DEF OthersSame
    <3>3. Request' = Request
        BY <2>2 DEF Request
    <3>c. ClientOrder'
        BY <1>0, <2>2, <2>4, <2>5, <3>1, <3>3, Ground DEF ClientOrder, OthersSame
    <3>g. AgentOrder'
        BY <1>0, <2>2, <2>3, <2>4, <2>5, <3>1, <3>4 DEF AgentOrder
    <3>p. ProxyOrder'
        BY <1>0, <2>2, <2>3, <2>4, <2>5, <3>1, <3>4 DEF ProxyOrder
    <3>n. AnswerOrder'
        BY <1>0, <2>2, <2>3, <2>4, <2>5, <3>1, <3>4 DEF AnswerOrder
    <3>. QED  BY <3>w, <3>c, <3>g, <3>p, <3>n DEF HandshakeInv
  <2>6. CASE Loss
    <3>1. \A h \in Hops : LossOK(h)
        BY <1>0, <2>6, LossFacts
    <3>2. \A h \in Hops, d \in Dirs : conn'[h] = "none" => wire'[h][d] = <<>> /\ ~fin'[h][d]
        BY <1>0, <2>3, <3>1 DEF LossOK, WiresInShape
    <3>w. WiresInShape'
        BY <1>0, <2>2, <2>3, <2>4, <3>1, <3>2, Ground DEF WiresInShape, LossOK
    <3>c. ClientOrder'
        BY <1>0, <2>2, <2>3, <2>4, <3>1, <3>2, Ground DEF ClientOrder, Request, LossOK
    <3>g. AgentOrder'
        BY <1>0, <2>2, <2>3, <2>4, <3>1, <3>2, Ground DEF AgentOrder, LossOK
    <3>p. ProxyOrder'
        BY <1>0, <2>2, <2>3, <2>4, <3>1, <3>2, Ground DEF ProxyOrder, LossOK
    <3>n. AnswerOrder'
        BY <1>0, <2>2, <2>3, <2>4, <3>1, <3>2, Ground DEF AnswerOrder, LossOK
    <3>. QED  BY <3>w, <3>c, <3>g, <3>p, <3>n DEF HandshakeInv
  <2>. QED  BY <2>3, <2>5, <2>6
<1>2. ASSUME NEW d \in Dirs, EndpointSends(d)
      PROVE  HandshakeInv'
  <2>. DEFINE h == First(d)
              m == sent[d] + 1
  <2>0. m \in Messages /\ m > 0
    <3>1. sent[d] \in Nat /\ sent[d] < MaxSend[d]
        BY <1>2 DEF EndpointSends, TypeOK, EndsOK
    <3>. QED  BY <3>1, MessageFacts
  <2>1. /\ fin' = fin /\ conn[h] # "none"
        /\ \/ /\ conn' = conn /\ conn[h] = "open" /\ ~ReaderGone(h, d)
              /\ wire'[h][d] = Append(wire[h][d], m) /\ OthersSame(h, d)
           \/ Loss
      BY <1>0, <1>2, <2>0, PutStep, Geometry DEF EndpointSends
  <2>2. /\ UNCHANGED <<agent, proxy, relay, hold, init_data, client, mode>>
        /\ d = "up" => client = "stream" /\ agent = "relay" /\ proxy = "relay"
        /\ client = "request" => sent'["up"] = sent["up"]
    <3>1. d = "up" => client = "stream" /\ agent = "relay" /\ proxy = "relay"
        BY <1>0, <1>2 DEF EndpointSends, ClientOrder, AgentOrder
    <3>2. sent \in [Dirs -> Nat] /\ sent' = [sent EXCEPT ![d] = @ + 1]
        BY <1>2 DEF EndpointSends, TypeOK, EndsOK
    <3>. QED  BY <1>2, <3>1, <3>2, Ground DEF EndpointSends, taskVars, envVars
  <2>3. CASE Loss
      BY <2>1, <2>2, <2>3, QuietStep
  <2>4. CASE /\ conn' = conn /\ conn[h] = "open" /\ ~ReaderGone(h, d)
             /\ wire'[h][d] = Append(wire[h][d], m) /\ OthersSame(h, d)
    <3>1. /\ Shape(wire'[h][d]) /\ Ctl(wire'[h][d]) = Ctl(wire[h][d])
      <4>1. wire[h][d] \in Seq(Messages) /\ Shape(wire[h][d])
          BY <1>a, Geometry
      <4>. QED  BY <2>0, <2>4, <4>1, AppendChunk
    <3>2. (h = 1 /\ d = "up") \/ (h = 3 /\ d = "down")
        BY DEF First, Dirs
    <3>. HIDE DEF h, m
    <3>3. h = 3 => Ctl(wire'[h][d]) = 0
        BY <1>0, <3>1 DEF WiresInShape
    <3>4. proxy = "failed" => ReaderGone(3, "down")
        BY Ground DEF ReaderGone, Gone, HopsOf, Near, Far, Incoming
    <3>5. Ctl(init_data') = 0 /\ \A p \in Procs, e \in Dirs : Ctl(hold'[p][e]) = 0
        BY <1>0, <1>b, <2>2 DEF WiresInShape
    <3>6. /\ wire'[2]["up"] = wire[2]["up"] /\ wire'[2]["down"] = wire[2]["down"]
          /\ wire'[1]["down"] = wire[1]["down"] /\ wire'[3]["up"] = wire[3]["up"]
        BY <2>4, <3>2, Ground DEF OthersSame
    <3>7. /\ d = "up" => wire'[3]["down"] = wire[3]["down"] /\ Ctl(wire'[1]["up"]) = Ctl(wire[1]["up"])
          /\ d = "down" => wire'[1]["up"] = wire[1]["up"] /\ proxy # "failed"
        BY <2>4, <3>1, <3>2, <3>4, Ground DEF OthersSame
    <3>w. WiresInShape'
        BY <1>0, <2>1, <2>4, <3>1, <3>2, <3>3, <3>5, OneWire, Ground
    <3>c. ClientOrder'
        BY <1>0, <2>1, <2>2, <2>4, <3>2, <3>6, <3>7 DEF ClientOrder, Request
    <3>g. AgentOrder'
        BY <1>0, <2>1, <2>2, <2>4, <3>2, <3>6, <3>7 DEF AgentOrder
    <3>p. ProxyOrder'
        BY <1>0, <2>1, <2>2, <2>4, <3>2, <3>6, <3>7 DEF ProxyOrder
    <3>n. AnswerOrder'
        BY <1>0, <2>1, <2>2, <2>4, <3>2, <3>6, <3>7 DEF AnswerOrder
    <3>. QED  BY <3>w, <3>c, <3>g, <3>p, <3>n DEF HandshakeInv
  <2>. QED  BY <2>1, <2>3, <2>4
<1>3. ASSUME NEW d \in Dirs, EndpointShutsDown(d)
      PROVE  HandshakeInv'
  <2>1. /\ Loss /\ UNCHANGED <<agent, proxy, relay, hold, init_data, client, mode, sent>>
        /\ conn[First(d)] = "open" /\ fin' = [fin EXCEPT ![First(d)][d] = TRUE]
        /\ (First(d) = 1 /\ d = "up") \/ (First(d) = 3 /\ d = "down")
      BY <1>3 DEF EndpointShutsDown, Loss, Spared, taskVars, envVars, endVars, First, Dirs
  <2>2. \A h \in Hops, e \in Dirs : fin'[h][e] /\ ~fin[h][e] => h = First(d) /\ e = d
    <3>1. fin \in [Hops -> [Dirs -> BOOLEAN]]
        BY DEF TypeOK, SocketsOK
    <3>. QED  BY <2>1, <3>1
  <2>. QED  BY <2>1, <2>2, QuietStep
<1>4. ASSUME NEW d \in Dirs, EndpointReads(d)
      PROVE  HandshakeInv'
  <2>. DEFINE h == Last(d)
  <2>1. /\ conn' = conn /\ fin' = fin /\ OthersSame(h, d)
        /\ wire[h][d] # <<>> /\ Shape(wire'[h][d]) /\ Ctl(wire'[h][d]) = 0
      BY <1>0, <1>4, TakeStep, TakeFacts, Geometry DEF EndpointReads
  <2>2. /\ UNCHANGED <<agent, proxy, relay, hold, init_data, mode, sent>>
        /\ client' = IF d = "down" THEN "stream" ELSE client
        /\ (h = 3 /\ d = "up") \/ (h = 1 /\ d = "down")
      BY <1>4 DEF EndpointReads, taskVars, envVars, Last, Dirs
  <2>. HIDE DEF h
  <2>3. agent = "relay" /\ proxy = "relay" /\ conn[h] # "none"
      BY <1>0, <2>1, <2>2, Ground DEF AgentOrder, WiresInShape
  <2>4. Ctl(init_data') = 0 /\ \A p \in Procs, e \in Dirs : Ctl(hold'[p][e]) = 0
      BY <1>0, <1>b, <2>2 DEF WiresInShape
  <2>w. WiresInShape'
      BY <1>0, <2>1, <2>2, <2>3, <2>4, OneWire, Ground
  <2>5. client' = "request" => client = "request"
      BY <2>2
  <2>c. ClientOrder'
      BY <1>0, <2>1, <2>2, <2>3, <2>5, Ground DEF ClientOrder, Request, OthersSame
  <2>g. AgentOrder'
      BY <1>0, <2>1, <2>2, <2>3, <2>5, Ground DEF AgentOrder, OthersSame
  <2>p. ProxyOrder'
      BY <1>0, <2>1, <2>2, <2>3, <2>5, Ground DEF ProxyOrder, OthersSame
  <2>n. AnswerOrder'
      BY <1>0, <2>1, <2>2, <2>3, <2>5, Ground DEF AnswerOrder, OthersSame
  <2>. QED  BY <2>w, <2>c, <2>g, <2>p, <2>n DEF HandshakeInv
<1>5. ASSUME NEW d \in Dirs, EndpointSeesEnd(d)
      PROVE  HandshakeInv'
  <2>1. Loss /\ UNCHANGED <<fin, agent, proxy, relay, hold, init_data, client, mode, sent>>
      BY <1>5 DEF EndpointSeesEnd, Loss, Spared, taskVars, envVars
  <2>. QED  BY <2>1, QuietStep
<1>6. ASSUME NEW d \in Dirs, Vanish(d)
      PROVE  HandshakeInv'
  <2>1. /\ Loss /\ UNCHANGED <<agent, proxy, relay, hold, init_data, client, mode, sent>>
        /\ \A g \in Hops, e \in Dirs : fin'[g][e] => fin[g][e]
      BY <1>0, <1>6, VanishStep DEF Vanish, endVars, taskVars
  <2>. QED  BY <2>1, QuietStep
<1>. QED  BY <1>1, <1>2, <1>3, <1>4, <1>5, <1>6 DEF Endpoint

\* Every step keeps the order of the handshake.
LEMMA HandshakeStep ==
    ASSUME TypeOK, HandshakeInv, [Next]_vars
    PROVE  HandshakeInv'
<1>0. SocketsOK
    BY DEF TypeOK
<1>1. ASSUME NEW h \in Hops, Break(h)
      PROVE  HandshakeInv'
  <2>1. Hurt(h) /\ \A g \in Hops : g # h => Spared(g)
      BY <1>0, <1>1, ResetStep DEF Break
  <2>2. Loss /\ UNCHANGED <<fin, agent, proxy, relay, hold, init_data, client, mode, sent>>
      BY <1>1, <2>1 DEF Loss, Break, taskVars, endVars
  <2>. QED  BY <2>2, QuietStep
<1>2. ASSUME NEW h \in Hops, KernelGivesUp(h)
      PROVE  HandshakeInv'
  <2>1. \A g \in Hops, d \in Dirs : Shorter(wire[g][d], wire[g][d])
      BY <1>0, ShorterSelf DEF SocketsOK
  <2>2. Loss /\ UNCHANGED <<fin, agent, proxy, relay, hold, init_data, client, mode, sent>>
      BY <1>0, <1>2, <2>1 DEF Loss, Hurt, Spared, KernelGivesUp, SocketsOK, taskVars, endVars, envVars
  <2>. QED  BY <2>2, QuietStep
<1>3. CASE UNCHANGED vars
  <2>1. Loss /\ UNCHANGED <<fin, agent, proxy, relay, hold, init_data, client, mode, sent>>
      BY <1>3 DEF Loss, Spared, vars
  <2>. QED  BY <2>1, QuietStep
<1>. QED  BY <1>1, <1>2, <1>3, AgentHandshakeOrder, ProxyHandshakeOrder, RelayOrder, EndpointOrder DEF Next
=============================================================================
