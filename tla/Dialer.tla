------------------------------- MODULE Dialer -------------------------------
(***************************************************************************)
(* Connecting with a deadline: ProxyConnectionFactory of the agent         *)
(* (agent/src/connection.rs) and init_dst_connection of the proxy          *)
(* (proxy/src/transport/tcp.rs).  Both try the addresses of a list one     *)
(* after the other, under one timeout for the whole list.  The proxy first *)
(* resolves the destination with a call that blocks its worker thread,     *)
(* outside the timeout; while all workers are blocked nothing else runs.   *)
(*                                                                         *)
(* Time is counted in ticks.  Whatever is due and has a worker happens     *)
(* before the next tick.                                                   *)
(***************************************************************************)
EXTENDS Naturals, Sequences, FiniteSets, FiniteSetsExt

CONSTANTS
    Tasks,        \* the transports that dial
    Workers,      \* the number of worker threads of the runtime
    Timeout,      \* connect_to_proxy_timeout or dst_connect_timeout
    AgentConfigs, \* the address lists an agent may be configured with
    Destinations  \* [resolve, addrs]: how long resolving takes, and its result

(***************************************************************************)
(* An address is [kind, delay]: it accepts or refuses a connection after   *)
(* delay ticks, or it is text that is no address.  A silent address is one *)
(* that the kernel gives up only after the timeout.                        *)
(***************************************************************************)
Dialable == [kind : {"accept", "refuse"}, delay : Nat]
Entry    == [kind : {"accept", "refuse", "invalid"}, delay : Nat]

ASSUME DialerAssumption == Workers \in Nat \ {0} /\ Timeout \in Nat
ASSUME TasksAssumption == IsFiniteSet(Tasks)
ASSUME ConfigsAssumption == AgentConfigs \subseteq Seq(Entry)
ASSUME DestinationsAssumption ==
    Destinations \subseteq [resolve : Nat, addrs : Seq(Dialable)]

VARIABLES
    side,    \* "agent" or "proxy": whose runtime this is
    plan,    \* per task: what it dials, [resolve, addrs]
    pc,      \* per task
    attempt, \* per task: the address being tried
    left,    \* per task: ticks until the running call or attempt is answered
    remain,  \* per task: ticks until its timeout elapses
    age      \* per task: ticks since it became ready

vars == <<side, plan, pc, attempt, left, remain, age>>

Done == {"connected", "unusable", "refused", "timeout", "unresolved", "panicked"}

\* The state is well formed; a task that is connecting tries one of its addresses.
TypeOK ==
    /\ side \in {"agent", "proxy"}
    /\ pc \in [Tasks -> {"idle", "ready", "resolving", "connecting"} \cup Done]
    /\ left \in [Tasks -> Nat] /\ remain \in [Tasks -> 0..Timeout]
    /\ age \in [Tasks -> Nat]
    /\ \A t \in Tasks : pc[t] \in {"connecting", "connected", "unusable", "timeout"} =>
          /\ attempt[t] \in DOMAIN plan[t].addrs
          /\ plan[t].addrs[attempt[t]].kind # "invalid"

\* Mutant: the text that is no address is not filtered out.
Mutant_Parsable(config) == config

\* ProxyConnectionFactory::new keeps the entries that parse.
Parsable(config) ==
    LET kept[n \in 0..Len(config)] ==
            IF n = 0 THEN <<>>
            ELSE IF config[n].kind = "invalid" THEN kept[n - 1]
            ELSE Append(kept[n - 1], config[n])
    IN  kept[Len(config)]

Init ==
    /\ \/ /\ side = "agent"
          /\ \E config \in AgentConfigs :
                plan = [t \in Tasks |-> [resolve |-> 0, addrs |-> Parsable(config)]]
       \/ /\ side = "proxy"
          /\ plan \in [Tasks -> Destinations]
    /\ pc = [t \in Tasks |-> "idle"]
    /\ attempt = [t \in Tasks |-> 0]
    /\ left = [t \in Tasks |-> 0]
    /\ remain = [t \in Tasks |-> 0]
    /\ age = [t \in Tasks |-> 0]

-----------------------------------------------------------------------------
(* The scheduler                                                           *)

\* A worker thread that no blocking call holds.
FreeWorker == Cardinality({t \in Tasks : pc[t] = "resolving"}) < Workers

AddressOf(t) == plan[t].addrs[attempt[t]]

\* Something of t can be done now.
Due(t) ==
    \/ pc[t] = "resolving" /\ left[t] = 0
    \/ FreeWorker /\ \/ pc[t] = "ready"
                     \/ pc[t] = "connecting" /\ 0 \in {left[t], remain[t]}

\* A client or an agent connected, and its handler is spawned.
Arrive(t) ==
    /\ pc[t] = "idle"
    /\ pc' = [pc EXCEPT ![t] = "ready"]
    /\ UNCHANGED <<side, plan, attempt, left, remain, age>>

Minus1(n) == IF n = 0 THEN 0 ELSE n - 1

Tick ==
    /\ \A t \in Tasks : ~Due(t)
    /\ left' = [t \in Tasks |-> Minus1(left[t])]
    /\ remain' = [t \in Tasks |-> Minus1(remain[t])]
    /\ age' = [t \in Tasks |-> IF pc[t] \in Done \cup {"idle"} THEN age[t] ELSE age[t] + 1]
    /\ UNCHANGED <<side, plan, pc, attempt>>

-----------------------------------------------------------------------------
(* Dialling                                                                *)

Finish(t, outcome) ==
    /\ pc' = [pc EXCEPT ![t] = outcome]
    /\ left' = [left EXCEPT ![t] = 0]
    /\ remain' = [remain EXCEPT ![t] = 0]
    /\ UNCHANGED <<side, plan, attempt, age>>

\* timeout(.., TcpStream::connect(addresses)): the clock starts, and the attempt
\* on the first address.
StartConnect(t) ==
    /\ pc' = [pc EXCEPT ![t] = "connecting"]
    /\ attempt' = [attempt EXCEPT ![t] = 1]
    /\ left' = [left EXCEPT ![t] = plan[t].addrs[1].delay]
    /\ remain' = [remain EXCEPT ![t] = Timeout]
    /\ UNCHANGED <<side, plan, age>>

\* create_connection of the agent.  Its first use sets up the factory, which
\* panics if no address is left, and so does every later use.
CreateConnection(t) ==
    /\ side = "agent" /\ pc[t] = "ready" /\ FreeWorker
    /\ IF plan[t].addrs = <<>> THEN Finish(t, "panicked") ELSE StartConnect(t)

\* init_dst_connection of the proxy calls to_socket_addrs, which blocks.
Resolve(t) ==
    /\ side = "proxy" /\ pc[t] = "ready" /\ FreeWorker
    /\ pc' = [pc EXCEPT ![t] = "resolving"]
    /\ left' = [left EXCEPT ![t] = plan[t].resolve]
    /\ UNCHANGED <<side, plan, attempt, remain, age>>

\* The call returns; without an address it, or the connect, fails.
Resolved(t) ==
    /\ pc[t] = "resolving" /\ left[t] = 0
    /\ IF plan[t].addrs = <<>> THEN Finish(t, "unresolved") ELSE StartConnect(t)

\* Mutant: the first address that refuses ends the dial.
Mutant_Answer(t) ==
    /\ pc[t] = "connecting" /\ left[t] = 0 /\ FreeWorker
    /\ Finish(t, IF AddressOf(t).kind = "accept" THEN "connected" ELSE "refused")

\* Mutant: every address has a timeout of its own.
Mutant_Answer_Restarts(t) ==
    /\ pc[t] = "connecting" /\ left[t] = 0 /\ FreeWorker
    /\ IF AddressOf(t).kind = "accept" THEN Finish(t, "connected")
       ELSE IF attempt[t] = Len(plan[t].addrs) THEN Finish(t, "refused")
       ELSE /\ attempt' = [attempt EXCEPT ![t] = @ + 1]
            /\ left' = [left EXCEPT ![t] = plan[t].addrs[attempt'[t]].delay]
            /\ remain' = [remain EXCEPT ![t] = Timeout]
            /\ UNCHANGED <<side, plan, pc, age>>

\* The address being tried answers.  A refusal starts the next attempt, within
\* the same timeout; that of the last address is the result.  A connection whose
\* options cannot be set is given up.
Answer(t) ==
    /\ pc[t] = "connecting" /\ left[t] = 0 /\ FreeWorker
    /\ IF AddressOf(t).kind = "accept"
       THEN \E outcome \in {"connected", "unusable"} : Finish(t, outcome)
       ELSE IF attempt[t] = Len(plan[t].addrs) THEN Finish(t, "refused")
       ELSE /\ attempt' = [attempt EXCEPT ![t] = @ + 1]
            /\ left' = [left EXCEPT ![t] = plan[t].addrs[attempt'[t]].delay]
            /\ UNCHANGED <<side, plan, pc, remain, age>>

\* The timer has run out; timeout polls the connect before it looks at the timer,
\* so an answer that is there comes first.
Elapsed(t) ==
    /\ pc[t] = "connecting" /\ remain[t] = 0 /\ left[t] > 0 /\ FreeWorker
    /\ Finish(t, "timeout")

-----------------------------------------------------------------------------

Step(t) ==
    \/ CreateConnection(t) \/ Resolve(t) \/ Resolved(t) \/ Answer(t) \/ Elapsed(t)

Next == Tick \/ \E t \in Tasks : Arrive(t) \/ Step(t)

Spec == Init /\ [][Next]_vars

-----------------------------------------------------------------------------
(* Properties                                                              *)

Delays(addrs, n) == MapThenSumSet(LAMBDA i : addrs[i].delay, 1..n)

\* How long all workers can be blocked at once by the resolving of others.
Blocked(t) == MapThenSumSet(LAMBDA u : plan[u].resolve, Tasks \ {t}) \div Workers

\* A dial ends within the timeout, plus the time of its own resolving, plus the
\* time for which the resolving of others blocks every worker: no list of
\* addresses, however slow each of them is, makes it longer.  (A step that is due
\* is never disabled by another task and precedes the next tick, so this bounds
\* how long a handler dials, and no dial goes on for ever.)
DialBounded ==
    \A t \in Tasks : age[t] <= plan[t].resolve + Timeout + Blocked(t)

\* A dial is refused, times out or does not resolve only if no address would have
\* accepted in the time that is left after the refusals before it and after what
\* the blocked workers cost.
ReachesFirstLive ==
    \A t \in Tasks : pc[t] \in {"refused", "timeout", "unresolved"} =>
        ~\E k \in DOMAIN plan[t].addrs :
            /\ plan[t].addrs[k].kind = "accept"
            /\ Delays(plan[t].addrs, k) + Blocked(t) <= Timeout
=============================================================================
