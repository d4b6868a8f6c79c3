--------------------------- MODULE TransportGauge ---------------------------
(***************************************************************************)
(* What the proxy's shared AtomicU64 transport_number promises to whoever  *)
(* reads it: a gauge on a set of members.  A member enters once and leaves *)
(* at most once, after it entered; the number moves by exactly one with    *)
(* each, in the unbounded naturals, so it neither wraps nor drifts.        *)
(*                                                                         *)
(* ProxyServer implements this specification with the atomic fetch_add and *)
(* fetch_sub calls that are scattered over three source files and three    *)
(* tasks per transport.                                                    *)
(***************************************************************************)
EXTENDS Naturals, FiniteSets

CONSTANT Transports

VARIABLES
    entered,   \* transports whose fetch_add(1) has been executed
    left,      \* transports whose fetch_sub(1) has been executed
    number     \* the value a load(Ordering::Relaxed) returns

vars == <<entered, left, number>>

Init ==
    /\ entered = {}
    /\ left = {}
    /\ number = 0

Enter(t) ==
    /\ t \notin entered
    /\ entered' = entered \cup {t}
    /\ number' = number + 1
    /\ UNCHANGED left

Leave(t) ==
    /\ t \in entered \ left
    /\ left' = left \cup {t}
    /\ number' = number - 1
    /\ UNCHANGED entered

Next == \E t \in Transports : Enter(t) \/ Leave(t)

Spec == Init /\ [][Next]_vars
=============================================================================
