------------------------------ MODULE MCDialer ------------------------------
(***************************************************************************)
(* Dialer for TLC.  Three transports on two workers, and a timeout of      *)
(* three ticks: addresses answer well within it, just in it, or after it.  *)
(***************************************************************************)
EXTENDS Dialer

MCTasks   == {"t1", "t2", "t3"}
MCTimeout == 3

Addr(kind, delay) == [kind |-> kind, delay |-> delay]
Dest(resolve, addrs) == [resolve |-> resolve, addrs |-> addrs]

Fast    == Addr("accept", 1)
Late    == Addr("accept", MCTimeout)
Refuses == Addr("refuse", 1)
Silent  == Addr("refuse", MCTimeout + 2)
Text    == Addr("invalid", 0)

MCAgentConfigs ==
    {<<Text>>, <<Text, Fast>>, <<Refuses, Text, Fast>>, <<Silent, Fast>>, <<Refuses, Refuses>>,
     <<Refuses, Refuses, Late>>}

MCDestinations ==
    {Dest(0, <<Fast>>), Dest(0, <<Late>>), Dest(1, <<Refuses, Fast>>), Dest(2, <<Refuses, Late>>),
     Dest(3, <<>>), Dest(3, <<Refuses, Refuses>>), Dest(1, <<Silent, Fast>>), Dest(2, <<Refuses, Silent>>)}
=============================================================================
