---------------------------- MODULE MCTcpTunnel -----------------------------
(***************************************************************************)
(* TcpTunnel for TLC.  Two chunks up and one down are enough for a chunk   *)
(* to overtake, to be dropped between two others, or to be the last one    *)
(* in a buffer when the stream ends; two faults can hit two hops.          *)
(***************************************************************************)
EXTENDS TcpTunnel

MCMaxSend     == [d \in Dirs |-> IF d = "up" THEN 2 ELSE 1]
MCMaxSendOne  == [d \in Dirs |-> 1]
=============================================================================
