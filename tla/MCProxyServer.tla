--------------------------- MODULE MCProxyServer ----------------------------
(***************************************************************************)
(* ProxyServer for TLC: agent connections as model values, and a counter   *)
(* that wraps as soon as it possibly could.                                *)
(***************************************************************************)
EXTENDS ProxyServer
=============================================================================
