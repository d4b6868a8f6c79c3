-------------------------- MODULE MCUdpAssociation --------------------------
(***************************************************************************)
(* UdpAssociation for TLC.  Two datagrams are enough for an answer to the  *)
(* first to be late for the second; a third lets a stranger come between. *)
(***************************************************************************)
EXTENDS UdpAssociation

\* The client's own address, or the "0:0" of a client that does not know it.
MCRequests == {Client, Domain("0", 0)}

MCRequestsUnknown == {Domain("0", 0)}

\* A name that the agent rewrites; the datagrams are told apart by their numbers.
MCDestination == {Domain("0", 9)}
=============================================================================
