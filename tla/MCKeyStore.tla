----------------------------- MODULE MCKeyStore -----------------------------
(***************************************************************************)
(* KeyStore for TLC: the two users of tool/src/main.rs.                    *)
(***************************************************************************)
EXTENDS KeyStore

MCUserOrder == <<"user1", "user2">>
=============================================================================
