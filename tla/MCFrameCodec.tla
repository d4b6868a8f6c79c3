---------------------------- MODULE MCFrameCodec ----------------------------
(***************************************************************************)
(* FrameCodec for TLC: three messages of different lengths, one of them    *)
(* with a length that needs both digits of the length field, over a flag   *)
(* of two bytes.                                                           *)
(***************************************************************************)
EXTENDS FrameCodec

MCBodyLength == <<4, 1, 2>>
=============================================================================
