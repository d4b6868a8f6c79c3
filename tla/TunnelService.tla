--------------------------- MODULE TunnelService ----------------------------
(***************************************************************************)
(* What a tcp tunnel promises to the client and the destination, whatever  *)
(* happens between them: two ordered byte streams that can be shut down    *)
(* independently.  A receiver reads a prefix of what was sent.  In an open *)
(* tunnel that no fault has hit, it sees an end only after the sender shut *)
(* down and everything sent has been read, and never a reset.  A refused   *)
(* tunnel ends without having delivered anything.                          *)
(***************************************************************************)
EXTENDS Naturals, Sequences

VARIABLES
    phase,    \* the request is pending, the tunnel is open, or it was refused
    sent,     \* per direction: number of chunks sent
    rcvd,     \* per direction: chunks received, the n-th sent being n
    shut,     \* per direction: the sender has shut down
    ended,    \* per direction: the end the receiver has seen
    broken    \* a connection under the tunnel was reset by the environment

vars == <<phase, sent, rcvd, shut, ended, broken>>

Dirs == {"up", "down"}

Init ==
    /\ phase = "pending"
    /\ sent  = [d \in Dirs |-> 0]
    /\ rcvd  = [d \in Dirs |-> <<>>]
    /\ shut  = [d \in Dirs |-> FALSE]
    /\ ended = [d \in Dirs |-> "no"]
    /\ broken = FALSE

Decide ==
    /\ phase = "pending"
    /\ phase' \in {"open", "refused"}
    /\ UNCHANGED <<sent, rcvd, shut, ended, broken>>

Send(d) ==
    /\ ~shut[d]
    /\ sent' = [sent EXCEPT ![d] = @ + 1]
    /\ UNCHANGED <<phase, rcvd, shut, ended, broken>>

ShutDown(d) ==
    /\ ~shut[d]
    /\ shut' = [shut EXCEPT ![d] = TRUE]
    /\ UNCHANGED <<phase, sent, rcvd, ended, broken>>

Deliver(d) ==
    /\ phase = "open"
    /\ ended[d] = "no"
    /\ Len(rcvd[d]) < sent[d]
    /\ rcvd' = [rcvd EXCEPT ![d] = Append(@, Len(@) + 1)]
    /\ UNCHANGED <<phase, sent, shut, ended, broken>>

\* The end of an undisturbed tunnel.
EndComplete(d) ==
    /\ phase = "open"
    /\ shut[d] /\ Len(rcvd[d]) = sent[d]
    /\ ended[d] = "no"
    /\ ended' = [ended EXCEPT ![d] = "fin"]
    /\ UNCHANGED <<phase, sent, rcvd, shut, broken>>

\* Any other end: the tunnel was refused or broken.
EndAbrupt(d) ==
    /\ phase = "refused" \/ broken
    /\ ended[d] = "no"
    /\ \E how \in {"fin", "reset"} : ended' = [ended EXCEPT ![d] = how]
    /\ UNCHANGED <<phase, sent, rcvd, shut, broken>>

BreakDown ==
    /\ broken' = TRUE
    /\ UNCHANGED <<phase, sent, rcvd, shut, ended>>

Next ==
    \/ Decide
    \/ BreakDown
    \/ \E d \in Dirs :
          Send(d) \/ ShutDown(d) \/ Deliver(d) \/ EndComplete(d) \/ EndAbrupt(d)

Spec == Init /\ [][Next]_vars
=============================================================================
