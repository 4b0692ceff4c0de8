------------------------------ MODULE UpcChannel ------------------------------
(***************************************************************************)
(* What one direction of a USB packet channel promises its users: packets  *)
(* are delivered as they were sent, in order, none twice and none left     *)
(* out, and a clean end of the stream means that the sender was closed and *)
(* everything has been delivered.  A failure of the transport which the    *)
(* receiving side notices ends the stream with an error; one it cannot     *)
(* notice may cut off the stream with a clean end.                         *)
(*                                                                         *)
(* A packet is all the data of its number, from byte 0 on.                 *)
(*                                                                         *)
(* MayCut weakens the promise: a clean end may cut off the last packets    *)
(* without any failure.                                                    *)
(***************************************************************************)
EXTENDS Integers, Sequences

CONSTANTS Sizes, MaxPackets, MayCut

VARIABLES
    sent,     \* packets accepted by send()
    got,      \* packets returned by recv()
    open,     \* the sender exists
    ended,    \* what recv() reported after the last packet
    broken,   \* the transport failed and the receiving side knows
    silent    \* the transport failed and the receiving side does not know

channelVars == <<sent, got, open, ended, broken, silent>>

Init ==
    /\ sent = <<>> /\ got = <<>> /\ open = TRUE
    /\ ended = "no" /\ broken = FALSE /\ silent = FALSE

Send ==
    /\ open /\ Len(sent) < MaxPackets
    /\ \E n \in Sizes : sent' = Append(sent, [of |-> Len(sent) + 1, from |-> 0, len |-> n])
    /\ UNCHANGED <<got, open, ended, broken, silent>>

Deliver ==
    /\ ended = "no" /\ Len(got) < Len(sent)
    /\ got' = Append(got, sent[Len(got) + 1])
    /\ UNCHANGED <<sent, open, ended, broken, silent>>

Close ==
    /\ open /\ open' = FALSE
    /\ UNCHANGED <<sent, got, ended, broken, silent>>

End ==
    /\ ended = "no"
    /\ \/ ended' = "error" /\ broken
       \/ ended' = "eof" /\ (MayCut \/ silent \/ (~open /\ got = sent))
    /\ UNCHANGED <<sent, got, open, broken, silent>>

Break ==
    /\ broken' \in {broken, TRUE} /\ silent' \in {silent, TRUE}
    /\ UNCHANGED <<sent, got, open, ended>>

Next == Send \/ Deliver \/ Close \/ End \/ Break

Spec == Init /\ [][Next]_channelVars
=============================================================================
