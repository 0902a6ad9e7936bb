--------------------------- MODULE MessageChannel ---------------------------
(***************************************************************************)
(* What a THMessageQueue promises its two threads: a bounded channel that  *)
(* delivers every message once, whole, and in the order it was sent.       *)
(* Both histories are kept, so a message in transit is one of "sent" that  *)
(* is not yet matched in "taken".                                          *)
(***************************************************************************)
EXTENDS Naturals, Sequences

CONSTANTS
    Message,   \* what can be sent
    Slots      \* how many messages fit in transit

VARIABLES sent, taken

channelVars == <<sent, taken>>

Init == sent = <<>> /\ taken = <<>>

InTransit == Len(sent) - Len(taken)

Put(m) ==
    /\ InTransit < Slots
    /\ sent' = Append(sent, m)
    /\ UNCHANGED taken

Take ==
    /\ Len(taken) < Len(sent)
    /\ taken' = Append(taken, sent[Len(taken) + 1])
    /\ UNCHANGED sent

Next == Take \/ \E m \in Message : Put(m)

Spec == Init /\ [][Next]_channelVars

=============================================================================
