------------------------------- MODULE PostBox -------------------------------
(***************************************************************************)
(* What a Mailbox promises its two threads: what is posted stays in the    *)
(* box until it is read, and is read once and in the order it was posted.  *)
(***************************************************************************)
EXTENDS Sequences

CONSTANT Mail   \* what can be posted

VARIABLE box    \* the messages posted and not yet read

Init == box = <<>>

Put(m) == box' = Append(box, m)

Take == box # <<>> /\ box' = Tail(box)

Next == Take \/ \E m \in Mail : Put(m)

Spec == Init /\ [][Next]_box
=============================================================================
