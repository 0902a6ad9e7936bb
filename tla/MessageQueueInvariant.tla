------------------------ MODULE MessageQueueInvariant ------------------------
(***************************************************************************)
(* A message queue used within its limits, and the inductive invariant     *)
(* that explains why it then implements a channel.                         *)
(***************************************************************************)
EXTENDS MessageQueue

(* A frame is smaller than the ring.  The room check of th_message_send    *)
(* would also let a frame pass that fills the ring exactly.                *)
ASSUME FramesFit == \A size \in Sizes : HeaderSize + size < Capacity

(* The offsets do not wrap: less than 2^32 bytes pass through the queue.   *)
ASSUME NoWrap == MaxSends * Capacity < OffsetModulus

(* No two threads install the mapping: it is there from the start, or the  *)
(* reader only waits, which installs none, or there is only one thread.    *)
ASSUME SingleMapper == LazyInit => ReadOps = {"wait"} \/ SharedThread

-----------------------------------------------------------------------------
(* The offset at which message i starts, or will start when it is sent.    *)
StartOf(i) == IF i = Len(sent) + 1 THEN write_offset ELSE starts[i]

(* The sent messages lie one after the other, each as long as its frame,   *)
(* and the reader is at the first one it has not taken.                    *)
Layout ==
    /\ Len(starts) = Len(sent)
    /\ Len(taken) <= Len(sent)
    /\ read_offset = StartOf(Len(taken) + 1)
    /\ \A i \in 1 .. Len(sent) : StartOf(i + 1) = starts[i] + Bytes(sent[i])
    /\ \A i \in 1 .. Len(sent) :
          write_offset - starts[i] >= (Len(sent) - i + 1) * (HeaderSize + 1)
    /\ \A i \in 1 .. Len(sent) : starts[i] + Bytes(sent[i]) <= write_offset
    /\ \A i, j \in 1 .. Len(sent) :
          i < j => starts[i] + Bytes(sent[i]) <= starts[j]
    /\ write_offset - read_offset <= Capacity

(* Nothing wraps: at most Capacity cells per send.                         *)
Bounded ==
    /\ write_offset <= Len(sent) * Capacity
    /\ Len(sent) <= attempts
    /\ wpc \notin {"idle", "signal"} => Len(sent) < attempts

TakenInOrder == \A i \in 1 .. Len(taken) : taken[i] = sent[i]

(* Who may map the ring, and when it is mapped.                            *)
Mapped ==
    /\ ~LazyInit => items = "init"
    /\ LazyInit /\ ~SharedThread =>
         rpc \notin {"map", "install", "look", "take", "trapped"}
    /\ SharedThread => wpc = "idle" \/ rpc = "idle"
    /\ rpc = "install" => items = "none"
    /\ wpc \in {"room", "header", "payload", "produce", "signal"}
         => items # "none"
    /\ wpc = "install" => items = "none"
    /\ rpc = "look" => items # "none"
    /\ Len(sent) > 0 => items # "none"

(* What the writer knows in the middle of a send: the room it was granted  *)
(* is still there, and what it wrote is what it sends.                     *)
WriterKnows ==
    /\ wpc # "idle" => wmsg \in Message
    /\ wpc \in {"header", "payload", "produce"} =>
         write_offset + Bytes(wmsg) - read_offset <= Capacity
    /\ wpc \in {"payload", "produce"} =>
         /\ wptr = items
         /\ \A c \in Run(write_offset, HeaderSize) : memory[items][c] = wmsg
    /\ wpc = "produce" =>
         \A c \in Run(write_offset, Bytes(wmsg)) : memory[items][c] = wmsg

(* What the reader knows in the middle of a read.                          *)
ReaderKnows ==
    /\ rpc # "idle" => rop \in ReadOps
    /\ rpc \in {"sem", "check", "resignal"} => rop = "wait"
    /\ rpc \in {"map", "install", "look", "take", "trapped"}
         => rop = "try_read"
    /\ rpc \in {"header", "clone", "consume"} => Len(taken) < Len(sent)
    /\ rpc \in {"clone", "consume"} => rmsg = sent[Len(taken) + 1]

(* Strengthens UnreadIntact, TokensMatch and the channel's FIFO order to   *)
(* an inductive invariant of the three calls.                              *)
QueueInv ==
    /\ TypeOK
    /\ Layout
    /\ Bounded
    /\ TakenInOrder
    /\ Mapped
    /\ UnreadIntact
    /\ WriterKnows
    /\ ReaderKnows
    /\ TokensMatch
=============================================================================
