---------------------------- MODULE MessageQueue ----------------------------
(***************************************************************************)
(* THMessageQueue (Libraries/LibThread/MessageQueue.c): one writer thread  *)
(* and one reader thread share a ring of framed messages and a counting    *)
(* semaphore.  The writer's th_message_send and the reader's               *)
(* th_message_wait and th_message_try_read are interleaved at every access *)
(* to shared state: the lazily installed mapping, the two offsets, the     *)
(* cells and the semaphore.                                                *)
(*                                                                         *)
(* The argument checks of the three calls (null, uninitialised, size 0,    *)
(* alignment) are preconditions here: they return before touching shared   *)
(* state.  The reader/writer claim lets one thread in on each side; here   *)
(* each side has exactly one thread.                                       *)
(***************************************************************************)
EXTENDS RingBuffer, Sequences

CONSTANTS
    HeaderSize,   \* sizeof(THMessage), in cells
    Sizes,        \* the data sizes the writer sends, in cells
    ReadOps,      \* the calls the reader makes: "wait", "try_read"
    SharedThread, \* TRUE: both ends on one thread, as layout_frame and
                  \* render_frame are, so that calls do not overlap
    MaxSends,     \* bound: calls of th_message_send
    MaxFailures   \* bound: failures of mkstemp/mmap and of tclone

ASSUME QueueAssumption ==
    /\ HeaderSize \in Nat \ {0}
    /\ Sizes \subseteq Nat \ {0}
    /\ ReadOps \subseteq {"wait", "try_read"}
    /\ SharedThread \in BOOLEAN
    /\ MaxSends \in Nat
    /\ MaxFailures \in Nat

VARIABLES
    messages,   \* the value of the semaphore q->messages
    wpc,        \* where the writer is in th_message_send
    wmsg,       \* the message it is sending
    wptr,       \* the mapping its write pointer points into
    rpc,        \* where the reader is in its call
    rop,        \* which call that is
    rmsg,       \* the header it read, then the data it cloned
    attempts,   \* number of th_message_send calls so far
    failures,   \* number of environment failures so far
    sent,       \* history: messages passed to ring_buffer_produce
    starts,     \* history: the write offset of each of them
    taken       \* history: messages the reader consumed, as it read them

writerVars == <<wpc, wmsg, wptr, attempts>>
readerVars == <<rpc, rop, rmsg>>
history    == <<sent, starts, taken>>
vars == <<items, memory, read_offset, write_offset, messages,
          wpc, wmsg, wptr, rpc, rop, rmsg, attempts, failures,
          sent, starts, taken>>

(* A message is its number among the sends and its size.  Zero is what     *)
(* zero-filled memory says when it is read as a header; number 0 with a    *)
(* size marks data that is not all of one message.                         *)
Message == [id : 1 .. MaxSends, size : Sizes]
Zero    == [id |-> 0, size |-> 0]
Datum   == [id : 0 .. MaxSends, size : Sizes \union {0}]

Bytes(m) == HeaderSize + m.size

WriterPCs == {"idle", "map", "install", "room",
              "header", "payload", "produce", "signal"}
ReaderPCs == {"idle", "map", "install", "look", "sem", "check",
              "header", "clone", "consume", "take", "resignal", "trapped"}

TypeOK ==
    /\ items \in Mappings \union {"none"}
    /\ memory \in [Mappings -> [Cells -> Datum]]
    /\ read_offset \in 0 .. OffsetModulus - 1
    /\ write_offset \in 0 .. OffsetModulus - 1
    /\ messages \in Nat
    /\ wpc \in WriterPCs
    /\ wmsg \in Datum
    /\ wptr \in Mappings \union {"none"}
    /\ rpc \in ReaderPCs
    /\ rop \in {"wait", "try_read"}
    /\ rmsg \in Datum
    /\ attempts \in 0 .. MaxSends
    /\ failures \in 0 .. MaxFailures
    /\ sent \in Seq(Message)
    /\ starts \in Seq(Nat)
    /\ taken \in Seq(Datum)

Init ==
    /\ RingInit(Zero)
    /\ messages = 0
    /\ wpc = "idle" /\ wmsg = Zero /\ wptr = "none"
    /\ rpc = "idle" /\ rop = "wait" /\ rmsg = Zero
    /\ attempts = 0
    /\ failures = 0
    /\ sent = <<>> /\ starts = <<>> /\ taken = <<>>

EnvironmentFails == failures < MaxFailures /\ failures' = failures + 1

-----------------------------------------------------------------------------
(* th_message_send, the writer's call                                      *)

Send(size) ==
    /\ wpc = "idle"
    /\ SharedThread => rpc = "idle"
    /\ attempts < MaxSends
    /\ attempts' = attempts + 1
    /\ wmsg' = [id |-> attempts + 1, size |-> size]
    /\ wpc' = "map"
    /\ UNCHANGED <<ringVars, messages, wptr, readerVars, failures, history>>

WriterGoto(pc) ==
    /\ wpc' = pc
    /\ UNCHANGED <<wmsg, wptr, attempts>>

(* ring_buffer_ensure_initialized looks at rb->items without any lock, and *)
(* several system calls later overwrites it.                               *)
WriterEnsure ==
    /\ wpc = "map"
    /\ \/ items # "none" /\ WriterGoto("room") /\ UNCHANGED failures
       \/ items = "none" /\ WriterGoto("install") /\ UNCHANGED failures
       \/ items = "none" /\ WriterGoto("idle") /\ EnvironmentFails
    /\ UNCHANGED <<ringVars, messages, readerVars, history>>

WriterInstall ==
    /\ wpc = "install"
    /\ items' = "writer"
    /\ WriterGoto("room")
    /\ UNCHANGED <<memory, read_offset, write_offset, messages, readerVars,
                   failures, history>>

(* Mutant: a full queue is signalled anyway.                               *)
CheckRoom_SignalsAnyway ==
    /\ wpc = "room"
    /\ WriterGoto(IF RingSizeLeft < Bytes(wmsg) THEN "signal" ELSE "header")
    /\ UNCHANGED <<ringVars, messages, readerVars, failures, history>>

(* No room: EAGAIN, and the message is not sent.                           *)
CheckRoom ==
    /\ wpc = "room"
    /\ WriterGoto(IF RingSizeLeft < Bytes(wmsg) THEN "idle" ELSE "header")
    /\ UNCHANGED <<ringVars, messages, readerVars, failures, history>>

WriteHeader ==
    /\ wpc = "header"
    /\ wptr' = items
    /\ WriteRun(items, write_offset, HeaderSize, wmsg)
    /\ wpc' = "payload"
    /\ UNCHANGED <<items, read_offset, write_offset, messages, wmsg, attempts,
                   readerVars, failures, history>>

WritePayload ==
    /\ wpc = "payload"
    /\ WriteRun(wptr, write_offset + HeaderSize, wmsg.size, wmsg)
    /\ WriterGoto("produce")
    /\ UNCHANGED <<items, read_offset, write_offset, messages, readerVars,
                   failures, history>>

ProduceMessage ==
    /\ wpc = "produce"
    /\ Produce(Bytes(wmsg))
    /\ sent' = Append(sent, wmsg)
    /\ starts' = Append(starts, write_offset)
    /\ WriterGoto("signal")
    /\ UNCHANGED <<items, memory, read_offset, messages, readerVars,
                   failures, taken>>

(* Mutant: a flag instead of a counting semaphore.                         *)
SignalMessage_Flag ==
    /\ wpc = "signal"
    /\ messages' = 1
    /\ WriterGoto("idle")
    /\ UNCHANGED <<ringVars, readerVars, failures, history>>

SignalMessage ==
    /\ wpc = "signal"
    /\ messages' = messages + 1
    /\ WriterGoto("idle")
    /\ UNCHANGED <<ringVars, readerVars, failures, history>>

WriterStep ==
    \/ WriterEnsure \/ WriterInstall \/ CheckRoom \/ WriteHeader
    \/ WritePayload \/ ProduceMessage \/ SignalMessage

-----------------------------------------------------------------------------
(* th_message_wait and th_message_try_read, the reader's calls             *)

ReaderGoto(pc) == rpc' = pc /\ UNCHANGED <<rop, rmsg>>

(* Both calls start with MEMZERO(out); only try_read makes sure that the   *)
(* ring is mapped.                                                         *)
BeginRead ==
    /\ rpc = "idle"
    /\ SharedThread => wpc = "idle"
    /\ rop' \in ReadOps
    /\ rpc' = IF rop' = "wait" THEN "sem" ELSE "map"
    /\ rmsg' = Zero
    /\ UNCHANGED <<ringVars, messages, writerVars, failures, history>>

ReaderEnsure ==
    /\ rpc = "map"
    /\ \/ items # "none" /\ ReaderGoto("look") /\ UNCHANGED failures
       \/ items = "none" /\ ReaderGoto("install") /\ UNCHANGED failures
       \/ items = "none" /\ ReaderGoto("idle") /\ EnvironmentFails
    /\ UNCHANGED <<ringVars, messages, writerVars, history>>

ReaderInstall ==
    /\ rpc = "install"
    /\ items' = "reader"
    /\ ReaderGoto("look")
    /\ UNCHANGED <<memory, read_offset, write_offset, messages, writerVars,
                   failures, history>>

(* try_read: nothing there, or less than a message there (C_ASSERT).       *)
LookForMessage ==
    /\ rpc = "look"
    /\ ReaderGoto(IF RingSize > HeaderSize THEN "header" ELSE "idle")
    /\ UNCHANGED <<ringVars, messages, writerVars, failures, history>>

SemaphoreWait ==
    /\ rpc = "sem"
    /\ messages > 0
    /\ messages' = messages - 1
    /\ ReaderGoto("check")
    /\ UNCHANGED <<ringVars, writerVars, failures, history>>

(* wait: a token without a message gives the token back (C_ASSERT).        *)
CheckSize ==
    /\ rpc = "check"
    /\ ReaderGoto(IF RingSize > HeaderSize THEN "header" ELSE "resignal")
    /\ UNCHANGED <<ringVars, messages, writerVars, failures, history>>

ReadHeader ==
    /\ rpc = "header"
    /\ rmsg' = memory[items][CellAt(read_offset)]
    /\ rpc' = "clone"
    /\ UNCHANGED <<ringVars, messages, writerVars, rop, failures, history>>

(* tclone copies as many cells as the header says.  It can fail: the       *)
(* temporary arena is a fixed buffer.                                      *)
CloneData ==
    /\ rpc = "clone"
    /\ \/ /\ rpc' = "consume"
          /\ rmsg' = IF \A c \in Run(read_offset, Bytes(rmsg)) :
                           memory[items][c] = rmsg
                     THEN rmsg ELSE [id |-> 0, size |-> rmsg.size]
          /\ UNCHANGED <<rop, failures>>
       \/ /\ EnvironmentFails
          /\ ReaderGoto(IF rop = "wait" THEN "resignal" ELSE "idle")
    /\ UNCHANGED <<ringVars, messages, writerVars, history>>

(* Mutants: the header is not consumed; try_read leaves its token.         *)
ConsumeMessage_DataOnly ==
    /\ rpc = "consume"
    /\ Consume(rmsg.size)
    /\ taken' = Append(taken, rmsg)
    /\ ReaderGoto(IF rop = "wait" THEN "idle" ELSE "take")
    /\ UNCHANGED <<items, memory, write_offset, messages, writerVars, failures,
                   sent, starts>>

ConsumeMessage_LeavesToken ==
    /\ rpc = "consume"
    /\ Consume(Bytes(rmsg))
    /\ taken' = Append(taken, rmsg)
    /\ ReaderGoto("idle")
    /\ UNCHANGED <<items, memory, write_offset, messages, writerVars, failures,
                   sent, starts>>

ConsumeMessage ==
    /\ rpc = "consume"
    /\ Consume(Bytes(rmsg))
    /\ taken' = Append(taken, rmsg)
    /\ ReaderGoto(IF rop = "wait" THEN "idle" ELSE "take")
    /\ UNCHANGED <<items, memory, write_offset, messages, writerVars, failures,
                   sent, starts>>

(* VERIFY(th_sem_wait_for(&q->messages, 0).ok): the semaphore is polled,   *)
(* and when it has no token the process dies.                              *)
TakeToken ==
    /\ rpc = "take"
    /\ IF messages > 0
       THEN messages' = messages - 1 /\ ReaderGoto("idle")
       ELSE ReaderGoto("trapped") /\ UNCHANGED messages
    /\ UNCHANGED <<ringVars, writerVars, failures, history>>

GiveTokenBack ==
    /\ rpc = "resignal"
    /\ messages' = messages + 1
    /\ ReaderGoto("idle")
    /\ UNCHANGED <<ringVars, writerVars, failures, history>>

ReaderStep ==
    \/ BeginRead \/ ReaderEnsure \/ ReaderInstall \/ LookForMessage
    \/ SemaphoreWait \/ CheckSize \/ ReadHeader \/ CloneData
    \/ ConsumeMessage \/ TakeToken \/ GiveTokenBack

-----------------------------------------------------------------------------
Next ==
    /\ rpc # "trapped"
    /\ \/ \E size \in Sizes : Send(size)
       \/ WriterStep
       \/ ReaderStep

Spec == Init /\ [][Next]_vars

-----------------------------------------------------------------------------
(* Properties                                                              *)

(* The ring promises room for messages of at least HeaderSize + 1 cells.   *)
Channel == INSTANCE MessageChannel
             WITH Slots <- Capacity \div (HeaderSize + 1)

(* The queue implements the bounded FIFO channel: th_message_send and the  *)
(* two reads together lose, duplicate, reorder and tear no message, and    *)
(* never hold more than fits.                                              *)
ImplementsChannel == Channel!Spec

Unread == Len(taken) + 1 .. Len(sent)

(* Every byte of a message that was produced and not yet consumed is still *)
(* in the mapping the reader will read: the writer's room check keeps it   *)
(* off them although it works from an old read offset.                     *)
UnreadIntact ==
    \A i \in Unread : \A c \in Run(starts[i], Bytes(sent[i])) :
        memory[items][c] = sent[i]

Count(condition) == IF condition THEN 1 ELSE 0

(* The semaphore counts the unread messages, except between a produce and  *)
(* its signal, and while the reader holds a token without having consumed  *)
(* (wait) or has consumed without having taken its token (try_read).       *)
TokensMatch ==
    messages + Count(wpc = "signal")
             + Count(rop = "wait" /\ rpc \in {"check", "header", "clone",
                                              "consume", "resignal"})
      = Len(sent) - Len(taken) + Count(rpc \in {"take", "trapped"})

(* A reader that got a token finds a whole message: the C_ASSERT on        *)
(* buffer_size in th_message_wait never fails.                             *)
TokenMeansMessage == rpc = "check" => RingSize > HeaderSize

(* Offsets stay in order: the C_ASSERT(count >= 0) of ring_buffer_size.    *)
OffsetsInOrder == write_offset >= read_offset

(* The VERIFY of th_message_try_read holds: a message that is there has    *)
(* its token there.                                                        *)
NeverTraps == rpc # "trapped"

(* th_message_try_read sees no message or at least a whole one: its        *)
(* C_ASSERT on buffer_size.                                                *)
WholeOrNothing == rpc = "look" => RingSize = 0 \/ RingSize > HeaderSize
=============================================================================
